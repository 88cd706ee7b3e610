----------------------------- MODULE PluginFiles -----------------------------
(***************************************************************************)
(* The files of the plugin: the PluginConf cache of pkg/cache, written by  *)
(* ADD and read and removed by DEL, and the DeviceInfo file, which         *)
(* updateDeviceInfo of pkg/plugin/plugin.go reads and rewrites in place.   *)
(* The commands of several attachments run at the same time and may be     *)
(* killed anywhere, between the truncation of a file and its writing too.  *)
(*                                                                         *)
(* External: the meta plugin, which puts a DeviceInfo file of its own      *)
(* there for each attachment before the ADD, and the runtime, which runs   *)
(* one command of an attachment at a time and repeats a failed DEL.        *)
(***************************************************************************)
EXTENDS Naturals, Sequences

CONSTANTS
  Attachment,    \* an interface of a sandbox in a network
  Word,          \* what names are made of: words and the dash
  NetworkOf,     \* its network's name, as a sequence of words and dashes
  ContainerOf,   \* its sandbox, one word
  IfnameOf,      \* its interface name, as a sequence of words and dashes
  Given,         \* the DeviceInfo files the meta plugin may provide
  Version,       \* the spec versions of DeviceInfo
  MaxFaults,     \* bound: how many failures and kills happen in all
  NoFile, Torn, NoRep

Old == "1.0.0"      \* unsupportedSpecVersion
Minimal == "1.1.0"  \* minimalSpecVersion

\* A DeviceInfo file: its version, unless missing or no string, whether the
\* `pci' object is there, the representor-device in it, and all the rest.
Info ==
  {i \in [version : Version \cup {"missing", "odd"}, pci : BOOLEAN,
          rep : Attachment \cup {NoRep, "other"}, rest : {"rest"}] :
     i.pci \/ i.rep = NoRep}

ASSUME VersionAssumption == {Old, Minimal} \subseteq Version
ASSUME GivenAssumption == Given \subseteq Info \cup {NoFile, Torn}
ASSUME NameAssumption ==  \* container ids are unique and longer than names
  /\ "-" \in Word
  /\ NetworkOf \in [Attachment -> Seq(Word)] /\ IfnameOf \in [Attachment -> Seq(Word)]
  /\ ContainerOf \in [Attachment -> Word \ {"-"}]
  /\ \A a, b \in Attachment :
       /\ \A i \in 1 .. Len(NetworkOf[b]) : NetworkOf[b][i] # ContainerOf[a]
       /\ \A i \in 1 .. Len(IfnameOf[b]) : IfnameOf[b][i] # ContainerOf[a]
       /\ <<NetworkOf[a], ContainerOf[a], IfnameOf[a]>>
            = <<NetworkOf[b], ContainerOf[b], IfnameOf[b]>> => a = b
ASSUME FileAssumption == {NoFile, Torn} \cap Info = {} /\ NoFile # Torn
ASSUME BoundAssumption == MaxFaults \in Nat

VARIABLES
  pc,      \* pc[a]: where the command of a is; "new", "up", "failed", ...
  conf,    \* conf[a]: whose PluginConf the DEL of a works with
  devInfo, \* devInfo[a]: the DeviceInfo in the memory of a's ADD
  cached,  \* cached[r]: whose PluginConf the file r in CacheDir holds
  info,    \* info[a]: the DeviceInfo file of a
  given,   \* history: what the meta plugin provided
  current, \* history: updateDeviceInfo of a returned no error
  faults   \* failures and kills so far

vars == <<pc, conf, devInfo, cached, info, given, current, faults>>

AddPc == {"truncate", "write", "read", "change", "truncateInfo", "writeInfo"}
DelPc == {"load", "work", "remove"}
AtRest == {"new", "up", "failed", "leaving", "done"}

\* The file name: the parts joined with dashes.
GetStateRefNoIfname(a) == NetworkOf[a] \o <<"-", ContainerOf[a]>>  \* mutant
GetStateRef(a) == NetworkOf[a] \o <<"-", ContainerOf[a], "-">> \o IfnameOf[a]

Init ==
  /\ pc = [a \in Attachment |-> "new"]
  /\ conf = [a \in Attachment |-> NoFile]
  /\ devInfo = [a \in Attachment |-> NoFile]
  /\ cached = [r \in {GetStateRef(a) : a \in Attachment} |-> NoFile]
  /\ info = [a \in Attachment |-> NoFile]
  /\ given = [a \in Attachment |-> NoFile]
  /\ current = [a \in Attachment |-> FALSE]
  /\ faults = 0

Goto(a, from, to) == pc[a] = from /\ pc' = [pc EXCEPT ![a] = to]
Write(a, x) == cached' = [cached EXCEPT ![GetStateRef(a)] = x]
Fault == faults < MaxFaults /\ faults' = faults + 1

(***************************************************************************)
(* ADD, once the VF is set up: Save, then updateDeviceInfo.                *)
(***************************************************************************)
StartAdd(a, i) ==
  /\ Goto(a, "new", "truncate")
  /\ info' = [info EXCEPT ![a] = i] /\ given' = [given EXCEPT ![a] = i]
  /\ UNCHANGED <<conf, devInfo, cached, current, faults>>

\* os.WriteFile: O_TRUNC first, the bytes later.
TruncateCache(a) ==
  /\ Goto(a, "truncate", "write")
  /\ Write(a, Torn)
  /\ UNCHANGED <<conf, devInfo, info, given, current, faults>>

WriteCache(a) ==
  /\ Goto(a, "write", "read")
  /\ Write(a, a)
  /\ UNCHANGED <<conf, devInfo, info, given, current, faults>>

\* MkdirAll, the opening or the writing of the file fails: so does ADD.
SaveFails(a) ==
  /\ pc[a] \in {"truncate", "write"} /\ Fault
  /\ pc' = [pc EXCEPT ![a] = "failed"]
  /\ UNCHANGED <<conf, devInfo, cached, info, given, current>>

\* Unless there is a file that makes sense, updateDeviceInfo returns an
\* error, which does not keep ADD from reporting success.
ReadableNoPci(i) == i \notin {NoFile, Torn} /\ i.version \in Version  \* mutant
Readable(i) == i \notin {NoFile, Torn} /\ i.version \in Version /\ i.pci

ReadInfo(a) ==
  /\ Goto(a, "read", IF Readable(info[a]) THEN "change" ELSE "up")
  /\ devInfo' = [devInfo EXCEPT ![a] = IF Readable(info[a]) THEN info[a] ELSE NoFile]
  /\ UNCHANGED <<conf, cached, info, given, current, faults>>

UpgradedAll(v) == Minimal  \* mutant: whatever the version is
Upgraded(v) == IF v = Old THEN Minimal ELSE v
WithRep(i, a) == [i EXCEPT !.version = Upgraded(@), !.rep = a]

\* A file that names the representor already is left as it is, its version
\* included.
SkipAnyRep(a) ==  \* mutant: whatever representor the file names
  /\ Goto(a, "change", "up")
  /\ devInfo[a].rep # NoRep
  /\ devInfo' = [devInfo EXCEPT ![a] = NoFile]
  /\ current' = [current EXCEPT ![a] = TRUE]
  /\ UNCHANGED <<conf, cached, info, given, faults>>
Skip(a) ==
  /\ Goto(a, "change", "up")
  /\ devInfo[a].rep = a
  /\ devInfo' = [devInfo EXCEPT ![a] = NoFile]
  /\ current' = [current EXCEPT ![a] = TRUE]
  /\ UNCHANGED <<conf, cached, info, given, faults>>

Change(a) ==
  /\ Goto(a, "change", "truncateInfo")
  /\ devInfo[a].rep # a
  /\ devInfo' = [devInfo EXCEPT ![a] = WithRep(@, a)]
  /\ UNCHANGED <<conf, cached, info, given, current, faults>>

TruncateInfo(a) ==
  /\ Goto(a, "truncateInfo", "writeInfo")
  /\ info' = [info EXCEPT ![a] = Torn]
  /\ UNCHANGED <<conf, devInfo, cached, given, current, faults>>

WriteInfo(a) ==
  /\ Goto(a, "writeInfo", "up")
  /\ info' = [info EXCEPT ![a] = devInfo[a]]
  /\ devInfo' = [devInfo EXCEPT ![a] = NoFile]
  /\ current' = [current EXCEPT ![a] = TRUE]
  /\ UNCHANGED <<conf, cached, given, faults>>

\* The file cannot be read, opened or written: an error, and ADD goes on.
UpdateFails(a) ==
  /\ pc[a] \in {"read", "truncateInfo", "writeInfo"} /\ Fault
  /\ pc' = [pc EXCEPT ![a] = "up"]
  /\ devInfo' = [devInfo EXCEPT ![a] = NoFile]
  /\ UNCHANGED <<conf, cached, info, given, current>>

(***************************************************************************)
(* DEL; a failed ADD is answered with one, and so is one that succeeded.   *)
(***************************************************************************)
StartDel(a) ==
  /\ pc[a] \in AtRest \ {"new"}
  /\ pc' = [pc EXCEPT ![a] = "load"]
  /\ UNCHANGED <<conf, devInfo, cached, info, given, current, faults>>

\* Without a file, or with half a one, DEL is done; the half stays.
Load(a) ==
  LET c == cached[GetStateRef(a)]
  IN  /\ Goto(a, "load", IF c \in {NoFile, Torn} THEN "done" ELSE "work")
      /\ conf' = [conf EXCEPT ![a] = IF c \in {NoFile, Torn} THEN NoFile ELSE c]
      /\ UNCHANGED <<devInfo, cached, info, given, current, faults>>

\* Nor does it go on if a file that is there cannot be read, which stays.
LoadFails(a) ==
  /\ Goto(a, "load", "done") /\ Fault
  /\ UNCHANGED <<conf, devInfo, cached, info, given, current>>

\* The rest of DEL, which works on the VF of conf[a]; after an error the
\* file is kept for the next DEL.
Work(a) ==
  /\ Goto(a, "work", "remove")
  /\ UNCHANGED <<conf, devInfo, cached, info, given, current, faults>>

WorkFails(a) ==
  /\ Goto(a, "work", "leaving") /\ Fault
  /\ conf' = [conf EXCEPT ![a] = NoFile]
  /\ UNCHANGED <<devInfo, cached, info, given, current>>

\* The deferred Delete, whose error is ignored.
Remove(a) ==
  /\ Goto(a, "remove", "done")
  /\ conf' = [conf EXCEPT ![a] = NoFile]
  /\ \/ Write(a, NoFile) /\ UNCHANGED faults
     \/ Fault /\ UNCHANGED cached
  /\ UNCHANGED <<devInfo, info, given, current>>

\* A killed ADD has failed, a killed DEL is repeated.
Kill(a) ==
  /\ pc[a] \notin AtRest /\ Fault
  /\ pc' = [pc EXCEPT ![a] = IF @ \in AddPc THEN "failed" ELSE "leaving"]
  /\ conf' = [conf EXCEPT ![a] = NoFile]
  /\ devInfo' = [devInfo EXCEPT ![a] = NoFile]
  /\ UNCHANGED <<cached, info, given, current>>

Next ==
  \E a \in Attachment :
    \/ \E i \in Given : StartAdd(a, i)
    \/ TruncateCache(a) \/ WriteCache(a) \/ SaveFails(a)
    \/ ReadInfo(a) \/ Skip(a) \/ Change(a) \/ TruncateInfo(a) \/ WriteInfo(a)
    \/ UpdateFails(a)
    \/ StartDel(a) \/ Load(a) \/ LoadFails(a) \/ Work(a) \/ WorkFails(a) \/ Remove(a)
    \/ Kill(a)

Spec == Init /\ [][Next]_vars

(***************************************************************************)
(* Properties.                                                             *)
(***************************************************************************)
TypeOK ==
  /\ pc \in [Attachment -> AddPc \cup DelPc \cup AtRest]
  /\ conf \in [Attachment -> Attachment \cup {NoFile}]
  /\ devInfo \in [Attachment -> Info \cup {NoFile}]
  /\ cached \in [{GetStateRef(a) : a \in Attachment} -> Attachment \cup {NoFile, Torn}]
  /\ info \in [Attachment -> Info \cup {NoFile, Torn}]
  /\ given \in [Attachment -> Given \cup {NoFile}]
  /\ current \in [Attachment -> BOOLEAN]
  /\ faults \in 0 .. MaxFaults

\* A DEL works with the PluginConf its own ADD saved or with none, and the
\* file of an attachment stays whole until its own DEL: neither the ADD nor
\* the DEL of another one, killed or not, writes or removes it, dashes in
\* the names or not.
CacheIsolated ==
  \A a \in Attachment :
    /\ pc[a] \in {"work", "remove"} => conf[a] = a
    /\ pc[a] \in {"up", "work"} => cached[GetStateRef(a)] = a

\* Whatever happens to an ADD, its DeviceInfo file is the one that was given
\* or that one with the representor and, in place of 1.0.0, version 1.1.0;
\* it is torn only while it is being written or by a failure in there.
InfoPreserved ==
  \A a \in Attachment :
    LET g == given[a]  i == info[a]
    IN  \/ i = g
        \/ i = Torn /\ (pc[a] = "writeInfo" \/ faults > 0)
        \/ /\ Readable(g) /\ i.rep = a
           /\ i = [g EXCEPT !.rep = a,
                            !.version = IF @ = Old /\ g.rep # a THEN Minimal ELSE @]

\* Where updateDeviceInfo returned no error, the file names the VF's
\* representor.
InfoCurrent ==
  \A a \in Attachment : current[a] => info[a] \in Info /\ info[a].rep = a

(***************************************************************************)
(* Why they hold: the inductive invariants.                                *)
(***************************************************************************)
\* A cache file is a's, torn or absent; it is a's from the end of Save to the
\* end of the DEL that loaded it.
CacheKept ==
  \A a \in Attachment :
    LET c == cached[GetStateRef(a)]
    IN  /\ c \in {a, NoFile, Torn}
        /\ pc[a] \in {"read", "change", "truncateInfo", "writeInfo", "up", "work"} => c = a
        /\ pc[a] \in {"work", "remove"} => conf[a] = a

\* A DeviceInfo file is as given until TruncateInfo, and what goes into it
\* afterwards has been computed from it.
InfoKept ==
  \A a \in Attachment :
    LET g == given[a]
    IN  /\ pc[a] = "new" => info[a] = NoFile /\ g = NoFile
        /\ pc[a] \in {"truncate", "write", "read", "change", "truncateInfo"} => info[a] = g
        /\ pc[a] = "change" => Readable(g) /\ devInfo[a] = g
        /\ pc[a] \in {"truncateInfo", "writeInfo"} =>
             /\ Readable(g) /\ g.rep # a
             /\ devInfo[a] = WithRep(g, a)
        /\ pc[a] = "writeInfo" => info[a] = Torn
        /\ pc[a] \in AddPc \cup {"new"} => ~current[a]

\* All of it.
FilesKept == TypeOK /\ CacheKept /\ InfoKept /\ InfoPreserved /\ InfoCurrent
=============================================================================
