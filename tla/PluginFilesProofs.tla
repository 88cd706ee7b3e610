-------------------------- MODULE PluginFilesProofs --------------------------
(***************************************************************************)
(* Proofs about PluginFiles, for any attachments, names and DeviceInfo     *)
(* files, and any bound on the failures.                                   *)
(***************************************************************************)
EXTENDS PluginFiles, SequenceTheorems, TLAPS

(***************************************************************************)
(* The file names.                                                         *)
(***************************************************************************)
\* What stands where in a file name.
LEMMA RefParts ==
  ASSUME NEW a \in Attachment
  PROVE  LET n == NetworkOf[a]  f == IfnameOf[a]  r == GetStateRef(a)
         IN  /\ r \in Seq(Word)
             /\ Len(r) = Len(n) + 3 + Len(f)
             /\ \A i \in 1 .. Len(n) : r[i] = n[i]
             /\ r[Len(n) + 1] = "-" /\ r[Len(n) + 2] = ContainerOf[a] /\ r[Len(n) + 3] = "-"
             /\ \A i \in 1 .. Len(f) : r[Len(n) + 3 + i] = f[i]
<1> DEFINE n == NetworkOf[a]  f == IfnameOf[a]  c == ContainerOf[a]  m == <<"-", c, "-">>
<1>1. n \in Seq(Word) /\ f \in Seq(Word) /\ c \in Word /\ "-" \in Word
  BY NameAssumption
<1>2. GetStateRef(a) = (n \o m) \o f
  BY DEF GetStateRef
<1> HIDE DEF n, f, c
<1>3. m \in Seq(Word) /\ Len(m) = 3 /\ m[1] = "-" /\ m[2] = c /\ m[3] = "-"
  BY <1>1
<1> HIDE DEF m
<1>4. /\ Len(n) \in Nat /\ Len(f) \in Nat
      /\ n \o m \in Seq(Word) /\ Len(n \o m) = Len(n) + 3
      /\ \A i \in 1 .. Len(n) + 3 :
           (n \o m)[i] = IF i <= Len(n) THEN n[i] ELSE m[i - Len(n)]
  <2>1. Len(n) \in Nat /\ Len(f) \in Nat
    BY <1>1, LenProperties
  <2>2. n \o m \in Seq(Word) /\ Len(n \o m) = Len(n) + Len(m)
    BY <1>1, <1>3, ConcatProperties
  <2>3. \A i \in 1 .. Len(n) + Len(m) :
          (n \o m)[i] = IF i <= Len(n) THEN n[i] ELSE m[i - Len(n)]
    BY <1>1, <1>3, ConcatProperties, Zenon
  <2> QED
    BY <1>3, <2>1, <2>2, <2>3
<1> DEFINE p == n \o m
<1> HIDE DEF p
<1>5. /\ p \in Seq(Word) /\ Len(p) = Len(n) + 3
      /\ \A i \in 1 .. Len(n) + 3 : p[i] = IF i <= Len(n) THEN n[i] ELSE m[i - Len(n)]
  BY <1>4 DEF p
<1>6. /\ p \o f \in Seq(Word) /\ Len(p \o f) = Len(p) + Len(f)
      /\ \A i \in 1 .. Len(p) + Len(f) :
           (p \o f)[i] = IF i <= Len(p) THEN p[i] ELSE f[i - Len(p)]
  <2>1. p \in Seq(Word) /\ f \in Seq(Word)
    BY <1>1, <1>5
  <2>2. p \o f \in Seq(Word) /\ Len(p \o f) = Len(p) + Len(f)
    BY <2>1, ConcatProperties
  <2>3. \A i \in 1 .. Len(p) + Len(f) :
          (p \o f)[i] = IF i <= Len(p) THEN p[i] ELSE f[i - Len(p)]
    BY <2>1, ConcatProperties, Zenon
  <2> QED
    BY <2>2, <2>3
<1> DEFINE r == p \o f
<1>7. GetStateRef(a) = r
  BY <1>2 DEF p
<1> HIDE DEF r
<1>8. /\ r \in Seq(Word) /\ Len(r) = Len(n) + 3 + Len(f)
      /\ \A i \in 1 .. Len(n) + 3 + Len(f) :
           r[i] = IF i <= Len(n) + 3 THEN p[i] ELSE f[i - (Len(n) + 3)]
  BY <1>4, <1>5, <1>6 DEF r
<1>9. \A i \in 1 .. Len(n) : r[i] = n[i]
  BY <1>4, <1>5, <1>8
<1>10. r[Len(n) + 1] = "-" /\ r[Len(n) + 2] = c /\ r[Len(n) + 3] = "-"
  <2>1. \A k \in 1 .. 3 : r[Len(n) + k] = p[Len(n) + k]
    BY <1>4, <1>8
  <2>2. \A k \in 1 .. 3 : p[Len(n) + k] = m[Len(n) + k - Len(n)]
    <3> SUFFICES ASSUME NEW k \in 1 .. 3 PROVE p[Len(n) + k] = m[Len(n) + k - Len(n)]
      OBVIOUS
    <3>1. Len(n) + k \in 1 .. Len(n) + 3 /\ ~(Len(n) + k <= Len(n))
      BY <1>4
    <3> QED
      BY <1>5, <3>1
  <2>3. \A k \in 1 .. 3 : Len(n) + k - Len(n) = k
    BY <1>4
  <2> QED
    BY <1>3, <2>1, <2>2, <2>3
<1>11. \A i \in 1 .. Len(f) : r[Len(n) + 3 + i] = f[i]
  <2> SUFFICES ASSUME NEW i \in 1 .. Len(f) PROVE r[Len(n) + 3 + i] = f[i]
    OBVIOUS
  <2>1. r[Len(n) + 3 + i] = f[Len(n) + 3 + i - (Len(n) + 3)]
    BY <1>4, <1>8
  <2>2. Len(n) + 3 + i - (Len(n) + 3) = i
    BY <1>4
  <2> QED
    BY <2>1, <2>2
<1> QED
  BY <1>7, <1>8, <1>9, <1>10, <1>11 DEF n, f, c

\* The container id stands at one place of a file name only.
LEMMA IdPlace ==
  ASSUME NEW a \in Attachment, NEW b \in Attachment,
         NEW i \in 1 .. Len(GetStateRef(b)), GetStateRef(b)[i] = ContainerOf[a]
  PROVE  i = Len(NetworkOf[b]) + 2 /\ ContainerOf[a] = ContainerOf[b]
<1> DEFINE n == NetworkOf[b]  f == IfnameOf[b]  r == GetStateRef(b)  c == ContainerOf[a]
<1>1. c # "-" /\ Len(n) \in Nat /\ Len(f) \in Nat
  BY NameAssumption, LenProperties
<1>2. /\ \A k \in 1 .. Len(n) : n[k] # c
      /\ \A k \in 1 .. Len(f) : f[k] # c
  BY NameAssumption
<1>3. /\ Len(r) = Len(n) + 3 + Len(f)
      /\ \A k \in 1 .. Len(n) : r[k] = n[k]
      /\ r[Len(n) + 1] = "-" /\ r[Len(n) + 2] = ContainerOf[b] /\ r[Len(n) + 3] = "-"
      /\ \A k \in 1 .. Len(f) : r[Len(n) + 3 + k] = f[k]
  BY RefParts
<1> HIDE DEF n, f, r, c
<1>4. i \in 1 .. Len(r) /\ r[i] = c
  BY DEF r, c
<1>5. i \notin 1 .. Len(n)
  BY <1>2, <1>3, <1>4
<1>6. i # Len(n) + 1 /\ i # Len(n) + 3
  BY <1>1, <1>3, <1>4
<1>7. ~ i > Len(n) + 3
  <2> SUFFICES ASSUME i > Len(n) + 3 PROVE FALSE
    OBVIOUS
  <2> DEFINE k == i - (Len(n) + 3)
  <2>1. k \in 1 .. Len(f) /\ i = Len(n) + 3 + k
    BY <1>1, <1>3, <1>4
  <2> HIDE DEF k
  <2> QED
    BY <1>2, <1>3, <1>4, <2>1
<1>8. i = Len(n) + 2
  BY <1>1, <1>4, <1>5, <1>6, <1>7
<1> QED
  BY <1>3, <1>4, <1>8 DEF n, c

\* No two attachments share a file, dashes in the names of networks and
\* interfaces or not.
THEOREM StateRefsDiffer ==
  \A a, b \in Attachment : GetStateRef(a) = GetStateRef(b) => a = b
<1> SUFFICES ASSUME NEW a \in Attachment, NEW b \in Attachment,
                    GetStateRef(a) = GetStateRef(b)
             PROVE  a = b
  OBVIOUS
<1> DEFINE na == NetworkOf[a]  nb == NetworkOf[b]  fa == IfnameOf[a]  fb == IfnameOf[b]
           r == GetStateRef(a)
<1>1. /\ na \in Seq(Word) /\ nb \in Seq(Word) /\ fa \in Seq(Word) /\ fb \in Seq(Word)
      /\ Len(na) \in Nat /\ Len(nb) \in Nat /\ Len(fa) \in Nat /\ Len(fb) \in Nat
  BY NameAssumption, LenProperties
<1>2. /\ Len(r) = Len(na) + 3 + Len(fa)
      /\ \A i \in 1 .. Len(na) : r[i] = na[i]
      /\ r[Len(na) + 2] = ContainerOf[a]
      /\ \A i \in 1 .. Len(fa) : r[Len(na) + 3 + i] = fa[i]
  BY RefParts
<1>3. /\ Len(r) = Len(nb) + 3 + Len(fb)
      /\ \A i \in 1 .. Len(nb) : r[i] = nb[i]
      /\ \A i \in 1 .. Len(fb) : r[Len(nb) + 3 + i] = fb[i]
  <2>1. r = GetStateRef(b)
    OBVIOUS
  <2> HIDE DEF r
  <2> QED
    BY <2>1, RefParts
<1>4. Len(na) + 2 = Len(nb) + 2 /\ ContainerOf[a] = ContainerOf[b]
  <2>1. Len(na) + 2 \in 1 .. Len(GetStateRef(b)) /\ GetStateRef(b)[Len(na) + 2] = ContainerOf[a]
    <3>1. r = GetStateRef(b)
      OBVIOUS
    <3> HIDE DEF r, na, fa
    <3> QED
      BY <1>1, <1>2, <3>1
  <2> QED
    BY <2>1, IdPlace
<1> HIDE DEF na, nb, fa, fb, r
<1>5. Len(na) = Len(nb) /\ Len(fa) = Len(fb)
  BY <1>1, <1>2, <1>3, <1>4 DEF na, nb
<1>6. na = nb
  <2>1. \A i \in 1 .. Len(na) : na[i] = nb[i]
    BY <1>2, <1>3, <1>5
  <2> QED
    BY <1>1, <1>5, <2>1, SeqEqual
<1>7. fa = fb
  <2>1. \A i \in 1 .. Len(fa) : fa[i] = fb[i]
    BY <1>2, <1>3, <1>5
  <2> QED
    BY <1>1, <1>5, <2>1, SeqEqual
<1> QED
  BY <1>4, <1>6, <1>7, NameAssumption DEF na, nb, fa, fb

(***************************************************************************)
(* The invariants.                                                         *)
(***************************************************************************)
\* The steps of one attachment, named once for the case distinctions below.
StepOf(a) ==
  \/ \E i \in Given : StartAdd(a, i)
  \/ TruncateCache(a) \/ WriteCache(a) \/ SaveFails(a)
  \/ ReadInfo(a) \/ Skip(a) \/ Change(a) \/ TruncateInfo(a) \/ WriteInfo(a)
  \/ UpdateFails(a)
  \/ StartDel(a) \/ Load(a) \/ LoadFails(a) \/ Work(a) \/ WorkFails(a) \/ Remove(a)
  \/ Kill(a)

\* A DeviceInfo that is changed stays one.
LEMMA ChangedInfo ==
  ASSUME NEW a \in Attachment, NEW g \in Info, g.pci
  PROVE  WithRep(g, a) \in Info /\ WithRep(g, a).rep = a
<1>1. Upgraded(g.version) \in Version \cup {"missing", "odd"}
  BY VersionAssumption DEF Info, Upgraded
<1> QED
  BY <1>1 DEF Info, WithRep

LEMMA TypeStep ==
  ASSUME TypeOK, InfoKept, Next
  PROVE  TypeOK'
<1> PICK a \in Attachment : StepOf(a)
  BY DEF Next, StepOf
<1> DEFINE Files == {GetStateRef(b) : b \in Attachment}
<1>0. GetStateRef(a) \in Files
  OBVIOUS
<1> USE DEF TypeOK
<1>1. CASE \E i \in Given : StartAdd(a, i)
  BY <1>1, GivenAssumption DEF StartAdd, Goto, AddPc
<1>2. CASE TruncateCache(a)
  BY <1>0, <1>2, BoundAssumption DEF TruncateCache, Goto, Write, AtRest, AddPc, DelPc
<1>3. CASE WriteCache(a)
  BY <1>0, <1>3, BoundAssumption DEF WriteCache, Goto, Write, AtRest, AddPc, DelPc
<1>4. CASE SaveFails(a)
  BY <1>0, <1>4, BoundAssumption DEF SaveFails, Fault, AtRest, AddPc, DelPc
<1>5. CASE ReadInfo(a)
  BY <1>0, <1>5, BoundAssumption DEF ReadInfo, Goto, Readable, AtRest, AddPc, DelPc
<1>6. CASE Skip(a)
  BY <1>0, <1>6, BoundAssumption DEF Skip, Goto, AtRest, AddPc, DelPc
<1>7. CASE Change(a)
  <2>1. Readable(given[a]) /\ devInfo[a] = given[a]
    BY <1>7 DEF Change, Goto, InfoKept
  <2>2. devInfo[a] \in Info /\ devInfo[a].pci
    BY <2>1 DEF Readable
  <2>3. WithRep(devInfo[a], a) \in Info
    BY <2>2, ChangedInfo
  <2> QED
    BY <1>7, <2>3 DEF Change, Goto, AddPc
<1>8. CASE TruncateInfo(a)
  BY <1>0, <1>8, BoundAssumption DEF TruncateInfo, Goto, AtRest, AddPc, DelPc
<1>9. CASE WriteInfo(a)
  BY <1>0, <1>9, BoundAssumption DEF WriteInfo, Goto, AtRest, AddPc, DelPc
<1>10. CASE UpdateFails(a)
  BY <1>0, <1>10, BoundAssumption DEF UpdateFails, Fault, AtRest, AddPc, DelPc
<1>11. CASE StartDel(a)
  BY <1>0, <1>11, BoundAssumption DEF StartDel, AtRest, AddPc, DelPc
<1>12. CASE Load(a)
  BY <1>0, <1>12, BoundAssumption DEF Load, Goto, AtRest, AddPc, DelPc
<1>13. CASE Work(a)
  BY <1>0, <1>13, BoundAssumption DEF Work, Goto, AtRest, AddPc, DelPc
<1>14. CASE WorkFails(a)
  BY <1>0, <1>14, BoundAssumption DEF WorkFails, Goto, Fault, AtRest, AddPc, DelPc
<1>15. CASE Remove(a)
  BY <1>0, <1>15, BoundAssumption DEF Remove, Goto, Write, Fault, AtRest, AddPc, DelPc
<1>16. CASE Kill(a)
  BY <1>0, <1>16, BoundAssumption DEF Kill, Fault, AtRest, AddPc, DelPc
<1>17. CASE LoadFails(a)
  BY <1>0, <1>17, BoundAssumption DEF LoadFails, Goto, Fault, AtRest, AddPc, DelPc
<1> QED
  BY <1>1, <1>2, <1>3, <1>4, <1>5, <1>6, <1>7, <1>8, <1>9, <1>10, <1>11, <1>12, <1>13, <1>14, <1>15, <1>16, <1>17 DEF StepOf
\* The cache files of the others are left alone, because theirs is another.
LEMMA CacheStep ==
  ASSUME TypeOK, CacheKept, Next
  PROVE  CacheKept'
<1> PICK a \in Attachment : StepOf(a)
  BY DEF Next, StepOf
<1> SUFFICES ASSUME NEW b \in Attachment
             PROVE  /\ cached'[GetStateRef(b)] \in {b, NoFile, Torn}
                    /\ pc'[b] \in {"read", "change", "truncateInfo", "writeInfo", "up", "work"}
                         => cached'[GetStateRef(b)] = b
                    /\ pc'[b] \in {"work", "remove"} => conf'[b] = b
  BY DEF CacheKept
<1>1. /\ GetStateRef(b) \in DOMAIN cached
      /\ a # b => GetStateRef(a) # GetStateRef(b)
  BY StateRefsDiffer DEF TypeOK
<1>2. /\ pc \in [Attachment -> AddPc \cup DelPc \cup AtRest]
      /\ conf \in [Attachment -> Attachment \cup {NoFile}]
  BY DEF TypeOK
<1>3. /\ cached[GetStateRef(b)] \in {b, NoFile, Torn}
      /\ pc[b] \in {"read", "change", "truncateInfo", "writeInfo", "up", "work"}
           => cached[GetStateRef(b)] = b
      /\ pc[b] \in {"work", "remove"} => conf[b] = b
  BY DEF CacheKept
<1>4. CASE \E i \in Given : StartAdd(a, i)
  BY <1>1, <1>2, <1>3, <1>4 DEF StartAdd, Goto
<1>5. CASE TruncateCache(a)
  BY <1>1, <1>2, <1>3, <1>5 DEF TruncateCache, Goto, Write
<1>6. CASE WriteCache(a)
  BY <1>1, <1>2, <1>3, <1>6 DEF WriteCache, Goto, Write
<1>7. CASE SaveFails(a)
  BY <1>1, <1>2, <1>3, <1>7 DEF SaveFails
<1>8. CASE ReadInfo(a)
  BY <1>1, <1>2, <1>3, <1>8 DEF ReadInfo, Goto
<1>9. CASE Skip(a)
  BY <1>1, <1>2, <1>3, <1>9 DEF Skip, Goto
<1>10. CASE Change(a)
  BY <1>1, <1>2, <1>3, <1>10 DEF Change, Goto
<1>11. CASE TruncateInfo(a)
  BY <1>1, <1>2, <1>3, <1>11 DEF TruncateInfo, Goto
<1>12. CASE WriteInfo(a)
  BY <1>1, <1>2, <1>3, <1>12 DEF WriteInfo, Goto
<1>13. CASE UpdateFails(a)
  BY <1>1, <1>2, <1>3, <1>13 DEF UpdateFails
<1>14. CASE StartDel(a)
  BY <1>1, <1>2, <1>3, <1>14 DEF StartDel, AtRest
<1>15. CASE Load(a)
  BY <1>1, <1>2, <1>3, <1>15 DEF Load, Goto
<1>16. CASE Work(a)
  BY <1>1, <1>2, <1>3, <1>16 DEF Work, Goto
<1>17. CASE WorkFails(a)
  BY <1>1, <1>2, <1>3, <1>17 DEF WorkFails, Goto
<1>18. CASE Remove(a)
  BY <1>1, <1>2, <1>3, <1>18 DEF Remove, Goto, Write
<1>19. CASE Kill(a)
  BY <1>1, <1>2, <1>3, <1>19 DEF Kill, AtRest, AddPc, DelPc
<1>20. CASE LoadFails(a)
  BY <1>1, <1>2, <1>3, <1>20 DEF LoadFails, Goto
<1> QED
  BY <1>4, <1>5, <1>6, <1>7, <1>8, <1>9, <1>10, <1>11, <1>12, <1>13, <1>14, <1>15, <1>16, <1>17, <1>18, <1>19, <1>20 DEF StepOf
\* InfoKept, InfoPreserved and InfoCurrent of one attachment.
InfoAt(b) ==
  LET g == given[b]  i == info[b]
  IN  /\ pc[b] = "new" => i = NoFile /\ g = NoFile
      /\ pc[b] \in {"truncate", "write", "read", "change", "truncateInfo"} => i = g
      /\ pc[b] = "change" => Readable(g) /\ devInfo[b] = g
      /\ pc[b] \in {"truncateInfo", "writeInfo"} =>
           Readable(g) /\ g.rep # b /\ devInfo[b] = WithRep(g, b)
      /\ pc[b] = "writeInfo" => i = Torn
      /\ pc[b] \in AddPc \cup {"new"} => ~current[b]
PreservedAt(b) ==
  LET g == given[b]  i == info[b]
  IN  \/ i = g
      \/ i = Torn /\ (pc[b] = "writeInfo" \/ faults > 0)
      \/ /\ Readable(g) /\ i.rep = b
         /\ i = [g EXCEPT !.rep = b,
                          !.version = IF @ = Old /\ g.rep # b THEN Minimal ELSE @]
CurrentAt(b) == current[b] => info[b] \in Info /\ info[b].rep = b

LEMMA InfoParts ==
  /\ InfoKept <=> \A b \in Attachment : InfoAt(b)
  /\ InfoPreserved <=> \A b \in Attachment : PreservedAt(b)
  /\ InfoCurrent <=> \A b \in Attachment : CurrentAt(b)
<1>1. InfoKept <=> \A b \in Attachment : InfoAt(b)
  BY DEF InfoKept, InfoAt
<1>2. InfoPreserved <=> \A b \in Attachment : PreservedAt(b)
  BY DEF InfoPreserved, PreservedAt
<1>3. InfoCurrent <=> \A b \in Attachment : CurrentAt(b)
  BY DEF InfoCurrent, CurrentAt
<1> QED
  BY <1>1, <1>2, <1>3

\* A step of one attachment leaves the others' DeviceInfo and progress alone.
LEMMA InfoOfOthers ==
  ASSUME TypeOK, NEW a \in Attachment, StepOf(a), NEW b \in Attachment, b # a
  PROVE  /\ pc'[b] = pc[b] /\ devInfo'[b] = devInfo[b] /\ info'[b] = info[b]
         /\ given'[b] = given[b] /\ current'[b] = current[b]
         /\ faults > 0 => faults' > 0
<1> USE DEF TypeOK
<1>1. CASE \E i \in Given : StartAdd(a, i)
  BY <1>1, BoundAssumption DEF StartAdd, Goto
<1>2. CASE TruncateCache(a)
  BY <1>2, BoundAssumption DEF TruncateCache, Goto
<1>3. CASE WriteCache(a)
  BY <1>3, BoundAssumption DEF WriteCache, Goto
<1>4. CASE SaveFails(a)
  BY <1>4, BoundAssumption DEF SaveFails, Fault
<1>5. CASE ReadInfo(a)
  BY <1>5, BoundAssumption DEF ReadInfo, Goto
<1>6. CASE Skip(a)
  BY <1>6, BoundAssumption DEF Skip, Goto
<1>7. CASE Change(a)
  BY <1>7, BoundAssumption DEF Change, Goto
<1>8. CASE TruncateInfo(a)
  BY <1>8, BoundAssumption DEF TruncateInfo, Goto
<1>9. CASE WriteInfo(a)
  BY <1>9, BoundAssumption DEF WriteInfo, Goto
<1>10. CASE UpdateFails(a)
  BY <1>10, BoundAssumption DEF UpdateFails, Fault
<1>11. CASE StartDel(a)
  BY <1>11, BoundAssumption DEF StartDel
<1>12. CASE Load(a)
  BY <1>12, BoundAssumption DEF Load, Goto
<1>13. CASE Work(a)
  BY <1>13, BoundAssumption DEF Work, Goto
<1>14. CASE WorkFails(a)
  BY <1>14, BoundAssumption DEF WorkFails, Goto, Fault
<1>15. CASE Remove(a)
  BY <1>15, BoundAssumption DEF Remove, Goto, Fault
<1>16. CASE Kill(a)
  BY <1>16, BoundAssumption DEF Kill, Fault
<1>17. CASE LoadFails(a)
  BY <1>17, BoundAssumption DEF LoadFails, Goto, Fault
<1> QED
  BY <1>1, <1>2, <1>3, <1>4, <1>5, <1>6, <1>7, <1>8, <1>9, <1>10, <1>11, <1>12, <1>13, <1>14, <1>15, <1>16, <1>17 DEF StepOf
\* The change Change makes is the one InfoPreserved allows.
LEMMA SameChange ==
  ASSUME NEW a \in Attachment, NEW g \in Info, g.rep # a
  PROVE  WithRep(g, a) = [g EXCEPT !.rep = a,
                                   !.version = IF @ = Old /\ g.rep # a THEN Minimal ELSE @]
BY DEF WithRep, Upgraded, Info

LEMMA InfoOfOwn ==
  ASSUME TypeOK, NEW a \in Attachment, StepOf(a),
         InfoAt(a), PreservedAt(a), CurrentAt(a)
  PROVE  InfoAt(a)' /\ PreservedAt(a)' /\ CurrentAt(a)'
<1>1. /\ pc \in [Attachment -> AddPc \cup DelPc \cup AtRest]
      /\ devInfo \in [Attachment -> Info \cup {NoFile}]
      /\ info \in [Attachment -> Info \cup {NoFile, Torn}]
      /\ given \in [Attachment -> Given \cup {NoFile}]
      /\ current \in [Attachment -> BOOLEAN] /\ faults \in Nat
  BY DEF TypeOK
<1> USE DEF InfoAt, PreservedAt, CurrentAt
<1>2. CASE \E i \in Given : StartAdd(a, i)
  BY <1>1, <1>2 DEF StartAdd, Goto, AddPc, DelPc, AtRest
<1>3. CASE TruncateCache(a)
  BY <1>1, <1>3 DEF TruncateCache, Goto, AddPc, DelPc, AtRest
<1>4. CASE WriteCache(a)
  BY <1>1, <1>4 DEF WriteCache, Goto, AddPc, DelPc, AtRest
<1>5. CASE SaveFails(a)
  BY <1>1, <1>5 DEF SaveFails, Fault, AddPc, DelPc, AtRest
<1>6. CASE ReadInfo(a)
  BY <1>1, <1>6 DEF ReadInfo, Goto, AddPc, DelPc, AtRest
<1>7. CASE Skip(a)
  <2>1. /\ info'[a] = info[a] /\ given'[a] = given[a] /\ faults' = faults
        /\ pc[a] = "change" /\ pc'[a] = "up"
    BY <1>1, <1>7 DEF Skip, Goto
  <2>2. info[a] = given[a] /\ devInfo[a] = given[a] /\ Readable(given[a]) /\ given[a].rep = a
    BY <1>7, <2>1 DEF Skip
  <2>3. info[a] \in Info
    BY <1>1, <2>2 DEF Readable
  <2> QED
    BY <2>1, <2>2, <2>3 DEF AddPc
<1>8. CASE Change(a)
  BY <1>1, <1>8 DEF Change, Goto, AddPc, DelPc, AtRest
<1>9. CASE TruncateInfo(a)
  BY <1>1, <1>9 DEF TruncateInfo, Goto, AddPc, DelPc, AtRest
<1>10. CASE WriteInfo(a)
  <2>1. /\ info'[a] = devInfo[a] /\ given'[a] = given[a]
        /\ pc[a] = "writeInfo" /\ pc'[a] = "up"
    BY <1>1, <1>10 DEF WriteInfo, Goto
  <2>2. Readable(given[a]) /\ given[a].rep # a /\ devInfo[a] = WithRep(given[a], a)
    BY <2>1
  <2>3. given[a] \in Info /\ given[a].pci
    BY <1>1, <2>2, GivenAssumption DEF Readable
  <2>4. devInfo[a] \in Info /\ devInfo[a].rep = a
    BY <2>2, <2>3, ChangedInfo
  <2>5. devInfo[a] = [given[a] EXCEPT !.rep = a,
                        !.version = IF @ = Old /\ given[a].rep # a THEN Minimal ELSE @]
    BY <2>2, <2>3, SameChange
  <2> QED
    BY <2>1, <2>2, <2>4, <2>5 DEF AddPc
<1>11. CASE UpdateFails(a)
  BY <1>1, <1>11 DEF UpdateFails, Fault, AddPc, DelPc, AtRest
<1>12. CASE StartDel(a)
  BY <1>1, <1>12 DEF StartDel, AddPc, DelPc, AtRest
<1>13. CASE Load(a)
  BY <1>1, <1>13 DEF Load, Goto, AddPc, DelPc, AtRest
<1>14. CASE Work(a)
  BY <1>1, <1>14 DEF Work, Goto, AddPc, DelPc, AtRest
<1>15. CASE WorkFails(a)
  BY <1>1, <1>15 DEF WorkFails, Goto, Fault, AddPc, DelPc, AtRest
<1>16. CASE Remove(a)
  BY <1>1, <1>16 DEF Remove, Goto, Fault, AddPc, DelPc, AtRest
<1>17. CASE Kill(a)
  BY <1>1, <1>17 DEF Kill, Fault, AddPc, DelPc, AtRest
<1>18. CASE LoadFails(a)
  BY <1>1, <1>18 DEF LoadFails, Goto, Fault, AddPc, DelPc, AtRest
<1> QED
  BY <1>2, <1>3, <1>4, <1>5, <1>6, <1>7, <1>8, <1>9, <1>10, <1>11, <1>12, <1>13, <1>14, <1>15, <1>16, <1>17, <1>18 DEF StepOf
LEMMA InfoStep ==
  ASSUME TypeOK, InfoKept, InfoPreserved, InfoCurrent, Next
  PROVE  InfoKept' /\ InfoPreserved' /\ InfoCurrent'
<1> PICK a \in Attachment : StepOf(a)
  BY DEF Next, StepOf
<1>1. \A b \in Attachment : InfoAt(b) /\ PreservedAt(b) /\ CurrentAt(b)
  BY InfoParts
<1>2. ASSUME NEW b \in Attachment
      PROVE  InfoAt(b)' /\ PreservedAt(b)' /\ CurrentAt(b)'
  <2>1. CASE b = a
    BY <1>1, <2>1, InfoOfOwn
  <2>2. CASE b # a
    <3>1. /\ pc'[b] = pc[b] /\ devInfo'[b] = devInfo[b] /\ info'[b] = info[b]
          /\ given'[b] = given[b] /\ current'[b] = current[b]
          /\ faults > 0 => faults' > 0
      BY <2>2, InfoOfOthers
    <3>2. InfoAt(b)'
      BY <1>1, <3>1 DEF InfoAt
    <3>3. PreservedAt(b)'
      BY <1>1, <3>1 DEF PreservedAt
    <3>4. CurrentAt(b)'
      <4>1. CurrentAt(b)
        BY <1>1
      <4>2. current'[b] = current[b] /\ info'[b] = info[b]
        BY <3>1
      <4> QED
        BY <4>1, <4>2, Zenon DEF CurrentAt
    <3> QED
      BY <3>2, <3>3, <3>4
  <2> QED
    BY <2>1, <2>2
<1>3. InfoKept'
  BY <1>2 DEF InfoKept, InfoAt
<1>4. InfoPreserved'
  BY <1>2 DEF InfoPreserved, PreservedAt
<1>5. InfoCurrent'
  BY <1>2 DEF InfoCurrent, CurrentAt
<1> QED
  BY <1>3, <1>4, <1>5

LEMMA FilesInit ==
  ASSUME Init
  PROVE  FilesKept
<1>1. TypeOK
  BY BoundAssumption DEF Init, TypeOK, AtRest
<1>2. CacheKept
  BY DEF Init, CacheKept
<1>3. InfoKept
  BY DEF Init, InfoKept, AddPc
<1>4. InfoPreserved /\ InfoCurrent
  BY DEF Init, InfoPreserved, InfoCurrent
<1> QED
  BY <1>1, <1>2, <1>3, <1>4 DEF FilesKept

LEMMA FilesStep ==
  ASSUME FilesKept, [Next]_vars
  PROVE  FilesKept'
<1>1. CASE Next
  BY <1>1, TypeStep, CacheStep, InfoStep DEF FilesKept
<1>2. CASE UNCHANGED vars
  <2> USE <1>2 DEF vars
  <2>1. TypeOK'
    BY DEF FilesKept, TypeOK
  <2>2. CacheKept'
    BY DEF FilesKept, CacheKept
  <2>3. InfoKept'
    BY DEF FilesKept, InfoKept
  <2>4. InfoPreserved' /\ InfoCurrent'
    BY DEF FilesKept, InfoPreserved, InfoCurrent
  <2> QED
    BY <2>1, <2>2, <2>3, <2>4 DEF FilesKept
<1> QED
  BY <1>1, <1>2

(***************************************************************************)
(* The results.                                                            *)
(***************************************************************************)
\* The inductive invariant: what each command that is under way knows of its
\* two files, and what is in them.
THEOREM FilesKeptAlways == Spec => []FilesKept
<1>1. Init => FilesKept
  BY FilesInit
<1>2. FilesKept /\ [Next]_vars => FilesKept'
  BY FilesStep
<1> QED
  BY <1>1, <1>2, PTL DEF Spec

\* Every variable has its type: a DeviceInfo file the plugin has rewritten is
\* one of a version the library knows.
THEOREM FilesTypes == Spec => []TypeOK
<1>1. FilesKept => TypeOK
  BY DEF FilesKept
<1> QED
  BY <1>1, FilesKeptAlways, PTL

\* A DEL works with the PluginConf of its own ADD, and nobody else's commands
\* write or remove an attachment's file of the cache.
THEOREM CacheIsolation == Spec => []CacheIsolated
<1>1. FilesKept => CacheIsolated
  BY DEF FilesKept, CacheKept, CacheIsolated
<1> QED
  BY <1>1, FilesKeptAlways, PTL

\* updateDeviceInfo changes nothing of a DeviceInfo file but the representor
\* and version 1.0.0, and a file it does not finish is torn.
THEOREM InfoIsPreserved == Spec => []InfoPreserved
<1>1. FilesKept => InfoPreserved
  BY DEF FilesKept
<1> QED
  BY <1>1, FilesKeptAlways, PTL

\* When updateDeviceInfo reports success, the file names the representor, and
\* goes on doing so whatever the later commands do.
THEOREM InfoIsCurrent == Spec => []InfoCurrent
<1>1. FilesKept => InfoCurrent
  BY DEF FilesKept
<1> QED
  BY <1>1, FilesKeptAlways, PTL
=============================================================================
