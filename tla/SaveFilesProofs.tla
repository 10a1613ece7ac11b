----------------------------- MODULE SaveFilesProofs -----------------------------
(***************************************************************************)
(* For any number of slots: a save that was reported Ok is what the next   *)
(* start loads, but for files that were not closed; and unless two calls   *)
(* fail in one session, no license leaves the card unnoticed, and a start  *)
(* misses none but where a power loss left .old and .new behind.           *)
(***************************************************************************)
EXTENDS SaveFiles, SequenceTheorems, TLAPS

Quiet == {"off", "migrate", "read", "idle"}
Saving == {"open", "write", "close", "drop", "retire", "install", "clean", "remove"}
Contents == License \cup {NoFile}

\* While slots are read, the licenses are those of the slots before this one.
ReadSoFar ==
  /\ pc = "off" => licenses = <<>>
  /\ pc \in {"off", "idle"} => slot = 1
  /\ pc \in {"migrate", "read"} =>
       /\ Len(licenses) = slot - 1
       /\ \A j \in 1..(slot - 1) : licenses[j] = disk["slot"][j]

\* What a save makes of a slot.
Written(i) == IF i \in cut THEN Blank ELSE licenses[i]

\* While slots are written, those before this one are as they shall be, and the
\* new file of this one is closed before the slot is given up for it.
WrittenSoFar ==
  \A i \in 1..(slot - 1) :
    disk["slot"][i] = IF i <= Len(licenses) THEN Written(i) ELSE NoFile

SaveAt ==
  pc \in Saving =>
    /\ WrittenSoFar
    /\ pc = "remove" <=> slot > Len(licenses)
    /\ pc \in {"write", "close"} => disk["new"][slot] = Blank
    /\ pc \in {"drop", "retire", "install"} => disk["new"][slot] = Written(slot)
    /\ pc = "clean" => disk["slot"][slot] = Written(slot)

\* The files that were not closed are those of slots that come before.
CutBehind ==
  /\ pc \notin Saving => cut = {}
  /\ \A i \in cut : /\ i <= Len(licenses) /\ i <= slot
                    /\ pc \in {"open", "write", "close"} => i # slot

\* What an older version has left are licenses nobody has edited since.
OldAreOld == \A i \in 1..Slots : disk["settings"][i] # NoFile => disk["settings"][i].edit = 0

\* After a save that was reported Ok the slots hold it, until the next one.
CardIsSaved ==
  saved # NoSave =>
    /\ pc \in Quiet
    /\ Len(saved) <= Slots
    /\ \A i \in 1..Slots :
         IF i <= Len(saved)
           THEN disk["slot"][i] = saved[i]
           ELSE disk["slot"][i] # NoFile => disk["slot"][i].edit = 0

Inv == TypeOK /\ ReadSoFar /\ SaveAt /\ CutBehind /\ OldAreOld /\ CardIsSaved

-------------------------------------------------------------------------------
\* What the types say of the elements.
LEMMA Typed ==
  ASSUME TypeOK
  PROVE  /\ Len(licenses) \in Nat /\ Len(licenses) <= Slots
         /\ saved # NoSave => saved \in Seq(License) /\ Len(saved) \in Nat
         /\ \A i \in 1..Len(licenses) : licenses[i] \in License
         /\ saved # NoSave => \A i \in 1..Len(saved) : saved[i] \in License
         /\ slot \in Nat /\ 1 <= slot /\ slot <= Slots /\ slot \in 1..Slots
         /\ \A kind \in Kinds, i \in 1..Slots : disk[kind][i] \in Contents
         /\ \A i \in 1..Slots :
              disk["slot"][i] # NoFile => disk["slot"][i] \in License
<1>1. /\ licenses \in Seq(License) /\ Len(licenses) <= Slots /\ slot \in 1..Slots
      /\ saved # NoSave => saved \in Seq(License)
      /\ disk \in [Kinds -> [1..Slots -> Contents]]
  BY DEF TypeOK, Files, Contents
<1>2. \A kind \in Kinds, i \in 1..Slots : disk[kind][i] \in Contents
  BY <1>1
<1>3. "slot" \in Kinds
  BY DEF Kinds
<1>4. \A i \in 1..Slots : disk["slot"][i] # NoFile => disk["slot"][i] \in License
  BY <1>2, <1>3 DEF Contents
<1>5. /\ Len(licenses) \in Nat
      /\ \A i \in 1..Len(licenses) : licenses[i] \in License
      /\ saved # NoSave => Len(saved) \in Nat /\ \A i \in 1..Len(saved) : saved[i] \in License
  BY <1>1, LenProperties, ElementOfSeq
<1> QED
  BY <1>1, <1>2, <1>4, <1>5, SaveAssumption

\* An empty file is read as a license.
LEMMA BlankIs == Blank \in License /\ Blank.mii = 0 /\ Blank.edit = 0
BY DEF Blank, License

\* So is what a save makes of a slot in use.
LEMMA WrittenIs ==
  ASSUME TypeOK, NEW i \in 1..Len(licenses)
  PROVE  Written(i) \in License /\ Written(i) \in Contents /\ Written(i) # NoFile
<1>1. Written(i) \in License
  BY Typed, BlankIs DEF Written
<1> QED
  BY <1>1, SaveAssumption DEF Contents

\* What a call makes of the card.
LEMMA PutFacts ==
  ASSUME TypeOK, NEW kind \in Kinds, NEW content \in Contents, Put(kind, content)
  PROVE  /\ disk' \in Files
         /\ disk'[kind][slot] = content
         /\ \A k \in Kinds, i \in 1..Slots :
              k # kind \/ i # slot => disk'[k][i] = disk[k][i]
<1>1. disk \in Files /\ slot \in 1..Slots
  BY DEF TypeOK
<1>2. disk' = [disk EXCEPT ![kind] = [disk[kind] EXCEPT ![slot] = content]]
  BY <1>1 DEF Put, Files
<1>3. [disk[kind] EXCEPT ![slot] = content] \in [1..Slots -> Contents]
  BY <1>1 DEF Files, Contents
<1>4. disk' \in Files
  BY <1>1, <1>2, <1>3 DEF Files, Contents
<1>5. disk'[kind][slot] = content
  BY <1>1, <1>2 DEF Files
<1>6. \A k \in Kinds, i \in 1..Slots : k # kind \/ i # slot => disk'[k][i] = disk[k][i]
  BY <1>1, <1>2 DEF Files
<1> QED
  BY <1>4, <1>5, <1>6

\* The same for a file that is moved.
LEMMA RenameFacts ==
  ASSUME TypeOK, NEW from \in Kinds, NEW to \in Kinds, from # to, Rename(from, to)
  PROVE  /\ disk' \in Files
         /\ disk'[to][slot] = disk[from][slot]
         /\ disk'[from][slot] = NoFile
         /\ \A k \in Kinds, i \in 1..Slots :
              k \notin {from, to} \/ i # slot => disk'[k][i] = disk[k][i]
<1>1. disk \in Files /\ slot \in 1..Slots
  BY DEF TypeOK
<1> DEFINE a == [disk[to] EXCEPT ![slot] = disk[from][slot]]
           b == [disk[from] EXCEPT ![slot] = NoFile]
<1>2. disk' = [[disk EXCEPT ![to] = a] EXCEPT ![from] = b]
  BY <1>1 DEF Rename, Files
<1>3. a \in [1..Slots -> Contents] /\ b \in [1..Slots -> Contents]
  BY <1>1 DEF Files, Contents
<1>4. /\ a[slot] = disk[from][slot] /\ b[slot] = NoFile
      /\ \A i \in 1..Slots : i # slot => a[i] = disk[to][i] /\ b[i] = disk[from][i]
  BY <1>1 DEF Files
<1> HIDE DEF a, b
<1>5. disk' \in Files
  BY <1>1, <1>2, <1>3 DEF Files, Contents
<1>6. /\ disk'[to] = a /\ disk'[from] = b
      /\ \A k \in Kinds : k \notin {from, to} => disk'[k] = disk[k]
  BY <1>1, <1>2 DEF Files
<1>7. \A k \in Kinds, i \in 1..Slots : k \notin {from, to} \/ i # slot => disk'[k][i] = disk[k][i]
  BY <1>4, <1>6
<1> QED
  BY <1>4, <1>5, <1>6, <1>7

\* The sets of licenses are sets of licenses.
LEMMA KeptTyped ==
  ASSUME TypeOK, NEW shown \in Seq(License)
  PROVE  /\ LastEdits(kept \cup Elements(shown)) \subseteq License
         /\ Blank \notin kept => Blank \notin LastEdits(kept \cup Elements(shown))
<1>1. Elements(shown) \subseteq License /\ Blank \notin Elements(shown)
  BY ElementOfSeq DEF Elements
<1>2. kept \subseteq License
  BY DEF TypeOK
<1> QED
  BY <1>1, <1>2 DEF LastEdits

LEMMA MissingTyped ==
  ASSUME kept' \subseteq License, NEW found
  PROVE  Missing(found) \subseteq Nat
BY DEF Missing, License

\* The invariant holds on a first start.
LEMMA InvInit == Init => Inv
<1> SUFFICES ASSUME Init PROVE Inv
  OBVIOUS
<1>1. /\ licenses = <<>> /\ edits = Slots /\ pc = "off" /\ slot = 1
      /\ kept = {} /\ exposed = {} /\ saved = NoSave /\ cut = {} /\ faults = 0
  BY DEF Init
<1>2. PICK mine \in 0..Slots, older \in 0..Slots :
        disk = [kind \in Kinds |-> [i \in 1..Slots |->
          IF (kind = "slot" /\ i <= mine) \/ (kind = "settings" /\ i <= older)
            THEN Made(i) ELSE NoFile]]
  BY DEF Init
<1>3. \A i \in 1..Slots : Made(i) \in License /\ Made(i).edit = 0
  BY SaveAssumption DEF Made, License
<1>4. \A kind \in Kinds, i \in 1..Slots : disk[kind][i] \in {Made(i), NoFile}
  BY <1>2
<1>5. disk \in Files
  BY <1>2, <1>3 DEF Files
<1>6. TypeOK
  <2>1. licenses \in Seq(License) /\ Len(licenses) = 0
    BY <1>1, EmptySeq
  <2>2. slot \in 1..Slots /\ edits \in Nat /\ Len(licenses) <= Slots /\ faults \in 0..MaxFaults
    BY <1>1, <2>1, SaveAssumption
  <2> QED
    BY <1>1, <1>5, <2>1, <2>2 DEF TypeOK
<1>7. OldAreOld
  BY <1>3, <1>4 DEF OldAreOld, Kinds
<1> QED
  BY <1>1, <1>6, <1>7 DEF Inv, ReadSoFar, SaveAt, Saving, CutBehind, CardIsSaved
-------------------------------------------------------------------------------
(***************************************************************************)
(* The power, and loading.                                                 *)
(***************************************************************************)
\* A failure is one more, within the bound.
LEMMA FaultTyped ==
  ASSUME TypeOK, NoFault \/ Fault
  PROVE  faults' \in 0..MaxFaults
BY SaveAssumption DEF TypeOK, NoFault, Fault

LEMMA PowerLossStep ==
  ASSUME Inv, PowerLoss
  PROVE  Inv'
<1>1. /\ pc' = "off" /\ licenses' = <<>> /\ slot' = 1 /\ cut' = {} /\ faults' = 0
      /\ UNCHANGED <<edits, disk, kept, exposed, saved>>
  BY DEF PowerLoss
<1>2. TypeOK /\ OldAreOld /\ CardIsSaved
  BY DEF Inv
<1>3. TypeOK'
  <2>1. licenses' \in Seq(License) /\ Len(licenses') = 0
    BY <1>1, EmptySeq
  <2>2. Len(licenses') <= Slots /\ slot' \in 1..Slots /\ faults' \in 0..MaxFaults
    BY <1>1, <2>1, SaveAssumption
  <2> QED
    BY <1>1, <1>2, <2>1, <2>2 DEF TypeOK
<1>4. OldAreOld'
  BY <1>1, <1>2 DEF OldAreOld
<1>5. CardIsSaved'
  BY <1>1, <1>2 DEF CardIsSaved, Quiet
<1> QED
  BY <1>1, <1>3, <1>4, <1>5 DEF Inv, ReadSoFar, SaveAt, Saving, CutBehind

\* A start: nothing is read yet.
LEMMA BootStep ==
  ASSUME Inv, Boot
  PROVE  Inv'
<1>1. /\ pc = "off" /\ pc' = "migrate"
      /\ UNCHANGED <<licenses, edits, slot, disk, kept, exposed, saved, cut, faults>>
  BY DEF Boot
<1>2. TypeOK /\ ReadSoFar /\ CutBehind /\ OldAreOld /\ CardIsSaved
  BY DEF Inv
<1>3. TypeOK' /\ OldAreOld'
  BY <1>1, <1>2 DEF TypeOK, OldAreOld
<1>4. ReadSoFar'
  <2>1. licenses' = <<>> /\ Len(licenses') = 0 /\ slot' = 1
    BY <1>1, <1>2, EmptySeq DEF ReadSoFar
  <2>2. Len(licenses') = slot' - 1 /\ \A j \in 1..(slot' - 1) : FALSE
    BY <1>1, <2>1
  <2> QED
    BY <1>1, <2>2 DEF ReadSoFar
<1>5. CutBehind' /\ CardIsSaved'
  BY <1>1, <1>2 DEF CutBehind, CardIsSaved, Quiet, Saving
<1> QED
  BY <1>1, <1>3, <1>4, <1>5 DEF Inv, SaveAt, Saving

\* A migrated license goes to a slot that no save has filled.
LEMMA MigrateStep ==
  ASSUME Inv, Migrate
  PROVE  Inv'
<1>1. /\ pc = "migrate" /\ pc' = "read" /\ faults' \in 0..MaxFaults
      /\ UNCHANGED <<licenses, edits, slot, kept, exposed, cut>>
  BY FaultTyped DEF Migrate, Inv
<1>2. TypeOK /\ ReadSoFar /\ CutBehind /\ OldAreOld /\ CardIsSaved
  BY DEF Inv
<1>3. CutBehind'
  BY <1>1, <1>2 DEF CutBehind, Saving
<1>4. CASE CanRename("settings", "slot") /\ Rename("settings", "slot") /\ UNCHANGED saved
  <2>0. "settings" \in Kinds /\ "slot" \in Kinds /\ "settings" # "slot"
    BY DEF Kinds
  <2>1. disk["slot"][slot] = NoFile /\ disk["settings"][slot] # NoFile
    BY <1>4 DEF CanRename
  <2>3. /\ disk' \in Files
        /\ disk'["slot"][slot] = disk["settings"][slot]
        /\ disk'["settings"][slot] = NoFile
        /\ \A k \in Kinds, i \in 1..Slots :
             k \notin {"settings", "slot"} \/ i # slot => disk'[k][i] = disk[k][i]
    BY <1>2, <1>4, <2>0, RenameFacts
  <2>4. /\ slot \in 1..Slots
        /\ \A i \in 1..Slots : i # slot => /\ disk'["slot"][i] = disk["slot"][i]
                                           /\ disk'["settings"][i] = disk["settings"][i]
    BY <1>2, <2>0, <2>3, Typed
  <2>5. TypeOK'
    BY <1>1, <1>2, <1>4, <2>3 DEF TypeOK
  <2>6. ReadSoFar'
    <3>1. \A j \in 1..(slot - 1) : j \in 1..Slots /\ j # slot
      BY <2>4, SaveAssumption
    <3> QED
      BY <1>1, <1>2, <2>4, <3>1 DEF ReadSoFar
  <2>7. OldAreOld'
    BY <1>2, <2>3, <2>4 DEF OldAreOld
  <2>8. CardIsSaved'
    <3> SUFFICES ASSUME saved # NoSave, NEW i \in 1..Slots
                 PROVE  IF i <= Len(saved)
                          THEN disk'["slot"][i] = saved[i]
                          ELSE disk'["slot"][i] # NoFile => disk'["slot"][i].edit = 0
      BY <1>1, <1>2, <1>4 DEF CardIsSaved, Quiet
    <3>1. CASE i # slot
      BY <1>2, <2>4, <3>1 DEF CardIsSaved
    <3>2. CASE i = slot
      <4>1. ~(i <= Len(saved))
        <5>1. i <= Len(saved) => disk["slot"][i] = saved[i] /\ saved[i] \in License
          BY <1>2, Typed DEF CardIsSaved
        <5> QED
          BY <2>1, <3>2, <5>1, SaveAssumption
      <4>2. disk["settings"][slot].edit = 0
        BY <1>2, <2>1, <2>4 DEF OldAreOld
      <4> QED
        BY <2>3, <3>2, <4>1, <4>2
    <3> QED
      BY <3>1, <3>2
  <2> QED
    BY <1>1, <1>3, <2>5, <2>6, <2>7, <2>8 DEF Inv, SaveAt, Saving
<1>5. CASE UNCHANGED disk /\ (UNCHANGED saved \/ saved' = NoSave)
  <2>1. TypeOK'
    BY <1>1, <1>2, <1>5 DEF TypeOK
  <2>2. ReadSoFar' /\ OldAreOld'
    BY <1>1, <1>2, <1>5 DEF ReadSoFar, OldAreOld
  <2>3. CardIsSaved'
    BY <1>1, <1>2, <1>5 DEF CardIsSaved, Quiet
  <2> QED
    BY <1>1, <1>3, <2>1, <2>2, <2>3 DEF Inv, SaveAt, Saving
<1> QED
  BY <1>4, <1>5 DEF Migrate

\* One more slot is read.
LEMMA ReadStep ==
  ASSUME Inv, Read
  PROVE  Inv' /\ Len(licenses') = slot /\ \A j \in 1..slot : licenses'[j] = disk["slot"][j]
<1> DEFINE l == disk["slot"][slot]
<1>1. /\ pc = "read" /\ l # NoFile
      /\ licenses' = Append(licenses, l)
      /\ IF slot = Slots
           THEN StartDone(licenses')
           ELSE pc' = "migrate" /\ slot' = slot + 1 /\ UNCHANGED <<kept, exposed>>
      /\ UNCHANGED <<edits, disk, saved, cut, faults>>
  BY DEF Read
<1>2. TypeOK /\ ReadSoFar /\ CutBehind /\ OldAreOld /\ CardIsSaved
  BY DEF Inv
<1>3. l \in License /\ slot \in 1..Slots /\ slot \in Nat /\ Slots \in Nat
  BY <1>1, <1>2, Typed, SaveAssumption
<1>4. /\ licenses \in Seq(License) /\ Len(licenses) = slot - 1
      /\ \A j \in 1..(slot - 1) : licenses[j] = disk["slot"][j]
  BY <1>1, <1>2 DEF ReadSoFar, TypeOK
<1>5. /\ licenses' \in Seq(License) /\ Len(licenses') = slot
      /\ \A j \in 1..slot : licenses'[j] = disk["slot"][j]
  <2>1. /\ licenses' \in Seq(License) /\ Len(licenses') = Len(licenses) + 1
        /\ \A j \in 1..Len(licenses) : licenses'[j] = licenses[j]
        /\ licenses'[Len(licenses) + 1] = l
    BY <1>1, <1>3, <1>4, AppendProperties
  <2>2. Len(licenses) + 1 = slot /\ \A j \in 1..slot : j \in 1..(slot - 1) \/ j = slot
    BY <1>3, <1>4
  <2> QED
    BY <1>4, <2>1, <2>2
<1>6. /\ slot' \in 1..Slots /\ pc' \in {"idle", "migrate"} /\ Len(licenses') <= Slots
      /\ pc' = "idle" => slot' = 1
  BY <1>1, <1>3, <1>5, SaveAssumption DEF StartDone
<1>7. kept' \subseteq License /\ exposed' \subseteq Nat
  <2>1. CASE slot = Slots
    BY <1>1, <1>2, <1>5, <2>1, KeptTyped, MissingTyped DEF StartDone
  <2>2. CASE slot # Slots
    BY <1>1, <1>2, <2>2 DEF TypeOK
  <2> QED
    BY <2>1, <2>2
<1>8. TypeOK'
  BY <1>1, <1>2, <1>5, <1>6, <1>7 DEF TypeOK
<1>9. ReadSoFar'
  <2>1. pc' = "migrate" => slot' - 1 = slot
    BY <1>1, <1>3 DEF StartDone
  <2> QED
    BY <1>1, <1>5, <1>6, <2>1 DEF ReadSoFar
<1>10. OldAreOld' /\ CardIsSaved' /\ CutBehind'
  BY <1>1, <1>2, <1>6 DEF OldAreOld, CardIsSaved, Quiet, CutBehind, Saving
<1> QED
  BY <1>5, <1>6, <1>8, <1>9, <1>10 DEF Inv, SaveAt, Saving

\* The first slot that cannot be read.
LEMMA ReadFailsStep ==
  ASSUME Inv, ReadFails
  PROVE  Inv'
<1>1. /\ pc = "read" /\ StartDone(licenses) /\ faults' \in 0..MaxFaults
      /\ UNCHANGED <<licenses, edits, disk, cut>>
      /\ UNCHANGED saved \/ saved' = NoSave
  BY FaultTyped DEF ReadFails, Inv
<1>2. TypeOK /\ CutBehind /\ OldAreOld /\ CardIsSaved
  BY DEF Inv
<1>3. /\ pc' = "idle" /\ slot' = 1 /\ slot' \in 1..Slots
      /\ kept' \subseteq License /\ exposed' \subseteq Nat
  <2>1. licenses \in Seq(License)
    BY <1>2 DEF TypeOK
  <2> QED
    BY <1>1, <1>2, <2>1, KeptTyped, MissingTyped, SaveAssumption DEF StartDone
<1>4. TypeOK'
  BY <1>1, <1>2, <1>3 DEF TypeOK
<1>5. OldAreOld' /\ CardIsSaved' /\ CutBehind'
  BY <1>1, <1>2, <1>3 DEF OldAreOld, CardIsSaved, Quiet, CutBehind, Saving
<1> QED
  BY <1>3, <1>4, <1>5 DEF Inv, ReadSoFar, SaveAt, Saving

-------------------------------------------------------------------------------
(***************************************************************************)
(* The user.                                                               *)
(***************************************************************************)
\* Changed licenses are in memory only.
LEMMA EditStep ==
  ASSUME Inv, pc = "idle", licenses' \in Seq(License), Len(licenses') <= Slots,
         edits' \in Nat, kept' \subseteq License, exposed' \subseteq Nat,
         UNCHANGED <<pc, slot, disk, saved, cut, faults>>
  PROVE  Inv'
<1>1. TypeOK /\ ReadSoFar /\ CutBehind /\ OldAreOld /\ CardIsSaved
  BY DEF Inv
<1>2. TypeOK'
  BY <1>1 DEF TypeOK
<1>3. OldAreOld' /\ CardIsSaved'
  BY <1>1 DEF OldAreOld, CardIsSaved
<1>4. ReadSoFar' /\ CutBehind'
  BY <1>1 DEF ReadSoFar, CutBehind, Saving
<1> QED
  BY <1>2, <1>3, <1>4 DEF Inv, SaveAt, Saving

\* A license is made,
LEMMA CreateStep ==
  ASSUME Inv, CreateSPLicense
  PROVE  Inv'
<1>1. /\ pc = "idle" /\ Len(licenses) < Slots /\ edits' = edits + 1
      /\ licenses' = Append(licenses, [mii |-> edits', edit |-> edits'])
      /\ UNCHANGED <<pc, slot, disk, kept, exposed, saved, cut, faults>>
  BY DEF CreateSPLicense, CreateSPLicenseAnyway
<1>2. /\ licenses \in Seq(License) /\ edits \in Nat /\ kept \subseteq License /\ exposed \subseteq Nat
      /\ Len(licenses) \in Nat
  BY Typed DEF Inv, TypeOK
<1>3. edits' \in Nat /\ [mii |-> edits', edit |-> edits'] \in License
  BY <1>1, <1>2 DEF License
<1>4. licenses' \in Seq(License) /\ Len(licenses') = Len(licenses) + 1
  BY <1>1, <1>2, <1>3, AppendProperties
<1>5. Len(licenses') <= Slots
  BY <1>1, <1>2, <1>4, SaveAssumption
<1> QED
  BY <1>1, <1>2, <1>3, <1>4, <1>5, EditStep

\* A function on 1..n is a sequence of that length.
LEMMA SeqOfLen ==
  ASSUME NEW S, NEW n \in Nat, NEW s \in [1..n -> S]
  PROVE  s \in Seq(S) /\ Len(s) = n
<1>1. s \in Seq(S)
  BY SeqDef
<1>2. Len(s) \in Nat /\ 1..Len(s) = 1..n
  BY <1>1, LenProperties
<1>3. CASE Len(s) < n
  <2>1. n \in 1..n /\ n \notin 1..Len(s)
    BY <1>2, <1>3
  <2> QED
    BY <1>2, <2>1
<1>4. CASE n < Len(s)
  <2>1. Len(s) \in 1..Len(s) /\ Len(s) \notin 1..n
    BY <1>2, <1>4
  <2> QED
    BY <1>2, <2>1
<1> QED
  BY <1>1, <1>2, <1>3, <1>4

\* or erased,
LEMMA EraseStep ==
  ASSUME Inv, EraseSPLicense
  PROVE  Inv'
<1>1. PICK i \in 1..Len(licenses) :
        /\ licenses' = [j \in 1..Len(licenses) - 1 |-> licenses[IF j < i THEN j ELSE j + 1]]
        /\ kept' = {l \in kept : l.mii # licenses[i].mii}
        /\ exposed' = exposed \ {licenses[i].mii}
  BY DEF EraseSPLicense
<1>2. pc = "idle" /\ UNCHANGED <<edits, pc, slot, disk, saved, cut, faults>>
  BY DEF EraseSPLicense
<1>3. /\ licenses \in Seq(License) /\ edits \in Nat /\ kept \subseteq License /\ exposed \subseteq Nat
      /\ Len(licenses) \in Nat /\ Len(licenses) <= Slots
      /\ \A j \in 1..Len(licenses) : licenses[j] \in License
  BY Typed DEF Inv, TypeOK
<1> DEFINE m == Len(licenses) - 1
<1>4. m \in Nat /\ i \in Nat /\ 1 <= i
  BY <1>3
<1>5. \A j \in 1..m : j \in 1..Len(licenses) /\ j + 1 \in 1..Len(licenses)
  BY <1>3
<1>6. licenses' \in [1..m -> License]
  BY <1>1, <1>3, <1>5
<1> HIDE DEF m
<1>7. licenses' \in Seq(License) /\ Len(licenses') = m
  BY <1>4, <1>6, SeqOfLen
<1>9. Len(licenses') <= Slots
  BY <1>3, <1>7, SaveAssumption DEF m
<1>10. kept' \subseteq License /\ exposed' \subseteq Nat /\ edits' \in Nat
  BY <1>1, <1>2, <1>3
<1> QED
  BY <1>2, <1>7, <1>9, <1>10, EditStep

\* or changed.
LEMMA SetSettingStep ==
  ASSUME Inv, SetSetting
  PROVE  Inv'
<1>1. PICK i \in 1..Len(licenses) : licenses' = [licenses EXCEPT ![i].edit = edits']
  BY DEF SetSetting
<1>2. /\ pc = "idle" /\ edits' = edits + 1
      /\ UNCHANGED <<pc, slot, disk, kept, exposed, saved, cut, faults>>
  BY DEF SetSetting
<1>3. /\ licenses \in Seq(License) /\ edits \in Nat /\ kept \subseteq License /\ exposed \subseteq Nat
      /\ Len(licenses) <= Slots /\ licenses[i] \in License
  BY Typed DEF Inv, TypeOK
<1> DEFINE l == [licenses[i] EXCEPT !.edit = edits']
<1>4. l \in License /\ edits' \in Nat
  <2>1. edits' \in Nat
    BY <1>2, <1>3
  <2>2. \A x \in License, e \in Nat : [x EXCEPT !.edit = e] \in License
    BY DEF License
  <2> QED
    BY <1>3, <2>1, <2>2
<1>5. licenses' = [licenses EXCEPT ![i] = l]
  BY <1>1
<1> HIDE DEF l
<1>6. licenses' \in Seq(License) /\ Len(licenses') = Len(licenses)
  BY <1>3, <1>4, <1>5, ExceptSeq
<1> QED
  BY <1>2, <1>3, <1>4, <1>6, EditStep

\* A save begins: until it is done nothing is said of the next start.
LEMMA SaveLicensesStep ==
  ASSUME Inv, SaveLicensesAsync
  PROVE  Inv'
<1>1. /\ pc = "idle" /\ pc' = FirstCall /\ saved' = NoSave
      /\ UNCHANGED <<licenses, edits, slot, disk, kept, exposed, cut, faults>>
  BY DEF SaveLicensesAsync
<1>2. TypeOK /\ OldAreOld /\ slot = 1 /\ cut = {}
  BY <1>1 DEF Inv, ReadSoFar, CutBehind, Saving
<1>3. /\ pc' \in {"open", "remove"}
      /\ pc' = "remove" <=> licenses = <<>>
  BY <1>1 DEF FirstCall
<1>4. TypeOK'
  BY <1>1, <1>2, <1>3 DEF TypeOK
<1>5. SaveAt'
  <2>1. licenses = <<>> <=> 1 > Len(licenses)
    <3>1. licenses \in Seq(License) /\ Len(licenses) \in Nat
      BY <1>2, Typed DEF TypeOK
    <3>2. licenses # <<>> => Len(licenses) \in Nat \ {0}
      BY <3>1, EmptySeq
    <3>3. licenses = <<>> => Len(licenses) = 0
      BY EmptySeq
    <3> QED
      BY <3>1, <3>2, <3>3
  <2>2. \A i \in 1..(slot' - 1) : FALSE
    BY <1>1, <1>2
  <2> QED
    BY <1>1, <1>2, <1>3, <2>1, <2>2 DEF SaveAt, WrittenSoFar
<1>6. OldAreOld' /\ CardIsSaved' /\ CutBehind'
  BY <1>1, <1>2, <1>3 DEF OldAreOld, CardIsSaved, CutBehind
<1> QED
  BY <1>1, <1>3, <1>4, <1>5, <1>6 DEF Inv, ReadSoFar
-------------------------------------------------------------------------------
(***************************************************************************)
(* Saving.                                                                 *)
(***************************************************************************)
\* What the calls of a save have in common: the kinds of files they change.
CallOf(k) ==
  /\ disk' \in Files
  /\ \A kind \in Kinds \ k, i \in 1..Slots : disk'[kind][i] = disk[kind][i]
  /\ \A kind \in Kinds, i \in 1..Slots : i # slot => disk'[kind][i] = disk[kind][i]
  /\ UNCHANGED <<licenses, edits>>

\* Writing a file is such a call,
LEMMA PutCall ==
  ASSUME TypeOK, NEW kind \in Kinds, NEW content \in Contents, Put(kind, content),
         UNCHANGED <<licenses, edits>>
  PROVE  CallOf({kind}) /\ disk'[kind][slot] = content
BY PutFacts DEF CallOf

\* and so is a call that does nothing,
LEMMA IdleCall ==
  ASSUME TypeOK, UNCHANGED disk, UNCHANGED <<licenses, edits>>
  PROVE  CallOf({})
BY DEF CallOf, TypeOK

\* and one that moves a file.
LEMMA RenameCall ==
  ASSUME TypeOK, NEW from \in Kinds, NEW to \in Kinds, from # to, Rename(from, to),
         UNCHANGED <<licenses, edits>>
  PROVE  CallOf({from, to}) /\ disk'[to][slot] = disk[from][slot] /\ disk'[from][slot] = NoFile
BY RenameFacts DEF CallOf

\* While a save is under way nothing is said of the next start.
LEMMA SavingFacts ==
  ASSUME Inv, pc \in Saving
  PROVE  /\ TypeOK /\ SaveAt /\ WrittenSoFar /\ CutBehind /\ OldAreOld /\ saved = NoSave
         /\ slot \in 1..Slots /\ slot \in Nat /\ Len(licenses) \in Nat /\ Len(licenses) <= Slots
         /\ Slots \in Nat
         /\ pc # "remove" <=> slot \in 1..Len(licenses)
<1>1. /\ TypeOK /\ SaveAt /\ WrittenSoFar /\ CutBehind /\ OldAreOld
      /\ saved = NoSave
  BY DEF Inv, SaveAt, CardIsSaved, Quiet, Saving
<1>2. /\ slot \in 1..Slots /\ slot \in Nat /\ Len(licenses) \in Nat /\ Len(licenses) <= Slots
      /\ Slots \in Nat
  BY <1>1, Typed, SaveAssumption
<1>3. pc # "remove" <=> slot \in 1..Len(licenses)
  BY <1>1, <1>2 DEF SaveAt
<1> QED
  BY <1>1, <1>2, <1>3

\* A save that has failed: the card is what it happens to be.
LEMMA FailedSave ==
  ASSUME Inv, pc \in Saving, NEW k, CallOf(k), "settings" \notin k, Fails, NotDone,
         NoFault \/ Fault
  PROVE  Inv'
<1>1. /\ pc' = "idle" /\ slot' = 1 /\ cut' = {} /\ faults' \in 0..MaxFaults
      /\ UNCHANGED <<licenses, edits, kept, exposed, saved>>
  BY FaultTyped DEF CallOf, Fails, NotDone, Inv
<1>2. TypeOK /\ OldAreOld /\ saved = NoSave /\ slot' \in 1..Slots
  BY <1>1, SavingFacts, SaveAssumption
<1>3. TypeOK'
  BY <1>1, <1>2 DEF TypeOK, CallOf
<1>4. OldAreOld'
  BY <1>2 DEF OldAreOld, CallOf, Kinds
<1> QED
  BY <1>1, <1>2, <1>3, <1>4 DEF Inv, ReadSoFar, SaveAt, Saving, CutBehind, CardIsSaved

\* A save that goes on with the next call for the same slot.
LEMMA NextCall ==
  ASSUME Inv, pc \in Saving, pc # "remove", NEW k, CallOf(k), "settings" \notin k,
         NEW call \in {"write", "close", "drop", "retire", "install", "clean"},
         pc' = call, UNCHANGED <<slot, kept, saved>>, exposed' \subseteq Nat,
         NoFault \/ Fault,
         cut' = cut \/ (cut' = cut \cup {slot} /\ call = "drop"),
         call \in {"write", "close"} =>
           disk'["new"][slot] = Blank /\ pc \in {"open", "write"},
         call \in {"drop", "retire", "install"} => disk'["new"][slot] = Written(slot)',
         call = "clean" => disk'["slot"][slot] = Written(slot)
  PROVE  Inv'
<1>1. UNCHANGED <<licenses, edits>> /\ faults' \in 0..MaxFaults
  BY FaultTyped DEF CallOf, Inv
<1>2. /\ TypeOK /\ SaveAt /\ WrittenSoFar /\ CutBehind /\ OldAreOld /\ saved = NoSave
      /\ slot \in 1..Slots /\ slot \in Nat /\ slot \in 1..Len(licenses) /\ Slots \in Nat
      /\ Len(licenses) \in Nat
  BY SavingFacts
<1>3. cut' \subseteq 1..Slots
  BY <1>2 DEF TypeOK
<1>4. TypeOK'
  BY <1>1, <1>2, <1>3 DEF TypeOK, CallOf
<1>5. OldAreOld'
  BY <1>2 DEF OldAreOld, CallOf, Kinds
<1>6. SaveAt'
  <2>1. ASSUME NEW i \in 1..(slot - 1)
        PROVE  disk'["slot"][i] = IF i <= Len(licenses) THEN Written(i)' ELSE NoFile
    <3>1. i \in 1..Slots /\ i # slot
      BY <1>2
    <3>2. disk'["slot"][i] = disk["slot"][i]
      BY <3>1 DEF CallOf, Kinds
    <3>3. Written(i)' = Written(i)
      BY <1>1, <3>1 DEF Written
    <3> QED
      BY <1>2, <3>2, <3>3 DEF WrittenSoFar
  <2>2. WrittenSoFar'
    BY <1>1, <2>1 DEF WrittenSoFar
  <2>3. call = "clean" => Written(slot)' = Written(slot)
    BY <1>1 DEF Written
  <2> QED
    BY <1>1, <1>2, <2>2, <2>3 DEF SaveAt
<1>7. CutBehind'
  BY <1>1, <1>2 DEF CutBehind, Saving
<1> QED
  BY <1>2, <1>4, <1>5, <1>6, <1>7 DEF Inv, ReadSoFar, CardIsSaved

\* A slot that is as it shall be: the next one, or the save is done.
LEMMA SlotDone ==
  ASSUME Inv, pc \in {"clean", "remove"}, NEW k, CallOf(k), "settings" \notin k, NextSlot,
         disk'["slot"][slot] = IF slot <= Len(licenses) THEN Written(slot) ELSE NoFile
  PROVE  Inv'
<1>0. pc \in Saving
  BY DEF Saving
<1>1. /\ TypeOK /\ SaveAt /\ WrittenSoFar /\ CutBehind /\ OldAreOld /\ saved = NoSave
      /\ slot \in 1..Slots /\ slot \in Nat /\ Len(licenses) \in Nat /\ Len(licenses) <= Slots
      /\ Slots \in Nat /\ licenses \in Seq(License)
  BY <1>0, SavingFacts DEF TypeOK
<1>2. UNCHANGED <<licenses, edits>>
  BY DEF CallOf
<1>4. ASSUME NEW i \in 1..slot
      PROVE  disk'["slot"][i] = IF i <= Len(licenses) THEN Written(i) ELSE NoFile
  <2>1. CASE i = slot
    BY <2>1
  <2>2. CASE i # slot
    <3>1. i \in 1..(slot - 1) /\ i \in 1..Slots
      BY <1>1, <2>2
    <3>2. disk'["slot"][i] = disk["slot"][i]
      BY <2>2, <3>1 DEF CallOf, Kinds
    <3> QED
      BY <1>1, <3>1, <3>2 DEF WrittenSoFar
  <2> QED
    BY <2>1, <2>2
<1>5. OldAreOld'
  BY <1>1 DEF OldAreOld, CallOf, Kinds
<1>6. CASE slot < Slots
  <2>1. /\ pc' = IF slot < Len(licenses) THEN "open" ELSE "remove"
        /\ slot' = slot + 1 /\ UNCHANGED <<kept, exposed, saved, cut, faults>>
    BY <1>6 DEF NextSlot, NotDone, NoFault
  <2>3. slot' \in 1..Slots /\ slot' - 1 = slot /\ pc' \in {"open", "remove"}
    BY <1>1, <1>6, <2>1
  <2>4. TypeOK'
    BY <1>1, <1>2, <2>1, <2>3 DEF TypeOK, CallOf
  <2>5. SaveAt'
    <3>1. ASSUME NEW i \in 1..slot
          PROVE  disk'["slot"][i] = IF i <= Len(licenses') THEN Written(i)' ELSE NoFile
      <4>1. Written(i)' = Written(i)
        BY <1>2, <2>1 DEF Written
      <4> QED
        BY <1>2, <1>4, <4>1
    <3>2. WrittenSoFar'
      BY <2>3, <3>1 DEF WrittenSoFar
    <3>3. pc' = "remove" <=> slot' > Len(licenses')
      BY <1>1, <1>2, <2>1
    <3> QED
      BY <2>3, <3>2, <3>3 DEF SaveAt
  <2>6. CutBehind'
    <3>1. ASSUME NEW i \in cut
          PROVE  i <= Len(licenses) /\ i <= slot + 1 /\ i # slot + 1
      <4>0. cut \subseteq 1..Slots /\ i \in 1..Slots
        BY <1>1 DEF TypeOK
      <4>1. i \in Nat
        BY <1>1, <4>0
      <4>2. i <= Len(licenses) /\ i <= slot
        BY <1>1, <3>1 DEF CutBehind
      <4> QED
        BY <1>1, <4>1, <4>2
    <3> QED
      BY <1>2, <2>1, <2>3, <3>1 DEF CutBehind, Saving
  <2> QED
    BY <1>1, <1>5, <2>1, <2>3, <2>4, <2>5, <2>6 DEF Inv, ReadSoFar, CardIsSaved
<1>7. CASE ~(slot < Slots)
  <2>1. /\ pc' = "idle" /\ slot' = 1 /\ cut' = {} /\ faults' = 0
        /\ saved' = [i \in 1..Len(licenses) |-> Written(i)]
        /\ kept' = LastEdits(kept \cup Elements(licenses))
        /\ exposed' = exposed \cap Missing(saved')
    BY <1>7 DEF NextSlot, Done, Written
  <2>2. slot = Slots /\ slot' \in 1..Slots /\ faults' \in 0..MaxFaults
    BY <1>1, <1>7, <2>1, SaveAssumption
  <2>3. saved' \in Seq(License) /\ Len(saved') = Len(licenses)
    <3>1. \A i \in 1..Len(licenses) : Written(i) \in License
      BY <1>1, WrittenIs
    <3>2. saved' \in [1..Len(licenses) -> License]
      BY <2>1, <3>1
    <3> QED
      BY <1>1, <3>2, SeqOfLen
  <2>4. kept' \subseteq License /\ exposed' \subseteq Nat
    BY <1>1, <2>1, KeptTyped DEF TypeOK
  <2>5. TypeOK'
    BY <1>1, <1>2, <2>1, <2>2, <2>3, <2>4 DEF TypeOK, CallOf
  <2>6. CardIsSaved'
    <3>1. ASSUME NEW i \in 1..Slots
          PROVE  IF i <= Len(saved')
                   THEN disk'["slot"][i] = saved'[i]
                   ELSE disk'["slot"][i] # NoFile => disk'["slot"][i].edit = 0
      <4>1. disk'["slot"][i] = IF i <= Len(licenses) THEN Written(i) ELSE NoFile
        BY <1>4, <2>2
      <4>2. i <= Len(licenses) => saved'[i] = Written(i)
        BY <1>1, <2>1
      <4> QED
        BY <2>3, <4>1, <4>2
    <3> QED
      BY <1>1, <2>1, <2>3, <3>1 DEF CardIsSaved, Quiet
  <2> QED
    BY <1>5, <2>1, <2>5, <2>6 DEF Inv, ReadSoFar, SaveAt, Saving, CutBehind
<1> QED
  BY <1>6, <1>7

\* The calls of WriteFile and of saveSPSave, one lemma for each: open,
LEMMA OpenStep ==
  ASSUME Inv, Open
  PROVE  Inv'
<1>1. pc = "open" /\ pc \in Saving /\ pc # "remove" /\ UNCHANGED <<licenses, edits>> /\ NotDone
  BY DEF Open, Unchanging, Saving
<1>2. TypeOK
  BY DEF Inv
<1>3. CASE Put("new", Blank) /\ Goto("write") /\ NoFault
  <2>1. CallOf({"new"}) /\ disk'["new"][slot] = Blank
    BY <1>1, <1>2, <1>3, BlankIs, PutCall DEF Kinds, Contents
  <2>2. exposed' \subseteq Nat
    BY <1>1, <1>2 DEF NotDone, TypeOK
  <2> QED
    BY <1>1, <1>3, <2>1, <2>2, NextCall DEF Goto, NotDone
<1>4. CASE Fault /\ Fails /\ UNCHANGED disk
  <2>1. CallOf({})
    BY <1>1, <1>2, <1>4, IdleCall
  <2> QED
    BY <1>1, <1>4, <2>1, FailedSave
<1> QED
  BY <1>3, <1>4 DEF Open

\* write,
LEMMA WriteStep ==
  ASSUME Inv, Write
  PROVE  Inv'
<1>1. /\ pc = "write" /\ pc \in Saving /\ pc # "remove" /\ UNCHANGED <<licenses, edits, disk>>
      /\ NotDone
  BY DEF Write, Unchanging, Saving
<1>2. TypeOK /\ disk["new"][slot] = Blank /\ CallOf({})
  BY <1>1, IdleCall DEF Inv, SaveAt
<1>3. CASE Goto("close") /\ NoFault
  <2>1. exposed' \subseteq Nat /\ disk'["new"][slot] = Blank
    BY <1>1, <1>2 DEF NotDone, TypeOK
  <2> QED
    BY <1>1, <1>2, <1>3, <2>1, NextCall DEF Goto, NotDone
<1>4. CASE Fault /\ Fails
  BY <1>1, <1>2, <1>4, FailedSave
<1> QED
  BY <1>3, <1>4 DEF Write

\* close: .new is as it will be from here,
LEMMA CloseStep ==
  ASSUME Inv, Close
  PROVE  Inv'
<1>1. /\ pc = "close" /\ pc \in Saving /\ pc # "remove" /\ UNCHANGED <<licenses, edits>>
      /\ UNCHANGED <<slot, kept, saved>> /\ pc' = "drop" /\ (NoFault \/ Fault)
  BY DEF Close, Saving
<1>2. /\ TypeOK /\ slot \in 1..Len(licenses) /\ disk["new"][slot] = Blank /\ slot \notin cut
      /\ licenses[slot] \in License /\ exposed \subseteq Nat
  BY <1>1, SavingFacts, Typed DEF SaveAt, CutBehind, TypeOK
<1>3. CASE Put("new", licenses[slot]) /\ UNCHANGED <<exposed, cut>>
  <2>1. licenses[slot] \in Contents /\ Written(slot)' = licenses[slot]
    BY <1>1, <1>2, <1>3 DEF Contents, Written
  <2>2. CallOf({"new"}) /\ disk'["new"][slot] = Written(slot)'
    BY <1>1, <1>2, <1>3, <2>1, PutCall DEF Kinds
  <2> QED
    BY <1>1, <1>2, <1>3, <2>2, NextCall
<1>4. CASE /\ UNCHANGED disk
           /\ exposed' = exposed \cup {licenses[slot].mii} /\ cut' = cut \cup {slot}
  <2>1. CallOf({}) /\ disk'["new"][slot] = Written(slot)'
    BY <1>1, <1>2, <1>4, IdleCall DEF Written
  <2>2. exposed' \subseteq Nat
    BY <1>2, <1>4 DEF License
  <2> QED
    BY <1>1, <1>4, <2>1, <2>2, NextCall
<1> QED
  BY <1>3, <1>4 DEF Close

\* remove .old,
LEMMA DropStep ==
  ASSUME Inv, Drop
  PROVE  Inv'
<1>1. pc = "drop" /\ pc \in Saving /\ pc # "remove" /\ UNCHANGED <<licenses, edits>> /\ NotDone
  BY DEF Drop, Unchanging, Saving
<1>2. TypeOK /\ slot \in 1..Slots /\ disk["new"][slot] = Written(slot)
  BY <1>1, Typed DEF Inv, SaveAt, Saving
<1>3. CASE Put("old", NoFile) /\ Goto("retire") /\ NoFault
  <2>1. CallOf({"old"})
    BY <1>1, <1>2, <1>3, PutCall DEF Kinds, Contents
  <2>2. Written(slot)' = Written(slot)
    BY <1>1, <1>3 DEF Goto, Written
  <2>3. disk'["new"][slot] = Written(slot)' /\ exposed' \subseteq Nat
    BY <1>1, <1>2, <2>1, <2>2 DEF CallOf, Kinds, NotDone, TypeOK
  <2> QED
    BY <1>1, <1>3, <2>1, <2>3, NextCall DEF Goto, NotDone
<1>4. CASE Fault /\ Fails /\ UNCHANGED disk
  <2>1. CallOf({})
    BY <1>1, <1>2, <1>4, IdleCall
  <2> QED
    BY <1>1, <1>4, <2>1, FailedSave
<1> QED
  BY <1>3, <1>4 DEF Drop

\* move the slot to .old,
LEMMA RetireStep ==
  ASSUME Inv, Retire
  PROVE  Inv'
<1>1. pc = "retire" /\ pc \in Saving /\ pc # "remove" /\ UNCHANGED <<licenses, edits>> /\ NotDone
  BY DEF Retire, Unchanging, Saving
<1>2. TypeOK /\ slot \in 1..Slots /\ disk["new"][slot] = Written(slot)
  BY <1>1, Typed DEF Inv, SaveAt, Saving
<1>3. Goto("install") /\ (NoFault \/ Fault)
  BY DEF Retire
<1>4. Written(slot)' = Written(slot) /\ exposed' \subseteq Nat
  BY <1>1, <1>2, <1>3 DEF Goto, Written, NotDone, TypeOK
<1>5. CASE Rename("slot", "old")
  <2>2. CallOf({"slot", "old"})
    BY <1>1, <1>2, <1>5, RenameCall DEF Kinds
  <2>3. disk'["new"][slot] = Written(slot)'
    BY <1>2, <1>4, <2>2 DEF CallOf, Kinds
  <2> QED
    BY <1>1, <1>3, <1>4, <2>2, <2>3, NextCall DEF Goto, NotDone
<1>6. CASE UNCHANGED disk
  <2>1. CallOf({}) /\ disk'["new"][slot] = Written(slot)'
    BY <1>1, <1>2, <1>4, <1>6, IdleCall
  <2> QED
    BY <1>1, <1>3, <1>4, <2>1, NextCall DEF Goto, NotDone
<1> QED
  BY <1>5, <1>6 DEF Retire

\* move .new into place,
LEMMA InstallStep ==
  ASSUME Inv, Install
  PROVE  Inv'
<1>1. pc = "install" /\ pc \in Saving /\ pc # "remove" /\ UNCHANGED <<licenses, edits>> /\ NotDone
  BY DEF Install, Unchanging, Saving
<1>2. TypeOK /\ disk["new"][slot] = Written(slot)
  BY <1>1 DEF Inv, SaveAt, Saving
<1>3. CASE Rename("new", "slot") /\ Goto("clean") /\ NoFault
  <2>1. CallOf({"new", "slot"}) /\ disk'["slot"][slot] = Written(slot) /\ exposed' \subseteq Nat
    BY <1>1, <1>2, <1>3, RenameCall DEF Kinds, NotDone, TypeOK
  <2> QED
    BY <1>1, <1>3, <2>1, NextCall DEF Goto, NotDone
<1>4. CASE Fails /\ UNCHANGED disk /\ (NoFault \/ Fault)
  <2>1. CallOf({})
    BY <1>1, <1>2, <1>4, IdleCall
  <2> QED
    BY <1>1, <1>4, <2>1, FailedSave
<1> QED
  BY <1>3, <1>4 DEF Install

\* remove .old again, and on to the next slot;
LEMMA CleanStep ==
  ASSUME Inv, Clean
  PROVE  Inv'
<1>1. /\ pc = "clean" /\ pc \in Saving /\ pc # "remove" /\ UNCHANGED <<licenses, edits>>
      /\ NextSlot
  BY DEF Clean, Unchanging, Saving
<1>2. TypeOK /\ slot \in 1..Slots /\ slot <= Len(licenses) /\ disk["slot"][slot] = Written(slot)
  BY <1>1, SavingFacts DEF SaveAt
<1>4. CASE Put("old", NoFile)
  <2>1. CallOf({"old"})
    BY <1>1, <1>2, <1>4, PutCall DEF Kinds, Contents
  <2>2. disk'["slot"][slot] = Written(slot)
    BY <1>2, <2>1 DEF CallOf, Kinds
  <2> QED
    BY <1>1, <1>2, <2>1, <2>2, SlotDone
<1>5. CASE UNCHANGED disk
  <2>1. CallOf({})
    BY <1>1, <1>2, <1>5, IdleCall
  <2> QED
    BY <1>1, <1>2, <1>5, <2>1, SlotDone
<1> QED
  BY <1>4, <1>5 DEF Clean

\* a slot that is not in use any more.
LEMMA RemoveStep ==
  ASSUME Inv, Remove
  PROVE  Inv'
<1>1. pc = "remove" /\ pc \in Saving /\ UNCHANGED <<licenses, edits>>
  BY DEF Remove, Unchanging, Saving
<1>2. TypeOK /\ ~(slot <= Len(licenses))
  BY <1>1, SavingFacts DEF SaveAt
<1>4. CASE Put("slot", NoFile) /\ NextSlot
  <2>1. CallOf({"slot"}) /\ disk'["slot"][slot] = NoFile
    BY <1>1, <1>2, <1>4, PutCall DEF Kinds, Contents
  <2> QED
    BY <1>1, <1>2, <1>4, <2>1, SlotDone
<1>5. CASE Fault /\ Fails /\ NotDone /\ UNCHANGED disk
  <2>1. CallOf({})
    BY <1>1, <1>2, <1>5, IdleCall
  <2> QED
    BY <1>1, <1>5, <2>1, FailedSave
<1> QED
  BY <1>4, <1>5 DEF Remove
-------------------------------------------------------------------------------
(***************************************************************************)
(* The first theorems.                                                     *)
(***************************************************************************)
LEMMA InvNext == Inv /\ [Next]_vars => Inv'
<1> SUFFICES ASSUME Inv, [Next]_vars PROVE Inv'
  OBVIOUS
<1>1. CASE PowerLoss \/ Boot \/ Migrate \/ Read \/ ReadFails
  BY <1>1, PowerLossStep, BootStep, MigrateStep, ReadStep, ReadFailsStep
<1>2. CASE CreateSPLicense \/ EraseSPLicense \/ SetSetting \/ SaveLicensesAsync
  BY <1>2, CreateStep, EraseStep, SetSettingStep, SaveLicensesStep
<1>3. CASE Save
  BY <1>3, OpenStep, WriteStep, CloseStep, DropStep, RetireStep, InstallStep, CleanStep,
     RemoveStep DEF Save
<1>4. CASE UNCHANGED vars
  BY <1>4 DEF vars, Inv, TypeOK, ReadSoFar, SaveAt, WrittenSoFar, Written, CutBehind, OldAreOld,
              CardIsSaved
<1> QED
  BY <1>1, <1>2, <1>3, <1>4 DEF Next

\* The invariant always holds.
LEMMA SpecInv == Spec => []Inv
  BY InvInit, InvNext, PTL DEF Spec

\* The licenses are never more than there are slots (createSPLicense counts up
\* without looking), and whatever is cut off or fails, what is read is a license.
THEOREM TypeCorrect == Spec => []TypeOK
<1>1. Inv => TypeOK
  BY DEF Inv
<1> QED
  BY <1>1, SpecInv, PTL

\* What a start has loaded when it is done.
LEMMA Loaded ==
  ASSUME Inv, [Next]_vars, pc = "read", pc' = "idle"
  PROVE  /\ UNCHANGED <<disk, edits>> /\ StartDone(licenses')
         /\ licenses' \in Seq(License) /\ Len(licenses') \in Nat /\ Len(licenses') <= Slots
         /\ \A j \in 1..Len(licenses') :
              j \in 1..Slots /\ licenses'[j] = disk["slot"][j] /\ licenses'[j] \in License
         /\ \/ Len(licenses') = Slots
            \/ Len(licenses') = slot - 1 /\ disk["slot"][slot] = NoFile
            \/ saved' = NoSave /\ Fault
<1>1. /\ TypeOK /\ slot \in 1..Slots /\ Slots \in Nat
      /\ Len(licenses) = slot - 1
      /\ \A j \in 1..(slot - 1) : licenses[j] = disk["slot"][j]
  BY Typed, SaveAssumption DEF Inv, ReadSoFar
<1>2. Read \/ ReadFails
  BY DEF Next, PowerLoss, Boot, Migrate, CreateSPLicense, CreateSPLicenseAnyway, EraseSPLicense,
         SetSetting, SaveLicensesAsync, Save, Open, Write, Close, Drop, Retire, Install, Clean, Remove, vars
<1>3. TypeOK'
  BY InvNext DEF Inv
<1>4. /\ licenses' \in Seq(License) /\ Len(licenses') \in Nat /\ Len(licenses') <= Slots
      /\ \A j \in 1..Len(licenses') : licenses'[j] \in License
  <2>1. licenses' \in Seq(License) /\ Len(licenses') <= Slots
    BY <1>3 DEF TypeOK
  <2> QED
    BY <2>1, LenProperties, ElementOfSeq
<1>5. CASE Read
  <2>1. slot = Slots /\ StartDone(licenses') /\ UNCHANGED <<disk, edits>>
    BY <1>5 DEF Read
  <2>2. Len(licenses') = slot /\ \A j \in 1..slot : licenses'[j] = disk["slot"][j]
    BY <1>5, ReadStep
  <2> QED
    BY <1>1, <1>4, <2>1, <2>2
<1>6. CASE ReadFails
  BY <1>1, <1>4, <1>6 DEF ReadFails
<1> QED
  BY <1>2, <1>5, <1>6

\* Whatever earlier saves left behind, and however often calls have failed, a
\* save reported Ok is what the next start loads: all of it, but nothing of a license
\* whose file failed to close (~FileHandle ignores it), and nothing older than the
\* files of another version behind it.
THEOREM SavedIsLoaded == Spec => LoadsWhatWasSaved
<1> DEFINE A == pc = "read" /\ pc' = "idle" /\ saved' # NoSave =>
                  /\ Len(licenses') >= Len(saved')
                  /\ \A i \in 1..Len(licenses') :
                       IF i <= Len(saved')
                         THEN licenses'[i] = saved'[i]
                         ELSE licenses'[i].edit = 0
<1>1. Inv /\ [Next]_vars => A
  <2> SUFFICES ASSUME Inv, [Next]_vars, pc = "read", pc' = "idle", saved' # NoSave
               PROVE  /\ Len(licenses') >= Len(saved')
                      /\ \A i \in 1..Len(licenses') :
                           IF i <= Len(saved')
                             THEN licenses'[i] = saved'[i]
                             ELSE licenses'[i].edit = 0
    OBVIOUS
  <2>1. /\ UNCHANGED disk /\ Len(licenses') \in Nat /\ Len(licenses') <= Slots
        /\ \A j \in 1..Len(licenses') :
             j \in 1..Slots /\ licenses'[j] = disk["slot"][j] /\ licenses'[j] \in License
        /\ \/ Len(licenses') = Slots
           \/ Len(licenses') = slot - 1 /\ disk["slot"][slot] = NoFile
    BY Loaded
  <2>2. /\ saved' \in Seq(License) /\ Len(saved') \in Nat /\ Len(saved') <= Slots
        /\ \A i \in 1..Slots :
             IF i <= Len(saved')
               THEN disk["slot"][i] = saved'[i]
               ELSE disk["slot"][i] # NoFile => disk["slot"][i].edit = 0
    <3>1. TypeOK' /\ CardIsSaved'
      BY InvNext DEF Inv
    <3>2. saved' \in Seq(License)
      BY <3>1 DEF TypeOK
    <3> QED
      BY <2>1, <3>1, <3>2, LenProperties DEF CardIsSaved
  <2>3. Len(licenses') >= Len(saved')
    <3>1. slot \in 1..Slots /\ slot \in Nat /\ Slots \in Nat
      BY Typed, SaveAssumption DEF Inv
    <3>2. ASSUME disk["slot"][slot] = NoFile, slot <= Len(saved') PROVE FALSE
      <4>1. saved'[slot] \in License /\ disk["slot"][slot] = saved'[slot]
        BY <2>2, <3>1, <3>2, ElementOfSeq
      <4> QED
        BY <3>2, <4>1, SaveAssumption
    <3> QED
      BY <2>1, <2>2, <3>1, <3>2
  <2>4. \A i \in 1..Len(licenses') :
          IF i <= Len(saved') THEN licenses'[i] = saved'[i] ELSE licenses'[i].edit = 0
    BY <2>1, <2>2, SaveAssumption
  <2> QED
    BY <2>3, <2>4
<1>2. Inv /\ [Next]_vars => [A]_vars
  BY <1>1
<1> HIDE DEF A
<1>3. Spec => [][A]_vars
  BY <1>2, SpecInv, PTL DEF Spec
<1> QED
  BY <1>3 DEF A, LoadsWhatWasSaved
-------------------------------------------------------------------------------
(***************************************************************************)
(* No license leaves the card unnoticed, as long as no two calls fail in   *)
(* one session.                                                            *)
(***************************************************************************)
\* A start goes on behind a slot that has a file, or stops where one was being
\* replaced.
NonVoid(i) == disk["slot"][i] # NoFile \/ LeftBehind(i) # {}
Reached(i) == \A k \in 1..i : NonVoid(k)

\* In a slot that no save is about, or where only the rename into place failed.
Plain(l, i) ==
  /\ Reached(i)
  /\ \/ Above(disk["slot"][i], l)
     \/ disk["slot"][i] = NoFile /\ Above(disk["old"][i], l) /\ faults >= 1

\* In the slot being written, which will hold the license again.
Here(l) ==
  /\ pc \in {"open", "write", "close", "drop"} => Plain(l, slot)
  /\ pc = "retire" =>
       Above(disk["slot"][slot], l) \/ (disk["slot"][slot] = NoFile /\ faults >= 1)
  /\ pc = "install" =>
       \/ Above(disk["slot"][slot], l)
       \/ disk["slot"][slot] = NoFile /\ (Above(disk["old"][slot], l) \/ faults >= 1)

\* A license is in memory, and on the card at its place or behind it: where it
\* was before others were erased.  The slots before this one are written.
HeldAt(l, j) ==
  \/ pc \in Saving /\ j < slot
  \/ pc \in Saving /\ j = slot /\ Here(l)
  \/ \E i \in 1..Slots : i >= j /\ (pc \in Saving => i > slot) /\ Plain(l, i)
Held(l) == \E j \in 1..Len(licenses) : Above(licenses[j], l) /\ HeldAt(l, j)

\* Where a start finds it, unless it stops, or left behind.
OnCard(l) ==
  \/ \E i \in 1..Slots : Reached(i) /\ Above(disk["slot"][i], l)
  \/ \E i \in 1..Slots : \E file \in LeftBehind(i) : Above(file, l)

\* Nothing is newer than the last edit.
Past(f, e) == f \in License => f.edit <= e
EditsPast ==
  /\ \A i \in 1..Len(licenses) : licenses[i].edit <= edits
  /\ \A kind \in Kinds, i \in 1..Slots : Past(disk[kind][i], edits)

\* A license whose file was not closed is exposed.
CutExposed == Blank \notin kept /\ \A i \in cut : licenses[i].mii \in exposed

InSession == pc \in Saving \cup {"idle"}
Safe ==
  \A l \in kept : l.mii \notin exposed => IF InSession THEN Held(l) ELSE OnCard(l)

\* NothingLost follows from the terms of these proofs.
LEMMA OnCardSomewhere ==
  ASSUME NEW l, OnCard(l)
  PROVE  \E kind \in Kinds, i \in 1..Slots : Above(disk[kind][i], l)
BY DEF OnCard, LeftBehind, Kinds

\* What is in .old or .new is left behind.
LEMMA Left ==
  ASSUME NEW i \in 1..Slots, NEW kind \in {"old", "new"}, disk[kind][i] \in License
  PROVE  disk[kind][i] \in LeftBehind(i) /\ NonVoid(i)
BY SaveAssumption DEF LeftBehind, NonVoid

LEMMA PlainOnCard ==
  ASSUME NEW l, NEW i \in 1..Slots, Plain(l, i)
  PROVE  OnCard(l)
<1>1. CASE Above(disk["slot"][i], l)
  BY <1>1 DEF Plain, OnCard
<1>2. CASE Above(disk["old"][i], l)
  BY <1>2, Left DEF OnCard, Above
<1> QED
  BY <1>1, <1>2 DEF Plain

\* The slots that are written are reached.
LEMMA WrittenReached ==
  ASSUME Inv, pc \in Saving, NEW j \in 1..Len(licenses), j < slot
  PROVE  /\ Reached(j)
         /\ disk["slot"][j] = Written(j)
<1>1. /\ TypeOK /\ WrittenSoFar /\ slot \in 1..Slots /\ slot \in Nat /\ Len(licenses) \in Nat
      /\ Len(licenses) <= Slots
  BY SavingFacts
<1>2. ASSUME NEW k \in 1..j
      PROVE  disk["slot"][k] = Written(k) /\ NonVoid(k)
  <2>1. k \in 1..(slot - 1) /\ k \in 1..Len(licenses) /\ k <= Len(licenses)
    BY <1>1
  <2> QED
    BY <1>1, <2>1, WrittenIs DEF WrittenSoFar, NonVoid
<1>3. j \in 1..j
  BY <1>1
<1> QED
  BY <1>2, <1>3 DEF Reached

\* A file that was written is that of its license, unless that is exposed.
LEMMA WrittenUnexposed ==
  ASSUME CutExposed, NEW j \in 1..Len(licenses), NEW l, Above(licenses[j], l), l.mii \notin exposed
  PROVE  Written(j) = licenses[j]
BY DEF CutExposed, Written, Above

\* What is held is on the card.
LEMMA HeldOnCard ==
  ASSUME Inv, CutExposed, InSession, NEW l \in kept, l.mii \notin exposed, Held(l)
  PROVE  OnCard(l)
<1>1. /\ TypeOK /\ slot \in 1..Slots /\ slot \in Nat /\ Len(licenses) \in Nat
      /\ Len(licenses) <= Slots /\ Slots \in Nat
  BY Typed, SaveAssumption DEF Inv
<1>2. PICK j \in 1..Len(licenses) : Above(licenses[j], l) /\ HeldAt(l, j)
  BY DEF Held
<1>3. Written(j) = licenses[j] /\ licenses[j] \in License
  BY <1>2, WrittenUnexposed DEF Above
<1>4. CASE pc \in Saving /\ j < slot
  <2>1. Reached(j) /\ disk["slot"][j] = licenses[j] /\ j \in 1..Slots
    BY <1>1, <1>3, <1>4, WrittenReached
  <2> QED
    BY <1>2, <2>1 DEF OnCard
<1>5. CASE pc \in Saving /\ j = slot /\ Here(l)
  <2>1. CASE pc \in {"open", "write", "close", "drop"}
    BY <1>1, <1>5, <2>1, PlainOnCard DEF Here
  <2>2. CASE pc \in {"retire", "install"}
    <3>1. disk["new"][slot] = licenses[slot]
      BY <1>3, <1>5, <2>2, SavingFacts DEF SaveAt
    <3> QED
      BY <1>1, <1>2, <1>3, <1>5, <3>1, Left DEF OnCard
  <2>3. CASE pc = "clean"
    <3>1. disk["slot"][slot] = licenses[slot]
      BY <1>3, <1>5, <2>3, SavingFacts DEF SaveAt
    <3>2. NonVoid(slot)
      BY <1>3, <1>5, <3>1, SaveAssumption DEF NonVoid
    <3>3. ASSUME NEW k \in 1..slot PROVE NonVoid(k)
      <4>1. CASE k = slot
        BY <3>2, <4>1
      <4>2. CASE k # slot
        <5>1. k < slot /\ k \in 1..Len(licenses) /\ k \in 1..k
          BY <1>1, <1>5, <4>2
        <5> QED
          BY <1>5, <5>1, WrittenReached DEF Reached
      <4> QED
        BY <4>1, <4>2
    <3> QED
      BY <1>1, <1>2, <1>5, <3>1, <3>3 DEF OnCard, Reached
  <2>4. CASE pc = "remove"
    BY <1>5, <2>4, SavingFacts
  <2> QED
    BY <1>5, <2>1, <2>2, <2>3, <2>4 DEF Saving
<1>6. CASE \E i \in 1..Slots : i >= j /\ (pc \in Saving => i > slot) /\ Plain(l, i)
  BY <1>6, PlainOnCard
<1> QED
  BY <1>2, <1>4, <1>5, <1>6 DEF HeldAt

-------------------------------------------------------------------------------
\* What the calls leave on the card is not newer than what was there.
LEMMA PutPast ==
  ASSUME TypeOK, EditsPast, NEW kind \in Kinds, NEW content \in Contents, Put(kind, content),
         Past(content, edits)
  PROVE  \A k \in Kinds, i \in 1..Slots : Past(disk'[k][i], edits)
<1>1. TAKE k \in Kinds, i \in 1..Slots
<1>2. CASE k = kind /\ i = slot
  BY <1>2, PutFacts
<1>3. CASE ~(k = kind /\ i = slot)
  <2>1. disk'[k][i] = disk[k][i]
    BY <1>3, PutFacts
  <2> QED
    BY <2>1 DEF EditsPast
<1> QED
  BY <1>2, <1>3

\* The same when a file is moved.
LEMMA RenamePast ==
  ASSUME TypeOK, EditsPast, NEW from \in Kinds, NEW to \in Kinds, from # to, Rename(from, to)
  PROVE  \A k \in Kinds, i \in 1..Slots : Past(disk'[k][i], edits)
<1>a. slot \in 1..Slots
  BY DEF TypeOK
<1>1. TAKE k \in Kinds, i \in 1..Slots
<1>2. CASE k = to /\ i = slot
  BY <1>a, <1>2, RenameFacts DEF EditsPast
<1>3. CASE k = from /\ i = slot
  <2>1. disk'[k][i] = NoFile
    BY <1>3, RenameFacts
  <2> QED
    BY <2>1, SaveAssumption DEF Past
<1>4. CASE k \notin {from, to} \/ i # slot
  <2>1. disk'[k][i] = disk[k][i]
    BY <1>4, RenameFacts
  <2> QED
    BY <2>1 DEF EditsPast
<1> QED
  BY <1>2, <1>3, <1>4

\* Every call of a save leaves on the card what was there, or the license of
\* this slot.
LEMMA CallPast ==
  ASSUME Inv, EditsPast, Save
  PROVE  EditsPast'
<1>1. /\ TypeOK /\ pc \in Saving
      /\ pc # "remove" <=> slot \in 1..Len(licenses)
  BY SavingFacts DEF Save, Open, Write, Close, Drop, Retire, Install, Clean, Remove, Saving
<1>2. UNCHANGED <<licenses, edits>> /\ edits \in Nat
  BY <1>1 DEF Save, Open, Write, Close, Drop, Retire, Install, Clean, Remove, Unchanging, TypeOK
<1>3. Past(NoFile, edits) /\ Past(Blank, edits) /\ Blank \in Contents
  BY <1>2, BlankIs, SaveAssumption DEF Past, Contents
<1>4. ASSUME \A k \in Kinds, i \in 1..Slots : Past(disk'[k][i], edits)
      PROVE  EditsPast'
  BY <1>2, <1>4 DEF EditsPast
<1>5. CASE UNCHANGED disk
  BY <1>4, <1>5 DEF EditsPast
<1>6. CASE Close /\ Put("new", licenses[slot])
  <2>1. slot \in 1..Len(licenses)
    BY <1>1, <1>6 DEF Close
  <2>2. licenses[slot] \in Contents /\ Past(licenses[slot], edits)
    BY <1>1, <2>1, Typed DEF Contents, EditsPast, Past
  <2>3. \A k \in Kinds, i \in 1..Slots : Past(disk'[k][i], edits)
    BY <1>1, <1>6, <2>2, PutPast DEF Kinds
  <2> QED
    BY <1>4, <2>3
<1>7. CASE Put("new", Blank) \/ Put("old", NoFile) \/ Put("slot", NoFile)
  <2>1. \A k \in Kinds, i \in 1..Slots : Past(disk'[k][i], edits)
    BY <1>1, <1>3, <1>7, PutPast DEF Kinds, Contents
  <2> QED
    BY <1>4, <2>1
<1>8. CASE Rename("slot", "old") \/ Rename("new", "slot")
  <2>1. \A k \in Kinds, i \in 1..Slots : Past(disk'[k][i], edits)
    BY <1>1, <1>8, RenamePast DEF Kinds
  <2> QED
    BY <1>4, <2>1
<1>9. \/ UNCHANGED disk \/ Put("new", Blank) \/ (Close /\ Put("new", licenses[slot]))
      \/ Put("old", NoFile) \/ Put("slot", NoFile) \/ Rename("slot", "old")
      \/ Rename("new", "slot")
  BY DEF Save, Open, Write, Close, Drop, Retire, Install, Clean, Remove
<1> QED
  BY <1>5, <1>6, <1>7, <1>8, <1>9

\* An edit is the newest when it is made.
LEMMA EditPast ==
  ASSUME Inv, EditsPast, CreateSPLicense \/ EraseSPLicense \/ SetSetting
  PROVE  EditsPast'
<1>1. /\ licenses \in Seq(License) /\ Len(licenses) \in Nat /\ edits \in Nat
      /\ \A i \in 1..Len(licenses) : licenses[i] \in License /\ licenses[i].edit <= edits
      /\ licenses' \in Seq(License) /\ disk \in Files
  BY Typed, InvNext DEF Inv, TypeOK, EditsPast, Next
<1>2. UNCHANGED disk /\ (edits' = edits \/ edits' = edits + 1)
  BY DEF CreateSPLicense, CreateSPLicenseAnyway, EraseSPLicense, SetSetting
<1>3. \A i \in 1..Len(licenses) : licenses[i].edit <= edits' /\ licenses[i].edit \in Nat
  BY <1>1, <1>2 DEF License
<1>4. \A kind \in Kinds, i \in 1..Slots : Past(disk'[kind][i], edits')
  <2>1. TAKE kind \in Kinds, i \in 1..Slots
  <2>2. disk'[kind][i] \in License => disk[kind][i].edit <= edits /\ disk[kind][i].edit \in Nat
    BY <1>2 DEF EditsPast, Past, License
  <2> QED
    BY <1>1, <1>2, <2>2 DEF Past
<1>5. \A i \in 1..Len(licenses') : licenses'[i].edit <= edits'
  <2>1. CASE CreateSPLicense
    <3>1. edits' \in Nat /\ [mii |-> edits', edit |-> edits'] \in License
      BY <1>1, <1>2 DEF License
    <3>2. licenses' = Append(licenses, [mii |-> edits', edit |-> edits'])
      BY <2>1 DEF CreateSPLicense, CreateSPLicenseAnyway
    <3>3. /\ Len(licenses') = Len(licenses) + 1
          /\ \A i \in 1..Len(licenses) : licenses'[i] = licenses[i]
          /\ licenses'[Len(licenses) + 1] = [mii |-> edits', edit |-> edits']
      BY <1>1, <3>1, <3>2, AppendProperties
    <3>4. \A i \in 1..Len(licenses') : i \in 1..Len(licenses) \/ i = Len(licenses) + 1
      BY <1>1, <3>3
    <3>5. [mii |-> edits', edit |-> edits'].edit = edits' /\ edits' <= edits'
      BY <3>1
    <3> QED
      BY <1>3, <3>3, <3>4, <3>5
  <2>2. CASE EraseSPLicense
    <3>1. PICK e \in 1..Len(licenses) :
            licenses' = [j \in 1..Len(licenses) - 1 |-> licenses[IF j < e THEN j ELSE j + 1]]
      BY <2>2 DEF EraseSPLicense
    <3>2. DOMAIN licenses' = 1..Len(licenses')
      BY <1>1, LenProperties
    <3>3. DOMAIN licenses' = 1..(Len(licenses) - 1)
      BY <3>1
    <3>4. TAKE i \in 1..Len(licenses')
    <3>5. i \in 1..(Len(licenses) - 1)
      BY <3>2, <3>3
    <3>6. licenses'[i] = licenses[IF i < e THEN i ELSE i + 1]
      BY <3>1, <3>5
    <3>7. (IF i < e THEN i ELSE i + 1) \in 1..Len(licenses)
      BY <1>1, <3>5
    <3> QED
      BY <1>3, <3>6, <3>7
  <2>3. CASE SetSetting
    <3>1. PICK e \in 1..Len(licenses) : licenses' = [licenses EXCEPT ![e].edit = edits']
      BY <2>3 DEF SetSetting
    <3>2. DOMAIN licenses = 1..Len(licenses) /\ DOMAIN licenses' = 1..Len(licenses')
      BY <1>1, LenProperties
    <3>3. DOMAIN licenses' = DOMAIN licenses
      BY <3>1
    <3>4. TAKE i \in 1..Len(licenses')
    <3>5. i \in 1..Len(licenses) /\ i \in DOMAIN licenses
      BY <3>2, <3>3
    <3>6. CASE i # e
      <4>1. licenses'[i] = licenses[i]
        BY <3>1, <3>5, <3>6
      <4> QED
        BY <1>3, <3>5, <4>1
    <3>7. CASE i = e
      <4>1. licenses'[i] = [licenses[i] EXCEPT !.edit = edits']
        BY <3>1, <3>5, <3>7
      <4>2. \A x \in License, n \in Nat : [x EXCEPT !.edit = n].edit = n
        BY DEF License
      <4>3. licenses'[i].edit = edits' /\ edits' <= edits'
        BY <1>1, <1>2, <3>5, <4>1, <4>2
      <4> QED
        BY <4>3
    <3> QED
      BY <3>6, <3>7
  <2> QED
    BY <2>1, <2>2, <2>3
<1> QED
  BY <1>4, <1>5 DEF EditsPast

\* Every step keeps the edits behind the counter.
LEMMA EditsPastNext ==
  ASSUME Inv, EditsPast, [Next]_vars
  PROVE  EditsPast'
<1>1. CASE Save \/ CreateSPLicense \/ EraseSPLicense \/ SetSetting
  BY <1>1, CallPast, EditPast
<1>2. CASE Migrate
  <2>1. TypeOK /\ UNCHANGED <<licenses, edits>>
    BY <1>2 DEF Inv, Migrate
  <2>2. CASE Rename("settings", "slot")
    <3>2. \A k \in Kinds, i \in 1..Slots : Past(disk'[k][i], edits)
      BY <2>1, <2>2, RenamePast DEF Kinds
    <3> QED
      BY <2>1, <3>2 DEF EditsPast
  <2>3. CASE UNCHANGED disk
    BY <2>1, <2>3 DEF EditsPast
  <2> QED
    BY <1>2, <2>2, <2>3 DEF Migrate
<1>3. CASE Read
  <2>1. /\ TypeOK /\ licenses \in Seq(License) /\ slot \in 1..Slots /\ Len(licenses) \in Nat
        /\ disk["slot"][slot] # NoFile
        /\ UNCHANGED <<disk, edits>> /\ licenses' = Append(licenses, disk["slot"][slot])
    BY <1>3, Typed DEF Inv, TypeOK, Read
  <2>2. disk["slot"][slot] \in License
    BY <2>1, Typed
  <2>3. disk["slot"][slot].edit <= edits
    BY <2>1, <2>2 DEF EditsPast, Past, Kinds
  <2>4. /\ Len(licenses') = Len(licenses) + 1
        /\ \A i \in 1..Len(licenses) : licenses'[i] = licenses[i]
        /\ licenses'[Len(licenses) + 1] = disk["slot"][slot]
    BY <2>1, <2>2, AppendProperties
  <2>5. \A i \in 1..Len(licenses') : i \in 1..Len(licenses) \/ i = Len(licenses) + 1
    BY <2>1, <2>4
  <2>6. \A i \in 1..Len(licenses') : licenses'[i].edit <= edits'
    BY <2>1, <2>3, <2>4, <2>5 DEF EditsPast
  <2> QED
    BY <2>1, <2>6 DEF EditsPast
<1>4. CASE PowerLoss
  <2>1. licenses' = <<>> /\ UNCHANGED <<disk, edits>> /\ 1..Len(<<>>) = {}
    BY <1>4, EmptySeq DEF PowerLoss
  <2> QED
    BY <2>1 DEF EditsPast
<1>5. CASE Boot \/ ReadFails \/ SaveLicensesAsync \/ UNCHANGED vars
  BY <1>5 DEF Boot, ReadFails, SaveLicensesAsync, vars, EditsPast
<1> QED
  BY <1>1, <1>2, <1>3, <1>4, <1>5 DEF Next
-------------------------------------------------------------------------------
\* What the steps of a save need of the state.
LEMMA SaveFacts ==
  ASSUME Inv, MaxFaults <= 1
  PROVE  /\ TypeOK /\ slot \in 1..Slots /\ slot \in Nat /\ Slots \in Nat /\ Slots >= 1
         /\ Len(licenses) \in Nat /\ Len(licenses) <= Slots
         /\ \A j \in 1..Len(licenses) : licenses[j] \in License
         /\ faults \in Nat /\ kept \subseteq License
         /\ Fault => faults = 0 /\ faults' = 1
BY Typed, SaveAssumption DEF Inv, TypeOK, Fault

\* A call leaves a file of its slot.
NonVoidAfter == \E kind \in {"slot", "old", "new"} : disk'[kind][slot] # NoFile

\* A call that leaves something of its slot leaves every slot within reach.
LEMMA ReachedCall ==
  ASSUME Inv, NEW k, CallOf(k), NonVoidAfter, NEW i \in 1..Slots, Reached(i)
  PROVE  Reached(i)'
<1>1. slot \in 1..Slots /\ Slots \in Nat
  BY Typed, SaveAssumption DEF Inv
<1>2. ASSUME NEW m \in 1..i
      PROVE  NonVoid(m)'
  <2>1. m \in 1..Slots
    BY <1>1
  <2>2. CASE m = slot
    BY <2>2 DEF NonVoidAfter, NonVoid, LeftBehind
  <2>3. CASE m # slot
    <3>1. /\ disk'["slot"][m] = disk["slot"][m] /\ disk'["old"][m] = disk["old"][m]
          /\ disk'["new"][m] = disk["new"][m]
      BY <2>1, <2>3 DEF CallOf, Kinds
    <3> QED
      BY <3>1 DEF Reached, NonVoid, LeftBehind
  <2> QED
    BY <2>2, <2>3
<1> QED
  BY <1>2 DEF Reached

\* A slot that is as it was is where it was.
LEMMA PlainCall ==
  ASSUME Inv, NEW k, CallOf(k), NonVoidAfter, faults \in Nat, faults' \in Nat, faults' >= faults,
         NEW i \in 1..Slots, NEW l, Plain(l, i),
         disk'["slot"][i] = disk["slot"][i] /\ disk'["old"][i] = disk["old"][i]
  PROVE  Plain(l, i)'
<1>1. Reached(i)'
  BY ReachedCall DEF Plain
<1> QED
  BY <1>1 DEF Plain

\* A step from one call of a save to the next, for the same slot.
LEMMA NextCallHolds ==
  ASSUME Inv, MaxFaults <= 1, pc \in Saving, pc # "remove", pc' \in Saving,
         NEW k, CallOf(k), NonVoidAfter, UNCHANGED slot, faults' = faults \/ Fault,
         NEW l \in kept, Held(l),
         Here(l) /\ Above(licenses[slot], l) => Here(l)'
  PROVE  Held(l)'
<1>1. PICK j \in 1..Len(licenses) : Above(licenses[j], l) /\ HeldAt(l, j)
  BY DEF Held
<1>2. /\ UNCHANGED licenses /\ faults' >= faults /\ slot \in Nat /\ faults \in Nat /\ faults' \in Nat
  BY SaveFacts DEF CallOf
<1>3. SUFFICES HeldAt(l, j)'
  BY <1>1, <1>2 DEF Held
<1>4. CASE j < slot
  BY <1>2, <1>4 DEF HeldAt
<1>5. CASE j = slot /\ Here(l)
  BY <1>1, <1>2, <1>5 DEF HeldAt
<1>6. ASSUME NEW i \in 1..Slots, i >= j, i > slot, Plain(l, i)
      PROVE  HeldAt(l, j)'
  <2>1. i # slot
    BY <1>2, <1>6
  <2>2. disk'["slot"][i] = disk["slot"][i] /\ disk'["old"][i] = disk["old"][i]
    BY <2>1 DEF CallOf, Kinds
  <2>3. Plain(l, i)'
    BY <1>2, <1>6, <2>2, PlainCall
  <2> QED
    BY <1>6, <2>3 DEF HeldAt
<1> QED
  BY <1>1, <1>4, <1>5, <1>6 DEF HeldAt

\* A save that gives up leaves the card as it is.
LEMMA FailsHolds ==
  ASSUME Inv, CutExposed, MaxFaults <= 1, pc \in Saving, Fails,
         UNCHANGED <<disk, licenses>>, faults' = faults \/ Fault,
         NEW l \in kept, l.mii \notin exposed, Held(l),
         \A i \in 1..Slots : i = slot /\ pc # "remove" /\ Here(l) => Plain(l, i)'
  PROVE  Held(l)'
<1>1. PICK j \in 1..Len(licenses) : Above(licenses[j], l) /\ HeldAt(l, j)
  BY DEF Held
<1>2. /\ faults' >= faults /\ slot \in 1..Slots /\ faults \in Nat /\ faults' \in Nat
      /\ j \in 1..Slots /\ pc' \notin Saving /\ slot \in Nat /\ j \in Nat /\ j >= j
  BY SaveFacts DEF Saving, Fails
<1>3. SUFFICES HeldAt(l, j)'
  BY <1>1 DEF Held
<1>a. \A i \in 1..Slots : Reached(i) => Reached(i)'
  BY DEF Reached, NonVoid, LeftBehind
<1>4. CASE j < slot
  <2>1. Reached(j) /\ disk["slot"][j] = licenses[j]
    BY <1>1, <1>4, WrittenReached, WrittenUnexposed
  <2>2. Plain(l, j)'
    BY <1>1, <1>2, <1>a, <2>1 DEF Plain
  <2> QED
    BY <1>2, <2>2 DEF HeldAt
<1>5. CASE j = slot /\ Here(l)
  <2>1. pc # "remove"
    BY <1>5, SavingFacts
  <2>2. Plain(l, j)'
    BY <1>2, <1>5, <2>1
  <2> QED
    BY <1>2, <2>2 DEF HeldAt
<1>6. ASSUME NEW i \in 1..Slots, i >= j, i > slot, Plain(l, i)
      PROVE  HeldAt(l, j)'
  <2>1. Plain(l, i)'
    BY <1>2, <1>a, <1>6 DEF Plain
  <2> QED
    BY <1>2, <1>6, <2>1 DEF HeldAt
<1> QED
  BY <1>1, <1>4, <1>5, <1>6 DEF HeldAt

\* When all slots are done, what is not exposed is in the slot it was saved in.
LEMMA DoneHolds ==
  ASSUME Inv, CutExposed, pc \in {"clean", "remove"}, NEW k, CallOf(k), Done, slot = Slots,
         slot <= Len(licenses) => disk'["slot"][slot] = Written(slot),
         \A l \in kept : l.mii \notin exposed => Held(l)
  PROVE  Safe'
<1>1. /\ TypeOK /\ slot \in 1..Slots /\ slot \in Nat /\ Slots \in Nat /\ Len(licenses) \in Nat
      /\ Len(licenses) <= Slots /\ pc \in Saving /\ WrittenSoFar
  BY SavingFacts DEF Saving
<1>2. /\ UNCHANGED licenses /\ pc' = "idle"
      /\ kept' = LastEdits(kept \cup Elements(licenses)) /\ exposed' = exposed \cap Missing(saved')
      /\ saved' = [i \in 1..Len(licenses) |-> IF i \in cut THEN Blank ELSE licenses[i]]
  BY DEF CallOf, Done
<1>3. ASSUME NEW j \in 1..Len(licenses)
      PROVE  disk'["slot"][j] = Written(j) /\ NonVoid(j)'
  <2>1. disk'["slot"][j] = Written(j)
    <3>1. CASE j = slot
      BY <1>1, <3>1
    <3>2. CASE j # slot
      <4>1. j \in 1..(slot - 1) /\ j \in 1..Slots /\ j <= Len(licenses)
        BY <1>1, <3>2
      <4>2. disk'["slot"][j] = disk["slot"][j]
        BY <3>2, <4>1 DEF CallOf, Kinds
      <4> QED
        BY <1>1, <4>1, <4>2 DEF WrittenSoFar
    <3> QED
      BY <3>1, <3>2
  <2>2. Written(j) # NoFile
    BY <1>1, WrittenIs
  <2> QED
    BY <2>1, <2>2 DEF NonVoid
<1>4. ASSUME NEW l \in kept', l.mii \notin exposed'
      PROVE  \E j \in 1..Len(licenses) : Above(licenses[j], l) /\ j \notin cut
  <2>1. CASE l.mii \notin exposed /\ l \in kept
    <3>1. PICK j \in 1..Len(licenses) : Above(licenses[j], l)
      BY <2>1 DEF Held
    <3> QED
      BY <2>1, <3>1 DEF CutExposed, Above
  <2>2. CASE l.mii \notin exposed /\ l \in Elements(licenses)
    <3>1. PICK j \in 1..Len(licenses) : l = licenses[j]
      BY <2>2 DEF Elements
    <3>2. l \in License
      BY <1>1, <3>1, Typed
    <3> QED
      BY <2>2, <3>1, <3>2 DEF CutExposed, Above, License
  <2>3. CASE l.mii \notin Missing(saved')
    <3>1. l \in License /\ l # Blank
      <4>1. licenses \in Seq(License)
        BY <1>1 DEF TypeOK
      <4> QED
        BY <1>1, <1>2, <1>4, <4>1, KeptTyped DEF CutExposed
    <3>2. Len(saved') = Len(licenses)
      <4>1. \A i \in 1..Len(licenses) : (IF i \in cut THEN Blank ELSE licenses[i]) \in License
        BY <1>1, Typed, BlankIs
      <4>2. saved' \in [1..Len(licenses) -> License]
        BY <1>2, <4>1
      <4> QED
        BY <1>1, <4>2, SeqOfLen
    <3>3. PICK i \in 1..Len(licenses) : Above(saved'[i], l)
      BY <1>4, <2>3, <3>2 DEF Missing
    <3>4. saved'[i] = IF i \in cut THEN Blank ELSE licenses[i]
      BY <1>2
    <3>5. i \notin cut
      <4> SUFFICES ASSUME i \in cut PROVE FALSE
        OBVIOUS
      <4>1. l.mii = 0 /\ l.edit = 0
        BY <3>1, <3>3, <3>4, BlankIs DEF Above, License
      <4>2. l = Blank
        BY <3>1, <4>1 DEF License, Blank
      <4> QED
        BY <3>1, <4>2
    <3> QED
      BY <3>3, <3>4, <3>5
  <2> QED
    BY <1>2, <1>4, <2>1, <2>2, <2>3 DEF LastEdits
<1>5. ASSUME NEW l \in kept', l.mii \notin exposed'
      PROVE  Held(l)'
  <2>1. PICK j \in 1..Len(licenses) : Above(licenses[j], l) /\ j \notin cut
    BY <1>4, <1>5
  <2>2. j \in 1..Slots /\ j >= j /\ \A m \in 1..j : m \in 1..Len(licenses)
    BY <1>1
  <2>3. disk'["slot"][j] = licenses[j]
    BY <1>3, <2>1 DEF Written
  <2>4. Reached(j)'
    BY <1>3, <2>2 DEF Reached
  <2>5. Plain(l, j)'
    BY <2>1, <2>3, <2>4 DEF Plain
  <2> QED
    BY <1>2, <2>1, <2>2, <2>5 DEF Held, HeldAt, Saving
<1> QED
  BY <1>2, <1>5 DEF Safe, InSession

\* A slot that is done holds its license; the next one is as it was before.
LEMMA SlotDoneHolds ==
  ASSUME Inv, CutExposed, MaxFaults <= 1, pc \in {"clean", "remove"}, NEW k, CallOf(k), NextSlot,
         slot <= Len(licenses) => disk'["slot"][slot] = Written(slot),
         \A l \in kept : l.mii \notin exposed => Held(l)
  PROVE  Safe'
<1>1. /\ TypeOK /\ slot \in 1..Slots /\ slot \in Nat /\ Slots \in Nat /\ Len(licenses) \in Nat
      /\ Len(licenses) <= Slots /\ pc \in Saving /\ faults \in Nat
  BY SaveFacts DEF Saving
<1>2. UNCHANGED licenses
  BY DEF CallOf
<1>3. CASE slot < Slots
  <2>1. /\ pc' = IF slot < Len(licenses) THEN "open" ELSE "remove"
        /\ slot' = slot + 1 /\ faults' = faults /\ kept' = kept /\ exposed' = exposed
    BY <1>3 DEF NextSlot, NoFault, NotDone
  <2>2. pc' \in Saving
    BY <2>1 DEF Saving
  <2>3. ASSUME NEW l \in kept, l.mii \notin exposed
        PROVE  Held(l)'
    <3>1. PICK j \in 1..Len(licenses) : Above(licenses[j], l) /\ HeldAt(l, j)
      BY <2>3 DEF Held
    <3>2. CASE j <= slot
      <4>1. j < slot'
        BY <1>1, <2>1, <3>2
      <4> QED
        BY <1>2, <2>2, <3>1, <4>1 DEF Held, HeldAt
    <3>3. CASE ~(j <= slot)
      <4>0. NonVoidAfter
        <5>1. slot \in 1..Len(licenses) /\ slot <= Len(licenses)
          BY <1>1, <3>3
        <5> QED
          BY <1>1, <5>1, WrittenIs DEF NonVoidAfter
      <4>1. PICK i \in 1..Slots : i >= j /\ i > slot /\ Plain(l, i)
        BY <1>1, <3>1, <3>3 DEF HeldAt
      <4>2. i # slot
        BY <1>1, <4>1
      <4>3. disk'["slot"][i] = disk["slot"][i] /\ disk'["old"][i] = disk["old"][i]
        BY <4>2 DEF CallOf, Kinds
      <4>4. Plain(l, i)'
        BY <1>1, <2>1, <4>0, <4>1, <4>3, PlainCall
      <4>5. CASE i > slot + 1
        BY <1>2, <2>1, <2>2, <3>1, <4>1, <4>4, <4>5 DEF Held, HeldAt
      <4>6. CASE i = slot + 1
        <5>1. j = slot' /\ i = slot' /\ slot < Len(licenses)
          BY <1>1, <2>1, <3>3, <4>1, <4>6
        <5>2. pc' = "open"
          BY <2>1, <5>1
        <5>3. Here(l)'
          BY <4>4, <5>1, <5>2 DEF Here
        <5> QED
          BY <1>2, <2>2, <3>1, <5>1, <5>3 DEF Held, HeldAt
      <4> QED
        BY <1>1, <4>1, <4>5, <4>6
    <3> QED
      BY <3>2, <3>3
  <2> QED
    BY <2>1, <2>2, <2>3 DEF Safe, InSession
<1>4. CASE ~(slot < Slots)
  <2>1. Done /\ slot = Slots
    BY <1>1, <1>4 DEF NextSlot
  <2> QED
    BY <2>1, DoneHolds
<1> QED
  BY <1>3, <1>4

-------------------------------------------------------------------------------
\* A license in a slot stays there when nothing changes.
LEMMA StaysPlain ==
  ASSUME Inv, MaxFaults <= 1, UNCHANGED disk, faults' = faults \/ Fault, NEW l
  PROVE  \A i \in 1..Slots : Plain(l, i) => Plain(l, i)'
<1>1. \A i \in 1..Slots : Reached(i) => Reached(i)'
  BY DEF Reached, NonVoid, LeftBehind
<1>2. faults >= 1 => faults' >= 1
  BY SaveFacts
<1> QED
  BY <1>1, <1>2 DEF Plain

\* Saving, call by call.
LEMMA OpenHolds ==
  ASSUME Inv, CutExposed, MaxFaults <= 1, Open, NEW l \in kept, l.mii \notin exposed, Held(l)
  PROVE  Held(l)'
<1>1. /\ pc = "open" /\ pc \in Saving /\ UNCHANGED <<licenses, edits>> /\ TypeOK
      /\ slot \in 1..Slots /\ faults \in Nat
  BY SaveFacts DEF Open, Unchanging, Saving
<1>2. CASE Put("new", Blank) /\ Goto("write") /\ NoFault
  <2>1. CallOf({"new"}) /\ disk'["new"][slot] = Blank
    BY <1>1, <1>2, BlankIs, PutCall DEF Kinds, Contents
  <2>2. pc' = "write" /\ pc' \in Saving /\ UNCHANGED slot /\ faults' = faults
    BY <1>2 DEF Goto, NoFault, Saving
  <2>3. disk'["slot"][slot] = disk["slot"][slot] /\ disk'["old"][slot] = disk["old"][slot]
    BY <1>1, <2>1 DEF CallOf, Kinds
  <2>4. NonVoidAfter
    BY <2>1, BlankIs, SaveAssumption DEF NonVoidAfter
  <2>5. Here(l) => Here(l)'
    BY <1>1, <2>1, <2>2, <2>3, <2>4, PlainCall DEF Here
  <2> QED
    BY <1>1, <2>1, <2>2, <2>4, <2>5, NextCallHolds
<1>3. CASE Fault /\ Fails /\ UNCHANGED disk
  BY <1>1, <1>3, StaysPlain, FailsHolds DEF Here
<1> QED
  BY <1>2, <1>3 DEF Open

LEMMA WriteHolds ==
  ASSUME Inv, CutExposed, MaxFaults <= 1, Write, NEW l \in kept, l.mii \notin exposed, Held(l)
  PROVE  Held(l)'
<1>1. /\ pc = "write" /\ pc \in Saving /\ UNCHANGED <<licenses, edits, disk>> /\ TypeOK
      /\ slot \in 1..Slots /\ faults \in Nat /\ disk["new"][slot] = Blank
  BY SaveFacts DEF Write, Unchanging, Saving, Inv, SaveAt
<1>2. CASE Goto("close") /\ NoFault
  <2>1. CallOf({})
    BY <1>1, IdleCall
  <2>2. pc' = "close" /\ pc' \in Saving /\ UNCHANGED slot /\ faults' = faults
    BY <1>2 DEF Goto, NoFault, Saving
  <2>4. NonVoidAfter
    BY <1>1, BlankIs, SaveAssumption DEF NonVoidAfter
  <2>5. Here(l) => Here(l)'
    BY <1>1, <2>1, <2>2, <2>4, PlainCall DEF Here
  <2> QED
    BY <1>1, <2>1, <2>2, <2>4, <2>5, NextCallHolds
<1>3. CASE Fault /\ Fails
  BY <1>1, <1>3, StaysPlain, FailsHolds DEF Here
<1> QED
  BY <1>2, <1>3 DEF Write

\* Only .new changes while it is closed.
LEMMA CloseHolds ==
  ASSUME Inv, CutExposed, MaxFaults <= 1, Close, NEW l \in kept, l.mii \notin exposed, Held(l)
  PROVE  Held(l)'
<1>1. /\ pc = "close" /\ pc \in Saving /\ UNCHANGED <<licenses, edits>> /\ TypeOK
      /\ slot \in 1..Slots /\ faults \in Nat /\ pc' = "drop" /\ pc' \in Saving /\ UNCHANGED slot
      /\ faults' = faults \/ Fault
  BY SaveFacts DEF Close, Saving, NoFault
<1>2. faults' \in Nat /\ faults' >= faults
  BY <1>1, SaveFacts
<1>3. slot \in 1..Len(licenses) /\ disk["new"][slot] = Blank /\ licenses[slot] \in License
  BY <1>1, SavingFacts, Typed DEF SaveAt
<1>4. \E k : CallOf(k) /\ k = {"new"} /\ NonVoidAfter
  <2>1. CASE Put("new", licenses[slot])
    <3>1. CallOf({"new"}) /\ disk'["new"][slot] = licenses[slot]
      BY <1>1, <1>3, <2>1, PutCall DEF Kinds, Contents
    <3> QED
      BY <1>3, <3>1, SaveAssumption DEF NonVoidAfter
  <2>2. CASE UNCHANGED disk
    <3>1. CallOf({"new"}) /\ disk'["new"][slot] = Blank
      BY <1>1, <1>3, <2>2 DEF CallOf, TypeOK
    <3> QED
      BY <3>1, BlankIs, SaveAssumption DEF NonVoidAfter
  <2> QED
    BY <2>1, <2>2 DEF Close
<1>5. disk'["slot"][slot] = disk["slot"][slot] /\ disk'["old"][slot] = disk["old"][slot]
  BY <1>1, <1>4 DEF CallOf, Kinds
<1>6. Here(l) => Here(l)'
  BY <1>1, <1>2, <1>4, <1>5, PlainCall DEF Here
<1> QED
  BY <1>1, <1>4, <1>6, NextCallHolds

\* The .old file is dropped only when .new is closed.
LEMMA DropHolds ==
  ASSUME Inv, CutExposed, MaxFaults <= 1, Drop, NEW l \in kept, l.mii \notin exposed, Held(l)
  PROVE  Held(l)'
<1>1. /\ pc = "drop" /\ pc \in Saving /\ UNCHANGED <<licenses, edits>> /\ TypeOK
      /\ slot \in 1..Slots /\ faults \in Nat
      /\ disk["new"][slot] = Written(slot) /\ slot \in 1..Len(licenses)
  BY SaveFacts, SavingFacts DEF Drop, Unchanging, Saving, SaveAt
<1>2. CASE Put("old", NoFile) /\ Goto("retire") /\ NoFault
  <2>1. CallOf({"old"})
    BY <1>1, <1>2, PutCall DEF Kinds, Contents
  <2>2. pc' = "retire" /\ pc' \in Saving /\ UNCHANGED slot /\ faults' = faults
    BY <1>2 DEF Goto, NoFault, Saving
  <2>3. disk'["slot"][slot] = disk["slot"][slot] /\ disk'["new"][slot] = disk["new"][slot]
    BY <1>1, <2>1 DEF CallOf, Kinds
  <2>4. NonVoidAfter
    BY <1>1, <2>3, WrittenIs DEF NonVoidAfter
  <2>5. Here(l) => Here(l)'
    BY <1>1, <2>2, <2>3 DEF Here, Plain
  <2> QED
    BY <1>1, <2>1, <2>2, <2>4, <2>5, NextCallHolds
<1>3. CASE Fault /\ Fails /\ UNCHANGED disk
  BY <1>1, <1>3, StaysPlain, FailsHolds DEF Here
<1> QED
  BY <1>2, <1>3 DEF Drop

\* The slot is moved to .old; if that fails, the only fault has happened.
LEMMA RetireHolds ==
  ASSUME Inv, CutExposed, MaxFaults <= 1, Retire, NEW l \in kept, l.mii \notin exposed, Held(l)
  PROVE  Held(l)'
<1>1. /\ pc = "retire" /\ pc \in Saving /\ UNCHANGED <<licenses, edits>> /\ TypeOK
      /\ slot \in 1..Slots /\ pc' = "install" /\ pc' \in Saving /\ UNCHANGED slot
      /\ disk["new"][slot] = Written(slot) /\ slot \in 1..Len(licenses)
  BY SaveFacts, SavingFacts DEF Retire, Unchanging, Goto, Saving, SaveAt
<1>2. CASE CanRename("slot", "old") /\ Rename("slot", "old") /\ NoFault
  <2>1. /\ CallOf({"slot", "old"}) /\ disk'["old"][slot] = disk["slot"][slot]
        /\ disk'["slot"][slot] = NoFile
    BY <1>1, <1>2, RenameCall DEF Kinds
  <2>2. disk["slot"][slot] # NoFile /\ faults' = faults
    BY <1>2 DEF CanRename, NoFault
  <2>3. NonVoidAfter
    BY <2>1, <2>2 DEF NonVoidAfter
  <2>4. Here(l) => Here(l)'
    BY <1>1, <2>1, <2>2 DEF Here
  <2> QED
    BY <1>1, <2>1, <2>2, <2>3, <2>4, NextCallHolds
<1>3. CASE UNCHANGED disk /\ (NoFault \/ Fault)
  <2>1. CallOf({}) /\ NonVoidAfter
    BY <1>1, <1>3, IdleCall, WrittenIs DEF NonVoidAfter
  <2>2. faults' = faults \/ Fault
    BY <1>3 DEF NoFault
  <2>3. faults >= 1 => faults' >= 1
    BY <2>2, SaveFacts
  <2>4. Here(l) => Here(l)'
    BY <1>1, <1>3, <2>3 DEF Here
  <2> QED
    BY <1>1, <2>1, <2>2, <2>4, NextCallHolds
<1> QED
  BY <1>2, <1>3 DEF Retire

\* If .new cannot be moved into place, the license is there or in .old.
LEMMA InstallHolds ==
  ASSUME Inv, CutExposed, MaxFaults <= 1, Install, NEW l \in kept, l.mii \notin exposed, Held(l)
  PROVE  Held(l)'
<1>1. /\ pc = "install" /\ pc \in Saving /\ UNCHANGED <<licenses, edits>> /\ TypeOK
      /\ slot \in 1..Slots /\ faults \in Nat
      /\ disk["new"][slot] = Written(slot) /\ slot \in 1..Len(licenses)
  BY SaveFacts, SavingFacts DEF Install, Unchanging, Saving, SaveAt
<1>2. disk["new"][slot] # NoFile /\ disk["new"][slot] \in License
  BY <1>1, WrittenIs
<1>3. ASSUME Here(l), UNCHANGED disk, faults' \in Nat, faults' >= faults,
             faults' >= 1 \/ disk["slot"][slot] # NoFile,
             Above(disk["old"][slot], l) \/ Above(disk["slot"][slot], l)
      PROVE  \A i \in 1..Slots : i = slot => Plain(l, i)'
  <2>1. Reached(slot) /\ NonVoid(slot)
    <3>1. NonVoid(slot)
      BY <1>1, <1>2, Left
    <3>2. ASSUME NEW m \in 1..slot PROVE NonVoid(m)
      <4>1. CASE m = slot
        BY <3>1, <4>1
      <4>2. CASE m # slot
        <5>1. m < slot /\ m \in 1..Len(licenses) /\ m \in 1..m
          BY <1>1, <4>2, SavingFacts
        <5> QED
          BY <1>1, <5>1, WrittenReached DEF Reached
      <4> QED
        BY <4>1, <4>2
    <3> QED
      BY <3>1, <3>2 DEF Reached
  <2>2. \A i \in 1..Slots : Reached(i) => Reached(i)'
    BY <1>3 DEF Reached, NonVoid, LeftBehind
  <2> QED
    BY <1>1, <1>3, <2>1, <2>2 DEF Plain, Here
<1>4. CASE CanRename("new", "slot") /\ Rename("new", "slot") /\ Goto("clean") /\ NoFault
  <2>1. CallOf({"new", "slot"}) /\ disk'["slot"][slot] # NoFile
    BY <1>1, <1>2, <1>4, RenameCall DEF Kinds
  <2>2. pc' = "clean" /\ pc' \in Saving /\ UNCHANGED slot /\ faults' = faults
    BY <1>4 DEF Goto, NoFault, Saving
  <2>3. Here(l)' /\ NonVoidAfter
    BY <2>1, <2>2 DEF Here, NonVoidAfter
  <2> QED
    BY <1>1, <2>1, <2>2, <2>3, NextCallHolds
<1>5. CASE ~CanRename("new", "slot") /\ Fails /\ UNCHANGED disk /\ NoFault
  <2>1. disk["slot"][slot] # NoFile /\ faults' = faults
    BY <1>2, <1>5 DEF CanRename, NoFault
  <2>2. Here(l) => Above(disk["slot"][slot], l)
    BY <1>1, <2>1 DEF Here
  <2>3. \A i \in 1..Slots : i = slot /\ Here(l) => Plain(l, i)'
    BY <1>1, <1>3, <1>5, <2>1, <2>2
  <2> QED
    BY <1>1, <1>5, <2>1, <2>3, FailsHolds
<1>6. CASE Fault /\ Fails /\ UNCHANGED disk
  <2>1. faults = 0 /\ faults' = 1
    BY <1>6, SaveFacts
  <2>2. Here(l) => Above(disk["old"][slot], l) \/ Above(disk["slot"][slot], l)
    BY <1>1, <2>1 DEF Here
  <2>3. \A i \in 1..Slots : i = slot /\ Here(l) => Plain(l, i)'
    BY <1>1, <1>3, <1>6, <2>1, <2>2
  <2> QED
    BY <1>1, <1>6, <2>3, FailsHolds
<1> QED
  BY <1>4, <1>5, <1>6 DEF Install

\* A slot that is not in use any more holds nothing that is not before it too.
LEMMA RemoveFailsHolds ==
  ASSUME Inv, CutExposed, MaxFaults <= 1, Remove, Fault /\ Fails /\ NotDone /\ UNCHANGED disk,
         NEW l \in kept, l.mii \notin exposed, Held(l)
  PROVE  Held(l)'
<1>1. pc = "remove" /\ pc \in Saving /\ UNCHANGED licenses
  BY DEF Remove, Unchanging, Saving
<1> QED
  BY <1>1, FailsHolds
\* Every call of a save keeps what is not exposed in its place.
LEMMA SaveHolds ==
  ASSUME Inv, CutExposed, MaxFaults <= 1, Safe, Save
  PROVE  Safe'
<1>1. pc \in Saving /\ TypeOK /\ UNCHANGED licenses
  BY DEF Save, Open, Write, Close, Drop, Retire, Install, Clean, Remove, Saving, Unchanging, Inv
<1>2. \A l \in kept : l.mii \notin exposed => Held(l)
  BY <1>1 DEF Safe, InSession
<1>3. CASE Open \/ Write \/ Close \/ Drop \/ Retire \/ Install
  <2>1. kept' = kept /\ exposed \subseteq exposed' /\ pc' \in Saving \cup {"idle"}
    BY <1>3 DEF Open, Write, Close, Drop, Retire, Install, NotDone, Goto, Fails, Saving
  <2>2. \A l \in kept : l.mii \notin exposed => Held(l)'
    BY <1>2, <1>3, OpenHolds, WriteHolds, CloseHolds, DropHolds, RetireHolds, InstallHolds
  <2> QED
    BY <2>1, <2>2 DEF Safe, InSession
<1>4. CASE Clean
  <2>1. pc = "clean" /\ slot \in 1..Slots /\ disk["slot"][slot] = Written(slot) /\ NextSlot
    BY <1>1, <1>4, SaveFacts DEF Clean, Inv, SaveAt
  <2>2. CASE Put("old", NoFile)
    <3>1. CallOf({"old"})
      BY <1>1, <1>4, <2>2, PutCall DEF Clean, Unchanging, Kinds, Contents
    <3>2. disk'["slot"][slot] = Written(slot)
      BY <2>1, <3>1 DEF CallOf, Kinds
    <3> QED
      BY <1>2, <2>1, <3>1, <3>2, SlotDoneHolds
  <2>3. CASE UNCHANGED disk
    <3>1. CallOf({})
      BY <1>1, <1>4, <2>3, IdleCall DEF Clean, Unchanging
    <3> QED
      BY <1>2, <2>1, <2>3, <3>1, SlotDoneHolds
  <2> QED
    BY <1>4, <2>2, <2>3 DEF Clean
<1>5. CASE Remove /\ Put("slot", NoFile) /\ NextSlot
  <2>1. CallOf({"slot"}) /\ pc = "remove"
    BY <1>1, <1>5, PutCall DEF Remove, Unchanging, Kinds, Contents
  <2>2. ~(slot <= Len(licenses))
    BY <1>1, <2>1, SavingFacts DEF SaveAt
  <2> QED
    BY <1>2, <1>5, <2>1, <2>2, SlotDoneHolds
<1>6. CASE Remove /\ Fault /\ Fails /\ NotDone /\ UNCHANGED disk
  <2>1. \A l \in kept : l.mii \notin exposed => Held(l)'
    BY <1>2, <1>6, RemoveFailsHolds
  <2>2. pc' = "idle" /\ kept' = kept /\ exposed' = exposed
    BY <1>6 DEF Fails, NotDone
  <2> QED
    BY <2>1, <2>2 DEF Safe, InSession
<1> QED
  BY <1>3, <1>4, <1>5, <1>6 DEF Save, Remove

\* Only a file that is not closed is added, and its license is exposed.
LEMMA CutExposedNext ==
  ASSUME Inv, CutExposed, [Next]_vars
  PROVE  CutExposed'
<1>1. TypeOK /\ CutBehind /\ licenses \in Seq(License)
  BY DEF Inv, TypeOK
<1>2. licenses' \in Seq(License)
  BY InvNext DEF Inv, TypeOK
<1>3. Blank \notin kept'
  <2>1. CASE \E shown \in Seq(License) : kept' = LastEdits(kept \cup Elements(shown))
    BY <1>1, <2>1, KeptTyped DEF CutExposed
  <2>2. CASE kept' \subseteq kept
    BY <2>2 DEF CutExposed
  <2>3. \/ kept' \subseteq kept
        \/ kept' = LastEdits(kept \cup Elements(licenses))
        \/ kept' = LastEdits(kept \cup Elements(licenses'))
    BY DEF Next, PowerLoss, Boot, Migrate, Read, ReadFails, StartDone, CreateSPLicense,
           CreateSPLicenseAnyway, EraseSPLicense, SetSetting, SaveLicensesAsync, Save, Open, Write,
           Close, Drop, Retire, Install, Clean, Remove, NextSlot, Done, NotDone, vars
  <2> QED
    BY <1>1, <1>2, <2>1, <2>2, <2>3
<1>4. \A i \in cut' : licenses'[i].mii \in exposed'
  <2>1. CASE cut' = {}
    BY <2>1
  <2>2. CASE cut' = cut /\ licenses' = licenses /\ exposed' = exposed
    BY <2>2 DEF CutExposed
  <2>3. CASE /\ licenses' = licenses /\ exposed' = exposed \cup {licenses[slot].mii}
             /\ cut' = cut \cup {slot}
    BY <2>3 DEF CutExposed
  <2>4. CASE cut' = cut /\ pc \notin Saving
    BY <1>1, <2>4 DEF CutBehind
  <2>5. CASE PowerLoss \/ Boot \/ Migrate \/ Read \/ ReadFails
    BY <2>1, <2>4, <2>5 DEF PowerLoss, Boot, Migrate, Read, ReadFails, Saving
  <2>6. CASE CreateSPLicense \/ EraseSPLicense \/ SetSetting \/ SaveLicensesAsync
    BY <2>4, <2>6 DEF CreateSPLicense, CreateSPLicenseAnyway, EraseSPLicense, SetSetting,
                      SaveLicensesAsync, Saving
  <2>7. CASE Save
    <3>1. CASE Close
      BY <2>2, <2>3, <3>1 DEF Close
    <3>2. CASE Save /\ ~Close
      BY <2>1, <2>2, <3>2 DEF Save, Open, Write, Drop, Retire, Install, Clean, Remove, Unchanging,
                              NotDone, Goto, Fails, NextSlot, Done
    <3> QED
      BY <2>7, <3>1, <3>2
  <2>8. CASE UNCHANGED vars
    BY <2>2, <2>8 DEF vars
  <2> QED
    BY <2>5, <2>6, <2>7, <2>8 DEF Next
<1> QED
  BY <1>3, <1>4 DEF CutExposed
-------------------------------------------------------------------------------
\* The user.  An erased license is not kept, and those behind it move up, away
\* from their slots.
LEMMA UserHolds ==
  ASSUME Inv, CutExposed, EditsPast, MaxFaults <= 1, Safe,
         CreateSPLicense \/ EraseSPLicense \/ SetSetting \/ SaveLicensesAsync
  PROVE  Safe'
<1>1. /\ pc = "idle" /\ UNCHANGED <<disk, faults>> /\ pc \notin Saving
      /\ licenses \in Seq(License) /\ edits \in Nat /\ slot = 1 /\ slot' = slot
  BY DEF CreateSPLicense, CreateSPLicenseAnyway, EraseSPLicense, SetSetting, SaveLicensesAsync,
         Saving, Inv, TypeOK, ReadSoFar
<1>2. /\ Len(licenses) \in Nat /\ Slots \in Nat /\ Len(licenses) <= Slots
      /\ \A j \in 1..Len(licenses) : licenses[j] \in License
      /\ kept \subseteq License /\ slot \in Nat
  BY SaveFacts
<1>3. ASSUME NEW l \in kept, l.mii \notin exposed
      PROVE  \E j \in 1..Len(licenses) : /\ Above(licenses[j], l)
                                         /\ \E i \in 1..Slots : i >= j /\ Plain(l, i)
  <2>1. Held(l)
    BY <1>1, <1>3 DEF Safe, InSession
  <2> QED
    BY <1>1, <2>1 DEF Held, HeldAt
<1>4. \A l \in kept, i \in 1..Slots : Plain(l, i) => Plain(l, i)'
  BY <1>1 DEF Plain, Reached, NonVoid, LeftBehind
<1>5. CASE CreateSPLicense
  <2>1. edits' \in Nat /\ [mii |-> edits', edit |-> edits'] \in License
    BY <1>1, <1>5 DEF CreateSPLicense, CreateSPLicenseAnyway, License
  <2>2. /\ licenses' = Append(licenses, [mii |-> edits', edit |-> edits'])
        /\ pc' = "idle" /\ kept' = kept /\ exposed' = exposed
    BY <1>1, <1>5 DEF CreateSPLicense, CreateSPLicenseAnyway
  <2>3. /\ Len(licenses') = Len(licenses) + 1
        /\ \A j \in 1..Len(licenses) : licenses'[j] = licenses[j]
    BY <1>1, <2>1, <2>2, AppendProperties
  <2>4. \A j \in 1..Len(licenses) : j \in 1..Len(licenses')
    BY <1>2, <2>3
  <2>5. ASSUME NEW l \in kept, l.mii \notin exposed PROVE Held(l)'
    <3>1. PICK j \in 1..Len(licenses) : /\ Above(licenses[j], l)
                                        /\ \E i \in 1..Slots : i >= j /\ Plain(l, i)
      BY <1>3, <2>5
    <3>2. HeldAt(l, j)'
      BY <1>4, <2>2, <3>1 DEF HeldAt, Saving
    <3>3. Above(licenses'[j], l)
      BY <2>3, <3>1
    <3> QED
      BY <2>4, <3>2, <3>3 DEF Held
  <2> QED
    BY <2>2, <2>5 DEF Safe, InSession
<1>6. CASE EraseSPLicense
  <2>1. PICK e \in 1..Len(licenses) :
          /\ licenses' = [j \in 1..Len(licenses) - 1 |-> licenses[IF j < e THEN j ELSE j + 1]]
          /\ kept' = {l \in kept : l.mii # licenses[e].mii}
          /\ exposed' = exposed \ {licenses[e].mii}
    BY <1>6 DEF EraseSPLicense
  <2>2. pc' = "idle"
    BY <1>1, <1>6 DEF EraseSPLicense
  <2>3. DOMAIN licenses' = 1..Len(licenses')
    <3>1. licenses' \in Seq(License)
      BY <1>6, InvNext DEF Next, Inv, TypeOK
    <3> QED
      BY <3>1, LenProperties
  <2>4. DOMAIN licenses' = 1..(Len(licenses) - 1)
    BY <2>1
  <2>5. ASSUME NEW l \in kept', l.mii \notin exposed' PROVE Held(l)'
    <3>1. l \in kept /\ l.mii # licenses[e].mii /\ l.mii \notin exposed
      BY <2>1, <2>5
    <3>2. PICK j \in 1..Len(licenses) : /\ Above(licenses[j], l)
                                        /\ \E i \in 1..Slots : i >= j /\ Plain(l, i)
      BY <1>3, <3>1
    <3>3. PICK i \in 1..Slots : i >= j /\ Plain(l, i)
      BY <3>2
    <3>4. j # e
      BY <3>1, <3>2 DEF Above
    <3>5. Plain(l, i)' /\ i \in Nat
      BY <1>2, <1>4, <3>1, <3>3
    <3>6. CASE j < e
      <4>1. j \in 1..(Len(licenses) - 1)
        BY <1>2, <3>6
      <4>2. licenses'[j] = licenses[j] /\ j \in 1..Len(licenses')
        BY <2>1, <2>3, <2>4, <3>6, <4>1
      <4>3. HeldAt(l, j)'
        BY <3>3, <3>5, <2>2 DEF HeldAt, Saving
      <4> QED
        BY <3>2, <4>2, <4>3 DEF Held
    <3>7. CASE j > e
      <4>1. j - 1 \in 1..(Len(licenses) - 1) /\ ~(j - 1 < e) /\ (j - 1) + 1 = j /\ i >= j - 1
        BY <1>2, <3>3, <3>7
      <4>2. licenses'[j - 1] = licenses[j] /\ j - 1 \in 1..Len(licenses')
        BY <2>1, <2>3, <2>4, <4>1
      <4>3. HeldAt(l, j - 1)'
        BY <4>1, <3>5, <2>2 DEF HeldAt, Saving
      <4>4. Above(licenses'[j - 1], l)
        BY <3>2, <4>2
      <4> QED
        BY <4>2, <4>3, <4>4 DEF Held
    <3> QED
      BY <1>2, <3>4, <3>6, <3>7
  <2> QED
    BY <2>2, <2>5 DEF Safe, InSession
<1>7. CASE SetSetting
  <2>1. PICK e \in 1..Len(licenses) : licenses' = [licenses EXCEPT ![e].edit = edits']
    BY <1>7 DEF SetSetting
  <2>2. pc' = "idle" /\ kept' = kept /\ exposed' = exposed /\ edits' = edits + 1
    BY <1>1, <1>7 DEF SetSetting
  <2>3. DOMAIN licenses = 1..Len(licenses) /\ DOMAIN licenses' = 1..Len(licenses')
    <3>1. licenses' \in Seq(License)
      BY <1>7, InvNext DEF Next, Inv, TypeOK
    <3> QED
      BY <1>1, <3>1, LenProperties
  <2>4. DOMAIN licenses' = DOMAIN licenses
    BY <2>1
  <2>5. ASSUME NEW l \in kept, l.mii \notin exposed PROVE Held(l)'
    <3>1. PICK j \in 1..Len(licenses) : /\ Above(licenses[j], l)
                                        /\ \E i \in 1..Slots : i >= j /\ Plain(l, i)
      BY <1>3, <2>5
    <3>2. HeldAt(l, j)'
      BY <1>4, <2>2, <3>1 DEF HeldAt, Saving
    <3>3. Above(licenses'[j], l)
      <4>1. CASE j # e
        <5>1. licenses'[j] = licenses[j]
          BY <2>1, <2>3, <4>1
        <5> QED
          BY <3>1, <5>1
      <4>2. CASE j = e
        <5>1. licenses'[j] = [licenses[j] EXCEPT !.edit = edits']
          BY <2>1, <2>3, <4>2
        <5>2. \A x \in License, n \in Nat :
                /\ [x EXCEPT !.edit = n] \in License
                /\ [x EXCEPT !.edit = n].edit = n /\ [x EXCEPT !.edit = n].mii = x.mii
          BY DEF License
        <5>3. edits' \in Nat
          BY <1>1, <2>2
        <5>4. licenses'[j] \in License /\ licenses'[j].edit = edits' /\ licenses'[j].mii = licenses[j].mii
          BY <1>2, <5>1, <5>2, <5>3
        <5>5. licenses[j].edit <= edits /\ licenses[j].edit \in Nat /\ l.edit \in Nat
          BY <1>2 DEF EditsPast, License
        <5>6. edits' >= l.edit
          BY <1>1, <2>2, <3>1, <5>5 DEF Above
        <5> QED
          BY <3>1, <5>4, <5>6 DEF Above
      <4> QED
        BY <4>1, <4>2
    <3> QED
      BY <2>3, <2>4, <3>2, <3>3 DEF Held
  <2> QED
    BY <2>2, <2>5 DEF Safe, InSession
<1>8. CASE SaveLicensesAsync
  <2>1. /\ pc' = FirstCall /\ slot' = 1 /\ UNCHANGED <<licenses, kept, exposed>>
    BY <1>1, <1>8 DEF SaveLicensesAsync
  <2>2. pc' \in Saving /\ (licenses # <<>> => pc' = "open")
    BY <2>1 DEF FirstCall, Saving
  <2>3. ASSUME NEW l \in kept, l.mii \notin exposed PROVE Held(l)'
    <3>1. PICK j \in 1..Len(licenses) : /\ Above(licenses[j], l)
                                        /\ \E i \in 1..Slots : i >= j /\ Plain(l, i)
      BY <1>3, <2>3
    <3>2. PICK i \in 1..Slots : i >= j /\ Plain(l, i)'
      BY <1>4, <3>1
    <3>3. pc' = "open"
      BY <1>2, <2>2, EmptySeq
    <3>4. CASE i > 1
      BY <2>1, <2>2, <3>1, <3>2, <3>4 DEF Held, HeldAt
    <3>5. CASE i = 1
      <4>1. j = slot' /\ i = slot'
        BY <1>2, <2>1, <3>2, <3>5
      <4>2. Here(l)'
        BY <3>2, <3>3, <4>1 DEF Here
      <4> QED
        BY <2>1, <2>2, <3>1, <4>1, <4>2 DEF Held, HeldAt
    <3> QED
      BY <1>2, <3>4, <3>5
  <2> QED
    BY <2>1, <2>2, <2>3 DEF Safe, InSession
<1> QED
  BY <1>5, <1>6, <1>7, <1>8

\* What is on the card stays there while slots are read.
LEMMA MigrateOnCard ==
  ASSUME Inv, Migrate, NEW l, OnCard(l)
  PROVE  OnCard(l)'
<1>1. TypeOK /\ slot \in 1..Slots
  BY Typed DEF Inv
<1>2. CASE UNCHANGED disk
  BY <1>2 DEF OnCard, Reached, NonVoid, LeftBehind
<1>3. CASE CanRename("settings", "slot") /\ Rename("settings", "slot")
  <2>1. disk["settings"][slot] # NoFile /\ disk["slot"][slot] = NoFile
    BY <1>3 DEF CanRename
  <2>2. /\ disk'["slot"][slot] = disk["settings"][slot]
        /\ \A k \in Kinds, j \in 1..Slots :
             k \notin {"settings", "slot"} \/ j # slot => disk'[k][j] = disk[k][j]
    BY <1>1, <1>3, RenameFacts DEF Kinds
  <2>3. \A i \in 1..Slots : /\ disk["slot"][i] # NoFile => disk'["slot"][i] = disk["slot"][i]
                            /\ LeftBehind(i)' = LeftBehind(i)
    BY <2>1, <2>2 DEF LeftBehind, Kinds
  <2>4. ASSUME NEW i \in 1..Slots, Reached(i)
        PROVE  Reached(i)'
    <3>1. \A k \in 1..i : k \in 1..Slots
      BY SaveAssumption
    <3> QED
      BY <2>3, <2>4, <3>1 DEF Reached, NonVoid
  <2>5. \A i \in 1..Slots : Above(disk["slot"][i], l) => disk["slot"][i] # NoFile
    BY SaveAssumption DEF Above
  <2> QED
    BY <2>3, <2>4, <2>5 DEF OnCard
<1> QED
  BY <1>2, <1>3 DEF Migrate

\* The power, and loading: what is on the card stays there, and what is loaded is on
\* the card.
LEMMA LoadHolds ==
  ASSUME Inv, CutExposed, MaxFaults <= 1, Safe, PowerLoss \/ Boot \/ Migrate \/ Read \/ ReadFails
  PROVE  Safe'
<1>1. \A l \in kept : l.mii \notin exposed => OnCard(l)
  BY HeldOnCard DEF Safe
<1>2. CASE PowerLoss \/ Boot \/ (Read /\ pc' # "idle")
  <2>1. pc' \in {"off", "migrate"} /\ UNCHANGED <<disk, kept, exposed>>
    BY <1>2 DEF PowerLoss, Boot, Read, StartDone
  <2>2. \A l \in kept : l.mii \notin exposed => OnCard(l)'
    BY <1>1, <2>1 DEF OnCard, Reached, NonVoid, LeftBehind
  <2> QED
    BY <2>1, <2>2 DEF Safe, InSession, Saving
<1>3. CASE Migrate
  <2>1. pc' = "read" /\ UNCHANGED <<kept, exposed>>
    BY <1>3 DEF Migrate
  <2>2. \A l \in kept : l.mii \notin exposed => OnCard(l)'
    BY <1>1, <1>3, MigrateOnCard
  <2> QED
    BY <2>1, <2>2 DEF Safe, InSession, Saving
<1>4. CASE (Read \/ ReadFails) /\ pc' = "idle"
  <2>1. pc = "read" /\ Next
    BY <1>4 DEF Read, ReadFails, Next
  <2>2. /\ UNCHANGED disk /\ Len(licenses') \in Nat /\ exposed' = Missing(licenses')
        /\ \A j \in 1..Len(licenses') :
             j \in 1..Slots /\ licenses'[j] = disk["slot"][j] /\ licenses'[j] \in License
    BY <1>4, <2>1, Loaded DEF StartDone
  <2>3. ASSUME NEW j \in 1..Len(licenses') PROVE Reached(j)'
    <3>1. \A k \in 1..j : k \in 1..Len(licenses')
      BY <2>2
    <3> QED
      BY <2>2, <3>1, SaveAssumption DEF Reached, NonVoid
  <2>4. ASSUME NEW l \in kept', l.mii \notin exposed' PROVE Held(l)'
    <3>1. PICK j \in 1..Len(licenses') : Above(licenses'[j], l)
      BY <2>2, <2>4 DEF Missing
    <3>2. j \in 1..Slots /\ j >= j /\ Plain(l, j)'
      BY <2>2, <2>3, <3>1 DEF Plain
    <3> QED
      BY <1>4, <3>1, <3>2 DEF Held, HeldAt, Saving
  <2> QED
    BY <1>4, <2>4 DEF Safe, InSession
<1> QED
  BY <1>2, <1>3, <1>4 DEF ReadFails, StartDone
-------------------------------------------------------------------------------
\* All of it holds in every state.
Kept == Inv /\ CutExposed /\ EditsPast /\ Safe

LEMMA KeptInit == Init => Kept
<1> SUFFICES ASSUME Init PROVE Kept
  OBVIOUS
<1>1. Inv /\ kept = {} /\ cut = {} /\ licenses = <<>> /\ edits = Slots /\ edits \in Nat
  BY InvInit, SaveAssumption DEF Init
<1>2. EditsPast
  <2>1. 1..Len(licenses) = {}
    BY <1>1, EmptySeq
  <2>2. \A kind \in Kinds, i \in 1..Slots : disk[kind][i] = Made(i) \/ disk[kind][i] = NoFile
    BY DEF Init
  <2>3. \A i \in 1..Slots : Past(Made(i), edits)
    BY <1>1 DEF Past, Made
  <2>4. Past(NoFile, edits)
    BY SaveAssumption DEF Past
  <2> QED
    BY <2>1, <2>2, <2>3, <2>4 DEF EditsPast
<1> QED
  BY <1>1, <1>2 DEF Kept, CutExposed, Safe

LEMMA KeptNext ==
  ASSUME MaxFaults <= 1
  PROVE  Kept /\ [Next]_vars => Kept'
<1> SUFFICES ASSUME Kept, [Next]_vars PROVE Kept'
  OBVIOUS
<1>1. Inv' /\ CutExposed' /\ EditsPast'
  BY InvNext, CutExposedNext, EditsPastNext DEF Kept
<1>2. Safe'
  <2>1. CASE UNCHANGED vars
    <3>1. UNCHANGED <<licenses, pc, slot, disk, kept, exposed, faults>> /\ InSession' = InSession
      BY <2>1 DEF vars, InSession
    <3>2. ASSUME NEW l PROVE OnCard(l)' = OnCard(l) /\ (Held(l) => Held(l)')
      <4>1. \A i \in 1..Slots : Reached(i)' = Reached(i) /\ LeftBehind(i)' = LeftBehind(i)
        BY <3>1 DEF Reached, NonVoid, LeftBehind
      <4>2. \A i \in 1..Slots : Plain(l, i)' = Plain(l, i)
        BY <3>1, <4>1 DEF Plain
      <4>3. Here(l)' = Here(l)
        <5>1. slot \in 1..Slots /\ Plain(l, slot)' = Plain(l, slot)
          BY <3>1, <4>2, Typed DEF Kept, Inv
        <5> QED
          BY <3>1, <5>1 DEF Here
      <4>4. OnCard(l)' = OnCard(l)
        BY <3>1, <4>1 DEF OnCard
      <4>5. \A j \in 1..Len(licenses) : HeldAt(l, j) => HeldAt(l, j)'
        BY <3>1, <4>2, <4>3 DEF HeldAt
      <4> QED
        BY <3>1, <4>4, <4>5 DEF Held
    <3> QED
      BY <3>1, <3>2 DEF Safe, Kept
  <2>2. CASE Next
    BY <2>2, SaveHolds, UserHolds, LoadHolds DEF Next, Kept
  <2> QED
    BY <2>1, <2>2
<1> QED
  BY <1>1, <1>2 DEF Kept

\* However often saves fail or are cut off by the power (saveSPSave, WriteFile): if no
\* two calls fail in one session without a save that succeeds between them, every
\* license that was ever loaded or reported saved, and not erased since, is in some file
\* in that edit or a later one, unless the last start did not find it (then the next
\* save may remove it) or its file failed to close.
THEOREM NothingIsLost ==
  ASSUME MaxFaults <= 1
  PROVE  Spec => []NothingLost
<1>1. Kept => NothingLost
  <2> SUFFICES ASSUME Kept, NEW l \in kept, l.mii \notin exposed
               PROVE  \E kind \in Kinds, i \in 1..Slots : Above(disk[kind][i], l)
    BY DEF NothingLost
  <2>1. OnCard(l)
    BY HeldOnCard DEF Safe, Kept
  <2> QED
    BY <2>1, OnCardSomewhere
<1> QED
  BY <1>1, KeptInit, KeptNext, PTL DEF Spec

\* A start in which no call fails misses a license that was ever loaded or reported
\* saved, and is neither erased nor exposed, only where the power went, or a rename
\* failed, between the two renames of WriteFile: the license itself is in .old or .new,
\* or initSPSave stops at the slot that was being replaced.
THEOREM StartFindsThem ==
  ASSUME MaxFaults <= 1
  PROVE  Spec => StartsFindLicenses
<1> DEFINE Found(l) ==
             \/ l.mii \in exposed \/ \E i \in 1..Len(licenses') : Above(licenses'[i], l)
             \/ \E i \in 1..Slots : \E file \in LeftBehind(i) : Above(file, l)
             \/ disk["slot"][slot] = NoFile /\ LeftBehind(slot) # {}
           A == pc = "read" /\ pc' = "idle" /\ faults' = 0 => \A l \in kept : Found(l)
<1>1. Kept /\ [Next]_vars => A
  <2> SUFFICES ASSUME Kept, [Next]_vars, pc = "read", pc' = "idle", faults' = 0, NEW l \in kept,
                      l.mii \notin exposed
               PROVE  Found(l)
    OBVIOUS
  <2>1. /\ Len(licenses') \in Nat /\ slot \in Nat /\ slot \in 1..Slots /\ Slots \in Nat
        /\ \A j \in 1..Len(licenses') : licenses'[j] = disk["slot"][j]
        /\ \/ Len(licenses') = Slots
           \/ Len(licenses') = slot - 1 /\ disk["slot"][slot] = NoFile
    BY Loaded, SaveFacts DEF Kept
  <2>2. CASE \E i \in 1..Slots : \E file \in LeftBehind(i) : Above(file, l)
    BY <2>2
  <2>3. CASE \E i \in 1..Slots : Reached(i) /\ Above(disk["slot"][i], l)
    <3>1. PICK i \in 1..Slots : Reached(i) /\ Above(disk["slot"][i], l)
      BY <2>3
    <3>2. CASE i \in 1..Len(licenses')
      BY <2>1, <3>1, <3>2
    <3>3. CASE i \notin 1..Len(licenses')
      <4>1. slot \in 1..i /\ disk["slot"][slot] = NoFile
        BY <2>1, <3>3
      <4>2. LeftBehind(slot) # {}
        BY <3>1, <4>1 DEF Reached, NonVoid
      <4> QED
        BY <4>1, <4>2
    <3> QED
      BY <3>2, <3>3
  <2>4. OnCard(l)
    BY DEF Kept, Safe, InSession, Saving
  <2> QED
    BY <2>2, <2>3, <2>4 DEF OnCard
<1>2. Kept /\ [Next]_vars => [A]_vars
  BY <1>1
<1>3. Spec => []Kept
  BY KeptInit, KeptNext, PTL DEF Spec
<1> HIDE DEF A
<1>4. Spec => [][A]_vars
  BY <1>2, <1>3, PTL DEF Spec
<1> QED
  BY <1>4 DEF A, StartsFindLicenses
=====
