-------------------------------- MODULE SaveFiles --------------------------------
(***************************************************************************)
(* The licenses of a player, in the memory of the SaveManager and in the   *)
(* files of the SD card: SaveManager::initSPSave and saveSPSave on the     *)
(* task thread, and Storage::WriteFile under them, one storage call per    *)
(* step.  Every call may fail, and the power may go between any two.       *)
(*                                                                         *)
(* A license is abstracted to the Mii it was made for and the edit that    *)
(* gave it its present settings; slot i of the code is slot i + 1 here.    *)
(* A call is atomic on the card.  A file that was opened for writing is    *)
(* empty until it has been closed (f_close writes its last sector and its  *)
(* size), and an empty file is read as a license nobody has set anything   *)
(* of, Blank.                                                              *)
(***************************************************************************)
EXTENDS Naturals, Sequences

CONSTANTS
  Slots,      \* std::size(m_spLicenses)
  MaxEdits,   \* bound: licenses made and changed
  MaxFaults,  \* bound: storage calls that fail for no reason in the files
  NoFile,
  NoSave

License == [mii : Nat, edit : Nat]

ASSUME SaveAssumption ==
  /\ Slots \in Nat \ {0} /\ MaxEdits \in Nat /\ MaxFaults \in Nat
  /\ NoFile \notin License /\ NoSave \notin Seq(License)

VARIABLES
  licenses,   \* m_spLicenses, as far as m_spLicenseCount
  edits,      \* edits made so far
  pc,         \* the next storage call of the task thread; "idle": m_isBusy is
              \* false, "off": the power is off
  slot,       \* the slot it is about
  disk,       \* the files, by kind: slotN.ini, its .new and .old, settingsN.ini
  kept,       \* the licenses loaded or reported saved so far, and not erased since,
              \* each in its last edit
  exposed,    \* the Miis of those that the last start did not find, or whose file was
              \* not closed, and that have not been saved since
  saved,      \* what the last save has saved, if it was reported Ok and no start
              \* has met a failing call since, or NoSave
  cut,        \* the slots whose file that save has failed to close
  faults      \* storage calls that have failed since a start or a save that was Ok

vars == <<licenses, edits, pc, slot, disk, kept, exposed, saved, cut, faults>>

Kinds == {"slot", "new", "old", "settings"}
Files == [Kinds -> [1..Slots -> License \cup {NoFile}]]

Made(i) == [mii |-> i, edit |-> 0]
Blank == [mii |-> 0, edit |-> 0]
Elements(s) == {s[i] : i \in 1..Len(s)} \ {Blank}

\* The card of a first start, or one that an older version has used, which kept
\* its licenses in settingsN.ini; also after this version has.
Init ==
  /\ licenses = <<>> /\ edits = Slots
  /\ pc = "off" /\ slot = 1
  /\ \E mine, older \in 0..Slots :
       disk = [kind \in Kinds |-> [i \in 1..Slots |->
         IF (kind = "slot" /\ i <= mine) \/ (kind = "settings" /\ i <= older)
           THEN Made(i) ELSE NoFile]]
  /\ kept = {} /\ exposed = {}
  /\ saved = NoSave /\ cut = {} /\ faults = 0
-------------------------------------------------------------------------------
\* Mutant: f_rename replaces a file.
CanReplace(from, to) == disk[from][slot] # NoFile

\* f_rename does not replace a file.
CanRename(from, to) == disk[from][slot] # NoFile /\ disk[to][slot] = NoFile
Put(kind, content) == disk' = [disk EXCEPT ![kind][slot] = content]
Rename(from, to) ==
  disk' = [disk EXCEPT ![to][slot] = disk[from][slot], ![from][slot] = NoFile]

Fault == faults < MaxFaults /\ faults' = faults + 1
NoFault == UNCHANGED faults

PowerLoss ==
  /\ pc # "off"
  /\ pc' = "off" /\ licenses' = <<>> /\ slot' = 1 /\ cut' = {} /\ faults' = 0
  /\ UNCHANGED <<edits, disk, kept, exposed, saved>>

\* CreateInstance and InitTask.
Boot ==
  /\ pc = "off"
  /\ pc' = "migrate"
  /\ UNCHANGED <<licenses, edits, slot, disk, kept, exposed, saved, cut, faults>>

\* A file of an older version is moved to its new place, if that is free.
Migrate ==
  /\ pc = "migrate"
  /\ \/ /\ CanRename("settings", "slot") /\ Rename("settings", "slot")
        /\ NoFault /\ UNCHANGED saved
     \/ /\ ~CanRename("settings", "slot") /\ UNCHANGED disk
        /\ NoFault /\ UNCHANGED saved
     \/ Fault /\ saved' = NoSave /\ UNCHANGED disk
  /\ pc' = "read"
  /\ UNCHANGED <<licenses, edits, slot, kept, exposed, cut>>

\* A license, in that edit or a later one.
Above(file, l) == file \in License /\ file.mii = l.mii /\ file.edit >= l.edit

LastEdits(shown) == {l \in shown : \A k \in shown : k.mii = l.mii => l.edit >= k.edit}
Missing(found) == {l.mii : l \in {k \in kept' : \A i \in 1..Len(found) : ~Above(found[i], k)}}

\* The player is shown the licenses that were found.  What is missing may be
\* overwritten from now on, or removed with the slots not in use.
StartDone(found) ==
  /\ pc' = "idle" /\ slot' = 1
  /\ kept' = LastEdits(kept \cup Elements(found)) /\ exposed' = Missing(found)

\* initSPSave reads slot after slot, until one that it cannot read.
Read ==
  /\ pc = "read"
  /\ disk["slot"][slot] # NoFile
  /\ licenses' = Append(licenses, disk["slot"][slot])
  /\ IF slot = Slots
       THEN StartDone(licenses')
       ELSE pc' = "migrate" /\ slot' = slot + 1 /\ UNCHANGED <<kept, exposed>>
  /\ UNCHANGED <<edits, disk, saved, cut, faults>>

ReadFails ==
  /\ pc = "read"
  /\ \/ disk["slot"][slot] = NoFile /\ NoFault /\ UNCHANGED saved
     \/ Fault /\ saved' = NoSave
  /\ StartDone(licenses)
  /\ UNCHANGED <<licenses, edits, disk, cut>>
-------------------------------------------------------------------------------
\* Mutant: nothing keeps to the number of slots.
CreateSPLicenseAnyway ==
  /\ pc = "idle" /\ edits < MaxEdits
  /\ edits' = edits + 1
  /\ licenses' = Append(licenses, [mii |-> edits', edit |-> edits'])
  /\ UNCHANGED <<pc, slot, disk, kept, exposed, saved, cut, faults>>

\* The license select page offers one button more than there are licenses, out
\* of as many as there are slots.
CreateSPLicense ==
  /\ Len(licenses) < Slots
  /\ CreateSPLicenseAnyway

\* The licenses behind the one that is erased move up.
EraseSPLicense ==
  /\ pc = "idle"
  /\ \E i \in 1..Len(licenses) :
       /\ licenses' = [j \in 1..Len(licenses) - 1 |-> licenses[IF j < i THEN j ELSE j + 1]]
       /\ kept' = {l \in kept : l.mii # licenses[i].mii}
       /\ exposed' = exposed \ {licenses[i].mii}
  /\ UNCHANGED <<edits, pc, slot, disk, saved, cut, faults>>

SetSetting ==
  /\ pc = "idle" /\ edits < MaxEdits
  /\ edits' = edits + 1
  /\ \E i \in 1..Len(licenses) : licenses' = [licenses EXCEPT ![i].edit = edits']
  /\ UNCHANGED <<pc, slot, disk, kept, exposed, saved, cut, faults>>

\* saveLicensesAsync; what it notes of the character and the vehicle in use is a
\* setting like any other.  The test of m_spCanSave lacks a return and has no
\* effect.
FirstCall == IF licenses = <<>> THEN "remove" ELSE "open"
SaveLicensesAsync ==
  /\ pc = "idle"
  /\ pc' = FirstCall /\ saved' = NoSave
  /\ UNCHANGED <<licenses, edits, slot, disk, kept, exposed, cut, faults>>
-------------------------------------------------------------------------------
Goto(call) == pc' = call /\ UNCHANGED <<slot, cut>>

\* saveSPSave gives up at the first slot that cannot be written or removed.
Fails == pc' = "idle" /\ slot' = 1 /\ cut' = {}
Unchanging == UNCHANGED <<licenses, edits>>
NotDone == UNCHANGED <<kept, exposed, saved>>

Done ==
  /\ pc' = "idle" /\ slot' = 1
  /\ saved' = [i \in 1..Len(licenses) |-> IF i \in cut THEN Blank ELSE licenses[i]]
  /\ kept' = LastEdits(kept \cup Elements(licenses))
  /\ exposed' = exposed \cap Missing(saved')
  /\ cut' = {} /\ faults' = 0

Open ==
  /\ pc = "open" /\ Unchanging /\ NotDone
  /\ \/ Put("new", Blank) /\ Goto("write") /\ NoFault
     \/ Fault /\ Fails /\ UNCHANGED disk

Write ==
  /\ pc = "write" /\ Unchanging /\ NotDone /\ UNCHANGED disk
  /\ \/ Goto("close") /\ NoFault
     \/ Fault /\ Fails

\* The destructor of the file closes it and does not say whether that failed.
Close ==
  /\ pc = "close" /\ UNCHANGED <<licenses, edits>> /\ UNCHANGED <<kept, saved>>
  /\ pc' = "drop" /\ UNCHANGED slot
  /\ \/ Put("new", licenses[slot]) /\ NoFault /\ UNCHANGED <<exposed, cut>>
     \/ /\ Fault /\ UNCHANGED disk
        /\ exposed' = exposed \cup {licenses[slot].mii} /\ cut' = cut \cup {slot}

Drop ==
  /\ pc = "drop" /\ Unchanging /\ NotDone
  /\ \/ Put("old", NoFile) /\ Goto("retire") /\ NoFault
     \/ Fault /\ Fails /\ UNCHANGED disk

\* Mutant of Retire: the slot is removed, to make room.
RetireRemoves ==
  /\ pc = "retire" /\ Unchanging /\ NotDone /\ NoFault
  /\ Goto("install") /\ Put("slot", NoFile)

\* The first save of a license has nothing to rename; a failure is ignored.
Retire ==
  /\ pc = "retire" /\ Unchanging /\ NotDone
  /\ Goto("install")
  /\ \/ CanRename("slot", "old") /\ Rename("slot", "old") /\ NoFault
     \/ ~CanRename("slot", "old") /\ UNCHANGED disk /\ NoFault
     \/ Fault /\ UNCHANGED disk

Install ==
  /\ pc = "install" /\ Unchanging /\ NotDone
  /\ \/ CanRename("new", "slot") /\ Rename("new", "slot") /\ Goto("clean") /\ NoFault
     \/ ~CanRename("new", "slot") /\ Fails /\ UNCHANGED disk /\ NoFault
     \/ Fault /\ Fails /\ UNCHANGED disk

\* Mutant of NextSlot: the slots that are not in use any more are left.
NextSlotOnly ==
  IF slot < Len(licenses)
    THEN pc' = "open" /\ slot' = slot + 1 /\ UNCHANGED cut /\ NoFault /\ NotDone
    ELSE Done

\* After the slots in use, the others are removed.
NextSlot ==
  IF slot < Slots
    THEN /\ pc' = IF slot < Len(licenses) THEN "open" ELSE "remove"
         /\ slot' = slot + 1 /\ UNCHANGED cut /\ NoFault /\ NotDone
    ELSE Done

\* Not a big deal if this fails.
Clean ==
  /\ pc = "clean" /\ Unchanging
  /\ Put("old", NoFile) \/ UNCHANGED disk
  /\ NextSlot

Remove ==
  /\ pc = "remove" /\ Unchanging
  /\ \/ Put("slot", NoFile) /\ NextSlot
     \/ Fault /\ Fails /\ NotDone /\ UNCHANGED disk

Save == Open \/ Write \/ Close \/ Drop \/ Retire \/ Install \/ Clean \/ Remove

Next ==
  \/ PowerLoss \/ Boot \/ Migrate \/ Read \/ ReadFails
  \/ CreateSPLicense \/ EraseSPLicense \/ SetSetting \/ SaveLicensesAsync
  \/ Save

Spec == Init /\ [][Next]_vars
-------------------------------------------------------------------------------
TypeOK ==
  /\ licenses \in Seq(License) /\ Len(licenses) <= Slots
  /\ edits \in Nat
  /\ pc \in {"off", "migrate", "read", "idle", "open", "write", "close", "drop",
             "retire", "install", "clean", "remove"}
  /\ slot \in 1..Slots
  /\ disk \in Files
  /\ kept \subseteq License /\ exposed \subseteq Nat
  /\ saved \in Seq(License) \cup {NoSave} /\ cut \subseteq 1..Slots
  /\ faults \in 0..MaxFaults

\* However often saves fail or are cut off by the power, as long as no two calls
\* fail in one session without a save that succeeds between them, every license that
\* was ever loaded or reported saved, and not erased since, is in some file, in that
\* edit or a later one; but for those a start did not find, which the next save
\* may remove, and those whose file was not closed.  WriteFile goes through .new and
\* .old for this, and after a license was erased the ones behind it are copied
\* before they are removed.
NothingLost ==
  \A l \in kept : l.mii \in exposed \/ \E kind \in Kinds, i \in 1..Slots : Above(disk[kind][i], l)

\* Wherever the power went before it, a start in which no call fails misses such a
\* license only if the file of a slot was being replaced and is left in .old or .new,
\* which nothing reads: it is the license's own, or the slot is empty and the start
\* stops there.
LeftBehind(i) == {disk["old"][i], disk["new"][i]} \ {NoFile}

StartsFindLicenses == [][
  pc = "read" /\ pc' = "idle" /\ faults' = 0 => \A l \in kept :
    \/ l.mii \in exposed \/ \E i \in 1..Len(licenses') : Above(licenses'[i], l)
    \/ \E i \in 1..Slots : \E file \in LeftBehind(i) : Above(file, l)
    \/ disk["slot"][slot] = NoFile /\ LeftBehind(slot) # {}]_vars

\* A save that was reported Ok is what the next start loads, whatever earlier
\* saves have left behind: each license in its slot, or nothing of it if its file
\* was not closed, and after them nothing but what an older version may have left.
LoadsWhatWasSaved == [][pc = "read" /\ pc' = "idle" /\ saved' # NoSave =>
  /\ Len(licenses') >= Len(saved')
  /\ \A i \in 1..Len(licenses') :
       IF i <= Len(saved')
         THEN licenses'[i] = saved'[i]
         ELSE licenses'[i].edit = 0]_vars
===============================================================================
