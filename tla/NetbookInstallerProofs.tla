----------------------- MODULE NetbookInstallerProofs -----------------------
(***************************************************************************)
(* Proofs about the installer, for any volumes and extensions, and for any *)
(* number of installations, failing commands and crashes.                  *)
(***************************************************************************)
EXTENDS NetbookInstaller, TLAPS

-----------------------------------------------------------------------------
(* The inductive invariant.                                                *)

Folder == [extra : SUBSET Entry, bak : SUBSET Entry, nested : SUBSET Entry]

\* What the user relies on is never the cache, which the installer deletes.
\* A volume is only put at risk again after an installation left it damaged.
FilesTyped ==
  /\ mounted \subseteq Volume
  /\ disk \in [Volume -> Folder]
  /\ own \in [Volume -> SUBSET (Kexts \cup {"DSDT"})]
  /\ reinstalled \cap Volume \subseteq damaged

\* While the thread works, the window is locked and nobody edits the extensions.
Busy ==
  /\ thread = [pc |-> thread.pc, drive |-> thread.drive]
  /\ thread.pc # "idle" => installing /\ ~installButton /\ message = "none"

\* The thread is between deleting Extra and having restored it.
AtWork(v) == v = chosen /\ thread.pc \in Unfinished

\* Where the files of a volume are at each moment of an installation on it, and what
\* is known of the volume when nobody works on it.
VolumeInv(v) ==
  LET d == disk[v] IN
  /\ v \notin reinstalled => own[v] \subseteq d.extra \cup d.bak \cup d.nested
  /\ v \notin damaged /\ ~AtWork(v) => own[v] \cap Kexts \subseteq d.extra \cup d.nested
  /\ v \notin damaged \cup booter /\ ~AtWork(v) => own[v] \subseteq d.extra
  /\ v \notin damaged \cup booter /\ AtWork(v) =>
       /\ own[v] \subseteq d.extra \cup d.bak
       /\ thread.pc = "restoreKexts" => own[v] \ Kexts \subseteq d.extra
  /\ v = chosen /\ v \notin reinstalled =>
       /\ thread.pc = "backup" => v \notin damaged
       /\ thread.pc = "delete" => d.extra \subseteq d.bak
       /\ thread.pc = "booterDelete" => d.extra \subseteq d.bak \cup d.nested
       /\ thread.pc = "booterMakeDir" => own[v] \subseteq d.bak \cup d.nested
  /\ v = chosen /\ thread.pc \in {"booterDelete", "booterMakeDir", "booterRestore"} =>
       v \in booter

InstallInv ==
  /\ FilesTyped
  /\ Busy
  /\ ~misled => \A v \in Volume : VolumeInv(v)

-----------------------------------------------------------------------------
(* File commands.                                                          *)

\* A copy brings over all files unless it fails.
LEMMA CopiedFiles ==
  ASSUME NEW files, NEW c \in Copied(files)
  PROVE  c.files \subseteq files /\ (~c.failed => c.files = files)
<1>1. CASE c = [files |-> files, failed |-> FALSE]
  BY <1>1
<1>2. CASE \E s \in SUBSET files : c = [files |-> s, failed |-> TRUE]
  BY <1>2
<1> QED  BY <1>1, <1>2 DEF Copied

\* Changing one folder of a volume leaves the others as they are.
LEMMA ExtraUpdate ==
  ASSUME NEW d \in Folder, NEW e \in SUBSET Entry, NEW f, f = [d EXCEPT !.extra = e]
  PROVE  f \in Folder /\ f.extra = e /\ f.bak = d.bak /\ f.nested = d.nested
  BY DEF Folder

LEMMA BakUpdate ==
  ASSUME NEW d \in Folder, NEW e \in SUBSET Entry, NEW f, f = [d EXCEPT !.bak = e]
  PROVE  f \in Folder /\ f.extra = d.extra /\ f.bak = e /\ f.nested = d.nested
  BY DEF Folder

\* The folders of a mounted volume.
LEMMA MountedFolders ==
  ASSUME FilesTyped, NEW p \in mounted
  PROVE  /\ p \in Volume /\ p # None /\ Folders(p) = disk[p] /\ disk[p] \in Folder
         /\ disk[p].extra \subseteq Entry /\ disk[p].bak \subseteq Entry
         /\ disk[p].nested \subseteq Entry
<1>1. p \in Volume /\ p # None /\ disk[p] \in Folder
  BY InstallerAssumption DEF FilesTyped
<1> QED  BY <1>1 DEF Folders, Folder

\* A command that does not mislead the user worked on the volume of his choice.
LEMMA Commanded ==
  ASSUME FilesTyped, NEW p, NEW f, On(p, f), p \in mounted => f \in Folder
  PROVE  /\ disk' \in [Volume -> Folder]
         /\ ~misled' => /\ ~misled /\ p = chosen /\ p \in mounted
                        /\ disk'[p] = f
                        /\ \A w \in Volume \ {p} : disk'[w] = disk[w]
<1>1. p \in mounted => p \in Volume /\ disk' = [disk EXCEPT ![p] = f]
  BY DEF On, FilesTyped
<1>2. p \notin mounted => disk' = disk
  BY DEF On
<1>3. disk \in [Volume -> Folder]
  BY DEF FilesTyped
<1>4. disk' \in [Volume -> Folder]
  BY <1>1, <1>2, <1>3
<1>5. ~misled' => ~misled /\ p = chosen /\ p \in mounted
  BY DEF On
<1> QED  BY <1>1, <1>3, <1>4, <1>5

\* What a step does to volumes other than the one it works on.
SameVolume(w) ==
  /\ disk'[w] = disk[w] /\ own'[w] = own[w]
  /\ w \in damaged' <=> w \in damaged
  /\ w \in reinstalled' <=> w \in reinstalled
  /\ w \in booter' <=> w \in booter

\* A volume nobody works on stays as it is.
LEMMA OtherVolumes ==
  ASSUME NEW w, VolumeInv(w), w # chosen, chosen' = chosen, SameVolume(w)
  PROVE  VolumeInv(w)'
  BY DEF VolumeInv, AtWork, SameVolume

\* A step of the thread on the chosen volume.
LEMMA WorksOn ==
  ASSUME InstallInv, FilesTyped', Busy', NEW p,
         ~misled' => /\ ~misled /\ p = chosen /\ chosen' = chosen
                     /\ VolumeInv(p)'
                     /\ \A w \in Volume \ {p} : SameVolume(w)
  PROVE  InstallInv'
<1> SUFFICES ASSUME ~misled', NEW v \in Volume PROVE VolumeInv(v)'
  BY DEF InstallInv
<1>1. VolumeInv(v)
  BY DEF InstallInv
<1>2. CASE v = p
  BY <1>2
<1>3. CASE v # p
  BY <1>1, <1>3, OtherVolumes
<1> QED  BY <1>2, <1>3

\* Steps before an installation touches a volume, or after it has finished with it.
Neutral == {"idle", "auth", "purge", "target", "booterAuth", "booterBackup", "dsdt",
            "extensions", "uncache", "cache", "booterFiles", "finish"}

\* A step that touches no files, from and to such a point.
LEMMA NeutralStep ==
  ASSUME InstallInv, FilesTyped', Busy', thread.pc \notin Unfinished, thread'.pc \in Neutral,
         UNCHANGED <<disk, own, damaged, reinstalled, booter, misled>>
  PROVE  InstallInv'
<1> SUFFICES ASSUME ~misled, NEW v \in Volume PROVE VolumeInv(v)'
  BY DEF InstallInv
<1>1. VolumeInv(v) /\ ~AtWork(v) /\ ~AtWork(v)'
  BY DEF InstallInv, AtWork, Unfinished, Neutral
<1> QED  BY <1>1 DEF VolumeInv, Neutral

\* A command of the thread moves it on and leaves the window locked.
LEMMA MovesOn ==
  ASSUME Busy, NEW pc, NEW next, Goto(pc, next), pc # "idle",
         UNCHANGED <<installing, installButton, message>>
  PROVE  Busy' /\ thread.pc = pc /\ thread'.pc = next /\ thread'.drive = thread.drive
<1>1. thread = [pc |-> thread.pc, drive |-> thread.drive] /\ thread.pc = pc
      /\ thread' = [thread EXCEPT !.pc = next]
      /\ installing /\ ~installButton /\ message = "none"
  BY DEF Busy, Goto
<1>2. thread' = [pc |-> next, drive |-> thread.drive]
  BY <1>1
<1> QED  BY <1>1, <1>2 DEF Busy

\* Everything but the chosen volume is left alone by a command, and by the books that
\* are kept of it.
LEMMA Command ==
  ASSUME InstallInv, NEW p, NEW f, NEW pc, NEW next, pc # "idle", Goto(pc, next), On(p, f),
         p \in mounted => f \in Folder,
         UNCHANGED <<mounted, chosen, installing, installButton, message>>,
         own' \in [Volume -> SUBSET (Kexts \cup {"DSDT"})],
         \A w \in Volume \ {p} : own'[w] = own[w],
         damaged \subseteq damaged', damaged' \subseteq damaged \cup {p},
         reinstalled \subseteq reinstalled', reinstalled' \subseteq reinstalled \cup {p},
         booter \subseteq booter', booter' \subseteq booter \cup {p},
         reinstalled' \cap Volume \subseteq damaged',
         /\ VolumeInv(p) /\ p \in mounted /\ p = chosen /\ chosen' = p
         /\ thread.pc = pc /\ thread'.pc = next /\ disk'[p] = f
         => VolumeInv(p)'
  PROVE  InstallInv'
<1>1. FilesTyped /\ Busy
  BY DEF InstallInv
<1>2. /\ disk' \in [Volume -> Folder]
      /\ ~misled' => /\ ~misled /\ p = chosen /\ p \in mounted
                     /\ disk'[p] = f
                     /\ \A w \in Volume \ {p} : disk'[w] = disk[w]
  BY <1>1, Commanded
<1>3. Busy' /\ thread.pc = pc /\ thread'.pc = next
  BY <1>1, MovesOn
<1>4. FilesTyped'
  BY <1>1, <1>2 DEF FilesTyped
<1>5. ~misled' => VolumeInv(p)'
  <2>1. ~misled' => VolumeInv(p) /\ p \in mounted /\ p = chosen /\ chosen' = p
    BY <1>1, <1>2 DEF InstallInv, FilesTyped
  <2> QED  BY <2>1, <1>2, <1>3
<1>6. ~misled' => \A w \in Volume \ {p} : SameVolume(w)
  BY <1>2 DEF SameVolume
<1> QED  BY <1>2, <1>3, <1>4, <1>5, <1>6, WorksOn

-----------------------------------------------------------------------------
(* The commands of an update.                                              *)

\* The books are not touched by a command that only moves files.
Books == <<mounted, own, chosen, installing, installButton, message, damaged, reinstalled, booter>>

LEMMA PlainCommand ==
  ASSUME InstallInv, NEW p, NEW f, NEW pc, NEW next, pc # "idle", Goto(pc, next), On(p, f),
         p \in mounted => f \in Folder, UNCHANGED Books,
         /\ VolumeInv(p) /\ p \in mounted /\ p = chosen /\ chosen' = p
         /\ thread.pc = pc /\ thread'.pc = next /\ disk'[p] = f
         => VolumeInv(p)'
  PROVE  InstallInv'
<1>1. /\ own' \in [Volume -> SUBSET (Kexts \cup {"DSDT"})]
      /\ reinstalled' \cap Volume \subseteq damaged'
      /\ UNCHANGED <<mounted, own, chosen, installing, installButton, message,
                     damaged, reinstalled, booter>>
  BY DEF InstallInv, FilesTyped, Books
<1> HIDE DEF InstallInv, Books
<1> QED  BY <1>1, Command

\* deletePreviousExtensions drops the old backup of the extensions, which Extra
\* itself still has unless the volume was damaged.
LEMMA PurgeKeeps == InstallInv /\ deletePreviousExtensions => InstallInv'
<1> SUFFICES ASSUME InstallInv, deletePreviousExtensions PROVE InstallInv'
  OBVIOUS
<1>0. PICK p : p = installPath
  OBVIOUS
<1> DEFINE d == Folders(p)
           e == (d.bak \ Kexts) \cup {"."}
           f == IF "." \in d.extra /\ p \in mounted THEN [d EXCEPT !.bak = e] ELSE d
           next == IF "." \in d.extra /\ p \in mounted THEN "backup" ELSE "makeDir"
<1>1. Goto("purge", next) /\ On(p, f)
  BY <1>0 DEF deletePreviousExtensions
<1>2. /\ UNCHANGED <<mounted, own, chosen, damaged, booter, installing, installButton, message>>
      /\ reinstalled' = reinstalled \cup ({p} \cap damaged)
  BY <1>0 DEF deletePreviousExtensions, threadUnchanged
<1>3. /\ own' \in [Volume -> SUBSET (Kexts \cup {"DSDT"})]
      /\ reinstalled' \cap Volume \subseteq damaged'
  BY <1>2 DEF InstallInv, FilesTyped
<1>4. ASSUME p \in mounted
      PROVE  /\ f \in Folder /\ d = disk[p]
             /\ f.extra = d.extra /\ f.nested = d.nested
             /\ next = "backup" => f.bak = e
             /\ next = "makeDir" => f = d
  <2>1. d = disk[p] /\ d \in Folder /\ e \in SUBSET Entry
    BY <1>4, MountedFolders DEF Entry, InstallInv
  <2>2. /\ [d EXCEPT !.bak = e] \in Folder
        /\ [d EXCEPT !.bak = e].extra = d.extra /\ [d EXCEPT !.bak = e].bak = e
        /\ [d EXCEPT !.bak = e].nested = d.nested
    BY <2>1, BakUpdate
  <2> QED  BY <2>1, <2>2
<1> HIDE DEF f, next
<1>5. ASSUME VolumeInv(p), p \in mounted, p = chosen, chosen' = p,
             thread.pc = "purge", thread'.pc = next, disk'[p] = f
      PROVE  VolumeInv(p)'
  <2>1. ~AtWork(p) /\ (p \notin reinstalled' => p \notin damaged /\ p \notin reinstalled)
    BY <1>2, <1>5 DEF AtWork, Unfinished
  <2>2. CASE next = "backup"
    <3>1. ~AtWork(p)'
      BY <1>5, <2>2 DEF AtWork, Unfinished
    <3> QED  BY <1>2, <1>4, <1>5, <2>1, <2>2, <3>1 DEF VolumeInv
  <2>3. CASE next = "makeDir"
    <3>1. AtWork(p)' /\ disk'[p] = disk[p]
      BY <1>4, <1>5, <2>3 DEF AtWork, Unfinished
    <3> QED  BY <1>2, <1>5, <2>1, <2>3, <3>1 DEF VolumeInv
  <2> QED  BY <2>2, <2>3 DEF next
<1> QED  BY <1>1, <1>2, <1>3, <1>4, <1>5, Command

\* backupExtra: what is in Extra is in the backup too, or the failure is recorded.
LEMMA BackupKeeps == InstallInv /\ backupExtra => InstallInv'
<1> SUFFICES ASSUME InstallInv, backupExtra PROVE InstallInv'
  OBVIOUS
<1>0. PICK p : p = installPath
  OBVIOUS
<1> DEFINE d == Folders(p)
<1>1. PICK c \in Copied(d.extra \cap Entry) :
        /\ On(p, [d EXCEPT !.bak = @ \cup c.files])
        /\ Damage(p, c.failed)
        /\ reinstalled' = reinstalled \cup IF c.failed THEN Volume \cap {p} ELSE {}
  BY <1>0 DEF backupExtra, backupFiles
<1>2. /\ Goto("backup", "delete")
      /\ UNCHANGED <<mounted, own, chosen, booter, installing, installButton, message>>
  BY DEF backupExtra, backupFiles, threadUnchanged
<1> DEFINE f == [d EXCEPT !.bak = d.bak \cup c.files]
<1>3. On(p, f)
  BY <1>1
<1>4. /\ damaged \subseteq damaged' /\ damaged' \subseteq damaged \cup {p}
      /\ reinstalled \subseteq reinstalled' /\ reinstalled' \subseteq reinstalled \cup {p}
      /\ own' \in [Volume -> SUBSET (Kexts \cup {"DSDT"})]
      /\ reinstalled' \cap Volume \subseteq damaged'
      /\ ~c.failed => UNCHANGED <<damaged, reinstalled>>
      /\ c.failed /\ p \in Volume => p \in damaged' /\ p \in reinstalled'
  BY <1>1, <1>2, InstallerAssumption DEF Damage, InstallInv, FilesTyped
<1>5. ASSUME p \in mounted
      PROVE  /\ f \in Folder /\ d = disk[p] /\ p \in Volume
             /\ f.extra = d.extra /\ f.nested = d.nested /\ f.bak = d.bak \cup c.files
             /\ ~c.failed => c.files = d.extra
  <2>1. d = disk[p] /\ d \in Folder /\ d.extra \subseteq Entry /\ d.bak \subseteq Entry
        /\ p \in Volume
    BY <1>5, MountedFolders DEF InstallInv
  <2>2. /\ c.files \subseteq d.extra \cap Entry
        /\ ~c.failed => c.files = d.extra \cap Entry
    BY <1>1, CopiedFiles
  <2>3. d.bak \cup c.files \in SUBSET Entry
    BY <2>1, <2>2
  <2>4. /\ f \in Folder
        /\ f.extra = d.extra /\ f.nested = d.nested /\ f.bak = d.bak \cup c.files
    BY <2>1, <2>3, BakUpdate
  <2> QED  BY <2>1, <2>2, <2>4
<1> HIDE DEF f
<1>6. ASSUME VolumeInv(p), p \in mounted, p = chosen, chosen' = p,
             thread.pc = "backup", thread'.pc = "delete", disk'[p] = f
      PROVE  VolumeInv(p)'
  <2>1. ~AtWork(p) /\ ~AtWork(p)'
    BY <1>6 DEF AtWork, Unfinished
  <2>2. CASE c.failed
    BY <1>2, <1>4, <1>5, <1>6, <2>1, <2>2 DEF VolumeInv
  <2>3. CASE ~c.failed
    BY <1>2, <1>4, <1>5, <1>6, <2>1, <2>3 DEF VolumeInv
  <2> QED  BY <2>2, <2>3
<1> QED  BY <1>2, <1>3, <1>4, <1>5, <1>6, Command

\* deleteExtra: the backup has all that is deleted.
LEMMA DeleteKeeps == InstallInv /\ deleteExtra => InstallInv'
<1> SUFFICES ASSUME InstallInv, deleteExtra PROVE InstallInv'
  OBVIOUS
<1>0. PICK p : p = installPath
  OBVIOUS
<1> DEFINE f == [Folders(p) EXCEPT !.extra = {}]
<1>1. Goto("delete", "makeDir") /\ On(p, f) /\ UNCHANGED Books
  BY <1>0 DEF deleteExtra, threadUnchanged, Books
<1>2. ASSUME p \in mounted
      PROVE  /\ f \in Folder
             /\ f.extra = {} /\ f.bak = disk[p].bak /\ f.nested = disk[p].nested
  <2>1. Folders(p) = disk[p] /\ disk[p] \in Folder /\ {} \in SUBSET Entry
    BY <1>2, MountedFolders DEF InstallInv
  <2>2. f = [disk[p] EXCEPT !.extra = {}]
    BY <2>1
  <2> HIDE DEF f
  <2> QED  BY <2>1, <2>2, ExtraUpdate
<1> HIDE DEF f
<1>3. ASSUME VolumeInv(p), p \in mounted, p = chosen, chosen' = p,
             thread.pc = "delete", thread'.pc = "makeDir", disk'[p] = f
      PROVE  VolumeInv(p)'
  <2>1. ~AtWork(p) /\ AtWork(p)' /\ p \in Volume
    BY <1>3 DEF AtWork, Unfinished, InstallInv, FilesTyped
  <2>2. p \in reinstalled => p \in damaged
    BY <2>1 DEF InstallInv, FilesTyped
  <2> QED  BY <1>1, <1>2, <1>3, <2>1, <2>2 DEF VolumeInv, Books
<1> QED  BY <1>1, <1>2, <1>3, PlainCommand

\* Commands that only add to Extra of the chosen volume, before the restored files
\* are complete or after.
LEMMA MakeDirKeeps == InstallInv /\ makeDirExtra => InstallInv'
<1> SUFFICES ASSUME InstallInv, makeDirExtra PROVE InstallInv'
  OBVIOUS
<1>0. PICK p : p = installPath
  OBVIOUS
<1> DEFINE f == [Folders(p) EXCEPT !.extra = Folders(p).extra \cup {"."}]
<1>1. Goto("makeDir", "restore") /\ On(p, f) /\ UNCHANGED Books
  BY <1>0 DEF makeDirExtra, threadUnchanged, Books
<1>2. ASSUME p \in mounted
      PROVE  /\ f \in Folder
             /\ f.extra = disk[p].extra \cup {"."} /\ f.bak = disk[p].bak
             /\ f.nested = disk[p].nested
  <2>1. /\ Folders(p) = disk[p] /\ disk[p] \in Folder
        /\ disk[p].extra \cup {"."} \in SUBSET Entry
    BY <1>2, MountedFolders DEF InstallInv, Entry
  <2>2. f = [disk[p] EXCEPT !.extra = disk[p].extra \cup {"."}]
    BY <2>1
  <2> HIDE DEF f
  <2> QED  BY <2>1, <2>2, ExtraUpdate
<1> HIDE DEF f
<1>3. ASSUME VolumeInv(p), p \in mounted, p = chosen, chosen' = p,
             thread.pc = "makeDir", thread'.pc = "restore", disk'[p] = f
      PROVE  VolumeInv(p)'
  <2>1. AtWork(p) /\ AtWork(p)'
    BY <1>3 DEF AtWork, Unfinished
  <2> QED  BY <1>1, <1>2, <1>3, <2>1 DEF VolumeInv, Books
<1> QED  BY <1>1, <1>2, <1>3, PlainCommand

\* What a command that restores files of volume p does: f are the folders afterwards,
\* and c is what was copied.
Restored(p, files, c, f) ==
  /\ On(p, f)
  /\ UNCHANGED <<mounted, own, chosen, reinstalled, booter, installing, installButton, message>>
  /\ damaged \subseteq damaged' /\ damaged' \subseteq damaged \cup {p}
  /\ own' \in [Volume -> SUBSET (Kexts \cup {"DSDT"})]
  /\ reinstalled' \cap Volume \subseteq damaged'
  /\ ~c.failed => damaged' = damaged
  /\ c.failed /\ p \in Volume => p \in damaged'
  /\ p \in mounted => /\ f \in Folder /\ p \in Volume
                      /\ f.extra = disk[p].extra \cup c.files
                      /\ f.bak = disk[p].bak /\ f.nested = disk[p].nested
                      /\ c.files \subseteq disk[p].bak \cap files
                      /\ ~c.failed => c.files = disk[p].bak \cap files

LEMMA Restores ==
  ASSUME InstallInv, NEW p, p = installPath, NEW pc, NEW next, NEW files,
         restoreFiles(pc, next, files)
  PROVE  Goto(pc, next) /\ \E c, f : Restored(p, files, c, f)
<1>1. PICK c \in Copied(Folders(p).bak \cap files) :
        On(p, [Folders(p) EXCEPT !.extra = @ \cup c.files]) /\ Damage(p, c.failed)
  BY DEF restoreFiles
<1> DEFINE f == [Folders(p) EXCEPT !.extra = Folders(p).extra \cup c.files]
<1>2. /\ Goto(pc, next) /\ On(p, f)
      /\ UNCHANGED <<mounted, own, chosen, reinstalled, booter, installing, installButton, message>>
  BY <1>1 DEF restoreFiles, threadUnchanged
<1>3. /\ damaged \subseteq damaged' /\ damaged' \subseteq damaged \cup {p}
      /\ own' \in [Volume -> SUBSET (Kexts \cup {"DSDT"})]
      /\ reinstalled' \cap Volume \subseteq damaged'
      /\ ~c.failed => damaged' = damaged
      /\ c.failed /\ p \in Volume => p \in damaged'
  BY <1>1, <1>2, InstallerAssumption DEF Damage, InstallInv, FilesTyped
<1>4. c.files \subseteq Folders(p).bak \cap files
      /\ (~c.failed => c.files = Folders(p).bak \cap files)
  BY CopiedFiles
<1>5. ASSUME p \in mounted
      PROVE  /\ f \in Folder /\ p \in Volume
             /\ f.extra = disk[p].extra \cup c.files
             /\ f.bak = disk[p].bak /\ f.nested = disk[p].nested
             /\ Folders(p) = disk[p]
  <2>1. /\ Folders(p) = disk[p] /\ disk[p] \in Folder /\ p \in Volume
        /\ disk[p].extra \cup c.files \in SUBSET Entry
    BY <1>4, <1>5, MountedFolders DEF InstallInv
  <2> DEFINE e == disk[p].extra \cup c.files
  <2>2. f = [disk[p] EXCEPT !.extra = e] /\ e \in SUBSET Entry
    BY <2>1
  <2> HIDE DEF f, e
  <2>3. f \in Folder /\ f.extra = e /\ f.bak = disk[p].bak /\ f.nested = disk[p].nested
    BY <2>1, <2>2 DEF Folder
  <2> QED  BY <2>1, <2>3 DEF e
<1> HIDE DEF f
<1>6. p \in mounted => /\ f \in Folder /\ p \in Volume
                       /\ f.extra = disk[p].extra \cup c.files
                       /\ f.bak = disk[p].bak /\ f.nested = disk[p].nested
                       /\ c.files \subseteq disk[p].bak \cap files
                       /\ ~c.failed => c.files = disk[p].bak \cap files
  BY <1>4, <1>5
<1>7. Restored(p, files, c, f)
  BY <1>2, <1>3, <1>6 DEF Restored
<1> QED  BY <1>2, <1>7

\* restoreExtra and restoreAdditionalExtensions bring back from the backup what the
\* user relies on, the second one after the first.
LEMMA RestoreKeeps == InstallInv /\ restoreExtra => InstallInv'
<1> SUFFICES ASSUME InstallInv, restoreExtra PROVE InstallInv'
  OBVIOUS
<1>0. PICK p : p = installPath
  OBVIOUS
<1>1. restoreFiles("restore", "restoreKexts", {"DSDT", "mkext"})
  BY DEF restoreExtra
<1>2. PICK c, f : Restored(p, {"DSDT", "mkext"}, c, f)
  BY <1>0, <1>1, Restores
<1>3. Goto("restore", "restoreKexts")
  BY <1>0, <1>1, Restores
<1>4. ASSUME VolumeInv(p), p \in mounted, p = chosen, chosen' = p,
             thread.pc = "restore", thread'.pc = "restoreKexts", disk'[p] = f
      PROVE  VolumeInv(p)'
  <2>1. AtWork(p) /\ AtWork(p)' /\ own' = own /\ own[p] \subseteq Kexts \cup {"DSDT"}
    BY <1>2, <1>3, <1>4 DEF AtWork, Unfinished, InstallInv, FilesTyped, Restored
  <2>2. CASE c.failed
    BY <1>2, <1>4, <2>1, <2>2 DEF VolumeInv, Restored
  <2>3. CASE ~c.failed
    BY <1>2, <1>4, <2>1, <2>3 DEF VolumeInv, Restored
  <2> QED  BY <2>2, <2>3
<1> QED  BY <1>2, <1>3, <1>4, Command DEF Restored

LEMMA RestoreKextsKeeps == InstallInv /\ restoreAdditionalExtensions => InstallInv'
<1> SUFFICES ASSUME InstallInv, restoreAdditionalExtensions PROVE InstallInv'
  OBVIOUS
<1>0. PICK p : p = installPath
  OBVIOUS
<1>1. restoreFiles("restoreKexts", "dsdt", Kexts)
  BY DEF restoreAdditionalExtensions
<1>2. PICK c, f : Restored(p, Kexts, c, f)
  BY <1>0, <1>1, Restores
<1>3. Goto("restoreKexts", "dsdt")
  BY <1>0, <1>1, Restores
<1>4. ASSUME VolumeInv(p), p \in mounted, p = chosen, chosen' = p,
             thread.pc = "restoreKexts", thread'.pc = "dsdt", disk'[p] = f
      PROVE  VolumeInv(p)'
  <2>1. /\ AtWork(p) /\ ~AtWork(p)' /\ own' = own
        /\ p \in reinstalled => p \in damaged
    BY <1>2, <1>3, <1>4 DEF AtWork, Unfinished, InstallInv, FilesTyped, Restored
  <2>2. CASE c.failed
    BY <1>2, <1>4, <2>1, <2>2 DEF VolumeInv, Restored
  <2>3. CASE ~c.failed
    BY <1>2, <1>4, <2>1, <2>3 DEF VolumeInv, Restored
  <2> QED  BY <2>2, <2>3
<1> QED  BY <1>2, <1>3, <1>4, Command DEF Restored

\* Commands after the files are restored only add to Extra, or remove the cache.
LEMMA AddedLater ==
  ASSUME InstallInv, NEW p, NEW f, NEW pc, NEW next, Goto(pc, next), On(p, f),
         pc \in Neutral \ {"idle"}, next \in Neutral, UNCHANGED Books,
         p \in mounted => /\ f \in Folder /\ f.bak = disk[p].bak /\ f.nested = disk[p].nested
                          /\ disk[p].extra \subseteq f.extra \cup {"mkext"}
  PROVE  InstallInv'
<1>1. ASSUME VolumeInv(p), p \in mounted, p = chosen, chosen' = p,
             thread.pc = pc, thread'.pc = next, disk'[p] = f
      PROVE  VolumeInv(p)'
  <2>1. /\ ~AtWork(p) /\ ~AtWork(p)' /\ "mkext" \notin own[p] /\ own' = own
    BY <1>1, InstallerAssumption
    DEF AtWork, Unfinished, Neutral, InstallInv, FilesTyped, Books
  <2> QED  BY <1>1, <2>1 DEF VolumeInv, Neutral, Books
<1> QED  BY <1>1, PlainCommand

LEMMA ExtensionsKeeps == InstallInv /\ installExtensions => InstallInv'
<1> SUFFICES ASSUME InstallInv, installExtensions PROVE InstallInv'
  OBVIOUS
<1>0. PICK p : p = installPath
  OBVIOUS
<1> DEFINE f == [Folders(p) EXCEPT !.extra = Folders(p).extra \cup {"extensions"}]
<1>1. Goto("extensions", "uncache") /\ On(p, f) /\ UNCHANGED Books
  BY <1>0 DEF installExtensions, threadUnchanged, Books
<1>2. ASSUME p \in mounted
      PROVE  /\ f \in Folder /\ f.bak = disk[p].bak /\ f.nested = disk[p].nested
             /\ disk[p].extra \subseteq f.extra \cup {"mkext"}
  <2>1. /\ Folders(p) = disk[p] /\ disk[p] \in Folder
        /\ disk[p].extra \cup {"extensions"} \in SUBSET Entry
    BY <1>2, MountedFolders DEF InstallInv, Entry
  <2> QED  BY <2>1 DEF Folder
<1> HIDE DEF f
<1> QED  BY <1>1, <1>2, AddedLater DEF Neutral

LEMMA UncacheKeeps == InstallInv /\ deleteExtensionsCache => InstallInv'
<1> SUFFICES ASSUME InstallInv, deleteExtensionsCache PROVE InstallInv'
  OBVIOUS
<1>0. PICK p : p = installPath
  OBVIOUS
<1> DEFINE f == [Folders(p) EXCEPT !.extra = Folders(p).extra \ {"mkext"}]
<1>1. Goto("uncache", "cache") /\ On(p, f) /\ UNCHANGED Books
  BY <1>0 DEF deleteExtensionsCache, threadUnchanged, Books
<1>2. ASSUME p \in mounted
      PROVE  /\ f \in Folder /\ f.bak = disk[p].bak /\ f.nested = disk[p].nested
             /\ disk[p].extra \subseteq f.extra \cup {"mkext"}
  <2>1. /\ Folders(p) = disk[p] /\ disk[p] \in Folder
        /\ disk[p].extra \ {"mkext"} \in SUBSET Entry
    BY <1>2, MountedFolders DEF InstallInv
  <2> QED  BY <2>1 DEF Folder
<1> HIDE DEF f
<1> QED  BY <1>1, <1>2, AddedLater DEF Neutral

LEMMA CacheKeeps == InstallInv /\ buildExtensionsCache => InstallInv'
<1> SUFFICES ASSUME InstallInv, buildExtensionsCache PROVE InstallInv'
  OBVIOUS
<1>0. PICK p : p = installPath
  OBVIOUS
<1>1. PICK c \in Copied({"mkext"}) : On(p, [Folders(p) EXCEPT !.extra = @ \cup c.files])
  BY <1>0 DEF buildExtensionsCache
<1> DEFINE f == [Folders(p) EXCEPT !.extra = Folders(p).extra \cup c.files]
<1>2. Goto("cache", "finish") /\ On(p, f) /\ UNCHANGED Books
  BY <1>1 DEF buildExtensionsCache, threadUnchanged, Books
<1>3. ASSUME p \in mounted
      PROVE  /\ f \in Folder /\ f.bak = disk[p].bak /\ f.nested = disk[p].nested
             /\ disk[p].extra \subseteq f.extra \cup {"mkext"}
  <2>1. c.files \subseteq {"mkext"}
    BY CopiedFiles
  <2>2. /\ Folders(p) = disk[p] /\ disk[p] \in Folder
        /\ disk[p].extra \cup c.files \in SUBSET Entry
    BY <1>3, <2>1, MountedFolders DEF InstallInv, Entry
  <2> QED  BY <2>2 DEF Folder
<1> HIDE DEF f
<1> QED  BY <1>2, <1>3, AddedLater DEF Neutral

\* installDSDT: a new DSDT is the user's as soon as it is in Extra.
LEMMA DSDTKeeps == InstallInv /\ installDSDT => InstallInv'
<1> SUFFICES ASSUME InstallInv, installDSDT PROVE InstallInv'
  OBVIOUS
<1>0. PICK p : p = installPath
  OBVIOUS
<1>1. PICK made \in {{}, {"DSDT"}} :
        /\ On(p, [Folders(p) EXCEPT !.extra = @ \cup made])
        /\ own' = IF p \in mounted THEN [own EXCEPT ![p] = @ \cup made] ELSE own
  BY <1>0 DEF installDSDT
<1> DEFINE f == [Folders(p) EXCEPT !.extra = Folders(p).extra \cup made]
<1>2. /\ Goto("dsdt", "extensions") /\ On(p, f)
      /\ UNCHANGED <<mounted, chosen, damaged, reinstalled, booter, installing, installButton,
                     message>>
  BY <1>1 DEF installDSDT, Goto, windowVars
<1>3. ASSUME p \in mounted
      PROVE  /\ f \in Folder /\ f.bak = disk[p].bak /\ f.nested = disk[p].nested
             /\ f.extra = disk[p].extra \cup made
             /\ own' = [own EXCEPT ![p] = own[p] \cup made] /\ p \in Volume
  <2>1. made \subseteq {"DSDT"}
    OBVIOUS
  <2>2. /\ Folders(p) = disk[p] /\ disk[p] \in Folder /\ p \in Volume
        /\ disk[p].extra \cup made \in SUBSET Entry
    BY <1>3, <2>1, MountedFolders DEF InstallInv, Entry
  <2>3. own' = [own EXCEPT ![p] = own[p] \cup made]
    BY <1>1, <1>3
  <2> QED  BY <2>2, <2>3 DEF Folder
<1> HIDE DEF f
<1>4. /\ own' \in [Volume -> SUBSET (Kexts \cup {"DSDT"})]
      /\ \A w \in Volume \ {p} : own'[w] = own[w]
      /\ p \in mounted => own'[p] = own[p] \cup made
      /\ reinstalled' \cap Volume \subseteq damaged'
  <2>1. own \in [Volume -> SUBSET (Kexts \cup {"DSDT"})] /\ reinstalled \cap Volume \subseteq damaged
    BY DEF InstallInv, FilesTyped
  <2>2. made \subseteq {"DSDT"}
    OBVIOUS
  <2>3. CASE p \in mounted
    BY <1>2, <1>3, <2>1, <2>2, <2>3
  <2>4. CASE p \notin mounted
    BY <1>1, <1>2, <2>1, <2>4
  <2> QED  BY <2>3, <2>4
<1>5. ASSUME VolumeInv(p), p \in mounted, p = chosen, chosen' = p,
             thread.pc = "dsdt", thread'.pc = "extensions", disk'[p] = f
      PROVE  VolumeInv(p)'
  <2>1. ~AtWork(p) /\ ~AtWork(p)'
    BY <1>5 DEF AtWork, Unfinished
  <2> QED  BY <1>2, <1>3, <1>4, <1>5, <2>1 DEF VolumeInv
<1> QED  BY <1>2, <1>3, <1>4, <1>5, Command

-----------------------------------------------------------------------------
(* The commands that make a booter.                                        *)

\* booterBackup: Extra is in the backup or, when there was one, nested in it.
LEMMA BooterBackupKeeps == InstallInv /\ booterBackup => InstallInv'
<1> SUFFICES ASSUME InstallInv, booterBackup PROVE InstallInv'
  OBVIOUS
<1>0. PICK p : p = thread.drive
  OBVIOUS
<1> DEFINE d == Folders(p)
<1>1. PICK c \in Copied(d.extra) :
        /\ On(p, IF "." \in d.bak THEN [d EXCEPT !.nested = @ \cup c.files]
                 ELSE [d EXCEPT !.bak = @ \cup c.files])
        /\ Damage(p, c.failed)
        /\ reinstalled' = IF c.failed THEN reinstalled \cup {p} ELSE reinstalled
  BY <1>0 DEF booterBackup
<1> DEFINE f == IF "." \in d.bak THEN [d EXCEPT !.nested = d.nested \cup c.files]
                ELSE [d EXCEPT !.bak = d.bak \cup c.files]
<1>2. /\ Goto("booterBackup", "booterDelete") /\ On(p, f)
      /\ booter' = booter \cup {p}
      /\ UNCHANGED <<mounted, own, chosen, installing, installButton, message>>
  BY <1>0, <1>1 DEF booterBackup, threadUnchanged
<1>3. /\ damaged \subseteq damaged' /\ damaged' \subseteq damaged \cup {p}
      /\ reinstalled \subseteq reinstalled' /\ reinstalled' \subseteq reinstalled \cup {p}
      /\ own' \in [Volume -> SUBSET (Kexts \cup {"DSDT"})]
      /\ reinstalled' \cap Volume \subseteq damaged'
      /\ ~c.failed => UNCHANGED <<damaged, reinstalled>>
      /\ c.failed /\ p \in Volume => p \in damaged' /\ p \in reinstalled'
  BY <1>1, <1>2, InstallerAssumption DEF Damage, InstallInv, FilesTyped
<1>4. ASSUME p \in mounted
      PROVE  /\ f \in Folder /\ p \in Volume
             /\ f.extra = disk[p].extra
             /\ disk[p].nested \subseteq f.nested /\ disk[p].bak \subseteq f.bak
             /\ ~c.failed => disk[p].extra \subseteq f.nested \cup f.bak
  <2>1. /\ d = disk[p] /\ d \in Folder /\ p \in Volume
        /\ d.extra \subseteq Entry /\ d.bak \subseteq Entry /\ d.nested \subseteq Entry
    BY <1>4, MountedFolders DEF InstallInv
  <2>2. c.files \subseteq d.extra /\ (~c.failed => c.files = d.extra)
    BY CopiedFiles
  <2>3. d.nested \cup c.files \in SUBSET Entry /\ d.bak \cup c.files \in SUBSET Entry
    BY <2>1, <2>2
  <2>4. CASE "." \in d.bak
    <3>1. f = [d EXCEPT !.nested = d.nested \cup c.files]
      BY <2>4
    <3>2. f \in Folder /\ f.extra = d.extra /\ f.bak = d.bak /\ f.nested = d.nested \cup c.files
      BY <2>1, <2>3, <3>1 DEF Folder
    <3> QED  BY <2>1, <2>2, <3>2
  <2>5. CASE "." \notin d.bak
    <3>1. f = [d EXCEPT !.bak = d.bak \cup c.files]
      BY <2>5
    <3>2. f \in Folder /\ f.extra = d.extra /\ f.nested = d.nested /\ f.bak = d.bak \cup c.files
      BY <2>1, <2>3, <3>1 DEF Folder
    <3> QED  BY <2>1, <2>2, <3>2
  <2> QED  BY <2>4, <2>5
<1> HIDE DEF f, d
<1>5. ASSUME VolumeInv(p), p \in mounted, p = chosen, chosen' = p,
             thread.pc = "booterBackup", thread'.pc = "booterDelete", disk'[p] = f
      PROVE  VolumeInv(p)'
  <2>1. ~AtWork(p) /\ ~AtWork(p)' /\ p \in booter'
    BY <1>2, <1>5 DEF AtWork, Unfinished
  <2>2. CASE c.failed
    BY <1>2, <1>3, <1>4, <1>5, <2>1, <2>2 DEF VolumeInv
  <2>3. CASE ~c.failed
    BY <1>2, <1>3, <1>4, <1>5, <2>1, <2>3 DEF VolumeInv
  <2> QED  BY <2>2, <2>3
<1> QED  BY <1>2, <1>3, <1>4, <1>5, Command

LEMMA BooterDeleteKeeps == InstallInv /\ booterDelete => InstallInv'
<1> SUFFICES ASSUME InstallInv, booterDelete PROVE InstallInv'
  OBVIOUS
<1>0. PICK p : p = thread.drive
  OBVIOUS
<1> DEFINE f == [Folders(p) EXCEPT !.extra = {}]
<1>1. Goto("booterDelete", "booterMakeDir") /\ On(p, f) /\ UNCHANGED Books
  BY <1>0 DEF booterDelete, threadUnchanged, Books
<1>2. ASSUME p \in mounted
      PROVE  /\ f \in Folder
             /\ f.extra = {} /\ f.bak = disk[p].bak /\ f.nested = disk[p].nested
  <2>1. Folders(p) = disk[p] /\ disk[p] \in Folder /\ {} \in SUBSET Entry
    BY <1>2, MountedFolders DEF InstallInv
  <2> QED  BY <2>1 DEF Folder
<1> HIDE DEF f
<1>3. ASSUME VolumeInv(p), p \in mounted, p = chosen, chosen' = p,
             thread.pc = "booterDelete", thread'.pc = "booterMakeDir", disk'[p] = f
      PROVE  VolumeInv(p)'
  <2>1. ~AtWork(p) /\ AtWork(p)'
    BY <1>3 DEF AtWork, Unfinished
  <2> QED  BY <1>1, <1>2, <1>3, <2>1 DEF VolumeInv, Books
<1> QED  BY <1>1, <1>2, <1>3, PlainCommand

LEMMA BooterMakeDirKeeps == InstallInv /\ booterMakeDir => InstallInv'
<1> SUFFICES ASSUME InstallInv, booterMakeDir PROVE InstallInv'
  OBVIOUS
<1>0. PICK p : p = thread.drive
  OBVIOUS
<1> DEFINE f == [Folders(p) EXCEPT !.extra = {"."}]
<1>1. Goto("booterMakeDir", "booterRestore") /\ On(p, f) /\ UNCHANGED Books
  BY <1>0 DEF booterMakeDir, threadUnchanged, Books
<1>2. ASSUME p \in mounted
      PROVE  /\ f \in Folder
             /\ f.extra = {"."} /\ f.bak = disk[p].bak /\ f.nested = disk[p].nested
  <2>1. Folders(p) = disk[p] /\ disk[p] \in Folder /\ {"."} \in SUBSET Entry
    BY <1>2, MountedFolders DEF InstallInv, Entry
  <2> QED  BY <2>1 DEF Folder
<1> HIDE DEF f
<1>3. ASSUME VolumeInv(p), p \in mounted, p = chosen, chosen' = p,
             thread.pc = "booterMakeDir", thread'.pc = "booterRestore", disk'[p] = f
      PROVE  VolumeInv(p)'
  <2>1. AtWork(p) /\ AtWork(p)'
    BY <1>3 DEF AtWork, Unfinished
  <2> QED  BY <1>1, <1>2, <1>3, <2>1 DEF VolumeInv, Books
<1> QED  BY <1>1, <1>2, <1>3, PlainCommand

\* booterRestore brings back the extensions that are in the backup.
LEMMA BooterRestoreKeeps == InstallInv /\ booterRestore => InstallInv'
<1> SUFFICES ASSUME InstallInv, booterRestore PROVE InstallInv'
  OBVIOUS
<1>0. PICK p : p = thread.drive
  OBVIOUS
<1>1. PICK c \in Copied(Folders(p).bak \cap Kexts) :
        On(p, [Folders(p) EXCEPT !.extra = @ \cup c.files]) /\ Damage(p, c.failed)
  BY <1>0 DEF booterRestore
<1> DEFINE f == [Folders(p) EXCEPT !.extra = Folders(p).extra \cup c.files]
<1>2. /\ Goto("booterRestore", "booterFiles") /\ On(p, f)
      /\ UNCHANGED <<mounted, own, chosen, reinstalled, booter, installing, installButton, message>>
  BY <1>1 DEF booterRestore, threadUnchanged
<1>3. /\ damaged \subseteq damaged' /\ damaged' \subseteq damaged \cup {p}
      /\ own' \in [Volume -> SUBSET (Kexts \cup {"DSDT"})]
      /\ reinstalled' \cap Volume \subseteq damaged'
      /\ ~c.failed => damaged' = damaged
      /\ c.failed /\ p \in Volume => p \in damaged'
  BY <1>1, <1>2, InstallerAssumption DEF Damage, InstallInv, FilesTyped
<1>4. ASSUME p \in mounted
      PROVE  /\ f \in Folder /\ p \in Volume
             /\ f.extra = disk[p].extra \cup c.files
             /\ f.bak = disk[p].bak /\ f.nested = disk[p].nested
             /\ ~c.failed => c.files = disk[p].bak \cap Kexts
  <2>1. /\ c.files \subseteq Folders(p).bak \cap Kexts
        /\ ~c.failed => c.files = Folders(p).bak \cap Kexts
    BY CopiedFiles
  <2>2. /\ Folders(p) = disk[p] /\ disk[p] \in Folder /\ p \in Volume
        /\ disk[p].extra \cup c.files \in SUBSET Entry
    BY <1>4, <2>1, MountedFolders DEF InstallInv
  <2>3. f \in Folder /\ f.extra = disk[p].extra \cup c.files
        /\ f.bak = disk[p].bak /\ f.nested = disk[p].nested
    BY <2>2 DEF Folder
  <2> QED  BY <2>1, <2>2, <2>3
<1> HIDE DEF f
<1>5. ASSUME VolumeInv(p), p \in mounted, p = chosen, chosen' = p,
             thread.pc = "booterRestore", thread'.pc = "booterFiles", disk'[p] = f
      PROVE  VolumeInv(p)'
  <2>1. /\ AtWork(p) /\ ~AtWork(p)' /\ p \in Volume
        /\ p \in reinstalled => p \in damaged
    BY <1>4, <1>5 DEF AtWork, Unfinished, InstallInv, FilesTyped
  <2>2. CASE c.failed
    BY <1>2, <1>3, <1>4, <1>5, <2>1, <2>2 DEF VolumeInv
  <2>3. CASE ~c.failed
    BY <1>2, <1>3, <1>4, <1>5, <2>1, <2>3 DEF VolumeInv
  <2> QED  BY <2>2, <2>3
<1> QED  BY <1>2, <1>3, <1>4, <1>5, Command

LEMMA BooterFilesKeeps == InstallInv /\ booterFiles => InstallInv'
<1> SUFFICES ASSUME InstallInv, booterFiles PROVE InstallInv'
  OBVIOUS
<1>0. PICK p : p = thread.drive
  OBVIOUS
<1> DEFINE f == [Folders(p) EXCEPT !.extra = Folders(p).extra \cup {"mkext", "extensions"}]
<1>1. Goto("booterFiles", "finish") /\ On(p, f) /\ UNCHANGED Books
  BY <1>0 DEF booterFiles, threadUnchanged, Books
<1>2. ASSUME p \in mounted
      PROVE  /\ f \in Folder /\ f.bak = disk[p].bak /\ f.nested = disk[p].nested
             /\ disk[p].extra \subseteq f.extra \cup {"mkext"}
  <2>1. /\ Folders(p) = disk[p] /\ disk[p] \in Folder
        /\ disk[p].extra \cup {"mkext", "extensions"} \in SUBSET Entry
    BY <1>2, MountedFolders DEF InstallInv, Entry
  <2> QED  BY <2>1 DEF Folder
<1> HIDE DEF f
<1> QED  BY <1>1, <1>2, AddedLater DEF Neutral

-----------------------------------------------------------------------------
(* The main thread, the user and crashes.                                  *)

\* Steps that touch no file of a volume.
LEMMA WindowStepKeeps ==
  ASSUME InstallInv,
         \/ initializeApplication \/ volumeChanged \/ mountChange \/ performInstall
         \/ installFinished \/ installFailed \/ applicationShouldTerminate \/ getAuthRef
         \/ pathMissing \/ finishInstall \/ findTarget \/ booterAuth \/ changeMounts
         \/ UNCHANGED vars
  PROVE  InstallInv'
<1>1. FilesTyped /\ Busy
  BY DEF InstallInv
<1>2. CASE UNCHANGED <<thread, chosen>>
  <2>1. UNCHANGED <<disk, own, damaged, reinstalled, booter, misled>>
    BY DEF initializeApplication, volumeChanged, mountChange, performInstall, installFinished,
           installFailed, applicationShouldTerminate, getAuthRef, pathMissing, finishInstall,
           findTarget, booterAuth, changeMounts, vars, historyVars
  <2>2. mounted' \subseteq Volume
    BY <1>1 DEF initializeApplication, volumeChanged, mountChange, performInstall, installFinished,
           installFailed, applicationShouldTerminate, getAuthRef, pathMissing, finishInstall,
           findTarget, booterAuth, changeMounts, vars, FilesTyped
  <2>3. Busy'
    BY <1>1, <1>2 DEF initializeApplication, volumeChanged, mountChange, performInstall,
           installFinished, installFailed, applicationShouldTerminate, getAuthRef, pathMissing,
           finishInstall, findTarget, booterAuth, changeMounts, vars, windowVars, terminate, Busy, Idle
  <2>4. \A v : VolumeInv(v)' <=> VolumeInv(v)
    BY <2>1, <1>2 DEF VolumeInv, AtWork
  <2> QED  BY <2>1, <2>2, <2>3, <2>4 DEF InstallInv, FilesTyped
<1>3. CASE ~UNCHANGED <<thread, chosen>>
  <2>1. /\ UNCHANGED <<mounted, disk, own, damaged, reinstalled, booter, misled>>
        /\ thread.pc \notin Unfinished /\ thread'.pc \in Neutral
        /\ Busy'
    <3>1. CASE performInstall
      <4>1. thread.pc = "idle"
        BY <1>1, <3>1 DEF performInstall, Busy
      <4>2. thread' \in {[pc |-> i, drive |-> None] : i \in {"idle", "target", "auth"}}
        BY <3>1 DEF performInstall, Idle
      <4> QED  BY <4>1, <4>2, <3>1 DEF performInstall, Busy, Unfinished, Neutral
    <3>2. CASE applicationShouldTerminate \/ pathMissing
      <4>1. thread.pc \notin Unfinished
        BY <1>1, <3>2 DEF applicationShouldTerminate, pathMissing, Busy, Unfinished
      <4> QED  BY <4>1, <3>2 DEF applicationShouldTerminate, pathMissing, terminate, historyVars,
                                 Idle, Busy, Neutral
    <3>3. CASE getAuthRef \/ booterAuth
      <4>1. thread.pc \in {"auth", "booterAuth"} /\ thread = [pc |-> thread.pc, drive |-> thread.drive]
        BY <1>1, <3>3 DEF getAuthRef, booterAuth, Busy
      <4>2. \/ thread' = Idle
            \/ /\ thread' \in {[pc |-> i, drive |-> thread.drive] : i \in {"purge", "booterBackup"}}
               /\ UNCHANGED <<installing, installButton, message>>
        BY <4>1, <3>3 DEF getAuthRef, booterAuth
      <4> QED  BY <4>1, <4>2, <3>3, <1>1
               DEF getAuthRef, booterAuth, historyVars, Busy, Unfinished, Neutral, Idle
    <3>4. CASE finishInstall
      BY <3>4 DEF finishInstall, historyVars, Idle, Busy, Unfinished, Neutral
    <3>5. CASE findTarget
      <4>1. /\ thread.pc = "target" /\ installing /\ ~installButton /\ message = "none"
            /\ UNCHANGED <<mounted, disk, own, damaged, reinstalled, booter, misled>>
        BY <3>5, <1>1 DEF findTarget, Busy, historyVars
      <4>2. CASE InRange(selected, installableVolumes)
        <5>1. /\ thread' = [pc |-> "booterAuth", drive |-> installableVolumes[selected]]
              /\ UNCHANGED <<installing, installButton, message>>
          BY <3>5, <4>2 DEF findTarget
        <5>2. thread'.pc = "booterAuth" /\ thread' = [pc |-> thread'.pc, drive |-> thread'.drive]
          BY <5>1
        <5> QED  BY <4>1, <5>1, <5>2 DEF Busy, Unfinished, Neutral
      <4>3. CASE ~InRange(selected, installableVolumes)
        <5>1. thread' = Idle
          BY <3>5, <4>3 DEF findTarget, terminate
        <5> QED  BY <4>1, <5>1 DEF Idle, Busy, Unfinished, Neutral
      <4> QED  BY <4>2, <4>3
    <3>6. UNCHANGED <<thread, chosen>> \/ performInstall \/ applicationShouldTerminate \/ pathMissing
          \/ getAuthRef \/ booterAuth \/ finishInstall \/ findTarget
      BY DEF initializeApplication, volumeChanged, mountChange, installFinished, installFailed,
             changeMounts, vars, historyVars
    <3> QED  BY <1>3, <3>1, <3>2, <3>3, <3>4, <3>5, <3>6
  <2>2. FilesTyped'
    BY <1>1, <2>1 DEF FilesTyped
  <2> QED  BY <2>1, <2>2, NeutralStep
<1> QED  BY <1>2, <1>3

\* The user changes his extensions where nothing was left unfinished.
LEMMA EditKeeps == InstallInv /\ editExtensions => InstallInv'
<1> SUFFICES ASSUME InstallInv, editExtensions PROVE InstallInv'
  OBVIOUS
<1>1. PICK v \in mounted \ damaged, k \in SUBSET Kexts :
        /\ disk' = [disk EXCEPT ![v].extra = (@ \ Kexts) \cup k]
        /\ own' = [own EXCEPT ![v] = (@ \ Kexts) \cup k]
  BY DEF editExtensions
<1>2. /\ UNCHANGED <<mounted, installing, installButton, message, thread, chosen, misled, damaged,
                     reinstalled, booter>>
      /\ thread.pc = "idle"
  BY DEF editExtensions, windowVars, InstallInv, Busy
<1>3. v \in Volume /\ disk \in [Volume -> Folder]
      /\ own \in [Volume -> SUBSET (Kexts \cup {"DSDT"})]
  BY DEF InstallInv, FilesTyped
<1> DEFINE e == (disk[v].extra \ Kexts) \cup k
           f == [disk[v] EXCEPT !.extra = e]
<1>4. disk[v] \in Folder /\ e \in SUBSET Entry
  BY <1>3 DEF Folder, Entry
<1>5. f \in Folder /\ f.extra = e /\ f.bak = disk[v].bak /\ f.nested = disk[v].nested
  BY <1>4 DEF Folder
<1>6. disk' = [disk EXCEPT ![v] = f]
  BY <1>1
<1> HIDE DEF f
<1>7. FilesTyped' /\ Busy'
  <2>1. disk' \in [Volume -> Folder]
    BY <1>3, <1>5, <1>6
  <2>2. own' \in [Volume -> SUBSET (Kexts \cup {"DSDT"})]
    BY <1>1, <1>3
  <2> QED  BY <2>1, <2>2, <1>2 DEF InstallInv, FilesTyped, Busy
<1>8. ASSUME ~misled, NEW w \in Volume PROVE VolumeInv(w)'
  <2>1. VolumeInv(w) /\ ~AtWork(w) /\ ~AtWork(w)'
    BY <1>2, <1>8 DEF InstallInv, AtWork, Unfinished
  <2>2. CASE w # v
    BY <2>1, <2>2, <1>1, <1>2, <1>3, <1>6 DEF VolumeInv
  <2>3. CASE w = v
    <3>1. disk'[v] = f /\ own'[v] = (own[v] \ Kexts) \cup k
      BY <1>1, <1>3, <1>6
    <3> QED  BY <2>1, <2>3, <3>1, <1>2, <1>5 DEF VolumeInv
  <2> QED  BY <2>2, <2>3
<1> QED  BY <1>2, <1>7, <1>8 DEF InstallInv

\* A crash between deleting Extra and restoring it leaves the volume damaged, with
\* its files in the backup.
LEMMA CrashKeeps == InstallInv /\ crash => InstallInv'
<1> SUFFICES ASSUME InstallInv, crash PROVE InstallInv'
  OBVIOUS
<1>1. /\ thread' = Idle /\ UNCHANGED <<mounted, disk, own, chosen, misled, reinstalled, booter>>
      /\ damaged' = IF thread.pc \in Unfinished THEN damaged \cup {chosen} ELSE damaged
  BY DEF crash, terminate
<1>2. FilesTyped' /\ Busy'
  BY <1>1 DEF InstallInv, FilesTyped, Busy, Idle
<1>3. ASSUME ~misled, NEW v \in Volume PROVE VolumeInv(v)'
  <2>1. VolumeInv(v) /\ ~AtWork(v)' /\ (AtWork(v) => v \in damaged') /\ thread'.pc = "idle"
    BY <1>1, <1>3 DEF InstallInv, AtWork, Unfinished, Idle
  <2> QED  BY <1>1, <2>1 DEF VolumeInv
<1> QED  BY <1>1, <1>2, <1>3 DEF InstallInv

\* Every step keeps the invariant.
LEMMA StepKeepsFiles == InstallInv /\ [Next]_vars => InstallInv'
<1> SUFFICES ASSUME InstallInv, [Next]_vars PROVE InstallInv'
  OBVIOUS
<1>1. CASE removePrevExtra
  BY <1>1, PurgeKeeps, BackupKeeps, DeleteKeeps, MakeDirKeeps, RestoreKeeps, RestoreKextsKeeps
  DEF removePrevExtra
<1>2. CASE performThreadedInstall
  BY <1>1, <1>2, DSDTKeeps, ExtensionsKeeps, UncacheKeeps, CacheKeeps, WindowStepKeeps
  DEF performThreadedInstall
<1>3. CASE installBootdisk
  BY <1>3, BooterBackupKeeps, BooterDeleteKeeps, BooterMakeDirKeeps, BooterRestoreKeeps,
     BooterFilesKeeps, WindowStepKeeps DEF installBootdisk
<1>4. CASE Main \/ User
  BY <1>4, EditKeeps, WindowStepKeeps DEF Main, User
<1>5. CASE UNCHANGED vars
  BY <1>5, WindowStepKeeps
<1> QED  BY <1>2, <1>3, <1>4, <1>5, CrashKeeps DEF Next

-----------------------------------------------------------------------------
(* Theorems.                                                               *)

\* The inductive invariant holds at every moment.
THEOREM InstallInvHolds == Spec => []InstallInv
<1>1. Init => InstallInv
  <2> SUFFICES ASSUME Init PROVE InstallInv
    OBVIOUS
  <2>1. own \in [Volume -> SUBSET (Kexts \cup {"DSDT"})] /\ own \in [Volume -> {{}, Kexts}]
    BY DEF Init
  <2>2. /\ disk \in [Volume -> Folder]
        /\ \A v \in Volume : own[v] \subseteq disk[v].extra
    BY <2>1 DEF Init, Folder, Entry
  <2>3. FilesTyped /\ Busy /\ thread.pc = "idle"
    BY <2>1, <2>2 DEF Init, FilesTyped, Busy, Idle
  <2>4. ASSUME NEW v \in Volume PROVE VolumeInv(v)
    BY <2>2, <2>3 DEF VolumeInv, AtWork, Unfinished
  <2> QED  BY <2>3, <2>4 DEF InstallInv
<1>2. InstallInv /\ [Next]_vars => InstallInv'
  BY StepKeepsFiles
<1> QED  BY <1>1, <1>2, PTL DEF Spec

\* No file the user relies on is lost at any moment of an installation, whatever
\* command of removePrevExtra or installBootdisk fails and wherever it is killed.
THEOREM NoFileLost == Spec => []NothingLost
<1>1. InstallInv => NothingLost
  BY DEF InstallInv, VolumeInv, NothingLost
<1> QED  BY <1>1, InstallInvHolds, PTL

\* When no installation is under way, the files are back in Extra on every volume
\* that was updated without a failure.
THEOREM FilesCarriedOver == Spec => []CarriedOver
<1>1. InstallInv => CarriedOver
  <2> SUFFICES ASSUME InstallInv, ~misled, thread = Idle, NEW v \in Volume \ (damaged \cup booter)
               PROVE  own[v] \subseteq disk[v].extra
    BY DEF CarriedOver
  <2>1. VolumeInv(v) /\ ~AtWork(v)
    BY DEF InstallInv, AtWork, Unfinished, Idle
  <2> QED  BY <2>1 DEF VolumeInv
<1> QED  BY <1>1, InstallInvHolds, PTL

=============================================================================
