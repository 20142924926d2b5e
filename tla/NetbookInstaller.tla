-------------------------- MODULE NetbookInstaller --------------------------
(***************************************************************************)
(* The installer application: the main thread with the volume menu and the *)
(* install button, the thread that installs, and the folders Extra and     *)
(* Extra.bak of every volume.                                              *)
(*                                                                         *)
(* Every file command of the installation is a step of its own: volumes    *)
(* come and go between the commands, and the application may be killed.    *)
(* The path of the target is looked up again by every command.  Copies may *)
(* fail halfway; deleting and making a folder, and the installer's own     *)
(* files, are taken to succeed.  A folder is the set of its entries; "."   *)
(* tells that it exists.                                                   *)
(***************************************************************************)
EXTENDS Integers, Sequences

CONSTANTS
  Listing,      \* the volumes, in the order in which /Volumes lists them
  DVDs,         \* the volumes that hold an installation DVD
  Kexts,        \* the user's additional extensions
  None,
  MaxMounts, MaxEdits, MaxInstalls,  \* bounds: changes by the user
  MaxFaults     \* bound: failing commands and crashes

Volume == {Listing[i] : i \in 1..Len(Listing)}

\* The user's extensions are in AdditionalExtensions, apart from what the installer writes.
ASSUME InstallerAssumption ==
  /\ Listing \in Seq(Volume) /\ DVDs \subseteq Volume /\ None \notin Volume
  /\ Kexts \cap {".", "DSDT", "mkext", "extensions"} = {}
  /\ {MaxMounts, MaxEdits, MaxInstalls, MaxFaults} \subseteq Nat

VARIABLES
  running,                   \* the application runs
  mounted, notice,           \* mounted volumes; a mount notification is waiting
  menu, selected,            \* items of the menu and the selected one, 0 if none is
  installPath,               \* of SystemInformation; also stands for bootPartition
  installing, installButton,
  thread,                    \* the installing thread: its next command, its target
  message,                   \* for the main thread: installFinished or installFailed
  disk,                      \* Extra, Extra.bak and Extra.bak/Extra of a volume
  \* what happened
  own,                       \* the files in Extra that the user relies on
  chosen,                    \* the volume shown when Install was pressed
  misled,                    \* a command did not work on that volume
  damaged,                   \* volumes an installation left without all its files,
  reinstalled,               \* and those it was repeated on
  booter,                    \* volumes made a booter
  mounts, edits, installs, faults

windowVars == <<menu, selected, installPath, installing, installButton, notice>>
historyVars == <<own, chosen, misled, damaged, reinstalled, booter>>
bounds == <<mounts, edits, installs, faults>>
vars == <<running, mounted, windowVars, thread, message, disk, historyVars, bounds>>

Entry == {".", "DSDT", "mkext", "extensions"} \cup Kexts
Idle == [pc |-> "idle", drive |-> None]
UpdateSteps == {"auth", "purge", "backup", "delete", "makeDir", "restore", "restoreKexts", "dsdt",
                "extensions", "uncache", "cache", "finish"}
BooterSteps == {"target", "booterAuth", "booterBackup", "booterDelete", "booterMakeDir",
                "booterRestore", "booterFiles", "finish"}

TypeOK ==
  /\ {running, notice, installing, installButton, misled} \subseteq BOOLEAN
  /\ mounted \subseteq Volume
  /\ menu \in Seq(Volume) /\ selected \in 0..Len(Listing)
  /\ {installPath, chosen} \subseteq Volume \cup {None}
  /\ thread \in [pc : {"idle"} \cup UpdateSteps \cup BooterSteps, drive : Volume \cup {None}]
  /\ message \in {"none", "finished", "failed"}
  /\ disk \in [Volume -> [extra : SUBSET Entry, bak : SUBSET Entry, nested : SUBSET Entry]]
  /\ own \in [Volume -> SUBSET Entry]
  /\ {damaged, reinstalled, booter} \subseteq SUBSET Volume

-----------------------------------------------------------------------------
(* The main thread                                                         *)

installableVolumes == SelectSeq(Listing, LAMBDA v : v \in mounted)
IndexOf(list, v) == CHOOSE i \in 1..Len(list) : list[i] = v
InRange(i, list) == i \in 1..Len(list)

\* A menu that is filled selects its first item; an unknown title selects none.
\* Only a single volume is looked up again.
Selection(list, current) ==
  IF current = None \/ Len(list) = 1 THEN IF list = <<>> THEN 0 ELSE 1
  ELSE IF \E i \in 1..Len(list) : list[i] = current THEN IndexOf(list, current) ELSE 0

updateVolumeMenu(current) ==
  /\ menu' = installableVolumes
  /\ selected' = Selection(installableVolumes, current)
  /\ installPath' = IF Len(installableVolumes) = 1 THEN installableVolumes[1] ELSE installPath

Init ==
  /\ running = TRUE
  /\ mounted \in SUBSET Volume
  /\ menu = installableVolumes /\ selected = Selection(menu, None)
  /\ installPath = IF Len(menu) = 1 THEN menu[1] ELSE None
  /\ installing = FALSE /\ installButton = TRUE /\ notice = FALSE
  /\ thread = Idle /\ message = "none"
  /\ own \in [Volume -> {{}, Kexts}]
  /\ disk = [v \in Volume |-> [extra |-> IF own[v] = {} THEN {} ELSE own[v] \cup {"."},
                              bak |-> {}, nested |-> {}]]
  /\ chosen = None /\ misled = FALSE
  /\ damaged = {} /\ reinstalled = {} /\ booter = {}
  /\ mounts = 0 /\ edits = 0 /\ installs = 0 /\ faults = 0

\* The application is started again.
initializeApplication ==
  /\ ~running /\ running' = TRUE
  /\ menu' = installableVolumes /\ selected' = Selection(installableVolumes, None)
  /\ installPath' = IF Len(installableVolumes) = 1 THEN installableVolumes[1] ELSE None
  /\ UNCHANGED <<mounted, installing, installButton, notice, thread, message, disk,
                 historyVars, bounds>>

\* The item's index is looked up in a new listing, which may be shorter.
volumeChanged ==
  /\ running /\ ~installing
  /\ \E i \in 1..Len(menu) :
       /\ selected' = i
       /\ installPath' = IF InRange(i, installableVolumes) THEN installableVolumes[i]
                         ELSE installPath
  /\ UNCHANGED <<running, mounted, menu, installing, installButton, notice, thread, message, disk,
                 historyVars, bounds>>

mountChange ==
  /\ running /\ notice /\ notice' = FALSE
  /\ updateVolumeMenu(IF selected = 0 THEN None ELSE menu[selected])
  /\ UNCHANGED <<running, mounted, installing, installButton, thread, message, disk, historyVars,
                 bounds>>

\* The thread is chosen by the volume at the selected index of a new listing.  An
\* index out of range raises an exception: no thread is started, and the window
\* stays as it is.
performInstall ==
  /\ running /\ installButton /\ selected # 0 /\ message = "none"
  /\ installs < MaxInstalls /\ installs' = installs + 1
  /\ installing' = TRUE /\ installButton' = FALSE
  /\ chosen' = menu[selected]
  /\ thread' = IF ~InRange(selected, installableVolumes) THEN Idle
               ELSE [Idle EXCEPT !.pc = IF installableVolumes[selected] \in DVDs THEN "target"
                                        ELSE "auth"]
  /\ UNCHANGED <<running, mounted, menu, selected, installPath, notice, message, disk, own, misled,
                 damaged, reinstalled, booter, mounts, edits, faults>>

installFinished ==
  /\ running /\ message = "finished"
  /\ message' = "none" /\ installing' = FALSE /\ installButton' = TRUE
  /\ UNCHANGED <<running, mounted, menu, selected, installPath, notice, thread, disk, historyVars,
                 bounds>>

\* Deviation: a refused authorization leaves the application busy.
installFailed_keepsFlag ==
  /\ running /\ message = "failed"
  /\ message' = "none" /\ installButton' = TRUE
  /\ UNCHANGED <<running, mounted, menu, selected, installPath, installing, notice, thread, disk,
                 historyVars, bounds>>
installFailed ==
  /\ running /\ message = "failed"
  /\ message' = "none" /\ installing' = FALSE /\ installButton' = TRUE
  /\ UNCHANGED <<running, mounted, menu, selected, installPath, notice, thread, disk, historyVars,
                 bounds>>

\* The process ends, and with it what it knew.
terminate ==
  /\ running' = FALSE
  /\ menu' = <<>> /\ selected' = 0 /\ installPath' = None
  /\ installing' = FALSE /\ installButton' = TRUE /\ notice' = FALSE
  /\ thread' = Idle /\ message' = "none"

\* The user quits: not while an installation is under way.
applicationShouldTerminate ==
  /\ running /\ ~installing
  /\ terminate
  /\ UNCHANGED <<mounted, disk, historyVars, bounds>>

-----------------------------------------------------------------------------
(* Commands of the installing thread                                       *)

Goto(pc, next) == running /\ thread.pc = pc /\ thread' = [thread EXCEPT !.pc = next]

\* A command on a path below volume v: on no volume when v is not mounted.
On(v, folders) ==
  /\ disk' = IF v \in mounted THEN [disk EXCEPT ![v] = folders] ELSE disk
  /\ misled' = (misled \/ v # chosen \/ v \notin mounted)
Folders(v) == IF v = None THEN [extra |-> {}, bak |-> {}, nested |-> {}] ELSE disk[v]

\* A copy fails halfway, which nobody looks at.
Copied(files) ==
  {[files |-> files, failed |-> FALSE]} \cup
    {[files |-> s, failed |-> TRUE] : s \in IF faults = MaxFaults THEN {} ELSE SUBSET files \ {files}}
CountFault(failed) == faults' = IF failed THEN faults + 1 ELSE faults
Damage(v, failed) == damaged' = IF failed /\ v # None THEN damaged \cup {v} ELSE damaged

threadUnchanged == <<running, mounted, menu, selected, installPath, installing, installButton,
                     message, own, chosen, mounts, edits, installs>>

\* getAuthRef: the user may refuse.  The image of the boot loader is mounted
\* for the files in it, and so is the RAM disk.
getAuthRef ==
  /\ running /\ thread.pc = "auth"
  /\ \/ thread' = Idle /\ message' = "failed" /\ UNCHANGED notice
     \/ thread' = [thread EXCEPT !.pc = "purge"] /\ notice' = TRUE /\ UNCHANGED message
  /\ UNCHANGED <<running, mounted, menu, selected, installPath, installing, installButton, disk,
                 historyVars, bounds>>

\* Without a boot partition the arguments of a command cannot be put together: an
\* exception ends the application (remountTargetWithPermissions, installBootdisk).
pathMissing ==
  /\ running /\ installPath = None /\ thread.pc \in {"purge", "booterBackup"}
  /\ terminate
  /\ UNCHANGED <<mounted, disk, historyVars, bounds>>

\* removePrevExtra, command by command.  Without Extra there is nothing to back up.
deletePreviousExtensions ==
  LET d == Folders(installPath) IN
  /\ installPath # None
  /\ IF "." \in d.extra /\ installPath \in mounted
     THEN Goto("purge", "backup") /\ On(installPath, [d EXCEPT !.bak = (@ \ Kexts) \cup {"."}])
     ELSE Goto("purge", "makeDir") /\ On(installPath, d)
  /\ reinstalled' = reinstalled \cup ({installPath} \cap damaged)
  /\ UNCHANGED <<threadUnchanged, notice, damaged, booter, faults>>

backupFiles(files) ==
  LET d == Folders(installPath) IN
  /\ Goto("backup", "delete")
  /\ \E c \in Copied(d.extra \cap files) :
       /\ On(installPath, [d EXCEPT !.bak = @ \cup c.files])
       /\ CountFault(c.failed) /\ Damage(installPath, c.failed)
       /\ reinstalled' = reinstalled \cup IF c.failed THEN Volume \cap {installPath} ELSE {}
  /\ UNCHANGED <<threadUnchanged, notice, booter>>
\* Deviation: the copy is not recursive and leaves folders out.
backupExtra_plainFiles == backupFiles(Entry \ Kexts)
backupExtra == backupFiles(Entry)

deleteExtra ==
  /\ Goto("delete", "makeDir")
  /\ On(installPath, [Folders(installPath) EXCEPT !.extra = {}])
  /\ UNCHANGED <<threadUnchanged, notice, damaged, reinstalled, booter, faults>>

makeDirExtra ==
  /\ Goto("makeDir", "restore")
  /\ On(installPath, [Folders(installPath) EXCEPT !.extra = @ \cup {"."}])
  /\ UNCHANGED <<threadUnchanged, notice, damaged, reinstalled, booter, faults>>

\* DSDT.aml and Extensions.mkext, then AdditionalExtensions.
restoreFiles(pc, next, files) ==
  LET d == Folders(installPath) IN
  /\ Goto(pc, next)
  /\ \E c \in Copied(d.bak \cap files) :
       /\ On(installPath, [d EXCEPT !.extra = @ \cup c.files])
       /\ CountFault(c.failed) /\ Damage(installPath, c.failed)
  /\ UNCHANGED <<threadUnchanged, notice, reinstalled, booter>>
restoreExtra == restoreFiles("restore", "restoreKexts", {"DSDT", "mkext"})
\* Deviation: the folder of the image is taken for the one of the backup.
restoreAdditionalExtensions_empty == restoreFiles("restoreKexts", "dsdt", {})
restoreAdditionalExtensions == restoreFiles("restoreKexts", "dsdt", Kexts)

\* Without the patcher's result there is nothing to copy, and the old file stays.
installDSDT ==
  LET d == Folders(installPath) IN
  /\ running /\ thread.pc = "dsdt" /\ thread' = [thread EXCEPT !.pc = "extensions"]
  /\ \E made \in {{}, {"DSDT"}} :
       /\ On(installPath, [d EXCEPT !.extra = @ \cup made])
       /\ own' = IF installPath \in mounted THEN [own EXCEPT ![installPath] = @ \cup made] ELSE own
  /\ UNCHANGED <<running, mounted, windowVars, message, chosen, damaged, reinstalled, booter,
                 bounds>>

installExtensions ==
  /\ Goto("extensions", "uncache")
  /\ On(installPath, [Folders(installPath) EXCEPT !.extra = @ \cup {"extensions"}])
  /\ UNCHANGED <<threadUnchanged, notice, damaged, reinstalled, booter, faults>>

\* generateExtensionsCache removes the old cache, then builds the new one.
deleteExtensionsCache ==
  /\ Goto("uncache", "cache")
  /\ On(installPath, [Folders(installPath) EXCEPT !.extra = @ \ {"mkext"}])
  /\ UNCHANGED <<threadUnchanged, notice, damaged, reinstalled, booter, faults>>

buildExtensionsCache ==
  LET d == Folders(installPath) IN
  /\ Goto("cache", "finish")
  /\ \E c \in Copied({"mkext"}) :
       On(installPath, [d EXCEPT !.extra = @ \cup c.files]) /\ CountFault(c.failed)
  /\ UNCHANGED <<threadUnchanged, notice, damaged, reinstalled, booter>>

\* The boot loader and settings are written, the images unmounted.
finishInstall ==
  /\ running /\ thread.pc = "finish"
  /\ thread' = Idle /\ message' = "finished" /\ notice' = TRUE
  /\ UNCHANGED <<running, mounted, menu, selected, installPath, installing, installButton, disk,
                 historyVars, bounds>>

-----------------------------------------------------------------------------
(* A booter: performThreadedBootdiskCreation and installBootdisk            *)

\* The target is looked up once more; if it is gone an exception ends the application.
findTarget ==
  /\ running /\ thread.pc = "target"
  /\ IF InRange(selected, installableVolumes)
     THEN /\ thread' = [pc |-> "booterAuth", drive |-> installableVolumes[selected]]
          /\ UNCHANGED <<running, menu, selected, installPath, installing, installButton, notice,
                         message>>
     ELSE terminate
  /\ UNCHANGED <<mounted, disk, historyVars, bounds>>

booterAuth ==
  /\ running /\ thread.pc = "booterAuth"
  /\ \/ thread' = Idle /\ message' = "failed" /\ UNCHANGED notice
     \/ thread' = [thread EXCEPT !.pc = "booterBackup"] /\ notice' = TRUE /\ UNCHANGED message
  /\ UNCHANGED <<running, mounted, menu, selected, installPath, installing, installButton, disk,
                 historyVars, bounds>>

\* Extra is copied INTO an Extra.bak that exists.
booterBackup ==
  LET d == Folders(thread.drive) IN
  /\ installPath # None
  /\ Goto("booterBackup", "booterDelete")
  /\ \E c \in Copied(d.extra) :
       /\ On(thread.drive, IF "." \in d.bak THEN [d EXCEPT !.nested = @ \cup c.files]
                           ELSE [d EXCEPT !.bak = @ \cup c.files])
       /\ CountFault(c.failed) /\ Damage(thread.drive, c.failed)
       /\ reinstalled' = IF c.failed THEN reinstalled \cup {thread.drive} ELSE reinstalled
  /\ booter' = booter \cup {thread.drive}
  /\ UNCHANGED <<threadUnchanged, notice>>

booterDelete ==
  /\ Goto("booterDelete", "booterMakeDir")
  /\ On(thread.drive, [Folders(thread.drive) EXCEPT !.extra = {}])
  /\ UNCHANGED <<threadUnchanged, notice, damaged, reinstalled, booter, faults>>

booterMakeDir ==
  /\ Goto("booterMakeDir", "booterRestore")
  /\ On(thread.drive, [Folders(thread.drive) EXCEPT !.extra = {"."}])
  /\ UNCHANGED <<threadUnchanged, notice, damaged, reinstalled, booter, faults>>

booterRestore ==
  LET d == Folders(thread.drive) IN
  /\ Goto("booterRestore", "booterFiles")
  /\ \E c \in Copied(d.bak \cap Kexts) :
       /\ On(thread.drive, [d EXCEPT !.extra = @ \cup c.files])
       /\ CountFault(c.failed) /\ Damage(thread.drive, c.failed)
  /\ UNCHANGED <<threadUnchanged, notice, reinstalled, booter>>

booterFiles ==
  /\ Goto("booterFiles", "finish")
  /\ On(thread.drive, [Folders(thread.drive) EXCEPT !.extra = @ \cup {"mkext", "extensions"}])
  /\ UNCHANGED <<threadUnchanged, notice, damaged, reinstalled, booter, faults>>

-----------------------------------------------------------------------------
(* The user and the machine                                                *)

changeMounts ==
  /\ mounts < MaxMounts /\ mounts' = mounts + 1
  /\ \E v \in Volume : mounted' = (mounted \ {v}) \cup ({v} \ mounted)
  /\ notice' = running
  /\ UNCHANGED <<running, menu, selected, installPath, installing, installButton, thread, message,
                 disk, historyVars, edits, installs, faults>>

\* The user changes the extensions in Extra.
editExtensions ==
  /\ edits < MaxEdits /\ edits' = edits + 1
  /\ ~installing
  /\ \E v \in mounted \ damaged, k \in SUBSET Kexts :
       /\ "." \in disk[v].extra
       /\ disk' = [disk EXCEPT ![v].extra = (@ \ Kexts) \cup k]
       /\ own' = [own EXCEPT ![v] = (@ \ Kexts) \cup k]
  /\ UNCHANGED <<running, mounted, windowVars, thread, message, chosen, misled, damaged,
                 reinstalled, booter, mounts, installs, faults>>

\* The application is killed or the power fails.
Unfinished == {"makeDir", "restore", "restoreKexts", "booterMakeDir", "booterRestore"}
crash ==
  /\ running /\ faults < MaxFaults /\ faults' = faults + 1
  /\ terminate
  /\ damaged' = IF thread.pc \in Unfinished THEN damaged \cup {chosen} ELSE damaged
  /\ UNCHANGED <<mounted, disk, own, chosen, misled, reinstalled, booter, mounts, edits, installs>>

removePrevExtra == deletePreviousExtensions \/ backupExtra \/ deleteExtra \/ makeDirExtra
                     \/ restoreExtra \/ restoreAdditionalExtensions
performThreadedInstall ==
  \/ getAuthRef \/ pathMissing \/ removePrevExtra \/ installDSDT \/ installExtensions
  \/ deleteExtensionsCache \/ buildExtensionsCache \/ finishInstall
installBootdisk == findTarget \/ booterAuth \/ booterBackup \/ booterDelete \/ booterMakeDir
                     \/ booterRestore \/ booterFiles
Main == mountChange \/ installFinished \/ installFailed
User == initializeApplication \/ volumeChanged \/ performInstall \/ applicationShouldTerminate
          \/ changeMounts \/ editExtensions

Next == performThreadedInstall \/ installBootdisk \/ Main \/ User \/ crash
Spec == Init /\ [][Next]_vars

\* Commands end and the main thread handles its messages.
Fairness ==
  WF_vars(performThreadedInstall \/ installBootdisk) /\ WF_vars(installFinished \/ installFailed)
FairSpec == Spec /\ Fairness

-----------------------------------------------------------------------------
(* Properties                                                              *)

\* A file the user relies on is in Extra or in one of its backups at every moment of
\* an installation, whatever command fails and wherever the application dies.
\* Exceptions: the backup itself failed, the installer was run again on a volume it
\* had left unfinished (it then deletes the backup it should restore from), or
\* volumes changed under a running installation.
NothingLost ==
  ~misled => \A v \in Volume \ reinstalled :
               own[v] \subseteq disk[v].extra \cup disk[v].bak \cup disk[v].nested

\* After an update the files are back in Extra itself, also when the DSDT patcher
\* produced nothing or building the cache failed.
CarriedOver ==
  ~misled /\ thread = Idle =>
    \A v \in Volume \ (damaged \cup booter) : own[v] \subseteq disk[v].extra

\* A started installation ends: the user gets the window back and can quit.
InstallEnds == thread # Idle ~> ~installing

\* "Preserve AdditionalExtensions, just in case" (installBootdisk).
PreservesExtensions ==
  ~misled /\ thread = Idle =>
    \A v \in Volume \ damaged : own[v] \cap Kexts \subseteq disk[v].extra

=============================================================================
