----------------------------- MODULE UpdateSwap -----------------------------
(***************************************************************************)
(* Applying an update (internal/service/updateapply_windows.go): the       *)
(* executable of the service is moved aside, the new one written in its    *)
(* place, and a helper started from the old one stops and starts the       *)
(* service and puts the old one back if the new one does not come up.  An  *)
(* apply is asked for by the panel or made by the update schedule, with no *)
(* lock between them; each starts a helper of its own.  Where the program  *)
(* was installed by the Windows Installer, the installer does it all.      *)
(*                                                                         *)
(* The file system is that of Windows: a running executable can be renamed *)
(* and cannot be removed or replaced, and a file that is being written     *)
(* cannot be renamed.  Any call may fail; MaxFaults bounds how many do.    *)
(* The machine may lose its power at any moment.                           *)
(***************************************************************************)
EXTENDS Integers

CONSTANTS
  Old, New,    \* the build that is installed and the one that is released
  Absent,      \* no file
  Torn,        \* a file that is not written to its end
  Appliers,    \* who applies: the schedule, the panel
  MaxFaults    \* bound: calls that fail for no reason of ours

Builds == {Old, New}
Paths  == {"exe", "old", "oldpid", "failed"}

ASSUME SwapAssumption ==
  /\ Old # New /\ Absent # Torn /\ {Old, New} \cap {Absent, Torn} = {}
  /\ MaxFaults \in Nat

VARIABLES
  sound,     \* the builds that come up as a service
  file,      \* what is at each path
  service,   \* the path the service process runs from, or none
  scm,       \* the state the service control manager reports
  runs,      \* the build of that process
  apply,     \* how far each apply in the service process is, with its backup's path
  helper,    \* how far each helper process is, with the path it runs from
  package,   \* the installer's package
  byMsi,     \* the Windows Installer installed the program
  faults,    \* how many calls have failed
  overlap,   \* history: two applies, or one and a helper, at a time
  severed,   \* history: the power failed or the service stopped in the middle of a swap or a roll back
  adrift     \* history: a helper left a process of the service to itself: it could not open the
             \* service, or moved the executable from under a process that had not stopped

swapVars ==
  <<sound, file, service, scm, runs, apply, helper, package, byMsi, faults, overlap, severed, adrift>>

Idle    == [at |-> "none", path |-> "exe"]
Applies == {"none", "fetched", "chosen", "moved", "writing", "written", "unspawned", "unmoved", "package", "install"}
Helps   == {"none", "connect", "stop", "start", "started", "query", "undo", "clear", "aside", "restore", "restart"}
States  == {"stopped", "startPending", "running", "stopPending"}

SwapTypeOK ==
  /\ sound \in {{Old}, Builds}
  /\ file \in [Paths -> Builds \cup {Absent, Torn}]
  /\ service \in Paths \cup {"none"} /\ runs \in Builds \cup {Absent}
  /\ (service = "none" <=> runs = Absent) /\ scm \in States /\ (service = "none" <=> scm = "stopped")
  /\ apply \in [Appliers -> [at : Applies, path : Paths]]
  /\ helper \in [Appliers -> [at : Helps, path : Paths]]
  /\ package \in {Absent, Torn, New}
  /\ byMsi \in BOOLEAN /\ overlap \in BOOLEAN /\ severed \in BOOLEAN /\ adrift \in BOOLEAN
  /\ faults \in 0..MaxFaults

SwapInit ==
  /\ sound \in {{Old}, Builds}
  /\ file \in [Paths -> {Absent, Old}] /\ file["exe"] = Old
  /\ file["oldpid"] = Absent /\ file["failed"] = Absent
  /\ service = "exe" /\ scm = "running" /\ runs = Old
  /\ apply = [a \in Appliers |-> Idle] /\ helper = [a \in Appliers |-> Idle]
  /\ package = Absent /\ byMsi \in BOOLEAN
  /\ faults = 0 /\ overlap = FALSE /\ severed = FALSE /\ adrift = FALSE

Busy == {<<"apply", a>> : a \in {b \in Appliers : apply[b] # Idle}}
          \cup {<<"helper", a>> : a \in {b \in Appliers : helper[b] # Idle}}

-----------------------------------------------------------------------------
(* The file system. *)

\* Paths some process runs from, and files being written.
InUse == {service} \cup {helper[a].path : a \in {b \in Appliers : helper[b] # Idle}}
BeingWritten  == IF \E a \in Appliers : apply[a].at = "writing" THEN {"exe"} ELSE {}

Removable(p) == file[p] # Absent /\ p \notin InUse \cup BeingWritten
Movable(p, q) == file[p] # Absent /\ p \notin BeingWritten /\ (file[q] = Absent \/ q \notin InUse \cup BeingWritten)

\* After a rename, a process that runs from the file runs from its new path.
MovedTo(x, p, q) == IF x = p THEN q ELSE x
RenameFile(p, q) ==
  /\ file' = [file EXCEPT ![q] = file[p], ![p] = Absent]
  /\ service' = MovedTo(service, p, q)

NoCallFails == faults' = faults
CallFails   == faults < MaxFaults /\ faults' = faults + 1

\* An apply is between the first rename and its end.
Swapping == \E a \in Appliers : apply[a].at \in {"moved", "writing", "written", "unspawned", "unmoved"}

\* The rest of what applies and helpers leave alone.
SwapKept == UNCHANGED <<sound, runs, scm, package, byMsi, severed>>
SwapRest == SwapKept /\ adrift' = adrift
ApplyTo(a, at, path) ==
  apply' = [apply EXCEPT ![a] = IF at = "none" THEN Idle ELSE [at |-> at, path |-> path]]

-----------------------------------------------------------------------------
(* applyUpdate. *)

\* The manifest and the download; a failure of either ends the apply.
FetchUpdate(a) ==
  /\ scm = "running" /\ apply[a] = Idle /\ runs # New
  /\ ApplyTo(a, IF byMsi THEN "package" ELSE "fetched", "exe")
  /\ overlap' = (overlap \/ Busy # {})
  /\ UNCHANGED <<file, service, helper, faults>> /\ SwapRest

\* freshBackupPath: a leftover that cannot be removed is left where it is.
ChooseBackup(a) ==
  /\ apply[a].at = "fetched"
  /\ \/ /\ file["old"] = Absent /\ NoCallFails
        /\ ApplyTo(a, "chosen", "old") /\ UNCHANGED file
     \/ /\ Removable("old") /\ NoCallFails
        /\ ApplyTo(a, "chosen", "old") /\ file' = [file EXCEPT !["old"] = Absent]
     \/ /\ file["old"] # Absent
        /\ IF Removable("old") THEN CallFails ELSE NoCallFails
        /\ ApplyTo(a, "chosen", "oldpid") /\ UNCHANGED file
  /\ UNCHANGED <<service, helper, overlap>> /\ SwapRest

\* renameWithRetry.
SetAside(a) ==
  /\ apply[a].at = "chosen"
  /\ LET p == apply[a].path IN
     \/ /\ Movable("exe", p) /\ NoCallFails
        /\ RenameFile("exe", p) /\ ApplyTo(a, "moved", p)
        /\ helper' = [b \in Appliers |-> [helper[b] EXCEPT !.path =
                        IF helper[b] = Idle THEN @ ELSE MovedTo(@, "exe", p)]]
     \/ /\ IF Movable("exe", p) THEN CallFails ELSE NoCallFails
        /\ ApplyTo(a, "none", p) /\ UNCHANGED <<file, service, helper>>
  /\ UNCHANGED overlap /\ SwapRest

\* A file that a process runs from is not opened for writing.
OpenExe(a) ==
  /\ apply[a].at = "moved"
  /\ \/ /\ "exe" \notin InUse /\ NoCallFails
        /\ file' = [file EXCEPT !["exe"] = Torn] /\ ApplyTo(a, "writing", apply[a].path)
     \/ /\ IF "exe" \in InUse THEN NoCallFails ELSE CallFails
        /\ UNCHANGED file /\ ApplyTo(a, "unmoved", apply[a].path)
  /\ UNCHANGED <<service, helper, overlap>> /\ SwapRest

\* The file is written, or the disk is full.
WriteExe(a) ==
  /\ apply[a].at = "writing"
  /\ \/ NoCallFails /\ file' = [file EXCEPT !["exe"] = New] /\ ApplyTo(a, "written", apply[a].path)
     \/ CallFails /\ UNCHANGED file /\ ApplyTo(a, "unmoved", apply[a].path)
  /\ UNCHANGED <<service, helper, overlap>> /\ SwapRest

SpawnUndone(a) ==  \* mutant: a helper that does not start is not looked at
  /\ apply[a].at = "written"
  /\ \/ NoCallFails /\ helper[a] = Idle /\ helper' = [helper EXCEPT ![a] = [at |-> "connect", path |-> apply[a].path]]
     \/ CallFails /\ UNCHANGED helper
  /\ ApplyTo(a, "none", apply[a].path)
  /\ UNCHANGED <<file, service, overlap>> /\ SwapRest

\* The helper is started from the backup.
Spawn(a) ==
  /\ apply[a].at = "written"
  /\ LET p == apply[a].path IN
     \/ /\ file[p] \in Builds /\ helper[a] = Idle /\ NoCallFails
        /\ helper' = [helper EXCEPT ![a] = [at |-> "connect", path |-> p]]
        /\ ApplyTo(a, "none", p)
     \/ /\ IF file[p] \in Builds THEN CallFails ELSE NoCallFails
        /\ ApplyTo(a, "unspawned", p) /\ UNCHANGED helper
  /\ UNCHANGED <<file, service, overlap>> /\ SwapRest

\* The swap is undone: the new executable is removed and the old one put back; what
\* fails here is not looked at.
RemoveNew(a) ==
  /\ apply[a].at = "unspawned"
  /\ \/ NoCallFails /\ file' = IF Removable("exe") THEN [file EXCEPT !["exe"] = Absent] ELSE file
     \/ Removable("exe") /\ CallFails /\ UNCHANGED file
  /\ ApplyTo(a, "unmoved", apply[a].path)
  /\ UNCHANGED <<service, helper, overlap>> /\ SwapRest

MoveBack(a) ==
  /\ apply[a].at = "unmoved"
  /\ LET p == apply[a].path IN
     \/ Movable(p, "exe") /\ NoCallFails /\ RenameFile(p, "exe")
     \/ ~Movable(p, "exe") /\ NoCallFails /\ UNCHANGED <<file, service>>
     \/ Movable(p, "exe") /\ CallFails /\ UNCHANGED <<file, service>>
  /\ ApplyTo(a, "none", apply[a].path)
  /\ UNCHANGED <<helper, overlap>> /\ SwapRest

-----------------------------------------------------------------------------
(* applyUpdateMSI: the package is written and handed to the installer. *)

WritePackage(a) ==
  /\ apply[a].at = "package"
  /\ \/ NoCallFails /\ package' = New /\ ApplyTo(a, "install", "exe")
     \/ CallFails /\ package' \in {Absent, Torn} /\ ApplyTo(a, "none", "exe")
  /\ UNCHANGED <<sound, file, service, scm, runs, helper, byMsi, overlap, severed, adrift>>

\* The installer stops the service, replaces its executable and starts it; if that
\* fails it puts everything back.
InstallPackage(a) ==
  /\ apply[a].at = "install" /\ service # "none"
  /\ \/ /\ package = New /\ New \in sound /\ NoCallFails
        /\ file' = [file EXCEPT !["exe"] = New] /\ runs' = New
        /\ apply' = [b \in Appliers |-> Idle] /\ severed' = (severed \/ \E b \in Appliers \ {a} : apply[b] # Idle)
     \/ /\ IF package = New /\ New \in sound THEN CallFails ELSE NoCallFails
        /\ ApplyTo(a, "none", "exe") /\ UNCHANGED <<file, runs, severed>>
  /\ UNCHANGED <<sound, service, scm, helper, package, byMsi, overlap, adrift>>

-----------------------------------------------------------------------------
(* RunUpdateRestart, in the helper's process. *)

\* What a helper still has to do if the release does not come up, or once it did not.
RollBack == {"undo", "clear", "aside", "restore"} \cup
            IF New \in sound THEN {} ELSE {"connect", "stop", "start", "started"}

HelperTo(a, at) ==
  helper' = [helper EXCEPT ![a] = IF at = "none" THEN Idle ELSE [helper[a] EXCEPT !.at = at]]

\* A process of the service that is there stays to itself.
LeftAlone == adrift' = (adrift \/ service # "none")

\* The service process ends; an apply inside it ends where it is.
ServiceStops ==
  /\ service' = "none" /\ scm' = "stopped" /\ runs' = Absent /\ adrift' = FALSE
  /\ apply' = [a \in Appliers |-> Idle]
  /\ severed' = (severed \/ Swapping)

\* Connect and OpenService: a helper that cannot open the service ends there.
OpenService(a) ==
  /\ helper[a].at = "connect"
  /\ \/ NoCallFails /\ HelperTo(a, "stop") /\ UNCHANGED adrift
     \/ CallFails /\ HelperTo(a, "none") /\ LeftAlone
  /\ UNCHANGED <<file, service, apply, overlap>> /\ SwapKept

\* Control(SwapStop) and waitState, whose errors are not looked at: a service that is not up
\* yet takes no stop; one that does not take it, or does not stop in time, goes on or stops later.
SwapStop(a, from, to) ==
  /\ helper[a].at = from /\ HelperTo(a, to)
  /\ \/ scm \in {"running", "stopPending"} /\ NoCallFails /\ ServiceStops
     \/ /\ scm \in {"stopped", "startPending"} /\ NoCallFails
        /\ UNCHANGED <<service, scm, runs, apply, severed, adrift>>
     \/ /\ scm \in {"running", "stopPending"} /\ CallFails /\ scm' \in {scm, "stopPending"}
        /\ UNCHANGED <<service, runs, apply, severed, adrift>>
  /\ UNCHANGED <<sound, file, package, byMsi, overlap>>

\* The service control manager starts what is at exe, unless the service has a process; a
\* build that is not sound ends at once.
SwapStart(a, from, up, not) ==
  /\ helper[a].at = from
  /\ \/ /\ service = "none" /\ file["exe"] \in sound /\ NoCallFails
        /\ service' = "exe" /\ scm' = "running" /\ runs' = file["exe"] /\ HelperTo(a, up)
     \/ /\ IF service = "none" /\ file["exe"] \in sound THEN CallFails ELSE NoCallFails
        /\ HelperTo(a, not) /\ UNCHANGED <<service, scm, runs>>
  /\ UNCHANGED <<sound, file, apply, package, byMsi, overlap, severed, adrift>>

\* The wait for Running is over before the process is up: a build that is not sound hangs, or
\* the wait ends early.
StartLate(a) ==
  /\ helper[a].at = "start" /\ HelperTo(a, "started")
  /\ service = "none" /\ file["exe"] \in Builds
  /\ IF file["exe"] \in sound THEN CallFails ELSE NoCallFails
  /\ service' = "exe" /\ scm' = "startPending" /\ runs' = file["exe"]
  /\ UNCHANGED <<sound, file, apply, package, byMsi, overlap, severed, adrift>>

StopOld(a)  == SwapStop(a, "stop", "start")
StartNew(a) == SwapStart(a, "start", "started", "undo") \/ StartLate(a)

\* Running: the backup is removed, but for the one this process runs from; otherwise,
\* or if the query fails, the update is rolled back.
Judge(a) ==
  /\ helper[a].at = "started"
  /\ \/ NoCallFails /\ HelperTo(a, IF scm = "running" THEN "none" ELSE "undo")
     \/ scm = "running" /\ CallFails /\ HelperTo(a, "undo")
  /\ UNCHANGED <<file, service, apply, overlap>> /\ SwapRest

StopBad(a) == SwapStop(a, "undo", "clear")

ClearFailed(a) ==
  /\ helper[a].at = "clear" /\ HelperTo(a, "aside")
  /\ \/ NoCallFails /\ file' = IF Removable("failed") THEN [file EXCEPT !["failed"] = Absent] ELSE file
     \/ Removable("failed") /\ CallFails /\ UNCHANGED file
  /\ UNCHANGED <<service, apply, overlap>> /\ SwapRest

KeepBad(a) ==
  /\ helper[a].at = "aside" /\ HelperTo(a, "restore") /\ LeftAlone
  /\ \/ Movable("exe", "failed") /\ NoCallFails /\ RenameFile("exe", "failed")
     \/ ~Movable("exe", "failed") /\ NoCallFails /\ UNCHANGED <<file, service>>
     \/ Movable("exe", "failed") /\ CallFails /\ UNCHANGED <<file, service>>
  /\ UNCHANGED <<apply, overlap>> /\ SwapKept

\* The backup goes back, and the helper runs from it there.
RestoreOld(a) ==
  /\ helper[a].at = "restore"
  /\ LET p == helper[a].path IN
     \/ /\ Movable(p, "exe") /\ NoCallFails /\ RenameFile(p, "exe")
        /\ helper' = [b \in Appliers |->
                        IF b = a THEN [at |-> "restart", path |-> "exe"]
                        ELSE [helper[b] EXCEPT !.path = IF helper[b] = Idle THEN @ ELSE MovedTo(@, p, "exe")]]
     \/ /\ IF Movable(p, "exe") THEN CallFails ELSE NoCallFails
        /\ HelperTo(a, "none") /\ UNCHANGED <<file, service>>
  /\ UNCHANGED <<apply, overlap>> /\ SwapRest

StartAgain(a) == SwapStart(a, "restart", "none", "none")

-----------------------------------------------------------------------------
(* The service process and the machine. *)

\* A build that comes up late.
ServiceUp ==
  /\ scm = "startPending" /\ runs \in sound /\ scm' = "running"
  /\ UNCHANGED <<sound, file, service, runs, apply, helper, package, byMsi, faults, overlap, severed, adrift>>

\* A process that stops late, or one that never came up.
ServiceEnds ==
  /\ scm = "stopPending" \/ (scm = "startPending" /\ runs \notin sound)
  /\ ServiceStops
  /\ UNCHANGED <<sound, file, helper, package, byMsi, faults, overlap>>

PowerFails ==
  /\ service # "none" \/ Busy # {}
  /\ service' = "none" /\ scm' = "stopped" /\ runs' = Absent /\ adrift' = FALSE
  /\ apply' = [a \in Appliers |-> Idle] /\ helper' = [a \in Appliers |-> Idle]
  /\ severed' = (severed \/ Swapping \/ \E a \in Appliers : helper[a].at \in RollBack)
  /\ UNCHANGED <<sound, file, package, byMsi, faults, overlap>>

\* The service starts with the machine.
SwapBoot ==
  /\ service = "none" /\ Busy = {} /\ file["exe"] \in sound
  /\ service' = "exe" /\ scm' = "running" /\ runs' = file["exe"]
  /\ UNCHANGED <<sound, file, apply, helper, package, byMsi, faults, overlap, severed, adrift>>

SwapNext ==
  \/ \E a \in Appliers :
       \/ FetchUpdate(a) \/ ChooseBackup(a) \/ SetAside(a) \/ OpenExe(a) \/ WriteExe(a) \/ Spawn(a)
       \/ RemoveNew(a) \/ MoveBack(a) \/ WritePackage(a) \/ InstallPackage(a)
       \/ OpenService(a) \/ StopOld(a) \/ StartNew(a) \/ Judge(a)
       \/ StopBad(a) \/ ClearFailed(a) \/ KeepBad(a) \/ RestoreOld(a) \/ StartAgain(a)
  \/ ServiceUp \/ ServiceEnds \/ PowerFails \/ SwapBoot

SwapSpec == SwapInit /\ [][SwapNext]_swapVars

-----------------------------------------------------------------------------
(* Safety. *)

\* When an apply is over, what the service is started from works; and the service, if it
\* runs, runs from there, unless a helper left its process to itself.
Settled ==
  /\ file["exe"] \in sound
  /\ service # "none" /\ ~adrift => service = "exe" /\ runs = file["exe"]

\* Applies that nothing cuts short in the middle, one after the other, end settled: with a
\* release that does not come up, whether it ends or hangs, or with any one call that fails,
\* and with the power failing before and after them (RunUpdateRestart's roll back,
\* applyUpdate's undo).  A helper that cannot open the service, and one that moves the
\* executable from under a process that takes no stop, leave a process running that is not
\* what is at exe: what is there works all the same, and is what the next start starts.
EndsSound ==
  Busy = {} /\ ~overlap /\ ~severed /\ faults <= (IF New \in sound THEN 1 ELSE 0) => Settled

=============================================================================
