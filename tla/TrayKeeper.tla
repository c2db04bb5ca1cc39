----------------------------- MODULE TrayKeeper -----------------------------
(***************************************************************************)
(* The tray and its keeper (internal/service/traykeeper_windows.go,        *)
(* ui/tray/tray.go).  The service looks every few seconds for the mutex a  *)
(* tray holds, and starts a tray in the console's session if there is none *)
(* and the setting asks for one; the tray leaves by itself when the        *)
(* service is uninstalled, runs another build, or the setting is off.  A   *)
(* tray that is started before the shell can take an icon would hold the   *)
(* mutex with none to show, and ends itself after a while.                 *)
(*                                                                         *)
(* A mutex exists as long as some handle on it is open: the tray's that    *)
(* made it, and for a moment the keeper's that looks.  (That of a second   *)
(* tray is closed at once.)  Either call can fail, as on the mutex of an   *)
(* elevated tray or of another user's: then the tray goes on without one,  *)
(* and the keeper takes it that there is no tray.  One user is on the      *)
(* console at a time.                                                      *)
(***************************************************************************)
CONSTANTS
  Trays,     \* bound: processes that run "socksit tray" at once
  Before, After,  \* the build that is installed, and an update
  NoBuild

ASSUME TrayAssumption == Before # After /\ NoBuild \notin {Before, After}

VARIABLES
  tray,      \* the processes: how far each has come
  build,     \* the build each was started from
  denied,      \* those that go on without the mutex
  keeper,    \* superviseTray
  since,     \* shellUpSince
  shell,     \* explorer.exe in the console's session
  setting,   \* show_tray in the file, torn while the file is written
  exe,       \* the build on disk
  serves,    \* the build the service runs, or NoBuild
  installed  \* BOOLEAN

trayVars == <<tray, build, denied, keeper, since, shell, setting, exe, serves, installed>>
processes == <<tray, build, denied>>

Stages == {"off", "started", "adding", "blank", "shown"}
Holds  == {"adding", "blank", "shown"}

TrayTypeOK ==
  /\ tray \in [Trays -> Stages] /\ build \in [Trays -> {Before, After}]
  /\ denied \subseteq {t \in Trays : tray[t] \in Holds}
  /\ keeper \in {"off", "wait", "looking", "launching"}
  /\ since \in {"zero", "fresh", "settled"} /\ shell \in {"off", "busy", "ready"}
  /\ setting \in {"on", "off", "torn"} /\ exe \in {Before, After}
  /\ serves \in {Before, After, NoBuild} /\ installed \in BOOLEAN
  /\ (keeper = "off" <=> serves = NoBuild) /\ (~installed => serves = NoBuild)

TrayInit ==
  /\ tray = [t \in Trays |-> "off"] /\ build = [t \in Trays |-> Before] /\ denied = {}
  /\ keeper = "off" /\ since = "zero" /\ shell = "off"
  /\ setting = "on" /\ exe = Before /\ serves = NoBuild /\ installed = TRUE

\* A process that is over leaves no trace of its build.
Gone(T) ==
  /\ tray'  = [t \in Trays |-> IF t \in T THEN "off" ELSE tray[t]]
  /\ build' = [t \in Trays |-> IF t \in T THEN Before ELSE build[t]]
  /\ denied'  = denied \ T

Turns(t, stage) == tray' = [tray EXCEPT ![t] = stage] /\ UNCHANGED <<build, denied>>
Started(t) ==
  /\ tray'  = [tray EXCEPT ![t] = "started"]
  /\ build' = [build EXCEPT ![t] = exe] /\ UNCHANGED denied

HasMutex(t) == tray[t] \in Holds /\ t \notin denied
MutexExists == keeper = "looking" \/ \E t \in Trays : HasMutex(t)

\* ParseLenient of a file that is cut short gives the default, which is on.
ShowTray == setting # "off"

Machine == UNCHANGED <<shell, setting, exe, serves, installed>>
Keeper  == UNCHANGED <<keeper, since>>

-----------------------------------------------------------------------------
(* The keeper. *)

\* The setting is read; the mutex is opened, if there is one and it can be, and closed again.
KeeperLooks ==
  /\ keeper = "wait" /\ ShowTray
  /\ keeper' \in {"launching"} \cup (IF MutexExists THEN {"looking"} ELSE {})
  /\ UNCHANGED <<processes, since>> /\ Machine

KeeperCloses ==
  /\ keeper = "looking" /\ keeper' = "wait"
  /\ UNCHANGED <<processes, since>> /\ Machine

\* The list of processes may be out of reach, and then the shell counts as running.
shellRunning == {TRUE, shell # "off"}

\* Without a session the time the shell was seen stays, without a shell it is forgotten.
\* A shell that has been seen only now, or not long ago, is waited for; later the user's
\* token, or the process, may still not be had.
LaunchRefused ==
  /\ keeper = "launching" /\ keeper' = "wait"
  /\ \/ shell = "off" /\ since' = since
     \/ FALSE \in shellRunning /\ since' = "zero"
     \/ TRUE \in shellRunning /\ since' = IF since = "zero" THEN "fresh" ELSE since
  /\ UNCHANGED processes /\ Machine

Launch(t) ==
  /\ keeper = "launching" /\ TRUE \in shellRunning /\ since = "settled"
  /\ tray[t] = "off"
  /\ keeper' = "wait"
  /\ Started(t)
  /\ UNCHANGED since /\ Machine

\* shellSettle has passed.
ShellSettles ==
  /\ since = "fresh" /\ since' = "settled"
  /\ UNCHANGED <<processes, keeper>> /\ Machine

-----------------------------------------------------------------------------
(* The tray. *)

\* acquireSingleton
Acquire(t) ==
  /\ tray[t] = "started" /\ ~MutexExists
  /\ Turns(t, "adding")
  /\ Keeper /\ Machine

\* The mutex cannot be had, whether it exists or not, and the tray goes on.
Refused(t) ==
  /\ tray[t] = "started"
  /\ tray' = [tray EXCEPT ![t] = "adding"] /\ denied' = denied \cup {t}
  /\ UNCHANGED build /\ Keeper /\ Machine

TurnedAway(t) ==
  /\ tray[t] = "started" /\ MutexExists
  /\ Gone({t})
  /\ Keeper /\ Machine

\* systray.Run: the icon is added, and onReady calls the watchdog off; or the shell is not
\* ready for it, and nothing more comes of this process.
AddIcon(t) ==
  /\ tray[t] = "adding" /\ shell = "ready"
  /\ Turns(t, "shown")
  /\ Keeper /\ Machine

IconFails(t) ==
  /\ tray[t] = "adding" /\ shell # "ready"
  /\ Turns(t, "blank")
  /\ Keeper /\ Machine

WatchdogNone(t) == FALSE  \* mutant: there is no watchdog

Watchdog(t) ==
  /\ tray[t] = "blank"
  /\ Gone({t})
  /\ Keeper /\ Machine

\* updateMenu: the service answers, with another build.
Stale(t) == serves \notin {NoBuild, build[t]}

\* pollStatus
Quits(t) ==
  /\ tray[t] = "shown"
  /\ ~installed \/ ~ShowTray \/ Stale(t)
  /\ Gone({t})
  /\ Keeper /\ Machine

-----------------------------------------------------------------------------
(* The user and the machine. *)

\* "socksit tray" by hand.
StartByHand(t) ==
  /\ tray[t] = "off" /\ shell # "off"
  /\ Started(t)
  /\ Keeper /\ Machine

Dies(t) ==
  /\ tray[t] # "off" /\ Gone({t})
  /\ Keeper /\ Machine

LogOff ==
  /\ shell # "off" /\ shell' = "off" /\ Gone(Trays)
  /\ Keeper /\ UNCHANGED <<setting, exe, serves, installed>>

\* The shell starts, makes room for icons later, and may be restarted under the trays.
ShellStep ==
  /\ shell' = IF shell = "off" THEN "busy" ELSE IF shell = "busy" THEN "ready" ELSE "off"
  /\ UNCHANGED <<processes, setting, exe, serves, installed>> /\ Keeper

\* The file is truncated, then written or left so.
SaveSetting ==
  /\ IF setting = "torn" THEN setting' \in {"on", "off"} ELSE setting' = "torn"
  /\ UNCHANGED <<processes, shell, exe, serves, installed>> /\ Keeper

\* An update has been put in place; the restart comes later.
ExeReplaced ==
  /\ exe = Before /\ exe' = After
  /\ UNCHANGED <<processes, shell, setting, serves, installed>> /\ Keeper

ServiceStarts ==
  /\ installed /\ serves = NoBuild
  /\ serves' = exe /\ keeper' = "wait" /\ since' = "zero"
  /\ UNCHANGED <<processes, shell, setting, exe, installed>>

ServiceEnds ==
  /\ serves # NoBuild
  /\ serves' = NoBuild /\ keeper' = "off" /\ since' = "zero"
  /\ UNCHANGED <<processes, shell, setting, exe, installed>>

Install ==
  /\ ~installed /\ installed' = TRUE
  /\ UNCHANGED <<processes, shell, setting, exe, serves>> /\ Keeper

\* The service is stopped first.
Uninstall ==
  /\ installed /\ serves = NoBuild /\ installed' = FALSE
  /\ UNCHANGED <<processes, shell, setting, exe, serves>> /\ Keeper

KeeperStep  == KeeperLooks \/ KeeperCloses \/ LaunchRefused \/ \E t \in Trays : Launch(t)
TrayStep(t) ==
  \/ Acquire(t) \/ Refused(t) \/ TurnedAway(t)
  \/ AddIcon(t) \/ IconFails(t) \/ Watchdog(t) \/ Quits(t)
TrayNext ==
  \/ KeeperStep \/ ShellSettles
  \/ \E t \in Trays : TrayStep(t) \/ StartByHand(t) \/ Dies(t)
  \/ LogOff \/ ShellStep \/ SaveSetting
  \/ ExeReplaced \/ ServiceStarts \/ ServiceEnds \/ Install \/ Uninstall

\* The keeper and the trays go on by themselves, and time passes.  Something that is tried
\* again and again is not refused, or cut off by the process's end, for ever.
TrayFair(t) == WF_trayVars(TrayStep(t))
TraysFair   == \A t \in Trays : TrayFair(t)
TraySpec ==
  /\ TrayInit /\ [][TrayNext]_trayVars
  /\ WF_trayVars(KeeperStep) /\ WF_trayVars(ShellSettles) /\ TraysFair
  /\ SF_trayVars(\E t \in Trays : Launch(t))
  /\ SF_trayVars(\E t \in Trays : Acquire(t))
  /\ SF_trayVars(\E t \in Trays : AddIcon(t))

-----------------------------------------------------------------------------
(* What the keeper is for. *)

Wanted   == setting = "on" /\ shell = "ready" /\ serves = exe
Unwanted == setting = "off" \/ ~installed
OneTray  == \A t, u \in Trays : HasMutex(t) /\ HasMutex(u) => t = u

\* Where a tray is wanted, one of the service's build is shown again and again; where none
\* is wanted, none stays.
ShowsTray   == <>[]Wanted => []<>(\E t \in Trays : tray[t] = "shown" /\ build[t] = serves)
Leaves(t)   == tray[t] \notin Holds
ClearsTrays == \A t \in Trays : <>[]Unwanted => []<>Leaves(t)

(* Never two trays that hold the mutex, whoever starts them and whatever handles are open
   (one that is refused it, tray.go:102-104, goes on beside them); where a tray is wanted, one of
   the service's build is shown again and again, though it was started before the shell was
   ready, was killed, or is of the build before an update; where none is wanted, none stays,
   with the mutex or without (superviseTray, acquireSingleton, Run, pollStatus). *)
KeepsOneTray == []OneTray /\ ShowsTray /\ ClearsTrays

=============================================================================
