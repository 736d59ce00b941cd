-------------------------------- MODULE Device --------------------------------
(***************************************************************************)
(* A router that enrolls by itself: the scripts that shelf-flash.rsc.j2,   *)
(* factory-installer.rsc.j2 and provision.rsc.j2 (app/templates/rsc) put   *)
(* on it, against a server that hands its telemetry token from request to  *)
(* request as TokenHandover of module AutoEnroll says.                     *)
(*                                                                         *)
(* RouterOS starts a scheduled script whether or not an earlier run of it  *)
(* is still there, and lets runs interleave between commands.  An `add' of *)
(* a name that exists fails, a failing command ends its script unless it   *)
(* is guarded, and a file is read when its import begins.  What schedulers *)
(* are kept, and files, survive a loss of power; runs do not.              *)
(*                                                                         *)
(* Abstractions.  An answer, and the token in it, is named by the run that *)
(* asked for it.  Addresses, routes, the server peer and firewall rules of *)
(* provision.rsc.j2 are commands of its import that may fail.  So is the   *)
(* installer file that first-boot runs share: it is the same for each.     *)
(***************************************************************************)
EXTENDS Integers

CONSTANTS
    Boots,      \* runs of the script cpe-cloud-first-boot
    Runs,       \* runs of the script cpe-cloud-enroll
    None,       \* stands for "no run"
    MaxFaults   \* bound on losses of power and on commands that fail

ASSUME RunsAssumption   == None \notin Runs /\ Boots \cap Runs = {}
ASSUME FaultsAssumption == MaxFaults \in Nat

Jobs == Boots \cup Runs

VARIABLES
    valid,          \* the run whose token is valid on the server
    req,            \* the server's side of a run's request
    pc,             \* where a run is
    bootSched,      \* the scheduler cpe-cloud-first-boot is there
    enrollSched,    \* the scheduler cpe-cloud-enroll is there
    enrollScript,   \* the script cpe-cloud-enroll is there
    iface,          \* the interface wg-cpe-cloud is there
    file,           \* the answer in cpe-cloud-provision.rsc
    reading,        \* the answer that a run is importing
    again,          \* a run has its second import still to do
    pusher,         \* the answer whose token the telemetry script has
    pushSched,      \* the scheduler cpe-cloud-telemetry is there
    flag,           \* the flag file is there
    faults,         \* losses of power and failed commands so far
    solo,           \* history: no two requests or runs have overlapped
    cut             \* history: the imports that a fault has cut short

server == <<valid, req>>
boot   == <<bootSched, enrollSched, enrollScript>>
disk   == <<iface, file, pusher, pushSched, flag>>
run    == <<reading, again>>
vars   == <<valid, req, pc, bootSched, enrollSched, enrollScript, iface, file,
            reading, again, pusher, pushSched, flag, faults, solo, cut>>
history == <<faults, solo, cut>>

Installing == {"unsched", "unscript", "addscript", "addsched"}
Importing  == {"clearpush", "addpush", "clearsched", "addpushsched", "flag"}
Labels ==
    Installing \cup Importing \cup
    {"idle", "obsolete", "download", "kick", "wait", "look", "make", "post",
     "fetch", "import", "tidy", "ended"}

Goto(j, label) == pc' = [pc EXCEPT ![j] = label]

\* A shelf-flashed router, or one whose installer was imported by hand.
Init ==
    /\ valid = None
    /\ req = [r \in Runs |-> "none"]
    /\ pc = [j \in Jobs |-> "idle"]
    /\ \/ bootSched = TRUE /\ enrollSched = FALSE /\ enrollScript = FALSE
       \/ bootSched = FALSE /\ enrollSched = TRUE /\ enrollScript = TRUE
    /\ iface = FALSE
    /\ file = None
    /\ reading = [r \in Runs |-> None]
    /\ again = [r \in Runs |-> FALSE]
    /\ pusher = None
    /\ pushSched = FALSE
    /\ flag = FALSE
    /\ faults = 0
    /\ solo = TRUE
    /\ cut = {}

-----------------------------------------------------------------------------
(* cpe-cloud-first-boot and the import of the installer.                   *)

BootStart(b) ==
    /\ pc[b] = "idle"
    /\ bootSched
    /\ Goto(b, IF enrollScript THEN "obsolete" ELSE "download")
    /\ UNCHANGED <<server, boot, disk, run, history>>

\* It removes its scheduler, then itself.
BootRemove(b) ==
    /\ pc[b] = "obsolete"
    /\ bootSched' = FALSE
    /\ Goto(b, "ended")
    /\ UNCHANGED <<server, enrollSched, enrollScript, disk, run, history>>

\* Mutant: the first-boot script goes away ahead of the import.
DownloadAndLeave(b) ==
    /\ pc[b] = "download"
    /\ \E next \in {"unsched", "ended"} : Goto(b, next)
    /\ bootSched' = FALSE
    /\ UNCHANGED <<server, enrollSched, enrollScript, disk, run, history>>

\* The installer is there (module FetchTokens says when), or it is not.
Download(b) ==
    /\ pc[b] = "download"
    /\ \E next \in {"unsched", "ended"} : Goto(b, next)
    /\ UNCHANGED <<server, boot, disk, run, history>>

Unschedule(b) ==
    /\ pc[b] = "unsched"
    /\ enrollSched' = FALSE
    /\ Goto(b, "unscript")
    /\ UNCHANGED <<server, bootSched, enrollScript, disk, run, history>>

Unscript(b) ==
    /\ pc[b] = "unscript"
    /\ enrollScript' = FALSE
    /\ Goto(b, "addscript")
    /\ UNCHANGED <<server, bootSched, enrollSched, disk, run, history>>

AddScript(b) ==
    /\ pc[b] = "addscript"
    /\ enrollScript' = TRUE
    /\ Goto(b, IF enrollScript THEN "ended" ELSE "addsched")
    /\ UNCHANGED <<server, bootSched, enrollSched, disk, run, history>>

AddSchedule(b) ==
    /\ pc[b] = "addsched"
    /\ enrollSched' = TRUE
    /\ Goto(b, IF enrollSched THEN "ended" ELSE "kick")
    /\ UNCHANGED <<server, bootSched, enrollScript, disk, run, history>>

-----------------------------------------------------------------------------
(* cpe-cloud-enroll.                                                       *)

\* Another run of the script, or the request of one, is under way.
Busy(r) ==
    \E q \in Runs \ {r} :
        \/ pc[q] \notin {"idle", "ended"}
        \/ req[q] \in {"open", "committed"}

\* The run ends at once when the flag file is there.
Begin(r) ==
    /\ pc[r] = "idle"
    /\ enrollScript
    /\ solo' = (solo /\ ~Busy(r))
    /\ UNCHANGED <<server, boot, disk, run, faults, cut>>

Start(r) ==
    /\ enrollSched
    /\ Begin(r)
    /\ Goto(r, IF flag THEN "ended" ELSE "wait")

\* The last command of the installer runs the script.
Kick(b) ==
    /\ pc[b] = "kick"
    /\ \E r \in Runs :
         /\ Begin(r)
         /\ pc' = [pc EXCEPT ![b] = "ended",
                             ![r] = IF flag THEN "ended" ELSE "wait"]

\* There is none, or (a bound of the model) no run is left.
KickFails(b) ==
    /\ pc[b] = "kick"
    /\ ~enrollScript \/ \A r \in Runs : pc[r] # "idle"
    /\ Goto(b, "ended")
    /\ UNCHANGED <<server, boot, disk, run, history>>

\* It waits for the name of the server to resolve, up to ten minutes or more.
Wait(r) ==
    /\ pc[r] = "wait"
    /\ \E next \in {"look", "ended"} : Goto(r, next)
    /\ UNCHANGED <<server, boot, disk, run, history>>

LookForInterface(r) ==
    /\ pc[r] = "look"
    /\ Goto(r, IF iface THEN "post" ELSE "make")
    /\ UNCHANGED <<server, boot, disk, run, history>>

MakeInterface(r) ==
    /\ pc[r] = "make"
    /\ iface' = TRUE
    /\ Goto(r, IF iface THEN "ended" ELSE "post")
    /\ UNCHANGED <<server, boot, file, pusher, pushSched, flag, run, history>>

Post(r) ==
    /\ pc[r] = "post"
    /\ req' = [req EXCEPT ![r] = "open"]
    /\ Goto(r, "fetch")
    /\ UNCHANGED <<valid, boot, disk, run, history>>

\* The answer is written to the file that all runs share.
Fetched(r) ==
    /\ pc[r] = "fetch"
    /\ req[r] = "answered"
    /\ file' = r
    /\ again' = [again EXCEPT ![r] = TRUE]
    /\ Goto(r, "import")
    /\ UNCHANGED <<server, boot, iface, pusher, pushSched, flag, reading, history>>

\* Mutant: a fetch that fails does not end the run.
FetchFailsOn(r) ==
    /\ pc[r] \in {"post", "fetch"}
    /\ again' = [again EXCEPT ![r] = TRUE]
    /\ Goto(r, "import")
    /\ UNCHANGED <<server, boot, disk, reading, history>>

\* No connection, an error status, or no answer in time.
FetchFails(r) ==
    /\ pc[r] \in {"post", "fetch"}
    /\ Goto(r, "ended")
    /\ UNCHANGED <<server, boot, disk, run, history>>

-----------------------------------------------------------------------------
(* The import of the answer, which is done twice.                          *)

\* Without a file the import fails, and the run gives up.
Import(r) ==
    /\ pc[r] = "import"
    /\ reading' = [reading EXCEPT ![r] = file]
    /\ Goto(r, IF file = None THEN "ended" ELSE "clearpush")
    /\ UNCHANGED <<server, boot, disk, again, history>>

ClearPusher(r) ==
    /\ pc[r] = "clearpush"
    /\ pusher' = None
    /\ Goto(r, "addpush")
    /\ UNCHANGED <<server, boot, iface, file, pushSched, flag, run, history>>

\* An import that fails removes the file, and the run gives up.
GiveUp(r) == Goto(r, "ended") /\ file' = None

\* Mutant: an import that fails takes the telemetry script with it.
AddPusherOrDrop(r) ==
    /\ pc[r] = "addpush"
    /\ IF pusher = None
       THEN Goto(r, "clearsched") /\ pusher' = reading[r] /\ UNCHANGED file
       ELSE GiveUp(r) /\ pusher' = None
    /\ UNCHANGED <<server, boot, iface, pushSched, flag, run, history>>

AddPusher(r) ==
    /\ pc[r] = "addpush"
    /\ IF pusher = None
       THEN Goto(r, "clearsched") /\ pusher' = reading[r] /\ UNCHANGED file
       ELSE GiveUp(r) /\ UNCHANGED pusher
    /\ UNCHANGED <<server, boot, iface, pushSched, flag, run, history>>

ClearPushSchedule(r) ==
    /\ pc[r] = "clearsched"
    /\ pushSched' = FALSE
    /\ Goto(r, "addpushsched")
    /\ UNCHANGED <<server, boot, iface, file, pusher, flag, run, history>>

AddPushSchedule(r) ==
    /\ pc[r] = "addpushsched"
    /\ IF pushSched THEN GiveUp(r) ELSE Goto(r, "flag") /\ UNCHANGED file
    /\ pushSched' = TRUE
    /\ UNCHANGED <<server, boot, iface, pusher, flag, run, history>>

\* The flag file is the last thing that the answer makes.
RaiseFlag(r) ==
    /\ pc[r] = "flag"
    /\ flag' = TRUE
    /\ again' = [again EXCEPT ![r] = FALSE]
    /\ Goto(r, IF again[r] THEN "import" ELSE "tidy")
    /\ UNCHANGED <<server, boot, iface, file, pusher, pushSched, reading, history>>

\* Mutant: the file is emptied and left there.
TidyEmpties(r) ==
    /\ pc[r] = "tidy"
    /\ file' = "empty"
    /\ Goto(r, "ended")
    /\ UNCHANGED <<server, boot, iface, pusher, pushSched, flag, run, history>>

Tidy(r) ==
    /\ pc[r] = "tidy"
    /\ file' = None
    /\ Goto(r, "ended")
    /\ UNCHANGED <<server, boot, iface, pusher, pushSched, flag, run, history>>

-----------------------------------------------------------------------------
(* The server.                                                             *)

\* The handler commits: this token is valid now, and no other.
Commit(r) ==
    /\ req[r] = "open"
    /\ valid' = r
    /\ req' = [req EXCEPT ![r] = "committed"]
    /\ UNCHANGED <<pc, boot, disk, run, history>>

\* An error status: before the commit, or after it when the sync fails.
Refuse(r) ==
    /\ req[r] \in {"open", "committed"}
    /\ req' = [req EXCEPT ![r] = "refused"]
    /\ UNCHANGED <<valid, pc, boot, disk, run, history>>

Answer(r) ==
    /\ req[r] = "committed"
    /\ req' = [req EXCEPT ![r] = "answered"]
    /\ UNCHANGED <<valid, pc, boot, disk, run, history>>

-----------------------------------------------------------------------------
(* Faults.                                                                 *)

\* The imports that end when the runs in J do: one of the installer after it has
\* begun to replace the schedule, one of an answer after the flag was raised.
CutShort(J) ==
    {"installer" : j \in {b \in J \cap Boots : pc[b] \in Installing}} \cup
    {"answer" : j \in {r \in J \cap Runs : flag /\ pc[r] \in Importing}}

\* A command of an import fails: the import does.
CommandFails(j) ==
    /\ faults < MaxFaults
    /\ pc[j] \in Installing \cup Importing
    /\ faults' = faults + 1
    /\ cut' = cut \cup CutShort({j})
    /\ Goto(j, "ended")
    /\ file' = IF j \in Runs THEN None ELSE file
    /\ UNCHANGED <<server, boot, iface, pusher, pushSched, flag, run, solo>>

Running == {j \in Jobs : pc[j] \notin {"idle", "ended"}}

PowerLoss ==
    /\ faults < MaxFaults
    /\ Running # {}
    /\ faults' = faults + 1
    /\ cut' = cut \cup CutShort(Running)
    /\ pc' = [j \in Jobs |-> IF j \in Running THEN "ended" ELSE pc[j]]
    /\ UNCHANGED <<server, boot, disk, run, solo>>

-----------------------------------------------------------------------------
FirstBoot(b) ==
    \/ BootStart(b) \/ BootRemove(b) \/ Download(b)
    \/ Unschedule(b) \/ Unscript(b) \/ AddScript(b) \/ AddSchedule(b)
    \/ Kick(b) \/ KickFails(b)

Enroll(r) ==
    \/ Start(r) \/ Wait(r) \/ LookForInterface(r) \/ MakeInterface(r)
    \/ Post(r) \/ Fetched(r) \/ FetchFails(r)
    \/ Import(r) \/ ClearPusher(r) \/ AddPusher(r)
    \/ ClearPushSchedule(r) \/ AddPushSchedule(r) \/ RaiseFlag(r) \/ Tidy(r)

Handle(r) == Commit(r) \/ Refuse(r) \/ Answer(r)

\* Every run that can start has ended, and so have their requests.
Finished ==
    /\ Running = {}
    /\ \A r \in Runs : req[r] \notin {"open", "committed"}
    /\ UNCHANGED vars

Next ==
    \/ \E b \in Boots : FirstBoot(b)
    \/ \E r \in Runs : Enroll(r) \/ Handle(r)
    \/ \E j \in Jobs : CommandFails(j)
    \/ PowerLoss
    \/ Finished

Spec == Init /\ [][Next]_vars

-----------------------------------------------------------------------------
TypeOK ==
    /\ valid \in Runs \cup {None}
    /\ req \in [Runs -> {"none", "open", "committed", "refused", "answered"}]
    /\ pc \in [Jobs -> Labels]
    /\ bootSched \in BOOLEAN /\ enrollSched \in BOOLEAN /\ enrollScript \in BOOLEAN
    /\ iface \in BOOLEAN /\ pushSched \in BOOLEAN /\ flag \in BOOLEAN
    /\ solo \in BOOLEAN
    /\ file \in Runs \cup {None}
    /\ reading \in [Runs -> Runs \cup {None}]
    /\ again \in [Runs -> BOOLEAN]
    /\ pusher \in Runs \cup {None}
    /\ faults \in 0..MaxFaults
    /\ cut \subseteq {"installer", "answer"}

Quiet ==
    /\ \A r \in Runs : pc[r] \in {"idle", "ended"}
    /\ \A r \in Runs : req[r] \notin {"open", "committed"}

Reports == pushSched /\ pusher # None /\ pusher = valid

\* provision.rsc.j2:89-91 and factory-installer.rsc.j2:112: the flag file marks a
\* complete enrollment, and the device retries until it is enrolled.  So a
\* device that will not enroll again reports with the token that is valid.
FlagMeansEnrolled == flag /\ Quiet => Reports

\* That is so, through any lost answer, failed sync, error and loss of power,
\* unless two of its requests overlapped or its second import was cut short.
SoloRunReports == solo /\ "answer" \notin cut => FlagMeansEnrolled

\* shelf-flash.rsc.j2:5-6: the first-boot script retries until the installer
\* takes over.  However runs of it interleave and end, one of the two schedules
\* is there to go on, unless the import of an installer was cut short.
SomeoneRetries ==
    "installer" \notin cut =>
        \/ bootSched
        \/ enrollSched /\ enrollScript
        \/ \E b \in Boots : pc[b] \in Installing

\* Runs that overlap may leave the device with a token that is revoked, never
\* without its telemetry script and schedule: each clears what it then adds, and
\* one whose `add' fails has found what another has added.
EnrolledPushes == flag /\ Quiet /\ faults = 0 => pusher # None /\ pushSched
=============================================================================
