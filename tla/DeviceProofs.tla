----------------------------- MODULE DeviceProofs -----------------------------
(* Theorems about Device, for any number of runs and of faults.            *)
EXTENDS Device, TLAPS

USE RunsAssumption, FaultsAssumption

\* Every variable keeps its type: at first, and in a step.
LEMMA TypeInit == Init => TypeOK
<1> USE DEF Labels, Installing, Importing
<1> SUFFICES ASSUME Init
             PROVE  TypeOK
  OBVIOUS
<1>1. bootSched \in BOOLEAN /\ enrollSched \in BOOLEAN /\ enrollScript \in BOOLEAN
  BY DEF Init
<1>2. pc \in [Jobs -> Labels] /\ faults \in 0..MaxFaults
  BY DEF Init
<1> QED
  BY <1>1, <1>2 DEF Init, TypeOK

LEMMA TypeStep == TypeOK /\ [Next]_vars => TypeOK'
<1> USE DEF Labels, Installing, Importing
<1> SUFFICES ASSUME TypeOK, [Next]_vars
             PROVE  TypeOK'
  OBVIOUS
<1>1. ASSUME NEW b \in Boots, FirstBoot(b)
      PROVE  TypeOK'
  <2> b \in Jobs
    BY DEF Jobs
  <2>1. CASE BootStart(b)
    BY <2>1 DEF TypeOK, BootStart, Goto, server, boot, disk, run, history
  <2>2. CASE BootRemove(b)
    BY <2>2 DEF TypeOK, BootRemove, Goto, server, boot, disk, run, history
  <2>3. CASE Download(b)
    BY <2>3 DEF TypeOK, Download, Goto, server, boot, disk, run, history
  <2>4. CASE Unschedule(b)
    BY <2>4 DEF TypeOK, Unschedule, Goto, server, boot, disk, run, history
  <2>5. CASE Unscript(b)
    BY <2>5 DEF TypeOK, Unscript, Goto, server, boot, disk, run, history
  <2>6. CASE AddScript(b)
    BY <2>6 DEF TypeOK, AddScript, Goto, server, boot, disk, run, history
  <2>7. CASE AddSchedule(b)
    BY <2>7 DEF TypeOK, AddSchedule, Goto, server, boot, disk, run, history
  <2>8. CASE Kick(b)
    BY <2>8 DEF TypeOK, Kick, Begin, Busy, Jobs, server, boot, disk, run, history
  <2>9. CASE KickFails(b)
    BY <2>9 DEF TypeOK, KickFails, Goto, server, boot, disk, run, history
  <2> QED
    BY <1>1, <2>1, <2>2, <2>3, <2>4, <2>5, <2>6, <2>7, <2>8, <2>9 DEF FirstBoot
<1>2. ASSUME NEW r \in Runs, Enroll(r)
      PROVE  TypeOK'
  <2> r \in Jobs
    BY DEF Jobs
  <2>1. CASE Start(r)
    BY <2>1 DEF TypeOK, Start, Begin, Busy, Goto, server, boot, disk, run, history
  <2>2. CASE Wait(r)
    BY <2>2 DEF TypeOK, Wait, Goto, server, boot, disk, run, history
  <2>3. CASE LookForInterface(r)
    BY <2>3 DEF TypeOK, LookForInterface, Goto, server, boot, disk, run, history
  <2>4. CASE MakeInterface(r)
    BY <2>4 DEF TypeOK, MakeInterface, Goto, server, boot, disk, run, history
  <2>5. CASE Post(r)
    BY <2>5 DEF TypeOK, Post, Goto, server, boot, disk, run, history
  <2>6. CASE Fetched(r)
    BY <2>6 DEF TypeOK, Fetched, Goto, server, boot, disk, run, history
  <2>7. CASE FetchFails(r)
    BY <2>7 DEF TypeOK, FetchFails, Goto, server, boot, disk, run, history
  <2>8. CASE Import(r)
    BY <2>8 DEF TypeOK, Import, Goto, server, boot, disk, run, history
  <2>9. CASE ClearPusher(r)
    BY <2>9 DEF TypeOK, ClearPusher, Goto, server, boot, disk, run, history
  <2>10. CASE AddPusher(r)
    BY <2>10 DEF TypeOK, AddPusher, GiveUp, Goto, server, boot, disk, run, history
  <2>11. CASE ClearPushSchedule(r)
    BY <2>11 DEF TypeOK, ClearPushSchedule, Goto, server, boot, disk, run, history
  <2>12. CASE AddPushSchedule(r)
    BY <2>12 DEF TypeOK, AddPushSchedule, GiveUp, Goto, server, boot, disk, run, history
  <2>13. CASE RaiseFlag(r)
    BY <2>13 DEF TypeOK, RaiseFlag, Goto, server, boot, disk, run, history
  <2>14. CASE Tidy(r)
    BY <2>14 DEF TypeOK, Tidy, Goto, server, boot, disk, run, history
  <2> QED
    BY <1>2, <2>1, <2>2, <2>3, <2>4, <2>5, <2>6, <2>7, <2>8, <2>9, <2>10, <2>11, <2>12, <2>13, <2>14 DEF Enroll
<1>3. ASSUME NEW r \in Runs, Handle(r)
      PROVE  TypeOK'
  <2>1. CASE Commit(r)
    BY <2>1 DEF TypeOK, Commit, boot, disk, run, history
  <2>2. CASE Refuse(r)
    BY <2>2 DEF TypeOK, Refuse, boot, disk, run, history
  <2>3. CASE Answer(r)
    BY <2>3 DEF TypeOK, Answer, boot, disk, run, history
  <2> QED
    BY <1>3, <2>1, <2>2, <2>3 DEF Handle
<1>4. ASSUME NEW j \in Jobs, CommandFails(j)
      PROVE  TypeOK'
  <2>1. cut' \subseteq {"installer", "answer"}
    BY <1>4 DEF TypeOK, CommandFails, CutShort
  <2>2. pc' \in [Jobs -> Labels] /\ file' \in Runs \cup {None}
    BY <1>4 DEF TypeOK, CommandFails, Goto
  <2>3. faults' \in 0..MaxFaults
    BY <1>4 DEF TypeOK, CommandFails
  <2> QED
    BY <1>4, <2>1, <2>2, <2>3 DEF TypeOK, CommandFails, server, boot, run
<1>5. CASE PowerLoss
  <2>1. cut' \subseteq {"installer", "answer"}
    BY <1>5 DEF TypeOK, PowerLoss, CutShort
  <2> QED
    BY <1>5, <2>1 DEF TypeOK, PowerLoss, server, boot, disk, run
<1>6. CASE UNCHANGED vars
  BY <1>6 DEF TypeOK, vars
<1> QED
  BY <1>1, <1>2, <1>3, <1>4, <1>5, <1>6 DEF Next, Finished

\* Every variable keeps its type.
THEOREM TypeCorrect == Spec => []TypeOK
  BY TypeInit, TypeStep, PTL DEF Spec

-----------------------------------------------------------------------------
(* One of the two schedules is always there to go on.                      *)

At(label) == \E b \in Boots : pc[b] = label

Replacing == \E b \in Boots : pc[b] \in Installing

\* What runs that replace the schedule and script of each other leave: a script
\* without its schedule has a run that will add the one or remove the other, and
\* a schedule without its script has a run that will add it.
Retries ==
    "installer" \notin cut =>
        /\ enrollScript /\ ~enrollSched => At("unscript") \/ At("addsched")
        /\ ~enrollScript /\ (enrollSched \/ At("addsched")) => At("addscript")
        /\ At("obsolete") \/ ~bootSched =>
               (enrollSched /\ enrollScript) \/ Replacing

\* A step of an enroll run, or of the server, is none of its business.
LEMMA EnrollLeavesBoots ==
    ASSUME TypeOK, NEW r \in Runs, Enroll(r) \/ Handle(r)
    PROVE  /\ UNCHANGED <<boot, cut>>
           /\ \A b \in Boots : pc'[b] = pc[b]
<1>1. \A b \in Boots : b # r
  OBVIOUS
<1>2. CASE Handle(r)
  BY <1>2 DEF Handle, Commit, Refuse, Answer, boot, history
<1>3. CASE Start(r) \/ Wait(r) \/ LookForInterface(r) \/ MakeInterface(r) \/ Post(r)
  BY <1>1, <1>3 DEF TypeOK, Jobs, Start, Begin, Wait, LookForInterface,
                    MakeInterface, Post, Goto, boot, history
<1>4. CASE Fetched(r) \/ FetchFails(r) \/ Import(r) \/ ClearPusher(r) \/ AddPusher(r)
  BY <1>1, <1>4 DEF TypeOK, Jobs, Fetched, FetchFails, Import, ClearPusher,
                    AddPusher, GiveUp, Goto, boot, history
<1>5. CASE \/ ClearPushSchedule(r) \/ AddPushSchedule(r) \/ RaiseFlag(r) \/ Tidy(r)
  BY <1>1, <1>5 DEF TypeOK, Jobs, ClearPushSchedule, AddPushSchedule, RaiseFlag,
                    Tidy, GiveUp, Goto, boot, history
<1> QED
  BY <1>2, <1>3, <1>4, <1>5 DEF Enroll

LEMMA RetriesStep ==
    ASSUME TypeOK, Retries, [Next]_vars
    PROVE  Retries'
<1> USE DEF Retries, At, Replacing, Installing
<1>1. ASSUME NEW b \in Boots, FirstBoot(b)
      PROVE  Retries'
  <2> b \in Jobs /\ \A c \in Boots : c \in Jobs
    BY DEF Jobs
  <2> USE DEF TypeOK, Goto, boot, history
  <2>1. CASE BootStart(b)
    BY <2>1 DEF BootStart
  <2>2. CASE BootRemove(b)
    BY <2>2 DEF BootRemove
  <2>3. CASE Download(b)
    BY <2>3 DEF Download
  <2>4. CASE Unschedule(b)
    BY <2>4 DEF Unschedule
  <2>5. CASE Unscript(b)
    BY <2>5 DEF Unscript
  <2>6. CASE AddScript(b)
    BY <2>6 DEF AddScript
  <2>7. CASE AddSchedule(b)
    BY <2>7 DEF AddSchedule
  <2>8. CASE Kick(b)
    <3>1. PICK r \in Runs :
            /\ UNCHANGED <<boot, cut>>
            /\ \A c \in Boots : pc'[c] = IF c = b THEN "ended" ELSE pc[c]
      BY <2>8 DEF Kick, Begin, Jobs
    <3> QED
      BY <2>8, <3>1 DEF Kick
  <2>9. CASE KickFails(b)
    BY <2>9 DEF KickFails
  <2> QED
    BY <1>1, <2>1, <2>2, <2>3, <2>4, <2>5, <2>6, <2>7, <2>8, <2>9 DEF FirstBoot
<1>2. ASSUME NEW r \in Runs, Enroll(r) \/ Handle(r)
      PROVE  Retries'
  BY <1>2, EnrollLeavesBoots DEF boot
<1>3. ASSUME NEW j \in Jobs, CommandFails(j)
      PROVE  Retries'
  <2>1. CASE j \in Boots /\ pc[j] \in Installing
    <3>1. "installer" \in CutShort({j})
      BY <2>1 DEF CutShort
    <3> QED
      BY <1>3, <3>1 DEF CommandFails
  <2>2. CASE ~(j \in Boots /\ pc[j] \in Installing)
    BY <1>3, <2>2 DEF CommandFails, Goto, TypeOK, Jobs, boot
  <2> QED
    BY <2>1, <2>2
<1>4. CASE PowerLoss
  <2>1. CASE Replacing
    BY <1>4, <2>1 DEF PowerLoss, CutShort, Running, Jobs
  <2>2. CASE ~Replacing
    BY <1>4, <2>2 DEF PowerLoss, TypeOK, Jobs, boot
  <2> QED
    BY <2>1, <2>2
<1>5. CASE UNCHANGED vars
  BY <1>5 DEF vars
<1> QED
  BY <1>1, <1>2, <1>3, <1>4, <1>5 DEF Next, Finished

\* However first-boot runs interleave and end, a device that has not enrolled
\* keeps a schedule that will try, unless the import of an installer is cut short.
THEOREM SomeScheduleStays == Spec => []SomeoneRetries
<1>1. Init => Retries
  BY DEF Init, Retries, At, Jobs
<1>2. Retries => SomeoneRetries
  BY DEF Retries, Replacing, SomeoneRetries
<1> QED
  BY <1>1, <1>2, TypeInit, TypeStep, RetriesStep, PTL DEF Spec

-----------------------------------------------------------------------------
(* A device whose requests do not overlap.                                 *)

Open(r) == req[r] \in {"open", "committed"}

Active(r) == pc[r] \notin {"idle", "ended"} \/ Open(r)

\* What is known of a run, and of its request, when no other is active.
Course(r) ==
    /\ pc[r] = "fetch" /\ req[r] \in {"committed", "answered"} => valid = r
    /\ pc[r] \in Importing \cup {"import", "tidy"} =>
           valid = r /\ file = r /\ req[r] = "answered"
    /\ pc[r] \in Importing => reading[r] = r
    /\ pc[r] = "addpush" => pusher = None
    /\ pc[r] \in {"clearsched", "addpushsched", "flag"} => pusher = r
    /\ pc[r] = "addpushsched" => ~pushSched
    /\ pc[r] = "flag" => pushSched
    /\ pc[r] \in {"wait", "look", "make", "post", "fetch"} \/ Open(r) => ~flag

Solo ==
    /\ \A r \in Runs :
         pc[r] \in {"idle", "wait", "look", "make", "post"} => req[r] = "none"
    /\ solo => \A r, q \in Runs : Active(r) /\ Active(q) => r = q
    /\ solo => \A r \in Runs : Course(r)
    /\ solo /\ "answer" \notin cut /\ flag =>
           Reports \/ \E r \in Runs : pc[r] \in Importing

LEMMA SoloStep ==
    ASSUME TypeOK, Solo, [Next]_vars
    PROVE  Solo'
<1> USE DEF Solo, Course, Active, Open, Reports, Importing
<1> \A r \in Runs : r \in Jobs /\ r # None /\ r \notin Boots
  BY DEF Jobs
<1>1. ASSUME NEW b \in Boots, FirstBoot(b)
      PROVE  Solo'
  <2>1. CASE Kick(b)
    BY <2>1 DEF Kick, Begin, Busy, TypeOK, server, disk, run
  <2>2. CASE ~Kick(b)
    <3>1. UNCHANGED <<server, disk, run, history>> /\ \A r \in Runs : pc'[r] = pc[r]
      BY <1>1, <2>2 DEF FirstBoot, BootStart, BootRemove, Download, Unschedule,
                        Unscript, AddScript, AddSchedule, KickFails, Goto, TypeOK
    <3> QED
      BY <3>1 DEF server, disk, run, history
  <2> QED
    BY <2>1, <2>2
<1>2. ASSUME NEW r \in Runs, Enroll(r)
      PROVE  Solo'
  <2> USE DEF TypeOK, Goto, server, disk, run, history
  <2>1. CASE Start(r)
    BY <2>1 DEF Start, Begin, Busy
  <2>2. CASE Wait(r)
    BY <2>2 DEF Wait
  <2>3. CASE LookForInterface(r)
    BY <2>3 DEF LookForInterface
  <2>4. CASE MakeInterface(r)
    BY <2>4 DEF MakeInterface
  <2>5. CASE Post(r)
    BY <2>5 DEF Post
  <2>6. CASE Fetched(r)
    BY <2>6 DEF Fetched
  <2>7. CASE FetchFails(r)
    BY <2>7 DEF FetchFails
  <2>8. CASE Import(r)
    BY <2>8 DEF Import
  <2>9. CASE ClearPusher(r)
    BY <2>9 DEF ClearPusher
  <2>10. CASE AddPusher(r)
    BY <2>10 DEF AddPusher, GiveUp
  <2>11. CASE ClearPushSchedule(r)
    BY <2>11 DEF ClearPushSchedule
  <2>12. CASE AddPushSchedule(r)
    BY <2>12 DEF AddPushSchedule, GiveUp
  <2>13. CASE RaiseFlag(r)
    BY <2>13 DEF RaiseFlag
  <2>14. CASE Tidy(r)
    BY <2>14 DEF Tidy
  <2> QED
    BY <1>2, <2>1, <2>2, <2>3, <2>4, <2>5, <2>6, <2>7, <2>8, <2>9, <2>10, <2>11, <2>12, <2>13, <2>14 DEF Enroll
<1>3. ASSUME NEW r \in Runs, Handle(r)
      PROVE  Solo'
  <2> USE DEF TypeOK, disk, run, history
  <2>1. CASE Commit(r)
    BY <2>1 DEF Commit
  <2>2. CASE Refuse(r)
    BY <2>2 DEF Refuse
  <2>3. CASE Answer(r)
    BY <2>3 DEF Answer
  <2> QED
    BY <1>3, <2>1, <2>2, <2>3 DEF Handle
<1>4. ASSUME NEW j \in Jobs, CommandFails(j)
      PROVE  Solo'
  <2> /\ pc' = [pc EXCEPT ![j] = "ended"]
      /\ UNCHANGED <<server, iface, pusher, pushSched, flag, run, solo>>
      /\ cut \subseteq cut'
      /\ pc[j] \notin {"idle", "ended"}
    BY <1>4 DEF CommandFails, Goto, Installing
  <2> USE DEF TypeOK, server, run
  <2>1. CASE j \in Boots
    <3>1. file' = file /\ \A r \in Runs : pc'[r] = pc[r]
      BY <1>4, <2>1 DEF CommandFails
    <3> QED
      BY <3>1
  <2>2. CASE j \in Runs
    <3>1. flag /\ pc[j] \in Importing => "answer" \in cut'
      BY <1>4, <2>2 DEF CommandFails, CutShort
    <3> QED
      BY <2>2, <3>1
  <2> QED
    BY <2>1, <2>2 DEF Jobs
<1>5. CASE PowerLoss
  BY <1>5 DEF PowerLoss, CutShort, Running, TypeOK, Jobs, server, disk, run
<1>6. CASE UNCHANGED vars
  BY <1>6 DEF vars
<1> QED
  BY <1>1, <1>2, <1>3, <1>4, <1>5, <1>6 DEF Next, Finished

\* A device that does not overlap its own requests and whose second import is
\* not cut short reports with the valid token once it stops enrolling.
THEOREM SoloDeviceReports == Spec => []SoloRunReports
<1>1. Init => Solo
  BY DEF Init, Solo, Course, Active, Open, Importing, Jobs
<1>2. Solo => SoloRunReports
  BY DEF Solo, SoloRunReports, FlagMeansEnrolled, Quiet, Importing
<1> QED
  BY <1>1, <1>2, TypeInit, TypeStep, SoloStep, PTL DEF Spec

-----------------------------------------------------------------------------
(* A device whose runs overlap, but whose commands do not fail.            *)

Some(label) == \E r \in Runs : pc[r] = label

\* Where a run has counted on the telemetry script, or on its schedule, and it is
\* not there, another run has cleared it and is about to add it.
Pushes ==
    faults = 0 =>
        /\ pusher = None /\ (flag \/ Some("clearsched") \/ Some("addpushsched") \/ Some("flag"))
             => Some("addpush")
        /\ ~pushSched /\ (flag \/ Some("flag")) => Some("addpushsched")
        /\ \A r \in Runs : pc[r] \in Importing => reading[r] # None

LEMMA PushesStep ==
    ASSUME TypeOK, Pushes, [Next]_vars
    PROVE  Pushes'
<1> USE DEF Pushes, Some, Importing
<1> \A r \in Runs : r \in Jobs /\ r # None /\ r \notin Boots
  BY DEF Jobs
<1>1. ASSUME NEW b \in Boots, FirstBoot(b)
      PROVE  Pushes'
  <2>1. CASE Kick(b)
    BY <2>1 DEF Kick, Begin, TypeOK, server, disk, run
  <2>2. CASE ~Kick(b)
    <3>1. UNCHANGED <<server, disk, run, history>> /\ \A r \in Runs : pc'[r] = pc[r]
      BY <1>1, <2>2 DEF FirstBoot, BootStart, BootRemove, Download, Unschedule,
                        Unscript, AddScript, AddSchedule, KickFails, Goto, TypeOK
    <3> QED
      BY <3>1 DEF server, disk, run, history
  <2> QED
    BY <2>1, <2>2
<1>2. ASSUME NEW r \in Runs, Enroll(r)
      PROVE  Pushes'
  <2> USE DEF TypeOK, Goto, server, disk, run, history
  <2>1. CASE Start(r)
    BY <2>1 DEF Start, Begin
  <2>2. CASE Wait(r) \/ LookForInterface(r) \/ MakeInterface(r) \/ Post(r)
    BY <2>2 DEF Wait, LookForInterface, MakeInterface, Post
  <2>3. CASE Fetched(r) \/ FetchFails(r)
    BY <2>3 DEF Fetched, FetchFails
  <2>4. CASE Import(r)
    BY <2>4 DEF Import
  <2>5. CASE ClearPusher(r)
    BY <2>5 DEF ClearPusher
  <2>6. CASE AddPusher(r)
    BY <2>6 DEF AddPusher, GiveUp
  <2>7. CASE ClearPushSchedule(r)
    BY <2>7 DEF ClearPushSchedule
  <2>8. CASE AddPushSchedule(r)
    BY <2>8 DEF AddPushSchedule, GiveUp
  <2>9. CASE RaiseFlag(r)
    BY <2>9 DEF RaiseFlag
  <2>10. CASE Tidy(r)
    BY <2>10 DEF Tidy
  <2> QED
    BY <1>2, <2>1, <2>2, <2>3, <2>4, <2>5, <2>6, <2>7, <2>8, <2>9, <2>10 DEF Enroll
<1>3. ASSUME NEW r \in Runs, Handle(r)
      PROVE  Pushes'
  BY <1>3 DEF Handle, Commit, Refuse, Answer, disk, run, history
<1>4. CASE (\E j \in Jobs : CommandFails(j)) \/ PowerLoss
  <2>1. faults \in 0 .. MaxFaults /\ faults' = faults + 1
    BY <1>4 DEF CommandFails, PowerLoss, TypeOK
  <2>2. faults' # 0
    BY <2>1
  <2> QED
    BY <2>2
<1>5. CASE UNCHANGED vars
  BY <1>5 DEF vars
<1> QED
  BY <1>1, <1>2, <1>3, <1>4, <1>5 DEF Next, Finished

\* Without faults a device whose flag is up ends with its telemetry script and
\* schedule, whichever of its runs overlapped.
THEOREM EnrolledDevicePushes == Spec => []EnrolledPushes
<1>1. Init => Pushes
  BY DEF Init, Pushes, Some, Importing, Jobs
<1>2. Pushes => EnrolledPushes
  BY DEF Pushes, Some, EnrolledPushes, Quiet
<1> QED
  BY <1>1, <1>2, TypeInit, TypeStep, PushesStep, PTL DEF Spec
=============================================================================
