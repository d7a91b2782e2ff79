-------------------------------- MODULE Jobs --------------------------------
(***************************************************************************)
(* The jobs of the control plane that change the device: who may run       *)
(* beside whom, what a restart does to them, and what the control plane is *)
(* told when it sends a job again.                                         *)
(*   src/src/transport/grpc-stream.ts (runJob, executeRunJob)              *)
(*   src/src/plugins/pmp/state.ts, plugins/pmp/remediation.ts              *)
(*   src/src/plugins/sdp/state.ts, plugins/sdp/index.ts                    *)
(*   src/src/update/update-task.ts (the guard)                             *)
(*                                                                         *)
(* An execution is a job on the stream that brought it: runningJobIds      *)
(* belongs to one stream, so a job that is sent again on the next one runs *)
(* beside its first execution.  What a job does to the device is a call to *)
(* PrivSvc, which goes on when its caller dies or gives up waiting.        *)
(***************************************************************************)
EXTENDS Integers, FiniteSets

CONSTANTS Jobs, None,
          Worlds        \* which kind each job may have: functions from Jobs

Kinds == {"patch", "remediate", "software", "update", "reboot"}
Locking == {"patch", "remediate", "software"}   \* the privileged operations

ASSUME NoneAssumption == None \notin Jobs
ASSUME WorldsAssumption == Worlds \subseteq [Jobs -> Kinds]

VARIABLES kind,         \* jobType
          told,         \* what the control plane was told of each job
          up,           \* the agent has a stream
          pc,           \* where each execution is
          result,       \* what patch.install answered, between call and ACK
          flags,        \* the locks: _patchInstallInProgress, remediateInFlight,
                        \* installInProgress, _agentUpdateInProgress
          pmp,          \* pmp-state.json
          unwritten,    \* history: a write of it failed, the "opening" of an
                        \* install (until the agent restarts) or a later one
                        \* (no "closing" write has got through since)
          orphans,      \* installs of PrivSvc whose caller is gone
          effect,       \* the installs whose patches are on the device
          installer,    \* an installer of the agent was launched
          armed,        \* the operating system's timer for a restart
          needsReboot,  \* Windows installs nothing until it restarted
          calm          \* history: nothing fails from here on

agentVars == <<pc, result, flags>>
fileVars == <<pmp, unwritten>>
deviceVars == <<orphans, effect, installer, armed, needsReboot>>
vars == <<kind, told, up, agentVars, fileVars, deviceVars, calm>>

Streams == {"now", "old"}
Execs == Jobs \X Streams
Job(e) == e[1]
Kind(e) == kind[e[1]]

TypeOK ==
    /\ kind \in Worlds
    /\ told \in [Jobs -> {"nothing", "done", "failed"}]
    /\ up \in BOOLEAN /\ calm \in BOOLEAN
    /\ pc \in [Execs -> {"none", "baseline", "call", "fetch", "post"}]
    /\ result \in [Execs -> {"none", "success", "nomatch", "failed", "pending_reboot"}]
    /\ flags \subseteq Locking \cup {"update"}
    /\ pmp \in [status : {"idle", "in_progress", "success", "failed"},
                job : Jobs \cup {None}, restarted : BOOLEAN, ack : Jobs \cup {None}]
    /\ unwritten \subseteq {"opening", "closing"}
    /\ orphans \subseteq Jobs /\ effect \subseteq Jobs
    /\ installer \in BOOLEAN /\ armed \in BOOLEAN /\ needsReboot \in BOOLEAN

Init ==
    /\ kind \in Worlds
    /\ told = [j \in Jobs |-> "nothing"]
    /\ up = TRUE
    /\ pc = [e \in Execs |-> "none"] /\ result = [e \in Execs |-> "none"]
    /\ flags = {}
    /\ pmp = [status |-> "idle", job |-> None, restarted |-> FALSE, ack |-> None]
    /\ unwritten = {}
    /\ orphans = {} /\ effect = {}
    /\ installer = FALSE /\ armed = FALSE /\ needsReboot \in BOOLEAN
    /\ calm = FALSE

-----------------------------------------------------------------------------
(* Answers, the end of an execution, the end of a process.                 *)

(* Mutant: a retry is taken for an answer.                                 *)
AnswerAlways(j, status) ==
    IF up /\ told[j] = "nothing" THEN told' = [told EXCEPT ![j] = status] ELSE UNCHANGED told

(* sendControlAck: without a stream, or when the stream breaks, the answer *)
(* is lost, and nobody notices.  A retry leaves the job as it was; what    *)
(* settles it first counts.                                                *)
Answer(j, status) ==
    \/ /\ up /\ told[j] = "nothing" /\ status # "retry"
       /\ told' = [told EXCEPT ![j] = status]
    \/ /\ calm /\ up => status = "retry" \/ told[j] # "nothing"
       /\ UNCHANGED told

(* Mutant: the lock is given up on the way out of a refusal.               *)
ReleaseAll(e) == flags \ {Kind(e)}

(* Mutant: the lock is given up by the normal end only.                    *)
ReleaseAfterScan(e) == IF pc[e] \in {"post", "fetch"} THEN flags \ {Kind(e)} ELSE flags

(* What an execution's finally gives up: the lock it holds, if it does.    *)
Release(e) == IF pc[e] \in {"call", "post", "fetch"} THEN flags \ {Kind(e)} ELSE flags

(* The execution of e ends with an answer.                                 *)
End(e, status) ==
    /\ pc' = [pc EXCEPT ![e] = "none"]
    /\ result' = [result EXCEPT ![e] = "none"]
    /\ Answer(Job(e), status)

(* Mutant: a process that starts trusts what the last one wrote.           *)
ReconcileNothing == pmp

(* reconcileStalePmpState, at boot.                                        *)
ReconcileStalePmpState ==
    IF pmp.status = "in_progress" THEN [pmp EXCEPT !.status = "failed", !.restarted = TRUE] ELSE pmp

(* The process ends and the next one boots; that it cannot put its state   *)
(* right it only logs.                                                     *)
AgentRestarts ==
    /\ pc' = [e \in Execs |-> "none"] /\ result' = [e \in Execs |-> "none"]
    /\ flags' = {}
    /\ \/ pmp' = ReconcileStalePmpState /\ unwritten' = {}
       \/ ~calm /\ pmp.status = "in_progress" /\ UNCHANGED pmp /\ unwritten' = {"closing"}
    /\ up' = FALSE

-----------------------------------------------------------------------------
(* A job arrives.                                                          *)

(* updatePmpState: what this job's state says from here on.                *)
SetPmp(status) ==
    /\ pmp' = [pmp EXCEPT !.status = status, !.restarted = FALSE]
    /\ unwritten' = unwritten \ {"closing"}

(* Mutant: any remembered success will do.                                 *)
ReplayAny(j) == IF pmp.ack # None THEN "done" ELSE "run"

(* Mutant: a job is only recognised after a restart.                       *)
ReplayInterrupted(j) == IF pmp.job = j /\ pmp.restarted THEN "interrupted" ELSE "run"

(* replayForRedispatch.                                                    *)
Replay(j) ==
    CASE pmp.ack = j                                     -> "done"
      [] pmp.ack # j /\ pmp.job = j /\ pmp.restarted     -> "interrupted"
      [] OTHER                                           -> "run"

Idle(e) == /\ pc[e] = "none" /\ up /\ told[Job(e)] = "nothing" /\ e[2] = "now"

(* Every handler may reject what it is sent: a module or a plugin switched *)
(* off by policy, a payload that is not valid.                             *)
Reject(e) ==
    /\ Idle(e)
    /\ Answer(Job(e), "failed")
    /\ UNCHANGED <<kind, up, agentVars, fileVars, deviceVars, calm>>

(* patch_install, up to its first await.  Refusals (PatchRefused) are      *)
(* answered with a retry and change nothing.                               *)
PatchRefused == flags \cap {"patch", "remediate", "update"} # {}

PatchReplayed(e) ==
    /\ Idle(e) /\ Kind(e) = "patch"
    /\ ~PatchRefused
    /\ Replay(Job(e)) # "run"
    /\ Answer(Job(e), IF Replay(Job(e)) = "done" THEN "done" ELSE "failed")
    /\ \/ pmp' = IF Replay(Job(e)) = "interrupted" THEN [pmp EXCEPT !.job = None] ELSE pmp
       \/ ~calm /\ Replay(Job(e)) = "interrupted" /\ UNCHANGED pmp   \* not written
    /\ UNCHANGED <<kind, up, agentVars, unwritten, deviceVars, calm>>

PatchStarts(e) ==
    /\ Idle(e) /\ Kind(e) = "patch"
    /\ ~PatchRefused
    /\ Replay(Job(e)) = "run"
    /\ flags' = flags \cup {"patch"}
    /\ pmp' = [pmp EXCEPT !.status = "in_progress", !.job = Job(e), !.restarted = FALSE]
    /\ unwritten' = unwritten \ {"closing"}
    /\ pc' = [pc EXCEPT ![e] = "baseline"]
    /\ UNCHANGED <<kind, told, up, result, deviceVars, calm>>

(* The same when that state cannot be written: the lock is up, and the try *)
(* whose finally lowers it has not begun.                                  *)
PatchCannotStart(e) ==
    /\ ~calm
    /\ Idle(e) /\ Kind(e) = "patch"
    /\ ~PatchRefused
    /\ Replay(Job(e)) = "run"
    /\ flags' = flags \cup {"patch"}
    /\ unwritten' = unwritten \cup {"opening"}
    /\ Answer(Job(e), "failed")
    /\ UNCHANGED <<kind, up, pc, result, pmp, deviceVars, calm>>

(* patch_remediate and software_install first await the change baseline.   *)
BaselineFirst(e) ==
    /\ Idle(e) /\ Kind(e) \in {"remediate", "software"}
    /\ pc' = [pc EXCEPT ![e] = "baseline"]
    /\ UNCHANGED <<kind, told, up, result, flags, fileVars, deviceVars, calm>>

(* device_reboot looks at three locks and awaits its baseline.             *)
RebootAccepted(e) ==
    /\ Idle(e) /\ Kind(e) = "reboot"
    /\ flags \cap {"patch", "remediate", "update"} = {}
    /\ pc' = [pc EXCEPT ![e] = "baseline"]
    /\ UNCHANGED <<kind, told, up, result, flags, fileVars, deviceVars, calm>>

(* privilegedOperationInFlight.                                            *)
PrivilegedOperationInFlight == flags \cap Locking # {}

(* agent_update, as a job or as a push, up to the first await of           *)
(* runUpdateTask.  (What it reads and writes of its own is left out.)      *)
UpdateStarts(e) ==
    /\ Idle(e) /\ Kind(e) = "update"
    /\ "update" \notin flags
    /\ ~PrivilegedOperationInFlight
    /\ flags' = flags \cup {"update"}
    /\ pc' = [pc EXCEPT ![e] = "fetch"]
    /\ UNCHANGED <<kind, told, up, result, fileVars, deviceVars, calm>>

-----------------------------------------------------------------------------
(* Executions go on.                                                       *)

(* Mutant: a remediation does not look at the lock of an install.          *)
RemediateTakes == "remediate" \notin flags

(* tryStartRemediate.                                                      *)
TryStartRemediate == flags \cap {"remediate", "patch"} = {}

(* tryStartInstall.                                                        *)
TryStartInstall == "software" \notin flags

MayCall(e) ==
    CASE Kind(e) = "patch"     -> TRUE
      [] Kind(e) = "remediate" -> TryStartRemediate
      [] Kind(e) = "software"  -> TryStartInstall

(* After the baseline: the call to PrivSvc, with the lock.                 *)
Calls(e) ==
    /\ pc[e] = "baseline" /\ Kind(e) \in Locking
    /\ MayCall(e)
    /\ flags' = flags \cup {Kind(e)}
    /\ pc' = [pc EXCEPT ![e] = "call"]
    /\ UNCHANGED <<kind, told, up, result, fileVars, deviceVars, calm>>

Busy(e) ==
    /\ pc[e] = "baseline" /\ Kind(e) \in Locking
    /\ ~MayCall(e)
    /\ flags' = Release(e)
    /\ End(e, "retry")
    /\ UNCHANGED <<kind, up, fileVars, deviceVars, calm>>

(* A remediation or an installation of software ends.  What it did to the  *)
(* device is left out: its "done" was not always seen there (no detection  *)
(* rule, a detection that was skipped, a change that waits for a restart). *)
OperationEnds(e) ==
    /\ pc[e] = "call" /\ Kind(e) \in {"remediate", "software"}
    /\ End(e, "done") \/ End(e, "failed")
    /\ flags' = Release(e)
    /\ UNCHANGED <<kind, up, fileVars, deviceVars, calm>>

(* patch.install answers: a reboot is due first, the patch is no longer    *)
(* pending (no_updates for an explicit list), success, or failure.         *)
Outcomes(j) ==
    CASE needsReboot                 -> {"pending_reboot"}
      [] ~needsReboot /\ j \in effect -> {"nomatch"}
      [] OTHER                       -> {"success", "failed"}

PatchAnswered(e) ==
    /\ pc[e] = "call" /\ Kind(e) = "patch"
    /\ \E r \in Outcomes(Job(e)) :
          /\ result' = [result EXCEPT ![e] = r]
          /\ effect' = IF r = "success" THEN effect \cup {Job(e)} ELSE effect
          /\ SetPmp(IF r = "success" THEN "success" ELSE "failed")
    /\ pc' = [pc EXCEPT ![e] = "post"]
    /\ UNCHANGED <<kind, told, up, flags, orphans, installer, armed, needsReboot, calm>>

(* The catch of patch_install: the failure is written, if it can be.       *)
CatchWrites ==
    \/ SetPmp("failed")
    \/ ~calm /\ UNCHANGED pmp /\ unwritten' = unwritten \cup {"closing"}

(* The same when what it answered cannot be written.                       *)
PatchUnrecorded(e) ==
    /\ ~calm
    /\ pc[e] = "call" /\ Kind(e) = "patch"
    /\ effect' \in IF "success" \in Outcomes(Job(e)) THEN {effect, effect \cup {Job(e)}} ELSE {effect}
    /\ CatchWrites
    /\ flags' = Release(e)
    /\ End(e, "failed")
    /\ UNCHANGED <<kind, up, orphans, installer, armed, needsReboot, calm>>

(* The package manager is held by somebody else.                           *)
PatchBusy(e) ==
    /\ ~calm
    /\ pc[e] = "call" /\ Kind(e) = "patch"
    /\ SetPmp("idle")
    /\ flags' = Release(e)
    /\ End(e, "retry")
    /\ UNCHANGED <<kind, up, deviceVars, calm>>

(* The call is rejected or times out, and PrivSvc may go on.  An exception *)
(* is a retry, except for patch.install.                                   *)
CallFails(e) ==
    /\ ~calm
    /\ pc[e] = "call"
    /\ flags' = Release(e)
    /\ \/ /\ Kind(e) = "patch"
          /\ orphans' \in {orphans, orphans \cup {Job(e)}}
          /\ CatchWrites
          /\ End(e, "failed")
       \/ /\ Kind(e) # "patch"
          /\ End(e, "retry")
          /\ UNCHANGED <<orphans, fileVars>>
    /\ UNCHANGED <<kind, up, effect, installer, armed, needsReboot, calm>>

(* rememberSuccessAck.                                                     *)
RememberSuccessAck(j) == [pmp EXCEPT !.ack = j]

(* After the scan that follows an install: the restart, if it was asked    *)
(* for, then the answer.                                                   *)
PatchEnds(e, restart) ==
    LET r == result[e] IN
    /\ pc[e] = "post"
    /\ restart => r # "nomatch"        \* a failure may have installed a part
    /\ armed' = (armed \/ restart)
    /\ flags' = Release(e)
    /\ \/ /\ r = "success"
          /\ pmp' = RememberSuccessAck(Job(e)) /\ UNCHANGED unwritten
          /\ needsReboot' \in {restart, TRUE}
          /\ End(e, "done")
       \/ /\ r = "pending_reboot" /\ restart
          /\ SetPmp("idle")
          /\ End(e, "retry")
          /\ UNCHANGED needsReboot
       \/ /\ r \in {"nomatch", "failed"} \/ (r = "pending_reboot" /\ ~restart)
          /\ needsReboot' = (needsReboot \/ restart)
          /\ End(e, "failed")
          /\ UNCHANGED fileVars
       \/ /\ ~calm                     \* the write of one of the first two fails
          /\ r = "success" \/ (r = "pending_reboot" /\ restart)
          /\ CatchWrites
          /\ needsReboot' \in {restart, TRUE}
          /\ End(e, "failed")
    /\ UNCHANGED <<kind, up, orphans, effect, installer, calm>>

(* armDeviceReboot, which the operating system may refuse.                 *)
RebootArms(e) ==
    /\ pc[e] = "baseline" /\ Kind(e) = "reboot"
    /\ \/ armed' = TRUE /\ End(e, "done")
       \/ UNCHANGED armed /\ End(e, "failed")
    /\ UNCHANGED <<kind, up, flags, fileVars, orphans, effect, installer, needsReboot, calm>>

(* The update's download ends: the installer is launched, or not.          *)
UpdateEnds(e) ==
    /\ pc[e] = "fetch"
    /\ \/ installer' = TRUE /\ End(e, "done")
       \/ UNCHANGED installer /\ End(e, "failed")
    /\ flags' = Release(e)
    /\ UNCHANGED <<kind, up, fileVars, orphans, effect, armed, needsReboot, calm>>

-----------------------------------------------------------------------------
(* What happens around them.                                               *)

(* PrivSvc ends an install nobody waits for.                               *)
OrphanEnds(j) ==
    /\ j \in orphans
    /\ orphans' = orphans \ {j}
    /\ effect' \in {effect, effect \cup {j}}
    /\ UNCHANGED <<kind, told, up, agentVars, fileVars, installer, armed, needsReboot, calm>>

(* The installs PrivSvc has in hand.                                       *)
Operations == orphans \cup {Job(e) : e \in {x \in Execs : pc[x] = "call" /\ Kind(x) = "patch"}}

(* The agent dies alone.                                                   *)
AgentCrashes ==
    /\ ~calm
    /\ AgentRestarts
    /\ orphans' = Operations
    /\ UNCHANGED <<kind, told, effect, installer, armed, needsReboot, calm>>

(* Both processes die: what PrivSvc had in hand ends there, done or not.   *)
BothRestart ==
    /\ AgentRestarts
    /\ orphans' = {}
    /\ effect' \in {effect, effect \cup Operations}
    /\ UNCHANGED <<kind, told, calm>>

(* The timer of the operating system, or a power cut.                      *)
DeviceRestarts ==
    /\ armed \/ ~calm
    /\ BothRestart
    /\ armed' = FALSE /\ needsReboot' = FALSE /\ installer' = FALSE

(* The installer of the agent restarts both services.                      *)
InstallerRuns ==
    /\ installer
    /\ BothRestart
    /\ installer' = FALSE
    /\ UNCHANGED <<armed, needsReboot>>

Disconnect ==
    /\ ~calm /\ up
    /\ up' = FALSE
    /\ UNCHANGED <<kind, told, agentVars, fileVars, deviceVars, calm>>

Running(e) == pc[e] # "none"

(* Bound: a job runs on two streams at most.                               *)
AtMostTwice == \A j \in Jobs : ~(Running(<<j, "now">>) /\ Running(<<j, "old">>))

(* A new stream, with a runningJobIds of its own: what runs belongs to an  *)
(* old one from here on.                                                   *)
Connect ==
    LET aged(f) == [e \in Execs |->
                       IF e[2] = "now" THEN "none"
                       ELSE IF Running(<<e[1], "now">>) THEN f[<<e[1], "now">>] ELSE f[e]]
    IN  /\ ~up /\ AtMostTwice
        /\ up' = TRUE
        /\ pc' = aged(pc) /\ result' = aged(result)
        /\ UNCHANGED <<kind, told, flags, fileVars, deviceVars, calm>>

(* The operator sends a job again that failed.                             *)
OperatorRetry(j) ==
    /\ ~calm
    /\ told[j] = "failed"
    /\ told' = [told EXCEPT ![j] = "nothing"]
    /\ UNCHANGED <<kind, up, agentVars, fileVars, deviceVars, calm>>

BecomesCalm ==
    /\ ~calm
    /\ calm' = TRUE
    /\ UNCHANGED <<kind, told, up, agentVars, fileVars, deviceVars>>

(* The control plane sends a job it has no answer for, again and again.    *)
Dispatched(e) ==
    \/ PatchReplayed(e) \/ PatchStarts(e) \/ PatchCannotStart(e) \/ BaselineFirst(e)
    \/ RebootAccepted(e) \/ UpdateStarts(e)

GoesOn(e) ==
    \/ Calls(e) \/ Busy(e) \/ OperationEnds(e) \/ PatchAnswered(e)
    \/ \E restart \in BOOLEAN : PatchEnds(e, restart)
    \/ RebootArms(e) \/ UpdateEnds(e)

Next ==
    \/ \E e \in Execs : \/ Dispatched(e) \/ GoesOn(e)
                         \/ Reject(e) \/ PatchUnrecorded(e) \/ PatchBusy(e) \/ CallFails(e)
    \/ \E j \in Jobs : OrphanEnds(j) \/ OperatorRetry(j)
    \/ AgentCrashes \/ DeviceRestarts \/ InstallerRuns
    \/ Disconnect \/ Connect \/ BecomesCalm

Spec == Init /\ [][Next]_vars

(* The control plane sends again, an operation ends (every call to PrivSvc *)
(* has a limit of time), the agent connects again, and a restart that was  *)
(* armed comes.  Faults cease.                                             *)
FairSpec ==
    /\ Spec
    /\ \A e \in Execs : SF_vars(Dispatched(e)) /\ WF_vars(GoesOn(e))
    /\ WF_vars(DeviceRestarts) /\ WF_vars(InstallerRuns)
    /\ WF_vars(Connect) /\ WF_vars(BecomesCalm)

-----------------------------------------------------------------------------
(* Properties.                                                             *)

(* The executions that hold a lock.                                        *)
Holds(e) ==
    \/ pc[e] \in {"call", "post", "fetch"}
    \/ pc[e] = "baseline" /\ Kind(e) = "patch"

Exclude(k, l) == k = l \/ {k, l} = {"patch", "remediate"} \/ {k, l} = {"patch", "update"}

(* Whatever is awaited in between, and whichever streams brought the jobs, *)
(* an install, a remediation and an update of the agent never run beside   *)
(* an install, nor two operations of one kind beside each other            *)
(* (_patchInstallInProgress, tryStartRemediate, tryStartInstall,           *)
(* _agentUpdateInProgress).                                                *)
CrossLocks == \A e, f \in Execs : e # f /\ Holds(e) /\ Holds(f) => ~Exclude(Kind(e), Kind(f))

(* A lock that is raised has an execution that will give it up: no refusal *)
(* gives up another's lock, and the exits give up their own (the finally   *)
(* blocks of patch_install, runRemediation, runSdpInstall).  There is one  *)
(* exit that does not: an install whose opening write failed leaves its    *)
(* lock behind until the agent restarts.                                   *)
LocksHaveOwners ==
    \A k \in Kinds :
        k \in flags <=>
            \/ \E e \in Execs : Holds(e) /\ Kind(e) = k
            \/ k = "patch" /\ "opening" \in unwritten

(* When pmp-state.json says in_progress, an install of that very job runs  *)
(* in this process, also after a crash, a restart or a lost connection     *)
(* (reconcileStalePmpState: "a spinner for a process that had been dead    *)
(* for hours"), unless the write that had to say otherwise failed.         *)
ProgressIsReal ==
    pmp.status = "in_progress" /\ "closing" \notin unwritten =>
        \E e \in Execs : Job(e) = pmp.job /\ Kind(e) = "patch" /\ pc[e] \in {"baseline", "call"}

(* The control plane is told that an install succeeded only when the       *)
(* patches are on the device, also when that answer is repeated from       *)
(* pmp-state.json, after a crash, or beside the install of another job.    *)
(* (The other kinds promise less: see OperationEnds.)                      *)
DoneTookEffect ==
    \A j \in Jobs : told[j] = "done" /\ kind[j] = "patch" => j \in effect

(* While the success of an install is the one remembered, the job is never *)
(* installed again, by whichever stream it comes (replayForRedispatch).    *)
NotInstalledAgain ==
    \A e \in Execs : Job(e) = pmp.ack => pc[e] \notin {"baseline", "call"}

(* The lock left behind by an install whose opening write failed keeps j   *)
(* from running.                                                           *)
LockedOut(j) == "opening" \in unwritten /\ kind[j] # "software"

(* Once nothing fails any more, the control plane gets an answer to every  *)
(* job, whatever was running, lost or locked before: no two jobs wait for  *)
(* each other, and the restart an install asked for lets it go on.  Except *)
(* while the lock of an install that could not be opened is up: until the  *)
(* agent restarts, only installations of software go through.              *)
EveryJobSettles ==
    \A j \in Jobs : []<>(calm /\ ~LockedOut(j) => told[j] # "nothing")

(* The restart of the device an operator asks for is never armed while an  *)
(* install, a remediation or an update of the agent is under way ("nunca a *)
(* mitad de un install, una remediacion o una actualizacion del agente").  *)
(* Its guard is passed before the change baseline is awaited.              *)
RebootSpares ==
    [][\A e, f \in Execs :
          RebootArms(e) /\ ~armed /\ armed' /\ Holds(f)
              => Kind(f) \notin {"patch", "remediate", "update"}]_vars

=============================================================================
