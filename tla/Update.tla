------------------------------- MODULE Update -------------------------------
(***************************************************************************)
(* How the agent replaces itself: the periodic check and the update jobs,  *)
(* the state file they share, and the installers that outlive them.        *)
(*   src/src/update/update-task.ts, update-state.ts, update-service.ts,    *)
(*   updater-runner.ts, macos-installer-guard.ts                           *)
(*                                                                         *)
(* Two runs of runUpdateTask may be under way, the scheduler's and a       *)
(* job's; each kind has a flag of its own against a second of its kind     *)
(* (Scheduler, Jobs).  An installer that ends well restarts the agent,     *)
(* which ends both.                                                        *)
(***************************************************************************)
EXTENDS Integers, Sequences

CONSTANTS Platforms,
          MaxVersion,       \* Bound: the releases there are
          MaxJobs,          \* Bound: the update jobs that are sent
          MaxQueue          \* Bound: the installers that wait (macOS)

ASSUME PlatformsAssumption == Platforms \subseteq {"windows", "macos", "linux"}
ASSUME BoundsAssumption == MaxVersion \in Nat /\ MaxJobs \in Nat /\ MaxQueue \in Nat \ {0}

VARIABLES platform, pressed,    \* the metadata's forceUpdate, allowDowngrade
          version,              \* what runs on the device
          latest,               \* the metadata's latestVersion
          st,                   \* update-state.json
          run,                  \* the runs of runUpdateTask
          queue,                \* installers that wait: task, queue of PackageKit
          working,              \* the one that installs, 0 if none
          aged,                 \* the oldest of them is past INSTALLER_STALL_SEC
          jobs,                 \* counts the jobs sent
          ordered,              \* history: versions a job carried the package of
          calm                  \* history: nothing fails from here on

hostVars == <<platform, pressed, latest, jobs, ordered, calm>>
installerVars == <<queue, working, aged>>
vars == <<hostVars, installerVars, version, st, run>>

Versions == 1 .. MaxVersion
Callers == {"timer", "job"}

(* allowDowngrade alone changes nothing: the same or an older version is   *)
(* not offered without forceUpdate.                                        *)
Pressed == {{}, {"forceUpdate"}, {"forceUpdate", "allowDowngrade"}}

State == [inProgress : BOOLEAN, fresh : BOOLEAN,
          attempted : 0 .. MaxVersion, success : 0 .. MaxVersion]

Run == [at : {"idle", "battery", "metadata", "download", "asked"},
        want : 0 .. MaxVersion, override : BOOLEAN, image : 0 .. MaxVersion]

Idle == [at |-> "idle", want |-> 0, override |-> FALSE, image |-> 0]

TypeOK ==
    /\ platform \in Platforms /\ pressed \in Pressed /\ calm \in BOOLEAN
    /\ version \in Versions /\ latest \in Versions
    /\ st \in State /\ run \in [Callers -> Run]
    /\ queue \in Seq(Versions) /\ working \in 0 .. MaxVersion /\ aged \in BOOLEAN
    /\ jobs \in 0 .. MaxJobs /\ ordered \subseteq Versions

Init ==
    /\ platform \in Platforms /\ pressed \in Pressed /\ calm = FALSE
    /\ version = 1 /\ latest \in Versions
    /\ st = [inProgress |-> FALSE, fresh |-> FALSE, attempted |-> 0, success |-> 0]
    /\ run = [c \in Callers |-> Idle]
    /\ queue = <<>> /\ working = 0 /\ aged = FALSE
    /\ jobs = 0 /\ ordered = {}

-----------------------------------------------------------------------------
(* The state file.  fresh: an attempt is under way and began less than ten *)
(* minutes ago.                                                            *)

(* markUpdateFailed.                                                       *)
Failed(s) == [s EXCEPT !.inProgress = FALSE, !.fresh = FALSE]

(* What is written when an attempt begins, and again when its installer is *)
(* about to be started.                                                    *)
Attempt(v) == [st EXCEPT !.inProgress = TRUE, !.fresh = TRUE, !.attempted = v]

(* reconcilePendingUpdate: an attempt at a version the agent has now.      *)
Reconciled ==
    IF st.inProgress /\ st.attempted # 0 /\ version >= st.attempted
    THEN [Failed(st) EXCEPT !.success = st.attempted] ELSE st

(* Mutant: an attempt that left no trace of its end counts for ever.       *)
SettledNeverStale == Reconciled

(* And an attempt older than ten minutes has failed.                       *)
Settled ==
    IF Reconciled.inProgress /\ ~Reconciled.fresh THEN Failed(Reconciled) ELSE Reconciled

TenMinutesPass ==
    /\ st.fresh /\ st' = [st EXCEPT !.fresh = FALSE]
    /\ UNCHANGED <<hostVars, installerVars, version, run>>

-----------------------------------------------------------------------------
(* runUpdateTask, from await to await.                                     *)

Ends(c) == run' = [run EXCEPT ![c] = Idle]

(* Until the battery is read.  It is skipped while an attempt is under way *)
(* or a privileged operation is.                                           *)
Enters(c, want, override) ==
    /\ run[c] = Idle
    /\ st' = Settled
    /\ \/ /\ ~Settled.inProgress
          /\ run' = [run EXCEPT ![c] = [Idle EXCEPT !.at = "battery", !.want = want,
                                                    !.override = override]]
       \/ (Settled.inProgress \/ ~calm) /\ UNCHANGED run
    /\ UNCHANGED <<version, installerVars>>

TimerFires ==
    Enters("timer", 0, FALSE) /\ UNCHANGED hostVars

(* agent_update as a job or as a push, with the package's address or not.  *)
JobArrives(want, override) ==
    /\ ~calm /\ jobs < MaxJobs /\ jobs' = jobs + 1
    /\ ordered' = IF override THEN ordered \cup {want} ELSE ordered
    /\ Enters("job", want, override)
    /\ UNCHANGED <<platform, pressed, latest, calm>>

Present == queue # <<>> \/ working # 0
Guarded == platform = "macos" /\ Present

(* The battery is low, or an installer of ours is young enough to wait for.*)
Deferred(c) ==
    /\ run[c].at = "battery"
    /\ ~calm \/ (Guarded /\ ~aged)
    /\ Ends(c)
    /\ UNCHANGED <<hostVars, installerVars, version, st>>

(* decideInstallerGuard: the queue is stuck; all of ours are killed.       *)
KillsStalled(c) ==
    /\ run[c].at = "battery" /\ Guarded /\ aged
    /\ queue' = <<>> /\ working' = 0 /\ aged' = FALSE
    /\ st' = Failed(st)
    /\ Ends(c)
    /\ UNCHANGED <<hostVars, version>>

(* The fast path: the job says what to install and from where.             *)
Overrides(c) ==
    /\ run[c].at = "battery" /\ ~Guarded /\ run[c].override
    /\ st' = Attempt(run[c].want)
    /\ run' = [run EXCEPT ![c].at = "download", ![c].image = run[c].want]
    /\ UNCHANGED <<hostVars, installerVars, version>>

Asks(c) ==
    /\ run[c].at = "battery" /\ ~Guarded /\ ~run[c].override
    /\ run' = [run EXCEPT ![c].at = "metadata"]
    /\ UNCHANGED <<hostVars, installerVars, version, st>>

(* Mutant: forceUpdate before the check for a downgrade.                   *)
AvailablePressed == version < latest \/ "forceUpdate" \in pressed

(* checkForAvailableUpdate.                                                *)
Available ==
    /\ version <= latest \/ "allowDowngrade" \in pressed
    /\ version < latest \/ "forceUpdate" \in pressed

(* The idempotency guard.                                                  *)
Completed == st.attempted = latest /\ st.success = latest

NothingToDo(c) ==
    /\ run[c].at = "metadata"
    /\ Completed \/ ~Available
    /\ Ends(c)
    /\ UNCHANGED <<hostVars, installerVars, version, st>>

(* The version to attempt is the job's or the latest; the hash to match is *)
(* that of the latest.                                                     *)
Chooses(c) ==
    /\ run[c].at = "metadata" /\ ~Completed /\ Available
    /\ LET v == IF run[c].want = 0 THEN latest ELSE run[c].want IN
         /\ st' = Attempt(v)
         /\ run' = [run EXCEPT ![c].at = "download", ![c].want = v, ![c].image = latest]
    /\ UNCHANGED <<hostVars, installerVars, version>>

(* fetchAgentMetadata or the download throws, or the bytes do not match:   *)
(* of an attempt at another version than the latest only a distribution    *)
(* point, which is asked by hash, has them.  Outside the try of the fast   *)
(* path nobody writes the failure down.                                    *)
Throws(c) ==
    /\ run[c].at \in {"metadata", "download"}
    /\ ~calm \/ (run[c].at = "download" /\ run[c].image # run[c].want)
    /\ st' = IF run[c].override THEN st ELSE Failed(st)
    /\ Ends(c)
    /\ UNCHANGED <<hostVars, installerVars, version>>

(* The signature of the MSI is refused, the installer cannot be launched   *)
(* (schtasks fails, /usr/sbin/installer cannot be spawned).                *)
NotLaunched(c) ==
    /\ ~calm /\ run[c].at = "download" /\ platform # "linux"
    /\ st' = Failed(Attempt(run[c].want))
    /\ Ends(c)
    /\ UNCHANGED <<hostVars, installerVars, version>>

(* What an installer finds: on Windows it takes the place of the task that *)
(* has not run yet, on macOS it waits for PackageKit, on Linux it gives up *)
(* when another holds dpkg's lock.                                         *)
Queued(v) ==
    CASE platform = "windows" -> <<v>>
      [] platform = "macos"   -> Append(queue, v)
      [] OTHER                -> IF Present THEN queue ELSE <<v>>

Launches(c) ==
    /\ run[c].at = "download" /\ platform # "linux"
    /\ Len(queue) < MaxQueue
    /\ st' = Attempt(run[c].want)
    /\ queue' = Queued(run[c].image)
    /\ Ends(c)
    /\ UNCHANGED <<hostVars, version, working, aged>>

(* performLinuxUpdate: PrivSvc is asked to install ...                     *)
AsksPrivSvc(c) ==
    /\ run[c].at = "download" /\ platform = "linux"
    /\ st' = Attempt(run[c].want)
    /\ run' = [run EXCEPT ![c].at = "asked"]
    /\ UNCHANGED <<hostVars, installerVars, version>>

(* ... and does, and the agent hears of it, or not.                        *)
PrivSvcInstalls(c) ==
    /\ run[c].at = "asked"
    /\ queue' = Queued(run[c].image)
    /\ \/ UNCHANGED st
       \/ ~calm /\ ~run[c].override /\ st' = Failed(st)
    /\ Ends(c)
    /\ UNCHANGED <<hostVars, version, working, aged>>

PrivSvcRefuses(c) ==
    /\ ~calm /\ run[c].at = "asked"
    /\ st' = IF run[c].override THEN st ELSE Failed(st)
    /\ Ends(c)
    /\ UNCHANGED <<hostVars, installerVars, version>>

-----------------------------------------------------------------------------
(* Installers.                                                             *)

(* The task's trigger, PackageKit's turn, dpkg's lock.                     *)
Begins ==
    /\ queue # <<>>
    /\ queue' = Tail(queue)
    /\ \/ working = 0 /\ working' = Head(queue)
       \/ working # 0 /\ platform # "macos" /\ UNCHANGED working
    /\ UNCHANGED <<hostVars, aged, version, st, run>>

(* The new agent starts; what the old one was doing is gone.               *)
Replaces ==
    /\ working # 0
    /\ platform = "windows" => working > version
    /\ version' = working
    /\ working' = 0 /\ aged' = FALSE
    /\ run' = [c \in Callers |-> Idle]
    /\ UNCHANGED <<hostVars, queue, st>>

(* The package is refused (an MSI refuses a downgrade), or the installer   *)
(* fails: on macOS the agent that launched it writes that down.            *)
InstallFails ==
    /\ working # 0
    /\ ~calm \/ (platform = "windows" /\ working <= version)
    /\ working' = 0 /\ aged' = FALSE
    /\ \/ UNCHANGED st
       \/ platform = "macos" /\ st' = Failed(st)
    /\ UNCHANGED <<hostVars, queue, version, run>>

(* Half an hour passes, on macOS.                                          *)
GrowsOld ==
    /\ platform = "macos" /\ Present /\ ~aged /\ ~calm
    /\ aged' = TRUE
    /\ UNCHANGED <<hostVars, queue, working, version, st, run>>

(* stallTimer: the agent kills the installer it launched.  The one before  *)
(* a restart of the agent has no timer: that it may end here as well adds  *)
(* the outcome of a user who kills it.                                     *)
StallTimerFires ==
    /\ platform = "macos" /\ aged /\ queue # <<>>
    /\ queue' = Tail(queue) /\ aged' = FALSE
    /\ st' = Failed(st)
    /\ UNCHANGED <<hostVars, working, version, run>>

(* The task's 24 hours are over.                                           *)
TaskExpires ==
    /\ platform = "windows" /\ queue # <<>> /\ ~calm
    /\ queue' = <<>>
    /\ UNCHANGED <<hostVars, working, aged, version, st, run>>

-----------------------------------------------------------------------------

(* A release, or one that is withdrawn.                                    *)
Releases(v) ==
    /\ ~calm /\ v # latest /\ latest' = v
    /\ UNCHANGED <<platform, pressed, jobs, ordered, calm, installerVars, version, st, run>>

AgentDies ==
    /\ ~calm /\ \E c \in Callers : run[c] # Idle
    /\ run' = [c \in Callers |-> Idle]
    /\ UNCHANGED <<hostVars, installerVars, version, st>>

BecomesCalm ==
    /\ ~calm /\ calm' = TRUE
    /\ UNCHANGED <<platform, pressed, latest, jobs, ordered, installerVars, version, st, run>>

RunStep(c) ==
    \/ Deferred(c) \/ KillsStalled(c) \/ Overrides(c) \/ Asks(c)
    \/ NothingToDo(c) \/ Chooses(c) \/ Throws(c)
    \/ NotLaunched(c) \/ Launches(c) \/ AsksPrivSvc(c)
    \/ PrivSvcInstalls(c) \/ PrivSvcRefuses(c)

Next ==
    \/ TimerFires \/ TenMinutesPass
    \/ \E want \in Versions, override \in BOOLEAN : JobArrives(want, override)
    \/ \E c \in Callers : RunStep(c)
    \/ Begins \/ Replaces \/ InstallFails
    \/ GrowsOld \/ StallTimerFires \/ TaskExpires
    \/ \E v \in Versions : Releases(v)
    \/ AgentDies \/ BecomesCalm

Spec == Init /\ [][Next]_vars

(* The check is periodic, a run ends, time passes, an installer ends.      *)
FairSpec ==
    /\ Spec
    /\ WF_vars(TimerFires) /\ WF_vars(TenMinutesPass) /\ WF_vars(BecomesCalm)
    /\ \A c \in Callers : WF_vars(RunStep(c))
    /\ WF_vars(Begins) /\ WF_vars(Replaces \/ InstallFails)

-----------------------------------------------------------------------------
(* Properties.                                                             *)

(* The agent never goes back to an earlier release unless a job carried    *)
(* the package of that release or the metadata allows it, whatever         *)
(* releases come and are withdrawn, jobs name, installers overlap or       *)
(* outlive the agent that launched them (downgrade_blocked, the hash of    *)
(* the latest, the package systems).  On macOS, where installers queue,    *)
(* two runs at a time can break it.                                        *)
NoAccidentalDowngrade ==
    [][ version' < version /\ platform # "macos" /\ "allowDowngrade" \notin pressed
          => version' \in ordered ]_vars

(* Once nothing fails any more and no release or job comes, the agent      *)
(* comes to run the latest version, whatever attempts were lost before:    *)
(* neither updateInProgress nor its ten minutes keep it from trying, nor   *)
(* an installer that waits or hangs.  Left out is a file that says the     *)
(* latest version was installed on a device that was taken back from it    *)
(* since: the idempotency guard skips the check there for ever.            *)
UpdateArrives ==
    calm /\ (version < latest => st.success # latest) ~> version >= latest

=============================================================================
