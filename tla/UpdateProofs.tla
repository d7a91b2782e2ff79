---------------------------- MODULE UpdateProofs ----------------------------
(***************************************************************************)
(* Proofs about Update, for every number of releases and of jobs.          *)
(***************************************************************************)
EXTENDS Update, SequenceTheorems, TLAPS

LEMMA FailedTyped ==
    ASSUME NEW s \in State
    PROVE  Failed(s) \in State
BY DEF Failed, State

LEMMA AttemptTyped ==
    ASSUME TypeOK, NEW v \in 0 .. MaxVersion
    PROVE  Attempt(v) \in State
BY DEF Attempt, State, TypeOK

LEMMA SettledTyped ==
    ASSUME TypeOK
    PROVE  Settled \in State
<1>1. Failed(st) \in State /\ st.attempted \in 0 .. MaxVersion
  BY FailedTyped DEF TypeOK, State
<1>2. Reconciled \in State
  BY <1>1 DEF Reconciled, TypeOK, State
<1> QED
  BY <1>2, FailedTyped DEF Settled

LEMMA VersionsBounded == Versions \subseteq 0 .. MaxVersion /\ 0 \in 0 .. MaxVersion
BY BoundsAssumption DEF Versions

LEMMA EndsTyped ==
    ASSUME TypeOK, NEW c \in Callers, Ends(c)
    PROVE  run' \in [Callers -> Run]
BY VersionsBounded DEF Ends, Idle, Run, TypeOK

LEMMA IdleTyped == [c \in Callers |-> Idle] \in [Callers -> Run]
BY VersionsBounded DEF Idle, Run

(* A call that enters has chosen nothing yet. *)
LEMMA EntersFields ==
    ASSUME run \in [Callers -> Run], NEW c \in Callers, NEW want, NEW override \in BOOLEAN,
           Enters(c, want, override)
    PROVE  \A d \in Callers : \/ run'[d] = run[d]
                              \/ /\ run'[d].at = "battery" /\ run'[d].want = want
                                 /\ run'[d].override = override
<1> DEFINE r == [Idle EXCEPT !.at = "battery", !.want = want, !.override = override]
<1>1. r.at = "battery" /\ r.want = want /\ r.override = override
  BY DEF Idle
<1>2. run' = run \/ run' = [run EXCEPT ![c] = r]
  BY DEF Enters
<1> HIDE DEF r
<1> QED
  BY <1>1, <1>2

LEMMA QueuedTyped ==
    ASSUME TypeOK, NEW v \in Versions
    PROVE  Queued(v) \in Seq(Versions)
<1>1. <<v>> \in Seq(Versions) /\ queue \in Seq(Versions)
  BY DEF TypeOK
<1>2. Append(queue, v) \in Seq(Versions)
  BY <1>1, AppendProperties
<1> QED
  BY <1>1, <1>2 DEF Queued

LEMMA EntersTyped ==
    ASSUME TypeOK, NEW c \in Callers, NEW want \in 0 .. MaxVersion, NEW override \in BOOLEAN,
           Enters(c, want, override)
    PROVE  st' \in State /\ run' \in [Callers -> Run]
<1>1. st' \in State
  BY SettledTyped DEF Enters
<1>2. [Idle EXCEPT !.at = "battery", !.want = want, !.override = override] \in Run
  BY VersionsBounded DEF Idle, Run
<1>3. run' \in [Callers -> Run]
  BY <1>2 DEF Enters, TypeOK
<1> QED
  BY <1>1, <1>3

(* What is downloaded is a release: it never is the 0 of a run that has    *)
(* not chosen.                                                             *)
Chosen ==
    \A c \in Callers :
        /\ run[c].at \in {"download", "asked"} => run[c].image \in Versions
        /\ run[c].override => run[c].want \in Versions
Typed == TypeOK /\ Chosen

(* What a step of a run leaves of the typing.                              *)
LEMMA RunStepTyped ==
    ASSUME Typed, NEW c \in Callers, RunStep(c)
    PROVE  Typed'
<1> USE DEF Typed, hostVars, installerVars
<1>1. /\ run[c] \in Run /\ st \in State /\ Failed(st) \in State
      /\ \A d \in Callers : run[d] \in Run
  BY FailedTyped DEF TypeOK
<1>2. ASSUME Ends(c) PROVE Chosen'
  BY <1>2 DEF Ends, Chosen, Idle, TypeOK
<1>3. CASE Deferred(c) \/ NothingToDo(c)
  BY <1>2, <1>3, EndsTyped DEF Deferred, NothingToDo, TypeOK
<1>4. CASE KillsStalled(c)
  <2>1. queue' \in Seq(Versions) /\ working' \in 0 .. MaxVersion
    BY <1>4, VersionsBounded DEF KillsStalled
  <2> QED
    BY <1>1, <1>2, <1>4, <2>1, EndsTyped DEF KillsStalled, TypeOK
<1>5. CASE Overrides(c)
  <2>1. run[c].want \in Versions /\ run[c].want \in 0 .. MaxVersion
    BY <1>5, VersionsBounded DEF Overrides, Chosen
  <2>2. st' \in State
    BY <1>5, <2>1, AttemptTyped DEF Overrides
  <2>3. run' = [run EXCEPT ![c] = [@ EXCEPT !.at = "download", !.image = run[c].want]]
    BY <1>5 DEF Overrides, TypeOK
  <2>4. [run[c] EXCEPT !.at = "download", !.image = run[c].want] \in Run
    BY <1>1, <2>1 DEF Run
  <2>5. run' \in [Callers -> Run] /\ Chosen'
    BY <2>1, <2>3, <2>4, <1>1 DEF Chosen, TypeOK, Run
  <2> QED
    BY <1>5, <2>2, <2>5 DEF Overrides, TypeOK
<1>6. CASE Asks(c)
  <2>1. run' = [run EXCEPT ![c] = [@ EXCEPT !.at = "metadata"]]
    BY <1>6 DEF Asks, TypeOK
  <2>2. run' \in [Callers -> Run] /\ Chosen'
    BY <2>1, <1>1 DEF Chosen, TypeOK, Run
  <2> QED
    BY <1>6, <2>2 DEF Asks, TypeOK
<1>7. CASE Chooses(c)
  <2>1. PICK v \in Versions :
            /\ st' = Attempt(v)
            /\ run' = [run EXCEPT ![c].at = "download", ![c].want = v, ![c].image = latest]
    <3>1. run[c].want # 0 => run[c].want \in Versions
      BY <1>1, BoundsAssumption DEF Run, Versions
    <3> QED
      BY <3>1, <1>7 DEF Chooses, TypeOK
  <2>2. st' \in State
    BY <2>1, AttemptTyped, VersionsBounded
  <2>3. run' = [run EXCEPT ![c] = [@ EXCEPT !.at = "download", !.want = v, !.image = latest]]
    BY <2>1 DEF TypeOK
  <2>4. [run[c] EXCEPT !.at = "download", !.want = v, !.image = latest] \in Run
    BY <1>1, <2>1, VersionsBounded DEF Run, TypeOK
  <2>5. run' \in [Callers -> Run] /\ Chosen'
    BY <1>1, <2>1, <2>3, <2>4 DEF Chosen, TypeOK, Run
  <2> QED
    BY <1>7, <2>2, <2>5 DEF Chooses, TypeOK
<1>8. CASE Throws(c)
  <2>1. st' \in State
    BY <1>1, <1>8 DEF Throws
  <2> QED
    BY <1>2, <1>8, <2>1, EndsTyped DEF Throws, TypeOK
<1>9. CASE NotLaunched(c)
  <2>1. st' \in State
    BY <1>1, <1>9, AttemptTyped, FailedTyped DEF NotLaunched, Run
  <2> QED
    BY <1>2, <1>9, <2>1, EndsTyped DEF NotLaunched, TypeOK
<1>10. CASE Launches(c)
  <2>1. st' \in State
    BY <1>1, <1>10, AttemptTyped DEF Launches, Run
  <2>2. queue' \in Seq(Versions)
    BY <1>10, QueuedTyped DEF Launches, Chosen
  <2> QED
    BY <1>2, <1>10, <2>1, <2>2, EndsTyped DEF Launches, TypeOK
<1>11. CASE AsksPrivSvc(c)
  <2>1. st' \in State
    BY <1>1, <1>11, AttemptTyped DEF AsksPrivSvc, Run
  <2>2. run' = [run EXCEPT ![c] = [@ EXCEPT !.at = "asked"]]
    BY <1>11 DEF AsksPrivSvc, TypeOK
  <2>3. run' \in [Callers -> Run] /\ Chosen'
    BY <1>1, <1>11, <2>2 DEF AsksPrivSvc, Chosen, TypeOK, Run
  <2> QED
    BY <1>11, <2>1, <2>3 DEF AsksPrivSvc, TypeOK
<1>12. CASE PrivSvcInstalls(c)
  <2>1. queue' \in Seq(Versions) /\ st' \in State
    BY <1>1, <1>12, QueuedTyped DEF PrivSvcInstalls, Chosen
  <2> QED
    BY <1>2, <1>12, <2>1, EndsTyped DEF PrivSvcInstalls, TypeOK
<1>13. CASE PrivSvcRefuses(c)
  <2>1. st' \in State
    BY <1>1, <1>13 DEF PrivSvcRefuses
  <2> QED
    BY <1>2, <1>13, <2>1, EndsTyped DEF PrivSvcRefuses, TypeOK
<1> QED
  BY <1>3, <1>4, <1>5, <1>6, <1>7, <1>8, <1>9, <1>10, <1>11, <1>12, <1>13 DEF RunStep

LEMMA StepTyped ==
    Typed /\ [Next]_vars => Typed'
<1> SUFFICES ASSUME Typed, [Next]_vars PROVE Typed'
  OBVIOUS
<1> USE DEF Typed, hostVars, installerVars
<1>1. st \in State /\ Failed(st) \in State
  BY FailedTyped DEF TypeOK
<1>2. ASSUME run' = [c \in Callers |-> Idle]
      PROVE  run' \in [Callers -> Run] /\ Chosen'
  BY <1>2, IdleTyped DEF Chosen, Idle
<1>3. ASSUME NEW c \in Callers, NEW want \in 0 .. MaxVersion, NEW override \in BOOLEAN,
             override => want \in Versions, Enters(c, want, override)
      PROVE  /\ st' \in State /\ run' \in [Callers -> Run] /\ Chosen'
  <2>1. st' \in State /\ run' \in [Callers -> Run]
    BY <1>3, EntersTyped
  <2>2. Chosen'
    BY <1>3, EntersFields DEF Chosen, TypeOK
  <2> QED
    BY <2>1, <2>2
<1>4. CASE TimerFires
  BY <1>3, <1>4, VersionsBounded DEF TimerFires, Enters, TypeOK, Callers
<1>5. ASSUME NEW want \in Versions, NEW override \in BOOLEAN, JobArrives(want, override)
      PROVE  Typed'
  <2>1. /\ st' \in State /\ run' \in [Callers -> Run] /\ Chosen'
    BY <1>3, <1>5, VersionsBounded DEF JobArrives, Callers
  <2>2. jobs' \in 0 .. MaxJobs /\ ordered' \subseteq Versions
    BY <1>5, BoundsAssumption DEF JobArrives, TypeOK
  <2> QED
    BY <1>5, <2>1, <2>2 DEF JobArrives, Enters, TypeOK
<1>6. ASSUME NEW c \in Callers, RunStep(c) PROVE Typed'
  BY <1>6, RunStepTyped
<1>7. CASE TenMinutesPass
  <2>1. [st EXCEPT !.fresh = FALSE] \in State
    BY <1>1 DEF State
  <2> QED
    BY <1>7, <2>1 DEF TenMinutesPass, TypeOK, Chosen
<1>8. CASE Begins
  <2>1. Head(queue) \in Versions /\ Tail(queue) \in Seq(Versions)
    BY <1>8, HeadTailProperties DEF Begins, TypeOK
  <2> QED
    BY <1>8, <2>1, VersionsBounded DEF Begins, TypeOK, Chosen
<1>9. CASE Replaces
  <2>1. working \in Versions
    BY <1>9, BoundsAssumption DEF Replaces, TypeOK, Versions
  <2> QED
    BY <1>2, <1>9, <2>1, VersionsBounded DEF Replaces, TypeOK
<1>10. CASE InstallFails
  BY <1>1, <1>10, VersionsBounded DEF InstallFails, TypeOK, Chosen
<1>11. CASE GrowsOld \/ BecomesCalm
  BY <1>11 DEF GrowsOld, BecomesCalm, TypeOK, Chosen
<1>12. CASE StallTimerFires
  <2>1. Tail(queue) \in Seq(Versions)
    BY <1>12, HeadTailProperties DEF StallTimerFires, TypeOK
  <2> QED
    BY <1>1, <1>12, <2>1 DEF StallTimerFires, TypeOK, Chosen
<1>13. CASE TaskExpires
  BY <1>13 DEF TaskExpires, TypeOK, Chosen
<1>14. ASSUME NEW v \in Versions, Releases(v) PROVE Typed'
  BY <1>14 DEF Releases, TypeOK, Chosen
<1>15. CASE AgentDies
  BY <1>2, <1>15 DEF AgentDies, TypeOK
<1>16. CASE UNCHANGED vars
  BY <1>16 DEF vars, TypeOK, Chosen
<1> QED
  BY <1>4, <1>5, <1>6, <1>7, <1>8, <1>9, <1>10, <1>11, <1>12, <1>13, <1>14, <1>15, <1>16
  DEF Next

LEMMA InitTyped ==
    Init => Typed
<1> SUFFICES ASSUME Init PROVE Typed
  OBVIOUS
<1>1. [inProgress |-> FALSE, fresh |-> FALSE, attempted |-> 0, success |-> 0] \in State
  BY VersionsBounded DEF State
<1>2. run \in [Callers -> Run] /\ Chosen
  BY IdleTyped DEF Init, Chosen, Idle
<1>3. 1 \in Versions /\ 0 \in 0 .. MaxJobs
  BY BoundsAssumption DEF Init, Versions
<1>4. queue \in Seq(Versions) /\ working \in 0 .. MaxVersion /\ ordered \subseteq Versions
  BY VersionsBounded DEF Init
<1> QED
  BY <1>1, <1>2, <1>3, <1>4 DEF Init, Typed, TypeOK

(* Every state has the types TypeOK gives (Init, and each action of Next). *)
THEOREM TypeCorrect == Spec => []TypeOK
<1>1. Typed => TypeOK
  BY DEF Typed
<1> QED
  BY InitTyped, StepTyped, <1>1, PTL DEF Spec

-----------------------------------------------------------------------------
(* No accidental downgrade.  On Windows the MSI sees to it; on Linux the   *)
(* agent must never launch an older package, however long ago it chose it. *)

(* A package nobody would be surprised by.                                 *)
Backed(v) == v \in ordered \/ v >= version

OrdersKnown == \A c \in Callers : run[c].override => run[c].want \in ordered

ImagesBacked ==
    \A c \in Callers : run[c].at \in {"download", "asked"} => Backed(run[c].image)

(* Whoever holds dpkg's lock is alone, so that no package is installed     *)
(* over a newer one that came before it.                                   *)
OneInstaller ==
    \/ queue = <<>> /\ (working # 0 => Backed(working))
    \/ working = 0 /\ \E v \in Versions : queue = <<v>> /\ Backed(v)

Guards == platform = "linux" /\ "allowDowngrade" \notin pressed

Sound == OrdersKnown /\ (Guards => ImagesBacked /\ OneInstaller)

LEMMA RunStepSound ==
    ASSUME Typed, Sound, NEW c \in Callers, RunStep(c)
    PROVE  Sound'
<1> USE DEF hostVars, installerVars
<1>1. run \in [Callers -> Run] /\ Callers = {"timer", "job"}
  BY DEF Typed, TypeOK, Callers
<1>2. ordered' = ordered /\ version' = version /\ Guards' = Guards
  BY DEF RunStep, Deferred, KillsStalled, Overrides, Asks, NothingToDo, Chooses, Throws,
         NotLaunched, Launches, AsksPrivSvc, PrivSvcInstalls, PrivSvcRefuses, Guards
<1>3. ASSUME Ends(c) PROVE OrdersKnown' /\ (Guards /\ ImagesBacked => ImagesBacked')
  BY <1>1, <1>2, <1>3 DEF Ends, Idle, Sound, OrdersKnown, ImagesBacked, Backed
<1>4. ASSUME UNCHANGED installerVars
      PROVE  Guards /\ OneInstaller => OneInstaller'
  BY <1>2, <1>4 DEF OneInstaller, Backed
<1>5. CASE Deferred(c) \/ NothingToDo(c) \/ Throws(c) \/ NotLaunched(c) \/ PrivSvcRefuses(c)
  BY <1>2, <1>3, <1>4, <1>5
  DEF Deferred, NothingToDo, Throws, NotLaunched, PrivSvcRefuses, Sound
<1>6. CASE KillsStalled(c) \/ Launches(c)
  <2>1. ~Guards /\ Ends(c)
    BY <1>6 DEF KillsStalled, Launches, Guarded, Guards
  <2> QED
    BY <1>2, <1>3, <2>1 DEF Sound
<1>7. CASE Overrides(c)
  <2>1. run' = [run EXCEPT ![c] = [@ EXCEPT !.at = "download", !.image = run[c].want]]
    BY <1>1, <1>7 DEF Overrides
  <2>2. OrdersKnown' /\ (Guards /\ ImagesBacked => ImagesBacked')
    BY <1>1, <1>2, <1>7, <2>1 DEF Overrides, Sound, OrdersKnown, ImagesBacked, Backed, Run
  <2> QED
    BY <1>2, <1>4, <1>7, <2>2 DEF Overrides, Sound
<1>8. CASE Asks(c)
  <2>1. run' = [run EXCEPT ![c] = [@ EXCEPT !.at = "metadata"]]
    BY <1>1, <1>8 DEF Asks
  <2>2. OrdersKnown' /\ (Guards /\ ImagesBacked => ImagesBacked')
    BY <1>1, <1>2, <2>1 DEF Sound, OrdersKnown, ImagesBacked, Backed, Run
  <2> QED
    BY <1>2, <1>4, <1>8, <2>2 DEF Asks, Sound
<1>9. CASE Chooses(c)
  <2>1. PICK v :
            /\ run' = [run EXCEPT ![c] = [@ EXCEPT !.at = "download", !.want = v, !.image = latest]]
            /\ run[c].want # 0 => v = run[c].want
    BY <1>1, <1>9 DEF Chooses
  <2>2. Guards => latest >= version
    BY <1>9 DEF Chooses, Available, Guards, Typed, TypeOK, Versions
  <2>3. OrdersKnown' /\ (Guards /\ ImagesBacked => ImagesBacked')
    <3>1. run[c].override => v \in ordered
      BY <2>1, BoundsAssumption
      DEF Sound, OrdersKnown, Typed, TypeOK, Versions
    <3>2. OrdersKnown'
      BY <1>1, <1>2, <2>1, <3>1 DEF Sound, OrdersKnown, Run
    <3>3. Guards /\ ImagesBacked => ImagesBacked'
      BY <1>1, <1>2, <2>1, <2>2 DEF ImagesBacked, Backed, Run
    <3> QED
      BY <3>2, <3>3
  <2> QED
    BY <1>2, <1>4, <1>9, <2>3 DEF Chooses, Sound
<1>10. CASE AsksPrivSvc(c)
  <2>1. run' = [run EXCEPT ![c] = [@ EXCEPT !.at = "asked"]]
    BY <1>1, <1>10 DEF AsksPrivSvc
  <2>2. OrdersKnown' /\ (Guards /\ ImagesBacked => ImagesBacked')
    BY <1>1, <1>2, <1>10, <2>1 DEF AsksPrivSvc, Sound, OrdersKnown, ImagesBacked, Backed, Run
  <2> QED
    BY <1>2, <1>4, <1>10, <2>2 DEF AsksPrivSvc, Sound
<1>11. CASE PrivSvcInstalls(c)
  <2>1. ASSUME Guards, ImagesBacked, OneInstaller PROVE OneInstaller'
    <3>1. queue' = (IF Present THEN queue ELSE <<run[c].image>>) /\ working' = working
      BY <1>11, <2>1 DEF PrivSvcInstalls, Queued, Guards
    <3>2. run[c].image \in Versions /\ Backed(run[c].image)
      BY <1>11, <2>1 DEF PrivSvcInstalls, ImagesBacked, Typed, Chosen
    <3> QED
      BY <1>2, <2>1, <3>1, <3>2 DEF OneInstaller, Present, Backed
  <2> QED
    BY <1>2, <1>3, <1>11, <2>1 DEF PrivSvcInstalls, Sound
<1> QED
  BY <1>5, <1>6, <1>7, <1>8, <1>9, <1>10, <1>11 DEF RunStep

LEMMA StepSound ==
    Typed /\ Sound /\ [Next]_vars => Sound'
<1> SUFFICES ASSUME Typed, Sound, [Next]_vars PROVE Sound'
  OBVIOUS
<1> USE DEF hostVars, installerVars
<1>1. run \in [Callers -> Run] /\ working \in 0 .. MaxVersion /\ ordered \subseteq Versions
  BY DEF Typed, TypeOK
<1>2. ASSUME run' = [c \in Callers |-> Idle] PROVE OrdersKnown' /\ ImagesBacked'
  BY <1>2 DEF OrdersKnown, ImagesBacked, Idle
<1>3. ASSUME NEW c \in Callers, NEW want, NEW override \in BOOLEAN,
             override => want \in ordered', ordered \subseteq ordered', Guards' = Guards,
             Enters(c, want, override)
      PROVE  Sound'
  <2>0. \A d \in Callers : \/ run'[d] = run[d]
                            \/ /\ run'[d].at = "battery" /\ run'[d].want = want
                               /\ run'[d].override = override
    BY <1>1, <1>3, EntersFields
  <2>1. OrdersKnown'
    BY <1>1, <1>3, <2>0 DEF Sound, OrdersKnown
  <2>2. Guards /\ ImagesBacked => ImagesBacked'
    BY <1>1, <1>3 DEF Enters, ImagesBacked, Idle, Run, Backed
  <2>3. Guards /\ OneInstaller => OneInstaller'
    BY <1>3 DEF Enters, OneInstaller, Backed
  <2> QED
    BY <1>3, <2>1, <2>2, <2>3 DEF Sound
<1>4. CASE TimerFires
  <2>1. Enters("timer", 0, FALSE) /\ ordered' = ordered /\ Guards' = Guards
    BY <1>4 DEF TimerFires, Guards
  <2> QED
    BY <1>3, <2>1 DEF Callers
<1>5. ASSUME NEW want \in Versions, NEW override \in BOOLEAN, JobArrives(want, override)
      PROVE  Sound'
  <2>1. /\ Enters("job", want, override) /\ Guards' = Guards
        /\ override => want \in ordered'
        /\ ordered \subseteq ordered'
    BY <1>5 DEF JobArrives, Guards
  <2> QED
    BY <1>3, <2>1 DEF Callers
<1>6. ASSUME NEW c \in Callers, RunStep(c) PROVE Sound'
  BY <1>6, RunStepSound
<1>7. CASE Begins
  <2>1. UNCHANGED <<run, ordered, version, platform, pressed>> /\ queue # <<>>
    BY <1>7 DEF Begins
  <2>2. ASSUME Guards, OneInstaller PROVE OneInstaller'
    <3>1. PICK v \in Versions : working = 0 /\ queue = <<v>> /\ Backed(v)
      BY <2>1, <2>2 DEF OneInstaller
    <3>2. queue' = <<>> /\ working' = v
      BY <1>7, <3>1 DEF Begins
    <3> QED
      BY <2>1, <3>1, <3>2 DEF OneInstaller, Backed
  <2> QED
    BY <2>1, <2>2 DEF Sound, OrdersKnown, ImagesBacked, Backed, Guards
<1>8. CASE Replaces
  <2>1. /\ run' = [c \in Callers |-> Idle] /\ working' = 0 /\ working # 0
        /\ UNCHANGED <<queue, ordered, platform, pressed>>
    BY <1>8 DEF Replaces
  <2>2. Guards /\ OneInstaller => OneInstaller'
    BY <2>1 DEF OneInstaller
  <2> QED
    BY <1>2, <2>1, <2>2 DEF Sound, Guards
<1>9. CASE InstallFails
  <2>1. /\ UNCHANGED <<run, ordered, version, platform, pressed, queue>>
        /\ working # 0 /\ working' = 0
    BY <1>9 DEF InstallFails
  <2> QED
    BY <2>1 DEF Sound, OrdersKnown, ImagesBacked, OneInstaller, Backed, Guards
<1>10. CASE StallTimerFires \/ TaskExpires
  <2>1. UNCHANGED <<run, ordered, version, platform, pressed>> /\ ~Guards
    BY <1>10 DEF StallTimerFires, TaskExpires, Guards
  <2> QED
    BY <2>1 DEF Sound, OrdersKnown, Guards
<1>11. CASE AgentDies
  <2>1. /\ run' = [c \in Callers |-> Idle]
        /\ UNCHANGED <<ordered, version, platform, pressed, queue, working>>
    BY <1>11 DEF AgentDies
  <2> QED
    BY <1>2, <2>1 DEF Sound, OneInstaller, Backed, Guards
<1>12. ASSUME UNCHANGED <<run, ordered, version, platform, pressed, queue, working>>
       PROVE  Sound'
  BY <1>12 DEF Sound, OrdersKnown, ImagesBacked, OneInstaller, Backed, Guards
<1>13. CASE TenMinutesPass \/ GrowsOld \/ BecomesCalm \/ UNCHANGED vars
  BY <1>12, <1>13 DEF TenMinutesPass, GrowsOld, BecomesCalm, vars
<1>14. ASSUME NEW v \in Versions, Releases(v) PROVE Sound'
  BY <1>12, <1>14 DEF Releases
<1> QED
  BY <1>4, <1>5, <1>6, <1>7, <1>8, <1>9, <1>10, <1>11, <1>13, <1>14 DEF Next

(* Only Replaces changes the version.                                      *)
LEMMA VersionChanges ==
    ASSUME [Next]_vars, version' # version
    PROVE  Replaces
<1> USE DEF hostVars, installerVars
<1>1. ASSUME NEW c \in Callers, RunStep(c) PROVE version' = version
  BY <1>1 DEF RunStep, Deferred, KillsStalled, Overrides, Asks, NothingToDo, Chooses, Throws,
              NotLaunched, Launches, AsksPrivSvc, PrivSvcInstalls, PrivSvcRefuses
<1>2. CASE TimerFires \/ \E want \in Versions, override \in BOOLEAN : JobArrives(want, override)
  BY <1>2 DEF TimerFires, JobArrives, Enters
<1> QED
  BY <1>1, <1>2
  DEF Next, vars, TenMinutesPass, Begins, InstallFails, GrowsOld, StallTimerFires,
      TaskExpires, Releases, AgentDies, BecomesCalm

(* Off macOS, and unless the metadata allows it, no step takes the agent   *)
(* back to a release whose package no job carried, for every number of     *)
(* releases and of jobs (downgrade_blocked, the MSI's own refusal, dpkg's  *)
(* lock).                                                                  *)
THEOREM NeverDowngradedByAccident == Spec => NoAccidentalDowngrade
<1>1. Init => Sound
  <2>1. ASSUME Init PROVE OrdersKnown /\ ImagesBacked /\ OneInstaller
    BY <2>1 DEF Init, OrdersKnown, ImagesBacked, OneInstaller, Idle
  <2> QED
    BY <2>1 DEF Sound
<1>2. Typed /\ Sound /\ [Next]_vars
      => [ version' < version /\ platform # "macos" /\ "allowDowngrade" \notin pressed
             => version' \in ordered ]_vars
  <2> SUFFICES ASSUME Typed, Sound, [Next]_vars, version' < version,
                      platform # "macos", "allowDowngrade" \notin pressed
               PROVE  version' \in ordered
    OBVIOUS
  <2>1. version \in Nat /\ working \in Nat
    BY BoundsAssumption DEF Typed, TypeOK, Versions
  <2>2. Replaces
    BY <2>1, VersionChanges
  <2>3. platform # "windows" /\ version' = working /\ working # 0 /\ working < version
    BY <2>1, <2>2 DEF Replaces
  <2>4. Guards
    BY <2>3, PlatformsAssumption DEF Guards, Typed, TypeOK
  <2> QED
    BY <2>1, <2>3, <2>4 DEF Sound, OneInstaller, Backed
<1> QED
  BY InitTyped, StepTyped, StepSound, <1>1, <1>2, PTL DEF Spec, NoAccidentalDowngrade

=============================================================================
