-------------------------- MODULE CentralJobs_proofs --------------------------
(***************************************************************************)
(* However many jobs share the Celery node, and however often it restarts, *)
(* loses processes or misses messages: NoFalseCentralSuccess, StopIsFinal  *)
(* and, if the jobs that may wait for each other fit into the visibility   *)
(* timeout, RunsOnce of CentralJobs.  Then the performance settings that   *)
(* rclone is started with: PresetsAreAccepted and RunFitsBudget of         *)
(* RcloneTuning.                                                           *)
(***************************************************************************)
EXTENDS CentralJobs, RcloneTuning, FiniteSetTheorems, SequenceTheorems, TLAPS

-----------------------------------------------------------------------------
(* The inductive invariant.                                                 *)

Phases  == {"none"} \cup Waiting \cup Alive \cup Over
Threads == {"none", "thread", "spawned", "up", "dying", "failed", "exit0", "exit1"}

CentralTypes ==
    /\ jobState \in [Jobs -> JobStates]
    /\ creator \in [Jobs -> {"new", "routing", "done"}]
    /\ stopper \in [Jobs -> {"idle", "revoking", "gaveUp", "writing"}]
    /\ mail \in [Jobs -> Seq({"SUCCESS", "FAILED"})]
    /\ phase \in [Tasks -> Phases]
    /\ loaded \in [Tasks -> JobStates]
    /\ pass \in [Tasks -> Nat]
    /\ rclone \in [Tasks -> Threads]
    /\ exit \in [Tasks -> {-1, 0, 1}]
    /\ full \in [Tasks -> BOOLEAN]
    /\ clean \in [Tasks -> BOOLEAN]
    /\ signal \in [Tasks -> {"none", "sent", "taken"}]
    /\ revokeMsgs \subseteq Jobs
    /\ revoked \subseteq Jobs
    /\ waited \in [Tasks -> Nat]
    /\ ran \in [Tasks -> Nat]
    /\ restarts \in Nat

\* A task that has not begun its first run of rclone, or not even reached the broker.
NotRun == {"none", "starting", "ready"} \cup Waiting

\* What is known of the run a task is in, or was in last.
FreshTask(t) ==
    phase[t] \in NotRun => pass[t] = 0 /\ rclone[t] = "none" /\ exit[t] = -1 /\ ~full[t]
\* A run that was not clean shows it until the watcher ends the task.
MarkedRun(t) == ~clean[t] => full[t] \/ rclone[t] = "exit1"
CountedRun(t) == pass[t] =< Passes[t[1]]
\* Status 0 is the word of an rclone that has ended, of a run that was clean.
TrueExit(t) == exit[t] = 0 => rclone[t] = "exit0" /\ clean[t]
\* The watcher leaves with status 0 only after the last run.
LastRun(t) == phase[t] \in {"ended", "mailing"} /\ exit[t] = 0 => pass[t] = Passes[t[1]]

RunsInv == \A t \in Tasks : FreshTask(t) /\ MarkedRun(t) /\ CountedRun(t) /\ TrueExit(t) /\ LastRun(t)

\* Nothing is queued before the request that creates the job does it.
CreatedFirst == \A j \in Jobs : creator[j] # "done" => phase[<<j, 1>>] = "none"

\* A process that has taken its SIGTERM is no more.
SignalEnds == \A t \in Tasks : signal[t] = "taken" => phase[t] = "lost"

CentralInv == CentralTypes /\ RunsInv /\ CreatedFirst /\ SignalEnds /\ NoFalseCentralSuccess

-----------------------------------------------------------------------------
(* Types.                                                                    *)

\* A function with one value replaced by itself.
LEMMA Same ==
    ASSUME NEW D, NEW R, NEW f \in [D -> R], NEW x
    PROVE  [f EXCEPT ![x] = f[x]] = f
OBVIOUS

\* Every task is of a job that has a number of runs.
LEMMA PassesType == \A t \in Tasks : t[1] \in Jobs /\ Passes[t[1]] \in Nat \ {0}
BY CentralAssumption DEF Tasks

\* The values the variables start with are of their types.
LEMMA TypesStart == CentralInit => CentralTypes
BY CentralAssumption DEF CentralInit, CentralTypes, JobStates, Phases, Threads

\* So are those a run of rclone begins with.
LEMMA RunBegins ==
    ASSUME CentralTypes, NEW t \in Tasks, NEW k \in Nat, BeginPass(t, k)
    PROVE  /\ pass' \in [Tasks -> Nat]
           /\ rclone' \in [Tasks -> Threads]
           /\ exit' \in [Tasks -> {-1, 0, 1}]
           /\ full' \in [Tasks -> BOOLEAN]
<1>1. pass \in [Tasks -> Nat] /\ rclone \in [Tasks -> Threads] /\ exit \in [Tasks -> {-1, 0, 1}]
  BY DEF CentralTypes
<1>2. full \in [Tasks -> BOOLEAN]
  BY DEF CentralTypes
<1>3. pass' = [pass EXCEPT ![t] = k] /\ exit' = [exit EXCEPT ![t] = -1]
  BY DEF BeginPass
<1>4. rclone' = [rclone EXCEPT ![t] = "thread"]
  BY DEF BeginPass
<1>5. full' = [full EXCEPT ![t] = FALSE]
  BY DEF BeginPass
<1>6. pass' \in [Tasks -> Nat] /\ exit' \in [Tasks -> {-1, 0, 1}]
  BY <1>1, <1>3
<1>7. rclone' \in [Tasks -> Threads]
  BY <1>1, <1>4 DEF Threads
<1>8. full' \in [Tasks -> BOOLEAN]
  BY <1>2, <1>5
<1> QED BY <1>6, <1>7, <1>8

\* A step keeps the types.
LEMMA TypesKept ==
    ASSUME CentralTypes, [CentralNext]_centralVars
    PROVE  CentralTypes'
<1>1. ASSUME NEW j \in Jobs, CreateJob(j) PROVE CentralTypes'
  BY <1>1 DEF CreateJob, CentralTypes, JobStates, requestVars, taskVars, runVars, nodeVars, clockVars
<1>2. ASSUME NEW j \in Jobs, QueueTask(j) PROVE CentralTypes'
  BY <1>2 DEF QueueTask, CentralTypes, Phases, Waiting, Tasks, requestVars, taskVars, runVars, nodeVars, clockVars
<1>3. ASSUME NEW j \in Jobs, QueueFails(j) PROVE CentralTypes'
  BY <1>3 DEF QueueFails, CentralTypes, JobStates, requestVars, taskVars, runVars, nodeVars, clockVars
<1>4. ASSUME NEW j \in Jobs, CreateCrash(j) PROVE CentralTypes'
  BY <1>4 DEF CreateCrash, CentralTypes, requestVars, taskVars, runVars, nodeVars, clockVars
<1>5. ASSUME NEW j \in Jobs, DeleteJob(j) PROVE CentralTypes'
  BY <1>5 DEF DeleteJob, CentralTypes, JobStates, requestVars, taskVars, runVars, nodeVars, clockVars
<1>6. ASSUME NEW j \in Jobs, StopRead(j) PROVE CentralTypes'
  BY <1>6 DEF StopRead, CentralTypes, requestVars, taskVars, runVars, nodeVars, clockVars
<1>7. ASSUME NEW j \in Jobs, StopRevoke(j) PROVE CentralTypes'
  BY <1>7 DEF StopRevoke, CentralTypes, requestVars, taskVars, runVars, nodeVars, clockVars
<1>8. ASSUME NEW j \in Jobs, StopWrite(j) PROVE CentralTypes'
  BY <1>8 DEF StopWrite, CentralTypes, JobStates, requestVars, taskVars, runVars, nodeVars, clockVars
<1>9. ASSUME NEW j \in Jobs, StopCrash(j) PROVE CentralTypes'
  BY <1>9 DEF StopCrash, CentralTypes, requestVars, taskVars, runVars, nodeVars, clockVars
<1>10. ASSUME NEW j \in Jobs, Redeliver(j) PROVE CentralTypes'
  BY <1>10 DEF Redeliver, CentralTypes, Phases, Waiting, Tasks, requestVars, taskVars, runVars, nodeVars, clockVars
<1>11. ASSUME NEW j \in Jobs, Revoke(j) PROVE CentralTypes'
  BY <1>11 DEF Revoke, CentralTypes, requestVars, taskVars, runVars, nodeVars, clockVars
<1>12. ASSUME NEW j \in Jobs, LoseRevoke(j) PROVE CentralTypes'
  BY <1>12 DEF LoseRevoke, CentralTypes, requestVars, taskVars, runVars, nodeVars, clockVars
<1>13. ASSUME NEW t \in Tasks, Fetch(t) PROVE CentralTypes'
  BY <1>13 DEF Fetch, CentralTypes, Phases, Waiting, requestVars, taskVars, runVars, nodeVars, clockVars
<1>14. ASSUME NEW t \in Tasks, Discard(t) PROVE CentralTypes'
  BY <1>14 DEF Discard, CentralTypes, Phases, Over, requestVars, taskVars, runVars, nodeVars, clockVars
<1>15. ASSUME NEW t \in Tasks, TaskStarts(t) PROVE CentralTypes'
  BY <1>15 DEF TaskStarts, CentralTypes, Phases, Alive, Tasks, requestVars, taskVars, runVars, nodeVars, clockVars
<1>16. ASSUME NEW t \in Tasks, CommitProgress(t) PROVE CentralTypes'
  <2>1. t[1] \in Jobs
    BY DEF Tasks
  <2>2. jobState' = jobState \/ jobState' = [jobState EXCEPT ![t[1]] = "PROGRESS"]
    BY <1>16, <2>1, Same DEF CommitProgress, CentralTypes
  <2>3. \E p \in {"ready", "failing"} : phase' = [phase EXCEPT ![t] = p]
    BY <1>16 DEF CommitProgress
  <2>4. jobState' \in [Jobs -> JobStates]
    BY <2>2 DEF CentralTypes, JobStates
  <2>5. phase' \in [Tasks -> Phases]
    BY <2>3 DEF CentralTypes, Phases, Alive
  <2> QED BY <1>16, <2>4, <2>5 DEF CommitProgress, CentralTypes, runVars, nodeVars, clockVars
<1>17. ASSUME NEW t \in Tasks, StartRun(t) PROVE CentralTypes'
  <2>1. CASE Exists(t[1])
    <3>1. phase' = [phase EXCEPT ![t] = "running"] /\ BeginPass(t, 1)
      BY <1>17, <2>1 DEF StartRun
    <3>2. phase' \in [Tasks -> Phases]
      BY <3>1 DEF CentralTypes, Phases, Alive
    <3> QED BY <1>17, <3>1, <3>2, RunBegins DEF StartRun, CentralTypes, requestVars, nodeVars, clockVars
  <2>2. CASE ~Exists(t[1])
    BY <1>17, <2>2 DEF StartRun, CentralTypes, Phases, Alive, requestVars, nodeVars, clockVars
  <2> QED BY <2>1, <2>2
<1>18. ASSUME NEW t \in Tasks, WatchEnds(t) PROVE CentralTypes'
  <2>1. CASE exit[t] = 0 /\ pass[t] < Passes[t[1]]
    <3>1. BeginPass(t, pass[t] + 1) /\ pass[t] + 1 \in Nat
      BY <1>18, <2>1 DEF WatchEnds, CentralTypes
    <3> QED BY <1>18, <2>1, <3>1, RunBegins DEF WatchEnds, CentralTypes, requestVars, nodeVars, clockVars
  <2>2. CASE ~(exit[t] = 0 /\ pass[t] < Passes[t[1]])
    BY <1>18, <2>2 DEF WatchEnds, CentralTypes, Phases, Alive, requestVars, nodeVars, clockVars
  <2> QED BY <2>1, <2>2
<1>19. ASSUME NEW t \in Tasks, CommitOutcome(t) PROVE CentralTypes'
  <2>1. t[1] \in Jobs
    BY DEF Tasks
  <2>2. jobState' \in [Jobs -> JobStates]
    BY <1>19, <2>1 DEF CommitOutcome, CentralTypes, JobStates, ExitState
  <2>3. phase' \in [Tasks -> Phases]
    BY <1>19 DEF CommitOutcome, CentralTypes, Phases, Alive
  <2> QED BY <1>19, <2>2, <2>3 DEF CommitOutcome, CentralTypes, runVars, nodeVars, clockVars
<1>20. ASSUME NEW t \in Tasks, MailOutcome(t) PROVE CentralTypes'
  <2>1. t[1] \in Jobs
    BY DEF Tasks
  <2>2. mail' = mail \/ \E told \in {"SUCCESS", "FAILED"} :
                           mail' = [mail EXCEPT ![t[1]] = Append(mail[t[1]], told)]
    BY <1>20 DEF MailOutcome, ExitState
  <2>3. \E p \in {"done", "failing"} : phase' = [phase EXCEPT ![t] = p]
    BY <1>20 DEF MailOutcome
  <2>4. mail' \in [Jobs -> Seq({"SUCCESS", "FAILED"})]
    <3>1. \A told \in {"SUCCESS", "FAILED"} : Append(mail[t[1]], told) \in Seq({"SUCCESS", "FAILED"})
      BY <2>1, AppendProperties DEF CentralTypes
    <3> QED BY <2>1, <2>2, <3>1 DEF CentralTypes
  <2>5. phase' \in [Tasks -> Phases]
    BY <2>3 DEF CentralTypes, Phases, Alive, Over
  <2> QED BY <1>20, <2>4, <2>5 DEF MailOutcome, CentralTypes, runVars, nodeVars, clockVars
<1>21. ASSUME NEW t \in Tasks, CommitFailed(t) PROVE CentralTypes'
  <2>1. t[1] \in Jobs
    BY DEF Tasks
  <2>2. jobState' \in [Jobs -> JobStates]
    BY <1>21, <2>1 DEF CommitFailed, CentralTypes, JobStates
  <2>3. \E p \in {"apology", "done"} : phase' = [phase EXCEPT ![t] = p]
    BY <1>21 DEF CommitFailed
  <2>4. phase' \in [Tasks -> Phases]
    BY <2>3 DEF CentralTypes, Phases, Alive, Over
  <2> QED BY <1>21, <2>2, <2>4 DEF CommitFailed, CentralTypes, runVars, nodeVars, clockVars
<1>22. ASSUME NEW t \in Tasks, MailFailed(t) PROVE CentralTypes'
  BY <1>22 DEF MailFailed, CentralTypes, Phases, Over, Tasks, requestVars, taskVars, runVars, nodeVars, clockVars
<1>23. ASSUME NEW t \in Tasks, TakeSignal(t) PROVE CentralTypes'
  BY <1>23 DEF TakeSignal, CentralTypes, Phases, Over, Threads, requestVars, taskVars, runVars, nodeVars, clockVars
<1>24. ASSUME NEW t \in Tasks, Popen(t) PROVE CentralTypes'
  BY <1>24 DEF Popen, CentralTypes, Threads, requestVars, taskVars, runVars, nodeVars, clockVars
<1>25. ASSUME NEW t \in Tasks, Register(t) PROVE CentralTypes'
  BY <1>25 DEF Register, CentralTypes, Threads, requestVars, taskVars, runVars, nodeVars, clockVars
<1>26. ASSUME NEW t \in Tasks, RcloneExits(t) PROVE CentralTypes'
  BY <1>26 DEF RcloneExits, CentralTypes, Threads, requestVars, taskVars, runVars, nodeVars, clockVars
<1>27. ASSUME NEW t \in Tasks, ThreadEnds(t) PROVE CentralTypes'
  BY <1>27 DEF ThreadEnds, CentralTypes, requestVars, taskVars, runVars, nodeVars, clockVars
<1>28. ASSUME NEW t \in Tasks, TaskRaises(t) PROVE CentralTypes'
  BY <1>28 DEF TaskRaises, CentralTypes, Phases, Alive, requestVars, taskVars, runVars, nodeVars, clockVars
<1>29. ASSUME NEW t \in Tasks, ProcessLost(t) PROVE CentralTypes'
  BY <1>29 DEF ProcessLost, CentralTypes, Phases, Over, Threads, requestVars, taskVars, runVars, nodeVars, clockVars
<1>30. ASSUME NEW t \in Tasks, PopenFails(t) PROVE CentralTypes'
  BY <1>30 DEF PopenFails, CentralTypes, Threads, requestVars, taskVars, runVars, nodeVars, clockVars
<1>31. ASSUME NEW t \in Tasks, FullLine(t) PROVE CentralTypes'
  BY <1>31 DEF FullLine, CentralTypes, Threads, requestVars, taskVars, runVars, nodeVars, clockVars
<1>32. ASSUME NodeRestart PROVE CentralTypes'
  <2>1. phase' \in [Tasks -> Phases]
    BY <1>32 DEF NodeRestart, CentralTypes, Phases, Over, Waiting
  <2>2. rclone' \in [Tasks -> Threads]
    BY <1>32 DEF NodeRestart, CentralTypes, Threads
  <2>3. clean' \in [Tasks -> BOOLEAN]
    BY <1>32 DEF NodeRestart, CentralTypes
  <2> QED BY <1>32, <2>1, <2>2, <2>3 DEF NodeRestart, CentralTypes, requestVars, clockVars
<1>33. ASSUME CentralTick PROVE CentralTypes'
  BY <1>33 DEF CentralTick, CentralTypes, requestVars, taskVars, runVars, nodeVars, clockVars
<1>34. ASSUME UNCHANGED centralVars PROVE CentralTypes'
  BY <1>34 DEF CentralTypes, centralVars
<1> QED
  BY <1>1, <1>2, <1>3, <1>4, <1>5, <1>6, <1>7, <1>8, <1>9, <1>10, <1>11, <1>12, <1>13, <1>14, <1>15, <1>16, <1>17, <1>18, <1>19, <1>20, <1>21, <1>22, <1>23, <1>24, <1>25, <1>26, <1>27, <1>28, <1>29, <1>30, <1>31, <1>32, <1>33, <1>34
     DEF CentralNext, CreateStep, StopStep, NodeStep, TaskGoesOn, TaskFault

-----------------------------------------------------------------------------
(* The run of a task: its process, its status, what it has seen.             *)

\* At first no task has run anything.
LEMMA RunsStart == CentralInit => RunsInv
BY CentralAssumption DEF CentralInit, RunsInv, FreshTask, MarkedRun, CountedRun, TrueExit, LastRun, Tasks

\* Steps that touch no phase and no run change nothing that is known of the runs.
LEMMA RunsFrame ==
    ASSUME RunsInv, UNCHANGED <<phase, pass, rclone, exit, full, clean>>
    PROVE  RunsInv'
BY DEF RunsInv, FreshTask, MarkedRun, CountedRun, TrueExit, LastRun

\* A step keeps what is known of the runs.
LEMMA RunsKept ==
    ASSUME CentralTypes, RunsInv, CreatedFirst, [CentralNext]_centralVars
    PROVE  RunsInv'
<1>1. ASSUME NEW j \in Jobs, CreateJob(j) PROVE RunsInv'
  BY <1>1, RunsFrame DEF CreateJob, taskVars, runVars
<1>2. ASSUME NEW j \in Jobs, QueueTask(j) PROVE RunsInv'
  BY <1>2 DEF QueueTask, RunsInv, FreshTask, MarkedRun, CountedRun, TrueExit, LastRun, CentralTypes, CreatedFirst, NotRun, Waiting, Tasks, runVars
<1>3. ASSUME NEW j \in Jobs, QueueFails(j) PROVE RunsInv'
  BY <1>3, RunsFrame DEF QueueFails, taskVars, runVars
<1>4. ASSUME NEW j \in Jobs, CreateCrash(j) PROVE RunsInv'
  BY <1>4, RunsFrame DEF CreateCrash, taskVars, runVars
<1>5. ASSUME NEW j \in Jobs, DeleteJob(j) PROVE RunsInv'
  BY <1>5, RunsFrame DEF DeleteJob, taskVars, runVars
<1>6. ASSUME NEW j \in Jobs, StopRead(j) PROVE RunsInv'
  BY <1>6, RunsFrame DEF StopRead, taskVars, runVars
<1>7. ASSUME NEW j \in Jobs, StopRevoke(j) PROVE RunsInv'
  BY <1>7, RunsFrame DEF StopRevoke, taskVars, runVars
<1>8. ASSUME NEW j \in Jobs, StopWrite(j) PROVE RunsInv'
  BY <1>8, RunsFrame DEF StopWrite, taskVars, runVars
<1>9. ASSUME NEW j \in Jobs, StopCrash(j) PROVE RunsInv'
  BY <1>9, RunsFrame DEF StopCrash, taskVars, runVars
<1>10. ASSUME NEW j \in Jobs, Redeliver(j) PROVE RunsInv'
  <2>1. \A t \in Tasks : phase'[t] = phase[t] \/ (phase[t] = "none" /\ phase'[t] = "broker")
    BY <1>10 DEF Redeliver, CentralTypes, Tasks
  <2> QED BY <1>10, <2>1 DEF Redeliver, RunsInv, FreshTask, MarkedRun, CountedRun, TrueExit, LastRun, NotRun, Waiting, runVars
<1>11. ASSUME NEW j \in Jobs, Revoke(j) PROVE RunsInv'
  BY <1>11, RunsFrame DEF Revoke, taskVars, runVars
<1>12. ASSUME NEW j \in Jobs, LoseRevoke(j) PROVE RunsInv'
  BY <1>12, RunsFrame DEF LoseRevoke, taskVars, runVars
<1>13. ASSUME NEW t \in Tasks, Fetch(t) PROVE RunsInv'
  BY <1>13 DEF Fetch, RunsInv, FreshTask, MarkedRun, CountedRun, TrueExit, LastRun, CentralTypes, NotRun, Waiting, runVars
<1>14. ASSUME NEW t \in Tasks, Discard(t) PROVE RunsInv'
  BY <1>14 DEF Discard, RunsInv, FreshTask, MarkedRun, CountedRun, TrueExit, LastRun, CentralTypes, NotRun, Waiting, runVars
<1>15. ASSUME NEW t \in Tasks, TaskStarts(t) PROVE RunsInv'
  BY <1>15 DEF TaskStarts, RunsInv, FreshTask, MarkedRun, CountedRun, TrueExit, LastRun, CentralTypes, NotRun, Waiting, runVars
<1>16. ASSUME NEW t \in Tasks, CommitProgress(t) PROVE RunsInv'
  BY <1>16 DEF CommitProgress, RunsInv, FreshTask, MarkedRun, CountedRun, TrueExit, LastRun, CentralTypes, NotRun, runVars
<1>17. ASSUME NEW t \in Tasks, StartRun(t) PROVE RunsInv'
  <2>1. CASE Exists(t[1])
    <3>1. pass[t] = 0 /\ clean[t] /\ Passes[t[1]] >= 1
      BY <1>17, PassesType DEF StartRun, RunsInv, FreshTask, MarkedRun, NotRun
    <3>2. phase'[t] = "running" /\ pass'[t] = 1 /\ exit'[t] = -1 /\ clean'[t]
      BY <1>17, <2>1, <3>1 DEF StartRun, BeginPass, CentralTypes
    <3>3. \A u \in Tasks \ {t} : /\ phase'[u] = phase[u] /\ pass'[u] = pass[u] /\ rclone'[u] = rclone[u]
                                /\ exit'[u] = exit[u] /\ full'[u] = full[u] /\ clean'[u] = clean[u]
      BY <1>17, <2>1 DEF StartRun, BeginPass, CentralTypes
    <3> QED BY <3>1, <3>2, <3>3 DEF RunsInv, FreshTask, MarkedRun, CountedRun, TrueExit, LastRun, NotRun, Waiting
  <2>2. CASE ~Exists(t[1])
    BY <1>17, <2>2 DEF StartRun, RunsInv, FreshTask, MarkedRun, CountedRun, TrueExit, LastRun, CentralTypes, NotRun, Waiting
  <2> QED BY <2>1, <2>2
<1>18. ASSUME NEW t \in Tasks, WatchEnds(t) PROVE RunsInv'
  <2>1. CASE exit[t] = 0 /\ pass[t] < Passes[t[1]]
    <3>1. clean[t] /\ pass[t] + 1 =< Passes[t[1]]
      BY <1>18, <2>1, PassesType DEF RunsInv, TrueExit, CentralTypes
    <3>2. phase'[t] = "running" /\ pass'[t] = pass[t] + 1 /\ exit'[t] = -1 /\ clean'[t]
      BY <1>18, <2>1, <3>1 DEF WatchEnds, BeginPass, CentralTypes
    <3>3. \A u \in Tasks \ {t} : /\ phase'[u] = phase[u] /\ pass'[u] = pass[u] /\ rclone'[u] = rclone[u]
                                /\ exit'[u] = exit[u] /\ full'[u] = full[u] /\ clean'[u] = clean[u]
      BY <1>18, <2>1 DEF WatchEnds, BeginPass, CentralTypes
    <3> QED BY <3>1, <3>2, <3>3 DEF RunsInv, FreshTask, MarkedRun, CountedRun, TrueExit, LastRun, NotRun, Waiting
  <2>2. CASE ~(exit[t] = 0 /\ pass[t] < Passes[t[1]])
    <3>1. exit[t] = 0 => pass[t] = Passes[t[1]]
      BY <2>2, PassesType DEF RunsInv, CountedRun, CentralTypes
    <3> QED BY <1>18, <2>2, <3>1 DEF WatchEnds, RunsInv, FreshTask, MarkedRun, CountedRun, TrueExit, LastRun, CentralTypes, NotRun, Waiting
  <2> QED BY <2>1, <2>2
<1>19. ASSUME NEW t \in Tasks, CommitOutcome(t) PROVE RunsInv'
  BY <1>19 DEF CommitOutcome, RunsInv, FreshTask, MarkedRun, CountedRun, TrueExit, LastRun, CentralTypes, NotRun, Waiting, runVars
<1>20. ASSUME NEW t \in Tasks, MailOutcome(t) PROVE RunsInv'
  BY <1>20 DEF MailOutcome, RunsInv, FreshTask, MarkedRun, CountedRun, TrueExit, LastRun, CentralTypes, NotRun, Waiting, runVars
<1>21. ASSUME NEW t \in Tasks, CommitFailed(t) PROVE RunsInv'
  BY <1>21 DEF CommitFailed, RunsInv, FreshTask, MarkedRun, CountedRun, TrueExit, LastRun, CentralTypes, NotRun, Waiting, runVars
<1>22. ASSUME NEW t \in Tasks, MailFailed(t) PROVE RunsInv'
  BY <1>22 DEF MailFailed, RunsInv, FreshTask, MarkedRun, CountedRun, TrueExit, LastRun, CentralTypes, NotRun, Waiting, runVars
<1>23. ASSUME NEW t \in Tasks, TakeSignal(t) PROVE RunsInv'
  BY <1>23 DEF TakeSignal, RunsInv, FreshTask, MarkedRun, CountedRun, TrueExit, LastRun, CentralTypes, NotRun, Waiting
<1>24. ASSUME NEW t \in Tasks, Popen(t) PROVE RunsInv'
  BY <1>24 DEF Popen, RunsInv, FreshTask, MarkedRun, CountedRun, TrueExit, LastRun, CentralTypes, taskVars
<1>25. ASSUME NEW t \in Tasks, Register(t) PROVE RunsInv'
  BY <1>25 DEF Register, RunsInv, FreshTask, MarkedRun, CountedRun, TrueExit, LastRun, CentralTypes, taskVars
<1>26. ASSUME NEW t \in Tasks, RcloneExits(t) PROVE RunsInv'
  BY <1>26 DEF RcloneExits, RunsInv, FreshTask, MarkedRun, CountedRun, TrueExit, LastRun, CentralTypes, taskVars
<1>27. ASSUME NEW t \in Tasks, ThreadEnds(t) PROVE RunsInv'
  BY <1>27 DEF ThreadEnds, RunsInv, FreshTask, MarkedRun, CountedRun, TrueExit, LastRun, CentralTypes, taskVars, NotRun, Waiting
<1>28. ASSUME NEW t \in Tasks, TaskRaises(t) PROVE RunsInv'
  BY <1>28 DEF TaskRaises, RunsInv, FreshTask, MarkedRun, CountedRun, TrueExit, LastRun, CentralTypes, NotRun, Waiting, runVars
<1>29. ASSUME NEW t \in Tasks, ProcessLost(t) PROVE RunsInv'
  BY <1>29 DEF ProcessLost, RunsInv, FreshTask, MarkedRun, CountedRun, TrueExit, LastRun, CentralTypes, NotRun, Waiting
<1>30. ASSUME NEW t \in Tasks, PopenFails(t) PROVE RunsInv'
  BY <1>30 DEF PopenFails, RunsInv, FreshTask, MarkedRun, CountedRun, TrueExit, LastRun, CentralTypes, taskVars
<1>31. ASSUME NEW t \in Tasks, FullLine(t) PROVE RunsInv'
  BY <1>31 DEF FullLine, RunsInv, FreshTask, MarkedRun, CountedRun, TrueExit, LastRun, CentralTypes, taskVars
<1>32. ASSUME NodeRestart PROVE RunsInv'
  BY <1>32 DEF NodeRestart, RunsInv, FreshTask, MarkedRun, CountedRun, TrueExit, LastRun, CentralTypes, NotRun, Waiting, Executing, Alive, Threads
<1>33. ASSUME CentralTick PROVE RunsInv'
  BY <1>33, RunsFrame DEF CentralTick, taskVars, runVars
<1>34. ASSUME UNCHANGED centralVars PROVE RunsInv'
  BY <1>34, RunsFrame DEF centralVars
<1> QED
  BY <1>1, <1>2, <1>3, <1>4, <1>5, <1>6, <1>7, <1>8, <1>9, <1>10, <1>11, <1>12, <1>13, <1>14, <1>15, <1>16, <1>17, <1>18, <1>19, <1>20, <1>21, <1>22, <1>23, <1>24, <1>25, <1>26, <1>27, <1>28, <1>29, <1>30, <1>31, <1>32, <1>33, <1>34
     DEF CentralNext, CreateStep, StopStep, NodeStep, TaskGoesOn, TaskFault

-----------------------------------------------------------------------------
(* The request that creates a job, and SIGTERM.                              *)

\* Steps that touch neither the creator nor a phase.
LEMMA CreatedFrame ==
    ASSUME CreatedFirst, UNCHANGED <<creator, phase>>
    PROVE  CreatedFirst'
BY DEF CreatedFirst

\* Nothing else queues a job.
LEMMA CreatedKept ==
    ASSUME CentralTypes, CreatedFirst, [CentralNext]_centralVars
    PROVE  CreatedFirst'
<1>1. ASSUME NEW j \in Jobs, CreateJob(j) PROVE CreatedFirst'
  BY <1>1 DEF CreateJob, CreatedFirst, CentralTypes, Tasks, taskVars
<1>2. ASSUME NEW j \in Jobs, QueueTask(j) PROVE CreatedFirst'
  BY <1>2 DEF QueueTask, CreatedFirst, CentralTypes, Tasks
<1>3. ASSUME NEW j \in Jobs, QueueFails(j) PROVE CreatedFirst'
  BY <1>3 DEF QueueFails, CreatedFirst, CentralTypes, Tasks, taskVars
<1>4. ASSUME NEW j \in Jobs, CreateCrash(j) PROVE CreatedFirst'
  BY <1>4 DEF CreateCrash, CreatedFirst, CentralTypes, Tasks, taskVars
<1>5. ASSUME NEW j \in Jobs, DeleteJob(j) PROVE CreatedFirst'
  BY <1>5, CreatedFrame DEF DeleteJob, requestVars, taskVars
<1>6. ASSUME NEW j \in Jobs, StopRead(j) PROVE CreatedFirst'
  BY <1>6, CreatedFrame DEF StopRead, requestVars, taskVars
<1>7. ASSUME NEW j \in Jobs, StopRevoke(j) PROVE CreatedFirst'
  BY <1>7, CreatedFrame DEF StopRevoke, requestVars, taskVars
<1>8. ASSUME NEW j \in Jobs, StopWrite(j) PROVE CreatedFirst'
  BY <1>8, CreatedFrame DEF StopWrite, requestVars, taskVars
<1>9. ASSUME NEW j \in Jobs, StopCrash(j) PROVE CreatedFirst'
  BY <1>9, CreatedFrame DEF StopCrash, requestVars, taskVars
<1>10. ASSUME NEW j \in Jobs, Redeliver(j) PROVE CreatedFirst'
  BY <1>10 DEF Redeliver, CreatedFirst, CentralTypes, Tasks, requestVars
<1>11. ASSUME NEW j \in Jobs, Revoke(j) PROVE CreatedFirst'
  BY <1>11, CreatedFrame DEF Revoke, requestVars, taskVars
<1>12. ASSUME NEW j \in Jobs, LoseRevoke(j) PROVE CreatedFirst'
  BY <1>12, CreatedFrame DEF LoseRevoke, requestVars, taskVars
<1>13. ASSUME NEW t \in Tasks, Fetch(t) PROVE CreatedFirst'
  BY <1>13 DEF Fetch, CreatedFirst, CentralTypes, Tasks, requestVars
<1>14. ASSUME NEW t \in Tasks, Discard(t) PROVE CreatedFirst'
  BY <1>14 DEF Discard, CreatedFirst, CentralTypes, Tasks, requestVars
<1>15. ASSUME NEW t \in Tasks, TaskStarts(t) PROVE CreatedFirst'
  BY <1>15 DEF TaskStarts, CreatedFirst, CentralTypes, Tasks, requestVars
<1>16. ASSUME NEW t \in Tasks, CommitProgress(t) PROVE CreatedFirst'
  BY <1>16 DEF CommitProgress, CreatedFirst, CentralTypes, Tasks
<1>17. ASSUME NEW t \in Tasks, StartRun(t) PROVE CreatedFirst'
  BY <1>17 DEF StartRun, CreatedFirst, CentralTypes, Tasks, requestVars
<1>18. ASSUME NEW t \in Tasks, WatchEnds(t) PROVE CreatedFirst'
  BY <1>18 DEF WatchEnds, CreatedFirst, CentralTypes, Tasks, requestVars
<1>19. ASSUME NEW t \in Tasks, CommitOutcome(t) PROVE CreatedFirst'
  BY <1>19 DEF CommitOutcome, CreatedFirst, CentralTypes, Tasks
<1>20. ASSUME NEW t \in Tasks, MailOutcome(t) PROVE CreatedFirst'
  BY <1>20 DEF MailOutcome, CreatedFirst, CentralTypes, Tasks
<1>21. ASSUME NEW t \in Tasks, CommitFailed(t) PROVE CreatedFirst'
  BY <1>21 DEF CommitFailed, CreatedFirst, CentralTypes, Tasks
<1>22. ASSUME NEW t \in Tasks, MailFailed(t) PROVE CreatedFirst'
  BY <1>22 DEF MailFailed, CreatedFirst, CentralTypes, Tasks
<1>23. ASSUME NEW t \in Tasks, TakeSignal(t) PROVE CreatedFirst'
  BY <1>23 DEF TakeSignal, CreatedFirst, CentralTypes, Tasks, requestVars, Alive
<1>24. ASSUME NEW t \in Tasks, Popen(t) PROVE CreatedFirst'
  BY <1>24, CreatedFrame DEF Popen, requestVars, taskVars
<1>25. ASSUME NEW t \in Tasks, Register(t) PROVE CreatedFirst'
  BY <1>25, CreatedFrame DEF Register, requestVars, taskVars
<1>26. ASSUME NEW t \in Tasks, RcloneExits(t) PROVE CreatedFirst'
  BY <1>26, CreatedFrame DEF RcloneExits, requestVars, taskVars
<1>27. ASSUME NEW t \in Tasks, ThreadEnds(t) PROVE CreatedFirst'
  BY <1>27, CreatedFrame DEF ThreadEnds, requestVars, taskVars
<1>28. ASSUME NEW t \in Tasks, TaskRaises(t) PROVE CreatedFirst'
  BY <1>28 DEF TaskRaises, CreatedFirst, CentralTypes, Tasks, requestVars
<1>29. ASSUME NEW t \in Tasks, ProcessLost(t) PROVE CreatedFirst'
  BY <1>29 DEF ProcessLost, CreatedFirst, CentralTypes, Tasks, requestVars, Alive
<1>30. ASSUME NEW t \in Tasks, PopenFails(t) PROVE CreatedFirst'
  BY <1>30, CreatedFrame DEF PopenFails, requestVars, taskVars
<1>31. ASSUME NEW t \in Tasks, FullLine(t) PROVE CreatedFirst'
  BY <1>31, CreatedFrame DEF FullLine, requestVars, taskVars
<1>32. ASSUME NodeRestart PROVE CreatedFirst'
  BY <1>32 DEF NodeRestart, CreatedFirst, CentralTypes, Tasks, Executing, Alive, requestVars
<1>33. ASSUME CentralTick PROVE CreatedFirst'
  BY <1>33, CreatedFrame DEF CentralTick, requestVars, taskVars
<1>34. ASSUME UNCHANGED centralVars PROVE CreatedFirst'
  BY <1>34, CreatedFrame DEF centralVars
<1> QED
  BY <1>1, <1>2, <1>3, <1>4, <1>5, <1>6, <1>7, <1>8, <1>9, <1>10, <1>11, <1>12, <1>13, <1>14, <1>15, <1>16, <1>17, <1>18, <1>19, <1>20, <1>21, <1>22, <1>23, <1>24, <1>25, <1>26, <1>27, <1>28, <1>29, <1>30, <1>31, <1>32, <1>33, <1>34
     DEF CentralNext, CreateStep, StopStep, NodeStep, TaskGoesOn, TaskFault

\* Steps that touch neither a phase nor a signal.
LEMMA SignalFrame ==
    ASSUME SignalEnds, UNCHANGED <<phase, signal>>
    PROVE  SignalEnds'
BY DEF SignalEnds

\* No step revives a process.
LEMMA SignalKept ==
    ASSUME CentralTypes, CreatedFirst, SignalEnds, [CentralNext]_centralVars
    PROVE  SignalEnds'
<1>1. ASSUME NEW j \in Jobs, CreateJob(j) PROVE SignalEnds'
  BY <1>1, SignalFrame DEF CreateJob, taskVars
<1>2. ASSUME NEW j \in Jobs, QueueTask(j) PROVE SignalEnds'
  BY <1>2 DEF QueueTask, SignalEnds, CentralTypes, CreatedFirst, Tasks
<1>3. ASSUME NEW j \in Jobs, QueueFails(j) PROVE SignalEnds'
  BY <1>3, SignalFrame DEF QueueFails, taskVars
<1>4. ASSUME NEW j \in Jobs, CreateCrash(j) PROVE SignalEnds'
  BY <1>4, SignalFrame DEF CreateCrash, taskVars
<1>5. ASSUME NEW j \in Jobs, DeleteJob(j) PROVE SignalEnds'
  BY <1>5, SignalFrame DEF DeleteJob, taskVars
<1>6. ASSUME NEW j \in Jobs, StopRead(j) PROVE SignalEnds'
  BY <1>6, SignalFrame DEF StopRead, taskVars
<1>7. ASSUME NEW j \in Jobs, StopRevoke(j) PROVE SignalEnds'
  BY <1>7, SignalFrame DEF StopRevoke, taskVars
<1>8. ASSUME NEW j \in Jobs, StopWrite(j) PROVE SignalEnds'
  BY <1>8, SignalFrame DEF StopWrite, taskVars
<1>9. ASSUME NEW j \in Jobs, StopCrash(j) PROVE SignalEnds'
  BY <1>9, SignalFrame DEF StopCrash, taskVars
<1>10. ASSUME NEW j \in Jobs, Redeliver(j) PROVE SignalEnds'
  BY <1>10 DEF Redeliver, SignalEnds, CentralTypes, Tasks
<1>11. ASSUME NEW j \in Jobs, Revoke(j) PROVE SignalEnds'
  BY <1>11 DEF Revoke, SignalEnds, CentralTypes, Executing, Alive
<1>12. ASSUME NEW j \in Jobs, LoseRevoke(j) PROVE SignalEnds'
  BY <1>12, SignalFrame DEF LoseRevoke, taskVars
<1>13. ASSUME NEW t \in Tasks, Fetch(t) PROVE SignalEnds'
  BY <1>13 DEF Fetch, SignalEnds, CentralTypes
<1>14. ASSUME NEW t \in Tasks, Discard(t) PROVE SignalEnds'
  BY <1>14 DEF Discard, SignalEnds, CentralTypes
<1>15. ASSUME NEW t \in Tasks, TaskStarts(t) PROVE SignalEnds'
  BY <1>15 DEF TaskStarts, SignalEnds, CentralTypes
<1>16. ASSUME NEW t \in Tasks, CommitProgress(t) PROVE SignalEnds'
  BY <1>16 DEF CommitProgress, SignalEnds, CentralTypes
<1>17. ASSUME NEW t \in Tasks, StartRun(t) PROVE SignalEnds'
  BY <1>17 DEF StartRun, SignalEnds, CentralTypes
<1>18. ASSUME NEW t \in Tasks, WatchEnds(t) PROVE SignalEnds'
  BY <1>18 DEF WatchEnds, SignalEnds, CentralTypes
<1>19. ASSUME NEW t \in Tasks, CommitOutcome(t) PROVE SignalEnds'
  BY <1>19 DEF CommitOutcome, SignalEnds, CentralTypes
<1>20. ASSUME NEW t \in Tasks, MailOutcome(t) PROVE SignalEnds'
  BY <1>20 DEF MailOutcome, SignalEnds, CentralTypes
<1>21. ASSUME NEW t \in Tasks, CommitFailed(t) PROVE SignalEnds'
  BY <1>21 DEF CommitFailed, SignalEnds, CentralTypes
<1>22. ASSUME NEW t \in Tasks, MailFailed(t) PROVE SignalEnds'
  BY <1>22 DEF MailFailed, SignalEnds, CentralTypes
<1>23. ASSUME NEW t \in Tasks, TakeSignal(t) PROVE SignalEnds'
  BY <1>23 DEF TakeSignal, SignalEnds, CentralTypes
<1>24. ASSUME NEW t \in Tasks, Popen(t) PROVE SignalEnds'
  BY <1>24, SignalFrame DEF Popen, taskVars
<1>25. ASSUME NEW t \in Tasks, Register(t) PROVE SignalEnds'
  BY <1>25, SignalFrame DEF Register, taskVars
<1>26. ASSUME NEW t \in Tasks, RcloneExits(t) PROVE SignalEnds'
  BY <1>26, SignalFrame DEF RcloneExits, taskVars
<1>27. ASSUME NEW t \in Tasks, ThreadEnds(t) PROVE SignalEnds'
  BY <1>27, SignalFrame DEF ThreadEnds, taskVars
<1>28. ASSUME NEW t \in Tasks, TaskRaises(t) PROVE SignalEnds'
  BY <1>28 DEF TaskRaises, SignalEnds, CentralTypes
<1>29. ASSUME NEW t \in Tasks, ProcessLost(t) PROVE SignalEnds'
  BY <1>29 DEF ProcessLost, SignalEnds, CentralTypes
<1>30. ASSUME NEW t \in Tasks, PopenFails(t) PROVE SignalEnds'
  BY <1>30, SignalFrame DEF PopenFails, taskVars
<1>31. ASSUME NEW t \in Tasks, FullLine(t) PROVE SignalEnds'
  BY <1>31, SignalFrame DEF FullLine, taskVars
<1>32. ASSUME NodeRestart PROVE SignalEnds'
  BY <1>32 DEF NodeRestart, SignalEnds, CentralTypes, Executing, Alive
<1>33. ASSUME CentralTick PROVE SignalEnds'
  BY <1>33, SignalFrame DEF CentralTick, taskVars
<1>34. ASSUME UNCHANGED centralVars PROVE SignalEnds'
  BY <1>34, SignalFrame DEF centralVars
<1> QED
  BY <1>1, <1>2, <1>3, <1>4, <1>5, <1>6, <1>7, <1>8, <1>9, <1>10, <1>11, <1>12, <1>13, <1>14, <1>15, <1>16, <1>17, <1>18, <1>19, <1>20, <1>21, <1>22, <1>23, <1>24, <1>25, <1>26, <1>27, <1>28, <1>29, <1>30, <1>31, <1>32, <1>33, <1>34
     DEF CentralNext, CreateStep, StopStep, NodeStep, TaskGoesOn, TaskFault

-----------------------------------------------------------------------------
(* Success.                                                                  *)

\* Every rclone of the task ended with status 0 and never reported a full destination.
Earned(t) == clean[t] /\ pass[t] = Passes[t[1]] /\ rclone[t] = "exit0"
\* Somebody is told that the job succeeded.
Shown(j)  == jobState[j] = "SUCCESS" \/ \E i \in DOMAIN mail[j] : mail[j][i] = "SUCCESS"

\* To add a failure to the mails makes nothing a success.
LEMMA FailureAdded ==
    ASSUME NEW s \in Seq({"SUCCESS", "FAILED"}), NEW i \in DOMAIN Append(s, "FAILED"),
           Append(s, "FAILED")[i] = "SUCCESS"
    PROVE  i \in DOMAIN s /\ s[i] = "SUCCESS"
<1>1. i \in 1 .. Len(s) + 1 /\ Len(s) \in Nat /\ DOMAIN s = 1 .. Len(s)
  BY AppendProperties, LenProperties
<1>2. i # Len(s) + 1
  BY AppendProperties
<1> QED BY <1>1, <1>2, AppendProperties

\* What a task has earned stays: its last run is the last.
LEMMA EarnedStays ==
    ASSUME CentralTypes, RunsInv, NEW u \in Tasks, Earned(u), [CentralNext]_centralVars
    PROVE  Earned(u)'
<1>1. ASSUME NEW j \in Jobs, CreateJob(j) PROVE Earned(u)'
  BY <1>1 DEF CreateJob, Earned, taskVars, runVars
<1>2. ASSUME NEW j \in Jobs, QueueTask(j) PROVE Earned(u)'
  BY <1>2 DEF QueueTask, Earned, taskVars, runVars
<1>3. ASSUME NEW j \in Jobs, QueueFails(j) PROVE Earned(u)'
  BY <1>3 DEF QueueFails, Earned, taskVars, runVars
<1>4. ASSUME NEW j \in Jobs, CreateCrash(j) PROVE Earned(u)'
  BY <1>4 DEF CreateCrash, Earned, taskVars, runVars
<1>5. ASSUME NEW j \in Jobs, DeleteJob(j) PROVE Earned(u)'
  BY <1>5 DEF DeleteJob, Earned, taskVars, runVars
<1>6. ASSUME NEW j \in Jobs, StopRead(j) PROVE Earned(u)'
  BY <1>6 DEF StopRead, Earned, taskVars, runVars
<1>7. ASSUME NEW j \in Jobs, StopRevoke(j) PROVE Earned(u)'
  BY <1>7 DEF StopRevoke, Earned, taskVars, runVars
<1>8. ASSUME NEW j \in Jobs, StopWrite(j) PROVE Earned(u)'
  BY <1>8 DEF StopWrite, Earned, taskVars, runVars
<1>9. ASSUME NEW j \in Jobs, StopCrash(j) PROVE Earned(u)'
  BY <1>9 DEF StopCrash, Earned, taskVars, runVars
<1>10. ASSUME NEW j \in Jobs, Redeliver(j) PROVE Earned(u)'
  BY <1>10 DEF Redeliver, Earned, taskVars, runVars
<1>11. ASSUME NEW j \in Jobs, Revoke(j) PROVE Earned(u)'
  BY <1>11 DEF Revoke, Earned, taskVars, runVars
<1>12. ASSUME NEW j \in Jobs, LoseRevoke(j) PROVE Earned(u)'
  BY <1>12 DEF LoseRevoke, Earned, taskVars, runVars
<1>13. ASSUME NEW t \in Tasks, Fetch(t) PROVE Earned(u)'
  BY <1>13 DEF Fetch, Earned, taskVars, runVars
<1>14. ASSUME NEW t \in Tasks, Discard(t) PROVE Earned(u)'
  BY <1>14 DEF Discard, Earned, taskVars, runVars
<1>15. ASSUME NEW t \in Tasks, TaskStarts(t) PROVE Earned(u)'
  BY <1>15 DEF TaskStarts, Earned, taskVars, runVars
<1>16. ASSUME NEW t \in Tasks, CommitProgress(t) PROVE Earned(u)'
  BY <1>16 DEF CommitProgress, Earned, taskVars, runVars
<1>17. ASSUME NEW t \in Tasks, StartRun(t) PROVE Earned(u)'
  BY <1>17, CentralAssumption DEF StartRun, BeginPass, Earned, CentralTypes, RunsInv, FreshTask, NotRun, Tasks
<1>18. ASSUME NEW t \in Tasks, WatchEnds(t) PROVE Earned(u)'
  BY <1>18, CentralAssumption DEF WatchEnds, BeginPass, Earned, CentralTypes, Tasks
<1>19. ASSUME NEW t \in Tasks, CommitOutcome(t) PROVE Earned(u)'
  BY <1>19 DEF CommitOutcome, Earned, taskVars, runVars
<1>20. ASSUME NEW t \in Tasks, MailOutcome(t) PROVE Earned(u)'
  BY <1>20 DEF MailOutcome, Earned, taskVars, runVars
<1>21. ASSUME NEW t \in Tasks, CommitFailed(t) PROVE Earned(u)'
  BY <1>21 DEF CommitFailed, Earned, taskVars, runVars
<1>22. ASSUME NEW t \in Tasks, MailFailed(t) PROVE Earned(u)'
  BY <1>22 DEF MailFailed, Earned, taskVars, runVars
<1>23. ASSUME NEW t \in Tasks, TakeSignal(t) PROVE Earned(u)'
  BY <1>23 DEF TakeSignal, Earned, CentralTypes
<1>24. ASSUME NEW t \in Tasks, Popen(t) PROVE Earned(u)'
  BY <1>24 DEF Popen, Earned, CentralTypes, taskVars
<1>25. ASSUME NEW t \in Tasks, Register(t) PROVE Earned(u)'
  BY <1>25 DEF Register, Earned, CentralTypes, taskVars
<1>26. ASSUME NEW t \in Tasks, RcloneExits(t) PROVE Earned(u)'
  BY <1>26 DEF RcloneExits, Earned, CentralTypes, taskVars
<1>27. ASSUME NEW t \in Tasks, ThreadEnds(t) PROVE Earned(u)'
  BY <1>27 DEF ThreadEnds, Earned, taskVars, runVars
<1>28. ASSUME NEW t \in Tasks, TaskRaises(t) PROVE Earned(u)'
  BY <1>28 DEF TaskRaises, Earned, taskVars, runVars
<1>29. ASSUME NEW t \in Tasks, ProcessLost(t) PROVE Earned(u)'
  BY <1>29 DEF ProcessLost, Earned, CentralTypes
<1>30. ASSUME NEW t \in Tasks, PopenFails(t) PROVE Earned(u)'
  BY <1>30 DEF PopenFails, Earned, CentralTypes, taskVars
<1>31. ASSUME NEW t \in Tasks, FullLine(t) PROVE Earned(u)'
  BY <1>31 DEF FullLine, Earned, CentralTypes, taskVars
<1>32. ASSUME NodeRestart PROVE Earned(u)'
  BY <1>32 DEF NodeRestart, Earned, CentralTypes
<1>33. ASSUME CentralTick PROVE Earned(u)'
  BY <1>33 DEF CentralTick, Earned, taskVars, runVars
<1>34. ASSUME UNCHANGED centralVars PROVE Earned(u)'
  BY <1>34 DEF Earned, centralVars
<1> QED
  BY <1>1, <1>2, <1>3, <1>4, <1>5, <1>6, <1>7, <1>8, <1>9, <1>10, <1>11, <1>12, <1>13, <1>14, <1>15, <1>16, <1>17, <1>18, <1>19, <1>20, <1>21, <1>22, <1>23, <1>24, <1>25, <1>26, <1>27, <1>28, <1>29, <1>30, <1>31, <1>32, <1>33, <1>34
     DEF CentralNext, CreateStep, StopStep, NodeStep, TaskGoesOn, TaskFault

\* A job begins to be shown as a success by a step of a task that has earned it.
LEMMA ShownIsEarned ==
    ASSUME CentralTypes, RunsInv, NEW j \in Jobs, ~Shown(j), Shown(j)', [CentralNext]_centralVars
    PROVE  \E u \in TasksOf(j) : Earned(u)
<1>1. ASSUME NEW k \in Jobs, CreateJob(k) PROVE \E u \in TasksOf(j) : Earned(u)
  BY <1>1 DEF CreateJob, Shown, CentralTypes
<1>2. ASSUME NEW k \in Jobs, QueueTask(k) PROVE \E u \in TasksOf(j) : Earned(u)
  BY <1>2 DEF QueueTask, Shown, requestVars
<1>3. ASSUME NEW k \in Jobs, QueueFails(k) PROVE \E u \in TasksOf(j) : Earned(u)
  BY <1>3 DEF QueueFails, Shown, CentralTypes
<1>4. ASSUME NEW k \in Jobs, CreateCrash(k) PROVE \E u \in TasksOf(j) : Earned(u)
  BY <1>4 DEF CreateCrash, Shown, requestVars
<1>5. ASSUME NEW k \in Jobs, DeleteJob(k) PROVE \E u \in TasksOf(j) : Earned(u)
  BY <1>5 DEF DeleteJob, Shown, CentralTypes
<1>6. ASSUME NEW k \in Jobs, StopRead(k) PROVE \E u \in TasksOf(j) : Earned(u)
  BY <1>6 DEF StopRead, Shown, requestVars
<1>7. ASSUME NEW k \in Jobs, StopRevoke(k) PROVE \E u \in TasksOf(j) : Earned(u)
  BY <1>7 DEF StopRevoke, Shown, requestVars
<1>8. ASSUME NEW k \in Jobs, StopWrite(k) PROVE \E u \in TasksOf(j) : Earned(u)
  BY <1>8 DEF StopWrite, Shown, CentralTypes
<1>9. ASSUME NEW k \in Jobs, StopCrash(k) PROVE \E u \in TasksOf(j) : Earned(u)
  BY <1>9 DEF StopCrash, Shown, requestVars
<1>10. ASSUME NEW k \in Jobs, Redeliver(k) PROVE \E u \in TasksOf(j) : Earned(u)
  BY <1>10 DEF Redeliver, Shown, requestVars
<1>11. ASSUME NEW k \in Jobs, Revoke(k) PROVE \E u \in TasksOf(j) : Earned(u)
  BY <1>11 DEF Revoke, Shown, requestVars
<1>12. ASSUME NEW k \in Jobs, LoseRevoke(k) PROVE \E u \in TasksOf(j) : Earned(u)
  BY <1>12 DEF LoseRevoke, Shown, requestVars
<1>13. ASSUME NEW t \in Tasks, Fetch(t) PROVE \E u \in TasksOf(j) : Earned(u)
  BY <1>13 DEF Fetch, Shown, requestVars
<1>14. ASSUME NEW t \in Tasks, Discard(t) PROVE \E u \in TasksOf(j) : Earned(u)
  BY <1>14 DEF Discard, Shown, requestVars
<1>15. ASSUME NEW t \in Tasks, TaskStarts(t) PROVE \E u \in TasksOf(j) : Earned(u)
  BY <1>15 DEF TaskStarts, Shown, requestVars
<1>16. ASSUME NEW t \in Tasks, CommitProgress(t) PROVE \E u \in TasksOf(j) : Earned(u)
  BY <1>16 DEF CommitProgress, Shown, CentralTypes
<1>17. ASSUME NEW t \in Tasks, StartRun(t) PROVE \E u \in TasksOf(j) : Earned(u)
  BY <1>17 DEF StartRun, Shown, requestVars
<1>18. ASSUME NEW t \in Tasks, WatchEnds(t) PROVE \E u \in TasksOf(j) : Earned(u)
  BY <1>18 DEF WatchEnds, Shown, requestVars
<1>19. ASSUME NEW t \in Tasks, CommitOutcome(t) PROVE \E u \in TasksOf(j) : Earned(u)
  <2>1. j = t[1] /\ exit[t] = 0
    BY <1>19 DEF CommitOutcome, Shown, ExitState, CentralTypes
  <2> QED BY <1>19, <2>1 DEF CommitOutcome, RunsInv, TrueExit, LastRun, Earned, TasksOf
<1>20. ASSUME NEW t \in Tasks, MailOutcome(t) PROVE \E u \in TasksOf(j) : Earned(u)
  <2>1. t[1] \in Jobs /\ mail[j] \in Seq({"SUCCESS", "FAILED"})
    BY DEF Tasks, CentralTypes
  <2>2. jobState[j] # "SUCCESS" /\ jobState'[j] = jobState[j]
    BY <1>20 DEF MailOutcome, Shown
  <2>3. \/ mail'[j] = mail[j] \/ mail'[j] = Append(mail[j], "FAILED")
        \/ j = t[1] /\ exit[t] = 0
    <3>1. \/ mail' = mail
          \/ \E s : /\ mail' = [mail EXCEPT ![t[1]] = s]
                    /\ s = Append(mail[t[1]], "FAILED") \/ exit[t] = 0 \/ jobState[t[1]] = "SUCCESS"
      <4>1. CASE Passes[t[1]] > 1
        BY <1>20, <4>1 DEF MailOutcome, ExitState
      <4>2. CASE ~(Passes[t[1]] > 1)
        BY <1>20, <4>2 DEF MailOutcome
      <4> QED BY <4>1, <4>2
    <3>2. CASE mail' = mail
      BY <3>2
    <3>3. ASSUME NEW s, mail' = [mail EXCEPT ![t[1]] = s],
                 s = Append(mail[t[1]], "FAILED") \/ exit[t] = 0 \/ jobState[t[1]] = "SUCCESS"
          PROVE  \/ mail'[j] = mail[j] \/ mail'[j] = Append(mail[j], "FAILED")
                 \/ j = t[1] /\ exit[t] = 0
      <4>1. mail'[j] = IF j = t[1] THEN s ELSE mail[j]
        BY <2>1, <3>3, Zenon DEF CentralTypes
      <4> QED BY <2>2, <3>3, <4>1
    <3> QED BY <3>1, <3>2, <3>3
  <2>4. j = t[1] /\ exit[t] = 0
    <3>1. PICK i \in DOMAIN mail'[j] : mail'[j][i] = "SUCCESS"
      BY <2>2 DEF Shown
    <3>2. \A k \in DOMAIN mail[j] : mail[j][k] # "SUCCESS"
      BY DEF Shown
    <3>3. mail'[j] # mail[j]
      BY <3>1, <3>2
    <3>4. mail'[j] # Append(mail[j], "FAILED")
      BY <2>1, <3>1, <3>2, FailureAdded
    <3> QED BY <2>3, <3>3, <3>4
  <2> QED BY <1>20, <2>4 DEF MailOutcome, RunsInv, TrueExit, LastRun, Earned, TasksOf
<1>21. ASSUME NEW t \in Tasks, CommitFailed(t) PROVE \E u \in TasksOf(j) : Earned(u)
  BY <1>21 DEF CommitFailed, Shown, CentralTypes
<1>22. ASSUME NEW t \in Tasks, MailFailed(t) PROVE \E u \in TasksOf(j) : Earned(u)
  <2>1. t[1] \in Jobs /\ mail[j] \in Seq({"SUCCESS", "FAILED"})
    BY DEF Tasks, CentralTypes
  <2>2. mail'[j] = mail[j] \/ mail'[j] = Append(mail[j], "FAILED")
    BY <1>22, <2>1 DEF MailFailed, CentralTypes
  <2>3. jobState'[j] = jobState[j]
    BY <1>22 DEF MailFailed
  <2>4. \A i \in DOMAIN mail'[j] : mail'[j][i] # "SUCCESS"
    <3>1. \A k \in DOMAIN mail[j] : mail[j][k] # "SUCCESS"
      BY DEF Shown
    <3> QED BY <2>1, <2>2, <3>1, FailureAdded
  <2> QED BY <2>3, <2>4 DEF Shown
<1>23. ASSUME NEW t \in Tasks, TakeSignal(t) PROVE \E u \in TasksOf(j) : Earned(u)
  BY <1>23 DEF TakeSignal, Shown, requestVars
<1>24. ASSUME NEW t \in Tasks, Popen(t) PROVE \E u \in TasksOf(j) : Earned(u)
  BY <1>24 DEF Popen, Shown, requestVars
<1>25. ASSUME NEW t \in Tasks, Register(t) PROVE \E u \in TasksOf(j) : Earned(u)
  BY <1>25 DEF Register, Shown, requestVars
<1>26. ASSUME NEW t \in Tasks, RcloneExits(t) PROVE \E u \in TasksOf(j) : Earned(u)
  BY <1>26 DEF RcloneExits, Shown, requestVars
<1>27. ASSUME NEW t \in Tasks, ThreadEnds(t) PROVE \E u \in TasksOf(j) : Earned(u)
  BY <1>27 DEF ThreadEnds, Shown, requestVars
<1>28. ASSUME NEW t \in Tasks, TaskRaises(t) PROVE \E u \in TasksOf(j) : Earned(u)
  BY <1>28 DEF TaskRaises, Shown, requestVars
<1>29. ASSUME NEW t \in Tasks, ProcessLost(t) PROVE \E u \in TasksOf(j) : Earned(u)
  BY <1>29 DEF ProcessLost, Shown, requestVars
<1>30. ASSUME NEW t \in Tasks, PopenFails(t) PROVE \E u \in TasksOf(j) : Earned(u)
  BY <1>30 DEF PopenFails, Shown, requestVars
<1>31. ASSUME NEW t \in Tasks, FullLine(t) PROVE \E u \in TasksOf(j) : Earned(u)
  BY <1>31 DEF FullLine, Shown, requestVars
<1>32. ASSUME NodeRestart PROVE \E u \in TasksOf(j) : Earned(u)
  BY <1>32 DEF NodeRestart, Shown, requestVars
<1>33. ASSUME CentralTick PROVE \E u \in TasksOf(j) : Earned(u)
  BY <1>33 DEF CentralTick, Shown, requestVars
<1>34. ASSUME UNCHANGED centralVars PROVE \E u \in TasksOf(j) : Earned(u)
  BY <1>34 DEF Shown, centralVars
<1> QED
  BY <1>1, <1>2, <1>3, <1>4, <1>5, <1>6, <1>7, <1>8, <1>9, <1>10, <1>11, <1>12, <1>13, <1>14, <1>15, <1>16, <1>17, <1>18, <1>19, <1>20, <1>21, <1>22, <1>23, <1>24, <1>25, <1>26, <1>27, <1>28, <1>29, <1>30, <1>31, <1>32, <1>33, <1>34
     DEF CentralNext, CreateStep, StopStep, NodeStep, TaskGoesOn, TaskFault

\* So a success that is shown stays true.
LEMMA SuccessKept ==
    ASSUME CentralTypes, RunsInv, NoFalseCentralSuccess, [CentralNext]_centralVars
    PROVE  NoFalseCentralSuccess'
<1> SUFFICES ASSUME NEW j \in Jobs, Shown(j)'
             PROVE  \E u \in TasksOf(j) : Earned(u)'
  BY DEF NoFalseCentralSuccess, Shown, Earned, TasksOf
<1>1. PICK u \in TasksOf(j) : Earned(u)
  <2>1. CASE Shown(j)
    BY <2>1 DEF NoFalseCentralSuccess, Shown, Earned, TasksOf
  <2>2. CASE ~Shown(j)
    BY <2>2, ShownIsEarned
  <2> QED BY <2>1, <2>2
<1> QED BY <1>1, EarnedStays DEF TasksOf

-----------------------------------------------------------------------------
\* The invariant holds at first ...
LEMMA CentralInvStarts == CentralInit => CentralInv
<1> SUFFICES ASSUME CentralInit PROVE CentralInv
  OBVIOUS
<1>1. CreatedFirst /\ SignalEnds
  BY DEF CentralInit, CreatedFirst, SignalEnds, Tasks
<1>2. NoFalseCentralSuccess
  BY DEF CentralInit, NoFalseCentralSuccess
<1> QED BY <1>1, <1>2, TypesStart, RunsStart DEF CentralInv

\* ... and every step keeps it.
LEMMA CentralInvKept == CentralInv /\ [CentralNext]_centralVars => CentralInv'
BY TypesKept, RunsKept, CreatedKept, SignalKept, SuccessKept DEF CentralInv

\* For any jobs, passes, pool and restarts: the types, the state of every run, and what
\* follows about successes hold in every state.
THEOREM CentralInvariant == CentralSpec => []CentralInv
BY CentralInvStarts, CentralInvKept, PTL DEF CentralSpec

\* A job is shown or mailed as a success only if one of its tasks has earned it, however
\* often its message is delivered and whatever dies, restarts or fills up meanwhile.
THEOREM CentralSuccessIsTrue == CentralSpec => []NoFalseCentralSuccess
<1>1. CentralInv => NoFalseCentralSuccess
  BY DEF CentralInv
<1> QED BY <1>1, CentralInvariant, PTL

-----------------------------------------------------------------------------
(* Stop.                                                                     *)

\* Once the revocation of a job has taken effect, only StopWrite and DeleteJob write its row.
THEOREM StopsAreFinal == CentralSpec => StopIsFinal
<1>1. CentralInv /\ [CentralNext]_centralVars =>
          [\A j \in Jobs : Silenced(j) /\ jobState[j] = "STOPPED" =>
                               jobState'[j] \in {"STOPPED", "GONE"}]_centralVars
  <2> SUFFICES ASSUME CentralTypes, SignalEnds, [CentralNext]_centralVars,
                      NEW j \in Jobs, Silenced(j), jobState[j] = "STOPPED"
               PROVE  jobState'[j] \in {"STOPPED", "GONE"}
    BY DEF CentralInv
  <2> DEFINE Kept == jobState'[j] \in {"STOPPED", "GONE"}
  <2>1. \A t \in TasksOf(j) : phase[t] \notin Alive
    BY DEF Silenced, SignalEnds, TasksOf, Waiting, Alive
  <2>2. creator[j] = "done"
    BY DEF Silenced
  <2>3. ASSUME NEW k \in Jobs, CreateJob(k) PROVE Kept
    BY <2>3, <2>2 DEF CreateJob, CentralTypes
  <2>4. ASSUME NEW k \in Jobs, QueueTask(k) PROVE Kept
    BY <2>4 DEF QueueTask, requestVars
  <2>5. ASSUME NEW k \in Jobs, QueueFails(k) PROVE Kept
    BY <2>5, <2>2 DEF QueueFails, CentralTypes
  <2>6. ASSUME NEW k \in Jobs, CreateCrash(k) PROVE Kept
    BY <2>6 DEF CreateCrash, requestVars
  <2>7. ASSUME NEW k \in Jobs, DeleteJob(k) PROVE Kept
    BY <2>7, <2>2 DEF DeleteJob, CentralTypes
  <2>8. ASSUME NEW k \in Jobs, StopRead(k) PROVE Kept
    BY <2>8 DEF StopRead, requestVars
  <2>9. ASSUME NEW k \in Jobs, StopRevoke(k) PROVE Kept
    BY <2>9 DEF StopRevoke, requestVars
  <2>10. ASSUME NEW k \in Jobs, StopWrite(k) PROVE Kept
    BY <2>10, <2>2 DEF StopWrite, CentralTypes
  <2>11. ASSUME NEW k \in Jobs, StopCrash(k) PROVE Kept
    BY <2>11 DEF StopCrash, requestVars
  <2>12. ASSUME NEW k \in Jobs, Redeliver(k) PROVE Kept
    BY <2>12 DEF Redeliver, requestVars
  <2>13. ASSUME NEW k \in Jobs, Revoke(k) PROVE Kept
    BY <2>13 DEF Revoke, requestVars
  <2>14. ASSUME NEW k \in Jobs, LoseRevoke(k) PROVE Kept
    BY <2>14 DEF LoseRevoke, requestVars
  <2>15. ASSUME NEW t \in Tasks, Fetch(t) PROVE Kept
    BY <2>15 DEF Fetch, requestVars
  <2>16. ASSUME NEW t \in Tasks, Discard(t) PROVE Kept
    BY <2>16 DEF Discard, requestVars
  <2>17. ASSUME NEW t \in Tasks, TaskStarts(t) PROVE Kept
    BY <2>17 DEF TaskStarts, requestVars
  <2>18. ASSUME NEW t \in Tasks, CommitProgress(t) PROVE Kept
    BY <2>18, <2>1 DEF CommitProgress, TasksOf, Alive, CentralTypes
  <2>19. ASSUME NEW t \in Tasks, StartRun(t) PROVE Kept
    BY <2>19 DEF StartRun, requestVars
  <2>20. ASSUME NEW t \in Tasks, WatchEnds(t) PROVE Kept
    BY <2>20 DEF WatchEnds, requestVars
  <2>21. ASSUME NEW t \in Tasks, CommitOutcome(t) PROVE Kept
    BY <2>21, <2>1 DEF CommitOutcome, TasksOf, Alive, CentralTypes
  <2>22. ASSUME NEW t \in Tasks, MailOutcome(t) PROVE Kept
    BY <2>22 DEF MailOutcome, requestVars
  <2>23. ASSUME NEW t \in Tasks, CommitFailed(t) PROVE Kept
    BY <2>23, <2>1 DEF CommitFailed, TasksOf, Alive, CentralTypes
  <2>24. ASSUME NEW t \in Tasks, MailFailed(t) PROVE Kept
    BY <2>24 DEF MailFailed, requestVars
  <2>25. ASSUME NEW t \in Tasks, TakeSignal(t) PROVE Kept
    BY <2>25 DEF TakeSignal, requestVars
  <2>26. ASSUME NEW t \in Tasks, Popen(t) PROVE Kept
    BY <2>26 DEF Popen, requestVars
  <2>27. ASSUME NEW t \in Tasks, Register(t) PROVE Kept
    BY <2>27 DEF Register, requestVars
  <2>28. ASSUME NEW t \in Tasks, RcloneExits(t) PROVE Kept
    BY <2>28 DEF RcloneExits, requestVars
  <2>29. ASSUME NEW t \in Tasks, ThreadEnds(t) PROVE Kept
    BY <2>29 DEF ThreadEnds, requestVars
  <2>30. ASSUME NEW t \in Tasks, TaskRaises(t) PROVE Kept
    BY <2>30 DEF TaskRaises, requestVars
  <2>31. ASSUME NEW t \in Tasks, ProcessLost(t) PROVE Kept
    BY <2>31 DEF ProcessLost, requestVars
  <2>32. ASSUME NEW t \in Tasks, PopenFails(t) PROVE Kept
    BY <2>32 DEF PopenFails, requestVars
  <2>33. ASSUME NEW t \in Tasks, FullLine(t) PROVE Kept
    BY <2>33 DEF FullLine, requestVars
  <2>34. ASSUME NodeRestart PROVE Kept
    BY <2>34 DEF NodeRestart, requestVars
  <2>35. ASSUME CentralTick PROVE Kept
    BY <2>35 DEF CentralTick, requestVars
  <2>36. ASSUME UNCHANGED centralVars PROVE Kept
    BY <2>36 DEF centralVars
  <2> QED
    BY <2>3, <2>4, <2>5, <2>6, <2>7, <2>8, <2>9, <2>10, <2>11, <2>12, <2>13, <2>14, <2>15, <2>16, <2>17, <2>18, <2>19, <2>20, <2>21, <2>22, <2>23, <2>24, <2>25, <2>26, <2>27, <2>28, <2>29, <2>30, <2>31, <2>32, <2>33, <2>34, <2>35, <2>36
       DEF CentralNext, CreateStep, StopStep, NodeStep, TaskGoesOn, TaskFault
<1> QED BY <1>1, CentralInvariant, PTL DEF CentralSpec, StopIsFinal

-----------------------------------------------------------------------------
(* One delivery. While the message of a job waits at the node, every tick    *)
(* finds all processes at work, and what the other jobs can work is bounded. *)

\* The ticks the tasks have run, as a set.
Work == {p \in Tasks \X (1 .. LongestRun) : p[2] =< ran[p[1]]}

OnlyFirst   == \A j \in Jobs : phase[<<j, 2>>] = "none"
IdleTasks   == \A t \in Tasks : phase[t] \in {"none"} \cup Waiting => ran[t] = 0
BoundedRuns == \A t \in Tasks : ran[t] =< LongestRun
\* While a message waits, every tick is a tick of work of every process.
WaitIsWork  == \A t \in Tasks : phase[t] = "node" => waited[t] * PoolSize =< Cardinality(Work)

BacklogInv == OnlyFirst /\ IdleTasks /\ BoundedRuns /\ WaitIsWork

\* The jobs that may be before one in the queue are done before its message is delivered
\* again (the visibility timeout is "far above any job", README.md:1052).
QueueFitsTimeout == LongestRun * (Cardinality(Jobs) - 1) < VisibilityTicks * PoolSize

\* Sizes are numbers, and there are finitely many tasks.
LEMMA SizesType ==
    /\ PoolSize \in Nat \ {0} /\ VisibilityTicks \in Nat \ {0} /\ LongestRun \in Nat \ {0}
    /\ IsFiniteSet(Jobs) /\ Cardinality(Jobs) \in Nat
    /\ IsFiniteSet(Tasks)
<1>1. IsFiniteSet({1, 2})
  <2>1. IsFiniteSet({1}) /\ {1} \cup {2} = {1, 2}
    BY FS_Singleton
  <2> QED BY <2>1, FS_AddElement
<1>2. IsFiniteSet(Jobs)
  BY CentralAssumption
<1>3. IsFiniteSet(Tasks)
  BY <1>1, <1>2, FS_Product DEF Tasks
<1> QED BY <1>2, <1>3, FS_CardinalityType, CentralAssumption

\* Any function in the place of ran.
WorkOf(f) == {p \in Tasks \X (1 .. LongestRun) : p[2] =< f[p[1]]}

\* Work is a finite set, so it has a size.
LEMMA WorkFinite == ASSUME NEW f PROVE IsFiniteSet(WorkOf(f)) /\ Cardinality(WorkOf(f)) \in Nat
<1>1. IsFiniteSet(Tasks \X (1 .. LongestRun))
  <2>1. IsFiniteSet(1 .. LongestRun)
    BY SizesType, FS_Interval
  <2> QED BY <2>1, SizesType, FS_Product
<1> QED BY <1>1, FS_Subset, FS_CardinalityType DEF WorkOf

\* Tasks that run one tick more, some of them at once, do as much more work.
LEMMA WorkGrows ==
    ASSUME NEW f \in [Tasks -> Nat], NEW S \in SUBSET Tasks, \A t \in S : f[t] < LongestRun,
           NEW g, g = [t \in Tasks |-> IF t \in S THEN f[t] + 1 ELSE f[t]]
    PROVE  Cardinality(WorkOf(g)) >= Cardinality(WorkOf(f)) + Cardinality(S)
<1> DEFINE new == [t \in S |-> <<t, f[t] + 1>>]
<1> DEFINE more == WorkOf(g) \ WorkOf(f)
<1>1. WorkOf(g) \cap WorkOf(f) = WorkOf(f)
  BY SizesType DEF WorkOf
<1>2. new \in Injection(S, more)
  <2>1. \A t \in S : new[t] \in more
    BY SizesType DEF WorkOf
  <2> QED BY <2>1 DEF Injection, IsInjective
<1>3. IsFiniteSet(more) /\ Cardinality(more) = Cardinality(WorkOf(g)) - Cardinality(WorkOf(f))
  <2>1. IsFiniteSet(WorkOf(g))
    BY WorkFinite
  <2>2. IsFiniteSet(more)
    BY <2>1, FS_Difference
  <2>3. Cardinality(more) = Cardinality(WorkOf(g)) - Cardinality(WorkOf(g) \cap WorkOf(f))
    BY <2>1, FS_Difference
  <2> QED BY <2>2, <2>3, <1>1
<1>4. IsFiniteSet(S) /\ Cardinality(S) =< Cardinality(more)
  <2> HIDE DEF new, more
  <2> QED BY <1>2, <1>3, FS_Injection
<1>5. Cardinality(S) \in Nat /\ Cardinality(WorkOf(g)) \in Nat /\ Cardinality(WorkOf(f)) \in Nat
  BY <1>4, WorkFinite, FS_CardinalityType
<1> QED
  <2> HIDE DEF more
  <2> QED BY <1>3, <1>4, <1>5

\* While a message waits, only the first deliveries of the other jobs have done any work.
LEMMA OthersWork ==
    ASSUME CentralTypes, OnlyFirst, IdleTasks, NEW t \in Tasks, phase[t] = "node"
    PROVE  Cardinality(Work) =< LongestRun * (Cardinality(Jobs) - 1)
<1> DEFINE others == Jobs \ {t[1]}
<1> DEFINE most == (others \X {1}) \X (1 .. LongestRun)
<1>1. t[1] \in Jobs /\ t[2] = 1 /\ t = <<t[1], t[2]>>
  BY DEF OnlyFirst, Tasks
<1>2. Work \subseteq most
  <2> SUFFICES ASSUME NEW p \in Work PROVE p \in most
    OBVIOUS
  <2>1. /\ p \in Tasks \X (1 .. LongestRun) /\ p[1] \in Tasks /\ p[2] \in 1 .. LongestRun
        /\ p[2] =< ran[p[1]] /\ ran[p[1]] \in Nat
    BY DEF Work, CentralTypes
  <2>2. ran[p[1]] # 0
    BY <2>1, SizesType
  <2>3. phase[p[1]] \notin {"none", "node"}
    BY <2>1, <2>2 DEF IdleTasks, Waiting
  <2>4. p[1][1] \in Jobs /\ p[1][2] = 1 /\ p[1] = <<p[1][1], p[1][2]>>
    BY <2>1, <2>3 DEF OnlyFirst, Tasks
  <2>5. p[1][1] # t[1]
    BY <2>3, <2>4, <1>1
  <2> QED BY <2>1, <2>4, <2>5
<1>3. IsFiniteSet(others) /\ Cardinality(others) = Cardinality(Jobs) - 1
  BY <1>1, SizesType, FS_RemoveElement
<1>4. IsFiniteSet(others \X {1}) /\ Cardinality(others \X {1}) = Cardinality(Jobs) - 1
  <2>1. IsFiniteSet({1}) /\ Cardinality({1}) = 1
    BY FS_Singleton
  <2>2. IsFiniteSet(others \X {1}) /\ Cardinality(others \X {1}) = Cardinality(others) * Cardinality({1})
    BY <2>1, <1>3, FS_Product
  <2> HIDE DEF others
  <2> QED BY <2>1, <2>2, <1>3, SizesType
<1>5. IsFiniteSet(1 .. LongestRun) /\ Cardinality(1 .. LongestRun) = LongestRun
  BY SizesType, FS_Interval
<1>6. IsFiniteSet(most) /\ Cardinality(most) = (Cardinality(Jobs) - 1) * LongestRun
  <2>1. PICK pairs : pairs = others \X {1}
    OBVIOUS
  <2>2. IsFiniteSet(pairs) /\ Cardinality(pairs) = Cardinality(Jobs) - 1
    BY <2>1, <1>4
  <2>3. /\ IsFiniteSet(pairs \X (1 .. LongestRun))
        /\ Cardinality(pairs \X (1 .. LongestRun)) = Cardinality(pairs) * Cardinality(1 .. LongestRun)
    BY <2>2, <1>5, FS_Product
  <2>4. most = pairs \X (1 .. LongestRun)
    BY <2>1
  <2> HIDE DEF most
  <2> QED BY <2>2, <2>3, <2>4, <1>5
<1>7. Cardinality(Work) =< Cardinality(most)
  <2> HIDE DEF most
  <2> QED BY <1>2, <1>6, FS_Subset
<1> QED
  <2> HIDE DEF most
  <2> QED BY <1>6, <1>7, SizesType

\* So its message is not delivered again.
LEMMA NoRedelivery ==
    ASSUME QueueFitsTimeout, CentralTypes, OnlyFirst, IdleTasks, WaitIsWork, NEW j \in Jobs, Redeliver(j)
    PROVE  FALSE
<1>1. PICK t \in Tasks : t = <<j, 1>>
  BY DEF Tasks
<1>2. phase[t] = "node" /\ waited[t] \in Nat /\ waited[t] >= VisibilityTicks
  BY <1>1 DEF Redeliver, VisibilityTimeout, CentralTypes
<1>3. waited[t] * PoolSize =< Cardinality(Work)
  BY <1>2 DEF WaitIsWork
<1>4. Cardinality(Work) =< LongestRun * (Cardinality(Jobs) - 1)
  BY <1>2, OthersWork
<1>5. VisibilityTicks * PoolSize =< waited[t] * PoolSize
  <2>1. \A x, y, z \in Nat : x >= y => y * z =< x * z
    OBVIOUS
  <2> QED BY <2>1, <1>2, SizesType
<1>6. Cardinality(Work) \in Nat
  BY WorkFinite DEF Work, WorkOf
<1>7. \A a, b, c, d, e \in Int : a =< b /\ b =< c /\ c =< d /\ d < a => FALSE
  OBVIOUS
<1> QED BY <1>2, <1>3, <1>4, <1>5, <1>6, SizesType DEF QueueFitsTimeout

\* At first nobody waits.
LEMMA BacklogStart == CentralInit => BacklogInv
<1> SUFFICES ASSUME CentralInit PROVE BacklogInv
  OBVIOUS
<1>1. OnlyFirst /\ IdleTasks /\ BoundedRuns
  BY SizesType DEF CentralInit, OnlyFirst, IdleTasks, BoundedRuns, Tasks
<1>2. WaitIsWork
  BY DEF CentralInit, WaitIsWork
<1> QED BY <1>1, <1>2 DEF BacklogInv

\* Steps that start no task for the second time, and that put none back among those that wait.
LEMMA BacklogFrame ==
    ASSUME BacklogInv, UNCHANGED ran,
           \A j \in Jobs : phase'[<<j, 2>>] = "none",
           \A t \in Tasks : phase'[t] \in {"none"} \cup Waiting => phase[t] \in {"none"} \cup Waiting,
           \A t \in Tasks : phase'[t] = "node" => phase[t] = "node" /\ waited'[t] = waited[t]
    PROVE  BacklogInv'
<1>1. OnlyFirst' /\ IdleTasks' /\ BoundedRuns'
  BY DEF BacklogInv, OnlyFirst, IdleTasks, BoundedRuns
<1>2. Work' = Work
  BY DEF Work
<1>3. WaitIsWork'
  BY <1>2 DEF BacklogInv, WaitIsWork
<1> QED BY <1>1, <1>3 DEF BacklogInv

\* Steps that touch neither a phase nor a clock.
LEMMA BacklogSame ==
    ASSUME BacklogInv, UNCHANGED <<phase, waited, ran>>
    PROVE  BacklogInv'
BY BacklogFrame DEF BacklogInv, OnlyFirst

\* A step that takes a task from a phase to another one that is not before its start.
LEMMA BacklogMoves ==
    ASSUME CentralTypes, BacklogInv, UNCHANGED <<waited, ran>>, NEW t \in Tasks, phase[t] # "none",
           NEW p, p \notin {"none"} \cup Waiting, phase' = [phase EXCEPT ![t] = p]
    PROVE  BacklogInv'
<1>1. \A u \in Tasks : phase'[u] = IF u = t THEN p ELSE phase[u]
  BY DEF CentralTypes
<1>2. \A j \in Jobs : <<j, 2>> \in Tasks /\ <<j, 2>> # t
  BY DEF BacklogInv, OnlyFirst, Tasks
<1>3. \A j \in Jobs : phase'[<<j, 2>>] = "none"
  BY <1>1, <1>2 DEF BacklogInv, OnlyFirst
<1> QED BY <1>1, <1>3, BacklogFrame DEF Waiting

\* A tick that somebody has to wait is a tick of work of every process.
LEMMA BacklogTick ==
    ASSUME CentralTypes, BacklogInv, CentralTick
    PROVE  BacklogInv'
<1>1. UNCHANGED phase
  BY DEF CentralTick, taskVars
<1>2. ran \in [Tasks -> Nat] /\ Executing \in SUBSET Tasks /\ \A t \in Executing : ran[t] < LongestRun
  BY DEF CentralTypes, CentralTick, Executing
<1>3. ran' = [t \in Tasks |-> IF t \in Executing THEN ran[t] + 1 ELSE ran[t]]
  BY DEF CentralTick
<1>4. OnlyFirst' /\ IdleTasks' /\ BoundedRuns'
  BY <1>1, <1>2, <1>3, SizesType DEF BacklogInv, OnlyFirst, IdleTasks, BoundedRuns, Executing, Alive, Waiting
<1>5. Cardinality(Executing) \in Nat /\ Cardinality(Executing) >= PoolSize
  <2>1. ~FreeProcess
    BY DEF CentralTick
  <2>2. Cardinality(Executing) \in Nat
    BY <1>2, SizesType, FS_Subset, FS_CardinalityType
  <2> QED BY <2>1, <2>2, SizesType DEF FreeProcess
<1>6. Cardinality(Work') >= Cardinality(Work) + PoolSize
  <2>1. PICK f : f = ran
    OBVIOUS
  <2>2. PICK g : g = ran'
    OBVIOUS
  <2>3. PICK S : S = Executing
    OBVIOUS
  <2>4. Cardinality(WorkOf(g)) >= Cardinality(WorkOf(f)) + Cardinality(S)
    <3>1. f \in [Tasks -> Nat] /\ S \in SUBSET Tasks /\ \A t \in S : f[t] < LongestRun
      BY <1>2, <2>1, <2>3
    <3>2. g = [t \in Tasks |-> IF t \in S THEN f[t] + 1 ELSE f[t]]
      BY <1>3, <2>1, <2>2, <2>3
    <3> QED BY <3>1, <3>2, WorkGrows
  <2>5. Work = WorkOf(f) /\ Work' = WorkOf(g)
    BY <2>1, <2>2 DEF Work, WorkOf
  <2>6. Cardinality(Work) \in Nat /\ Cardinality(Work') \in Nat
    BY <2>5, WorkFinite
  <2> QED BY <2>3, <2>4, <2>5, <2>6, <1>5, SizesType
<1>7. WaitIsWork'
  <2> SUFFICES ASSUME NEW t \in Tasks, phase[t] = "node"
               PROVE  waited'[t] * PoolSize =< Cardinality(Work')
    BY <1>1 DEF WaitIsWork
  <2>1. waited[t] \in Nat /\ waited'[t] \in Nat /\ waited'[t] =< waited[t] + 1
    BY DEF CentralTick, CentralTypes
  <2>2. waited[t] * PoolSize =< Cardinality(Work)
    BY DEF BacklogInv, WaitIsWork
  <2>3. waited'[t] * PoolSize =< waited[t] * PoolSize + PoolSize
    <3>1. \A x, y, z \in Nat : x =< y + 1 => x * z =< y * z + z
      OBVIOUS
    <3> QED BY <3>1, <2>1, SizesType
  <2>4. Cardinality(Work) \in Nat /\ Cardinality(Work') \in Nat
    <3>1. PICK g : g = ran'
      OBVIOUS
    <3>2. Work = WorkOf(ran) /\ Work' = WorkOf(g)
      BY <3>1 DEF Work, WorkOf
    <3> QED BY <3>2, WorkFinite
  <2>5. waited[t] * PoolSize \in Nat /\ waited'[t] * PoolSize \in Nat
    BY <2>1, SizesType
  <2> QED BY <1>6, <2>2, <2>3, <2>4, <2>5, SizesType
<1> QED BY <1>4, <1>7 DEF BacklogInv

\* If the jobs fit into the visibility timeout, every step keeps the backlog in order.
LEMMA BacklogKept ==
    ASSUME QueueFitsTimeout, CentralTypes, CreatedFirst, BacklogInv, [CentralNext]_centralVars
    PROVE  BacklogInv'
<1>1. ASSUME NEW j \in Jobs, CreateJob(j) PROVE BacklogInv'
  BY <1>1, BacklogSame DEF CreateJob, taskVars, clockVars
<1>2. ASSUME NEW j \in Jobs, QueueTask(j) PROVE BacklogInv'
  <2>1. phase' = [phase EXCEPT ![<<j, 1>>] = "broker"] /\ phase[<<j, 1>>] = "none" /\ UNCHANGED <<waited, ran>>
    BY <1>2 DEF QueueTask, CreatedFirst, clockVars
  <2>2. \A k \in Jobs : phase'[<<k, 2>>] = "none"
    <3>1. \A k \in Jobs : <<k, 2>> \in Tasks /\ <<k, 2>> # <<j, 1>>
      BY DEF Tasks
    <3> QED BY <2>1, <3>1 DEF BacklogInv, OnlyFirst, CentralTypes
  <2>3. \A t \in Tasks : phase'[t] = phase[t] \/ (phase'[t] = "broker" /\ phase[t] = "none")
    BY <2>1 DEF CentralTypes
  <2> QED BY <2>1, <2>2, <2>3, BacklogFrame DEF Waiting
<1>3. ASSUME NEW j \in Jobs, QueueFails(j) PROVE BacklogInv'
  BY <1>3, BacklogSame DEF QueueFails, taskVars, clockVars
<1>4. ASSUME NEW j \in Jobs, CreateCrash(j) PROVE BacklogInv'
  BY <1>4, BacklogSame DEF CreateCrash, taskVars, clockVars
<1>5. ASSUME NEW j \in Jobs, DeleteJob(j) PROVE BacklogInv'
  BY <1>5, BacklogSame DEF DeleteJob, taskVars, clockVars
<1>6. ASSUME NEW j \in Jobs, StopRead(j) PROVE BacklogInv'
  BY <1>6, BacklogSame DEF StopRead, taskVars, clockVars
<1>7. ASSUME NEW j \in Jobs, StopRevoke(j) PROVE BacklogInv'
  BY <1>7, BacklogSame DEF StopRevoke, taskVars, clockVars
<1>8. ASSUME NEW j \in Jobs, StopWrite(j) PROVE BacklogInv'
  BY <1>8, BacklogSame DEF StopWrite, taskVars, clockVars
<1>9. ASSUME NEW j \in Jobs, StopCrash(j) PROVE BacklogInv'
  BY <1>9, BacklogSame DEF StopCrash, taskVars, clockVars
<1>10. ASSUME NEW j \in Jobs, Redeliver(j) PROVE BacklogInv'
  BY <1>10, NoRedelivery DEF BacklogInv
<1>11. ASSUME NEW j \in Jobs, Revoke(j) PROVE BacklogInv'
  BY <1>11, BacklogSame DEF Revoke, taskVars, clockVars
<1>12. ASSUME NEW j \in Jobs, LoseRevoke(j) PROVE BacklogInv'
  BY <1>12, BacklogSame DEF LoseRevoke, taskVars, clockVars
<1>13. ASSUME NEW t \in Tasks, Fetch(t) PROVE BacklogInv'
  <2>1. /\ phase' = [phase EXCEPT ![t] = "node"] /\ phase[t] = "broker"
        /\ waited' = [waited EXCEPT ![t] = 0] /\ ran' = ran
    BY <1>13 DEF Fetch
  <2>2. \A u \in Tasks : /\ phase'[u] = IF u = t THEN "node" ELSE phase[u]
                         /\ waited'[u] = IF u = t THEN 0 ELSE waited[u]
    BY <2>1 DEF CentralTypes
  <2>3. OnlyFirst' /\ IdleTasks' /\ BoundedRuns'
    BY <2>1, <2>2 DEF BacklogInv, OnlyFirst, IdleTasks, BoundedRuns, Waiting, Tasks
  <2>4. Work' = Work /\ Cardinality(Work) \in Nat
    BY <2>1, WorkFinite DEF Work, WorkOf
  <2>5. WaitIsWork'
    BY <2>1, <2>2, <2>4, SizesType DEF BacklogInv, WaitIsWork
  <2> QED BY <2>3, <2>5 DEF BacklogInv
<1>14. ASSUME NEW t \in Tasks, Discard(t) PROVE BacklogInv'
  <2>1. PICK p \in {"done"} : phase' = [phase EXCEPT ![t] = p]
    BY <1>14 DEF Discard
  <2>2. phase[t] # "none" /\ UNCHANGED <<waited, ran>>
    BY <1>14 DEF Discard, Alive, clockVars
  <2> QED BY <2>1, <2>2, BacklogMoves DEF Waiting
<1>15. ASSUME NEW t \in Tasks, TaskStarts(t) PROVE BacklogInv'
  <2>1. PICK p \in {"starting", "failing"} : phase' = [phase EXCEPT ![t] = p]
    BY <1>15 DEF TaskStarts
  <2>2. phase[t] # "none" /\ UNCHANGED <<waited, ran>>
    BY <1>15 DEF TaskStarts, Alive, clockVars
  <2> QED BY <2>1, <2>2, BacklogMoves DEF Waiting
<1>16. ASSUME NEW t \in Tasks, CommitProgress(t) PROVE BacklogInv'
  <2>1. PICK p \in {"ready", "failing"} : phase' = [phase EXCEPT ![t] = p]
    BY <1>16 DEF CommitProgress
  <2>2. phase[t] # "none" /\ UNCHANGED <<waited, ran>>
    BY <1>16 DEF CommitProgress, Alive, clockVars
  <2> QED BY <2>1, <2>2, BacklogMoves DEF Waiting
<1>17. ASSUME NEW t \in Tasks, StartRun(t) PROVE BacklogInv'
  <2>1. PICK p \in {"running", "failing"} : phase' = [phase EXCEPT ![t] = p]
    BY <1>17 DEF StartRun
  <2>2. phase[t] # "none" /\ UNCHANGED <<waited, ran>>
    BY <1>17 DEF StartRun, Alive, clockVars
  <2> QED BY <2>1, <2>2, BacklogMoves DEF Waiting
<1>18. ASSUME NEW t \in Tasks, WatchEnds(t) PROVE BacklogInv'
  <2>1. UNCHANGED phase \/ phase' = [phase EXCEPT ![t] = "ended"]
    BY <1>18 DEF WatchEnds
  <2>2. phase[t] # "none" /\ UNCHANGED <<waited, ran>>
    BY <1>18 DEF WatchEnds, clockVars
  <2> QED BY <2>1, <2>2, BacklogMoves, BacklogSame DEF Waiting
<1>19. ASSUME NEW t \in Tasks, CommitOutcome(t) PROVE BacklogInv'
  <2>1. PICK p \in {"mailing", "failing"} : phase' = [phase EXCEPT ![t] = p]
    BY <1>19 DEF CommitOutcome
  <2>2. phase[t] # "none" /\ UNCHANGED <<waited, ran>>
    BY <1>19 DEF CommitOutcome, Alive, clockVars
  <2> QED BY <2>1, <2>2, BacklogMoves DEF Waiting
<1>20. ASSUME NEW t \in Tasks, MailOutcome(t) PROVE BacklogInv'
  <2>1. PICK p \in {"done", "failing"} : phase' = [phase EXCEPT ![t] = p]
    BY <1>20 DEF MailOutcome
  <2>2. phase[t] # "none" /\ UNCHANGED <<waited, ran>>
    BY <1>20 DEF MailOutcome, Alive, clockVars
  <2> QED BY <2>1, <2>2, BacklogMoves DEF Waiting
<1>21. ASSUME NEW t \in Tasks, CommitFailed(t) PROVE BacklogInv'
  <2>1. PICK p \in {"apology", "done"} : phase' = [phase EXCEPT ![t] = p]
    BY <1>21 DEF CommitFailed
  <2>2. phase[t] # "none" /\ UNCHANGED <<waited, ran>>
    BY <1>21 DEF CommitFailed, Alive, clockVars
  <2> QED BY <2>1, <2>2, BacklogMoves DEF Waiting
<1>22. ASSUME NEW t \in Tasks, MailFailed(t) PROVE BacklogInv'
  <2>1. PICK p \in {"done"} : phase' = [phase EXCEPT ![t] = p]
    BY <1>22 DEF MailFailed
  <2>2. phase[t] # "none" /\ UNCHANGED <<waited, ran>>
    BY <1>22 DEF MailFailed, Alive, clockVars
  <2> QED BY <2>1, <2>2, BacklogMoves DEF Waiting
<1>23. ASSUME NEW t \in Tasks, TakeSignal(t) PROVE BacklogInv'
  <2>1. PICK p \in {"lost"} : phase' = [phase EXCEPT ![t] = p]
    BY <1>23 DEF TakeSignal
  <2>2. phase[t] # "none" /\ UNCHANGED <<waited, ran>>
    BY <1>23 DEF TakeSignal, Alive, clockVars
  <2> QED BY <2>1, <2>2, BacklogMoves DEF Waiting
<1>24. ASSUME NEW t \in Tasks, Popen(t) PROVE BacklogInv'
  BY <1>24, BacklogSame DEF Popen, taskVars, clockVars
<1>25. ASSUME NEW t \in Tasks, Register(t) PROVE BacklogInv'
  BY <1>25, BacklogSame DEF Register, taskVars, clockVars
<1>26. ASSUME NEW t \in Tasks, RcloneExits(t) PROVE BacklogInv'
  BY <1>26, BacklogSame DEF RcloneExits, taskVars, clockVars
<1>27. ASSUME NEW t \in Tasks, ThreadEnds(t) PROVE BacklogInv'
  BY <1>27, BacklogSame DEF ThreadEnds, taskVars, clockVars
<1>28. ASSUME NEW t \in Tasks, TaskRaises(t) PROVE BacklogInv'
  <2>1. PICK p \in {"failing"} : phase' = [phase EXCEPT ![t] = p]
    BY <1>28 DEF TaskRaises
  <2>2. phase[t] # "none" /\ UNCHANGED <<waited, ran>>
    BY <1>28 DEF TaskRaises, Alive, clockVars
  <2> QED BY <2>1, <2>2, BacklogMoves DEF Waiting
<1>29. ASSUME NEW t \in Tasks, ProcessLost(t) PROVE BacklogInv'
  <2>1. PICK p \in {"lost"} : phase' = [phase EXCEPT ![t] = p]
    BY <1>29 DEF ProcessLost
  <2>2. phase[t] # "none" /\ UNCHANGED <<waited, ran>>
    BY <1>29 DEF ProcessLost, Alive, clockVars
  <2> QED BY <2>1, <2>2, BacklogMoves DEF Waiting
<1>30. ASSUME NEW t \in Tasks, PopenFails(t) PROVE BacklogInv'
  BY <1>30, BacklogSame DEF PopenFails, taskVars, clockVars
<1>31. ASSUME NEW t \in Tasks, FullLine(t) PROVE BacklogInv'
  BY <1>31, BacklogSame DEF FullLine, taskVars, clockVars
<1>32. ASSUME NodeRestart PROVE BacklogInv'
  <2>1. \A t \in Tasks : \/ phase'[t] = "lost"
                         \/ phase[t] = "node" /\ phase'[t] = "broker"
                         \/ phase[t] # "node" /\ phase'[t] = phase[t]
    BY <1>32 DEF NodeRestart
  <2>2. \A j \in Jobs : phase'[<<j, 2>>] = "none"
    BY <1>32 DEF NodeRestart, BacklogInv, OnlyFirst, Executing, Alive, Tasks
  <2> QED BY <1>32, <2>1, <2>2, BacklogFrame DEF NodeRestart, Waiting, clockVars
<1>33. ASSUME CentralTick PROVE BacklogInv'
  BY <1>33, BacklogTick
<1>34. ASSUME UNCHANGED centralVars PROVE BacklogInv'
  BY <1>34, BacklogSame DEF centralVars
<1> QED
  BY <1>1, <1>2, <1>3, <1>4, <1>5, <1>6, <1>7, <1>8, <1>9, <1>10, <1>11, <1>12, <1>13, <1>14, <1>15, <1>16, <1>17, <1>18, <1>19, <1>20, <1>21, <1>22, <1>23, <1>24, <1>25, <1>26, <1>27, <1>28, <1>29, <1>30, <1>31, <1>32, <1>33, <1>34
     DEF CentralNext, CreateStep, StopStep, NodeStep, TaskGoesOn, TaskFault

\* If the jobs that may wait for each other fit into the visibility timeout, no message is
\* delivered twice: a job is run by one task only, however long it waits.
THEOREM JobsRunOnce == ASSUME QueueFitsTimeout PROVE CentralSpec => []RunsOnce
<1>1. CentralInv /\ BacklogInv /\ [CentralNext]_centralVars => BacklogInv'
  BY BacklogKept DEF CentralInv
<1>2. CentralInv /\ BacklogInv => RunsOnce
  <2> SUFFICES ASSUME CentralTypes, RunsInv, OnlyFirst, NEW j \in Jobs
               PROVE  Cardinality({t \in TasksOf(j) : pass[t] > 0}) =< 1
    BY DEF CentralInv, BacklogInv, RunsOnce
  <2>1. pass[<<j, 2>>] = 0
    BY DEF RunsInv, FreshTask, NotRun, OnlyFirst, Tasks
  <2>2. {t \in TasksOf(j) : pass[t] > 0} \subseteq {<<j, 1>>}
    BY <2>1 DEF TasksOf, Tasks
  <2>3. IsFiniteSet({<<j, 1>>}) /\ Cardinality({<<j, 1>>}) = 1
    BY FS_Singleton
  <2>4. {t \in TasksOf(j) : pass[t] > 0} \in SUBSET {<<j, 1>>}
    BY <2>2
  <2>5. Cardinality({t \in TasksOf(j) : pass[t] > 0}) =< Cardinality({<<j, 1>>})
    BY <2>3, <2>4, FS_Subset
  <2> QED BY <2>3, <2>5
<1> QED BY <1>1, <1>2, BacklogStart, CentralInvariant, PTL DEF CentralSpec

-----------------------------------------------------------------------------
(* Performance settings: what values are, and the memory they need.         *)

Names == {"transfers", "checkers", "multi_thread_streams", "multi_thread_cutoff", "buffer_size",
          "s3_upload_concurrency", "s3_chunk_size", "azureblob_upload_concurrency",
          "azureblob_chunk_size"}
Values(v)  == v \in [DOMAIN v -> Int] /\ DOMAIN v \subseteq Names
Bounded(v) == Values(v) /\ \A n \in DOMAIN v : InBounds(n, v[n])

LEMMA ParameterBounds ==
    /\ DOMAIN PARAMS = Names /\ DOMAIN RCLONE_DEFAULTS = Names
    /\ \A n \in Names : PARAMS[n].lo \in Nat /\ PARAMS[n].hi \in Nat /\ RCLONE_DEFAULTS[n] \in Nat
<1>1. DOMAIN PARAMS = Names /\ DOMAIN RCLONE_DEFAULTS = Names
  BY DEF PARAMS, RCLONE_DEFAULTS, Names
<1>2. \A n \in Names : PARAMS[n].lo \in Nat /\ PARAMS[n].hi \in Nat
  BY DEF PARAMS, Names, Param, GiB, TiB
<1>3. \A n \in Names : RCLONE_DEFAULTS[n] \in Nat
  BY DEF RCLONE_DEFAULTS, Names
<1> QED BY <1>1, <1>2, <1>3

LEMMA BoundedIsNat == ASSUME NEW v, Bounded(v) PROVE \A n \in DOMAIN v : v[n] \in Nat
BY ParameterBounds DEF Bounded, Values, InBounds

LEMMA Merged ==
    ASSUME NEW f, NEW g
    PROVE  /\ DOMAIN (f ++ g) = DOMAIN f \cup DOMAIN g
           /\ \A n \in DOMAIN f : (f ++ g)[n] = f[n]
           /\ \A n \in DOMAIN g \ DOMAIN f : (f ++ g)[n] = g[n]
           /\ Bounded(f) /\ Bounded(g) => Bounded(f ++ g)
           /\ Values(f) /\ Values(g) => Values(f ++ g)
BY DEF ++, Bounded, Values

LEMMA Chosen ==
    ASSUME NEW v, NEW names
    PROVE  /\ DOMAIN Only(v, names) = DOMAIN v \cap names
           /\ \A n \in DOMAIN v \cap names : Only(v, names)[n] = v[n]
           /\ Bounded(v) => Bounded(Only(v, names))
           /\ Values(v) => Values(Only(v, names))
BY DEF Only, Bounded, Values

\* The value that rclone runs with, and what one transfer needs.
Of(v, n) == IF n \in DOMAIN v THEN v[n] ELSE RCLONE_DEFAULTS[n]
PerTransfer(v, dst) ==
    Larger(1, Of(v, "multi_thread_streams")) * Of(v, "buffer_size")
    + IF dst \in CHUNKED_BACKENDS
      THEN Larger(Of(v, Concurrency[dst]), Of(v, "multi_thread_streams")) * Of(v, ChunkSize[dst]) ELSE 0

LEMMA MergedOf ==
    ASSUME NEW f, NEW g, NEW n
    PROVE  Of(f ++ g, n) = IF n \in DOMAIN f THEN f[n] ELSE Of(g, n)
<1>1. DOMAIN (f ++ g) = DOMAIN f \cup DOMAIN g
  BY Merged
<1>2. CASE n \in DOMAIN f
  BY <1>1, <1>2, Merged DEF Of
<1>3. CASE n \notin DOMAIN f /\ n \in DOMAIN g
  BY <1>1, <1>3, Merged DEF Of
<1>4. CASE n \notin DOMAIN f /\ n \notin DOMAIN g
  BY <1>1, <1>4 DEF Of
<1> QED BY <1>2, <1>3, <1>4

LEMMA TimesIsNat == ASSUME NEW a \in Nat, NEW b \in Nat PROVE a * b \in Nat
OBVIOUS

LEMMA OfIsNat == ASSUME NEW v, Bounded(v), NEW n \in Names PROVE Of(v, n) \in Nat
BY BoundedIsNat, ParameterBounds DEF Of

LEMMA ChunkNames ==
    ASSUME NEW dst \in CHUNKED_BACKENDS
    PROVE  /\ Concurrency[dst] \in Names /\ ChunkSize[dst] \in Names
           /\ Concurrency[dst] \notin {"transfers", "buffer_size"} /\ ChunkSize[dst] \notin {"transfers", "buffer_size"}
BY DEF CHUNKED_BACKENDS, Concurrency, ChunkSize, Names

LEMMA LargerIsNat == ASSUME NEW a \in Nat, NEW b \in Nat PROVE Larger(a, b) \in Nat
BY DEF Larger

LEMMA PerTransferIsNat == ASSUME NEW v, Bounded(v), NEW dst PROVE PerTransfer(v, dst) \in Nat
<1>1. Of(v, "multi_thread_streams") \in Nat /\ Of(v, "buffer_size") \in Nat
  BY OfIsNat DEF Names
<1>2. Larger(1, Of(v, "multi_thread_streams")) * Of(v, "buffer_size") \in Nat
  BY <1>1, LargerIsNat, TimesIsNat
<1>3. CASE dst \in CHUNKED_BACKENDS
  <2>1. Of(v, Concurrency[dst]) \in Nat /\ Of(v, ChunkSize[dst]) \in Nat
    BY <1>3, OfIsNat, ChunkNames
  <2>2. Larger(Of(v, Concurrency[dst]), Of(v, "multi_thread_streams")) * Of(v, ChunkSize[dst]) \in Nat
    BY <1>1, <2>1, LargerIsNat, TimesIsNat
  <2> QED BY <1>2, <1>3, <2>2 DEF PerTransfer
<1>4. CASE dst \notin CHUNKED_BACKENDS
  BY <1>2, <1>4 DEF PerTransfer
<1> QED BY <1>3, <1>4

LEMMA MemoryIs ==
    ASSUME NEW v, Bounded(v), NEW dst
    PROVE  EstimateMemory(v, dst) = Of(v, "transfers") * PerTransfer(v, dst)
<1>1. PICK w : w = v ++ RCLONE_DEFAULTS
  OBVIOUS
<1>2. \A n \in Names : w[n] = Of(v, n)
  <2>1. TAKE n \in Names
  <2>2. CASE n \in DOMAIN v
    BY <1>1, <2>2, Merged DEF Of
  <2>3. CASE n \notin DOMAIN v
    <3>1. n \in DOMAIN RCLONE_DEFAULTS \ DOMAIN v
      BY <2>1, <2>3, ParameterBounds
    <3>2. w[n] = RCLONE_DEFAULTS[n]
      BY <1>1, <3>1 DEF ++
    <3> QED BY <2>3, <3>2 DEF Of
  <2> QED BY <2>2, <2>3
<1>3. /\ w["transfers"] = Of(v, "transfers") /\ w["buffer_size"] = Of(v, "buffer_size")
      /\ w["multi_thread_streams"] = Of(v, "multi_thread_streams")
  BY <1>2 DEF Names
<1>4. CASE dst \in CHUNKED_BACKENDS
  <2>1. w[Concurrency[dst]] = Of(v, Concurrency[dst]) /\ w[ChunkSize[dst]] = Of(v, ChunkSize[dst])
    BY <1>2, <1>4, ChunkNames
  <2> QED BY <1>1, <1>3, <1>4, <2>1 DEF EstimateMemory, PerTransfer
<1>5. CASE dst \notin CHUNKED_BACKENDS
  BY <1>1, <1>3, <1>5 DEF EstimateMemory, PerTransfer
<1> QED BY <1>4, <1>5

\* Estimates agree for values that agree on all but the transfers.
LEMMA SamePerTransfer ==
    ASSUME NEW v, NEW w, NEW dst, Of(v, "multi_thread_streams") = Of(w, "multi_thread_streams"),
           Of(v, "buffer_size") = Of(w, "buffer_size"),
           dst \in CHUNKED_BACKENDS => /\ Of(v, Concurrency[dst]) = Of(w, Concurrency[dst])
                                       /\ Of(v, ChunkSize[dst]) = Of(w, ChunkSize[dst])
    PROVE  PerTransfer(v, dst) = PerTransfer(w, dst)
BY DEF PerTransfer

LEMMA WithTransfers ==
    ASSUME NEW v, Bounded(v), NEW dst, NEW n \in Nat, InBounds("transfers", n)
    PROVE  /\ Bounded([transfers |-> n] ++ v)
           /\ EstimateMemory([transfers |-> n] ++ v, dst) = n * PerTransfer(v, dst)
<1>1. PICK t : t = [transfers |-> n]
  OBVIOUS
<1>2. DOMAIN t = {"transfers"} /\ t["transfers"] = n
  BY <1>1
<1>3. Bounded(t)
  BY <1>1, <1>2 DEF Bounded, Values, Names
<1>4. PICK w : w = t ++ v
  OBVIOUS
<1>5. Bounded(w) /\ Of(w, "transfers") = n /\ \A m \in Names \ {"transfers"} : Of(w, m) = Of(v, m)
  <2>1. Bounded(w)
    BY <1>3, <1>4, Merged
  <2>2. \A m : Of(w, m) = IF m \in DOMAIN t THEN t[m] ELSE Of(v, m)
    BY <1>4, MergedOf
  <2> QED BY <1>2, <2>1, <2>2
<1>6. PerTransfer(w, dst) = PerTransfer(v, dst)
  <2>1. "multi_thread_streams" \in Names \ {"transfers"} /\ "buffer_size" \in Names \ {"transfers"}
    BY DEF Names
  <2> QED BY <1>5, <2>1, ChunkNames, SamePerTransfer
<1>7. EstimateMemory(w, dst) = n * PerTransfer(v, dst)
  BY <1>5, <1>6, MemoryIs
<1> QED BY <1>1, <1>4, <1>5, <1>7

\* Without buffers for a local source, rclone needs no more.
LEMMA Unbuffered ==
    ASSUME NEW v, Bounded(v), NEW dst, NEW b, b \in {NoValues, [buffer_size |-> 0]}
    PROVE  EstimateMemory(v ++ b, dst) =< EstimateMemory(v, dst)
<1>1. PICK w : w = v ++ b
  OBVIOUS
<1>2. DOMAIN b \subseteq {"buffer_size"} /\ \A n \in DOMAIN b : b[n] = 0
  BY DEF NoValues
<1>3. Bounded(b)
  <2>1. InBounds("buffer_size", 0)
    BY DEF InBounds, PARAMS, Param, GiB
  <2>2. b \in [DOMAIN b -> Int]
    <3>1. CASE b = NoValues
      BY <3>1 DEF NoValues
    <3>2. CASE b = [buffer_size |-> 0]
      BY <3>2
    <3> QED BY <3>1, <3>2
  <2> QED BY <1>2, <2>1, <2>2 DEF Bounded, Values, Names
<1>4. Bounded(w) /\ \A n \in Names \ {"buffer_size"} : Of(w, n) = Of(v, n)
  <2>1. Bounded(w)
    BY <1>1, <1>3, Merged
  <2>2. ASSUME NEW n \in Names \ {"buffer_size"} PROVE Of(w, n) = Of(v, n)
    <3>1. Of(w, n) = IF n \in DOMAIN v THEN v[n] ELSE Of(b, n)
      BY <1>1, MergedOf
    <3>2. n \notin DOMAIN b
      BY <1>2, <2>2
    <3> QED BY <3>1, <3>2 DEF Of
  <2> QED BY <2>1, <2>2
<1>5. Of(w, "buffer_size") = Of(v, "buffer_size") \/ Of(w, "buffer_size") = 0
  <2>1. Of(w, "buffer_size") = IF "buffer_size" \in DOMAIN v THEN v["buffer_size"] ELSE Of(b, "buffer_size")
    BY <1>1, MergedOf
  <2>2. CASE "buffer_size" \in DOMAIN v
    BY <2>1, <2>2 DEF Of
  <2>3. CASE "buffer_size" \notin DOMAIN v
    BY <1>2, <2>1, <2>3 DEF Of
  <2> QED BY <2>2, <2>3
<1>6. PerTransfer(w, dst) =< PerTransfer(v, dst)
  <2>1. Of(w, "multi_thread_streams") = Of(v, "multi_thread_streams") /\ Of(w, "transfers") = Of(v, "transfers")
    BY <1>4 DEF Names
  <2>2. dst \in CHUNKED_BACKENDS => /\ Of(v, Concurrency[dst]) = Of(w, Concurrency[dst])
                                    /\ Of(v, ChunkSize[dst]) = Of(w, ChunkSize[dst])
    BY <1>4, ChunkNames
  <2>3. CASE Of(w, "buffer_size") = Of(v, "buffer_size")
    BY <1>4, <2>1, <2>2, <2>3, SamePerTransfer, PerTransferIsNat
  <2>4. CASE Of(w, "buffer_size") = 0
    <3>1. PICK rest : rest = IF dst \in CHUNKED_BACKENDS
                  THEN Larger(Of(v, Concurrency[dst]), Of(v, "multi_thread_streams")) * Of(v, ChunkSize[dst]) ELSE 0
      OBVIOUS
    <3>2. PICK l : l = Larger(1, Of(v, "multi_thread_streams"))
      OBVIOUS
    <3>3. l \in Nat /\ Of(v, "buffer_size") \in Nat
      BY <3>2, OfIsNat, LargerIsNat DEF Names
    <3>4. PerTransfer(v, dst) = l * Of(v, "buffer_size") + rest
      BY <3>1, <3>2 DEF PerTransfer
    <3>5. PerTransfer(w, dst) = l * 0 + rest
      BY <2>1, <2>2, <2>4, <3>1, <3>2 DEF PerTransfer
    <3>6. rest \in Int
      <4>1. CASE dst \in CHUNKED_BACKENDS
        BY <3>1, <4>1, OfIsNat, ChunkNames, LargerIsNat, TimesIsNat DEF Names
      <4> QED BY <3>1, <4>1
    <3>7. PICK p : p = l * Of(v, "buffer_size")
      OBVIOUS
    <3>8. p \in Nat
      BY <3>3, <3>7, TimesIsNat
    <3>9. l * 0 = 0
      BY <3>3
    <3> QED BY <3>4, <3>5, <3>6, <3>7, <3>8, <3>9
  <2> QED BY <1>5, <2>3, <2>4
<1>7. Of(w, "transfers") = Of(v, "transfers") /\ Of(v, "transfers") \in Nat
  BY <1>4, OfIsNat DEF Names
<1>8. ASSUME NEW a \in Nat, NEW p \in Nat, NEW q \in Nat, p =< q PROVE a * p =< a * q
  BY <1>8
<1>9. Of(w, "transfers") * PerTransfer(w, dst) =< Of(v, "transfers") * PerTransfer(v, dst)
  BY <1>4, <1>6, <1>7, <1>8, PerTransferIsNat
<1> QED BY <1>1, <1>4, <1>9, MemoryIs

\* What applies to a destination is all that its estimate needs.
LEMMA AppliesIs ==
    ASSUME NEW dst
    PROVE  /\ AppliesTo(dst) \subseteq Names
           /\ {"transfers", "checkers", "multi_thread_streams", "buffer_size"} \subseteq AppliesTo(dst)
           /\ dst \in CHUNKED_BACKENDS => Concurrency[dst] \in AppliesTo(dst) /\ ChunkSize[dst] \in AppliesTo(dst)
<1>1. AppliesTo(dst) \subseteq Names
  BY ParameterBounds DEF AppliesTo
<1>2. /\ PARAMS["transfers"].backend = "any" /\ PARAMS["multi_thread_streams"].backend = "any"
      /\ PARAMS["buffer_size"].backend = "any" /\ PARAMS["checkers"].backend = "any"
  BY DEF PARAMS, Param
<1>3. {"transfers", "checkers", "multi_thread_streams", "buffer_size"} \subseteq AppliesTo(dst)
  BY <1>2, ParameterBounds DEF AppliesTo, Names
<1>4. ASSUME dst \in CHUNKED_BACKENDS
      PROVE  Concurrency[dst] \in AppliesTo(dst) /\ ChunkSize[dst] \in AppliesTo(dst)
  <2>1. /\ PARAMS["s3_upload_concurrency"].backend = "s3" /\ PARAMS["s3_chunk_size"].backend = "s3"
        /\ PARAMS["azureblob_upload_concurrency"].backend = "azureblob"
        /\ PARAMS["azureblob_chunk_size"].backend = "azureblob"
    BY DEF PARAMS, Param
  <2>2. CASE dst = "s3"
    BY <2>1, <2>2, ParameterBounds DEF AppliesTo, Names, Concurrency, ChunkSize
  <2>3. CASE dst = "azureblob"
    BY <2>1, <2>3, ParameterBounds DEF AppliesTo, Names, Concurrency, ChunkSize
  <2> QED BY <1>4, <2>2, <2>3 DEF CHUNKED_BACKENDS
<1> QED BY <1>1, <1>3, <1>4

LEMMA OnlyWhatApplies ==
    ASSUME NEW v, Bounded(v), NEW dst
    PROVE  EstimateMemory(Only(v, AppliesTo(dst)), dst) = EstimateMemory(v, dst)
<1>1. PICK w : w = Only(v, AppliesTo(dst))
  OBVIOUS
<1>2. Bounded(w)
  BY <1>1, Chosen
<1>3. ASSUME NEW n \in AppliesTo(dst) PROVE Of(w, n) = Of(v, n)
  <2>1. n \in DOMAIN w <=> n \in DOMAIN v
    BY <1>1, <1>3 DEF Only
  <2>2. n \in DOMAIN v => w[n] = v[n]
    BY <1>1, <1>3 DEF Only
  <2> QED BY <2>1, <2>2 DEF Of
<1>4. /\ Of(w, "multi_thread_streams") = Of(v, "multi_thread_streams")
      /\ Of(w, "buffer_size") = Of(v, "buffer_size") /\ Of(w, "transfers") = Of(v, "transfers")
  BY <1>3, AppliesIs
<1>5. PerTransfer(w, dst) = PerTransfer(v, dst)
  BY <1>3, <1>4, AppliesIs, SamePerTransfer
<1> QED BY <1>1, <1>2, <1>4, <1>5, MemoryIs

LEMMA EffectiveIs ==
    ASSUME NEW v, Bounded(v), NEW s, Bounded(s.defaults), NEW dst
    PROVE  /\ Bounded(Effective(v, dst, s))
           /\ \A n \in DOMAIN v \cap AppliesTo(dst) : Effective(v, dst, s)[n] = v[n]
           /\ \A n : Of(Effective(v, dst, s), n)
                     = IF n \in AppliesTo(dst) THEN IF n \in DOMAIN v THEN v[n] ELSE Of(s.defaults, n)
                       ELSE RCLONE_DEFAULTS[n]
<1>1. PICK m : m = v ++ s.defaults
  OBVIOUS
<1>2. PICK e : e = Only(m, AppliesTo(dst))
  OBVIOUS
<1>3. e = Effective(v, dst, s)
  BY <1>1, <1>2 DEF Effective
<1>4. Bounded(m) /\ DOMAIN m = DOMAIN v \cup DOMAIN s.defaults /\ \A n \in DOMAIN v : m[n] = v[n]
  BY <1>1, Merged
<1>5. /\ Bounded(e) /\ DOMAIN e = DOMAIN m \cap AppliesTo(dst)
      /\ \A n \in DOMAIN m \cap AppliesTo(dst) : e[n] = m[n]
  BY <1>2, <1>4, Chosen
<1>6. \A n : Of(m, n) = IF n \in DOMAIN v THEN v[n] ELSE Of(s.defaults, n)
  BY <1>1, MergedOf
<1>7. \A n : Of(e, n) = IF n \in AppliesTo(dst) THEN Of(m, n) ELSE RCLONE_DEFAULTS[n]
  BY <1>5 DEF Of
<1> QED BY <1>3, <1>4, <1>5, <1>6, <1>7

\* Overrides without those for other destinations have the same effect.
LEMMA EffectiveOfApplied ==
    ASSUME NEW raw, NEW s, NEW dst
    PROVE  /\ Effective(Only(raw, AppliesTo(dst)), dst, s) = Effective(raw, dst, s)
           /\ Only(Only(raw, AppliesTo(dst)), AppliesTo(dst)) = Only(raw, AppliesTo(dst))
<1>1. PICK A : A = AppliesTo(dst)
  OBVIOUS
<1>2. Only(Only(raw, A) ++ s.defaults, A) = Only(raw ++ s.defaults, A)
  BY DEF Only, ++
<1>3. Only(Only(raw, A), A) = Only(raw, A)
  BY DEF Only
<1> QED BY <1>1, <1>2, <1>3 DEF Effective

-----------------------------------------------------------------------------
(* The settings of a process.                                                *)

SettingsOK(s) ==
    /\ Bounded(s.defaults) /\ s.budget \in Nat
    /\ s.caps \in [DOMAIN CAPS -> Int]
    /\ \A c \in DOMAIN CAPS : CAP_BOUNDS[c][1] =< s.caps[c] /\ s.caps[c] =< CAP_BOUNDS[c][2]
    /\ \A dst \in Destinations : EstimateMemory(s.defaults, dst) =< s.budget
IsEnv(env) ==
    /\ env.memory \in Nat /\ env.budget \in Nat
    /\ env.caps \in [DOMAIN env.caps -> Int] /\ DOMAIN env.caps \subseteq DOMAIN CAPS
    /\ env.set \in [DOMAIN env.set -> Int] /\ DOMAIN env.set \subseteq Names

LEMMA CapsAre ==
    /\ DOMAIN CAPS = {"transfers", "checkers", "multi_thread_streams", "upload_concurrency"}
    /\ DOMAIN CAP_BOUNDS = DOMAIN CAPS
    /\ \A c \in DOMAIN CAPS : /\ CAPS[c] \in Nat /\ CAP_BOUNDS[c][1] \in Nat /\ CAP_BOUNDS[c][2] \in Nat
                              /\ CAP_BOUNDS[c][1] =< CAPS[c] /\ CAPS[c] =< CAP_BOUNDS[c][2]
BY DEF CAPS, CAP_BOUNDS

\* A cap is a value that its parameters may have.
LEMMA CapIsInBounds ==
    ASSUME NEW n \in Names, PARAMS[n].cap \in DOMAIN CAPS,
           NEW k \in Int, CAP_BOUNDS[PARAMS[n].cap][1] =< k, k =< CAP_BOUNDS[PARAMS[n].cap][2]
    PROVE  InBounds(n, k)
<1>1. CASE n = "transfers"
  BY <1>1 DEF PARAMS, Param, CAP_BOUNDS, InBounds
<1>2. CASE n = "checkers"
  BY <1>2 DEF PARAMS, Param, CAP_BOUNDS, InBounds
<1>3. CASE n = "multi_thread_streams"
  BY <1>3 DEF PARAMS, Param, CAP_BOUNDS, InBounds
<1>4. CASE n = "s3_upload_concurrency"
  BY <1>4 DEF PARAMS, Param, CAP_BOUNDS, InBounds
<1>5. CASE n = "azureblob_upload_concurrency"
  BY <1>5 DEF PARAMS, Param, CAP_BOUNDS, InBounds
<1>6. CASE n \in {"multi_thread_cutoff", "buffer_size", "s3_chunk_size", "azureblob_chunk_size"}
  BY <1>6, CapsAre DEF PARAMS, Param
<1> QED BY <1>1, <1>2, <1>3, <1>4, <1>5, <1>6 DEF Names

LEMMA CappedIsInBounds ==
    ASSUME NEW n \in Names, NEW value \in Int, InBounds(n, value), NEW caps, caps \in [DOMAIN CAPS -> Int],
           \A c \in DOMAIN CAPS : CAP_BOUNDS[c][1] =< caps[c] /\ caps[c] =< CAP_BOUNDS[c][2]
    PROVE  /\ Capped(n, value, caps) \in Int /\ InBounds(n, Capped(n, value, caps))
           /\ UnderCap(n, Capped(n, value, caps), caps)
<1>1. CASE UnderCap(n, value, caps)
  BY <1>1 DEF Capped
<1>2. CASE ~UnderCap(n, value, caps)
  <2>1. PARAMS[n].cap \in DOMAIN CAPS /\ Capped(n, value, caps) = caps[PARAMS[n].cap]
    BY <1>2 DEF UnderCap, Capped
  <2> QED BY <2>1, CapIsInBounds DEF UnderCap
<1> QED BY <1>1, <1>2

\* Halving a default keeps it in its bounds.
LEMMA LoweredIsInBounds ==
    ASSUME NEW v, Bounded(v), NEW name \in {"s3_upload_concurrency", "transfers"}, name \in DOMAIN v,
           NEW floor \in Nat, floor >= 1, NEW unset, NEW budget
    PROVE  LET w == LowerOnce(v, name, floor, unset, budget)
           IN  Bounded(w) /\ DOMAIN v \subseteq DOMAIN w
<1>1. PICK half : half = v[name] \div 2
  OBVIOUS
<1>2. PICK c : c = IF name = "transfers" /\ "checkers" \in unset
                   THEN [checkers |-> Larger(2 * half, 32)] ELSE NoValues
  OBVIOUS
<1>3. PICK h : h = [n \in {name} |-> half]
  OBVIOUS
<1>4. LowerOnce(v, name, floor, unset, budget)
      = IF name \in unset /\ half >= floor /\ ~FitsEverywhere(v, budget) THEN c ++ h ++ v ELSE v
  BY <1>1, <1>2, <1>3 DEF LowerOnce
<1>5. CASE half >= floor
  <2>1. name \in Names /\ v[name] \in Nat /\ InBounds(name, v[name])
    BY BoundedIsNat DEF Bounded, Names
  <2>2. half \in Nat /\ half >= 1 /\ half =< v[name]
    BY <1>1, <1>5, <2>1
  <2>3. InBounds(name, half)
    BY <2>1, <2>2 DEF PARAMS, Param, InBounds
  <2>4. Bounded(h)
    BY <1>3, <2>1, <2>2, <2>3 DEF Bounded, Values
  <2>5. Bounded(c)
    <3>1. CASE name = "transfers" /\ "checkers" \in unset
      <4>1. half =< 512
        BY <1>1, <2>1, <3>1 DEF PARAMS, Param, InBounds
      <4>2. PICK k : k = Larger(2 * half, 32)
        OBVIOUS
      <4>3. k \in Nat /\ k >= 1 /\ k =< 1024
        BY <2>2, <4>1, <4>2 DEF Larger
      <4>4. InBounds("checkers", k)
        BY <4>3 DEF PARAMS, Param, InBounds
      <4>5. c = [checkers |-> k]
        BY <1>2, <3>1, <4>2
      <4> QED BY <4>3, <4>4, <4>5 DEF Bounded, Values, Names
    <3>2. CASE ~(name = "transfers" /\ "checkers" \in unset)
      BY <1>2, <3>2 DEF Bounded, Values, NoValues
    <3> QED BY <3>1, <3>2
  <2>6. Bounded(c ++ h) /\ DOMAIN (c ++ h) = DOMAIN c \cup DOMAIN h
    BY <2>4, <2>5, Merged
  <2>7. Bounded((c ++ h) ++ v) /\ DOMAIN ((c ++ h) ++ v) = DOMAIN (c ++ h) \cup DOMAIN v
    BY <2>6, Merged
  <2> QED BY <1>4, <2>7
<1>6. CASE ~(half >= floor)
  BY <1>4, <1>6
<1> QED BY <1>5, <1>6

LEMMA DefaultsInBounds ==
    ASSUME NEW d, Bounded(d), NEW caps, caps \in [DOMAIN CAPS -> Int],
           \A c \in DOMAIN CAPS : CAP_BOUNDS[c][1] =< caps[c] /\ caps[c] =< CAP_BOUNDS[c][2],
           NEW budget
    PROVE  Bounded(AddMotuzDefaults(d, caps, budget))
<1>1. PICK unset : unset = DOMAIN MOTUZ_DEFAULTS \ DOMAIN d
  OBVIOUS
<1>2. PICK own : own = [n \in unset |-> Capped(n, MOTUZ_DEFAULTS[n], caps)]
  OBVIOUS
<1>3. PICK all : all = d ++ own
  OBVIOUS
<1>4. PICK a : a = LowerOnce(all, "s3_upload_concurrency", 4, unset, budget)
  OBVIOUS
<1>5. PICK b : b = LowerOnce(a, "transfers", 16, unset, budget)
  OBVIOUS
<1>6. PICK c : c = LowerOnce(b, "transfers", 16, unset, budget)
  OBVIOUS
<1>7. AddMotuzDefaults(d, caps, budget) = IF FitsEverywhere(c, budget) THEN c ELSE d
  BY <1>1, <1>2, <1>3, <1>4, <1>5, <1>6 DEF AddMotuzDefaults, Lowered
<1>8. DOMAIN MOTUZ_DEFAULTS = {"transfers", "checkers", "s3_upload_concurrency", "s3_chunk_size"}
  BY DEF MOTUZ_DEFAULTS
<1>9. \A n \in DOMAIN MOTUZ_DEFAULTS : MOTUZ_DEFAULTS[n] \in Int /\ InBounds(n, MOTUZ_DEFAULTS[n]) /\ n \in Names
  BY DEF MOTUZ_DEFAULTS, InBounds, PARAMS, Param, Names, GiB
<1>10. Bounded(own)
  <2>1. ASSUME NEW n \in unset PROVE n \in Names /\ own[n] \in Int /\ InBounds(n, own[n])
    BY <1>1, <1>2, <1>9, CappedIsInBounds
  <2>2. DOMAIN own = unset /\ own \in [DOMAIN own -> Int]
    BY <1>2, <2>1
  <2> QED BY <2>1, <2>2 DEF Bounded, Values
<1>11. Bounded(all) /\ {"transfers", "s3_upload_concurrency"} \subseteq DOMAIN all
  <2>1. Bounded(all) /\ DOMAIN all = DOMAIN d \cup DOMAIN own
    BY <1>3, <1>10, Merged
  <2>2. DOMAIN own = DOMAIN MOTUZ_DEFAULTS \ DOMAIN d
    BY <1>1, <1>2
  <2> QED BY <1>8, <2>1, <2>2
<1>12. Bounded(a) /\ {"transfers", "s3_upload_concurrency"} \subseteq DOMAIN a
  <2>1. "s3_upload_concurrency" \in DOMAIN all
    BY <1>11
  <2>2. Bounded(a) /\ DOMAIN all \subseteq DOMAIN a
    BY <1>4, <1>11, <2>1, LoweredIsInBounds
  <2> QED BY <1>11, <2>2
<1>13. Bounded(b) /\ {"transfers", "s3_upload_concurrency"} \subseteq DOMAIN b
  BY <1>5, <1>12, LoweredIsInBounds
<1>14. Bounded(c)
  BY <1>6, <1>13, LoweredIsInBounds
<1> QED BY <1>7, <1>14

LEMMA LoadedSettings ==
    ASSUME NEW env, IsEnv(env), NEW s \in LoadSettings(env)
    PROVE  SettingsOK(s)
<1>1. PICK caps : caps = env.caps ++ CAPS
  OBVIOUS
<1>2. PICK budget : budget = IF env.budget = 0 THEN DefaultBudget(env.memory) ELSE env.budget
  OBVIOUS
<1>3. PICK values : values = AddMotuzDefaults(env.set, caps, budget)
  OBVIOUS
<1>4. /\ s = [defaults |-> values, caps |-> caps, budget |-> budget]
      /\ \A c \in DOMAIN env.caps : CAP_BOUNDS[c][1] =< caps[c] /\ caps[c] =< CAP_BOUNDS[c][2]
      /\ \A n \in DOMAIN env.set : InBounds(n, env.set[n])
      /\ FitsEverywhere(values, budget)
  BY <1>1, <1>2, <1>3 DEF LoadSettings
<1>5. DOMAIN caps = DOMAIN CAPS /\ \A c \in DOMAIN CAPS : caps[c] = IF c \in DOMAIN env.caps THEN env.caps[c] ELSE CAPS[c]
  BY <1>1 DEF IsEnv, ++
<1>6. caps \in [DOMAIN CAPS -> Int]
  <2>1. caps = [c \in DOMAIN CAPS |-> IF c \in DOMAIN env.caps THEN env.caps[c] ELSE CAPS[c]]
    BY <1>1 DEF IsEnv, ++
  <2> QED BY <2>1, CapsAre DEF IsEnv
<1>7. \A c \in DOMAIN CAPS : CAP_BOUNDS[c][1] =< caps[c] /\ caps[c] =< CAP_BOUNDS[c][2]
  BY <1>4, <1>5, CapsAre
<1>8. Bounded(env.set)
  BY <1>4 DEF IsEnv, Bounded, Values
<1>9. Bounded(values)
  BY <1>3, <1>6, <1>7, <1>8, DefaultsInBounds
<1>10. budget \in Nat
  <2>1. env.memory \div (4 * GiB) \in Nat
    BY DEF IsEnv, GiB
  <2>2. DefaultBudget(env.memory) \in Nat
    BY <2>1 DEF DefaultBudget, Larger, Smaller, GiB
  <2> QED BY <1>2, <2>2 DEF IsEnv
<1> QED BY <1>4, <1>6, <1>7, <1>9, <1>10 DEF SettingsOK, FitsEverywhere

-----------------------------------------------------------------------------
(* What fit_preset computes.                                                 *)

LEMMA Powers == \A i \in 1..10 : PowersOf2[i] \in Nat /\ PowersOf2[i] >= 1
<1>1. ASSUME NEW i \in 1..10 PROVE PowersOf2[i] \in {1, 2, 4, 8, 16, 32, 64, 128, 256, 512}
  <2>1. i \in {1, 2, 3, 4, 5, 6, 7, 8, 9, 10}
    OBVIOUS
  <2> QED BY <2>1 DEF PowersOf2
<1> QED BY <1>1

LEMMA HalvedIs ==
    ASSUME NEW value \in Nat, NEW floor \in Nat, NEW d \in Nat, d >= 1
    PROVE  /\ Halved(value, floor, d) \in Nat /\ Halved(value, floor, d) =< value
           /\ Halved(value, floor, d) = value \/ Halved(value, floor, d) >= floor
<1>1. value \div d \in Nat /\ value \div d =< value
  OBVIOUS
<1> QED BY <1>1 DEF Halved, Larger

\* Values of a preset in which each is within the bounds and the cap of its parameter.
Allowed(v, s) ==
    /\ Bounded(v) /\ DOMAIN v \subseteq PER_JOB
    /\ \A n \in DOMAIN v : UnderCap(n, v[n], s.caps)

LEMMA SmallerIsAllowed ==
    ASSUME NEW s, SettingsOK(s), NEW n \in Names, NEW value \in Nat, InBounds(n, value),
           UnderCap(n, value, s.caps), NEW w \in Nat, w =< value, PARAMS[n].lo =< w
    PROVE  InBounds(n, w) /\ UnderCap(n, w, s.caps)
<1>1. InBounds(n, w)
  BY ParameterBounds DEF InBounds
<1>2. UnderCap(n, w, s.caps)
  BY DEF UnderCap, SettingsOK
<1> QED BY <1>1, <1>2

LEMMA ReducedIsAllowed ==
    ASSUME NEW s, SettingsOK(s), NEW v, Allowed(v, s), NEW dst, NEW round \in Rounds
    PROVE  /\ Allowed(Reduced(v, dst, round), s)
           /\ DOMAIN Reduced(v, dst, round) = DOMAIN v
           /\ "transfers" \in DOMAIN v => Reduced(v, dst, round)["transfers"] = v["transfers"]
<1>1. PICK w : w = Reduced(v, dst, round)
  OBVIOUS
<1>2. PICK chunk : chunk = PowersOf2[Smaller(round, 9) + 1]
  OBVIOUS
<1>3. PICK others : others = PowersOf2[Larger(round - 9, 0) + 1]
  OBVIOUS
<1>4. chunk \in Nat /\ chunk >= 1 /\ others \in Nat /\ others >= 1
  <2>1. Smaller(round, 9) + 1 \in 1..10 /\ Larger(round - 9, 0) + 1 \in 1..10
    BY DEF Smaller, Larger, Rounds
  <2> QED BY <1>2, <1>3, <2>1, Powers
<1>5. w = [n \in DOMAIN v |->
              IF dst \in CHUNKED_BACKENDS /\ n = ChunkSize[dst] THEN Halved(v[n], 16, chunk)
              ELSE IF n = "multi_thread_streams" \/ (dst \in CHUNKED_BACKENDS /\ n = Concurrency[dst])
                   THEN Halved(v[n], 4, others)
              ELSE v[n]]
  BY <1>1, <1>2, <1>3 DEF Reduced
<1>6. ASSUME NEW n \in DOMAIN v
      PROVE  w[n] \in Int /\ InBounds(n, w[n]) /\ UnderCap(n, w[n], s.caps)
  <2>1. n \in Names /\ v[n] \in Nat /\ InBounds(n, v[n]) /\ UnderCap(n, v[n], s.caps)
    BY <1>6, BoundedIsNat DEF Allowed, Bounded, Values
  <2>2. CASE w[n] = v[n]
    BY <2>1, <2>2
  <2>3. CASE dst \in CHUNKED_BACKENDS /\ n = ChunkSize[dst]
    <3>1. w[n] = Halved(v[n], 16, chunk)
      BY <1>5, <2>3
    <3>2. w[n] \in Nat /\ w[n] =< v[n] /\ (w[n] = v[n] \/ w[n] >= 16)
      BY <1>4, <2>1, <3>1, HalvedIs
    <3>3. PARAMS[n].lo =< 16
      BY <2>3 DEF CHUNKED_BACKENDS, ChunkSize, PARAMS, Param
    <3>4. PARAMS[n].lo =< w[n]
      BY <2>1, <3>2, <3>3, ParameterBounds DEF InBounds
    <3> QED BY <2>1, <3>2, <3>4, SmallerIsAllowed
  <2>4. CASE ~(dst \in CHUNKED_BACKENDS /\ n = ChunkSize[dst])
             /\ (n = "multi_thread_streams" \/ (dst \in CHUNKED_BACKENDS /\ n = Concurrency[dst]))
    <3>1. w[n] = Halved(v[n], 4, others)
      BY <1>5, <2>4
    <3>2. w[n] \in Nat /\ w[n] =< v[n] /\ (w[n] = v[n] \/ w[n] >= 4)
      BY <1>4, <2>1, <3>1, HalvedIs
    <3>3. PARAMS[n].lo =< 4
      BY <2>4 DEF CHUNKED_BACKENDS, Concurrency, PARAMS, Param
    <3>4. PARAMS[n].lo =< w[n]
      BY <2>1, <3>2, <3>3, ParameterBounds DEF InBounds
    <3> QED BY <2>1, <3>2, <3>4, SmallerIsAllowed
  <2> QED BY <1>5, <2>2, <2>3, <2>4
<1>7. DOMAIN w = DOMAIN v
  BY <1>5
<1>8. w \in [DOMAIN w -> Int]
  BY <1>5, <1>6
<1>9. "transfers" \in DOMAIN v => w["transfers"] = v["transfers"]
  BY <1>5, ChunkNames
<1> QED BY <1>1, <1>6, <1>7, <1>8, <1>9 DEF Allowed, Bounded, Values

\* Fewer transfers that fit are fewer than those that do not.
LEMMA Quotient ==
    ASSUME NEW budget \in Nat, NEW p \in Nat, NEW t \in Nat, ~(t * p =< budget)
    PROVE  /\ budget \div p \in Nat /\ budget \div p < t
           /\ (budget \div p) * p =< budget
<1>1. p > 0
  <2>1. CASE p = 0
    BY <2>1
  <2> QED BY <2>1
<1>2. PICK q \in Nat : q = budget \div p
  BY <1>1
<1>3. q * p =< budget
  BY <1>1, <1>2
<1>4. q < t
  <2>1. CASE q >= t
    <3>1. q * p >= t * p
      BY <2>1
    <3>2. q * p \in Nat /\ t * p \in Nat
      BY TimesIsNat
    <3> QED BY <1>3, <3>1, <3>2
  <2> QED BY <2>1
<1> QED BY <1>2, <1>3, <1>4

LEMMA FittedIsAccepted ==
    ASSUME NEW s, SettingsOK(s), NEW dst \in Destinations, NEW v, Allowed(v, s),
           DOMAIN v \subseteq AppliesTo(dst), "transfers" \in DOMAIN v, NEW w \in Fitted(v, dst, s)
    PROVE  Bounded(w) /\ AcceptsCopy(w, dst, s)
<1>1. PICK round \in Rounds : w \in IF Fits(Reduced(v, dst, round), dst, s) THEN {Reduced(v, dst, round)}
                                  ELSE {[transfers |-> n] ++ Reduced(v, dst, round) :
                                           n \in {Fitting(Reduced(v, dst, round), dst, s)} \ {0}}
  BY DEF Fitted
<1>2. PICK r : r = Reduced(v, dst, round)
  OBVIOUS
<1>3. Allowed(r, s) /\ DOMAIN r = DOMAIN v
  BY <1>2, ReducedIsAllowed
<1>4. Bounded(r) /\ Bounded(s.defaults) /\ s.budget \in Nat
  BY <1>3 DEF Allowed, SettingsOK
<1>5. PICK e : e = Effective(r, dst, s)
  OBVIOUS
<1>6. Bounded(e)
  BY <1>4, <1>5, EffectiveIs
<1>7. ASSUME NEW x, Allowed(x, s), DOMAIN x = DOMAIN v, EstimateMemory(Effective(x, dst, s), dst) =< s.budget
      PROVE  Bounded(x) /\ AcceptsCopy(x, dst, s)
  <2>1. EachIsValid(x, PER_JOB, s)
    BY <1>7 DEF EachIsValid, Allowed, Bounded
  <2> QED BY <1>7, <2>1, EffectiveOfApplied DEF AcceptsCopy, Allowed
<1>8. CASE Fits(r, dst, s)
  BY <1>1, <1>2, <1>3, <1>7, <1>8 DEF Fits
<1>9. CASE ~Fits(r, dst, s)
  <2>1. PICK n : n # 0 /\ n = Fitting(r, dst, s) /\ w = [transfers |-> n] ++ r
    BY <1>1, <1>2, <1>9
  <2>2. PICK p : p = PerTransfer(e, dst)
    OBVIOUS
  <2>3. p \in Nat
    BY <1>6, <2>2, PerTransferIsNat
  <2>4. r["transfers"] \in Nat /\ InBounds("transfers", r["transfers"]) /\ UnderCap("transfers", r["transfers"], s.caps)
    BY <1>3, BoundedIsNat DEF Allowed, Bounded
  <2>5. Of(e, "transfers") = r["transfers"]
    BY <1>3, <1>4, <1>5, EffectiveIs
  <2>6. ~(r["transfers"] * p =< s.budget)
    BY <1>5, <1>6, <1>9, <2>2, <2>5, MemoryIs DEF Fits
  <2>7. n = s.budget \div p
    <3>1. InBounds("transfers", 1)
      BY DEF InBounds, PARAMS, Param
    <3>2. EstimateMemory([transfers |-> 1] ++ e, dst) = 1 * p
      BY <1>6, <2>2, <3>1, WithTransfers
    <3> QED BY <1>5, <2>1, <2>3, <3>2 DEF Fitting
  <2>8. n \in Nat /\ n < r["transfers"] /\ n * p =< s.budget
    BY <1>4, <2>3, <2>4, <2>6, <2>7, Quotient
  <2>9. InBounds("transfers", n) /\ UnderCap("transfers", n, s.caps)
    <3>1. PARAMS["transfers"].lo = 1
      BY DEF PARAMS, Param
    <3>2. PARAMS["transfers"].lo =< n /\ "transfers" \in Names
      BY <2>1, <2>8, <3>1 DEF Names
    <3> QED BY <2>4, <2>8, <3>2, SmallerIsAllowed
  <2>10. PICK t : t = [transfers |-> n]
    OBVIOUS
  <2>11. DOMAIN t = {"transfers"} /\ t["transfers"] = n
    BY <2>10
  <2>12. Bounded(w)
    BY <1>4, <2>1, <2>8, <2>9, WithTransfers
  <2>13. DOMAIN w = DOMAIN v /\ w["transfers"] = n /\ \A m \in DOMAIN w \ {"transfers"} : w[m] = r[m]
    <3>1. w = t ++ r
      BY <2>1, <2>10
    <3>2. DOMAIN w = DOMAIN t \cup DOMAIN r
      BY <3>1, Merged
    <3> QED BY <1>3, <2>11, <3>1, <3>2 DEF ++
  <2>14. Allowed(w, s)
    BY <1>3, <2>9, <2>12, <2>13 DEF Allowed
  <2>15. PICK f : f = Effective(w, dst, s)
    OBVIOUS
  <2>16. Bounded(f) /\ \A m : Of(f, m) = IF m = "transfers" THEN n ELSE Of(e, m)
    <3>1. Bounded(f) /\ \A m : Of(f, m)
             = IF m \in AppliesTo(dst) THEN IF m \in DOMAIN w THEN w[m] ELSE Of(s.defaults, m) ELSE RCLONE_DEFAULTS[m]
      BY <1>4, <2>12, <2>15, EffectiveIs
    <3>2. \A m : Of(e, m)
             = IF m \in AppliesTo(dst) THEN IF m \in DOMAIN r THEN r[m] ELSE Of(s.defaults, m) ELSE RCLONE_DEFAULTS[m]
      BY <1>4, <1>5, EffectiveIs
    <3> QED BY <1>3, <2>13, <3>1, <3>2, AppliesIs
  <2>17. PerTransfer(f, dst) = p
    <3>1. Of(f, "multi_thread_streams") = Of(e, "multi_thread_streams") /\ Of(f, "buffer_size") = Of(e, "buffer_size")
      BY <2>16
    <3>2. dst \in CHUNKED_BACKENDS => /\ Of(f, Concurrency[dst]) = Of(e, Concurrency[dst])
                                      /\ Of(f, ChunkSize[dst]) = Of(e, ChunkSize[dst])
      BY <2>16, ChunkNames
    <3> QED BY <2>2, <3>1, <3>2, SamePerTransfer
  <2>18. EstimateMemory(f, dst) = n * p
    BY <2>16, <2>17, MemoryIs
  <2> QED BY <1>7, <2>8, <2>13, <2>14, <2>15, <2>18
<1> QED BY <1>8, <1>9

LEMMA TargetsAre ==
    ASSUME NEW p \in DOMAIN PRESETS
    PROVE  /\ Bounded(PRESETS[p]) /\ DOMAIN PRESETS[p] \subseteq PER_JOB
           /\ DOMAIN PRESETS[p] = {} \/ "transfers" \in DOMAIN PRESETS[p]
<1>1. PICK small : small = [transfers |-> 128, checkers |-> 256, s3_upload_concurrency |-> 4, s3_chunk_size |-> 16]
  OBVIOUS
<1>2. PICK large : large = [ transfers |-> 32, checkers |-> 64, multi_thread_streams |-> 16,
                   multi_thread_cutoff |-> 64, s3_upload_concurrency |-> 16, s3_chunk_size |-> 16,
                   azureblob_upload_concurrency |-> 16, azureblob_chunk_size |-> 16 ]
  OBVIOUS
<1>3. PICK maximum : maximum = [large EXCEPT !.transfers = 128, !.checkers = 256]
  OBVIOUS
<1>4. PRESETS[p] \in {NoValues, small, large, maximum}
  <2>1. PRESETS = [default |-> NoValues, small_files |-> small, large_files |-> large, maximum |-> maximum]
    BY <1>1, <1>2, <1>3 DEF PRESETS
  <2>2. PICK f : f = [default |-> NoValues, small_files |-> small, large_files |-> large, maximum |-> maximum]
    OBVIOUS
  <2>3. \A q \in DOMAIN f : f[q] \in {NoValues, small, large, maximum}
    BY <2>2
  <2> QED BY <2>1, <2>2, <2>3
<1>5. PER_JOB = Names \ {"buffer_size"}
  BY DEF PER_JOB, PARAMS, Param, Names
<1>6. Bounded(NoValues) /\ DOMAIN NoValues = {}
  BY DEF NoValues, Bounded, Values
<1>7. Bounded(small) /\ DOMAIN small \subseteq PER_JOB /\ "transfers" \in DOMAIN small
  <2>1. Bounded(small)
    BY <1>1 DEF Bounded, Values, Names, InBounds, PARAMS, Param, GiB
  <2> QED BY <1>1, <1>5, <2>1 DEF Names
<1>8. Bounded(large) /\ DOMAIN large \subseteq PER_JOB /\ {"transfers", "checkers"} \subseteq DOMAIN large
  <2>1. Bounded(large)
    BY <1>2 DEF Bounded, Values, Names, InBounds, PARAMS, Param, GiB, TiB
  <2> QED BY <1>2, <1>5, <2>1 DEF Names
<1>9. Bounded(maximum) /\ DOMAIN maximum = DOMAIN large
  <2>1. large \in [DOMAIN large -> Int]
    BY <1>8 DEF Bounded, Values
  <2>2. /\ DOMAIN maximum = DOMAIN large
        /\ \A n \in DOMAIN large : maximum[n] = IF n = "checkers" THEN 256 ELSE IF n = "transfers" THEN 128 ELSE large[n]
        /\ maximum \in [DOMAIN large -> Int]
    <3>1. maximum = [[large EXCEPT !["transfers"] = 128] EXCEPT !["checkers"] = 256]
      BY <1>3
    <3>2. PICK m : m = [large EXCEPT !["transfers"] = 128]
      OBVIOUS
    <3>3. m \in [DOMAIN large -> Int] /\ \A n \in DOMAIN large : m[n] = IF n = "transfers" THEN 128 ELSE large[n]
      BY <1>8, <2>1, <3>2
    <3>4. maximum = [m EXCEPT !["checkers"] = 256]
      BY <3>1, <3>2
    <3> QED BY <1>8, <3>3, <3>4
  <2>3. InBounds("transfers", 128) /\ InBounds("checkers", 256)
    BY DEF InBounds, PARAMS, Param
  <2> QED BY <1>8, <2>2, <2>3 DEF Bounded, Values
<1> QED BY <1>4, <1>6, <1>7, <1>8, <1>9

LEMMA NothingIsAccepted ==
    ASSUME NEW s, SettingsOK(s), NEW dst \in Destinations, NEW v, Bounded(v), DOMAIN v = {}
    PROVE  AcceptsCopy(v, dst, s)
<1>1. PICK x : x = Only(v, AppliesTo(dst))
  OBVIOUS
<1>2. DOMAIN x = {}
  BY <1>1, Chosen
<1>3. s.defaults \in [DOMAIN s.defaults -> Int]
  BY DEF SettingsOK, Bounded, Values
<1>4. x ++ s.defaults = s.defaults
  BY <1>2, <1>3 DEF ++
<1>5. EstimateMemory(Effective(x, dst, s), dst) = EstimateMemory(s.defaults, dst)
  BY <1>4, OnlyWhatApplies DEF Effective, SettingsOK
<1> QED BY <1>1, <1>5 DEF AcceptsCopy, EachIsValid, SettingsOK

LEMMA PresetIsAccepted ==
    ASSUME NEW s, SettingsOK(s), NEW dst \in Destinations, NEW w \in Presets(dst, s)
    PROVE  Bounded(w) /\ AcceptsCopy(w, dst, s)
<1>1. PICK p \in DOMAIN PRESETS : w \in FitPreset(PRESETS[p], dst, s)
  BY DEF Presets
<1>2. PICK own : own = Only(PRESETS[p], AppliesTo(dst))
  OBVIOUS
<1>3. PICK v : v = [n \in DOMAIN own |-> Capped(n, own[n], s.caps)]
  OBVIOUS
<1>4. w \in IF DOMAIN v = {} THEN {v} ELSE Fitted(v, dst, s)
  BY <1>1, <1>2, <1>3 DEF FitPreset
<1>5. /\ Bounded(own) /\ DOMAIN own \subseteq PER_JOB \cap AppliesTo(dst)
      /\ DOMAIN own = {} \/ "transfers" \in DOMAIN own
  <2>1. /\ Bounded(PRESETS[p]) /\ DOMAIN PRESETS[p] \subseteq PER_JOB
        /\ DOMAIN PRESETS[p] = {} \/ "transfers" \in DOMAIN PRESETS[p]
    BY TargetsAre
  <2>2. Bounded(own) /\ DOMAIN own = DOMAIN PRESETS[p] \cap AppliesTo(dst)
    BY <1>2, <2>1, Chosen
  <2> QED BY <2>1, <2>2, AppliesIs
<1>6. Allowed(v, s)
  <2>1. ASSUME NEW n \in DOMAIN own
        PROVE  /\ n \in Names /\ v[n] = Capped(n, own[n], s.caps) /\ v[n] \in Int
               /\ InBounds(n, v[n]) /\ UnderCap(n, v[n], s.caps)
    <3>1. n \in Names /\ own[n] \in Int /\ InBounds(n, own[n])
      BY <1>5 DEF Bounded, Values
    <3>2. v[n] = Capped(n, own[n], s.caps)
      BY <1>3
    <3> QED BY <3>1, <3>2, CappedIsInBounds DEF SettingsOK
  <2>2. DOMAIN v = DOMAIN own /\ v \in [DOMAIN v -> Int]
    BY <1>3, <2>1
  <2> QED BY <1>5, <2>1, <2>2 DEF Allowed, Bounded, Values
<1>7. DOMAIN v = DOMAIN own
  BY <1>3
<1>8. CASE DOMAIN v = {}
  BY <1>4, <1>6, <1>8, NothingIsAccepted DEF Allowed
<1>9. CASE DOMAIN v # {}
  <2>1. "transfers" \in DOMAIN v /\ DOMAIN v \subseteq AppliesTo(dst)
    BY <1>5, <1>7, <1>9
  <2> QED BY <1>4, <1>6, <1>9, <2>1, FittedIsAccepted
<1> QED BY <1>8, <1>9

-----------------------------------------------------------------------------
(* The invariant of installation, dialog and job.                           *)

JobFields == {"state", "kind", "dst", "srcLocal", "performance", "legible", "started", "flags"}
IsJob(j) == DOMAIN j = JobFields /\ j = [f \in JobFields |-> j[f]]
FlagsOf(j, s) == IF j.kind = "copy" THEN CopyFlags(j.performance, j.dst, s, j.srcLocal)
                 ELSE HashsumFlags(j.performance, s)

\* The overrides of a job are numbers of parameters that its command knows; rclone runs with
\* the flags of settings under which they were accepted.
JobTrue(j) ==
    /\ IsJob(j) /\ j.kind \in {"copy", "check"} /\ j.dst \in Destinations
    /\ j.performance \in [DOMAIN j.performance -> Int]
    /\ DOMAIN j.performance \subseteq IF j.kind = "copy" THEN AppliesTo(j.dst) ELSE {"checkers"}
    /\ j.state = "running" =>
          \E s \in j.started : SettingsOK(s) /\ j.started = {s} /\ Revalidates(j, s) /\ j.flags = FlagsOf(j, s)
\* An open dialog shows the presets of settings that a process had.
DialogTrue ==
    /\ dialog.dst \in Destinations
    /\ dialog.open => \E s \in dialog.from : /\ SettingsOK(s) /\ dialog.from = {s}
                                            /\ dialog.presets = Presets(dialog.dst, s)
TuningInv == SettingsOK(tuning) /\ DialogTrue /\ JobTrue(tuned)

LEMMA RunFits ==
    ASSUME NEW j, JobTrue(j), j.state = "running", NEW s \in j.started
    PROVE  /\ j.kind = "copy" => EstimateMemory(j.flags, j.dst) =< s.budget
           /\ \A n \in DOMAIN j.performance : UnderCap(n, j.flags[n], s.caps)
<1>1. SettingsOK(s) /\ Revalidates(j, s) /\ j.flags = FlagsOf(j, s)
  BY DEF JobTrue
<1>2. PICK p : p = j.performance
  OBVIOUS
<1>3. PICK d : d = j.dst
  OBVIOUS
<1>4. CASE j.kind = "copy"
  <2>1. AcceptsCopy(p, d, s)
    BY <1>1, <1>2, <1>3, <1>4 DEF Revalidates
  <2>2. DOMAIN p \subseteq AppliesTo(d) /\ p \in [DOMAIN p -> Int]
    BY <1>2, <1>3, <1>4 DEF JobTrue
  <2>3. Bounded(p) /\ \A n \in DOMAIN p : UnderCap(n, p[n], s.caps)
    BY <2>1, <2>2, AppliesIs DEF AcceptsCopy, EachIsValid, Bounded, Values
  <2>4. PICK e : e = Effective(p, d, s)
    OBVIOUS
  <2>5. PICK b : b = IF j.srcLocal THEN [buffer_size |-> 0] ELSE NoValues
    OBVIOUS
  <2>6. j.flags = e ++ b
    BY <1>1, <1>2, <1>3, <1>4, <2>4, <2>5 DEF FlagsOf, CopyFlags
  <2>7. Bounded(e) /\ EstimateMemory(e, d) =< s.budget
    BY <1>1, <2>1, <2>3, <2>4, EffectiveIs, EffectiveOfApplied DEF AcceptsCopy, SettingsOK
  <2>8. EstimateMemory(e ++ b, d) =< EstimateMemory(e, d)
    BY <2>5, <2>7, Unbuffered
  <2>9. EstimateMemory(e ++ b, d) =< s.budget
    <3>1. Bounded(b)
      <4>1. InBounds("buffer_size", 0)
        BY DEF InBounds, PARAMS, Param, GiB
      <4>2. CASE b = NoValues
        BY <4>2 DEF NoValues, Bounded, Values
      <4>3. CASE b = [buffer_size |-> 0]
        BY <4>1, <4>3 DEF Bounded, Values, Names
      <4> QED BY <2>5, <4>2, <4>3
    <3>2. Bounded(e ++ b)
      BY <2>7, <3>1, Merged
    <3>3. EstimateMemory(e ++ b, d) \in Nat /\ EstimateMemory(e, d) \in Nat
      BY <2>7, <3>2, MemoryIs, OfIsNat, PerTransferIsNat, TimesIsNat DEF Names
    <3> QED BY <1>1, <2>7, <2>8, <3>3 DEF SettingsOK
  <2>10. ASSUME NEW n \in DOMAIN p PROVE (e ++ b)[n] = p[n]
    <3>1. PICK m : m = p ++ s.defaults
      OBVIOUS
    <3>2. n \in DOMAIN m /\ m[n] = p[n] /\ n \in AppliesTo(d)
      BY <2>2, <2>10, <3>1 DEF ++
    <3>3. e = Only(m, AppliesTo(d))
      BY <2>4, <3>1 DEF Effective
    <3>4. n \in DOMAIN e /\ e[n] = p[n]
      BY <3>2, <3>3 DEF Only
    <3> QED BY <3>4 DEF ++
  <2> QED BY <1>2, <1>3, <2>3, <2>6, <2>9, <2>10
<1>5. CASE j.kind = "check"
  <2>1. EachIsValid(p, {"checkers"}, s)
    BY <1>1, <1>2, <1>5 DEF Revalidates, AcceptsCheck
  <2>2. ASSUME NEW n \in DOMAIN p PROVE j.flags[n] = p[n]
    <3>1. PICK m : m = p ++ s.defaults
      OBVIOUS
    <3>2. j.flags = Only(m, {"checkers"})
      BY <1>1, <1>2, <1>5, <3>1 DEF FlagsOf, HashsumFlags
    <3>3. n \in DOMAIN m /\ m[n] = p[n] /\ n \in {"checkers"}
      BY <2>1, <2>2, <3>1 DEF EachIsValid, ++
    <3> QED BY <3>2, <3>3 DEF Only
  <2> QED BY <1>2, <1>5, <2>1, <2>2 DEF EachIsValid
<1> QED BY <1>4, <1>5 DEF JobTrue

LEMMA EnvsAreEnvs == \A env \in Envs : IsEnv(env)
BY TuningAssumption, ParameterBounds DEF IsEnv

LEMMA TuningInitInv == TuningInit(Envs) => TuningInv
<1> SUFFICES ASSUME TuningInit(Envs) PROVE TuningInv
  OBVIOUS
<1>1. SettingsOK(tuning)
  <2>1. PICK env \in Envs : tuning \in LoadSettings(env)
    BY DEF TuningInit
  <2> QED BY <2>1, EnvsAreEnvs, LoadedSettings
<1>2. DialogTrue
  BY DEF TuningInit, DialogTrue, Closed, Destinations
<1>3. JobTrue(tuned)
  <2>1. tuned = NoTuned
    BY DEF TuningInit
  <2>2. IsJob(NoTuned)
    BY DEF NoTuned, IsJob, JobFields
  <2>3. NoTuned.kind = "copy" /\ NoTuned.dst = "local" /\ NoTuned.performance = NoValues /\ NoTuned.state = "none"
    BY DEF NoTuned
  <2>4. NoValues \in [DOMAIN NoValues -> Int] /\ DOMAIN NoValues = {}
    BY DEF NoValues
  <2> QED BY <2>1, <2>2, <2>3, <2>4 DEF JobTrue, Destinations
<1> QED BY <1>1, <1>2, <1>3 DEF TuningInv

LEMMA RestartKeeps == ASSUME TuningInv, NEW env \in Envs, RestartWith(env) PROVE TuningInv'
<1>1. SettingsOK(tuning')
  BY EnvsAreEnvs, LoadedSettings DEF RestartWith
<1>2. dialog' = dialog /\ tuned' = tuned
  BY DEF RestartWith
<1> QED BY <1>1, <1>2 DEF TuningInv, DialogTrue

LEMMA DescribeKeeps == ASSUME TuningInv, NEW dst \in Destinations, Describe(dst) PROVE TuningInv'
<1>1. dialog' = [open |-> TRUE, dst |-> dst, presets |-> Presets(dst, tuning), from |-> {tuning}]
  BY DEF Describe
<1>2. tuning' = tuning /\ tuned' = tuned
  BY DEF Describe
<1>3. DialogTrue'
  <2>1. dialog'.dst = dst /\ dialog'.from = {tuning} /\ dialog'.presets = Presets(dst, tuning)
    BY <1>1
  <2> QED BY <2>1 DEF DialogTrue, TuningInv
<1> QED BY <1>2, <1>3 DEF TuningInv

LEMMA SubmitKeeps ==
    ASSUME TuningInv, dialog.open, NEW raw \in Overrides \cup dialog.presets, NEW srcLocal, NEW exact,
           SubmitTuned(raw, dialog.dst, srcLocal, exact)
    PROVE  TuningInv'
<1>1. dialog' = Closed /\ tuning' = tuning
  BY DEF SubmitTuned
<1>2. DialogTrue'
  BY <1>1 DEF DialogTrue, Closed, Destinations
<1>3. PICK d : d = dialog.dst /\ d \in Destinations
  BY DEF TuningInv, DialogTrue
<1>4. PICK p : p = Only(raw, AppliesTo(d))
  OBVIOUS
<1>5. raw \in [DOMAIN raw -> Int]
  <2>1. CASE raw \in Overrides
    BY <2>1, TuningAssumption
  <2>2. CASE raw \in dialog.presets
    <3>1. PICK s : SettingsOK(s) /\ raw \in Presets(d, s)
      BY <1>3, <2>2 DEF TuningInv, DialogTrue
    <3> QED BY <1>3, <3>1, PresetIsAccepted DEF Bounded, Values
  <2> QED BY <2>1, <2>2
<1>6. p \in [DOMAIN p -> Int] /\ DOMAIN p \subseteq AppliesTo(d)
  BY <1>4, <1>5 DEF Only
<1>7. PICK l : l = Legible(p, exact)
  OBVIOUS
<1>8. tuned' = [NoTuned EXCEPT !.state = "queued", !.dst = d, !.srcLocal = srcLocal,
                               !.performance = p, !.legible = l]
  BY <1>3, <1>4, <1>7 DEF SubmitTuned
<1>9. IsJob(NoTuned) /\ NoTuned.kind = "copy"
  BY DEF NoTuned, IsJob, JobFields
<1>10. /\ IsJob(tuned') /\ tuned'.kind = "copy" /\ tuned'.dst = d /\ tuned'.performance = p
       /\ tuned'.state = "queued"
  BY <1>8, <1>9 DEF IsJob, JobFields
<1>11. JobTrue(tuned')
  BY <1>3, <1>6, <1>10 DEF JobTrue
<1> QED BY <1>1, <1>2, <1>11 DEF TuningInv

LEMMA CheckKeeps == ASSUME TuningInv, SubmitCheck PROVE TuningInv'
<1>1. PICK p : p = Only(tuned.performance, {"checkers"})
  OBVIOUS
<1>2. dialog' = dialog /\ tuning' = tuning
      /\ tuned' = [NoTuned EXCEPT !.state = "queued", !.kind = "check", !.performance = p]
  BY <1>1 DEF SubmitCheck
<1>3. p \in [DOMAIN p -> Int] /\ DOMAIN p \subseteq {"checkers"}
  <2>1. tuned.performance \in [DOMAIN tuned.performance -> Int]
    BY DEF TuningInv, JobTrue
  <2> QED BY <1>1, <2>1 DEF Only
<1>4. IsJob(NoTuned) /\ NoTuned.dst = "local"
  BY DEF NoTuned, IsJob, JobFields
<1>5. /\ IsJob(tuned') /\ tuned'.kind = "check" /\ tuned'.dst = "local" /\ tuned'.performance = p
      /\ tuned'.state = "queued"
  BY <1>2, <1>4 DEF IsJob, JobFields
<1>6. JobTrue(tuned')
  BY <1>3, <1>5 DEF JobTrue, Destinations
<1> QED BY <1>2, <1>6 DEF TuningInv, DialogTrue

LEMMA StartKeeps == ASSUME TuningInv, StartTuned PROVE TuningInv'
<1>1. dialog' = dialog /\ tuning' = tuning
  BY DEF StartTuned
<1>2. IsJob(tuned) /\ JobTrue(tuned)
  BY DEF TuningInv, JobTrue
<1>3. PICK fl : fl = FlagsOf(tuned, tuning)
  OBVIOUS
<1>4. tuned' = IF Revalidates(tuned, tuning)
               THEN [tuned EXCEPT !.state = "running", !.started = {tuning}, !.flags = fl]
               ELSE [tuned EXCEPT !.state = "refused"]
  BY <1>3 DEF StartTuned, FlagsOf
<1>5. /\ IsJob(tuned') /\ tuned'.kind = tuned.kind /\ tuned'.dst = tuned.dst
      /\ tuned'.performance = tuned.performance /\ tuned'.srcLocal = tuned.srcLocal
      /\ tuned'.legible = tuned.legible
  BY <1>2, <1>4 DEF IsJob, JobFields
<1>6. CASE Revalidates(tuned, tuning)
  <2>1. tuned'.state = "running" /\ tuned'.started = {tuning} /\ tuned'.flags = fl
    BY <1>2, <1>4, <1>6 DEF IsJob, JobFields
  <2>2. Revalidates(tuned', tuning)
    BY <1>5, <1>6 DEF Revalidates
  <2>3. FlagsOf(tuned', tuning) = fl
    BY <1>3, <1>5 DEF FlagsOf
  <2>4. JobTrue(tuned')
    BY <1>2, <1>5, <2>1, <2>2, <2>3 DEF JobTrue, TuningInv
  <2> QED BY <1>1, <2>4 DEF TuningInv, DialogTrue
<1>7. CASE ~Revalidates(tuned, tuning)
  <2>1. tuned'.state = "refused"
    BY <1>2, <1>4, <1>7 DEF IsJob, JobFields
  <2>2. JobTrue(tuned')
    BY <1>2, <1>5, <2>1 DEF JobTrue
  <2> QED BY <1>1, <2>2 DEF TuningInv, DialogTrue
<1> QED BY <1>6, <1>7

LEMMA EndKeeps == ASSUME TuningInv, EndTuned PROVE TuningInv'
<1>1. dialog' = dialog /\ tuning' = tuning
      /\ tuned' = [tuned EXCEPT !.state = "ended", !.started = {}, !.flags = NoValues]
  BY DEF EndTuned
<1>2. IsJob(tuned) /\ JobTrue(tuned)
  BY DEF TuningInv, JobTrue
<1>3. /\ IsJob(tuned') /\ tuned'.kind = tuned.kind /\ tuned'.dst = tuned.dst
      /\ tuned'.performance = tuned.performance /\ tuned'.state = "ended"
  BY <1>1, <1>2 DEF IsJob, JobFields
<1>4. JobTrue(tuned')
  BY <1>2, <1>3 DEF JobTrue
<1> QED BY <1>1, <1>4 DEF TuningInv, DialogTrue

LEMMA TuningStep == TuningInv /\ [TuningNext]_tuningVars => TuningInv'
<1> SUFFICES ASSUME TuningInv, [TuningNext]_tuningVars PROVE TuningInv'
  OBVIOUS
<1>1. CASE \E env \in Envs : RestartWith(env)
  BY <1>1, RestartKeeps
<1>2. CASE \E dst \in Destinations : Describe(dst)
  BY <1>2, DescribeKeeps
<1>3. CASE dialog.open /\ \E raw \in Overrides \cup dialog.presets, srcLocal, exact \in BOOLEAN :
                              SubmitTuned(raw, dialog.dst, srcLocal, exact)
  BY <1>3, SubmitKeeps
<1>4. CASE SubmitCheck
  BY <1>4, CheckKeeps
<1>5. CASE StartTuned
  BY <1>5, StartKeeps
<1>6. CASE EndTuned
  BY <1>6, EndKeeps
<1>7. CASE UNCHANGED tuningVars
  BY <1>7 DEF tuningVars, TuningInv, DialogTrue
<1> QED BY <1>1, <1>2, <1>3, <1>4, <1>5, <1>6, <1>7 DEF TuningNext

\* The settings of every process, the presets a dialog shows and the flags of a job that runs
\* are within the bounds of their parameters, and its overrides were validated under the settings it runs
\* with (rclone_tuning.py:268, :508, :593).
THEOREM TuningInvariant == TuningSpec => []TuningInv
BY TuningInitInv, TuningStep, PTL DEF TuningSpec

\* What fit_preset offers for the settings of the server is accepted by its validation, for any
\* caps, budget, memory and defaults that a process starts with (rclone_tuning.py:593).
THEOREM OffersAreAccepted == TuningSpec => []PresetsAreAccepted
<1>1. ASSUME TuningInv PROVE PresetsAreAccepted
  <2> SUFFICES ASSUME dialog.open, dialog.from = {tuning}, NEW values \in dialog.presets
               PROVE  AcceptsCopy(values, dialog.dst, tuning)
    BY DEF PresetsAreAccepted
  <2>1. PICK s : SettingsOK(s) /\ dialog.from = {s} /\ dialog.presets = Presets(dialog.dst, s)
    BY <1>1 DEF TuningInv, DialogTrue
  <2>2. s = tuning
    BY <2>1
  <2>3. dialog.dst \in Destinations /\ SettingsOK(tuning) /\ values \in Presets(dialog.dst, tuning)
    BY <1>1, <2>1, <2>2 DEF TuningInv, DialogTrue
  <2> QED BY <2>3, PresetIsAccepted
<1> QED BY <1>1, TuningInvariant, PTL

\* No rclone runs with more memory than the budget of the settings it was started under, nor with an
\* override above their caps, for any overrides, and any environments that processes are restarted with
\* in between (rclone_tuning.py:457, :508, :536).
THEOREM RunsFitBudget == TuningSpec => []RunFitsBudget
<1>1. ASSUME TuningInv PROVE RunFitsBudget
  BY <1>1, RunFits DEF RunFitsBudget, TuningInv
<1> QED BY <1>1, TuningInvariant, PTL
===============================================================================
