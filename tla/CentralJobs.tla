---------------------------- MODULE CentralJobs ----------------------------
(***************************************************************************)
(* Jobs that run on the central node: the Celery tasks copy_job and        *)
(* hashsum_job (tasks/celery_tasks.py), the queues of rclone processes     *)
(* they watch (utils/copy_job_queue.py, utils/hashsum_job_queue.py,        *)
(* utils/job_runner.py), and the requests that create and stop the job     *)
(* (managers/copy_job_manager.py, managers/hashsum_job_manager.py).        *)
(*                                                                         *)
(* A task is one delivery <<j, n>> of the message of job j: the broker may *)
(* deliver it twice.  Celery and its broker are external: one worker node  *)
(* fetches messages, keeps them until a pool process is free, and keeps    *)
(* the ids of revoked tasks in memory.  rclone runs once for a copy, and   *)
(* two or four times for an integrity check (a pass over each side, and    *)
(* one for the files without the hash), each run with a thread that starts *)
(* the process, reads its output and waits for it.                         *)
(***************************************************************************)
EXTENDS Integers, Sequences, FiniteSets

CONSTANTS
    Jobs,            \* copy and integrity-check jobs that are routed to central
    Passes,          \* [Jobs -> {1, 2, 4}]: runs of rclone, 1 for a copy
    LocalDst,        \* the copy jobs with a local destination
    PoolSize,        \* processes of the Celery worker
    VisibilityTicks, \* MOTUZ_CELERY_VISIBILITY_TIMEOUT, in ticks
    LongestRun,      \* bound: ticks a job may run
    MaxRestarts      \* bound: restarts of the worker node

ASSUME CentralAssumption ==
    /\ IsFiniteSet(Jobs)
    /\ Passes \in [Jobs -> {1, 2, 4}]
    /\ LocalDst \subseteq {j \in Jobs : Passes[j] = 1}
    /\ {PoolSize, VisibilityTicks, LongestRun} \subseteq Nat \ {0}
    /\ MaxRestarts \in Nat

Tasks == Jobs \X {1, 2}

VARIABLES
    jobState,   \* progress_state of the job's row
    creator,    \* the request that creates the job
    stopper,    \* the request that stops the job
    mail,       \* the notifications sent about the job, in order
    phase,      \* where a task is
    loaded,     \* progress_state in the session of a task that starts
    pass,       \* the run of rclone the task is in
    rclone,     \* the rclone of that run and the thread that starts it
    exit,       \* exit status that the thread stored, -1 before
    full,       \* the destination was reported full in this run
    clean,      \* observed: every rclone of the task so far ended with status 0, none full
    signal,     \* SIGTERM on its way to the pool process of the task
    revokeMsgs, \* revoke messages on their way to the node
    revoked,    \* ids that the node remembers as revoked
    waited,     \* ticks since the node fetched the message
    ran,        \* ticks the task has run
    restarts    \* restarts of the node so far

requestVars == <<jobState, creator, stopper, mail>>
taskVars    == <<phase, loaded, pass, signal>>
runVars     == <<rclone, exit, full, clean>>
nodeVars    == <<revokeMsgs, revoked, restarts>>
clockVars   == <<waited, ran>>
centralVars == <<jobState, creator, stopper, mail, phase, loaded, pass, rclone, exit, full,
                 clean, signal, revokeMsgs, revoked, waited, ran, restarts>>

JobStates == {"NONE", "PROGRESS", "SUCCESS", "FAILED", "STOPPED", "GONE"}

\* A pool process executes the task in these phases.
Alive   == {"starting", "ready", "running", "ended", "failing", "mailing", "apology"}
Waiting == {"broker", "node"}
Over    == {"done", "lost"}

Exists(j)    == jobState[j] \notin {"NONE", "GONE"}
TasksOf(j)   == {t \in Tasks : t[1] = j}
Executing    == {t \in Tasks : phase[t] \in Alive}
FreeProcess  == Cardinality(Executing) < PoolSize

CentralInit ==
    /\ jobState = [j \in Jobs |-> "NONE"]
    /\ creator = [j \in Jobs |-> "new"]
    /\ stopper = [j \in Jobs |-> "idle"]
    /\ mail = [j \in Jobs |-> <<>>]
    /\ phase = [t \in Tasks |-> "none"]
    /\ loaded = [t \in Tasks |-> "NONE"]
    /\ pass = [t \in Tasks |-> 0]
    /\ rclone = [t \in Tasks |-> "none"]
    /\ exit = [t \in Tasks |-> -1]
    /\ full = [t \in Tasks |-> FALSE]
    /\ clean = [t \in Tasks |-> TRUE]
    /\ signal = [t \in Tasks |-> "none"]
    /\ revokeMsgs = {}
    /\ revoked = {}
    /\ waited = [t \in Tasks |-> 0]
    /\ ran = [t \in Tasks |-> 0]
    /\ restarts = 0

-----------------------------------------------------------------------------
(* The requests: create_for commits the job and then queues its message;    *)
(* stop revokes the task and writes STOPPED.                                *)

CreateJob(j) ==
    /\ creator[j] = "new"
    /\ jobState' = [jobState EXCEPT ![j] = "PROGRESS"]
    /\ creator' = [creator EXCEPT ![j] = "routing"]
    /\ UNCHANGED <<stopper, mail, taskVars, runVars, nodeVars, clockVars>>

QueueTask(j) ==
    /\ creator[j] = "routing"
    /\ creator' = [creator EXCEPT ![j] = "done"]
    /\ phase' = [phase EXCEPT ![<<j, 1>>] = "broker"]
    /\ UNCHANGED <<jobState, stopper, mail, loaded, pass, signal, runVars, nodeVars, clockVars>>

\* Routing or apply_async raised.
QueueFails(j) ==
    /\ creator[j] = "routing"
    /\ creator' = [creator EXCEPT ![j] = "done"]
    /\ jobState' = [jobState EXCEPT ![j] = IF @ = "GONE" THEN @ ELSE "FAILED"]
    /\ UNCHANGED <<stopper, mail, taskVars, runVars, nodeVars, clockVars>>

\* The server process dies between the commit of the job and apply_async.
CreateCrash(j) ==
    /\ creator[j] = "routing"
    /\ creator' = [creator EXCEPT ![j] = "done"]
    /\ UNCHANGED <<jobState, stopper, mail, taskVars, runVars, nodeVars, clockVars>>

\* Deleting a connection deletes its jobs.
DeleteJob(j) ==
    /\ Exists(j)
    /\ jobState' = [jobState EXCEPT ![j] = "GONE"]
    /\ UNCHANGED <<creator, stopper, mail, taskVars, runVars, nodeVars, clockVars>>

\* stop: request_stop finds no remote row and rolls back, so that copy_job.id reads the
\* row again.  This is the last read: session.get afterwards returns the same object.
StopRead(j) ==
    /\ Exists(j)
    /\ stopper[j] = "idle"
    /\ stopper' = [stopper EXCEPT ![j] = IF jobState[j] = "PROGRESS" THEN "revoking" ELSE "gaveUp"]
    /\ UNCHANGED <<jobState, creator, mail, taskVars, runVars, nodeVars, clockVars>>

\* task.revoke(terminate=True) is sent in any case.
StopRevoke(j) ==
    /\ stopper[j] \in {"revoking", "gaveUp"}
    /\ stopper' = [stopper EXCEPT ![j] = IF @ = "revoking" THEN "writing" ELSE "idle"]
    /\ revokeMsgs' = revokeMsgs \cup {j}
    /\ UNCHANGED <<jobState, creator, mail, taskVars, runVars, revoked, restarts, clockVars>>

StopWrite(j) ==
    /\ stopper[j] = "writing"
    /\ stopper' = [stopper EXCEPT ![j] = "idle"]
    /\ jobState' = [jobState EXCEPT ![j] = IF @ = "GONE" THEN @ ELSE "STOPPED"]
    /\ UNCHANGED <<creator, mail, taskVars, runVars, nodeVars, clockVars>>

\* The server process dies in stop.
StopCrash(j) ==
    /\ stopper[j] # "idle"
    /\ stopper' = [stopper EXCEPT ![j] = "idle"]
    /\ UNCHANGED <<jobState, creator, mail, taskVars, runVars, nodeVars, clockVars>>

-----------------------------------------------------------------------------
(* The worker node.                                                         *)

Fetch(t) ==
    /\ phase[t] = "broker"
    /\ phase' = [phase EXCEPT ![t] = "node"]
    /\ waited' = [waited EXCEPT ![t] = 0]
    /\ UNCHANGED <<requestVars, loaded, pass, signal, runVars, nodeVars, ran>>

Discard(t) ==
    /\ phase[t] = "node"
    /\ t[1] \in revoked
    /\ phase' = [phase EXCEPT ![t] = "done"]
    /\ UNCHANGED <<requestVars, loaded, pass, signal, runVars, nodeVars, clockVars>>

\* Mutant: the default of Celery's Redis transport (1 hour).
RedisDefault == 1

VisibilityTimeout == VisibilityTicks

\* A message that was fetched and not started (so not acknowledged) is delivered again.
Redeliver(j) ==
    /\ phase[<<j, 1>>] = "node"
    /\ waited[<<j, 1>>] >= VisibilityTimeout
    /\ phase[<<j, 2>>] = "none"
    /\ phase' = [phase EXCEPT ![<<j, 2>>] = "broker"]
    /\ UNCHANGED <<requestVars, loaded, pass, signal, runVars, nodeVars, clockVars>>

\* The revoke message reaches the node: SIGTERM goes to the process that runs the task.
Revoke(j) ==
    /\ j \in revokeMsgs
    /\ revokeMsgs' = revokeMsgs \ {j}
    /\ revoked' = revoked \cup {j}
    /\ signal' = [t \in Tasks |-> IF t[1] = j /\ t \in Executing THEN "sent" ELSE signal[t]]
    /\ UNCHANGED <<requestVars, phase, loaded, pass, runVars, restarts, clockVars>>

\* Remote control is a broadcast that a disconnected node misses.
LoseRevoke(j) ==
    /\ j \in revokeMsgs
    /\ revokeMsgs' = revokeMsgs \ {j}
    /\ UNCHANGED <<requestVars, taskVars, runVars, revoked, restarts, clockVars>>

\* The service is restarted: its control group, and so every rclone, is killed, messages
\* it had fetched go back, started tasks are lost (they were acknowledged when they
\* started), and so is what it remembered.
NodeRestart ==
    /\ restarts < MaxRestarts
    /\ restarts' = restarts + 1
    /\ revokeMsgs' = {}
    /\ revoked' = {}
    /\ phase' = [t \in Tasks |-> IF t \in Executing THEN "lost"
                                 ELSE IF phase[t] = "node" THEN "broker" ELSE phase[t]]
    /\ rclone' = [t \in Tasks |-> IF rclone[t] \in {"spawned", "up", "dying"} THEN "exit1"
                                  ELSE IF rclone[t] = "thread" THEN "none" ELSE rclone[t]]
    /\ clean' = [t \in Tasks |-> clean[t] /\ rclone[t] \notin {"spawned", "up", "dying"}]
    /\ UNCHANGED <<requestVars, loaded, pass, signal, exit, full, clockVars>>

-----------------------------------------------------------------------------
(* The task.                                                                *)

TaskStarts(t) ==
    /\ phase[t] = "node"
    /\ t[1] \notin revoked
    /\ FreeProcess
    /\ phase' = [phase EXCEPT ![t] = IF jobState[t[1]] = "GONE" THEN "failing" ELSE "starting"]
    /\ loaded' = [loaded EXCEPT ![t] = jobState[t[1]]]
    /\ UNCHANGED <<requestVars, pass, signal, runVars, nodeVars, clockVars>>

\* PROGRESS is assigned unconditionally; an UPDATE is sent if the loaded row had another
\* state.  An UPDATE of a deleted row raises (StaleDataError).
CommitProgress(t) ==
    LET j == t[1] IN
    /\ phase[t] = "starting"
    /\ IF loaded[t] = "PROGRESS"
       THEN /\ phase' = [phase EXCEPT ![t] = "ready"]
            /\ UNCHANGED jobState
       ELSE /\ phase' = [phase EXCEPT ![t] = IF Exists(j) THEN "ready" ELSE "failing"]
            /\ jobState' = [jobState EXCEPT ![j] = IF Exists(j) THEN "PROGRESS" ELSE @]
    /\ UNCHANGED <<creator, stopper, mail, loaded, pass, signal, runVars, nodeVars, clockVars>>

\* A run of rclone: push starts a thread.
BeginPass(t, k) ==
    /\ pass' = [pass EXCEPT ![t] = k]
    /\ rclone' = [rclone EXCEPT ![t] = "thread"]
    /\ exit' = [exit EXCEPT ![t] = -1]
    /\ full' = [full EXCEPT ![t] = FALSE]

\* The row is read again: if it was deleted meanwhile, this raises.
StartRun(t) ==
    /\ phase[t] = "ready"
    /\ IF Exists(t[1])
       THEN /\ phase' = [phase EXCEPT ![t] = "running"]
            /\ BeginPass(t, 1)
       ELSE /\ phase' = [phase EXCEPT ![t] = "failing"]
            /\ UNCHANGED <<pass, rclone, exit, full>>
    /\ UNCHANGED <<requestVars, loaded, signal, clean, nodeVars, clockVars>>

\* watch_copy and run_hashsum poll for the end of the run: the first side that fails ends
\* the check, and the last run ends the watch.
WatchEnds(t) ==
    /\ phase[t] = "running"
    /\ exit[t] # -1
    /\ IF exit[t] = 0 /\ pass[t] < Passes[t[1]]
       THEN BeginPass(t, pass[t] + 1) /\ UNCHANGED phase
       ELSE /\ phase' = [phase EXCEPT ![t] = "ended"]
            /\ UNCHANGED <<pass, rclone, exit, full>>
    /\ UNCHANGED <<requestVars, loaded, signal, clean, nodeVars, clockVars>>

ExitState(t) == IF exit[t] = 0 THEN "SUCCESS" ELSE "FAILED"

\* The final state is written whatever the row says by now.
CommitOutcome(t) ==
    LET j == t[1] IN
    /\ phase[t] = "ended"
    /\ phase' = [phase EXCEPT ![t] = IF Exists(j) THEN "mailing" ELSE "failing"]
    /\ jobState' = [jobState EXCEPT ![j] = IF Exists(j) THEN ExitState(t) ELSE @]
    /\ UNCHANGED <<creator, stopper, mail, loaded, pass, signal, runVars, nodeVars, clockVars>>

\* A copy reads progress_state again after the commit, a check mails its own result.
MailOutcome(t) ==
    LET j == t[1]
        told == IF Passes[j] > 1 THEN ExitState(t)
                ELSE IF jobState[j] = "SUCCESS" THEN "SUCCESS" ELSE "FAILED" IN
    /\ phase[t] = "mailing"
    /\ IF Exists(j)
       THEN /\ phase' = [phase EXCEPT ![t] = "done"]
            /\ mail' = [mail EXCEPT ![j] = Append(@, told)]
       ELSE /\ phase' = [phase EXCEPT ![t] = "failing"]
            /\ UNCHANGED mail
    /\ UNCHANGED <<jobState, creator, stopper, loaded, pass, signal, runVars, nodeVars, clockVars>>

\* Anything may raise: the node is not ready, rclone's command cannot be built, the
\* database fails in a tick, the row is gone.  An rclone that runs goes on.
TaskRaises(t) ==
    /\ phase[t] \in {"starting", "ready", "running", "ended", "mailing"}
    /\ phase' = [phase EXCEPT ![t] = "failing"]
    /\ UNCHANGED <<requestVars, loaded, pass, signal, runVars, nodeVars, clockVars>>

\* The except block writes FAILED whatever the row says, and swallows its own errors.
CommitFailed(t) ==
    LET j == t[1] IN
    /\ phase[t] = "failing"
    /\ \/ /\ Exists(j)
          /\ phase' = [phase EXCEPT ![t] = "apology"]
          /\ jobState' = [jobState EXCEPT ![j] = "FAILED"]
       \/ /\ phase' = [phase EXCEPT ![t] = "done"]
          /\ UNCHANGED jobState
    /\ UNCHANGED <<creator, stopper, mail, loaded, pass, signal, runVars, nodeVars, clockVars>>

MailFailed(t) ==
    LET j == t[1] IN
    /\ phase[t] = "apology"
    /\ phase' = [phase EXCEPT ![t] = "done"]
    /\ mail' = [mail EXCEPT ![j] = IF Exists(j) THEN Append(@, "FAILED") ELSE @]
    /\ UNCHANGED <<jobState, creator, stopper, loaded, pass, signal, runVars, nodeVars, clockVars>>

\* Mutant: the handler stops rclone and lets the task go on.
TakeSignalGoOn(t) ==
    /\ signal[t] = "sent"
    /\ phase[t] \in Alive
    /\ signal' = [signal EXCEPT ![t] = "taken"]
    /\ rclone' = [rclone EXCEPT ![t] = IF @ = "up" THEN "dying" ELSE @]
    /\ UNCHANGED <<requestVars, phase, loaded, pass, exit, full, clean, nodeVars, clockVars>>

\* SIGTERM ends the pool process.  While the task watches, the handler kills the rclone
\* that is registered first; one that is not registered yet goes on.
TakeSignal(t) ==
    /\ signal[t] = "sent"
    /\ phase[t] \in Alive
    /\ signal' = [signal EXCEPT ![t] = "taken"]
    /\ phase' = [phase EXCEPT ![t] = "lost"]
    /\ rclone' = [rclone EXCEPT ![t] = IF @ = "up" /\ phase[t] = "running" THEN "dying"
                                       ELSE IF @ = "thread" THEN "none" ELSE @]
    /\ UNCHANGED <<requestVars, loaded, pass, exit, full, clean, nodeVars, clockVars>>

\* The pool process is lost (killed for its memory, say); rclone has its own session.
ProcessLost(t) ==
    /\ phase[t] \in Alive
    /\ phase' = [phase EXCEPT ![t] = "lost"]
    /\ rclone' = [rclone EXCEPT ![t] = IF @ = "thread" THEN "none" ELSE @]
    /\ UNCHANGED <<requestVars, loaded, pass, signal, exit, full, clean, nodeVars, clockVars>>

-----------------------------------------------------------------------------
(* The thread of a run, and its rclone.                                     *)

ThreadLives(t) == phase[t] \in Alive \cup {"done"}

Popen(t) ==
    /\ rclone[t] = "thread"
    /\ rclone' = [rclone EXCEPT ![t] = "spawned"]
    /\ UNCHANGED <<requestVars, taskVars, exit, full, clean, nodeVars, clockVars>>

\* Popen raises in the thread, which dies before anything tells the watcher.
PopenFails(t) ==
    /\ rclone[t] = "thread"
    /\ rclone' = [rclone EXCEPT ![t] = "failed"]
    /\ UNCHANGED <<requestVars, taskVars, exit, full, clean, nodeVars, clockVars>>

\* _processes knows the process from now on.
Register(t) ==
    /\ rclone[t] = "spawned"
    /\ ThreadLives(t)
    /\ rclone' = [rclone EXCEPT ![t] = "up"]
    /\ UNCHANGED <<requestVars, taskVars, exit, full, clean, nodeVars, clockVars>>

\* A line says that the local destination is full: the first one stops rclone.
FullLine(t) ==
    /\ rclone[t] \in {"up", "dying"}
    /\ ThreadLives(t)
    /\ t[1] \in LocalDst
    /\ ~full[t]
    /\ full' = [full EXCEPT ![t] = TRUE]
    /\ clean' = [clean EXCEPT ![t] = FALSE]
    /\ rclone' = [rclone EXCEPT ![t] = "dying"]
    /\ UNCHANGED <<requestVars, taskVars, exit, nodeVars, clockVars>>

RcloneExits(t) ==
    /\ rclone[t] \in {"up", "dying"} \/ (rclone[t] = "spawned" /\ ~ThreadLives(t))
    /\ \E status \in {"exit0", "exit1"} :
          /\ rclone' = [rclone EXCEPT ![t] = status]
          /\ clean' = [clean EXCEPT ![t] = @ /\ status = "exit0"]
    /\ UNCHANGED <<requestVars, taskVars, exit, full, nodeVars, clockVars>>

\* Mutant: the thread takes rclone's word.
ThreadEndsPlain(t) ==
    /\ rclone[t] \in {"exit0", "exit1"}
    /\ phase[t] = "running"
    /\ exit[t] = -1
    /\ exit' = [exit EXCEPT ![t] = IF rclone[t] = "exit0" THEN 0 ELSE 1]
    /\ UNCHANGED <<requestVars, taskVars, rclone, full, clean, nodeVars, clockVars>>

\* Mutant: the event is set only after a run that ended well.
ThreadEndsWell(t) ==
    /\ rclone[t] = "exit0"
    /\ phase[t] = "running"
    /\ exit[t] = -1
    /\ exit' = [exit EXCEPT ![t] = IF ~full[t] THEN 0 ELSE 1]
    /\ UNCHANGED <<requestVars, taskVars, rclone, full, clean, nodeVars, clockVars>>

\* The thread has read everything and waited for rclone: it stores the status, never 0
\* if it stopped rclone itself, and sets the event that the watcher polls.
ThreadEnds(t) ==
    /\ rclone[t] \in {"exit0", "exit1"}
    /\ phase[t] = "running"
    /\ exit[t] = -1
    /\ exit' = [exit EXCEPT ![t] = IF rclone[t] = "exit0" /\ ~full[t] THEN 0 ELSE 1]
    /\ UNCHANGED <<requestVars, taskVars, rclone, full, clean, nodeVars, clockVars>>

-----------------------------------------------------------------------------
\* A tick passes while tasks run or wait; Celery starts a task as soon as it can, and no
\* job runs longer than LongestRun.
CentralTick ==
    /\ \A t \in Executing : ran[t] < LongestRun
    /\ \A t \in Tasks : phase[t] = "node" => ~FreeProcess
    /\ \E t \in Tasks : phase[t] = "node"
    /\ ran' = [t \in Tasks |-> IF t \in Executing THEN ran[t] + 1 ELSE ran[t]]
    /\ waited' = [t \in Tasks |-> IF phase[t] = "node" /\ waited[t] < VisibilityTicks
                                  THEN waited[t] + 1 ELSE waited[t]]
    /\ UNCHANGED <<requestVars, taskVars, runVars, nodeVars>>

CreateStep(j)  == CreateJob(j) \/ QueueTask(j) \/ QueueFails(j) \/ CreateCrash(j)
StopStep(j)    == StopRead(j) \/ StopRevoke(j) \/ StopWrite(j) \/ StopCrash(j)
NodeStep(j)    == Redeliver(j) \/ Revoke(j) \/ LoseRevoke(j)

\* What happens to a task without anybody's help.
TaskGoesOn(t) ==
    \/ Fetch(t) \/ Discard(t) \/ TaskStarts(t) \/ CommitProgress(t) \/ StartRun(t)
    \/ WatchEnds(t) \/ CommitOutcome(t) \/ MailOutcome(t) \/ CommitFailed(t) \/ MailFailed(t)
    \/ TakeSignal(t) \/ Popen(t) \/ Register(t) \/ RcloneExits(t) \/ ThreadEnds(t)

TaskFault(t) == TaskRaises(t) \/ ProcessLost(t) \/ PopenFails(t) \/ FullLine(t)

CentralNext ==
    \/ \E j \in Jobs : CreateStep(j) \/ DeleteJob(j) \/ StopStep(j) \/ NodeStep(j)
    \/ \E t \in Tasks : TaskGoesOn(t) \/ TaskFault(t)
    \/ NodeRestart
    \/ CentralTick

\* rclone ends, threads and processes are scheduled, the broker delivers.  Nothing is
\* assumed of requests and faults.
CentralFairness == \A t \in Tasks : WF_centralVars(TaskGoesOn(t))

CentralSpec     == CentralInit /\ [][CentralNext]_centralVars
CentralFairSpec == CentralSpec /\ CentralFairness

-----------------------------------------------------------------------------
\* A job is shown or mailed as a success only if every rclone of one of its tasks ended
\* with status 0 and never reported a full destination.
NoFalseCentralSuccess ==
    \A j \in Jobs :
        jobState[j] = "SUCCESS" \/ (\E i \in DOMAIN mail[j] : mail[j][i] = "SUCCESS") =>
            \E t \in TasksOf(j) : clean[t] /\ pass[t] = Passes[j] /\ rclone[t] = "exit0"

\* However long its message waits behind other jobs, a job is run by one task only
\* (the visibility timeout is longer than the jobs before it can take).
RunsOnce ==
    \A j \in Jobs : Cardinality({t \in TasksOf(j) : pass[t] > 0}) =< 1

\* The node knows that the job was revoked, and every task of it has taken its SIGTERM
\* or had ended before.
Silenced(j) ==
    /\ j \in revoked
    /\ creator[j] = "done"
    /\ \A t \in TasksOf(j) : phase[t] \in {"none", "done", "lost"} \cup Waiting \/ signal[t] = "taken"

\* A job that shows STOPPED keeps it once its revocation has taken effect: no task starts
\* any more, or goes on to write PROGRESS, its outcome or FAILED over it.
StopIsFinal ==
    [][\A j \in Jobs : Silenced(j) /\ jobState[j] = "STOPPED" =>
                           jobState'[j] \in {"STOPPED", "GONE"}]_centralVars

\* Every message that is queued is in the end discarded or run to its end, unless the
\* thread of a run could not start rclone: then nobody wakes the watcher.
QueuedTaskEnds ==
    \A t \in Tasks : phase[t] \in Waiting \cup Alive
                        ~> phase[t] \in Over \/ \E u \in Tasks : rclone[u] = "failed"
=============================================================================
