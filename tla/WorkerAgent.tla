---------------------------- MODULE WorkerAgent ----------------------------
(***************************************************************************)
(* motuz-worker (src/worker/motuz_worker.py): the agent that claims one    *)
(* job, runs rclone for it, reports progress and finishes it.  The agent   *)
(* is one thread: while a call is on its way (waiting) it does nothing     *)
(* else.  What the central node answers is a parameter of the actions;     *)
(* RemoteJobs connects the agents to the queue through a lossy network.    *)
(***************************************************************************)
CONSTANTS
    Jobs,
    Workers,
    NoJob,
    Ephemeral   \* agents with a bootstrap token and --once: they cannot sign in again

VARIABLES
    agent,      \* the agent process of each worker
    rclone      \* [Workers -> [Jobs -> ...]]: the rclone process a worker started for a job

agentVars == <<agent, rclone>>

\* "starting": the thread of the job queue has not registered the process yet
RcloneStates == {"none", "starting", "running", "ok", "error", "killed"}
Ended == {"ok", "error", "killed"}
Agents == [phase     : {"idle", "claiming", "running", "finishing", "off"},
           job       : Jobs \cup {NoJob},
           waiting   : BOOLEAN,      \* for the answer of a progress or finish call
           stop      : BOOLEAN,      \* JobRun.stop_requested
           abandoned : BOOLEAN,      \* JobRun.abandoned
           quit      : {"no", "asked", "stopping"}, \* Worker._shutdown, JobRun._shutting_down
           result    : {"none", "SUCCESS", "FAILED", "STOPPED"}] \* the state to report
Idle == [phase |-> "idle", job |-> NoJob, waiting |-> FALSE, stop |-> FALSE,
         abandoned |-> FALSE, quit |-> "no", result |-> "none"]
Off  == [Idle EXCEPT !.phase = "off"]

AgentTypeOK ==
    /\ agent \in [Workers -> Agents]
    /\ rclone \in [Workers -> [Jobs -> RcloneStates]]

AgentInit ==
    /\ agent = [w \in Workers |-> Idle]
    /\ rclone = [w \in Workers |-> [j \in Jobs |-> "none"]]

\* terminate_all kills the processes that are registered.
Terminated(w, j) == [rclone EXCEPT ![w][j] = IF @ = "running" THEN "killed" ELSE @]

\* After a run the loop goes on to the next claim, unless it was told to shut down or
\* runs with --once.
AfterRun(w) ==
    [agent EXCEPT ![w] = IF w \in Ephemeral \/ @.quit # "no"
                         THEN Off ELSE Idle]

-----------------------------------------------------------------------------
Claim(w) ==
    /\ agent[w].phase = "idle"
    /\ agent[w].quit = "no"
    /\ agent' = [agent EXCEPT ![w].phase = "claiming"]
    /\ UNCHANGED rclone

\* The claim was answered with a ticket: JobRun
ClaimAnswered(w, j) ==
    /\ agent[w].phase = "claiming"
    /\ agent' = [agent EXCEPT ![w].phase = "running", ![w].job = j]
    /\ UNCHANGED rclone

\* No job after the long poll, or no answer.  A shut down agent leaves its loop here, and
\* so does one with --once that has waited long enough.
ClaimEmpty(w) ==
    /\ agent[w].phase = "claiming"
    /\ \/ agent[w].quit = "no" /\ agent' = [agent EXCEPT ![w] = Idle]
       \/ /\ agent[w].quit # "no" \/ w \in Ephemeral
          /\ agent' = [agent EXCEPT ![w] = Off]
    /\ UNCHANGED rclone

\* 401: the credential was revoked, and signing in again was refused too
ClaimRefused(w) ==
    /\ agent[w].phase = "claiming"
    /\ agent' = [agent EXCEPT ![w] = Off]
    /\ UNCHANGED rclone

-----------------------------------------------------------------------------
\* Starts rclone, unless the checks before it (check_run_as, check_space) raise.
StartRclone(w) ==
    LET j == agent[w].job IN
    /\ agent[w].phase = "running"
    /\ rclone[w][j] = "none"
    /\ \E r \in {"starting", "error"} : rclone' = [rclone EXCEPT ![w][j] = r]
    /\ UNCHANGED agent

\* The thread starts the process and registers it, whatever the agent does meanwhile; a
\* crash of the agent takes the thread with it.
RcloneSpawn(w, j) ==
    /\ rclone[w][j] = "starting"
    /\ rclone' = [rclone EXCEPT ![w][j] = "running"]
    /\ UNCHANGED agent

\* rclone ends by itself, also when its agent is gone
RcloneExit(w, j) ==
    /\ rclone[w][j] = "running"
    /\ \E r \in {"ok", "error"} : rclone' = [rclone EXCEPT ![w][j] = r]
    /\ UNCHANGED agent

\* A tick of watch_copy or run_hashsum: check_shutdown, then report (the signal may come
\* between the two).  It kills rclone once.
ShutdownTick(w) ==
    /\ agent[w].phase = "running" /\ ~agent[w].waiting
    /\ agent[w].quit = "asked"
    /\ rclone[w][agent[w].job] \in {"starting", "running"}
    /\ agent' = [agent EXCEPT ![w].quit = "stopping"]
    /\ rclone' = Terminated(w, agent[w].job)

Report(w) ==
    /\ agent[w].phase = "running" /\ ~agent[w].waiting
    /\ ~agent[w].abandoned
    /\ rclone[w][agent[w].job] \in {"starting", "running"}
    /\ agent' = [agent EXCEPT ![w].waiting = TRUE]
    /\ UNCHANGED rclone

\* Mutant: a refused report ends the reports, and rclone is left to itself.
ReportAnsweredNoKill(w, answer) ==
    /\ agent[w].phase = "running" /\ agent[w].waiting
    /\ agent' = [agent EXCEPT ![w].waiting = FALSE,
                              ![w].stop = @ \/ answer = "stop",
                              ![w].abandoned = @ \/ answer = "refused"]
    /\ UNCHANGED rclone

\* "lost": unreachable, 429 or 5xx; rclone goes on and the next report tries again.  Only
\* the first "stop" and a refusal (there are no reports after it) kill rclone.
ReportAnswered(w, answer) ==
    /\ agent[w].phase = "running" /\ agent[w].waiting
    /\ agent' = [agent EXCEPT ![w].waiting = FALSE,
                              ![w].stop = @ \/ answer = "stop",
                              ![w].abandoned = @ \/ answer = "refused"]
    /\ rclone' = IF answer = "refused" \/ (answer = "stop" /\ ~agent[w].stop)
                 THEN Terminated(w, agent[w].job) ELSE rclone

\* Mutant: the exit status of rclone is not looked at.
ResultsIgnoreExit(w) == IF agent[w].stop THEN {"STOPPED"} ELSE {"SUCCESS"}

\* The state that JobRun.run reports.  An integrity check also stops between its two
\* sides when the agent is shutting down, and then reports STOPPED unasked.
Results(w) ==
    IF agent[w].stop THEN {"STOPPED"}
    ELSE IF agent[w].quit = "stopping" THEN {"FAILED"}
    ELSE (IF rclone[w][agent[w].job] = "ok" THEN {"SUCCESS"} ELSE {"FAILED"})
         \cup (IF agent[w].quit = "asked" THEN {"STOPPED"} ELSE {})

\* JobRun.run after rclone ended: an abandoned job is not finished
JobRunEnd(w) ==
    /\ agent[w].phase = "running" /\ ~agent[w].waiting
    /\ rclone[w][agent[w].job] \in Ended
    /\ \/ agent[w].abandoned /\ agent' = AfterRun(w)
       \/ /\ ~agent[w].abandoned
          /\ \E r \in Results(w) :
               agent' = [agent EXCEPT ![w].phase = "finishing", ![w].result = r]
    /\ UNCHANGED rclone

SendFinish(w) ==
    /\ agent[w].phase = "finishing" /\ ~agent[w].waiting
    /\ agent' = [agent EXCEPT ![w].waiting = TRUE]
    /\ UNCHANGED rclone

\* An answer of any kind ends the run.  Without one the call is repeated, unless the
\* agent was told to shut down (Shutdown is raised instead of the next retry).
FinishAnswered(w, answer) ==
    /\ agent[w].phase = "finishing" /\ agent[w].waiting
    /\ agent' = IF answer = "lost" /\ agent[w].quit = "no"
                THEN [agent EXCEPT ![w].waiting = FALSE] ELSE AfterRun(w)
    /\ UNCHANGED rclone

-----------------------------------------------------------------------------
\* SIGTERM or SIGINT
RequestShutdown(w) ==
    /\ agent[w].phase # "off"
    /\ agent[w].quit = "no"
    /\ agent' = [agent EXCEPT ![w] = IF @.phase = "idle" THEN Off
                                     ELSE [@ EXCEPT !.quit = "asked"]]
    /\ UNCHANGED rclone

\* The agent process is killed, and rclone with it or not (it has its own session).
Crash(w) ==
    /\ agent[w].phase # "off"
    /\ agent' = [agent EXCEPT ![w] = Off]
    /\ \E left \in {"running", "killed"} :
         rclone' = [rclone EXCEPT ![w] =
                       [j \in Jobs |-> IF @[j] \in {"starting", "running"} THEN left ELSE @[j]]]

\* Started again (systemd): it knows nothing of its last job.
Restart(w) ==
    /\ agent[w].phase = "off"
    /\ w \notin Ephemeral
    /\ agent' = [agent EXCEPT ![w] = Idle]
    /\ UNCHANGED rclone
=============================================================================
