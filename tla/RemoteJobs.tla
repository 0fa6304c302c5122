----------------------------- MODULE RemoteJobs -----------------------------
(***************************************************************************)
(* The central queue (RemoteQueue) and the motuz-worker agents             *)
(* (WorkerAgent) over HTTPS: a call may be lost on its way, its answer may *)
(* be lost, and a call that its agent gave up or repeated may still be     *)
(* handled later.  calls are the progress and finish requests that may     *)
(* still reach the central node; a claim request that reached it is in     *)
(* polling.  Here a ticket is only ever presented by the agent it was      *)
(* given to, so the steps of RemoteQueue's general workers are tied to the *)
(* agents; everybody else's steps (users, sweeps, administrators, the      *)
(* database) are those of RemoteQueue.                                     *)
(***************************************************************************)
EXTENDS RemoteQueue

VARIABLES agent, rclone, calls

Agent == INSTANCE WorkerAgent WITH Ephemeral <- {w \in Workers : BoundTo[w] # NoJob}

agentVars == <<agent, rclone>>
jobsVars  == <<queueVars, agent, rclone, calls>>

Calls == [type : {"progress", "finish"}, w : Workers, j : Jobs, state : Final \cup {"none"}]

JobsTypeOK == QueueTypeOK /\ Agent!AgentTypeOK /\ calls \in SUBSET Calls

JobsInit == QueueInit /\ Agent!AgentInit /\ calls = {}

-----------------------------------------------------------------------------
(* Claiming.  A claim is repeated with a new request when its answer is lost. *)

AgentClaims(w) == Agent!Claim(w) /\ UNCHANGED <<queueVars, calls>>

ClaimArrives(w) ==
    /\ agent[w].phase = "claiming"
    /\ Poll(w)
    /\ UNCHANGED <<agentVars, calls>>

ClaimEmpty(w) == Agent!ClaimEmpty(w) /\ UNCHANGED <<queueVars, calls>>

ClaimRefused(w) ==
    /\ w \in revoked
    /\ Agent!ClaimRefused(w)
    /\ UNCHANGED <<queueVars, calls>>

\* Mutant: the ticket is sent before the commit.
GrantBeforeCommit(j) ==
    /\ txn[j].kind = "claim" /\ txn[j].seen = "PROGRESS"
    /\ \/ ClaimCommit(j) /\ UNCHANGED agentVars
       \/ Agent!ClaimAnswered(txn[j].by, j) /\ UNCHANGED queueVars
    /\ UNCHANGED calls

\* The row is committed before the ticket is sent, so the ticket can be lost.
ClaimGranted(j) ==
    /\ ClaimCommit(j)
    /\ \/ Agent!ClaimAnswered(txn[j].by, j)
       \/ UNCHANGED agentVars
    /\ UNCHANGED calls

-----------------------------------------------------------------------------
(* Progress and finish.                                                     *)

Call(type, w, state) == [type |-> type, w |-> w, j |-> agent[w].job, state |-> state]

AgentReports(w) ==
    /\ Agent!Report(w)
    /\ calls' = calls \cup {Call("progress", w, "none")}
    /\ UNCHANGED queueVars

AgentFinishes(w) ==
    /\ Agent!SendFinish(w)
    /\ calls' = calls \cup {Call("finish", w, agent[w].result)}
    /\ UNCHANGED queueVars

\* The answer reaches the agent, or it is lost.
Answer(c, answer) ==
    \/ /\ agent[c.w].job = c.j
       /\ \/ c.type = "progress" /\ Agent!ReportAnswered(c.w, answer)
          \/ c.type = "finish" /\ Agent!FinishAnswered(c.w, answer)
    \/ UNCHANGED agentVars

ProgressHandled(c) ==
    /\ c.type = "progress"
    /\ Progress(c.w, c.j)
    /\ Answer(c, IF StopAnswer(c.j) THEN "stop" ELSE "continue")
    /\ calls' = calls \ {c}

\* The call stays: its answer comes after the commit, and the agent takes the answer to
\* an accepted finish and to a refused one alike.
FinishHandled(c) ==
    /\ c.type = "finish"
    /\ Finish(c.w, c.j, c.state)
    /\ UNCHANGED <<agentVars, calls>>

LateCallHandled(c) == LateCall(c.w, c.j) /\ UNCHANGED <<agentVars, calls>>

\* 401, 403 or 410: the worker is revoked or the ticket is no longer valid
CallRefused(c) ==
    /\ Unlocked(c.j)
    /\ ~ValidTicket(c.w, c.j)
    /\ Answer(c, "refused")
    /\ calls' = calls \ {c}
    /\ UNCHANGED queueVars

CallLost(c) == calls' = calls \ {c} /\ UNCHANGED <<queueVars, agentVars>>

\* A timeout, a broken connection, 429 or 5xx; the call may still be handled.
NoAnswer(w) ==
    /\ Agent!ReportAnswered(w, "lost") \/ Agent!FinishAnswered(w, "lost")
    /\ UNCHANGED <<queueVars, calls>>

-----------------------------------------------------------------------------
AgentAlone(w) ==
    /\ \/ Agent!StartRclone(w) \/ Agent!ShutdownTick(w) \/ Agent!JobRunEnd(w)
       \/ Agent!RequestShutdown(w) \/ Agent!Crash(w) \/ Agent!Restart(w)
       \/ \E j \in Jobs : Agent!RcloneSpawn(w, j) \/ Agent!RcloneExit(w, j)
    /\ UNCHANGED <<queueVars, calls>>

QueueAlone ==
    /\ \/ \E j \in Jobs : UserStep(j) \/ ExpireLeases(j) \/ ClaimDrop(j) \/ FinishCommit(j)
                          \/ ExpireCommit(j) \/ Rollback(j)
       \/ \E w \in Workers : AdminStep(w) \/ PollEnd(w) \/ \E j \in Jobs : TryClaim(w, j)
       \/ Tick
    /\ UNCHANGED <<agentVars, calls>>

AgentStep(w) ==
    \/ AgentClaims(w) \/ ClaimArrives(w) \/ ClaimEmpty(w) \/ ClaimRefused(w)
    \/ AgentReports(w) \/ AgentFinishes(w) \/ NoAnswer(w) \/ AgentAlone(w)

CallStep(c) ==
    \/ ProgressHandled(c) \/ FinishHandled(c) \/ LateCallHandled(c)
    \/ CallRefused(c) \/ CallLost(c)

JobsNext ==
    \/ QueueAlone
    \/ \E j \in Jobs : ClaimGranted(j)
    \/ \E w \in Workers : AgentStep(w)
    \/ \E c \in calls : CallStep(c)

JobsSpec == JobsInit /\ [][JobsNext]_jobsVars

-----------------------------------------------------------------------------
(* Fairness: the agents go on, and a call that is repeated for ever is      *)
(* answered at last.  Nothing makes rclone end by itself.                   *)

Answered(w) ==
    /\ agent[w].waiting
    /\ \E c \in calls : c.w = w /\ (ProgressHandled(c) \/ CallRefused(c))
    /\ ~agent'[w].waiting

JobsFairness ==
    /\ QueueFairness
    /\ \A w \in Workers :
        /\ WF_jobsVars(AgentReports(w))
        /\ WF_jobsVars(NoAnswer(w))
        /\ SF_jobsVars(Answered(w))
        /\ SF_jobsVars(Agent!ShutdownTick(w) /\ UNCHANGED <<queueVars, calls>>)

JobsFairSpec == JobsSpec /\ JobsFairness

-----------------------------------------------------------------------------
(* Properties                                                               *)

Started(w, j) == rclone[w][j] # "none"
Active(w, j)  == rclone[w][j] \in {"starting", "running"}

\* An expired job "is not requeued, because the worker might still be running rclone": at
\* most one worker ever starts rclone for a job, whatever calls and answers are lost.
OneRclone ==
    \A j \in Jobs, v, w \in Workers : Started(v, j) /\ Started(w, j) => v = w

\* A job is a SUCCESS only after its rclone ended with exit status 0: no lost or late call,
\* no sweep and no restart of an agent makes it one (finish, JobRun.run).
NoFalseSuccess ==
    \A j \in Jobs : jobState[j] = "SUCCESS" \/ mail[j] = <<"SUCCESS">> =>
        \E w \in Workers : rclone[w][j] = "ok"

\* An agent never runs rclone for a job that the queue has not given to its worker.
AgentHoldsTicket ==
    \A w \in Workers : agent[w].job # NoJob =>
        workerOf[agent[w].job] = w /\ remote[agent[w].job] \in {"RUNNING", "DONE"}

\* After Stop, a refused report or SIGTERM the agent stops rclone (JobRun.terminate).
EndedRunStopsRclone ==
    \A w \in Workers :
        agent[w].phase = "running" /\ (agent[w].stop \/ agent[w].abandoned \/ agent[w].quit = "stopping")
            => ~Active(w, agent[w].job)

\* A worker that reports after the queue ended its job, or after Stop, "stops rclone": the
\* end of the job reaches every registered rclone of a living agent, whatever is lost.
EndReachesRclone ==
    \A w \in Workers, j \in Jobs :
        (/\ remote[j] = "DONE" \/ stopReq[j]
         /\ agent[w].phase = "running" /\ agent[w].job = j /\ rclone[w][j] = "running"
         /\ ~agent[w].stop /\ ~agent[w].abandoned /\ agent[w].quit # "stopping")
        ~> (~Active(w, j) \/ agent[w].phase = "off")

-----------------------------------------------------------------------------
(* The abstract specification: what the owner of a job sees.                *)

runOf == [j \in Jobs |->
    CASE \E w \in Workers : Active(w, j)          -> "active"
      [] \E w \in Workers : rclone[w][j] = "ok"   -> "ok"
      [] \A w \in Workers : rclone[w][j] = "none" -> "none"
      [] OTHER                                    -> "failed"]
OutcomeIn(m) ==
    CASE m = <<>>   -> "nothing"
      [] Len(m) = 1 -> Head(m)
      [] OTHER      -> "told twice"
toldOf == [j \in Jobs |-> OutcomeIn(mail[j])]

Promise == INSTANCE JobPromise WITH run <- runOf, told <- toldOf

\* The queue and the agents implement the promise: rclone runs at most once, the outcome is
\* mailed at most once, and a success only after rclone ended well.
KeepsPromise == Promise!PromiseSpec
=============================================================================
