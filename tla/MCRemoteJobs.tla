---------------------------- MODULE MCRemoteJobs ----------------------------
(* Instances of RemoteJobs for TLC. *)
EXTENDS RemoteJobs, TLC

CONSTANTS j1, j2, w1, w2

ServesPool == [w \in Workers |-> IF w = w1 THEN Jobs ELSE {j1}]
BoundW2    == [w \in Workers |-> IF w = w1 THEN NoJob ELSE j1]

\* Two workers race for the jobs: jobs are created, queued and stopped, but neither
\* deleted nor interrupted, and nobody is revoked (RemoteQueue has an instance with all of these).
Race(created) ==
    \/ /\ \/ \E j \in created : CreateJob(j)
          \/ \E j \in Jobs : \/ QueueJob(j)
                             \/ RequestStop(j) \/ StopRead(j) \/ StopWrite(j)
                             \/ ExpireLeases(j) \/ ClaimDrop(j) \/ FinishCommit(j)
                             \/ ExpireCommit(j) \/ Rollback(j)
          \/ \E w \in Workers : PollEnd(w) \/ \E j \in Jobs : TryClaim(w, j)
          \/ Tick
       /\ UNCHANGED <<agentVars, calls>>
    \/ \E j \in Jobs : ClaimGranted(j)
    \/ \E w \in Workers : AgentStep(w)
    \/ \E c \in calls : CallStep(c)

\* The same, with revocations, for liveness.
EndNext ==
    \/ Race(Jobs)
    \/ /\ \E w \in Workers : RevokeWorker(w) \/ RevokeCommit(w)
       /\ UNCHANGED <<agentVars, calls>>

EndFairSpec == JobsInit /\ [][EndNext]_jobsVars /\ JobsFairness

\* One worker goes from one job to the next, with calls of the first still on their way:
\* no Stop, no signal, no expiry and no rolled back transaction, but the worker may be
\* revoked with both jobs running, if the ticket of the first was lost.
NextJob ==
    \/ /\ \/ \E j \in Jobs : CreateJob(j) \/ QueueJob(j) \/ FinishCommit(j)
          \/ \E w \in {w1} : \/ PollEnd(w) \/ \E j \in Jobs : TryClaim(w, j)
                                \/ RevokeWorker(w) \/ RevokeCommit(w)
       /\ UNCHANGED <<agentVars, calls>>
    \/ \E j \in Jobs : ClaimGranted(j)
    \/ \E w \in {w1} :
          \/ AgentClaims(w) \/ ClaimArrives(w) \/ ClaimEmpty(w) \/ ClaimRefused(w)
          \/ AgentReports(w) \/ AgentFinishes(w) \/ NoAnswer(w)
          \/ /\ \/ Agent!StartRclone(w) \/ Agent!JobRunEnd(w) \/ Agent!Crash(w) \/ Agent!Restart(w)
                \/ \E j \in Jobs : Agent!RcloneSpawn(w, j) \/ Agent!RcloneExit(w, j)
             /\ UNCHANGED <<queueVars, calls>>
    \/ \E c \in calls : ProgressHandled(c) \/ FinishHandled(c) \/ CallRefused(c) \/ CallLost(c)

=============================================================================
