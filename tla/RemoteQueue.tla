---------------------------- MODULE RemoteQueue ----------------------------
(***************************************************************************)
(* The central node's queue of remote jobs: the remote_job rows of         *)
(* managers/worker_manager.py and the progress_state of the copy or        *)
(* hashsum job each of them runs (managers/copy_job_manager.py,            *)
(* managers/hashsum_job_manager.py).                                       *)
(*                                                                         *)
(* A database transaction that locks a remote_job row (SELECT ... FOR      *)
(* UPDATE) and also touches other rows is two actions, because everybody   *)
(* else runs in between: one takes the lock and reads, one writes and      *)
(* commits.  txn[j] is the open transaction that holds the lock of row j;  *)
(* the job's own row is never locked, so it can change in between.         *)
(* The workers are the most general clients: any worker may present its    *)
(* ticket at any time.  WorkerAgent adds the agents that really do.        *)
(***************************************************************************)
EXTENDS Integers, Sequences, FiniteSets

CONSTANTS
    Jobs,        \* copy and integrity-check jobs that are routed to a pool
    Workers,     \* rows of the worker table
    NoWorker,    \* worker_id NULL
    NoJob,       \* bound_job NULL
    Serves,      \* [Workers -> SUBSET Jobs]: pool, job types and binding match
    BoundTo,     \* [Workers -> Jobs \cup {NoJob}]: the job of an ephemeral worker
    LeaseTicks,  \* WORKER_LEASE_SECONDS, in ticks of the clock
    TicketTicks  \* WORKER_TICKET_MAX_HOURS, in ticks of the clock

ASSUME JobsAssumption == IsFiniteSet(Jobs)
ASSUME NullAssumption == NoWorker \notin Workers /\ NoJob \notin Jobs
ASSUME ServesAssumption == Serves \in [Workers -> SUBSET Jobs]
ASSUME BoundAssumption ==
    /\ BoundTo \in [Workers -> Jobs \cup {NoJob}]
    /\ \A w \in Workers : BoundTo[w] # NoJob => Serves[w] \subseteq {BoundTo[w]}
ASSUME TicksAssumption == LeaseTicks \in Nat \ {0} /\ TicketTicks \in Nat \ {0}

VARIABLES
    jobState,  \* progress_state of the copy_job or hashsum_job row
    creator,   \* the request that creates the job (create_for)
    stopper,   \* the request that stops the job (stop)
    remote,    \* remote_job.state, "NONE" while there is no row
    rowId,     \* remote_job.id, the order of the queue
    workerOf,  \* remote_job.worker_id
    lease,     \* ticks until lease_expires_at
    ticket,    \* ticks until ticket_expires_at
    stopReq,   \* remote_job.stop_requested
    broker,    \* remote_job.broker_hash is not NULL
    txn,       \* the open transaction that holds the lock of the row
    polling,   \* workers with a claim request that passed the revoked check
    revoked,   \* workers with revoked_at set
    revoker,   \* the transaction of `manage.py workers revoke`
    mail       \* the notifications sent about the end of the job, in order

jobVars    == <<jobState, creator, stopper>>
rowVars    == <<remote, rowId, workerOf, lease, ticket, stopReq, broker>>
workerVars == <<polling, revoked, revoker>>
queueVars  == <<jobState, creator, stopper, remote, rowId, workerOf, lease, ticket,
                stopReq, broker, txn, polling, revoked, revoker, mail>>

Final     == {"SUCCESS", "FAILED", "STOPPED"}  \* UNSET is a FAILED nobody explained
JobStates == {"NONE", "PROGRESS", "GONE"} \cup Final
Txn       == [kind  : {"none", "claim", "finish", "expire", "revoke"},
              by    : Workers \cup {NoWorker},
              seen  : JobStates,   \* progress_state read after taking the lock
              final : JobStates]   \* what finish is about to write
NoTxn     == [kind |-> "none", by |-> NoWorker, seen |-> "NONE", final |-> "NONE"]

Unlocked(j) == txn[j].kind = "none"
Expired(j)  == lease[j] = 0 \/ ticket[j] = 0
Exists(j)   == jobState[j] \notin {"NONE", "GONE"}

QueueTypeOK ==
    /\ jobState \in [Jobs -> JobStates]
    /\ creator \in [Jobs -> {"new", "routing", "done"}]
    /\ stopper \in [Jobs -> {"idle", "asked", "writing", "interrupted"}]
    /\ remote \in [Jobs -> {"NONE", "QUEUED", "RUNNING", "DONE"}]
    /\ rowId \in [Jobs -> Nat]
    /\ workerOf \in [Jobs -> Workers \cup {NoWorker}]
    /\ lease \in [Jobs -> 0 .. LeaseTicks]
    /\ ticket \in [Jobs -> 0 .. TicketTicks]
    /\ stopReq \in [Jobs -> BOOLEAN]
    /\ broker \in [Jobs -> BOOLEAN]
    /\ txn \in [Jobs -> Txn]
    /\ polling \in SUBSET Workers
    /\ revoked \in SUBSET Workers
    /\ revoker \in [Workers -> {"idle", "open"}]
    /\ mail \in [Jobs -> Seq(Final)]

QueueInit ==
    /\ jobState = [j \in Jobs |-> "NONE"]
    /\ creator = [j \in Jobs |-> "new"]
    /\ stopper = [j \in Jobs |-> "idle"]
    /\ remote = [j \in Jobs |-> "NONE"]
    /\ rowId = [j \in Jobs |-> 0]
    /\ workerOf = [j \in Jobs |-> NoWorker]
    /\ lease = [j \in Jobs |-> 0]
    /\ ticket = [j \in Jobs |-> 0]
    /\ stopReq = [j \in Jobs |-> FALSE]
    /\ broker = [j \in Jobs |-> FALSE]
    /\ txn = [j \in Jobs |-> NoTxn]
    /\ polling = {}
    /\ revoked = {}
    /\ revoker = [w \in Workers |-> "idle"]
    /\ mail = [j \in Jobs |-> <<>>]

-----------------------------------------------------------------------------
(* Creating a job: create_for commits the job, then routes and queues it.   *)

CreateJob(j) ==
    /\ creator[j] = "new"
    /\ jobState' = [jobState EXCEPT ![j] = "PROGRESS"]
    /\ creator' = [creator EXCEPT ![j] = "routing"]
    /\ UNCHANGED <<stopper, rowVars, txn, workerVars, mail>>

\* The job may have been stopped or deleted while its source was measured: the request
\* does not look again.
QueueJob(j) ==
    /\ creator[j] = "routing"
    /\ creator' = [creator EXCEPT ![j] = "done"]
    /\ remote' = [remote EXCEPT ![j] = "QUEUED"]
    /\ rowId' = [rowId EXCEPT ![j] = Cardinality({k \in Jobs : remote[k] # "NONE"}) + 1]
    /\ UNCHANGED <<jobState, stopper, workerOf, lease, ticket, stopReq, broker,
                   txn, workerVars, mail>>

\* Routing or queueing raised: the job fails, whatever became of it meanwhile.
QueueFails(j) ==
    /\ creator[j] = "routing"
    /\ creator' = [creator EXCEPT ![j] = "done"]
    /\ jobState' = [jobState EXCEPT ![j] = IF @ = "GONE" THEN @ ELSE "FAILED"]
    /\ UNCHANGED <<stopper, rowVars, txn, workerVars, mail>>

\* The server process dies between the two commits of create_for.
CreateCrash(j) ==
    /\ creator[j] = "routing"
    /\ creator' = [creator EXCEPT ![j] = "done"]
    /\ UNCHANGED <<jobState, stopper, rowVars, txn, workerVars, mail>>

\* Deleting a connection deletes its jobs (ORM cascade); the remote_job row stays.
DeleteJob(j) ==
    /\ Exists(j)
    /\ jobState' = [jobState EXCEPT ![j] = "GONE"]
    /\ UNCHANGED <<creator, stopper, rowVars, txn, workerVars, mail>>

-----------------------------------------------------------------------------
(* Stop: request_stop is a transaction of its own, then stop reads the job  *)
(* again and writes STOPPED over PROGRESS, without a lock.                  *)

\* Mutant: request_stop reads the row without FOR UPDATE.
RequestStopUnlocked(j) ==
    /\ Exists(j)
    /\ stopper[j] \in {"idle", "interrupted"}
    /\ stopper' = [stopper EXCEPT ![j] = "asked"]
    /\ remote' = [remote EXCEPT ![j] = IF @ = "QUEUED" THEN "DONE" ELSE @]
    /\ stopReq' = [stopReq EXCEPT ![j] = @ \/ remote[j] = "RUNNING"]
    /\ UNCHANGED <<jobState, creator, rowId, workerOf, lease, ticket, broker,
                   txn, workerVars, mail>>

RequestStop(j) ==
    /\ Exists(j)
    /\ stopper[j] \in {"idle", "interrupted"}
    /\ Unlocked(j)
    /\ stopper' = [stopper EXCEPT ![j] = "asked"]
    /\ remote' = [remote EXCEPT ![j] = IF @ = "QUEUED" THEN "DONE" ELSE @]
    /\ stopReq' = [stopReq EXCEPT ![j] = @ \/ remote[j] = "RUNNING"]
    /\ UNCHANGED <<jobState, creator, rowId, workerOf, lease, ticket, broker,
                   txn, workerVars, mail>>

\* Mutant: stop leaves a job alone whose row request_stop has just ended.
StopReadRow(j) ==
    /\ stopper[j] = "asked"
    /\ stopper' = [stopper EXCEPT ![j] = IF jobState[j] = "PROGRESS" /\ remote[j] # "DONE"
                                         THEN "writing" ELSE "idle"]
    /\ UNCHANGED <<jobState, creator, rowVars, txn, workerVars, mail>>

StopRead(j) ==
    /\ stopper[j] = "asked"
    /\ stopper' = [stopper EXCEPT ![j] = IF jobState[j] = "PROGRESS" THEN "writing" ELSE "idle"]
    /\ UNCHANGED <<jobState, creator, rowVars, txn, workerVars, mail>>

StopWrite(j) ==
    /\ stopper[j] = "writing"
    /\ stopper' = [stopper EXCEPT ![j] = "idle"]
    /\ jobState' = [jobState EXCEPT ![j] = IF @ = "GONE" THEN @ ELSE "STOPPED"]
    /\ UNCHANGED <<creator, rowVars, txn, workerVars, mail>>

\* The server process dies in the middle of stop; the user may press Stop again.
StopCrash(j) ==
    /\ stopper[j] \in {"asked", "writing"}
    /\ stopper' = [stopper EXCEPT ![j] = "interrupted"]
    /\ UNCHANGED <<jobState, creator, rowVars, txn, workerVars, mail>>

-----------------------------------------------------------------------------
(* Ending rows.  J is the set of rows that one transaction ends.            *)

\* _end also revokes the ephemeral worker that exists for the job.
End(J, holder) ==
    /\ remote' = [j \in Jobs |-> IF j \in J THEN "DONE" ELSE remote[j]]
    /\ broker' = [j \in Jobs |-> broker[j] /\ j \notin J]
    /\ txn' = [j \in Jobs |-> IF j \in J THEN NoTxn ELSE txn[j]]
    /\ revoked' = revoked \cup {w \in Workers : \E j \in J : holder[j] = w /\ BoundTo[w] = j}

\* An UPDATE of a row that was deleted meanwhile raises (StaleDataError).
Writable(J) == \A j \in J : jobState[j] # "GONE" \/ txn[j].seen = "GONE"

\* _expire fails the jobs it saw in PROGRESS, and the request mails their owners.
FailSeen(J) ==
    LET failing == {j \in J : txn[j].seen = "PROGRESS"} IN
    /\ Writable(failing)
    /\ jobState' = [j \in Jobs |-> IF j \in failing THEN "FAILED" ELSE jobState[j]]
    /\ mail' = [j \in Jobs |-> IF j \in failing THEN Append(mail[j], "FAILED") ELSE mail[j]]

-----------------------------------------------------------------------------
(* Claims.                                                                  *)

\* authenticate, and again after every pause of the long poll
Poll(w) ==
    /\ w \notin revoked
    /\ w \notin polling
    /\ polling' = polling \cup {w}
    /\ UNCHANGED <<jobVars, rowVars, txn, revoked, revoker, mail>>

PollEnd(w) ==
    /\ w \in polling
    /\ polling' = polling \ {w}
    /\ UNCHANGED <<jobVars, rowVars, txn, revoked, revoker, mail>>

\* FOR UPDATE SKIP LOCKED: rows that somebody else has locked are not candidates
Claimable(w) == {j \in Serves[w] : remote[j] = "QUEUED" /\ Unlocked(j)}

TryClaim(w, j) ==
    /\ w \in polling
    /\ j \in Claimable(w)
    /\ \A k \in Claimable(w) : rowId[j] <= rowId[k]
    /\ txn' = [txn EXCEPT ![j] = [kind |-> "claim", by |-> w,
                                  seen |-> jobState[j], final |-> "NONE"]]
    /\ UNCHANGED <<jobVars, rowVars, workerVars, mail>>

\* The job is still in PROGRESS: the row gets its worker, lease, ticket and broker token.
ClaimCommit(j) ==
    /\ txn[j].kind = "claim"
    /\ txn[j].seen = "PROGRESS"
    /\ remote' = [remote EXCEPT ![j] = "RUNNING"]
    /\ workerOf' = [workerOf EXCEPT ![j] = txn[j].by]
    /\ lease' = [lease EXCEPT ![j] = LeaseTicks]
    /\ ticket' = [ticket EXCEPT ![j] = TicketTicks]
    /\ stopReq' = [stopReq EXCEPT ![j] = FALSE]
    /\ broker' = [broker EXCEPT ![j] = TRUE]
    /\ txn' = [txn EXCEPT ![j] = NoTxn]
    /\ UNCHANGED <<jobVars, rowId, workerVars, mail>>

\* Mutant: a row whose ticket cannot be built ends without failing its job.
ClaimDropSilently(j) ==
    /\ txn[j].kind = "claim"
    /\ workerOf' = [workerOf EXCEPT ![j] = txn[j].by]
    /\ End({j}, workerOf')
    /\ UNCHANGED <<jobVars, rowId, lease, ticket, stopReq, polling, revoker, mail>>

\* Deleted or stopped before the claim, or the ticket cannot be built: the row ends at once.
ClaimDrop(j) ==
    /\ txn[j].kind = "claim"
    /\ workerOf' = [workerOf EXCEPT ![j] = txn[j].by]
    /\ lease' = [lease EXCEPT ![j] = LeaseTicks]
    /\ ticket' = [ticket EXCEPT ![j] = TicketTicks]
    /\ stopReq' = [stopReq EXCEPT ![j] = FALSE]
    /\ FailSeen({j})
    /\ End({j}, workerOf')
    /\ UNCHANGED <<creator, stopper, rowId, polling, revoker>>

-----------------------------------------------------------------------------
(* Ticket calls of a worker.                                                *)

\* _ticket: the worker is not revoked and holds the ticket of this running row
ValidTicket(w, j) ==
    /\ w \notin revoked
    /\ Unlocked(j)
    /\ remote[j] = "RUNNING"
    /\ workerOf[j] = w

\* progress's answer
StopAnswer(j) == stopReq[j] \/ jobState[j] \in {"GONE", "STOPPED"}

\* Mutant: every report renews the ticket too.
ProgressRenewsTicket(w, j) ==
    /\ ValidTicket(w, j)
    /\ ~Expired(j)
    /\ lease' = [lease EXCEPT ![j] = LeaseTicks]
    /\ ticket' = [ticket EXCEPT ![j] = TicketTicks]
    /\ UNCHANGED <<jobVars, remote, rowId, workerOf, stopReq, broker, txn, workerVars, mail>>

Progress(w, j) ==
    /\ ValidTicket(w, j)
    /\ ~Expired(j)
    /\ lease' = [lease EXCEPT ![j] = LeaseTicks]
    /\ UNCHANGED <<jobVars, remote, rowId, workerOf, ticket, stopReq, broker,
                   txn, workerVars, mail>>

\* Mutant: finish believes the worker, whatever was asked of it.
VerdictOfWorker(j, state) ==
    IF jobState[j] = "GONE" THEN "GONE" ELSE IF state = "STOPPED" THEN "FAILED" ELSE state

\* A worker that stopped without being asked was shut down: its job failed.
Verdict(j, state) ==
    CASE jobState[j] = "GONE"                      -> "GONE"
      [] stopReq[j] \/ jobState[j] = "STOPPED"     -> "STOPPED"
      [] OTHER -> IF state = "STOPPED" THEN "FAILED" ELSE state

Finish(w, j, state) ==
    /\ ValidTicket(w, j)
    /\ ~Expired(j)
    /\ txn' = [txn EXCEPT ![j] = [kind |-> "finish", by |-> w, seen |-> jobState[j],
                                  final |-> Verdict(j, state)]]
    /\ UNCHANGED <<jobVars, rowVars, workerVars, mail>>

\* Mutant: finish forgets _end, so the ticket stays valid.
FinishKeepsRow(j) ==
    /\ txn[j].kind = "finish"
    /\ Writable({j})
    /\ jobState' = [jobState EXCEPT ![j] = txn[j].final]
    /\ mail' = [mail EXCEPT ![j] = IF txn[j].final \in {"GONE", "STOPPED"} THEN @
                                   ELSE Append(@, txn[j].final)]
    /\ txn' = [txn EXCEPT ![j] = NoTxn]
    /\ UNCHANGED <<creator, stopper, rowVars, workerVars>>

FinishCommit(j) ==
    /\ txn[j].kind = "finish"
    /\ Writable({j})
    /\ jobState' = [jobState EXCEPT ![j] = txn[j].final]
    /\ mail' = [mail EXCEPT ![j] = IF txn[j].final \in {"GONE", "STOPPED"} THEN @
                                   ELSE Append(@, txn[j].final)]
    /\ End({j}, workerOf)
    /\ UNCHANGED <<creator, stopper, rowId, workerOf, lease, ticket, stopReq, polling, revoker>>

\* A progress or finish call after the lease or the ticket ran out
LateCall(w, j) ==
    /\ ValidTicket(w, j)
    /\ Expired(j)
    /\ txn' = [txn EXCEPT ![j] = [kind |-> "expire", by |-> w,
                                  seen |-> jobState[j], final |-> "NONE"]]
    /\ UNCHANGED <<jobVars, rowVars, workerVars, mail>>

-----------------------------------------------------------------------------
(* Sweeps, revocation and time.                                             *)

\* expire_leases takes the row.  The request that sweeps may have loaded the job before
\* (retrieve reads the job first): its session then still holds the PROGRESS of that time.
ExpireLeases(j) ==
    /\ Unlocked(j)
    /\ remote[j] = "RUNNING"
    /\ Expired(j)
    /\ \E seen \in {jobState[j]} \cup (IF Exists(j) THEN {"PROGRESS"} ELSE {}) :
         txn' = [txn EXCEPT ![j] = [kind |-> "expire", by |-> NoWorker,
                                    seen |-> seen, final |-> "NONE"]]
    /\ UNCHANGED <<jobVars, rowVars, workerVars, mail>>

\* Mutant: _expire fails the job and forgets _end.
ExpireKeepsRow(j) ==
    /\ txn[j].kind = "expire"
    /\ FailSeen({j})
    /\ txn' = [txn EXCEPT ![j] = NoTxn]
    /\ UNCHANGED <<creator, stopper, rowVars, workerVars>>

\* Mutant: an expired job goes back to the queue, for another worker.
ExpireRequeues(j) ==
    /\ txn[j].kind = "expire"
    /\ remote' = [remote EXCEPT ![j] = "QUEUED"]
    /\ workerOf' = [workerOf EXCEPT ![j] = NoWorker]
    /\ broker' = [broker EXCEPT ![j] = FALSE]
    /\ txn' = [txn EXCEPT ![j] = NoTxn]
    /\ UNCHANGED <<jobVars, rowId, lease, ticket, stopReq, workerVars, mail>>

ExpireCommit(j) ==
    /\ txn[j].kind = "expire"
    /\ FailSeen({j})
    /\ End({j}, workerOf)
    /\ UNCHANGED <<creator, stopper, rowId, workerOf, lease, ticket, stopReq, polling, revoker>>

\* revoke_worker waits for the locks of all running rows of the worker, then fails them
\* and marks the worker in one commit.
RunningOn(w) == {j \in Jobs : remote[j] = "RUNNING" /\ workerOf[j] = w}

RevokeWorker(w) ==
    /\ revoker[w] = "idle"
    /\ \A j \in RunningOn(w) : Unlocked(j)
    /\ revoker' = [revoker EXCEPT ![w] = "open"]
    /\ txn' = [j \in Jobs |-> IF j \in RunningOn(w)
                              THEN [kind |-> "revoke", by |-> w, seen |-> jobState[j], final |-> "NONE"]
                              ELSE txn[j]]
    /\ UNCHANGED <<jobVars, rowVars, polling, revoked, mail>>

RevokedRows(w) == {j \in Jobs : txn[j].kind = "revoke" /\ txn[j].by = w}

RevokeCommit(w) ==
    /\ revoker[w] = "open"
    /\ revoker' = [revoker EXCEPT ![w] = "idle"]
    /\ FailSeen(RevokedRows(w))
    /\ LET J == RevokedRows(w) IN
       /\ remote' = [j \in Jobs |-> IF j \in J THEN "DONE" ELSE remote[j]]
       /\ broker' = [j \in Jobs |-> broker[j] /\ j \notin J]
       /\ txn' = [j \in Jobs |-> IF j \in J THEN NoTxn ELSE txn[j]]
    /\ revoked' = revoked \cup {w}
    /\ UNCHANGED <<creator, stopper, rowId, workerOf, lease, ticket, stopReq, polling>>

\* A transaction rolls back: the process died, the database broke a deadlock, or an
\* UPDATE found no row.  Nothing of it was written.
Rollback(j) ==
    /\ txn[j].kind \in {"claim", "finish", "expire"}
    /\ txn' = [txn EXCEPT ![j] = NoTxn]
    /\ UNCHANGED <<jobVars, rowVars, workerVars, mail>>

RevokeRollback(w) ==
    /\ revoker[w] = "open"
    /\ revoker' = [revoker EXCEPT ![w] = "idle"]
    /\ txn' = [j \in Jobs |-> IF j \in RevokedRows(w) THEN NoTxn ELSE txn[j]]
    /\ UNCHANGED <<jobVars, rowVars, polling, revoked, mail>>

Tick ==
    /\ \E j \in Jobs : remote[j] = "RUNNING" /\ ~Expired(j)
    /\ lease' = [j \in Jobs |-> IF remote[j] = "RUNNING" /\ lease[j] > 0 THEN lease[j] - 1 ELSE lease[j]]
    /\ ticket' = [j \in Jobs |-> IF remote[j] = "RUNNING" /\ ticket[j] > 0 THEN ticket[j] - 1 ELSE ticket[j]]
    /\ UNCHANGED <<jobVars, remote, rowId, workerOf, stopReq, broker, txn, workerVars, mail>>

-----------------------------------------------------------------------------
UserStep(j) ==
    \/ CreateJob(j) \/ QueueJob(j) \/ QueueFails(j) \/ CreateCrash(j) \/ DeleteJob(j)
    \/ RequestStop(j) \/ StopRead(j) \/ StopWrite(j) \/ StopCrash(j)

CommitStep(j) ==
    ClaimCommit(j) \/ ClaimDrop(j) \/ FinishCommit(j) \/ ExpireCommit(j) \/ Rollback(j)

WorkerStep(w) ==
    \/ Poll(w) \/ PollEnd(w)
    \/ \E j \in Jobs : \/ TryClaim(w, j) \/ Progress(w, j) \/ LateCall(w, j)
                       \/ \E state \in Final : Finish(w, j, state)

AdminStep(w) == RevokeWorker(w) \/ RevokeCommit(w) \/ RevokeRollback(w)

QueueNext ==
    \/ \E j \in Jobs : UserStep(j) \/ CommitStep(j) \/ ExpireLeases(j)
    \/ \E w \in Workers : WorkerStep(w) \/ AdminStep(w)
    \/ Tick

QueueSpec == QueueInit /\ [][QueueNext]_queueVars

\* What the deployment guarantees: time passes; somebody lists jobs or polls for one, so
\* that expired rows are swept; a sweep is not rolled back for ever; a stop request runs on.
QueueFairness ==
    /\ WF_queueVars(Tick)
    /\ \A j \in Jobs :
        /\ SF_queueVars(ExpireLeases(j))
        /\ SF_queueVars(ExpireCommit(j))
        /\ WF_queueVars(ClaimCommit(j) \/ ClaimDrop(j) \/ FinishCommit(j) \/ Rollback(j))
        /\ WF_queueVars(StopRead(j))
        /\ WF_queueVars(StopWrite(j))
    /\ \A w \in Workers : WF_queueVars(RevokeCommit(w) \/ RevokeRollback(w))

QueueFairSpec == QueueSpec /\ QueueFairness

-----------------------------------------------------------------------------
(* Properties                                                               *)

\* The transaction that holds a row's lock fits the state of the row, and the worker,
\* the broker token and the state of a row agree: claim, _end and request_stop keep
\* these columns together although three kinds of requests write them.
RowsAgree ==
    \A j \in Jobs :
        /\ txn[j].kind = "claim" => remote[j] = "QUEUED"
        /\ txn[j].kind \in {"finish", "expire", "revoke"} => remote[j] = "RUNNING"
        /\ remote[j] \in {"NONE", "QUEUED"} => workerOf[j] = NoWorker
        /\ broker[j] <=> remote[j] = "RUNNING"

\* The end of a job is mailed at most once, and only when its row has ended, although the
\* worker's finish, a late call, a sweep and a revocation race to end it (_expire, finish).
OneNotification ==
    \A j \in Jobs : Len(mail[j]) <= 1 /\ (mail[j] # <<>> => remote[j] = "DONE")

\* A job whose row has ended does not stay in PROGRESS, where nothing would ever end it,
\* except while a stop request is between its two commits (or died there).
NoStrandedJob ==
    \A j \in Jobs : remote[j] = "DONE" /\ jobState[j] = "PROGRESS" => stopper[j] # "idle"

\* Once request_stop has marked a running row, the job cannot end as a success and no
\* success is mailed, however late the stop reaches the worker (request_stop, finish).
StopIsHonoured ==
    \A j \in Jobs : stopReq[j] => jobState[j] # "SUCCESS" /\ mail[j] # <<"SUCCESS">>

\* The outcome that was mailed is the outcome that is shown, unless the user pressed Stop
\* or deleted the job: no late commit of another request turns it round (finish, _expire).
MailMatchesState ==
    \A j \in Jobs : mail[j] # <<>> => jobState[j] \in {Head(mail[j]), "STOPPED", "GONE"}

\* copy_job_manager.stop reads the job again "to avoid race conditions": the state it
\* writes does not replace an outcome that was already mailed.
StopKeepsOutcome ==
    [][\A j \in Jobs : mail[j] # <<>> => jobState'[j] \in {jobState[j], "GONE"}]_queueVars

\* revoke_worker: "its running jobs fail now".
RevokedRunsNothing ==
    \A w \in revoked : RunningOn(w) = {}

\* Every claimed job ends: its worker finishes it, or its lease or ticket runs out and a
\* sweep fails it; never does a dead worker keep a job.
ClaimedJobEnds ==
    \A j \in Jobs : remote[j] = "RUNNING" ~> remote[j] = "DONE"

\* A stop request that does not die leaves the job in a final state.
StopSettles ==
    \A j \in Jobs : stopper[j] = "asked" ~> (stopper[j] = "interrupted" \/ jobState[j] # "PROGRESS")

=============================================================================
