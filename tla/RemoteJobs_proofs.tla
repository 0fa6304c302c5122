-------------------------- MODULE RemoteJobs_proofs --------------------------
(***************************************************************************)
(* First the queue alone: type correctness and the safety invariants of    *)
(* RemoteQueue, for any finite set of jobs, any set of workers and any     *)
(* lease and ticket times.  Then the queue, its agents and the network     *)
(* between them: the same theorems hold for the composition, rclone runs   *)
(* for a job on one worker at most, and a success is never false.          *)
(***************************************************************************)
EXTENDS RemoteJobs, FiniteSetTheorems, TLAPS

-----------------------------------------------------------------------------
(* The inductive invariant of the queue: what the rows, the open            *)
(* transactions and the jobs know of each other.                            *)

\* A job that is not queued yet has no row.
RowlessUntilQueued(j) == creator[j] # "done" => remote[j] = "NONE"

\* What a transaction has read and decided under the lock stays true until it commits,
\* although the job's own row is not locked.
ReadStaysTrue(j) ==
    /\ txn[j].kind # "none" /\ txn[j].seen # "PROGRESS" => jobState[j] # "PROGRESS"
    /\ txn[j].kind = "finish" =>
         /\ txn[j].final \in Final \cup {"GONE"}
         /\ stopReq[j] => txn[j].final # "SUCCESS"

\* A claim is made for a worker.
ClaimHasWorker(j) == txn[j].kind = "claim" => txn[j].by \in Workers

\* Only finish makes a job a success, and it ends the row.
SuccessEndsRow(j) == jobState[j] = "SUCCESS" => remote[j] = "DONE"

QueueInv ==
    /\ QueueTypeOK
    /\ RowsAgree
    /\ OneNotification
    /\ NoStrandedJob
    /\ StopIsHonoured
    /\ MailMatchesState
    /\ \A j \in Jobs : /\ RowlessUntilQueued(j) /\ ReadStaysTrue(j)
                      /\ ClaimHasWorker(j) /\ SuccessEndsRow(j)
-----------------------------------------------------------------------------
(* Type correctness                                                         *)

LEMMA InitType == QueueInit => QueueTypeOK
BY TicksAssumption DEF QueueInit, QueueTypeOK, Txn, NoTxn, JobStates, Final

\* The identifier of the next row is a number: there are finitely many jobs.
LEMMA RowCount == \A S \in SUBSET Jobs : Cardinality(S) + 1 \in Nat
BY JobsAssumption, FS_Subset, FS_CardinalityType

LEMMA UserType ==
    ASSUME QueueTypeOK, NEW j \in Jobs, UserStep(j)
    PROVE  QueueTypeOK'
<1> USE DEF QueueTypeOK, JobStates, Final
<1>1. CASE CreateJob(j)   BY <1>1 DEF CreateJob, rowVars, workerVars
<1>2. CASE QueueJob(j)
  <2>1. Cardinality({k \in Jobs : remote[k] # "NONE"}) + 1 \in Nat  BY RowCount
  <2>2. QED  BY <1>2, <2>1 DEF QueueJob, workerVars
<1>3. CASE QueueFails(j)  BY <1>3 DEF QueueFails, rowVars, workerVars
<1>4. CASE CreateCrash(j) BY <1>4 DEF CreateCrash, rowVars, workerVars
<1>5. CASE DeleteJob(j)   BY <1>5 DEF DeleteJob, rowVars, workerVars
<1>6. CASE RequestStop(j) BY <1>6 DEF RequestStop, workerVars
<1>7. CASE StopRead(j)    BY <1>7 DEF StopRead, rowVars, workerVars
<1>8. CASE StopWrite(j)   BY <1>8 DEF StopWrite, rowVars, workerVars
<1>9. CASE StopCrash(j)   BY <1>9 DEF StopCrash, rowVars, workerVars
<1>10. QED
  BY <1>1, <1>2, <1>3, <1>4, <1>5, <1>6, <1>7, <1>8, <1>9 DEF UserStep

\* Failing the jobs seen in PROGRESS keeps the types it touches.
LEMMA FailSeenType ==
    ASSUME QueueTypeOK, NEW J \in SUBSET Jobs, FailSeen(J)
    PROVE  jobState' \in [Jobs -> JobStates] /\ mail' \in [Jobs -> Seq(Final)]
BY DEF QueueTypeOK, FailSeen, JobStates, Final

\* finish has decided on an outcome that can be mailed.
LEMMA CommitType ==
    ASSUME QueueTypeOK, NEW j \in Jobs, CommitStep(j),
           txn[j].kind = "finish" => txn[j].final \in Final \cup {"GONE"}
    PROVE  QueueTypeOK'
<1>1. NoTxn \in Txn  BY DEF NoTxn, Txn, JobStates, Final
<1>2. CASE ClaimCommit(j)
  BY <1>1, <1>2, TicksAssumption DEF ClaimCommit, QueueTypeOK, jobVars, workerVars, Txn
<1>3. CASE ClaimDrop(j)
  <2>1. jobState' \in [Jobs -> JobStates] /\ mail' \in [Jobs -> Seq(Final)]
    BY <1>3, FailSeenType DEF ClaimDrop
  <2>2. /\ remote' \in [Jobs -> {"NONE", "QUEUED", "RUNNING", "DONE"}]
        /\ broker' \in [Jobs -> BOOLEAN]
        /\ txn' \in [Jobs -> Txn]
        /\ revoked' \in SUBSET Workers
    BY <1>1, <1>3 DEF ClaimDrop, End, QueueTypeOK
  <2>3. /\ workerOf' \in [Jobs -> Workers \cup {NoWorker}]
        /\ lease' \in [Jobs -> 0 .. LeaseTicks]
        /\ ticket' \in [Jobs -> 0 .. TicketTicks]
        /\ stopReq' \in [Jobs -> BOOLEAN]
    BY <1>3, TicksAssumption DEF ClaimDrop, QueueTypeOK, Txn
  <2>4. QED  BY <1>3, <2>1, <2>2, <2>3 DEF ClaimDrop, QueueTypeOK
<1>4. CASE FinishCommit(j)
  <2>1. txn[j].final \in Final \cup {"GONE"}  BY <1>4 DEF FinishCommit
  <2>2. jobState' \in [Jobs -> JobStates]
    BY <1>4, <2>1 DEF FinishCommit, QueueTypeOK, JobStates
  <2>3. mail' \in [Jobs -> Seq(Final)]
    <3>1. CASE txn[j].final \in {"GONE", "STOPPED"}
      BY <1>4, <3>1 DEF FinishCommit, QueueTypeOK
    <3>2. CASE txn[j].final \notin {"GONE", "STOPPED"}
      <4>1. Append(mail[j], txn[j].final) \in Seq(Final)  BY <2>1, <3>2 DEF QueueTypeOK
      <4>2. QED  BY <1>4, <3>2, <4>1 DEF FinishCommit, QueueTypeOK
    <3>3. QED  BY <3>1, <3>2
  <2>4. /\ remote' \in [Jobs -> {"NONE", "QUEUED", "RUNNING", "DONE"}]
        /\ broker' \in [Jobs -> BOOLEAN]
        /\ txn' \in [Jobs -> Txn]
        /\ revoked' \in SUBSET Workers
    BY <1>1, <1>4 DEF FinishCommit, End, QueueTypeOK
  <2>5. QED  BY <1>4, <2>2, <2>3, <2>4 DEF FinishCommit, QueueTypeOK
<1>5. CASE ExpireCommit(j)
  <2>1. jobState' \in [Jobs -> JobStates] /\ mail' \in [Jobs -> Seq(Final)]
    BY <1>5, FailSeenType DEF ExpireCommit
  <2>2. /\ remote' \in [Jobs -> {"NONE", "QUEUED", "RUNNING", "DONE"}]
        /\ broker' \in [Jobs -> BOOLEAN]
        /\ txn' \in [Jobs -> Txn]
        /\ revoked' \in SUBSET Workers
    BY <1>1, <1>5 DEF ExpireCommit, End, QueueTypeOK
  <2>3. QED  BY <1>5, <2>1, <2>2 DEF ExpireCommit, QueueTypeOK
<1>6. CASE Rollback(j)
  BY <1>1, <1>6 DEF Rollback, QueueTypeOK, jobVars, rowVars, workerVars
<1>7. QED  BY <1>2, <1>3, <1>4, <1>5, <1>6 DEF CommitStep

LEMMA WorkerType ==
    ASSUME QueueTypeOK, NEW w \in Workers, WorkerStep(w)
    PROVE  QueueTypeOK'
<1> USE DEF QueueTypeOK
<1>1. CASE Poll(w)     BY <1>1 DEF Poll, jobVars, rowVars
<1>2. CASE PollEnd(w)  BY <1>2 DEF PollEnd, jobVars, rowVars
<1>3. ASSUME NEW j \in Jobs, TryClaim(w, j)  PROVE QueueTypeOK'
  BY <1>3 DEF TryClaim, jobVars, rowVars, workerVars, Txn, JobStates
<1>4. ASSUME NEW j \in Jobs, Progress(w, j)  PROVE QueueTypeOK'
  BY <1>4, TicksAssumption DEF Progress, jobVars, workerVars
<1>5. ASSUME NEW j \in Jobs, LateCall(w, j)  PROVE QueueTypeOK'
  BY <1>5 DEF LateCall, jobVars, rowVars, workerVars, Txn, JobStates
<1>6. ASSUME NEW j \in Jobs, NEW state \in Final, Finish(w, j, state)  PROVE QueueTypeOK'
  <2>1. Verdict(j, state) \in JobStates  BY DEF Verdict, JobStates, Final
  <2>2. QED  BY <1>6, <2>1 DEF Finish, jobVars, rowVars, workerVars, Txn
<1>7. QED  BY <1>1, <1>2, <1>3, <1>4, <1>5, <1>6 DEF WorkerStep

LEMMA SweepType ==
    ASSUME QueueTypeOK, NEW j \in Jobs, ExpireLeases(j)
    PROVE  QueueTypeOK'
<1>1. PICK seen \in JobStates :
        txn' = [txn EXCEPT ![j] = [kind |-> "expire", by |-> NoWorker,
                                   seen |-> seen, final |-> "NONE"]]
  BY DEF ExpireLeases, QueueTypeOK, JobStates
<1>2. QED  BY <1>1 DEF QueueTypeOK, ExpireLeases, jobVars, rowVars, workerVars, Txn, JobStates

LEMMA AdminType ==
    ASSUME QueueTypeOK, NEW w \in Workers, AdminStep(w)
    PROVE  QueueTypeOK'
<1>1. NoTxn \in Txn  BY DEF NoTxn, Txn, JobStates, Final
<1>2. CASE RevokeWorker(w)
  BY <1>2 DEF RevokeWorker, QueueTypeOK, jobVars, rowVars, Txn, JobStates
<1>3. CASE RevokeCommit(w)
  <2>1. jobState' \in [Jobs -> JobStates] /\ mail' \in [Jobs -> Seq(Final)]
    BY <1>3, FailSeenType DEF RevokeCommit, RevokedRows
  <2>2. QED  BY <1>1, <1>3, <2>1 DEF RevokeCommit, QueueTypeOK
<1>4. CASE RevokeRollback(w)
  BY <1>1, <1>4 DEF RevokeRollback, QueueTypeOK, jobVars, rowVars
<1>5. QED  BY <1>2, <1>3, <1>4 DEF AdminStep

LEMMA TickType ==
    ASSUME QueueTypeOK, Tick
    PROVE  QueueTypeOK'
BY TicksAssumption DEF QueueTypeOK, Tick, jobVars, workerVars

-----------------------------------------------------------------------------
(* The inductive step                                                       *)

LEMMA InitInv == QueueInit => QueueInv
<1>1. QueueInit => QueueTypeOK  BY InitType
<1>2. QED
  BY <1>1 DEF QueueInit, QueueInv, RowsAgree, OneNotification, NoStrandedJob, StopIsHonoured,
              MailMatchesState, RowlessUntilQueued, ReadStaysTrue, ClaimHasWorker, SuccessEndsRow, NoTxn

\* What QueueInv says of one job besides the types
JobInv(j) ==
    /\ txn[j].kind = "claim" => remote[j] = "QUEUED"
    /\ txn[j].kind \in {"finish", "expire", "revoke"} => remote[j] = "RUNNING"
    /\ remote[j] \in {"NONE", "QUEUED"} => workerOf[j] = NoWorker
    /\ broker[j] <=> remote[j] = "RUNNING"
    /\ Len(mail[j]) <= 1
    /\ mail[j] # <<>> => remote[j] = "DONE"
    /\ remote[j] = "DONE" /\ jobState[j] = "PROGRESS" => stopper[j] # "idle"
    /\ stopReq[j] => jobState[j] # "SUCCESS" /\ mail[j] # <<"SUCCESS">>
    /\ mail[j] # <<>> => jobState[j] \in {Head(mail[j]), "STOPPED", "GONE"}
    /\ RowlessUntilQueued(j)
    /\ ReadStaysTrue(j)
    /\ ClaimHasWorker(j)
    /\ SuccessEndsRow(j)

LEMMA InvByJob ==
    /\ QueueInv <=> QueueTypeOK /\ \A j \in Jobs : JobInv(j)
    /\ QueueInv' <=> QueueTypeOK' /\ \A j \in Jobs : JobInv(j)'
BY DEF QueueInv, JobInv, RowsAgree, OneNotification, NoStrandedJob, StopIsHonoured,
       MailMatchesState

\* A step that leaves a job, its row, its transaction and its mail alone
LEMMA Untouched ==
    ASSUME NEW k \in Jobs, JobInv(k),
           jobState'[k] = jobState[k], creator'[k] = creator[k], stopper'[k] = stopper[k],
           remote'[k] = remote[k], workerOf'[k] = workerOf[k], stopReq'[k] = stopReq[k],
           broker'[k] = broker[k], txn'[k] = txn[k], mail'[k] = mail[k]
    PROVE  JobInv(k)'
BY DEF JobInv, RowlessUntilQueued, ReadStaysTrue, ClaimHasWorker, SuccessEndsRow

LEMMA UserInv ==
    ASSUME QueueInv, NEW j \in Jobs, UserStep(j)
    PROVE  QueueInv'
<1>1. QueueTypeOK /\ JobInv(j) /\ \A k \in Jobs : JobInv(k)  BY InvByJob
<1>2. QueueTypeOK'  BY <1>1, UserType
<1>3. \A k \in Jobs \ {j} : JobInv(k)'
  <2> SUFFICES ASSUME NEW k \in Jobs \ {j} PROVE JobInv(k)'  OBVIOUS
  <2>1. /\ jobState'[k] = jobState[k] /\ creator'[k] = creator[k] /\ stopper'[k] = stopper[k]
        /\ remote'[k] = remote[k] /\ workerOf'[k] = workerOf[k] /\ stopReq'[k] = stopReq[k]
        /\ broker'[k] = broker[k] /\ txn'[k] = txn[k] /\ mail'[k] = mail[k]
    BY <1>1 DEF UserStep, CreateJob, QueueJob, QueueFails, CreateCrash, DeleteJob, RequestStop,
                StopRead, StopWrite, StopCrash, rowVars, workerVars, QueueTypeOK
  <2>2. QED  BY <1>1, <2>1, Untouched
<1>4. JobInv(j)'
  <2> USE <1>1 DEF JobInv, RowlessUntilQueued, ReadStaysTrue, ClaimHasWorker, SuccessEndsRow, QueueTypeOK, Txn, Final
  <2>1. CASE CreateJob(j)   BY <2>1 DEF CreateJob, rowVars, workerVars
  <2>2. CASE QueueJob(j)    BY <2>2 DEF QueueJob, workerVars
  <2>3. CASE QueueFails(j)  BY <2>3 DEF QueueFails, rowVars, workerVars
  <2>4. CASE CreateCrash(j) BY <2>4 DEF CreateCrash, rowVars, workerVars
  <2>5. CASE DeleteJob(j)   BY <2>5 DEF DeleteJob, rowVars, workerVars, Exists
  <2>6. CASE RequestStop(j)
    <3>1. remote[j] = "RUNNING" => mail[j] = <<>> /\ jobState[j] # "SUCCESS"  OBVIOUS
    <3>2. <<>> # <<"SUCCESS">>  OBVIOUS
    <3>3. txn[j].kind = "none"  BY <2>6 DEF RequestStop, Unlocked
    <3>4. stopReq'[j] => jobState'[j] # "SUCCESS" /\ mail'[j] # <<"SUCCESS">>
      BY <2>6, <3>1, <3>2 DEF RequestStop
    <3>5. QED  BY <2>6, <3>3, <3>4 DEF RequestStop, workerVars
  <2>7. CASE StopRead(j)    BY <2>7 DEF StopRead, rowVars, workerVars
  <2>8. CASE StopWrite(j)   BY <2>8 DEF StopWrite, rowVars, workerVars
  <2>9. CASE StopCrash(j)   BY <2>9 DEF StopCrash, rowVars, workerVars
  <2>10. QED
    BY <2>1, <2>2, <2>3, <2>4, <2>5, <2>6, <2>7, <2>8, <2>9 DEF UserStep
<1>5. QED  BY <1>2, <1>3, <1>4, InvByJob

\* While a transaction is open nothing has been mailed, and the job was queued.
LEMMA OpenRow ==
    ASSUME QueueTypeOK, NEW k \in Jobs, JobInv(k), txn[k].kind # "none"
    PROVE  mail[k] = <<>> /\ creator[k] = "done"
BY DEF JobInv, RowlessUntilQueued, QueueTypeOK, Txn

\* The first notification of a job
LEMMA FirstMail ==
    /\ Len(<<>>) = 0 /\ <<>> # <<"SUCCESS">>
    /\ \A f \in Final : /\ Append(<<>>, f) = <<f>> /\ <<f>> # <<>>
                       /\ Len(<<f>>) = 1 /\ Head(<<f>>) = f
                       /\ f # "SUCCESS" => <<f>> # <<"SUCCESS">>
OBVIOUS

\* A row ended together with its job: dropped, expired or revoked
LEMMA FailedRow ==
    ASSUME QueueTypeOK, NEW J \in SUBSET Jobs, NEW k \in J, JobInv(k), txn[k].kind # "none",
           FailSeen(J), remote'[k] = "DONE", broker'[k] = FALSE, txn'[k] = NoTxn,
           creator'[k] = creator[k], stopper'[k] = stopper[k],
           stopReq'[k] = stopReq[k] \/ stopReq'[k] = FALSE
    PROVE  JobInv(k)'
<1>1. mail[k] = <<>> /\ creator[k] = "done"  BY OpenRow
<1>2. CASE txn[k].seen = "PROGRESS"
  <2>1. jobState'[k] = "FAILED" /\ mail'[k] = <<"FAILED">>
    <3>1. jobState'[k] = "FAILED" /\ mail'[k] = Append(mail[k], "FAILED")
      BY <1>2 DEF FailSeen, QueueTypeOK
    <3>2. QED  BY <1>1, <3>1, FirstMail DEF Final
  <2>2. /\ Len(<<"FAILED">>) = 1 /\ Head(<<"FAILED">>) = "FAILED"
        /\ <<"FAILED">> # <<"SUCCESS">> /\ <<"FAILED">> # <<>>
    BY FirstMail DEF Final
  <2>3. QED
    BY <1>1, <2>1, <2>2 DEF JobInv, RowlessUntilQueued, ReadStaysTrue, ClaimHasWorker, SuccessEndsRow, NoTxn
<1>3. CASE txn[k].seen # "PROGRESS"
  <2>1. jobState'[k] = jobState[k] /\ mail'[k] = <<>> /\ jobState[k] # "PROGRESS"
    BY <1>1, <1>3 DEF FailSeen, QueueTypeOK, JobInv, ReadStaysTrue
  <2>2. Len(<<>>) = 0 /\ <<>> # <<"SUCCESS">>  BY FirstMail
  <2>3. QED
    BY <1>1, <2>1, <2>2 DEF JobInv, RowlessUntilQueued, ReadStaysTrue, ClaimHasWorker, SuccessEndsRow, NoTxn
<1>4. QED  BY <1>2, <1>3

LEMMA CommitInv ==
    ASSUME QueueInv, NEW j \in Jobs, CommitStep(j)
    PROVE  QueueInv'
<1>1. QueueTypeOK /\ JobInv(j) /\ \A k \in Jobs : JobInv(k)  BY InvByJob
<1>2. QueueTypeOK'  BY <1>1, CommitType DEF JobInv, ReadStaysTrue
<1>3. \A k \in Jobs \ {j} : JobInv(k)'
  <2> SUFFICES ASSUME NEW k \in Jobs \ {j} PROVE JobInv(k)'  OBVIOUS
  <2>1. /\ jobState'[k] = jobState[k] /\ creator'[k] = creator[k] /\ stopper'[k] = stopper[k]
        /\ remote'[k] = remote[k] /\ workerOf'[k] = workerOf[k] /\ stopReq'[k] = stopReq[k]
        /\ broker'[k] = broker[k] /\ txn'[k] = txn[k] /\ mail'[k] = mail[k]
    <3> USE <1>1 DEF QueueTypeOK, End, FailSeen
    <3>1. CASE ClaimCommit(j)  BY <3>1 DEF ClaimCommit, jobVars, workerVars
    <3>2. CASE ClaimDrop(j)    BY <3>2 DEF ClaimDrop
    <3>3. CASE FinishCommit(j) BY <3>3 DEF FinishCommit
    <3>4. CASE ExpireCommit(j) BY <3>4 DEF ExpireCommit
    <3>5. CASE Rollback(j)     BY <3>5 DEF Rollback, jobVars, rowVars, workerVars
    <3>6. QED  BY <3>1, <3>2, <3>3, <3>4, <3>5 DEF CommitStep
  <2>2. QED  BY <1>1, <2>1, Untouched
<1>4. JobInv(j)'
  <2>1. CASE ClaimCommit(j)
    BY <1>1, <2>1 DEF ClaimCommit, jobVars, workerVars, JobInv, RowlessUntilQueued,
       ReadStaysTrue, ClaimHasWorker, SuccessEndsRow, QueueTypeOK, NoTxn
  <2>2. CASE ClaimDrop(j)
    <3>1. /\ txn[j].kind # "none" /\ FailSeen({j})
          /\ remote'[j] = "DONE" /\ broker'[j] = FALSE /\ txn'[j] = NoTxn
          /\ creator'[j] = creator[j] /\ stopper'[j] = stopper[j] /\ stopReq'[j] = FALSE
      BY <1>1, <2>2 DEF ClaimDrop, End, QueueTypeOK
    <3>2. QED  BY <1>1, <3>1, FailedRow
  <2>3. CASE FinishCommit(j)
    <3>1. /\ mail[j] = <<>> /\ creator[j] = "done" /\ remote[j] = "RUNNING"
      BY <1>1, <2>3, OpenRow DEF FinishCommit, JobInv
    <3>2. /\ remote'[j] = "DONE" /\ broker'[j] = FALSE /\ txn'[j] = NoTxn
          /\ creator'[j] = creator[j] /\ stopper'[j] = stopper[j] /\ stopReq'[j] = stopReq[j]
          /\ jobState'[j] = txn[j].final
      BY <1>1, <2>3 DEF FinishCommit, End, QueueTypeOK
    <3>3. /\ txn[j].final \in Final \cup {"GONE"}
          /\ stopReq[j] => txn[j].final # "SUCCESS"
      BY <1>1, <2>3 DEF FinishCommit, JobInv, ReadStaysTrue
    <3>4. CASE txn[j].final \in {"GONE", "STOPPED"}
      <4>1. mail'[j] = <<>>  BY <1>1, <2>3, <3>1, <3>4 DEF FinishCommit, QueueTypeOK
      <4>2. QED
        BY <3>1, <3>2, <3>4, <4>1, FirstMail DEF JobInv, RowlessUntilQueued, ReadStaysTrue,
           ClaimHasWorker, SuccessEndsRow, NoTxn
    <3>5. CASE txn[j].final \notin {"GONE", "STOPPED"}
      <4>1. mail'[j] = <<txn[j].final>>
        <5>1. mail'[j] = Append(mail[j], txn[j].final)
          BY <1>1, <2>3, <3>5 DEF FinishCommit, QueueTypeOK
        <5>2. QED  BY <3>1, <3>3, <3>5, <5>1, FirstMail
      <4>2. QED
        BY <3>1, <3>2, <3>3, <3>5, <4>1, FirstMail DEF JobInv, RowlessUntilQueued,
           ReadStaysTrue, ClaimHasWorker, SuccessEndsRow, NoTxn, Final
    <3>6. QED  BY <3>4, <3>5
  <2>4. CASE ExpireCommit(j)
    <3>1. /\ txn[j].kind # "none" /\ FailSeen({j})
          /\ remote'[j] = "DONE" /\ broker'[j] = FALSE /\ txn'[j] = NoTxn
          /\ creator'[j] = creator[j] /\ stopper'[j] = stopper[j] /\ stopReq'[j] = stopReq[j]
      BY <1>1, <2>4 DEF ExpireCommit, End, QueueTypeOK
    <3>2. QED  BY <1>1, <3>1, FailedRow
  <2>5. CASE Rollback(j)
    BY <1>1, <2>5 DEF Rollback, jobVars, rowVars, workerVars, JobInv, RowlessUntilQueued,
       ReadStaysTrue, ClaimHasWorker, SuccessEndsRow, QueueTypeOK, NoTxn
  <2>6. QED  BY <2>1, <2>2, <2>3, <2>4, <2>5 DEF CommitStep
<1>5. QED  BY <1>2, <1>3, <1>4, InvByJob

\* The steps of workers and sweeps write nothing that JobInv speaks of, except that they
\* open transactions on running rows (on a queued one, to claim it).
LEMMA OpenTxn ==
    ASSUME NEW k \in Jobs, JobInv(k), txn[k].kind = "none",
           jobState'[k] = jobState[k], creator'[k] = creator[k], stopper'[k] = stopper[k],
           remote'[k] = remote[k], workerOf'[k] = workerOf[k], stopReq'[k] = stopReq[k],
           broker'[k] = broker[k], mail'[k] = mail[k],
           txn'[k].kind \in {"claim", "finish", "expire", "revoke"},
           remote[k] = IF txn'[k].kind = "claim" THEN "QUEUED" ELSE "RUNNING",
           txn'[k].seen \in {jobState[k], "PROGRESS"},
           txn'[k].kind = "claim" => txn'[k].by \in Workers,
           txn'[k].kind = "finish" =>
               /\ txn'[k].final \in Final \cup {"GONE"}
               /\ stopReq[k] => txn'[k].final # "SUCCESS"
    PROVE  JobInv(k)'
BY DEF JobInv, RowlessUntilQueued, ReadStaysTrue, ClaimHasWorker, SuccessEndsRow

\* finish decides on an outcome, and never on a success after Stop.
LEMMA VerdictDecides ==
    ASSUME NEW j \in Jobs, NEW state \in Final
    PROVE  /\ Verdict(j, state) \in Final \cup {"GONE"}
           /\ stopReq[j] => Verdict(j, state) # "SUCCESS"
BY DEF Verdict, Final

LEMMA WorkerInv ==
    ASSUME QueueInv, NEW w \in Workers, WorkerStep(w)
    PROVE  QueueInv'
<1>1. QueueTypeOK /\ \A k \in Jobs : JobInv(k)  BY InvByJob
<1>2. QueueTypeOK'  BY <1>1, WorkerType
<1> SUFFICES ASSUME NEW k \in Jobs PROVE JobInv(k)'  BY <1>2, InvByJob
<1>3. JobInv(k)  BY <1>1
<1>4. CASE Poll(w) \/ PollEnd(w)
  BY <1>3, <1>4, Untouched DEF Poll, PollEnd, jobVars, rowVars
<1>5. ASSUME NEW j \in Jobs, Progress(w, j)  PROVE JobInv(k)'
  BY <1>3, <1>5, Untouched DEF Progress, jobVars, workerVars
<1>6. ASSUME NEW j \in Jobs, TryClaim(w, j)  PROVE JobInv(k)'
  <2>1. CASE k = j
    <3>1. /\ txn[k].kind = "none" /\ remote[k] = "QUEUED"
          /\ txn'[k].kind = "claim" /\ txn'[k].seen = jobState[k]
      BY <1>1, <1>6, <2>1 DEF TryClaim, Claimable, Unlocked, QueueTypeOK
    <3>2. QED  BY <1>3, <1>6, <3>1, OpenTxn DEF TryClaim, jobVars, rowVars, workerVars
  <2>2. CASE k # j
    BY <1>1, <1>3, <1>6, <2>2, Untouched DEF TryClaim, jobVars, rowVars, workerVars, QueueTypeOK
  <2>3. QED  BY <2>1, <2>2
<1>7. ASSUME NEW j \in Jobs, LateCall(w, j)  PROVE JobInv(k)'
  <2>1. CASE k = j
    <3>1. /\ txn[k].kind = "none" /\ remote[k] = "RUNNING"
          /\ txn'[k].kind = "expire" /\ txn'[k].seen = jobState[k]
      BY <1>1, <1>7, <2>1 DEF LateCall, ValidTicket, Unlocked, QueueTypeOK
    <3>2. QED  BY <1>3, <1>7, <3>1, OpenTxn DEF LateCall, jobVars, rowVars, workerVars
  <2>2. CASE k # j
    BY <1>1, <1>3, <1>7, <2>2, Untouched DEF LateCall, jobVars, rowVars, workerVars, QueueTypeOK
  <2>3. QED  BY <2>1, <2>2
<1>8. ASSUME NEW j \in Jobs, NEW state \in Final, Finish(w, j, state)  PROVE JobInv(k)'
  <2>1. CASE k = j
    <3>1. /\ txn[k].kind = "none" /\ remote[k] = "RUNNING"
          /\ txn'[k].kind = "finish" /\ txn'[k].seen = jobState[k]
          /\ txn'[k].final = Verdict(k, state)
      BY <1>1, <1>8, <2>1 DEF Finish, ValidTicket, Unlocked, QueueTypeOK
    <3>2. QED
      BY <1>3, <1>8, <3>1, OpenTxn, VerdictDecides DEF Finish, jobVars, rowVars, workerVars
  <2>2. CASE k # j
    BY <1>1, <1>3, <1>8, <2>2, Untouched DEF Finish, jobVars, rowVars, workerVars, QueueTypeOK
  <2>3. QED  BY <2>1, <2>2
<1>9. QED  BY <1>4, <1>5, <1>6, <1>7, <1>8 DEF WorkerStep

\* A sweep with an old view of the job may only believe that it is still in PROGRESS.
LEMMA SweepInv ==
    ASSUME QueueInv, NEW j \in Jobs, ExpireLeases(j)
    PROVE  QueueInv'
<1>1. QueueTypeOK /\ \A k \in Jobs : JobInv(k)  BY InvByJob
<1>2. QueueTypeOK'  BY <1>1, SweepType
<1> SUFFICES ASSUME NEW k \in Jobs PROVE JobInv(k)'  BY <1>2, InvByJob
<1>3. JobInv(k)  BY <1>1
<1>4. CASE k = j
  <2>1. /\ txn[k].kind = "none" /\ remote[k] = "RUNNING"
        /\ txn'[k].kind = "expire" /\ txn'[k].seen \in {jobState[k], "PROGRESS"}
    <3>1. PICK seen \in {jobState[j], "PROGRESS"} :
            txn' = [txn EXCEPT ![j] = [kind |-> "expire", by |-> NoWorker,
                                       seen |-> seen, final |-> "NONE"]]
      BY DEF ExpireLeases
    <3>2. QED  BY <1>1, <1>4, <3>1 DEF ExpireLeases, Unlocked, QueueTypeOK
  <2>2. QED  BY <1>3, <2>1, OpenTxn DEF ExpireLeases, jobVars, rowVars, workerVars
<1>5. CASE k # j
  BY <1>1, <1>3, <1>5, Untouched DEF ExpireLeases, jobVars, rowVars, workerVars, QueueTypeOK
<1>6. QED  BY <1>4, <1>5

LEMMA AdminInv ==
    ASSUME QueueInv, NEW w \in Workers, AdminStep(w)
    PROVE  QueueInv'
<1>1. QueueTypeOK /\ \A k \in Jobs : JobInv(k)  BY InvByJob
<1>2. QueueTypeOK'  BY <1>1, AdminType
<1> SUFFICES ASSUME NEW k \in Jobs PROVE JobInv(k)'  BY <1>2, InvByJob
<1>3. JobInv(k)  BY <1>1
<1>4. CASE RevokeWorker(w)
  <2>1. CASE k \in RunningOn(w)
    <3>1. /\ txn[k].kind = "none" /\ remote[k] = "RUNNING"
          /\ txn'[k].kind = "revoke" /\ txn'[k].seen = jobState[k]
      BY <1>4, <2>1 DEF RevokeWorker, RunningOn, Unlocked
    <3>2. QED  BY <1>3, <1>4, <3>1, OpenTxn DEF RevokeWorker, jobVars, rowVars
  <2>2. CASE k \notin RunningOn(w)
    BY <1>3, <1>4, <2>2, Untouched DEF RevokeWorker, jobVars, rowVars
  <2>3. QED  BY <2>1, <2>2
<1>5. CASE RevokeCommit(w)
  <2>1. FailSeen(RevokedRows(w)) /\ RevokedRows(w) \in SUBSET Jobs
    BY <1>5 DEF RevokeCommit, RevokedRows
  <2>2. CASE k \in RevokedRows(w)
    <3>1. /\ txn[k].kind # "none"
          /\ remote'[k] = "DONE" /\ broker'[k] = FALSE /\ txn'[k] = NoTxn
          /\ creator'[k] = creator[k] /\ stopper'[k] = stopper[k] /\ stopReq'[k] = stopReq[k]
      BY <1>5, <2>2 DEF RevokeCommit, RevokedRows
    <3>2. QED  BY <1>1, <1>3, <2>1, <2>2, <3>1, FailedRow
  <2>3. CASE k \notin RevokedRows(w)
    <3>1. /\ jobState'[k] = jobState[k] /\ mail'[k] = mail[k]
      BY <2>1, <2>3 DEF FailSeen
    <3>2. /\ creator'[k] = creator[k] /\ stopper'[k] = stopper[k] /\ remote'[k] = remote[k]
          /\ workerOf'[k] = workerOf[k] /\ stopReq'[k] = stopReq[k]
          /\ broker'[k] = broker[k] /\ txn'[k] = txn[k]
      BY <1>1, <1>5, <2>3 DEF RevokeCommit, QueueTypeOK
    <3>3. QED  BY <1>3, <3>1, <3>2, Untouched
  <2>4. QED  BY <2>2, <2>3
<1>6. CASE RevokeRollback(w)
  BY <1>3, <1>6 DEF RevokeRollback, jobVars, rowVars, JobInv, RowlessUntilQueued,
     ReadStaysTrue, ClaimHasWorker, SuccessEndsRow, NoTxn
<1>7. QED  BY <1>4, <1>5, <1>6 DEF AdminStep

LEMMA TickInv ==
    ASSUME QueueInv, Tick
    PROVE  QueueInv'
<1>1. QueueTypeOK /\ \A k \in Jobs : JobInv(k)  BY InvByJob
<1>2. QueueTypeOK'  BY <1>1, TickType
<1>3. \A k \in Jobs : JobInv(k)'
  BY <1>1, Untouched DEF Tick, jobVars, workerVars
<1>4. QED  BY <1>2, <1>3, InvByJob

LEMMA NextInv == QueueInv /\ [QueueNext]_queueVars => QueueInv'
<1> SUFFICES ASSUME QueueInv, [QueueNext]_queueVars PROVE QueueInv'  OBVIOUS
<1>1. ASSUME NEW j \in Jobs, UserStep(j)      PROVE QueueInv'  BY <1>1, UserInv
<1>2. ASSUME NEW j \in Jobs, CommitStep(j)    PROVE QueueInv'  BY <1>2, CommitInv
<1>3. ASSUME NEW j \in Jobs, ExpireLeases(j)  PROVE QueueInv'  BY <1>3, SweepInv
<1>4. ASSUME NEW w \in Workers, WorkerStep(w) PROVE QueueInv'  BY <1>4, WorkerInv
<1>5. ASSUME NEW w \in Workers, AdminStep(w)  PROVE QueueInv'  BY <1>5, AdminInv
<1>6. CASE Tick                               BY <1>6, TickInv
<1>7. CASE UNCHANGED queueVars
  <2>1. QueueTypeOK /\ \A k \in Jobs : JobInv(k)  BY InvByJob
  <2>2. QueueTypeOK'  BY <1>7, <2>1 DEF queueVars, QueueTypeOK
  <2>3. \A k \in Jobs : JobInv(k)'  BY <1>7, <2>1, Untouched DEF queueVars
  <2>4. QED  BY <2>2, <2>3, InvByJob
<1>8. QED  BY <1>1, <1>2, <1>3, <1>4, <1>5, <1>6, <1>7 DEF QueueNext

-----------------------------------------------------------------------------
(* The theorems of the queue                                                *)

THEOREM QueueInvariant == QueueSpec => []QueueInv
<1>1. QueueInit => QueueInv  BY InitInv
<1>2. QueueInv /\ [QueueNext]_queueVars => QueueInv'  BY NextInv
<1>3. QED  BY <1>1, <1>2, PTL DEF QueueSpec

\* Every variable keeps its type: a claim always has a worker, a lease never runs below
\* zero, nothing but a final state is ever mailed.
THEOREM QueueTypeCorrect == QueueSpec => []QueueTypeOK
<1>1. QueueInv => QueueTypeOK  BY DEF QueueInv
<1>2. QED  BY <1>1, QueueInvariant, PTL

\* The columns of a row agree with one another and with the transaction that locks it.
THEOREM RowsAlwaysAgree == QueueSpec => []RowsAgree
<1>1. QueueInv => RowsAgree  BY DEF QueueInv
<1>2. QED  BY <1>1, QueueInvariant, PTL

\* The end of a job is mailed at most once, whoever ends it.
THEOREM AtMostOneNotification == QueueSpec => []OneNotification
<1>1. QueueInv => OneNotification  BY DEF QueueInv
<1>2. QED  BY <1>1, QueueInvariant, PTL

\* No job stays in PROGRESS after its row ended, but for a stop request under way.
THEOREM NoJobStranded == QueueSpec => []NoStrandedJob
<1>1. QueueInv => NoStrandedJob  BY DEF QueueInv
<1>2. QED  BY <1>1, QueueInvariant, PTL

\* A running job that was asked to stop never becomes a success.
THEOREM StopAlwaysHonoured == QueueSpec => []StopIsHonoured
<1>1. QueueInv => StopIsHonoured  BY DEF QueueInv
<1>2. QED  BY <1>1, QueueInvariant, PTL

\* Nobody but a stop request or a deletion changes an outcome that was mailed.
THEOREM MailAlwaysMatches == QueueSpec => []MailMatchesState
<1>1. QueueInv => MailMatchesState  BY DEF QueueInv
<1>2. QED  BY <1>1, QueueInvariant, PTL

-----------------------------------------------------------------------------
(* The inductive invariant of the composition: what agents, rclone          *)
(* processes, calls and rows know of each other.                            *)

\* An agent has a job while it runs or finishes it.
BusyWithJob(w) == agent[w].phase \in {"running", "finishing"} <=> agent[w].job # NoJob

\* A result is known when it is sent, and a success was looked up.
ResultKnown(w) ==
    agent[w].phase = "finishing" =>
        /\ agent[w].result \in Final
        /\ agent[w].result = "SUCCESS" => rclone[w][agent[w].job] = "ok"

CallTrue(c) ==
    c.type = "finish" =>
        /\ c.state \in Final
        /\ c.state = "SUCCESS" => rclone[c.w][c.j] = "ok"

\* An agent deals only with rows that its worker has claimed.
Involved(w, j)   == agent[w].job = j \/ Started(w, j)
HoldsTicket(w, j) ==
    Involved(w, j) => workerOf[j] = w /\ remote[j] \in {"RUNNING", "DONE"}

\* Nobody decides on a success, or has decided on it, before rclone ended well.
EndedWell(j) == \E w \in Workers : rclone[w][j] = "ok"
Succeeds(j) ==
    \/ jobState[j] = "SUCCESS"
    \/ mail[j] = <<"SUCCESS">>
    \/ txn[j].kind = "finish" /\ txn[j].final = "SUCCESS"
SuccessTrue(j) == Succeeds(j) => EndedWell(j)

AgentsInv ==
    /\ Agent!AgentTypeOK
    /\ calls \in SUBSET Calls
    /\ \A w \in Workers : BusyWithJob(w) /\ ResultKnown(w)
    /\ \A c \in calls : CallTrue(c)

JobsInv ==
    /\ QueueInv
    /\ AgentsInv
    /\ \A w \in Workers, j \in Jobs : HoldsTicket(w, j)
    /\ \A j \in Jobs : SuccessTrue(j)

-----------------------------------------------------------------------------
(* The agents alone                                                         *)

AgentWorks(w) ==
    \/ Agent!Claim(w) \/ Agent!ClaimEmpty(w) \/ Agent!ClaimRefused(w)
    \/ Agent!StartRclone(w) \/ Agent!ShutdownTick(w) \/ Agent!Report(w) \/ Agent!JobRunEnd(w)
    \/ Agent!SendFinish(w) \/ Agent!RequestShutdown(w) \/ Agent!Crash(w) \/ Agent!Restart(w)
    \/ \E j \in Jobs : Agent!RcloneSpawn(w, j) \/ Agent!RcloneExit(w, j)
    \/ \E answer \in {"stop", "continue", "refused", "lost"} :
          Agent!ReportAnswered(w, answer) \/ Agent!FinishAnswered(w, answer)

AgentMoves(w) == AgentWorks(w) \/ \E j \in Jobs : Agent!ClaimAnswered(w, j)

LEMMA AgentRecords ==
    /\ Agent!Idle \in Agent!Agents /\ Agent!Off \in Agent!Agents
    /\ \A a \in Agent!Agents :
        /\ a.phase \in {"idle", "claiming", "running", "finishing", "off"}
        /\ a.job \in Jobs \cup {NoJob}
        /\ a.quit \in {"no", "asked", "stopping"}
        /\ a.stop \in BOOLEAN /\ a.abandoned \in BOOLEAN /\ a.waiting \in BOOLEAN
        /\ [a EXCEPT !.phase = "claiming"] \in Agent!Agents
        /\ [a EXCEPT !.quit = "stopping"] \in Agent!Agents
        /\ [a EXCEPT !.quit = "asked"] \in Agent!Agents
        /\ \A b \in BOOLEAN : [a EXCEPT !.waiting = b] \in Agent!Agents
        /\ \A j \in Jobs : [a EXCEPT !.phase = "running", !.job = j] \in Agent!Agents
        /\ \A r \in Final : [a EXCEPT !.phase = "finishing", !.result = r] \in Agent!Agents
        /\ \A b, c \in BOOLEAN : [a EXCEPT !.waiting = FALSE, !.stop = b, !.abandoned = c] \in Agent!Agents
<1>1. Agent!Idle \in Agent!Agents /\ Agent!Off \in Agent!Agents
  BY DEF Agent!Agents, Agent!Idle, Agent!Off
<1>2. ASSUME NEW a \in Agent!Agents
      PROVE  /\ a.phase \in {"idle", "claiming", "running", "finishing", "off"}
             /\ a.job \in Jobs \cup {NoJob}
             /\ a.quit \in {"no", "asked", "stopping"}
             /\ a.stop \in BOOLEAN /\ a.abandoned \in BOOLEAN /\ a.waiting \in BOOLEAN
             /\ [a EXCEPT !.phase = "claiming"] \in Agent!Agents
             /\ [a EXCEPT !.quit = "stopping"] \in Agent!Agents
             /\ [a EXCEPT !.quit = "asked"] \in Agent!Agents
  BY DEF Agent!Agents
<1>3. ASSUME NEW a \in Agent!Agents, NEW b \in BOOLEAN
      PROVE  [a EXCEPT !.waiting = b] \in Agent!Agents
  BY DEF Agent!Agents
<1>4. ASSUME NEW a \in Agent!Agents, NEW j \in Jobs
      PROVE  [a EXCEPT !.phase = "running", !.job = j] \in Agent!Agents
  BY DEF Agent!Agents
<1>5. ASSUME NEW a \in Agent!Agents, NEW r \in Final
      PROVE  [a EXCEPT !.phase = "finishing", !.result = r] \in Agent!Agents
  BY DEF Agent!Agents, Final
<1>6. ASSUME NEW a \in Agent!Agents, NEW b \in BOOLEAN, NEW c \in BOOLEAN
      PROVE  [a EXCEPT !.waiting = FALSE, !.stop = b, !.abandoned = c] \in Agent!Agents
  BY DEF Agent!Agents
<1>7. QED  BY <1>1, <1>2, <1>3, <1>4, <1>5, <1>6

\* A run reports a success only if rclone ended well.
LEMMA KnownResults ==
    \A w \in Workers : \A r \in Agent!Results(w) :
        r \in Final /\ (r = "SUCCESS" => rclone[w][agent[w].job] = "ok")
BY DEF Agent!Results, Final

\* A step of an agent changes nothing of another one.
LEMMA AgentLocal ==
    ASSUME Agent!AgentTypeOK, NEW w \in Workers, AgentMoves(w)
    PROVE  /\ agent'[w] \in Agent!Agents /\ agent' = [agent EXCEPT ![w] = agent'[w]]
           /\ rclone'[w] \in [Jobs -> Agent!RcloneStates] /\ rclone' = [rclone EXCEPT ![w] = rclone'[w]]
<1>1. /\ agent \in [Workers -> Agent!Agents]
      /\ rclone \in [Workers -> [Jobs -> Agent!RcloneStates]]
      /\ agent[w] \in Agent!Agents /\ rclone[w] \in [Jobs -> Agent!RcloneStates]
  BY DEF Agent!AgentTypeOK
<1>2. /\ agent = [agent EXCEPT ![w] = agent[w]]
      /\ rclone = [rclone EXCEPT ![w] = rclone[w]]
  BY <1>1
<1>3. /\ agent'[w] \in Agent!Agents /\ agent' = [agent EXCEPT ![w] = agent'[w]]
  <2> SUFFICES \E a \in Agent!Agents : agent' = [agent EXCEPT ![w] = a]
    <3>1. ASSUME NEW a \in Agent!Agents, agent' = [agent EXCEPT ![w] = a]
          PROVE  agent'[w] = a
      BY <1>1, <3>1
    <3>2. QED  BY <3>1
  <2>1. CASE Agent!Claim(w)           BY <2>1, <1>1, AgentRecords DEF Agent!Claim
  <2>2. CASE Agent!ClaimEmpty(w)      BY <2>2, <1>1, AgentRecords DEF Agent!ClaimEmpty
  <2>3. CASE Agent!ClaimRefused(w)    BY <2>3, <1>1, AgentRecords DEF Agent!ClaimRefused
  <2>4. CASE Agent!StartRclone(w)     BY <2>4, <1>1, <1>2 DEF Agent!StartRclone
  <2>5. CASE Agent!ShutdownTick(w)    BY <2>5, <1>1, AgentRecords DEF Agent!ShutdownTick
  <2>6. CASE Agent!Report(w)          BY <2>6, <1>1, AgentRecords DEF Agent!Report
  <2>7. CASE Agent!JobRunEnd(w)
    <3>1. CASE agent' = Agent!AfterRun(w)
      BY <3>1, <1>1, AgentRecords DEF Agent!AfterRun
    <3>2. CASE agent' # Agent!AfterRun(w)
      <4>1. PICK r \in Agent!Results(w) :
              agent' = [agent EXCEPT ![w].phase = "finishing", ![w].result = r]
        BY <2>7, <3>2 DEF Agent!JobRunEnd
      <4>2. r \in Final  BY <4>1, KnownResults
      <4>3. QED  BY <4>1, <4>2, <1>1, AgentRecords
    <3>3. QED  BY <3>1, <3>2
  <2>8. CASE Agent!SendFinish(w)      BY <2>8, <1>1, AgentRecords DEF Agent!SendFinish
  <2>9. CASE Agent!RequestShutdown(w) BY <2>9, <1>1, AgentRecords DEF Agent!RequestShutdown
  <2>10. CASE Agent!Crash(w)          BY <2>10, <1>1, AgentRecords DEF Agent!Crash
  <2>11. CASE Agent!Restart(w)        BY <2>11, <1>1, AgentRecords DEF Agent!Restart
  <2>12. ASSUME NEW j \in Jobs, Agent!ClaimAnswered(w, j)
         PROVE  \E a \in Agent!Agents : agent' = [agent EXCEPT ![w] = a]
    BY <2>12, <1>1, AgentRecords DEF Agent!ClaimAnswered
  <2>13. ASSUME NEW j \in Jobs, Agent!RcloneSpawn(w, j) \/ Agent!RcloneExit(w, j)
         PROVE  \E a \in Agent!Agents : agent' = [agent EXCEPT ![w] = a]
    BY <2>13, <1>1, <1>2 DEF Agent!RcloneSpawn, Agent!RcloneExit
  <2>14. ASSUME NEW answer, Agent!ReportAnswered(w, answer)
         PROVE  \E a \in Agent!Agents : agent' = [agent EXCEPT ![w] = a]
    <3>1. PICK b, c \in BOOLEAN : b = (agent[w].stop \/ answer = "stop")
                               /\ c = (agent[w].abandoned \/ answer = "refused")
      BY <1>1, AgentRecords
    <3>2. QED  BY <2>14, <3>1, <1>1, AgentRecords DEF Agent!ReportAnswered
  <2>15. ASSUME NEW answer, Agent!FinishAnswered(w, answer)
         PROVE  \E a \in Agent!Agents : agent' = [agent EXCEPT ![w] = a]
    BY <2>15, <1>1, AgentRecords DEF Agent!FinishAnswered, Agent!AfterRun
  <2>16. QED
    BY <2>1, <2>2, <2>3, <2>4, <2>5, <2>6, <2>7, <2>8, <2>9, <2>10, <2>11, <2>12, <2>13, <2>14, <2>15
       DEF AgentMoves, AgentWorks
<1>4. /\ rclone'[w] \in [Jobs -> Agent!RcloneStates]
      /\ rclone' = [rclone EXCEPT ![w] = rclone'[w]]
  <2> SUFFICES \E r \in [Jobs -> Agent!RcloneStates] : rclone' = [rclone EXCEPT ![w] = r]
    <3>1. ASSUME NEW r \in [Jobs -> Agent!RcloneStates], rclone' = [rclone EXCEPT ![w] = r]
          PROVE  rclone'[w] = r
      BY <1>1, <3>1
    <3>2. QED  BY <3>1
  <2>1. CASE UNCHANGED rclone  BY <2>1, <1>1, <1>2
  <2>2. ASSUME NEW j, NEW s \in Agent!RcloneStates, rclone' = [rclone EXCEPT ![w][j] = s]
        PROVE  \E r \in [Jobs -> Agent!RcloneStates] : rclone' = [rclone EXCEPT ![w] = r]
    <3>1. [rclone[w] EXCEPT ![j] = s] \in [Jobs -> Agent!RcloneStates]  BY <1>1
    <3>2. QED  BY <3>1, <2>2, <1>1
  <2>3. CASE Agent!StartRclone(w)
    BY <2>3, <2>2 DEF Agent!StartRclone, Agent!RcloneStates
  <2>4. ASSUME NEW j \in Jobs, Agent!RcloneSpawn(w, j) \/ Agent!RcloneExit(w, j)
        PROVE  \E r \in [Jobs -> Agent!RcloneStates] : rclone' = [rclone EXCEPT ![w] = r]
    BY <2>4, <2>2 DEF Agent!RcloneSpawn, Agent!RcloneExit, Agent!RcloneStates
  <2>5. ASSUME NEW j, rclone' = Agent!Terminated(w, j)
        PROVE  \E r \in [Jobs -> Agent!RcloneStates] : rclone' = [rclone EXCEPT ![w] = r]
    <3>1. [rclone[w] EXCEPT ![j] = IF @ = "running" THEN "killed" ELSE @]
            \in [Jobs -> Agent!RcloneStates]
      BY <1>1 DEF Agent!RcloneStates
    <3>2. QED  BY <3>1, <2>5, <1>1 DEF Agent!Terminated
  <2>6. CASE Agent!Crash(w)
    <3>1. PICK left \in {"running", "killed"} :
            rclone' = [rclone EXCEPT ![w] =
                         [j \in Jobs |-> IF @[j] \in {"starting", "running"} THEN left ELSE @[j]]]
      BY <2>6 DEF Agent!Crash
    <3>2. [j \in Jobs |-> IF rclone[w][j] \in {"starting", "running"} THEN left ELSE rclone[w][j]]
            \in [Jobs -> Agent!RcloneStates]
      BY <1>1 DEF Agent!RcloneStates
    <3>3. QED  BY <3>1, <3>2, <1>1
  <2>7. QED
    BY <2>1, <2>3, <2>4, <2>5, <2>6
       DEF AgentMoves, AgentWorks, Agent!Claim, Agent!ClaimEmpty, Agent!ClaimRefused, Agent!ShutdownTick,
           Agent!Report, Agent!JobRunEnd, Agent!SendFinish, Agent!RequestShutdown, Agent!Restart,
           Agent!ClaimAnswered, Agent!ReportAnswered, Agent!FinishAnswered
<1>5. QED  BY <1>3, <1>4

\* What an agent knows stays true while it works, and it takes no new job by itself.
LEMMA AgentKeeps ==
    ASSUME AgentsInv, NEW w \in Workers, AgentWorks(w)
    PROVE  /\ \A j \in Jobs : rclone[w][j] = "ok" => rclone'[w][j] = "ok"
           /\ \A j \in Jobs : Involved(w, j)' => Involved(w, j)
           /\ BusyWithJob(w)'
           /\ ResultKnown(w)'
<1>1. /\ agent \in [Workers -> Agent!Agents]
      /\ rclone \in [Workers -> [Jobs -> Agent!RcloneStates]]
      /\ BusyWithJob(w) /\ ResultKnown(w)
      /\ agent[w] \in Agent!Agents /\ rclone[w] \in [Jobs -> Agent!RcloneStates]
  BY DEF AgentsInv, Agent!AgentTypeOK
<1>2. agent[w].job \in Jobs \cup {NoJob}  BY <1>1, AgentRecords
<1> USE NullAssumption
<1> DEFINE Keeps == /\ \A j \in Jobs : rclone[w][j] = "ok" => rclone'[w][j] = "ok"
                    /\ \A j \in Jobs : Involved(w, j)' => Involved(w, j)
                    /\ BusyWithJob(w)'
                    /\ ResultKnown(w)'
<1>3. ASSUME UNCHANGED rclone, agent'[w].phase # "finishing",
             \/ agent'[w].job = NoJob /\ agent'[w].phase \notin {"running", "finishing"}
             \/ agent'[w].job = agent[w].job /\
                (agent'[w].phase \in {"running", "finishing"} <=> agent[w].phase \in {"running", "finishing"})
      PROVE  Keeps
  BY <1>1, <1>2, <1>3 DEF Involved, Started, BusyWithJob, ResultKnown
<1>4. ASSUME UNCHANGED rclone, agent'[w] = Agent!Idle \/ agent'[w] = Agent!Off
      PROVE  Keeps
  BY <1>3, <1>4 DEF Agent!Idle, Agent!Off
<1>5. CASE Agent!Claim(w)
  <2>1. agent'[w] = [agent[w] EXCEPT !.phase = "claiming"]  BY <1>1, <1>5 DEF Agent!Claim
  <2>2. agent'[w].phase = "claiming" /\ agent'[w].job = agent[w].job
    BY <1>1, <2>1 DEF Agent!Agents
  <2>3. QED  BY <1>5, <2>2, <1>3 DEF Agent!Claim
<1>6. CASE Agent!ClaimEmpty(w)    BY <1>1, <1>4, <1>6 DEF Agent!ClaimEmpty
<1>7. CASE Agent!ClaimRefused(w)  BY <1>1, <1>4, <1>7 DEF Agent!ClaimRefused
\* A step that goes on with the job and touches its rclone only when that has not ended well
<1>8. ASSUME agent'[w].job = agent[w].job, agent'[w].phase = agent[w].phase,
             agent'[w].result = agent[w].result,
             NEW j \in Jobs, NEW s \in Agent!RcloneStates, Involved(w, j), rclone[w][j] # "ok",
             rclone'[w] = [rclone[w] EXCEPT ![j] = s]
      PROVE  Keeps
  <2>1. \A k \in Jobs : rclone'[w][k] = IF k = j THEN s ELSE rclone[w][k]  BY <1>1, <1>8
  <2>2. agent[w].phase = "finishing" => agent[w].job \in Jobs  BY <1>1, <1>2 DEF BusyWithJob
  <2>3. QED
    BY <1>1, <1>8, <2>1, <2>2 DEF Involved, Started, BusyWithJob, ResultKnown
<1>9. ASSUME UNCHANGED rclone, agent'[w].job = agent[w].job, agent'[w].phase = agent[w].phase,
             agent'[w].result = agent[w].result
      PROVE  Keeps
  BY <1>1, <1>9 DEF Involved, Started, BusyWithJob, ResultKnown
<1>10. ASSUME NEW b \in BOOLEAN, agent' = [agent EXCEPT ![w].waiting = b], UNCHANGED rclone
       PROVE  Keeps
  <2>1. agent'[w] = [agent[w] EXCEPT !.waiting = b]  BY <1>1, <1>10
  <2>2. QED  BY <1>1, <1>9, <1>10, <2>1 DEF Agent!Agents
<1>11. agent[w].phase = "running" => agent[w].job \in Jobs  BY <1>1, <1>2 DEF BusyWithJob
<1>12. CASE Agent!StartRclone(w)
  <2>1. PICK r \in {"starting", "error"} : rclone' = [rclone EXCEPT ![w][agent[w].job] = r]
    BY <1>12 DEF Agent!StartRclone
  <2>2. PICK j \in Jobs : j = agent[w].job  BY <1>11, <1>12 DEF Agent!StartRclone
  <2>3. rclone'[w] = [rclone[w] EXCEPT ![j] = r]  BY <1>1, <2>1, <2>2
  <2>4. Involved(w, j) /\ rclone[w][j] # "ok"  BY <1>12, <2>2 DEF Involved, Agent!StartRclone
  <2>5. agent' = agent /\ r \in Agent!RcloneStates
    BY <1>12 DEF Agent!StartRclone, Agent!RcloneStates
  <2>6. QED  BY <1>8, <2>3, <2>4, <2>5
<1>13. ASSUME NEW j \in Jobs, Agent!RcloneSpawn(w, j) \/ Agent!RcloneExit(w, j)
       PROVE  Keeps
  <2>1. PICK r \in {"running", "ok", "error"} : rclone' = [rclone EXCEPT ![w][j] = r]
    BY <1>13 DEF Agent!RcloneSpawn, Agent!RcloneExit
  <2>2. rclone'[w] = [rclone[w] EXCEPT ![j] = r]  BY <1>1, <2>1
  <2>3. Involved(w, j) /\ rclone[w][j] # "ok"
    BY <1>13 DEF Involved, Started, Agent!RcloneSpawn, Agent!RcloneExit
  <2>4. agent' = agent /\ r \in Agent!RcloneStates
    BY <1>13 DEF Agent!RcloneSpawn, Agent!RcloneExit, Agent!RcloneStates
  <2>5. QED  BY <1>8, <2>2, <2>3, <2>4
\* Killing the registered rclone of its job
<1>14. ASSUME agent'[w].job = agent[w].job, agent'[w].phase = agent[w].phase,
              agent'[w].result = agent[w].result, agent[w].phase = "running",
              rclone' = Agent!Terminated(w, agent[w].job)
       PROVE  Keeps
  <2>1. PICK j \in Jobs : j = agent[w].job  BY <1>11, <1>14
  <2>2. CASE rclone[w][j] = "running"
    <3>1. rclone'[w] = [rclone[w] EXCEPT ![j] = "killed"]
      BY <1>1, <1>14, <2>1, <2>2 DEF Agent!Terminated
    <3>2. QED  BY <1>8, <1>14, <2>1, <2>2, <3>1 DEF Involved, Agent!RcloneStates
  <2>3. CASE rclone[w][j] # "running"
    <3>1. rclone'[w] = rclone[w]
      BY <1>1, <1>14, <2>1, <2>3 DEF Agent!Terminated
    <3>2. QED  BY <1>1, <1>14, <3>1 DEF Involved, Started, BusyWithJob, ResultKnown
  <2>4. QED  BY <2>2, <2>3
<1>15. CASE Agent!ShutdownTick(w)
  <2>1. agent'[w] = [agent[w] EXCEPT !.quit = "stopping"]  BY <1>1, <1>15 DEF Agent!ShutdownTick
  <2>2. agent'[w].job = agent[w].job /\ agent'[w].phase = agent[w].phase /\ agent'[w].result = agent[w].result
    BY <1>1, <2>1 DEF Agent!Agents
  <2>3. QED  BY <1>14, <1>15, <2>2 DEF Agent!ShutdownTick
<1>16. CASE Agent!Report(w)      BY <1>10, <1>16 DEF Agent!Report
<1>17. CASE Agent!SendFinish(w)  BY <1>10, <1>17 DEF Agent!SendFinish
<1>18. CASE Agent!JobRunEnd(w)
  <2>1. CASE agent' = Agent!AfterRun(w)
    BY <1>1, <1>4, <1>18, <2>1 DEF Agent!JobRunEnd, Agent!AfterRun
  <2>2. CASE agent' # Agent!AfterRun(w)
    <3>1. PICK r \in Agent!Results(w) :
            agent' = [agent EXCEPT ![w].phase = "finishing", ![w].result = r]
      BY <1>18, <2>2 DEF Agent!JobRunEnd
    <3>2. agent'[w] = [agent[w] EXCEPT !.phase = "finishing", !.result = r]  BY <1>1, <3>1
    <3>3. agent'[w].phase = "finishing" /\ agent'[w].result = r /\ agent'[w].job = agent[w].job
      BY <1>1, <3>2 DEF Agent!Agents
    <3>4. agent[w].phase = "running" /\ UNCHANGED rclone  BY <1>18 DEF Agent!JobRunEnd
    <3>5. QED  BY <1>1, <3>1, <3>3, <3>4, KnownResults DEF Involved, Started, BusyWithJob, ResultKnown
  <2>3. QED  BY <2>1, <2>2
<1>19. CASE Agent!RequestShutdown(w)
  <2>1. CASE agent[w].phase = "idle"
    BY <1>1, <1>4, <1>19, <2>1 DEF Agent!RequestShutdown
  <2>2. CASE agent[w].phase # "idle"
    <3>1. agent'[w] = [agent[w] EXCEPT !.quit = "asked"]
      BY <1>1, <1>19, <2>2 DEF Agent!RequestShutdown
    <3>2. agent'[w].job = agent[w].job /\ agent'[w].phase = agent[w].phase /\ agent'[w].result = agent[w].result
      BY <1>1, <3>1 DEF Agent!Agents
    <3>3. QED  BY <1>9, <1>19, <3>2 DEF Agent!RequestShutdown
  <2>3. QED  BY <2>1, <2>2
<1>20. CASE Agent!Crash(w)
  <2>1. agent'[w] = Agent!Off  BY <1>1, <1>20 DEF Agent!Crash
  <2>2. PICK left \in {"running", "killed"} :
          rclone' = [rclone EXCEPT ![w] =
                       [j \in Jobs |-> IF @[j] \in {"starting", "running"} THEN left ELSE @[j]]]
    BY <1>20 DEF Agent!Crash
  <2>3. \A j \in Jobs : rclone'[w][j] = IF rclone[w][j] \in {"starting", "running"} THEN left ELSE rclone[w][j]
    BY <1>1, <2>2
  <2>4. agent'[w].job = NoJob /\ agent'[w].phase = "off"  BY <2>1 DEF Agent!Off, Agent!Idle
  <2>5. QED  BY <2>3, <2>4 DEF Involved, Started, BusyWithJob, ResultKnown
<1>21. CASE Agent!Restart(w)  BY <1>1, <1>4, <1>21 DEF Agent!Restart
<1>22. ASSUME NEW answer, Agent!ReportAnswered(w, answer) PROVE Keeps
  <2>1. agent'[w] = [agent[w] EXCEPT !.waiting = FALSE, !.stop = @ \/ answer = "stop",
                                     !.abandoned = @ \/ answer = "refused"]
    BY <1>1, <1>22 DEF Agent!ReportAnswered
  <2>2. agent'[w].job = agent[w].job /\ agent'[w].phase = agent[w].phase /\ agent'[w].result = agent[w].result
    BY <1>1, <2>1 DEF Agent!Agents
  <2>3. agent[w].phase = "running" /\ (UNCHANGED rclone \/ rclone' = Agent!Terminated(w, agent[w].job))
    BY <1>22 DEF Agent!ReportAnswered
  <2>4. QED  BY <1>9, <1>14, <2>2, <2>3
<1>23. ASSUME NEW answer, Agent!FinishAnswered(w, answer) PROVE Keeps
  <2>1. CASE agent' = Agent!AfterRun(w)
    BY <1>1, <1>4, <1>23, <2>1 DEF Agent!FinishAnswered, Agent!AfterRun
  <2>2. CASE agent' # Agent!AfterRun(w)
    BY <1>10, <1>23, <2>2 DEF Agent!FinishAnswered
  <2>3. QED  BY <2>1, <2>2
<1>24. QED
  BY <1>5, <1>6, <1>7, <1>12, <1>13, <1>15, <1>16, <1>17, <1>18, <1>19, <1>20, <1>21, <1>22, <1>23
     DEF AgentWorks

LEMMA ClaimTakesJob ==
    ASSUME Agent!AgentTypeOK, NEW w \in Workers, NEW j \in Jobs, Agent!ClaimAnswered(w, j)
    PROVE  /\ agent'[w].job = j /\ agent'[w].phase = "running" /\ UNCHANGED rclone
           /\ BusyWithJob(w)' /\ ResultKnown(w)'
<1>1. agent \in [Workers -> Agent!Agents] /\ agent[w] \in Agent!Agents  BY DEF Agent!AgentTypeOK
<1>2. agent'[w] = [agent[w] EXCEPT !.phase = "running", !.job = j]
  BY <1>1 DEF Agent!ClaimAnswered
<1>3. agent'[w].job = j /\ agent'[w].phase = "running"  BY <1>1, <1>2 DEF Agent!Agents
<1>4. QED  BY <1>3, NullAssumption DEF BusyWithJob, ResultKnown, Agent!ClaimAnswered

-----------------------------------------------------------------------------
(* What a step of the whole is for the queue, the agents and the calls       *)

\* Every step of the queue but a finish
QuietNext ==
    \/ \E j \in Jobs : UserStep(j) \/ CommitStep(j) \/ ExpireLeases(j)
    \/ \E w \in Workers : \/ Poll(w) \/ PollEnd(w) \/ AdminStep(w)
                          \/ \E j \in Jobs : TryClaim(w, j) \/ Progress(w, j) \/ LateCall(w, j)
    \/ Tick

LEMMA CallFields ==
    \A c \in Calls : c.w \in Workers /\ c.j \in Jobs /\ c.type \in {"progress", "finish"}
BY DEF Calls

LEMMA QueueSees ==
    ASSUME calls \in SUBSET Calls, JobsNext
    PROVE  \/ [QuietNext]_queueVars
           \/ \E c \in calls : FinishHandled(c)
<1>1. CASE QueueAlone  BY <1>1 DEF QueueAlone, QuietNext, CommitStep
<1>2. ASSUME NEW j \in Jobs, ClaimGranted(j)
      PROVE  QuietNext
  BY <1>2 DEF ClaimGranted, QuietNext, CommitStep
<1>3. ASSUME NEW w \in Workers, AgentStep(w)
      PROVE  [QuietNext]_queueVars
  <2>1. Poll(w) => QuietNext  BY DEF QuietNext
  <2>2. QED
    BY <1>3, <2>1 DEF AgentStep, AgentClaims, ClaimArrives, ClaimEmpty, ClaimRefused, AgentReports,
                      AgentFinishes, NoAnswer, AgentAlone
<1>4. ASSUME NEW c \in calls, CallStep(c), ~FinishHandled(c)
      PROVE  [QuietNext]_queueVars
  <2>1. c.w \in Workers /\ c.j \in Jobs  BY CallFields
  <2>2. Progress(c.w, c.j) \/ LateCall(c.w, c.j) => QuietNext  BY <2>1 DEF QuietNext
  <2>3. QED
    BY <1>4, <2>2 DEF CallStep, ProgressHandled, LateCallHandled, CallRefused, CallLost
<1>5. QED  BY <1>1, <1>2, <1>3, <1>4 DEF JobsNext

LEMMA AnswerWorks ==
    ASSUME NEW c \in Calls, NEW answer \in {"stop", "continue", "refused", "lost"}, Answer(c, answer)
    PROVE  UNCHANGED agentVars \/ AgentWorks(c.w)
BY DEF Answer, AgentWorks

LEMMA AgentsSee ==
    ASSUME QueueInv, calls \in SUBSET Calls, JobsNext
    PROVE  \/ UNCHANGED agentVars
           \/ \E w \in Workers : AgentWorks(w)
           \/ \E w \in Workers, j \in Jobs :
                 ClaimCommit(j) /\ txn[j].by = w /\ Agent!ClaimAnswered(w, j)
<1>1. CASE QueueAlone  BY <1>1 DEF QueueAlone
<1>2. ASSUME NEW j \in Jobs, ClaimGranted(j)
      PROVE  \/ UNCHANGED agentVars
             \/ \E w \in Workers : ClaimCommit(j) /\ txn[j].by = w /\ Agent!ClaimAnswered(w, j)
  <2>1. CASE UNCHANGED agentVars  BY <2>1
  <2>2. CASE Agent!ClaimAnswered(txn[j].by, j)
    <3>1. txn[j].by \in Workers
      BY <1>2 DEF ClaimGranted, ClaimCommit, QueueInv, ClaimHasWorker
    <3>2. QED  BY <1>2, <2>2, <3>1 DEF ClaimGranted
  <2>3. QED  BY <1>2, <2>1, <2>2 DEF ClaimGranted
<1>3. ASSUME NEW w \in Workers, AgentStep(w)
      PROVE  UNCHANGED agentVars \/ AgentWorks(w)
  BY <1>3 DEF AgentStep, AgentClaims, ClaimArrives, ClaimEmpty, ClaimRefused, AgentReports,
              AgentFinishes, NoAnswer, AgentAlone, AgentWorks
<1>4. ASSUME NEW c \in calls, CallStep(c)
      PROVE  UNCHANGED agentVars \/ AgentWorks(c.w)
  BY <1>4, AnswerWorks DEF CallStep, ProgressHandled, FinishHandled, LateCallHandled, CallRefused, CallLost
<1>5. QED  BY <1>1, <1>2, <1>3, <1>4, CallFields DEF JobsNext

\* Only an agent that finishes its job sends a new finish.
LEMMA CallsSee ==
    ASSUME AgentsInv, JobsNext, NEW c \in calls', c \notin calls
    PROVE  /\ c \in Calls
           /\ \/ c.type = "progress"
              \/ \E w \in Workers : Agent!SendFinish(w) /\ c = Call("finish", w, agent[w].result)
<1>1. CASE QueueAlone  BY <1>1 DEF QueueAlone
<1>2. ASSUME NEW j \in Jobs, ClaimGranted(j) PROVE FALSE  BY <1>2 DEF ClaimGranted
<1>3. ASSUME NEW d \in calls, CallStep(d) PROVE FALSE
  BY <1>3 DEF CallStep, ProgressHandled, FinishHandled, LateCallHandled, CallRefused, CallLost
<1>4. ASSUME NEW w \in Workers, AgentStep(w)
      PROVE  /\ c \in Calls
             /\ \/ c.type = "progress"
                \/ Agent!SendFinish(w) /\ c = Call("finish", w, agent[w].result)
  <2>1. /\ agent[w] \in Agent!Agents /\ BusyWithJob(w) /\ ResultKnown(w)
    BY DEF AgentsInv, Agent!AgentTypeOK
  <2>2. agent[w].phase \in {"running", "finishing"} => agent[w].job \in Jobs
    BY <2>1, AgentRecords DEF BusyWithJob
  <2>3. CASE AgentReports(w)
    <3>1. c = Call("progress", w, "none") /\ agent[w].job \in Jobs
      BY <2>2, <2>3 DEF AgentReports, Agent!Report
    <3>2. QED  BY <3>1 DEF Call, Calls
  <2>4. CASE AgentFinishes(w)
    <3>1. /\ c = Call("finish", w, agent[w].result) /\ Agent!SendFinish(w)
          /\ agent[w].job \in Jobs /\ agent[w].result \in Final
      BY <2>1, <2>2, <2>4 DEF AgentFinishes, Agent!SendFinish, ResultKnown
    <3>2. QED  BY <3>1 DEF Call, Calls
  <2>5. CASE ~AgentReports(w) /\ ~AgentFinishes(w)
    BY <1>4, <2>5 DEF AgentStep, AgentClaims, ClaimArrives, ClaimEmpty, ClaimRefused, NoAnswer, AgentAlone
  <2>6. QED  BY <2>3, <2>4, <2>5
<1>5. QED  BY <1>1, <1>2, <1>3, <1>4 DEF JobsNext

\* A finish that reaches the queue is a step of it.
LEMMA JobsStepsQueue == AgentsInv /\ [JobsNext]_jobsVars => [QueueNext]_queueVars
<1> SUFFICES ASSUME AgentsInv, [JobsNext]_jobsVars PROVE [QueueNext]_queueVars  OBVIOUS
<1>1. CASE UNCHANGED jobsVars  BY <1>1 DEF jobsVars, queueVars
<1>2. QuietNext => QueueNext  BY DEF QuietNext, QueueNext, WorkerStep
<1>3. ASSUME NEW c \in calls, FinishHandled(c) PROVE QueueNext
  <2>1. c.w \in Workers /\ c.j \in Jobs /\ c.state \in Final
    BY <1>3, CallFields DEF AgentsInv, CallTrue, FinishHandled
  <2>2. Finish(c.w, c.j, c.state)  BY <1>3 DEF FinishHandled
  <2>3. QED  BY <2>1, <2>2 DEF QueueNext, WorkerStep
<1>4. QED  BY <1>1, <1>2, <1>3, QueueSees DEF AgentsInv

-----------------------------------------------------------------------------
(* What the queue keeps                                                      *)

\* A row that was given to a worker stays with it until it ends, and afterwards.
LEMMA QueueKeeps ==
    ASSUME QueueInv, [QueueNext]_queueVars, NEW j \in Jobs, remote[j] \in {"RUNNING", "DONE"}
    PROVE  workerOf'[j] = workerOf[j] /\ remote'[j] \in {"RUNNING", "DONE"}
<1>1. QueueTypeOK /\ \A k \in Jobs : JobInv(k)  BY InvByJob
<1>2. CASE UNCHANGED queueVars  BY <1>2 DEF queueVars
<1>3. ASSUME NEW k \in Jobs, UserStep(k) PROVE workerOf'[j] = workerOf[j] /\ remote'[j] \in {"RUNNING", "DONE"}
  <2>1. CASE QueueJob(k)
    <3>1. remote[k] = "NONE"  BY <1>1, <2>1 DEF QueueJob, JobInv, RowlessUntilQueued
    <3>2. QED  BY <1>1, <2>1, <3>1 DEF QueueJob, QueueTypeOK
  <2>2. CASE RequestStop(k)  BY <1>1, <2>2 DEF RequestStop, QueueTypeOK
  <2>3. QED
    BY <1>3, <2>1, <2>2 DEF UserStep, CreateJob, QueueFails, CreateCrash, DeleteJob, StopRead,
                            StopWrite, StopCrash, rowVars
<1>4. ASSUME NEW k \in Jobs, CommitStep(k) PROVE workerOf'[j] = workerOf[j] /\ remote'[j] \in {"RUNNING", "DONE"}
  <2>1. JobInv(k)  BY <1>1
  <2>2. CASE ClaimCommit(k) \/ ClaimDrop(k)
    <3>1. k # j  BY <2>1, <2>2 DEF ClaimCommit, ClaimDrop, JobInv
    <3>2. QED  BY <1>1, <2>2, <3>1 DEF ClaimCommit, ClaimDrop, End, QueueTypeOK
  <2>3. CASE FinishCommit(k)  BY <1>1, <2>3 DEF FinishCommit, End, QueueTypeOK
  <2>4. CASE ExpireCommit(k)  BY <1>1, <2>4 DEF ExpireCommit, End, QueueTypeOK
  <2>5. CASE Rollback(k)      BY <2>5 DEF Rollback, rowVars
  <2>6. QED  BY <1>4, <2>2, <2>3, <2>4, <2>5 DEF CommitStep
<1>5. ASSUME NEW k \in Jobs, ExpireLeases(k) PROVE workerOf'[j] = workerOf[j] /\ remote'[j] \in {"RUNNING", "DONE"}
  BY <1>5 DEF ExpireLeases, rowVars
<1>6. ASSUME NEW w \in Workers, WorkerStep(w) PROVE workerOf'[j] = workerOf[j] /\ remote'[j] \in {"RUNNING", "DONE"}
  BY <1>6 DEF WorkerStep, Poll, PollEnd, TryClaim, Progress, LateCall, Finish, rowVars
<1>7. ASSUME NEW w \in Workers, AdminStep(w) PROVE workerOf'[j] = workerOf[j] /\ remote'[j] \in {"RUNNING", "DONE"}
  BY <1>1, <1>7 DEF AdminStep, RevokeWorker, RevokeCommit, RevokeRollback, rowVars, QueueTypeOK
<1>8. CASE Tick  BY <1>8 DEF Tick
<1>9. QED  BY <1>2, <1>3, <1>4, <1>5, <1>6, <1>7, <1>8 DEF QueueNext

\* Failing the rows of J makes no success.
LEMMA FailedIsNoSuccess ==
    ASSUME QueueInv, NEW J \in SUBSET Jobs, FailSeen(J), \A k \in J : txn[k].kind # "none",
           NEW j \in Jobs
    PROVE  /\ jobState'[j] = "SUCCESS" => jobState[j] = "SUCCESS"
           /\ mail'[j] = <<"SUCCESS">> => mail[j] = <<"SUCCESS">>
<1>1. QueueTypeOK /\ JobInv(j)  BY InvByJob
<1>2. CASE j \in J /\ txn[j].seen = "PROGRESS"
  <2>1. mail[j] = <<>>  BY <1>1, <1>2, OpenRow
  <2>2. jobState'[j] = "FAILED" /\ mail'[j] = Append(mail[j], "FAILED")
    BY <1>2 DEF FailSeen
  <2>3. mail'[j] = <<"FAILED">>  BY <2>1, <2>2, FirstMail DEF Final
  <2>4. "FAILED" \in Final /\ "FAILED" # "SUCCESS"  BY DEF Final
  <2>5. mail'[j] # <<"SUCCESS">>  BY <2>3, <2>4, FirstMail
  <2>6. QED  BY <2>2, <2>5
<1>3. CASE ~(j \in J /\ txn[j].seen = "PROGRESS")
  BY <1>1, <1>3 DEF FailSeen, QueueTypeOK
<1>4. QED  BY <1>2, <1>3

\* Only a finish decides on a success.
LEMMA NoNewSuccess ==
    ASSUME QueueInv, QuietNext, NEW j \in Jobs, Succeeds(j)'
    PROVE  Succeeds(j)
<1> USE DEF Succeeds
<1>1. QueueTypeOK /\ \A k \in Jobs : JobInv(k)  BY InvByJob
<1>2. ASSUME NEW k \in Jobs, UserStep(k) PROVE Succeeds(j)
  BY <1>1, <1>2 DEF UserStep, CreateJob, QueueJob, QueueFails, CreateCrash, DeleteJob, RequestStop,
                    StopRead, StopWrite, StopCrash, rowVars, workerVars, QueueTypeOK
<1>3. ASSUME NEW k \in Jobs, CommitStep(k) PROVE Succeeds(j)
  <2>1. CASE ClaimCommit(k)
    BY <1>1, <2>1 DEF ClaimCommit, jobVars, workerVars, QueueTypeOK, NoTxn
  <2>2. CASE ClaimDrop(k) \/ ExpireCommit(k)
    <3>1. FailSeen({k}) /\ txn[k].kind # "none"
      BY <2>2 DEF ClaimDrop, ExpireCommit
    <3>2. txn' = [i \in Jobs |-> IF i \in {k} THEN NoTxn ELSE txn[i]]
      BY <2>2 DEF ClaimDrop, ExpireCommit, End
    <3>3. txn'[j] = txn[j] \/ txn'[j].kind = "none"  BY <3>2 DEF NoTxn
    <3>4. /\ jobState'[j] = "SUCCESS" => jobState[j] = "SUCCESS"
          /\ mail'[j] = <<"SUCCESS">> => mail[j] = <<"SUCCESS">>
      BY <3>1, FailedIsNoSuccess
    <3>5. QED  BY <3>3, <3>4
  <2>3. CASE FinishCommit(k)
    <3>1. CASE k = j
      <4>1. mail[j] = <<>>  BY <1>1, <2>3, <3>1, OpenRow DEF FinishCommit
      <4>2. txn[j].final \in Final \cup {"GONE"}
        BY <1>1, <2>3, <3>1 DEF FinishCommit, JobInv, ReadStaysTrue
      <4>3. txn[j].kind = "finish" /\ jobState'[j] = txn[j].final /\ txn'[j].kind = "none"
        BY <1>1, <2>3, <3>1 DEF FinishCommit, End, NoTxn, QueueTypeOK
      <4>4. \/ mail'[j] = <<>>
            \/ mail'[j] = <<txn[j].final>> /\ txn[j].final \in Final
        <5>1. mail'[j] = IF txn[j].final \in {"GONE", "STOPPED"} THEN mail[j]
                         ELSE Append(mail[j], txn[j].final)
          BY <1>1, <2>3, <3>1 DEF FinishCommit, QueueTypeOK
        <5>2. QED  BY <4>1, <4>2, <5>1, FirstMail
      <4>5. mail'[j] = <<"SUCCESS">> => txn[j].final = "SUCCESS"  BY <4>4, FirstMail
      <4>6. QED  BY <4>3, <4>5
    <3>2. CASE k # j
      BY <1>1, <2>3, <3>2 DEF FinishCommit, End, QueueTypeOK
    <3>3. QED  BY <3>1, <3>2
  <2>4. CASE Rollback(k)
    BY <1>1, <2>4 DEF Rollback, jobVars, workerVars, NoTxn, QueueTypeOK
  <2>5. QED  BY <1>3, <2>1, <2>2, <2>3, <2>4 DEF CommitStep
<1>4. ASSUME UNCHANGED <<jobState, mail>>, txn'[j] = txn[j] \/ txn'[j].kind # "finish"
      PROVE  Succeeds(j)
  BY <1>4
<1>5. ASSUME NEW k \in Jobs, ExpireLeases(k) PROVE Succeeds(j)
  <2>1. txn'[j] = txn[j] \/ txn'[j].kind = "expire"
    BY <1>1, <1>5 DEF ExpireLeases, QueueTypeOK
  <2>2. QED  BY <1>4, <1>5, <2>1 DEF ExpireLeases, jobVars
<1>6. ASSUME NEW w \in Workers, NEW k \in Jobs, TryClaim(w, k) \/ Progress(w, k) \/ LateCall(w, k)
      PROVE  Succeeds(j)
  <2>1. txn'[j] = txn[j] \/ txn'[j].kind \in {"claim", "expire"}
    BY <1>1, <1>6 DEF TryClaim, Progress, LateCall, QueueTypeOK
  <2>2. QED  BY <1>4, <1>6, <2>1 DEF TryClaim, Progress, LateCall, jobVars
<1>7. ASSUME NEW w \in Workers, Poll(w) \/ PollEnd(w) PROVE Succeeds(j)
  BY <1>4, <1>7 DEF Poll, PollEnd, jobVars
<1>8. ASSUME NEW w \in Workers, AdminStep(w) PROVE Succeeds(j)
  <2>1. CASE RevokeWorker(w)
    <3>1. txn'[j] = txn[j] \/ txn'[j].kind = "revoke"  BY <2>1 DEF RevokeWorker
    <3>2. QED  BY <1>4, <2>1, <3>1 DEF RevokeWorker, jobVars
  <2>2. CASE RevokeCommit(w)
    <3>1. FailSeen(RevokedRows(w)) /\ \A k \in RevokedRows(w) : txn[k].kind # "none"
      BY <2>2 DEF RevokeCommit, RevokedRows
    <3>2. RevokedRows(w) \in SUBSET Jobs  BY DEF RevokedRows
    <3>3. txn'[j] = txn[j] \/ txn'[j].kind = "none"  BY <2>2 DEF RevokeCommit, NoTxn
    <3>4. /\ jobState'[j] = "SUCCESS" => jobState[j] = "SUCCESS"
          /\ mail'[j] = <<"SUCCESS">> => mail[j] = <<"SUCCESS">>
      BY <3>1, <3>2, FailedIsNoSuccess
    <3>5. QED  BY <3>3, <3>4
  <2>3. CASE RevokeRollback(w)
    <3>1. txn'[j] = txn[j] \/ txn'[j].kind = "none"  BY <2>3 DEF RevokeRollback, NoTxn
    <3>2. QED  BY <1>4, <2>3, <3>1 DEF RevokeRollback, jobVars
  <2>4. QED  BY <1>8, <2>1, <2>2, <2>3 DEF AdminStep
<1>9. CASE Tick  BY <1>4, <1>9 DEF Tick, jobVars
<1>10. QED  BY <1>2, <1>3, <1>5, <1>6, <1>7, <1>8, <1>9 DEF QuietNext

\* A finish decides on a success only if its call says so.
LEMMA FinishSuccess ==
    ASSUME QueueInv, NEW w \in Workers, NEW k \in Jobs, NEW state \in Final, Finish(w, k, state),
           NEW j \in Jobs, Succeeds(j)'
    PROVE  Succeeds(j) \/ (j = k /\ state = "SUCCESS")
<1>1. jobState' = jobState /\ mail' = mail  BY DEF Finish, jobVars
<1>2. CASE j # k
  BY <1>1, <1>2 DEF Succeeds, Finish, QueueInv, QueueTypeOK
<1>3. CASE j = k
  <2>1. txn'[j].final = Verdict(j, state)  BY <1>3 DEF Finish, QueueInv, QueueTypeOK
  <2>2. Verdict(j, state) = "SUCCESS" => state = "SUCCESS"  BY DEF Verdict, Final
  <2>3. QED  BY <1>1, <1>3, <2>1, <2>2 DEF Succeeds
<1>4. QED  BY <1>2, <1>3

-----------------------------------------------------------------------------
(* The inductive step                                                        *)

LEMMA JobsInitInv == JobsInit => JobsInv
<1> SUFFICES ASSUME JobsInit PROVE JobsInv  OBVIOUS
<1>1. QueueInit /\ Agent!AgentInit /\ calls = {}  BY DEF JobsInit
<1>2. QueueInv  BY <1>1, InitInv
<1>3. Agent!Idle \in Agent!Agents  BY AgentRecords
<1>4. Agent!AgentTypeOK
  BY <1>1, <1>3 DEF Agent!AgentInit, Agent!AgentTypeOK, Agent!RcloneStates
<1>5. \A w \in Workers : agent[w].phase = "idle" /\ agent[w].job = NoJob
                     /\ \A j \in Jobs : rclone[w][j] = "none"
  BY <1>1 DEF Agent!AgentInit, Agent!Idle
<1>6. \A w \in Workers : BusyWithJob(w) /\ ResultKnown(w)
  BY <1>5 DEF BusyWithJob, ResultKnown
<1>7. \A w \in Workers, j \in Jobs : ~Involved(w, j)
  BY <1>5, NullAssumption DEF Involved, Started
<1>8. \A j \in Jobs : ~Succeeds(j)
  BY <1>1, FirstMail DEF QueueInit, Succeeds, NoTxn
<1>9. QED
  BY <1>1, <1>2, <1>4, <1>6, <1>7, <1>8 DEF JobsInv, AgentsInv, HoldsTicket, SuccessTrue

\* A claim that commits gives the row to its worker.
Given(w, j) == ClaimCommit(j) /\ txn[j].by = w

\* What a step does to the agents
LEMMA AgentsStep ==
    ASSUME JobsInv, JobsNext
    PROVE  /\ Agent!AgentTypeOK'
           /\ \A w \in Workers : BusyWithJob(w)' /\ ResultKnown(w)'
           /\ \A w \in Workers, j \in Jobs :
                /\ rclone[w][j] = "ok" => rclone'[w][j] = "ok"
                /\ Involved(w, j)' => Involved(w, j) \/ Given(w, j)
<1>1. QueueInv /\ AgentsInv /\ Agent!AgentTypeOK  BY DEF JobsInv, AgentsInv
<1>2. /\ agent \in [Workers -> Agent!Agents]
      /\ rclone \in [Workers -> [Jobs -> Agent!RcloneStates]]
  BY <1>1 DEF Agent!AgentTypeOK
<1>3. CASE UNCHANGED agentVars
  <2>1. agent' = agent /\ rclone' = rclone  BY <1>3 DEF agentVars
  <2>2. Agent!AgentTypeOK'  BY <1>2, <2>1 DEF Agent!AgentTypeOK
  <2>3. QED
    BY <1>1, <2>1, <2>2 DEF AgentsInv, BusyWithJob, ResultKnown, Involved, Started
<1>4. ASSUME NEW w \in Workers, AgentMoves(w),
             BusyWithJob(w)', ResultKnown(w)',
             \A j \in Jobs : /\ rclone[w][j] = "ok" => rclone'[w][j] = "ok"
                             /\ Involved(w, j)' => Involved(w, j) \/ Given(w, j)
      PROVE  /\ Agent!AgentTypeOK'
             /\ \A v \in Workers : BusyWithJob(v)' /\ ResultKnown(v)'
             /\ \A v \in Workers, j \in Jobs :
                  /\ rclone[v][j] = "ok" => rclone'[v][j] = "ok"
                  /\ Involved(v, j)' => Involved(v, j) \/ Given(v, j)
  <2>1. /\ agent'[w] \in Agent!Agents /\ agent' = [agent EXCEPT ![w] = agent'[w]]
        /\ rclone'[w] \in [Jobs -> Agent!RcloneStates] /\ rclone' = [rclone EXCEPT ![w] = rclone'[w]]
    BY <1>1, <1>4, AgentLocal
  <2>2. Agent!AgentTypeOK'  BY <1>2, <2>1 DEF Agent!AgentTypeOK
  <2>3. ASSUME NEW v \in Workers \ {w}
        PROVE  agent'[v] = agent[v] /\ rclone'[v] = rclone[v]
    BY <1>2, <2>1
  <2>4. ASSUME NEW v \in Workers \ {w}
        PROVE  /\ BusyWithJob(v)' /\ ResultKnown(v)'
               /\ \A j \in Jobs : /\ rclone[v][j] = "ok" => rclone'[v][j] = "ok"
                                  /\ Involved(v, j)' => Involved(v, j)
    BY <1>1, <2>3 DEF AgentsInv, BusyWithJob, ResultKnown, Involved, Started
  <2>5. \A v \in Workers : v = w \/ v \in Workers \ {w}  OBVIOUS
  <2>6. QED  BY <1>4, <2>2, <2>4, <2>5
<1>5. ASSUME NEW w \in Workers, AgentWorks(w)
      PROVE  /\ AgentMoves(w) /\ BusyWithJob(w)' /\ ResultKnown(w)'
             /\ \A j \in Jobs : /\ rclone[w][j] = "ok" => rclone'[w][j] = "ok"
                                /\ Involved(w, j)' => Involved(w, j)
  BY <1>1, <1>5, AgentKeeps DEF AgentMoves
<1>6. ASSUME NEW w \in Workers, NEW k \in Jobs, ClaimCommit(k), txn[k].by = w, Agent!ClaimAnswered(w, k)
      PROVE  /\ AgentMoves(w) /\ BusyWithJob(w)' /\ ResultKnown(w)'
             /\ \A j \in Jobs : /\ rclone[w][j] = "ok" => rclone'[w][j] = "ok"
                                /\ Involved(w, j)' => Involved(w, j) \/ Given(w, j)
  <2>1. /\ agent'[w].job = k /\ agent'[w].phase = "running" /\ UNCHANGED rclone
        /\ BusyWithJob(w)' /\ ResultKnown(w)'
    BY <1>1, <1>6, ClaimTakesJob
  <2>2. QED  BY <1>6, <2>1 DEF AgentMoves, Given, Involved, Started
<1>7. CASE \E w \in Workers : AgentWorks(w)
  <2>1. PICK w \in Workers : AgentWorks(w)  BY <1>7
  <2>2. QED  BY <1>4, <1>5, <2>1
<1>8. CASE \E w \in Workers, k \in Jobs :
             ClaimCommit(k) /\ txn[k].by = w /\ Agent!ClaimAnswered(w, k)
  <2>1. PICK w \in Workers, k \in Jobs :
          ClaimCommit(k) /\ txn[k].by = w /\ Agent!ClaimAnswered(w, k)
    BY <1>8
  <2>2. QED  BY <1>4, <1>6, <2>1
<1>9. QED  BY <1>1, <1>3, <1>7, <1>8, AgentsSee DEF JobsInv, AgentsInv

LEMMA JobsNextInv == JobsInv /\ [JobsNext]_jobsVars => JobsInv'
<1> SUFFICES ASSUME JobsInv, [JobsNext]_jobsVars PROVE JobsInv'  OBVIOUS
<1>1. QueueInv /\ AgentsInv  BY DEF JobsInv
<1>2. [QueueNext]_queueVars  BY <1>1, JobsStepsQueue
<1>3. QueueInv'  BY <1>1, <1>2, NextInv
<1>4. CASE UNCHANGED jobsVars
  <2>1. /\ agent' = agent /\ rclone' = rclone /\ calls' = calls /\ remote' = remote
        /\ workerOf' = workerOf /\ jobState' = jobState /\ mail' = mail /\ txn' = txn
    BY <1>4 DEF jobsVars, queueVars
  <2>2. AgentsInv'
    BY <1>1, <2>1 DEF AgentsInv, Agent!AgentTypeOK, BusyWithJob, ResultKnown, CallTrue
  <2>3. QED
    BY <1>3, <2>1, <2>2 DEF JobsInv, HoldsTicket, Involved, Started, SuccessTrue, Succeeds, EndedWell
<1>5. CASE JobsNext
  <2>1. /\ Agent!AgentTypeOK'
        /\ \A w \in Workers : BusyWithJob(w)' /\ ResultKnown(w)'
        /\ \A w \in Workers, j \in Jobs :
             /\ rclone[w][j] = "ok" => rclone'[w][j] = "ok"
             /\ Involved(w, j)' => Involved(w, j) \/ Given(w, j)
    BY <1>5, AgentsStep
  <2>2. ASSUME NEW c \in calls'
        PROVE  c \in Calls /\ CallTrue(c)'
    <3>1. CASE c \in calls
      BY <1>1, <2>1, <3>1, CallFields DEF AgentsInv, CallTrue
    <3>2. CASE c \notin calls
      <4>1. c \in Calls  BY <1>1, <1>5, <3>2, CallsSee
      <4>2. CASE c.type = "progress"  BY <4>1, <4>2 DEF CallTrue
      <4>3. CASE c.type # "progress"
        <5>1. PICK w \in Workers : Agent!SendFinish(w) /\ c = Call("finish", w, agent[w].result)
          BY <1>1, <1>5, <3>2, <4>3, CallsSee
        <5>2. ResultKnown(w) /\ agent[w].phase = "finishing"
          BY <1>1, <5>1 DEF AgentsInv, Agent!SendFinish
        <5>3. c.w = w /\ c.j = agent[w].job /\ c.state = agent[w].result
          BY <5>1 DEF Call
        <5>4. QED
          BY <2>1, <4>1, <5>2, <5>3, CallFields DEF ResultKnown, CallTrue
      <4>4. QED  BY <4>1, <4>2, <4>3
    <3>3. QED  BY <3>1, <3>2
  <2>3. AgentsInv'  BY <2>1, <2>2 DEF AgentsInv
  <2>4. ASSUME NEW w \in Workers, NEW j \in Jobs
        PROVE  HoldsTicket(w, j)'
    <3>1. CASE Involved(w, j)
      BY <1>1, <1>2, <3>1, QueueKeeps DEF JobsInv, HoldsTicket
    <3>2. CASE Given(w, j)
      BY <1>1, <3>2 DEF Given, ClaimCommit, HoldsTicket, QueueInv, QueueTypeOK
    <3>3. QED  BY <2>1, <3>1, <3>2 DEF HoldsTicket
  <2>5. ASSUME NEW j \in Jobs
        PROVE  SuccessTrue(j)'
    <3>1. EndedWell(j) => EndedWell(j)'  BY <2>1 DEF EndedWell
    <3>2. CASE Succeeds(j)  BY <3>1, <3>2 DEF JobsInv, SuccessTrue
    <3>3. ASSUME NEW c \in calls, FinishHandled(c), Succeeds(j)', ~Succeeds(j)
          PROVE  EndedWell(j)
      <4>1. c.w \in Workers /\ c.j \in Jobs /\ CallTrue(c) /\ c.type = "finish"
        BY <1>1, <3>3, CallFields DEF AgentsInv, FinishHandled
      <4>2. c.state \in Final /\ Finish(c.w, c.j, c.state)
        BY <3>3, <4>1 DEF CallTrue, FinishHandled
      <4>3. j = c.j /\ c.state = "SUCCESS"  BY <1>1, <3>3, <4>1, <4>2, FinishSuccess
      <4>4. QED  BY <4>1, <4>3 DEF CallTrue, EndedWell
    <3>4. CASE [QuietNext]_queueVars
      <4>1. CASE QuietNext  BY <1>1, <3>2, <4>1, NoNewSuccess DEF SuccessTrue
      <4>2. CASE UNCHANGED queueVars  BY <3>2, <4>2 DEF queueVars, SuccessTrue, Succeeds
      <4>3. QED  BY <3>4, <4>1, <4>2
    <3>5. CASE \E c \in calls : FinishHandled(c)
      BY <3>1, <3>2, <3>3, <3>5 DEF SuccessTrue
    <3>6. QED  BY <1>1, <1>5, <3>4, <3>5, QueueSees DEF AgentsInv
  <2>6. QED  BY <1>3, <2>3, <2>4, <2>5 DEF JobsInv
<1>6. QED  BY <1>4, <1>5

-----------------------------------------------------------------------------
(* Theorems                                                                  *)

\* The inductive invariant holds in every reachable state of the queue and its agents.
THEOREM JobsInvariant == JobsSpec => []JobsInv
<1>1. JobsInit => JobsInv  BY JobsInitInv
<1>2. JobsInv /\ [JobsNext]_jobsVars => JobsInv'  BY JobsNextInv
<1>3. QED  BY <1>1, <1>2, PTL DEF JobsSpec

\* Agents, rclone processes and calls keep their types.
THEOREM JobsTypeCorrect == JobsSpec => []JobsTypeOK
<1>1. JobsInv => JobsTypeOK  BY DEF JobsInv, QueueInv, AgentsInv, JobsTypeOK
<1>2. QED  BY <1>1, JobsInvariant, PTL

\* At most one worker ever starts rclone for a job.
THEOREM OneRcloneOnly == JobsSpec => []OneRclone
<1>1. JobsInv => OneRclone
  BY DEF JobsInv, HoldsTicket, Involved, OneRclone
<1>2. QED  BY <1>1, JobsInvariant, PTL

\* An agent works only for a row that was given to its worker.
THEOREM AgentsHoldTickets == JobsSpec => []AgentHoldsTicket
<1>1. JobsInv => AgentHoldsTicket
  <2> SUFFICES ASSUME JobsInv, NEW w \in Workers, agent[w].job # NoJob
               PROVE  workerOf[agent[w].job] = w /\ remote[agent[w].job] \in {"RUNNING", "DONE"}
    BY DEF AgentHoldsTicket
  <2>1. agent[w].job \in Jobs
    BY AgentRecords DEF JobsInv, AgentsInv, Agent!AgentTypeOK
  <2>2. QED  BY <2>1 DEF JobsInv, HoldsTicket, Involved
<1>2. QED  BY <1>1, JobsInvariant, PTL

\* A job is a success, and is mailed as one, only after its rclone ended well.
THEOREM SuccessNeverFalse == JobsSpec => []NoFalseSuccess
<1>1. JobsInv => NoFalseSuccess
  BY DEF JobsInv, SuccessTrue, Succeeds, EndedWell, NoFalseSuccess
<1>2. QED  BY <1>1, JobsInvariant, PTL

\* The composition implements the queue with its general workers, so that everything
\* proved of the queue holds of it.
THEOREM JobsImplementQueue == JobsSpec => QueueSpec
<1>1. JobsInit => QueueInit  BY DEF JobsInit
<1>2. JobsInv /\ [JobsNext]_jobsVars => [QueueNext]_queueVars  BY JobsStepsQueue DEF JobsInv
<1>3. QED  BY <1>1, <1>2, JobsInvariant, PTL DEF JobsSpec, QueueSpec

\* With the agents and a lossy network too, the end of a job is mailed at most once.
THEOREM OneNotificationToOwner == JobsSpec => []OneNotification
BY JobsImplementQueue, AtMostOneNotification, PTL

-----------------------------------------------------------------------------
(* The refinement: every step is one that JobPromise allows                  *)

\* What becomes of a job's run, by the state of the one rclone that was started for it
RunState(s) ==
    CASE s \in {"starting", "running"} -> "active"
      [] s = "ok"                      -> "ok"
      [] s = "none"                    -> "none"
      [] OTHER                         -> "failed"

\* Nobody else started rclone for the job of an agent.
LEMMA RunOfAgent ==
    ASSUME JobsInv, NEW w \in Workers, NEW j \in Jobs, Involved(w, j)
    PROVE  runOf[j] = RunState(rclone[w][j])
<1>1. \A v \in Workers : v # w => rclone[v][j] = "none"
  BY DEF JobsInv, HoldsTicket, Involved, Started
<1>2. CASE rclone[w][j] \in {"starting", "running"}
  BY <1>1, <1>2 DEF runOf, Active, RunState
<1>3. CASE rclone[w][j] = "ok"
  BY <1>1, <1>3 DEF runOf, Active, RunState
<1>4. CASE rclone[w][j] = "none"
  BY <1>1, <1>4 DEF runOf, Active, RunState
<1>5. CASE rclone[w][j] \notin {"starting", "running", "ok", "none"}
  BY <1>1, <1>5 DEF runOf, Active, RunState
<1>6. QED  BY <1>2, <1>3, <1>4, <1>5

LEMMA RunOfAgentNext ==
    ASSUME JobsInv', NEW w \in Workers, NEW j \in Jobs, Involved(w, j)'
    PROVE  runOf'[j] = RunState(rclone'[w][j])
<1>1. \A v \in Workers : v # w => rclone'[v][j] = "none"
  BY DEF JobsInv, HoldsTicket, Involved, Started
<1>2. CASE rclone'[w][j] \in {"starting", "running"}
  BY <1>1, <1>2 DEF runOf, Active, RunState
<1>3. CASE rclone'[w][j] = "ok"
  BY <1>1, <1>3 DEF runOf, Active, RunState
<1>4. CASE rclone'[w][j] = "none"
  BY <1>1, <1>4 DEF runOf, Active, RunState
<1>5. CASE rclone'[w][j] \notin {"starting", "running", "ok", "none"}
  BY <1>1, <1>5 DEF runOf, Active, RunState
<1>6. QED  BY <1>2, <1>3, <1>4, <1>5

\* What an agent's step does to its processes
Fades(w) ==
    \A j \in Jobs : \/ rclone'[w][j] = rclone[w][j]
                    \/ Active(w, j) /\ rclone'[w][j] \in {"running", "killed", "error"}
Begins(w, j) ==
    /\ agent[w].job = j /\ rclone[w][j] = "none" /\ rclone'[w][j] \in {"starting", "error"}
    /\ \A k \in Jobs \ {j} : rclone'[w][k] = rclone[w][k]
EndsWell(w, j) ==
    /\ rclone[w][j] = "running" /\ rclone'[w][j] = "ok"
    /\ \A k \in Jobs \ {j} : rclone'[w][k] = rclone[w][k]

LEMMA RcloneMoves ==
    ASSUME AgentsInv, NEW w \in Workers, AgentWorks(w)
    PROVE  Fades(w) \/ \E j \in Jobs : Begins(w, j) \/ EndsWell(w, j)
<1>1. /\ agent[w] \in Agent!Agents /\ BusyWithJob(w)
      /\ rclone \in [Workers -> [Jobs -> Agent!RcloneStates]]
  BY DEF AgentsInv, Agent!AgentTypeOK
<1>2. CASE UNCHANGED rclone  BY <1>2 DEF Fades
<1>3. CASE Agent!StartRclone(w)
  <2>1. PICK j \in Jobs : j = agent[w].job
    BY <1>1, <1>3, AgentRecords DEF Agent!StartRclone, BusyWithJob
  <2>2. Begins(w, j)  BY <1>1, <1>3, <2>1 DEF Agent!StartRclone, Begins
  <2>3. QED  BY <2>2
<1>4. ASSUME NEW j \in Jobs, Agent!RcloneSpawn(w, j)
      PROVE  Fades(w)
  BY <1>1, <1>4 DEF Agent!RcloneSpawn, Fades, Active
<1>5. ASSUME NEW j \in Jobs, Agent!RcloneExit(w, j)
      PROVE  Fades(w) \/ EndsWell(w, j)
  BY <1>1, <1>5 DEF Agent!RcloneExit, Fades, EndsWell, Active
<1>6. ASSUME NEW j, rclone' = Agent!Terminated(w, j)
      PROVE  Fades(w)
  BY <1>1, <1>6 DEF Agent!Terminated, Fades, Active
<1>7. CASE Agent!Crash(w)
  <2>1. PICK left \in {"running", "killed"} :
          rclone' = [rclone EXCEPT ![w] =
                       [j \in Jobs |-> IF @[j] \in {"starting", "running"} THEN left ELSE @[j]]]
    BY <1>7 DEF Agent!Crash
  <2>2. QED  BY <1>1, <2>1 DEF Fades, Active
<1>8. QED
  BY <1>2, <1>3, <1>4, <1>5, <1>6, <1>7
     DEF AgentWorks, Agent!Claim, Agent!ClaimEmpty, Agent!ClaimRefused, Agent!ShutdownTick,
         Agent!Report, Agent!JobRunEnd, Agent!SendFinish, Agent!RequestShutdown, Agent!Restart,
         Agent!ReportAnswered, Agent!FinishAnswered

\* What a step does to the run that the owner sees
LEMMA RunStep ==
    ASSUME JobsInv, JobsInv', JobsNext
    PROVE  \/ UNCHANGED runOf
           \/ \E j \in Jobs :
                \/ /\ runOf[j] = "none" /\ runOf'[j] \in {"active", "failed"}
                   /\ runOf' = [runOf EXCEPT ![j] = runOf'[j]]
                \/ runOf[j] = "active" /\ runOf' = [runOf EXCEPT ![j] = "ok"]
           \/ \E J \in SUBSET Jobs :
                /\ \A j \in J : runOf[j] = "active"
                /\ runOf' = [j \in Jobs |-> IF j \in J THEN "failed" ELSE runOf[j]]
<1>1. QueueInv /\ AgentsInv /\ Agent!AgentTypeOK  BY DEF JobsInv, AgentsInv
<1>2. runOf = [j \in Jobs |-> runOf[j]] /\ runOf' = [j \in Jobs |-> runOf'[j]]
  BY DEF runOf
<1>3. CASE UNCHANGED rclone  BY <1>3 DEF runOf, Active
<1>4. ASSUME NEW w \in Workers, AgentWorks(w)
      PROVE  \/ \E j \in Jobs :
                  \/ /\ runOf[j] = "none" /\ runOf'[j] \in {"active", "failed"}
                     /\ runOf' = [runOf EXCEPT ![j] = runOf'[j]]
                  \/ runOf[j] = "active" /\ runOf' = [runOf EXCEPT ![j] = "ok"]
             \/ \E J \in SUBSET Jobs :
                  /\ \A j \in J : runOf[j] = "active"
                  /\ runOf' = [j \in Jobs |-> IF j \in J THEN "failed" ELSE runOf[j]]
  <2>1. \A v \in Workers : v # w => rclone'[v] = rclone[v]
    <3>1. rclone' = [rclone EXCEPT ![w] = rclone'[w]]  BY <1>1, <1>4, AgentLocal DEF AgentMoves
    <3>2. QED  BY <1>1, <3>1 DEF Agent!AgentTypeOK
  <2>2. ASSUME NEW j \in Jobs, rclone'[w][j] = rclone[w][j]
        PROVE  runOf'[j] = runOf[j]
    <3>1. \A v \in Workers : rclone'[v][j] = rclone[v][j]  BY <2>1, <2>2
    <3>2. QED  BY <3>1 DEF runOf, Active
  <2>3. ASSUME NEW j \in Jobs, Started(w, j)
        PROVE  runOf[j] = RunState(rclone[w][j])
    BY <2>3, RunOfAgent DEF Involved
  <2>4. ASSUME NEW j \in Jobs, rclone'[w][j] # "none"
        PROVE  runOf'[j] = RunState(rclone'[w][j])
    BY <2>4, RunOfAgentNext DEF Involved, Started
  <2>5. CASE Fades(w)
    <3> DEFINE J == {j \in Jobs : runOf'[j] # runOf[j]}
    <3>1. ASSUME NEW j \in J
          PROVE  runOf[j] = "active" /\ runOf'[j] = "failed"
      <4>1. /\ j \in Jobs /\ rclone[w][j] \in {"starting", "running"}
            /\ rclone'[w][j] \in {"running", "killed", "error"}
        BY <2>2, <2>5 DEF Fades, Active
      <4>2. runOf[j] = "active"  BY <2>3, <4>1 DEF Started, RunState
      <4>3. runOf'[j] = RunState(rclone'[w][j])  BY <2>4, <4>1
      <4>4. QED  BY <4>1, <4>2, <4>3 DEF RunState
    <3>2. runOf' = [j \in Jobs |-> IF j \in J THEN "failed" ELSE runOf[j]]
      BY <1>2, <3>1
    <3>3. J \in SUBSET Jobs  OBVIOUS
    <3>4. QED  BY <3>1, <3>2, <3>3
  <2>6. ASSUME NEW j \in Jobs, Begins(w, j)
        PROVE  /\ runOf[j] = "none" /\ runOf'[j] \in {"active", "failed"}
               /\ runOf' = [runOf EXCEPT ![j] = runOf'[j]]
    <3>1. runOf[j] = "none"
      BY <2>6, RunOfAgent DEF Begins, Involved, RunState
    <3>2. runOf'[j] \in {"active", "failed"}  BY <2>4, <2>6 DEF Begins, RunState
    <3>3. \A k \in Jobs \ {j} : runOf'[k] = runOf[k]  BY <2>2, <2>6 DEF Begins
    <3>4. QED  BY <1>2, <3>1, <3>2, <3>3
  <2>7. ASSUME NEW j \in Jobs, EndsWell(w, j)
        PROVE  runOf[j] = "active" /\ runOf' = [runOf EXCEPT ![j] = "ok"]
    <3>1. runOf[j] = "active"  BY <2>3, <2>7 DEF EndsWell, Started, RunState
    <3>2. runOf'[j] = "ok"  BY <2>4, <2>7 DEF EndsWell, RunState
    <3>3. \A k \in Jobs \ {j} : runOf'[k] = runOf[k]  BY <2>2, <2>7 DEF EndsWell
    <3>4. QED  BY <1>2, <3>1, <3>2, <3>3
  <2>8. QED  BY <1>1, <1>4, <2>5, <2>6, <2>7, RcloneMoves
<1>5. \/ UNCHANGED agentVars
      \/ \E w \in Workers : AgentWorks(w)
      \/ \E w \in Workers, j \in Jobs :
            ClaimCommit(j) /\ txn[j].by = w /\ Agent!ClaimAnswered(w, j)
  BY <1>1, AgentsSee DEF AgentsInv
<1>6. UNCHANGED rclone \/ \E w \in Workers : AgentWorks(w)
  BY <1>5 DEF agentVars, Agent!ClaimAnswered
<1>7. QED  BY <1>3, <1>4, <1>6

\* Only a step of the queue by itself sends mail, and no agent moves in it.
LEMMA MailOrRun ==
    ASSUME JobsNext
    PROVE  UNCHANGED mail \/ (QueueAlone /\ UNCHANGED agentVars)
<1>1. CASE QueueAlone  BY <1>1 DEF QueueAlone
<1>2. ASSUME NEW j \in Jobs, ClaimGranted(j) PROVE UNCHANGED mail
  BY <1>2 DEF ClaimGranted, ClaimCommit
<1>3. ASSUME NEW w \in Workers, AgentStep(w) PROVE UNCHANGED mail
  BY <1>3 DEF AgentStep, AgentClaims, ClaimArrives, ClaimEmpty, ClaimRefused, AgentReports,
              AgentFinishes, NoAnswer, AgentAlone, Poll, queueVars
<1>4. ASSUME NEW c \in calls, CallStep(c) PROVE UNCHANGED mail
  BY <1>4 DEF CallStep, ProgressHandled, FinishHandled, LateCallHandled, CallRefused, CallLost,
              Progress, Finish, LateCall, queueVars
<1>5. QED  BY <1>1, <1>2, <1>3, <1>4 DEF JobsNext

\* What the queue mails in a step: failures of some jobs, or the outcome that finish decided
FailuresMailed(J) ==
    /\ \A j \in J : mail[j] = <<>>
    /\ mail' = [j \in Jobs |-> IF j \in J THEN <<"FAILED">> ELSE mail[j]]
SuccessMailed(j) ==
    /\ mail[j] = <<>> /\ Succeeds(j)
    /\ mail' = [mail EXCEPT ![j] = <<"SUCCESS">>]

LEMMA FailSeenMails ==
    ASSUME QueueInv, NEW J \in SUBSET Jobs, FailSeen(J), \A k \in J : txn[k].kind # "none"
    PROVE  \E K \in SUBSET Jobs : FailuresMailed(K)
<1> DEFINE K == {k \in J : txn[k].seen = "PROGRESS"}
<1>1. \A k \in K : mail[k] = <<>>
  <2> SUFFICES ASSUME NEW k \in K PROVE mail[k] = <<>>  OBVIOUS
  <2>1. k \in Jobs /\ QueueTypeOK /\ JobInv(k)  BY InvByJob
  <2>2. QED  BY <2>1, OpenRow
<1>2. \A k \in K : Append(mail[k], "FAILED") = <<"FAILED">>
  <2>1. "FAILED" \in Final  BY DEF Final
  <2>2. Append(<<>>, "FAILED") = <<"FAILED">>  BY <2>1, FirstMail
  <2>3. QED  BY <1>1, <2>2
<1>3. mail' = [k \in Jobs |-> IF k \in K THEN Append(mail[k], "FAILED") ELSE mail[k]]
  BY DEF FailSeen
<1>4. mail' = [k \in Jobs |-> IF k \in K THEN <<"FAILED">> ELSE mail[k]]  BY <1>2, <1>3
<1>5. K \in SUBSET Jobs  OBVIOUS
<1>6. QED  BY <1>1, <1>4, <1>5 DEF FailuresMailed

LEMMA MailStep ==
    ASSUME QueueInv, QueueAlone
    PROVE  \/ UNCHANGED mail
           \/ \E J \in SUBSET Jobs : FailuresMailed(J)
           \/ \E j \in Jobs : SuccessMailed(j)
<1>1. QueueTypeOK /\ \A k \in Jobs : JobInv(k)  BY InvByJob
<1>2. ASSUME NEW j \in Jobs, UserStep(j) \/ ExpireLeases(j) \/ Rollback(j)
      PROVE  UNCHANGED mail
  BY <1>2 DEF UserStep, CreateJob, QueueJob, QueueFails, CreateCrash, DeleteJob, RequestStop,
              StopRead, StopWrite, StopCrash, ExpireLeases, Rollback
<1>3. ASSUME NEW j \in Jobs, ClaimDrop(j) \/ ExpireCommit(j)
      PROVE  \E J \in SUBSET Jobs : FailuresMailed(J)
  <2>1. FailSeen({j}) /\ txn[j].kind # "none"  BY <1>3 DEF ClaimDrop, ExpireCommit
  <2>2. {j} \in SUBSET Jobs /\ \A k \in {j} : txn[k].kind # "none"  BY <2>1
  <2>3. QED  BY <2>1, <2>2, FailSeenMails
<1>4. ASSUME NEW j \in Jobs, FinishCommit(j)
      PROVE  UNCHANGED mail \/ FailuresMailed({j}) \/ SuccessMailed(j)
  <2>1. mail[j] = <<>> /\ txn[j].kind = "finish" /\ txn[j].final \in Final \cup {"GONE"}
    BY <1>1, <1>4, OpenRow DEF FinishCommit, JobInv, ReadStaysTrue
  <2>2. mail' = [mail EXCEPT ![j] = IF txn[j].final \in {"GONE", "STOPPED"} THEN mail[j]
                                    ELSE Append(mail[j], txn[j].final)]
    BY <1>4 DEF FinishCommit
  <2>3. CASE txn[j].final \in {"GONE", "STOPPED"}
    <3>1. mail' = [mail EXCEPT ![j] = mail[j]]  BY <2>2, <2>3
    <3>2. QED  BY <1>1, <3>1 DEF QueueTypeOK
  <2>4. CASE txn[j].final \notin {"GONE", "STOPPED"}
    <3>1. mail' = [mail EXCEPT ![j] = <<txn[j].final>>]
      <4>1. Append(mail[j], txn[j].final) = <<txn[j].final>>  BY <2>1, <2>4, FirstMail
      <4>2. QED  BY <2>2, <2>4, <4>1
    <3>2. CASE txn[j].final = "SUCCESS"
      BY <2>1, <3>1, <3>2 DEF SuccessMailed, Succeeds
    <3>3. CASE txn[j].final = "FAILED"
      BY <1>1, <2>1, <3>1, <3>3 DEF FailuresMailed, QueueTypeOK
    <3>4. QED  BY <2>1, <2>4, <3>2, <3>3 DEF Final
  <2>5. QED  BY <2>3, <2>4
<1>5. ASSUME NEW w \in Workers, AdminStep(w)
      PROVE  UNCHANGED mail \/ \E J \in SUBSET Jobs : FailuresMailed(J)
  <2>1. CASE RevokeCommit(w)
    <3>1. /\ FailSeen(RevokedRows(w)) /\ \A k \in RevokedRows(w) : txn[k].kind # "none"
          /\ RevokedRows(w) \in SUBSET Jobs
      BY <2>1 DEF RevokeCommit, RevokedRows
    <3>2. QED  BY <3>1, FailSeenMails
  <2>2. QED  BY <1>5, <2>1 DEF AdminStep, RevokeWorker, RevokeRollback
<1>6. ASSUME NEW w \in Workers, PollEnd(w) \/ \E j \in Jobs : TryClaim(w, j)
      PROVE  UNCHANGED mail
  BY <1>6 DEF PollEnd, TryClaim
<1>7. CASE Tick  BY <1>7 DEF Tick
<1>8. QED
  <2>1. \A j \in Jobs : {j} \in SUBSET Jobs  OBVIOUS
  <2>2. QED  BY <1>2, <1>3, <1>4, <1>5, <1>6, <1>7, <2>1 DEF QueueAlone

\* What the owner was told, by the mail
LEMMA ToldOf ==
    /\ toldOf = [j \in Jobs |-> toldOf[j]] /\ toldOf' = [j \in Jobs |-> toldOf'[j]]
    /\ \A j \in Jobs :
        /\ mail[j] = <<>> => toldOf[j] = "nothing"
        /\ mail'[j] = mail[j] => toldOf'[j] = toldOf[j]
        /\ \A f \in Final : mail'[j] = <<f>> => toldOf'[j] = f
<1>1. OutcomeIn(<<>>) = "nothing"  BY FirstMail DEF OutcomeIn
<1>2. ASSUME NEW f \in Final PROVE OutcomeIn(<<f>>) = f
  <2>1. Len(<<f>>) = 1 /\ Head(<<f>>) = f /\ <<f>> # <<>>  BY FirstMail
  <2>2. QED  BY <2>1 DEF OutcomeIn
<1>3. QED  BY <1>1, <1>2 DEF toldOf

LEMMA PromiseInitially == JobsInit => Promise!PromiseInit
<1> SUFFICES ASSUME JobsInit PROVE Promise!PromiseInit  OBVIOUS
<1>1. /\ \A w \in Workers, j \in Jobs : rclone[w][j] = "none"
      /\ \A j \in Jobs : mail[j] = <<>>
  BY DEF JobsInit, Agent!AgentInit, QueueInit
<1>2. runOf = [j \in Jobs |-> "none"]  BY <1>1 DEF runOf, Active
<1>3. toldOf = [j \in Jobs |-> "nothing"]  BY <1>1, ToldOf
<1>4. QED  BY <1>2, <1>3 DEF Promise!PromiseInit

LEMMA PromiseStep ==
    JobsInv /\ JobsInv' /\ [JobsNext]_jobsVars => [Promise!PromiseNext]_(Promise!promiseVars)
<1> SUFFICES ASSUME JobsInv, JobsInv', [JobsNext]_jobsVars
             PROVE  [Promise!PromiseNext]_(Promise!promiseVars)
  OBVIOUS
<1>1. CASE UNCHANGED jobsVars
  <2>1. UNCHANGED <<rclone, mail>>  BY <1>1 DEF jobsVars, queueVars
  <2>2. UNCHANGED <<runOf, toldOf>>  BY <2>1 DEF runOf, toldOf, Active
  <2>3. QED  BY <2>2 DEF Promise!promiseVars
\* The agents move
<1>2. CASE JobsNext /\ UNCHANGED mail
  <2>1. UNCHANGED toldOf  BY <1>2 DEF toldOf
  <2>2. ASSUME NEW j \in Jobs, runOf[j] = "none", runOf'[j] \in {"active", "failed"},
               runOf' = [runOf EXCEPT ![j] = runOf'[j]]
        PROVE  Promise!PromiseNext
    BY <2>1, <2>2 DEF Promise!PromiseNext, Promise!Start
  <2>3. ASSUME NEW j \in Jobs, runOf[j] = "active", runOf' = [runOf EXCEPT ![j] = "ok"]
        PROVE  Promise!PromiseNext
    BY <2>1, <2>3 DEF Promise!PromiseNext, Promise!Succeed
  <2>4. ASSUME NEW J \in SUBSET Jobs, \A j \in J : runOf[j] = "active",
               runOf' = [j \in Jobs |-> IF j \in J THEN "failed" ELSE runOf[j]]
        PROVE  Promise!PromiseNext
    BY <2>1, <2>4 DEF Promise!PromiseNext, Promise!Fail
  <2>5. CASE UNCHANGED runOf  BY <2>1, <2>5 DEF Promise!promiseVars
  <2>6. QED  BY <1>2, <2>2, <2>3, <2>4, <2>5, RunStep
\* The queue sends mail
<1>3. CASE QueueAlone /\ UNCHANGED agentVars
  <2>1. UNCHANGED runOf  BY <1>3 DEF runOf, Active, agentVars
  <2>2. QueueInv  BY DEF JobsInv
  <2>3. CASE UNCHANGED mail
    BY <2>1, <2>3 DEF toldOf, Promise!promiseVars
  <2>4. ASSUME NEW J \in SUBSET Jobs, FailuresMailed(J)
        PROVE  Promise!PromiseNext
    <3>1. \A j \in J : toldOf[j] = "nothing"  BY <2>4, ToldOf DEF FailuresMailed
    <3>2. "FAILED" \in Final  BY DEF Final
    <3>3. \A j \in Jobs : toldOf'[j] = IF j \in J THEN "FAILED" ELSE toldOf[j]
      BY <2>4, <3>2, ToldOf DEF FailuresMailed
    <3>4. toldOf' = [j \in Jobs |-> IF j \in J THEN "FAILED" ELSE toldOf[j]]  BY <3>3, ToldOf
    <3>5. QED  BY <2>1, <3>1, <3>4 DEF Promise!PromiseNext, Promise!TellFailure
  <2>5. ASSUME NEW j \in Jobs, SuccessMailed(j)
        PROVE  Promise!PromiseNext
    <3>1. PICK w \in Workers : rclone[w][j] = "ok"
      BY <2>5 DEF SuccessMailed, JobsInv, SuccessTrue, EndedWell
    <3>2. runOf[j] = "ok"  BY <3>1, RunOfAgent DEF Involved, Started, RunState
    <3>3. toldOf[j] = "nothing"  BY <2>5, ToldOf DEF SuccessMailed
    <3>4. "SUCCESS" \in Final  BY DEF Final
    <3>5. \A k \in Jobs : mail'[k] = IF k = j THEN <<"SUCCESS">> ELSE mail[k]
      BY <2>2, <2>5 DEF SuccessMailed, QueueInv, QueueTypeOK
    <3>6. \A k \in Jobs : toldOf'[k] = IF k = j THEN "SUCCESS" ELSE toldOf[k]
      BY <3>4, <3>5, ToldOf
    <3>7. toldOf' = [toldOf EXCEPT ![j] = "SUCCESS"]  BY <3>6, ToldOf
    <3>8. QED  BY <2>1, <3>2, <3>3, <3>7 DEF Promise!PromiseNext, Promise!TellSuccess
  <2>6. QED  BY <1>3, <2>2, <2>3, <2>4, <2>5, MailStep
<1>4. QED  BY <1>1, <1>2, <1>3, MailOrRun

\* The queue and its agents keep the promise: rclone is started once, the outcome is told
\* once, and a success only after rclone ended well.
THEOREM PromiseIsKept == JobsSpec => KeepsPromise
<1>1. JobsInit => Promise!PromiseInit  BY PromiseInitially
<1>2. JobsInv /\ JobsInv' /\ [JobsNext]_jobsVars => [Promise!PromiseNext]_(Promise!promiseVars)
  BY PromiseStep
<1>3. QED
  BY <1>1, <1>2, JobsInvariant, PTL DEF JobsSpec, KeepsPromise, Promise!PromiseSpec
=============================================================================
