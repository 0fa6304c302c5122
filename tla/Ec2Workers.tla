------------------------------ MODULE Ec2Workers ------------------------------
(* Temporary EC2 workers (managers/ec2_launcher.py, the bootstrap tokens of     *)
(* managers/worker_manager.py and the worker's --once): the launcher and the    *)
(* reaper start one instance per attempt for a job of the EC2 pool, whose       *)
(* worker exchanges a token, runs that job and shuts the instance down.         *)
(*                                                                             *)
(* A pass of the launcher or the reaper has the advisory lock; it goes on in    *)
(* steps where it commits or calls AWS, and may end anywhere. Ages count ticks  *)
(* and stop where nothing more depends on them.                                *)
EXTENDS Naturals, Sequences, FiniteSets

CONSTANTS Jobs,         \* numbers: jobs of the pool, in the order they are queued
          Bytes,        \* job -> what its source holds; Huge: not measured
          Huge,
          TypeRules,    \* MOTUZ_EC2_INSTANCE_TYPES: a sequence of [limit, type]
          MaxWorkers,   \* MOTUZ_EC2_MAX_WORKERS
          RetryAfter, BootTimeout, UnknownGrace, MaxRuntime,   \* in ticks
          MaxInstances, \* bound: instances ever started
          MaxFaults     \* bound: calls that fail, instances that die, processes that end

ASSUME Ec2Assumption ==
    /\ Jobs \subseteq Nat /\ Len(TypeRules) > 0
    /\ {MaxWorkers, RetryAfter, BootTimeout, UnknownGrace, MaxRuntime} \subseteq Nat \ {0}
    /\ RetryAfter < BootTimeout /\ BootTimeout < MaxRuntime
    /\ {MaxInstances, MaxFaults} \subseteq Nat

VARIABLES
    job,     \* job -> [state (RemoteJob.state, DONE: and the job has ended), runner (instance)]
    row,     \* <<job, attempt>> -> its ec2_worker
    inst,    \* the instances EC2 has started, by number, each with its bootstrap token
    pass,    \* what the holder of the advisory lock does
    faults,
    cut,     \* history: instances that were terminated while their worker ran its job in time
    stranded \* history: jobs whose launcher died between "no instance" and the next attempt

ec2Vars == <<job, row, inst, pass, faults, cut, stranded>>

Attempts == Jobs \X {1, 2}
Alive    == {"pending", "running", "stopping", "stopped"}
Ended    == {"shutting-down", "terminated"}
\* Mutant: a row without an instance does not count.
AliveOnly == Alive
Active   == {"launching"} \cup Alive
Opened   == Active \cup {"shutting-down"}

NoRow   == [state |-> "none", inst |-> 0, type |-> "none", age |-> 0]
NoPass  == [kind |-> "none", at |-> <<0, 0>>, pc |-> "none", seen |-> << >>, todo |-> {}, sure |-> FALSE]

Ec2Init ==
    /\ job = [j \in Jobs |-> [state |-> "none", runner |-> 0]]
    /\ row = [r \in Attempts |-> NoRow]
    /\ inst = << >> /\ pass = NoPass /\ faults = 0
    /\ cut = {} /\ stranded = {}

Open(j)   == job[j].state \in {"QUEUED", "RUNNING"}
InState(S) == {i \in DOMAIN inst : inst[i].state \in S}
Fault == faults < MaxFaults /\ faults' = faults + 1
\* A row lock of the pass on the job: claims skip the job.
Locked(j) == pass.pc \in {"terminate", "record"} /\ pass.at[1] = j

----------------------------------------------------------------------------
(* The table of instance types (ec2_config.py).                              *)

ChooseType(bytes) ==
    LET fits == {k \in DOMAIN TypeRules : bytes < TypeRules[k].limit}
    IN  IF bytes = Huge \/ fits = {} THEN TypeRules[Len(TypeRules)].type
        ELSE TypeRules[CHOOSE k \in fits : \A l \in fits : k =< l].type

FirstOf(type) == CHOOSE k \in DOMAIN TypeRules :
                    TypeRules[k].type = type /\ \A l \in 1 .. k - 1 : TypeRules[l].type # type
Types == {TypeRules[k].type : k \in DOMAIN TypeRules}
\* The next other type of the table, for the last the one before; "none" if it has only one.
FallbackType(type) ==
    LET later   == {t \in Types : FirstOf(t) > FirstOf(type)}
        earlier == {t \in Types : FirstOf(t) < FirstOf(type)}
    IN  IF later # {} THEN CHOOSE t \in later : \A u \in later : FirstOf(t) =< FirstOf(u)
        ELSE IF earlier # {} THEN CHOOSE t \in earlier : \A u \in earlier : FirstOf(u) =< FirstOf(t)
        ELSE "none"

----------------------------------------------------------------------------
(* Jobs.                                                                     *)

QueueJob(j) ==
    /\ job[j].state = "none" /\ \A k \in Jobs : k < j => job[k].state # "none"
    /\ job' = [job EXCEPT ![j].state = "QUEUED"]
    /\ UNCHANGED <<row, inst, pass, faults, cut, stranded>>

\* The user stops a job that waits, or the job is gone with its connection.
StopJob(j) ==
    /\ job[j].state = "QUEUED" /\ ~Locked(j)
    /\ job' = [job EXCEPT ![j].state = "DONE"]
    /\ UNCHANGED <<row, inst, pass, faults, cut, stranded>>

\* fail_remote_job: nothing, if the job has ended.
Failed(j) == IF job[j].state = "DONE" THEN job ELSE [job EXCEPT ![j].state = "DONE"]
\* Mutant: when the instance is gone, only a job that was running fails.
OnlyRunning(j) == IF job[j].state = "RUNNING" THEN Failed(j) ELSE job
InstanceLost(j) == Failed(j)

----------------------------------------------------------------------------
(* Passes: dispatch and reap.                                                *)

\* The advisory lock, and what DescribeInstances lists.
StartPass(kind) ==
    /\ pass.kind = "none"
    /\ pass' = [NoPass EXCEPT !.kind = kind, !.pc = "rows",
                   !.seen = [i \in {k \in DOMAIN inst : inst[k].listed} |-> inst[i].state],
                   !.todo = IF kind = "reap" THEN {r \in Attempts : row[r].state \in Opened} ELSE {}]
    /\ UNCHANGED <<job, row, inst, faults, cut, stranded>>

ThePass(where) == pass.pc = where
Goes(where)    == pass' = [pass EXCEPT !.pc = where]
RowDone        == pass' = [pass EXCEPT !.pc = "rows", !.todo = @ \ {pass.at}]
Started(r) == {i \in DOMAIN inst : <<inst[i].job, inst[i].attempt>> = r}
\* expire_bootstrap_token of the row: its instance's token is invalid, unless it was used.
Expired(r) == [i \in DOMAIN inst |->
                 IF i \in Started(r) /\ inst[i].token = "valid" THEN [inst[i] EXCEPT !.token = "expired"]
                 ELSE inst[i]]

\* _launch_failed is committed before the next attempt, or the job's failure.
LaunchFailed(r, capacity) ==
    /\ row' = [row EXCEPT ![r].state = "failed"]
    /\ inst' = Expired(r)
    /\ pass' = [pass EXCEPT !.at = r, !.todo = @ \ {r}, !.pc =
                    IF capacity /\ r[2] = 1 /\ FallbackType(row[r].type) # "none" THEN "fallback" ELSE "fail"]
FailTheJob ==
    /\ ThePass("fail")
    /\ job' = Failed(pass.at[1])
    /\ RowDone
    /\ UNCHANGED <<row, inst, faults, cut, stranded>>

\* _reap_row, of a row whose instance is not known: was one seen under its client token?
SeenFor(r) == {i \in DOMAIN pass.seen : i \in Started(r)}
TakeRow(r) ==
    /\ ThePass("rows") /\ pass.kind = "reap" /\ r \in pass.todo
    /\ \/ /\ row[r].state # "launching" \/ SeenFor(r) # {}
          /\ pass' = [pass EXCEPT !.at = r, !.pc = "known"] /\ UNCHANGED <<row, inst>>
       \/ /\ row[r].state = "launching" /\ SeenFor(r) = {}
          /\ \/ ~Open(r[1]) /\ row' = [row EXCEPT ![r].state = "failed"] /\ inst' = Expired(r)
                            /\ pass' = [pass EXCEPT !.todo = @ \ {r}]
             \/ Open(r[1]) /\ row[r].age > BootTimeout /\ LaunchFailed(r, FALSE)
             \/ Open(r[1]) /\ row[r].age \in RetryAfter .. BootTimeout
                           /\ pass' = [pass EXCEPT !.at = r, !.pc = "start"] /\ UNCHANGED <<row, inst>>
             \/ Open(r[1]) /\ row[r].age < RetryAfter
                           /\ pass' = [pass EXCEPT !.todo = @ \ {r}] /\ UNCHANGED <<row, inst>>
    /\ UNCHANGED <<job, faults, cut, stranded>>

\* launch: the row of an attempt is committed before anything is started.
Launch(j, attempt, type) ==
    /\ job[j].state = "QUEUED" /\ row[<<j, attempt>>] = NoRow
    /\ row' = [row EXCEPT ![<<j, attempt>>].state = "launching", ![<<j, attempt>>].type = type]
    /\ pass' = [pass EXCEPT !.at = <<j, attempt>>, !.pc = "start"]
Fallback ==
    /\ ThePass("fallback")
    /\ LET j == pass.at[1] IN
       IF job[j].state = "QUEUED" /\ row[<<j, 2>>] = NoRow
       THEN Launch(j, 2, FallbackType(row[pass.at].type))
       ELSE Goes("fail") /\ UNCHANGED row
    /\ UNCHANGED <<job, inst, faults, cut, stranded>>

\* _start: the token of an earlier try is expired, and a job that is still queued gets a new one.
MakeToken ==
    LET r == pass.at IN
    /\ ThePass("start")
    /\ inst' = Expired(r)
    /\ IF job[r[1]].state = "QUEUED" THEN Goes("run") /\ UNCHANGED row
       ELSE row' = [row EXCEPT ![r].state = "failed"] /\ RowDone
    /\ UNCHANGED <<job, faults, cut, stranded>>

\* ... and RunInstances: with the client token of an instance that was started already (and
\* other user data) it is refused, and the instance is looked up.
AdoptedRow(r, i) == [row EXCEPT ![r].state = "pending", ![r].inst = i, ![r].age = 0]
Instance(r) == [job |-> r[1], attempt |-> r[2], token |-> "valid", state |-> "pending",
                listed |-> FALSE, reason |-> "none", age |-> 0, agent |-> "boot"]
RunAgain ==
    LET r == pass.at IN
    /\ ThePass("run") /\ Started(r) # {}
    /\ row' = IF \E i \in Started(r) : inst[i].listed
              THEN AdoptedRow(r, CHOOSE i \in Started(r) : inst[i].listed) ELSE row
    /\ RowDone
    /\ UNCHANGED <<job, inst, faults, cut, stranded>>
RunInstance ==
    LET r == pass.at IN
    /\ ThePass("run") /\ Started(r) = {} /\ Len(inst) < MaxInstances
    /\ inst' = Append(inst, Instance(r))
    /\ row' = AdoptedRow(r, Len(inst) + 1)
    /\ RowDone
    /\ UNCHANGED <<job, faults, cut, stranded>>
\* The answer is lost, or a transient error: the row stays as it is.
RunUnsure ==
    LET r == pass.at IN
    /\ ThePass("run") /\ Started(r) = {} /\ Fault
    /\ \/ Len(inst) < MaxInstances /\ inst' = Append(inst, Instance(r))
       \/ UNCHANGED inst
    /\ RowDone
    /\ UNCHANGED <<job, row, cut, stranded>>
RunRefused ==
    /\ ThePass("run") /\ Started(pass.at) = {} /\ Fault
    /\ \E capacity \in BOOLEAN : LaunchFailed(pass.at, capacity)
    /\ UNCHANGED <<job, cut, stranded>>

\* The rest of _reap_row: the row gets the state that was seen (adopting the instance), and,
\* with the job's row locked, it is decided whether the instance has to go.
SeenState(r) == IF row[r].state = "launching" THEN pass.seen[CHOOSE i \in SeenFor(r) : TRUE]
                ELSE IF row[r].inst \in DOMAIN pass.seen THEN pass.seen[row[r].inst]
                ELSE row[r].state
InstanceOf(r) == IF row[r].state = "launching" THEN CHOOSE i \in SeenFor(r) : TRUE ELSE row[r].inst
TooLong(r)    == inst[InstanceOf(r)].age > MaxRuntime
NotBooted(r)  == job[r[1]].state = "QUEUED" /\ inst[InstanceOf(r)].age > BootTimeout
Failing(r)    == SeenState(r) \in {"stopping", "stopped"} \/ TooLong(r) \/ NotBooted(r)
LookAtRow ==
    LET r == pass.at IN
    /\ ThePass("known")
    /\ IF SeenState(r) \in Alive
       THEN /\ row' = [row EXCEPT ![r].state = SeenState(r), ![r].inst = InstanceOf(r), ![r].age = 0]
            /\ IF ~Open(r[1]) \/ Failing(r) THEN Goes("terminate") ELSE RowDone
            /\ UNCHANGED <<job, inst>>
       ELSE LET capacity == /\ job[r[1]].state = "QUEUED" /\ r[2] = 1
                            /\ inst[InstanceOf(r)].reason = "capacity"
                            /\ FallbackType(row[r].type) # "none"
            IN /\ row' = [row EXCEPT ![r].state = SeenState(r), ![r].inst = InstanceOf(r), ![r].age = 0]
               /\ inst' = Expired(r)
               /\ IF Open(r[1]) /\ capacity
                  THEN pass' = [pass EXCEPT !.pc = "fallback", !.todo = @ \ {r}] /\ UNCHANGED job
                  ELSE RowDone /\ job' = InstanceLost(r[1])
    /\ UNCHANGED <<faults, cut, stranded>>

Gone(i) == [inst EXCEPT ![i].state = IF @ = "terminated" THEN @ ELSE "shutting-down", ![i].agent = "over"]
\* TerminateInstances; it may fail.
Works(i) == inst[i].agent = "working" /\ job[inst[i].job] = [state |-> "RUNNING", runner |-> i]
Terminate ==
    LET i == row[pass.at].inst IN
    /\ ThePass("terminate")
    /\ \/ /\ inst' = Gone(i)
          /\ cut' = IF Works(i) /\ inst[i].age =< MaxRuntime /\ inst[i].state = "running"
                    THEN cut \cup {i} ELSE cut
          /\ pass' = [pass EXCEPT !.pc = "record", !.sure = TRUE]
          /\ UNCHANGED faults
       \/ /\ Fault
          /\ pass' = [pass EXCEPT !.pc = "record", !.sure = FALSE]
          /\ UNCHANGED <<inst, cut>>
    /\ UNCHANGED <<job, row, stranded>>
\* The row and, unless it had ended, the job are committed together.
Record ==
    LET r == pass.at IN
    /\ ThePass("record")
    /\ row' = IF pass.sure THEN [row EXCEPT ![r].state = "shutting-down"] ELSE row
    /\ inst' = IF Open(r[1]) THEN Expired(r) ELSE inst
    /\ job' = Failed(r[1])
    /\ RowDone
    /\ UNCHANGED <<faults, cut, stranded>>

\* Worker instances that no row knows are terminated after a while.
Known == {row[r].inst : r \in Attempts}
Unknown == {i \in DOMAIN pass.seen \ Known :
              pass.seen[i] \in Alive /\ inst[i].age > UnknownGrace /\ inst[i].state \in Alive}
TerminateUnknown(i) ==
    /\ ThePass("rows") /\ pass.kind = "reap" /\ pass.todo = {} /\ i \in Unknown
    /\ inst' = Gone(i)
    /\ cut' = IF Works(i) /\ inst[i].age =< MaxRuntime THEN cut \cup {i} ELSE cut
    /\ UNCHANGED <<job, row, pass, faults, stranded>>

\* _active_count: rows that may have an instance, and instances that no row knows.
ActiveCount ==
    Cardinality({r \in Attempts : row[r].state \in Active})
    + Cardinality({i \in DOMAIN pass.seen : pass.seen[i] \in Alive} \ Known)
\* dispatch: the first queued job that never had an instance, while there is a free slot.
Waiting == {j \in Jobs : job[j].state = "QUEUED" /\ row[<<j, 1>>] = NoRow}
Dispatch ==
    /\ ThePass("rows") /\ pass.kind = "dispatch" /\ ActiveCount < MaxWorkers
    /\ \E j \in Waiting : /\ \A k \in Waiting : j =< k
                          /\ Launch(j, 1, ChooseType(Bytes[j]))
    /\ UNCHANGED <<job, inst, faults, cut, stranded>>

\* A call to terminate an unknown instance may have failed.
EndPass ==
    /\ ThePass("rows") /\ pass.todo = {}
    /\ IF pass.kind = "reap" /\ Unknown # {} THEN Fault ELSE UNCHANGED faults
    /\ pass.kind = "dispatch" => Waiting = {} \/ ActiveCount >= MaxWorkers
    /\ pass' = NoPass
    /\ UNCHANGED <<job, row, inst, cut, stranded>>

\* The process dies (or its database): its locks are free.
PassCrash ==
    /\ pass.kind # "none" /\ Fault
    /\ stranded' = IF pass.pc \in {"fallback", "fail"} THEN stranded \cup {pass.at[1]} ELSE stranded
    /\ pass' = NoPass
    /\ UNCHANGED <<job, row, inst, cut>>

PassStep ==
    \/ \E r \in Attempts : TakeRow(r)
    \/ FailTheJob \/ Fallback
    \/ MakeToken \/ RunAgain \/ RunInstance \/ RunUnsure \/ RunRefused
    \/ LookAtRow \/ Terminate \/ Record
    \/ \E i \in DOMAIN inst : TerminateUnknown(i)
    \/ Dispatch \/ EndPass

----------------------------------------------------------------------------
(* The instances and their workers.                                          *)

\* DescribeInstances lists a new instance after a while (before a tick is over).
Listed(i) ==
    /\ ~inst[i].listed
    /\ inst' = [inst EXCEPT ![i].listed = TRUE]
    /\ UNCHANGED <<job, row, pass, faults, cut, stranded>>

\* The instance has booted (which takes longer than EC2 needs to list it, or a pass to go on)
\* and its worker exchanges the token: once, and in time. An answer that is lost is a token
\* that was used.
Booted(i) ==
    /\ inst[i].agent = "boot" /\ inst[i].state \in {"pending", "running"} /\ inst[i].listed
    /\ pass.kind # "none" => i \in DOMAIN pass.seen
Usable(i) == inst[i].token = "valid" /\ inst[i].age =< BootTimeout
SignIn(i) ==
    /\ Booted(i)
    /\ \/ /\ Usable(i)
          /\ inst' = [inst EXCEPT ![i].state = "running", ![i].token = "used", ![i].agent = "signed in"]
          /\ UNCHANGED faults
       \/ /\ Usable(i) /\ Fault
          /\ inst' = [inst EXCEPT ![i].state = "running", ![i].token = "used"]
       \/ /\ ~Usable(i)
          /\ inst' = [inst EXCEPT ![i].state = "running", ![i].agent = "over"]
          /\ UNCHANGED faults
    /\ UNCHANGED <<job, row, pass, cut, stranded>>

\* Mutant: the claim does not skip a locked job: it takes what it read before.
AnyQueued(j) == job[j].state = "QUEUED"
\* The one job the worker is bound to.
Claimable(j) == job[j].state = "QUEUED" /\ ~Locked(j)
ClaimJob(i) ==
    /\ inst[i].agent = "signed in" /\ inst[i].state = "running" /\ Claimable(inst[i].job)
    /\ job' = [job EXCEPT ![inst[i].job] = [state |-> "RUNNING", runner |-> i]]
    /\ inst' = [inst EXCEPT ![i].agent = "working"]
    /\ UNCHANGED <<row, pass, faults, cut, stranded>>

\* --once: the worker ends with its job, or when there is none to claim.
Finish(i) ==
    /\ inst[i].agent = "working" /\ inst[i].state = "running"
    /\ job' = IF Works(i) THEN [job EXCEPT ![inst[i].job].state = "DONE"] ELSE job
    /\ inst' = [inst EXCEPT ![i].agent = "over"]
    /\ UNCHANGED <<row, pass, faults, cut, stranded>>
NoJob(i) ==
    /\ inst[i].agent = "signed in" /\ job[inst[i].job].state = "DONE"
    /\ inst' = [inst EXCEPT ![i].agent = "over"]
    /\ UNCHANGED <<job, row, pass, faults, cut, stranded>>

\* worker-user-data.sh: the instance shuts down after the worker, whatever happened, and by
\* its own timer if the reaper did not come; the template terminates it then.
ShutsDown(i) ==
    /\ inst[i].state \in {"pending", "running"}
    /\ inst[i].agent = "over" \/ inst[i].age > MaxRuntime + 1
    /\ inst' = [inst EXCEPT ![i].state = "terminated", ![i].agent = "over"]
    /\ UNCHANGED <<job, row, pass, faults, cut, stranded>>

Dies(i) ==
    /\ inst[i].state \in {"pending", "running"} /\ Fault
    /\ \E state \in {"stopped", "terminated"}, reason \in {"none", "capacity"} :
          /\ reason = "capacity" => state = "terminated" /\ inst[i].agent = "boot"
          /\ inst' = [inst EXCEPT ![i].state = state, ![i].reason = reason, ![i].agent = "over"]
    /\ UNCHANGED <<job, row, pass, cut, stranded>>
Terminated(i) ==
    /\ inst[i].state = "shutting-down"
    /\ inst' = [inst EXCEPT ![i].state = "terminated"]
    /\ UNCHANGED <<job, row, pass, faults, cut, stranded>>

\* expire_leases: nobody reports for a running job.
LeaseExpires(j) ==
    /\ job[j].state = "RUNNING" /\ inst[job[j].runner].agent # "working" /\ ~Locked(j)
    /\ job' = [job EXCEPT ![j].state = "DONE"]
    /\ UNCHANGED <<row, inst, pass, faults, cut, stranded>>

Older(age) == IF age > MaxRuntime + 1 THEN age ELSE age + 1
Ec2Tick ==
    /\ \A i \in DOMAIN inst : inst[i].listed
    /\ inst' = [i \in DOMAIN inst |-> [inst[i] EXCEPT !.age = IF inst[i].state \in Alive THEN Older(@) ELSE @]]
    /\ row'  = [r \in Attempts |-> [row[r] EXCEPT !.age = IF row[r].state = "launching" THEN Older(@) ELSE @]]
    /\ <<inst', row'>> # <<inst, row>>
    /\ UNCHANGED <<job, pass, faults, cut, stranded>>

InstanceStep(i) ==
    i \in DOMAIN inst /\ (\/ Listed(i) \/ SignIn(i) \/ ClaimJob(i) \/ Finish(i) \/ NoJob(i)
                          \/ ShutsDown(i) \/ Terminated(i))

Ec2Next ==
    \/ \E j \in Jobs : QueueJob(j) \/ StopJob(j) \/ LeaseExpires(j)
    \/ StartPass("reap") \/ StartPass("dispatch") \/ PassStep \/ PassCrash
    \/ \E i \in DOMAIN inst : InstanceStep(i) \/ Dies(i)
    \/ Ec2Tick

Ec2Spec == Ec2Init /\ [][Ec2Next]_ec2Vars

\* The reaper's loop goes on and takes the lock in its turn, EC2 and the leases go on, and
\* time does; a worker need not be able to sign in or ever finish.
Ec2Fairness ==
    /\ WF_ec2Vars(PassStep) /\ SF_ec2Vars(StartPass("reap")) /\ SF_ec2Vars(StartPass("dispatch"))
    /\ WF_ec2Vars(Ec2Tick)
    /\ \A j \in Jobs : WF_ec2Vars(LeaseExpires(j))
    /\ \A i \in 1 .. MaxInstances :
          WF_ec2Vars(i \in DOMAIN inst /\ (Listed(i) \/ ShutsDown(i) \/ Terminated(i)))

----------------------------------------------------------------------------
\* No instance is terminated while its worker runs its job within the time it has: neither a
\* boot timeout nor the search for unknown instances ever catches one that has claimed its job.
WorkIsNotCut == cut = {}

\* At most MOTUZ_EC2_MAX_WORKERS instances that a row knows are alive, retries and second
\* attempts included, and no two of them are for the same job.
InstancesWithinLimit ==
    LET alive == {i \in InState(Alive) : i \in Known \/ \E r \in Attempts :
                                             row[r].state = "launching" /\ i \in Started(r)}
    IN  /\ Cardinality(alive) =< MaxWorkers
        /\ \A i, k \in alive : inst[i].job = inst[k].job => i = k

\* Every job that was queued ends, and every instance too, whatever is lost or dies; but a
\* launcher that dies right after it recorded that there is no instance leaves the job queued.
Ec2Settles ==
    /\ \A j \in Jobs : (job[j].state = "QUEUED") ~> (job[j].state = "DONE" \/ j \in stranded)
    /\ \A i \in 1 .. MaxInstances : (i \in InState(Alive)) ~> (i \notin InState(Alive))
=============================================================================
