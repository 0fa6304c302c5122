------------------------------- MODULE Schedules -------------------------------
(* Scheduled copies (managers/schedule_manager.py) and the creation of the   *)
(* copy jobs they and their owners ask for (copy_job_manager.create_for).     *)
(*                                                                           *)
(* Runners are `manage.py schedules run --loop` processes; `web` is a request *)
(* of the owner. A process goes on in steps where it commits or waits; what   *)
(* it holds between two steps is in work[p]. The clock counts seconds of the  *)
(* calendar of ScheduleTimes. Which machine a job gets and whether it may     *)
(* overwrite or costs money is decided by JobAdmission.                       *)
EXTENDS ScheduleTimes, JobAdmission

CONSTANTS Schedules,
          Runners,
          Requests,     \* what may be copied: [src, dst, path, raw (the confirmation)]
          Configs,      \* the settings this node may be started with
          Horizon,      \* bound: the clock stops here
          MaxJobs,      \* bound: copy jobs ever created
          MaxCrashes,   \* bound: deaths of a process
          Web           \* the process that serves the owner

ASSUME ScheduleAssumption ==
    /\ Web \notin Runners /\ "none" \notin Schedules
    /\ {Horizon, MaxJobs, MaxCrashes} \subseteq Nat
    /\ \A c \in Configs : c.general \in BOOLEAN

VARIABLES
    now,
    cfg,
    row,        \* schedule -> its row of copy_schedule
    jobs,       \* the copy_job rows, by id
    places,     \* motuz_destination
    pc, work,   \* process -> where it is, and what it holds
    crashes,
    untracked   \* history: schedules whose last_job_id missed a job (see NoStackedRuns)

scheduleVars == <<now, cfg, row, jobs, places, pc, work, crashes, untracked>>

Processes == Runners \cup {Web}
NoOne     == "none"     \* the schedule of a job that its owner created directly

Nothing   == [src |-> Local, dst |-> Local, path |-> << >>, raw |-> "none"]
NoSpec    == [frequency |-> "", minute |-> 0, hour |-> 0, weekday |-> 0, day_of_month |-> 0]

Idle == [schedule |-> NoOne, at |-> 0, due |-> 0, request |-> Nothing, egress |-> "free",
         overwrite |-> FALSE, job |-> 0, last |-> 0]
NoRow == [state |-> "new", valid |-> TRUE, enabled |-> FALSE, spec |-> NoSpec, next |-> 0,
          lastJob |-> 0, request |-> Nothing, egress |-> "free"]

ScheduleInit ==
    /\ now = 0
    /\ cfg \in Configs
    /\ row = [s \in Schedules |-> NoRow]
    /\ jobs = << >> /\ places = {}
    /\ pc = [p \in Processes |-> "idle"] /\ work = [p \in Processes |-> Idle]
    /\ crashes = 0 /\ untracked = {}

Stored(s)      == row[s].state = "stored"
InProgress(j)  == j \in DOMAIN jobs /\ jobs[j].state = "PROGRESS"
RunningOf(s)   == {j \in DOMAIN jobs : jobs[j].schedule = s /\ InProgress(j)}
WorksOn(p, s)  == work[p].schedule = s /\ pc[p] \notin {"idle", "claiming", "found"}

GoTo(p, where)    == pc' = [pc EXCEPT ![p] = where]
Set(s, values)    == row' = [row EXCEPT ![s] = values]
\* The end of a request or of a runner's pass, and of one schedule within a pass.
Return(p)   == GoTo(p, "idle") /\ work' = [work EXCEPT ![p] = Idle]
NextOne(r)  == GoTo(r, "claiming") /\ work' = [work EXCEPT ![r] = [Idle EXCEPT !.at = work[r].at]]
After(p)    == IF p = Web THEN Return(p) ELSE NextOne(p)

----------------------------------------------------------------------------
(* The owner's requests.                                                     *)

\* create: a new schedule; with run_now its first job is created in the same transaction
\* ("flushed": no other process sees the row yet).
CreateSchedule(s, spec, request, runNow) ==
    /\ pc[Web] = "idle" /\ row[s].state = "new"
    /\ LET egress == Confirmed(request.src, request.dst, cfg, request.raw) IN
       /\ egress # "refused"
       /\ Set(s, [NoRow EXCEPT !.state = IF runNow THEN "flushed" ELSE "stored",
                               !.enabled = TRUE, !.spec = spec, !.next = NextRun(spec, now),
                               !.request = request, !.egress = egress])
       /\ IF runNow
          THEN /\ GoTo(Web, "creating")
               /\ work' = [work EXCEPT ![Web] = [Idle EXCEPT
                               !.schedule = s, !.request = [request EXCEPT !.raw = egress]]]
          ELSE UNCHANGED <<pc, work>>
    /\ UNCHANGED <<now, cfg, jobs, places, crashes, untracked>>

\* copy_job_manager.create: a copy the owner starts without a schedule.
CreateCopy(request) ==
    /\ pc[Web] = "idle"
    /\ GoTo(Web, "creating")
    /\ work' = [work EXCEPT ![Web] = [Idle EXCEPT !.request = request]]
    /\ UNCHANGED <<now, cfg, row, jobs, places, crashes, untracked>>

\* update_schedule: pause, or resume at the next time after now.
Pause(s) ==
    /\ Stored(s) /\ row[s].enabled
    /\ Set(s, [row[s] EXCEPT !.enabled = FALSE])
    /\ UNCHANGED <<now, cfg, jobs, places, pc, work, crashes, untracked>>

Resume(s) ==
    /\ Stored(s) /\ ~row[s].enabled /\ row[s].valid
    /\ Set(s, [row[s] EXCEPT !.enabled = TRUE, !.next = NextRun(row[s].spec, now)])
    /\ UNCHANGED <<now, cfg, jobs, places, pc, work, crashes, untracked>>

\* delete: the schedule's jobs stay.
DeleteSchedule(s) ==
    /\ Stored(s)
    /\ Set(s, [row[s] EXCEPT !.state = "deleted", !.enabled = FALSE])
    /\ UNCHANGED <<now, cfg, jobs, places, pc, work, crashes, untracked>>

\* Somebody changes the row in the database: its fields are no longer a schedule.
EditByHand(s) ==
    /\ Stored(s) /\ row[s].valid
    /\ Set(s, [row[s] EXCEPT !.valid = FALSE])
    /\ UNCHANGED <<now, cfg, jobs, places, pc, work, crashes, untracked>>

----------------------------------------------------------------------------
(* One pass of a runner (tick): it claims due schedules until there is none. *)

\* Mutant: a time is due only once it is past.
DueAtLater(t) == {s \in Schedules : Stored(s) /\ row[s].enabled /\ row[s].next < t}

\* The schedules that are due at the time the pass began, earliest first.
DueAt(t) == {s \in Schedules : Stored(s) /\ row[s].enabled /\ row[s].next =< t}
FirstOf(due) == {s \in due : \A other \in due : row[s].next =< row[other].next}

\* (A pass that finds nothing due changes nothing.)
StartTick(r) ==
    /\ pc[r] = "idle" /\ DueAt(now) # {}
    /\ GoTo(r, "claiming")
    /\ work' = [work EXCEPT ![r] = [Idle EXCEPT !.at = now]]
    /\ UNCHANGED <<now, cfg, row, jobs, places, crashes, untracked>>

Find(r) ==
    /\ pc[r] = "claiming"
    /\ LET due == DueAt(work[r].at) IN
       \/ due = {} /\ Return(r)
       \/ \E s \in FirstOf(due) :
             /\ GoTo(r, "found")
             /\ work' = [work EXCEPT ![r].schedule = s, ![r].due = row[s].next]
    /\ UNCHANGED <<now, cfg, row, jobs, places, crashes, untracked>>

\* Mutant: the update names the row only.
MayClaimAny(r, s) == Stored(s) /\ row[s].enabled

\* _claim's compare-and-set of next_run_at. (On PostgreSQL the row is locked as well; on
\* SQLite this is all there is, and it is what the model relies on.)
MayClaim(r, s) == Stored(s) /\ row[s].enabled /\ row[s].next = work[r].due

Claim(r) ==
    LET s    == work[r].schedule
        next == NextRun(row[s].spec, work[r].at) IN
    /\ pc[r] = "found" /\ row[s].valid
    /\ IF MayClaim(r, s)
       THEN /\ Set(s, [row[s] EXCEPT !.next = next])
            /\ GoTo(r, "claimed")
            /\ UNCHANGED work
            /\ untracked' = IF \E p \in Processes \ {r} : WorksOn(p, s)
                            THEN untracked \cup {s} ELSE untracked
       ELSE NextOne(r) /\ UNCHANGED <<row, untracked>>
    /\ UNCHANGED <<now, cfg, jobs, places, crashes>>

\* ... and its error path: a schedule that was changed by hand is paused.
ClaimInvalid(r) ==
    LET s == work[r].schedule IN
    /\ pc[r] = "found" /\ ~row[s].valid
    /\ Set(s, [row[s] EXCEPT !.enabled = FALSE])
    /\ NextOne(r)
    /\ UNCHANGED <<now, cfg, jobs, places, crashes, untracked>>

\* run_claimed: skip the run while the previous one goes on.
RunClaimed(r) ==
    LET s == work[r].schedule IN
    /\ pc[r] = "claimed"
    /\ IF ~Stored(s) THEN Return(r)
       ELSE IF InProgress(row[s].lastJob) THEN NextOne(r)
       ELSE /\ GoTo(r, "creating")
            /\ work' = [work EXCEPT ![r].request = [row[s].request EXCEPT !.raw = row[s].egress],
                                    ![r].last = row[s].lastJob]
    /\ UNCHANGED <<now, cfg, row, jobs, places, crashes, untracked>>

----------------------------------------------------------------------------
(* create_for, for a runner or a request.                                    *)

IsScheduled(p) == work[p].schedule # NoOne

RoomForJob == Len(jobs) + Cardinality({p \in Processes : pc[p] = "admitted"}) < MaxJobs

\* Mutant: the job registers its destination before the policy is asked.
AdmitRegistered(p) ==
    LET q == work[p].request
        egress == Confirmed(q.src, q.dst, cfg, q.raw) IN
    /\ pc[p] = "creating" /\ RoomForJob
    /\ egress # "refused"
    /\ GoTo(p, "admitted")
    /\ work' = [work EXCEPT ![p].egress = egress,
                            ![p].overwrite = IF IsScheduled(p) THEN cfg.general
                                             ELSE Decide(Register(places, q.dst, q.path), q.dst, q.path, cfg)]
    /\ UNCHANGED <<now, cfg, row, jobs, places, crashes, untracked>>

\* The checks before anything is stored.
Admit(p) ==
    LET q == work[p].request
        egress == Confirmed(q.src, q.dst, cfg, q.raw) IN
    /\ pc[p] = "creating" /\ RoomForJob
    /\ egress # "refused"
    /\ GoTo(p, "admitted")
    /\ work' = [work EXCEPT ![p].egress = egress,
                            ![p].overwrite = IF IsScheduled(p) THEN cfg.general
                                             ELSE Decide(places, q.dst, q.path, cfg)]
    /\ UNCHANGED <<now, cfg, row, jobs, places, crashes, untracked>>

\* A refusal (404: a connection is gone, 409: no room): a schedule that is being created
\* is not stored. (A schedule that was deleted meanwhile: an exception, the pass is over.)
Refuse(p) ==
    LET s == work[p].schedule IN
    /\ pc[p] = "creating"
    /\ row' = IF p = Web /\ IsScheduled(p) THEN [row EXCEPT ![s] = NoRow] ELSE row
    /\ IF IsScheduled(p) /\ row[s].state = "deleted" THEN Return(p) ELSE After(p)
    /\ UNCHANGED <<now, cfg, jobs, places, crashes, untracked>>

\* A run whose cost was not confirmed (the settings changed): its schedule is paused.
RefuseCost(r) ==
    LET s == work[r].schedule
        q == work[r].request IN
    /\ pc[r] = "creating" /\ Confirmed(q.src, q.dst, cfg, q.raw) = "refused"
    /\ IF Stored(s) THEN Set(s, [row[s] EXCEPT !.enabled = FALSE]) /\ After(r)
       ELSE UNCHANGED row /\ Return(r)
    /\ UNCHANGED <<now, cfg, jobs, places, crashes, untracked>>

\* Any other exception before the job is stored.
CreateFails(p) ==
    LET s == work[p].schedule IN
    /\ pc[p] \in {"creating", "admitted"}
    /\ row' = IF p = Web /\ IsScheduled(p) THEN [row EXCEPT ![s] = NoRow] ELSE row
    /\ IF p = Web THEN Return(p) ELSE GoTo(p, "failed") /\ UNCHANGED work
    /\ UNCHANGED <<now, cfg, jobs, places, crashes, untracked>>

\* The job, its destination and (run_now) its schedule are committed together.
StoreJob(p) ==
    LET s == work[p].schedule
        q == work[p].request IN
    /\ pc[p] = "admitted"
    /\ jobs' = Append(jobs, [state |-> "PROGRESS", schedule |-> s, due |-> work[p].due,
                             request |-> q, egress |-> work[p].egress,
                             overwrite |-> work[p].overwrite, pool |-> NoOne, fee |-> NoFee])
    /\ places' = Register(places, q.dst, q.path)
    /\ row' = IF IsScheduled(p) /\ row[s].state = "flushed"
              THEN [row EXCEPT ![s].state = "stored"] ELSE row
    /\ GoTo(p, "queueing")
    /\ work' = [work EXCEPT ![p].job = Len(jobs) + 1]
    /\ UNCHANGED <<now, cfg, crashes, untracked>>

\* The job is given to a pool: the source is measured now, whatever the user confirmed.
QueueTheJob(p) ==
    LET q == work[p].request IN
    /\ pc[p] = "queueing"
    /\ \E size \in {"unknown", "small", "large"} :
          LET pool == Route(q.src, q.dst, cfg, size) IN
          jobs' = [jobs EXCEPT ![work[p].job].pool = pool,
                               ![work[p].job].fee = Assess(q.src, q.dst, Runner(pool, cfg))]
    /\ IF IsScheduled(p) THEN GoTo(p, "recording") /\ UNCHANGED work ELSE Return(p)
    /\ UNCHANGED <<now, cfg, row, places, crashes, untracked>>

\* The broker or the database is down: the job fails and the exception goes up, to a
\* runner's error path or (a request) to the 500 answer.
QueueingFails(p) ==
    /\ pc[p] = "queueing"
    /\ jobs' = [jobs EXCEPT ![work[p].job].state = "FAILED"]
    /\ IF p = Web THEN Return(p) ELSE GoTo(p, "failed") /\ UNCHANGED work
    /\ UNCHANGED <<now, cfg, row, places, crashes, untracked>>

\* The error path of run_claimed looks for the job that this run, or an earlier one that
\* was not recorded, has left.
RecordFailure(r) ==
    LET s    == work[r].schedule
        left == {j \in DOMAIN jobs : jobs[j].schedule = s /\ j > work[r].last} IN
    /\ pc[r] = "failed"
    /\ IF Stored(s)
       THEN /\ row' = IF left = {} THEN row
                      ELSE [row EXCEPT ![s].lastJob = CHOOSE j \in left : \A i \in left : i =< j]
            /\ NextOne(r)
       ELSE UNCHANGED row /\ Return(r)
    /\ UNCHANGED <<now, cfg, jobs, places, crashes, untracked>>

\* Mutant: nothing is recorded.
RecordNothing(p) ==
    /\ pc[p] = "recording"
    /\ IF Stored(work[p].schedule) THEN After(p) ELSE Return(p)
    /\ UNCHANGED <<now, cfg, row, jobs, places, crashes, untracked>>

\* last_job_id is stored in a transaction of its own. (Without its row: an exception, and
\* the pass of a runner is over.)
Record(p) ==
    LET s == work[p].schedule IN
    /\ pc[p] = "recording"
    /\ IF Stored(s) THEN Set(s, [row[s] EXCEPT !.lastJob = work[p].job]) /\ After(p)
       ELSE UNCHANGED row /\ Return(p)
    /\ UNCHANGED <<now, cfg, jobs, places, crashes, untracked>>

----------------------------------------------------------------------------
(* The rest of the world.                                                    *)

\* A job comes to its end, one way or another.
JobEnds(j) ==
    /\ InProgress(j) /\ jobs[j].pool # NoOne
    /\ jobs' = [jobs EXCEPT ![j].state = "SUCCESS"]
    /\ UNCHANGED <<now, cfg, row, places, pc, work, crashes, untracked>>

\* A process dies and is started again: an open transaction is rolled back.
Crash(p) ==
    LET s == work[p].schedule IN
    /\ pc[p] # "idle" /\ crashes < MaxCrashes
    /\ crashes' = crashes + 1
    /\ row' = IF IsScheduled(p) /\ row[s].state = "flushed" THEN [row EXCEPT ![s] = NoRow] ELSE row
    /\ untracked' = IF IsScheduled(p) /\ pc[p] \in {"queueing", "recording"}
                    THEN untracked \cup {s} ELSE untracked
    /\ Return(p)
    /\ UNCHANGED <<now, cfg, jobs, places>>

\* The node is started again with other settings, while nothing is being created.
Reconfigure ==
    /\ \A p \in Processes : pc[p] = "idle"
    /\ cfg' \in Configs \ {cfg}
    /\ UNCHANGED <<now, row, jobs, places, pc, work, crashes, untracked>>

\* Nothing waits for a creation: the next time of its schedule may come before it is done.
ClockTick ==
    /\ now < Horizon
    /\ now' = now + 1
    /\ UNCHANGED <<cfg, row, jobs, places, pc, work, crashes, untracked>>

CreateStep(p) ==
    \/ Admit(p) \/ Refuse(p) \/ CreateFails(p) \/ StoreJob(p)
    \/ QueueTheJob(p) \/ QueueingFails(p) \/ Record(p)
RunnerStep(r) ==
    \/ StartTick(r) \/ Find(r) \/ Claim(r) \/ ClaimInvalid(r) \/ RunClaimed(r)
    \/ RefuseCost(r) \/ RecordFailure(r) \/ CreateStep(r)
OwnerStep(s) == Pause(s) \/ Resume(s) \/ DeleteSchedule(s)

ScheduleNext ==
    \/ \E r \in Runners : RunnerStep(r)
    \/ CreateStep(Web)
    \/ \E s \in Schedules, spec \in Specs, request \in Requests, runNow \in BOOLEAN :
          CreateSchedule(s, spec, request, runNow)
    \/ \E request \in Requests : CreateCopy(request)
    \/ \E s \in Schedules : OwnerStep(s) \/ EditByHand(s)
    \/ \E j \in DOMAIN jobs : JobEnds(j)
    \/ \E p \in Processes : Crash(p)
    \/ Reconfigure
    \/ ClockTick

ScheduleSpec == ScheduleInit /\ [][ScheduleNext]_scheduleVars

\* The loop of a runner goes on (it catches every exception), and so does a creation.
ScheduleFairness ==
    \A r \in Runners : WF_scheduleVars(RunnerStep(r))

----------------------------------------------------------------------------
(* Properties.                                                               *)

\* "A schedule runs once per due time even with two runners" (schedule_manager.py): no two
\* jobs, and no two runners at work, are for the same due time of a schedule, whatever
\* happens between the read of a due schedule and its claim.
Runs(s) == {[job |-> j, due |-> jobs[j].due] : j \in {i \in DOMAIN jobs : jobs[i].schedule = s}}
           \cup {[job |-> r, due |-> work[r].due] : r \in {q \in Runners : WorksOn(q, s) /\ work[q].job = 0}}
EachDueTimeOnce ==
    \A s \in Schedules : \A a, b \in Runs(s) : a.due = b.due /\ a.due > 0 => a = b

\* "A run whose previous job is still running is skipped (not stacked)": two jobs of a
\* schedule never run at the same time, unless last_job_id missed one of them. It is stored
\* in a commit after the job's, so that happens when the creator dies between the two, and
\* when the schedule is claimed while another process has not finished its last run: that
\* one took longer than the time between two runs (it was claimed shortly before the next
\* time, its pass came to it late, or its source took long to measure), or it is the request
\* that creates the schedule with run_now.
NoStackedRuns ==
    \A s \in Schedules \ untracked : \A i, j \in RunningOf(s) : i = j

\* The time a schedule waits for is the first one after now at which its fields hold: no
\* time is left out, none comes twice, whichever claim or resume computed it and however
\* long ago.
WaitsForFirstDue ==
    \A s \in Schedules :
        Stored(s) /\ row[s].enabled /\ row[s].next > now =>
            FirstDueAfter(row[s].spec, now, row[s].next)

\* No job runs where AWS charges for it unless its user confirmed a cost: although the
\* source is measured once for the question and again for the pool, a run takes the
\* confirmation of its schedule, and the settings of the node change in between.
ChargesAreConfirmed ==
    \A j \in DOMAIN jobs : NeedsConfirmation(jobs[j].fee) => jobs[j].egress # "free"

\* A job overwrites only below what an earlier job wrote (or where the settings allow it
\* everywhere): the first copy to a place never does, also when two start together.
Covers(i, job) ==
    /\ StorageKey(jobs[i].request.dst) = StorageKey(job.request.dst)
    /\ jobs[i].request.path \in Ancestors(job.request.path)
EarnsOverwrite(job) == cfg.general \/ \E i \in DOMAIN jobs : Covers(i, job)
OverwriteIsEarned ==
    [][\A j \in DOMAIN jobs' \ DOMAIN jobs :
          jobs'[j].overwrite => EarnsOverwrite(jobs'[j])]_scheduleVars

\* A due schedule is run, or at least taken: the runner does not starve it.
DueIsTaken ==
    \A s \in Schedules :
        (Stored(s) /\ row[s].enabled /\ row[s].next =< now)
            ~> (row[s].next > now \/ ~row[s].enabled)
=============================================================================
