# Motuz in TLA+

Motuz moves files between local file systems and cloud storage: a Flask web application
accepts jobs, and rclone runs them, on the central node (Celery), on remote machines
(motuz-worker, over HTTPS) or on temporary EC2 instances. This directory models the parts
of Motuz whose correctness depends on the order of events. TLC checks the models on small
instances; TLAPS proves theorems about them for every value of the constants.

Paths below are relative to `src/src/backend/api/` unless they start with `src/`.

## 1. Inventory

| Component | State | Operations | Interacts with |
|---|---|---|---|
| Remote job queue, `managers/worker_manager.py`, `models/worker.py` | `remote_job` rows (state, worker, lease, ticket, broker hash, stop flag), `worker` rows | queue, claim, progress, finish, request_stop, expire_leases, revoke_worker | job rows, agents (HTTPS), mail |
| Job creation and Stop, `managers/copy_job_manager.py`, `hashsum_job_manager.py` | `progress_state` of the job | create_for, retrieve, list, stop | queue, Celery, uploads, routing |
| motuz-worker, `src/src/worker/motuz_worker.py` | one claimed job, flags, rclone process | claim loop, report, finish, shutdown | queue, rclone |
| rclone control, `utils/copy_job_queue.py`, `hashsum_job_queue.py`, `job_runner.py` | registered processes | start, watch, terminate_all | motuz-worker, Celery task |
| Central jobs, `tasks/celery_tasks.py` | task messages, revoked ids, job row | run, SIGTERM | Celery broker, Stop |
| Copy schedules, `managers/schedule_manager.py` | schedule rows (next run, last job) | tick, claim, run, pause, delete | job creation |
| EC2 launcher, `managers/ec2_launcher.py` | `ec2_worker` rows, instances, bootstrap tokens | dispatch, launch, reap | EC2, queue |
| Uploads, `managers/upload_manager.py`, `utils/upload_pipes.py` | pipes, file rows, job row | put_chunk, finish, abort, expire, reap | browser, rclone rcat, Stop |
| Sessions, `managers/auth_manager.py` | revoked tokens and sessions | refresh, logout, check, clean | browser tabs |
| Token broker, `managers/token_broker_manager.py` | OAuth tokens, handles | refresh under lock, ensure_handle | rclone, providers |
| OAuth sign-in, `managers/oauth_manager.py` | flows | start, callback, finish | providers |
| Overwrite policy, routing, `managers/overwrite_policy.py`, `job_routing.py` | registered destinations | decide, register | job creation, uploads |
| Space and egress checks, `utils/space_check.py`, `utils/egress_cost.py` and their managers | limits, prices, confirmations | assess, confirm, evaluate | job creation, schedules, uploads |
| Cloud connections, `managers/cloud_connection_manager.py`, `utils/local_credentials.py`, `utils/rclone_connection.py` | connection rows, files of the home directory | offer, test, create, update, delete, resolve | dialog, rclone, workers |
| Performance settings, `utils/rclone_tuning.py` | defaults, caps, budget; overrides of a job | load, validate, presets, flags | dialog, job creation, rclone |
| File viewer, `utils/file_view.py`, `FileViewerDialog.jsx` | a window of chunks, follow mode | load, jump, follow, poll, pause | rclone, the writer of the file |
| Web application, PAM login, rest of the browser, deployment | | | |

Hard behaviours: web requests run in many threads and processes and meet only in
PostgreSQL, which locks a `remote_job` row but never a job row; calls and answers of
motuz-worker are lost, late and repeated; a worker that is gone may still run rclone;
Stop, a finish, a sweep and a revocation race to end a job; a process may die between two
commits. PROJECT.json lists every such hazard at its line ("hazards").

What makes each component correct:

- Queue: row, lock and job agree; a job ends once and its owner is told once; a stop is
  never answered with a success; no job is left in PROGRESS for ever.
- Agent and queue: rclone runs for a job on one worker at most; success means that rclone
  ended well; the end of a job reaches rclone.
- Central jobs: a stopped job does not come back; a redelivered task does not run twice.
- Schedules: one run per due time, no two runs at once, whatever crashes.
- EC2: one instance per attempt, every instance is terminated in the end, the limit holds.
- Uploads: done means written in full; a stopped upload leaves no file under its name.
- Sessions: nothing of a session works after logout; a late reuse ends the session; a
  cleaned row revokes nothing any more.
- Token broker: the stored refresh token is the last one the provider issued, and it goes
  to the provider with the app it was issued to.
- Admission of a job: a cost is confirmed before it arises, the first copy to a place does
  not overwrite, a folder is not filled beyond its limits.
- Connections: what runs is what the dialog offered, tested and stored.
- Performance settings: rclone starts within the memory budget and the caps.
- Viewer: the window is a true, contiguous part of the file of whole characters, and following
  catches up.

## 2. Plan

Done:

1. `RemoteQueue`, `WorkerAgent`, `JobPromise`, `RemoteJobs`, with `RemoteJobs_proofs`
   (section 5).
2. `CentralJobs` with `IntegrityCheck`: Celery tasks, from the message to the mail.
3. `Schedules` over `ScheduleTimes` and `JobAdmission`: runners, due times, and what is
   decided about a job before it is stored.
4. `Uploads` (also over `JobAdmission`). `CentralJobs_proofs`, `Schedules_proofs` and
   `Uploads_proofs` prove every invariant that 2 to 4 check, and their action properties.
5. `Ec2Workers`, `Sessions`, `TokenBroker`: instances, logins and tokens, with
   `Ec2Workers_proofs` and `Access_proofs` (sessions and tokens).
6. `RcloneTuning`, `FileView` and `FileViewer`, `LocalCredentials` and `CloudConnections`;
   `MCCentralJobs_proofs` has what is proved of connections and of the verdict of a check,
   `FileViewer_proofs` what is proved of the window of the viewer, `CentralJobs_proofs` also
   what is proved of the performance settings.

Left, in this order:

7. A composition of `Ec2Workers` with `RemoteQueue`: both model the claim of a job, the
   former with one client per instance, the latter with its transactions.

## 3. Modules

- **RemoteQueue**: the central node's view of a remote job. `jobState` is
  `progress_state`; `remote`, `workerOf`, `lease`, `ticket`, `stopReq`, `broker` are the
  columns of `remote_job`; `txn[j]` is the open transaction that holds the lock of row
  `j`, with what it read; `stopper`, `creator`, `revoker` are requests between two commits;
  `polling` are claim requests in their long poll; `mail` is what was sent. Workers are
  general clients here: any worker may call at any time.
- **RemoteJobs_proofs** (of the queue too), **CentralJobs_proofs**,
  **MCCentralJobs_proofs**, **Schedules_proofs**, **Uploads_proofs**, **Ec2Workers_proofs**,
  **Access_proofs** (`Sessions` and `TokenBroker`), **FileViewer_proofs**: the theorems of section 5.
- **WorkerAgent**: motuz-worker and its rclone process. The answers of the central node
  are parameters of its actions.
- **RemoteJobs**: queue and agents joined by a network. `calls` are requests that may still
  be handled, also after their agent gave up. Steps of the queue that a worker causes are
  tied to the agent that does; all other steps are RemoteQueue's.
- **JobPromise**: abstract specification, what the owner of a job sees: `run` and `told`.
- **CentralJobs**: `jobState` and `mail` as above; a task is a delivery `<<j, n>>` of the
  message of job j, `phase` where it is, from the broker over the prefetching node to the
  steps of `celery_tasks.copy_job`; `rclone`, `exit`, `full` are what the threads of
  `copy_job_queue` share with it; `revokeMsgs`, `revoked`, `signal` carry a Stop.
- **IntegrityCheck**: operators; a side of a check is a function from names to the content
  of the file and the hashes its storage knows. A name is its place in the sort order, and
  `nested` says which are below which; `Tree` is what `generate_file_tree` has built when it
  returns, which is not everything where a cloud has both "a" and "a/b".
- **ScheduleTimes**: `next_run` over a calendar that is a parameter; **JobAdmission**:
  routing, fees and their confirmation, storage keys, the decision to overwrite, limits of a
  folder. **Schedules**: `row` and `jobs` are tables, `pc` and `work` what a runner or the
  web process does and holds between two commits.
- **Uploads**: `req` are the requests in their threads, `pipes` is `_pipes`, `rcat` the
  processes, `temp` and `path` what the two names of a file refer to (an inode, so that a
  file replaced and a file damaged differ), `page` what the browser's upload runner does.
- **Ec2Workers**: `row` are the `ec2_worker` rows by job and attempt, `inst` what EC2 runs,
  with the bootstrap token each got, `pass` the holder of the advisory lock, between its
  commits and AWS calls.
- **Sessions**: `rows` is `revoked_token`; pairs of tokens are numbered; `storage` and `tab`
  are the local storage and the store of each tab. `unsaved` is what redux-persist has still to
  write of a store (a pair of its own from an answer, or one it adopted), `events` the storage
  events that a tab has not handled, each with the pair that was written then (`Persist`,
  `SyncTokens`, `ChangeSettings`).
- **TokenBroker**: `grants` is the provider's side (the app, and how often the refresh token
  was rotated), `conn` and `flow` are rows, `holder` the row lock of a connection.
- **RcloneTuning**: `tuning` are the settings of the process, `dialog` what the form shows,
  `tuned` a job from its submission to its start under perhaps other settings. Sizes are in
  MiB; the numbers (defaults, bounds, floors) are the code's.
- **FileView**: cutting of chunks; a byte is a newline, the first byte of a character of n
  bytes, or a continuation byte. **FileViewer**: `chunks`, `followEnd`, `paused`, `timer` are
  the fields of the dialog, `queue` its serialised requests, `file` what its writer changes,
  in pieces of whole characters (a chunk that ends a file within a character is cut there).
  A read is `Stat`, which sees the size (`seen`), and `ReadLocal` or `Cat`, which gets the
  bytes, with whatever the writer does in between.
- **LocalCredentials**: `discover` and `resolve` over a home directory of parsed files.
  **CloudConnections**: `row` is the stored connection as a function of the columns that have
  a value; a form is one of the inputs it renders; `tested` is the last successful Test.
- **MC...**: instances for TLC. Several of them hold small instances of more than one module,
  or several scenarios of one, told apart by a variable `scene` that never changes: a scene
  gives some actions and leaves the others out, so that each trouble is met by everything it
  can interfere with and the product of all troubles is not enumerated. The theorems are about
  the whole next-state relations (`CentralNext`, `ScheduleNext`, `UploadNext`), of which the
  scenes are restrictions.

How the code is mapped to actions:

- A transaction under a row lock is two actions, lock-and-read and write-and-commit
  (`TryClaim`/`ClaimCommit`/`ClaimDrop`, `Finish`/`FinishCommit`, `LateCall` or
  `ExpireLeases`/`ExpireCommit`, `RevokeWorker`/`RevokeCommit`). Transactions that touch the
  locked row only (`Progress`, `RequestStop`) are one action: nobody sees them half done.
  `Rollback` is a died process, a deadlock broken by the database or an UPDATE that found
  no row (`Writable`).
- The job row is never locked: `Stop`, `QueueFails` and `DeleteJob` change it under
  everybody. `stop` is three steps: `RequestStop`, `StopRead`, `StopWrite`.
- `retrieve` loads the job before it sweeps, so the session of `expire_leases` may decide
  on a PROGRESS that is no longer true (`ExpireLeases`, `seen`). A sweep commits several
  rows at once; the rows are independent, so it is split per row. A revocation is not: its
  rows end in one commit.
- Mail is sent right after the commit; it is part of the commit's action.
- `Serves` folds pool, job types and binding. UNSET, a run that set no status, is folded
  into FAILED. Lease and ticket are countdowns and `Tick` moves the time of all running
  rows at once. `polling` merges several claim requests of one worker.
- Authentication (`authenticate`) is evaluated with the lock of the row: a request that
  passed it just before a revocation is not modelled, except for claims, whose long poll
  makes that window wide.
- `terminate_all` kills registered processes at once. An integrity check runs rclone once
  per side; the sides are one run here, and the stop between them is in `Results`.
- The answer to a finish comes after its commit, and the agent treats an accepted and a
  refused finish alike: the call stays in `calls` until it is answered by `CallRefused`.
- The server may die in `create_for` after the commit of the job and before its row
  exists (`CreateCrash`): the job stays in PROGRESS without a row, until the user stops it.

And in the other modules:

- A request or a pass goes on in steps that end where it commits, waits, takes a lock or
  calls another system. What it has read before is kept in its local record and used as it
  was (`work`, `pass`, `req`, `asks`, `loaded`).
- Celery, EC2, the OAuth providers, rclone, the clock, and who changes a file or a home
  directory are external; their actions say what the code relies on, faults included.
- Observation variables are marked "history" or "observed" and guard nothing of the code:
  `clean`, `untracked`, `overtaken`, `cut`, `stranded`, `ended`, `reused`, `late`, `foreign`,
  `broken`, `raced`, `tested`, `left`.
- In `Schedules` a run that fails after its job was stored, one that is refused and one whose
  process dies are different actions; a pass goes on with the next due schedule.
- In `Uploads` Stop and expire are sequences of steps, since they abort pipes before or after
  their commit; `put_chunk` has one step per lock, commit and wait. The web process may go with its
  container, and rcat with it, or alone (`wsgi.ini`: `master`), and then rcat, in a session of
  its own, reads end of file, also before a signal that `sudo` has not relayed yet.
- In `Sessions` a request is verified, commits its revocations one by one and is answered;
  answers may be late or lost. A tab writes its store later than it changes, and another hears of it
  later still, by an event with the pair of that moment. In `TokenBroker` the HTTPS broker's check that the job still runs happens
  before the lock, as in the code.
- OAuth tokens stand for themselves in `CloudConnections`, whether rclone gets the token or a
  broker handle; a worker has the same home directory as the central node (the code requires
  it for profiles).

## 4. Runs

| Run | Instance | Shows |
|---|---|---|
| `queue` | 1 job, 2 workers, one ephemeral and bound to the job; lease 2, ticket 3; 126,880 states | five invariants; every claimed job ends; every stop request settles |
| `queue_stop_race` | the same without fairness | stop overwrites an outcome that was mailed (finding) |
| `queue_revoke_race` | the same | a revoked worker gets a running job (finding) |
| `jobs_race` | scene "race": 1 job, 2 agents; scene "next": 2 jobs, 1 agent; lease 1, ticket 1; 737,684 states | one rclone, no false success, tickets, and that the composition implements JobPromise |
| `jobs_liveness` | 1 job, 1 agent; 178,924 states | the end of a job reaches a registered rclone |
| `jobs_stop_rclone` | 1 job, 1 agent | an unregistered rclone survives terminate (finding) |
| `central` | scene "jobs": a copy and a check, one pool process; scene "connections": 14 forms, 4 home directories; 100,178 states | no false success, one run per job, true verdicts, a stop that took effect is final, every task ends; and the connection that runs is the one shown |
| `schedules` | scenes "races", "calendar", "charges", "places", "performance"; 513,527 states | each due time runs once and is taken, runs do not stack, next_run leaves nothing out, costs are confirmed, overwriting is earned, presets are accepted, rclone fits its budget |
| `uploads` | scenes "retries", "stopped", "pair", "room", "reader", "follower"; 375,975 states | success is true, what an upload replaces is kept, limits hold, uploads end, no job is left to expire; the viewer's window is true and catches up |
| `upload_retry` | scene "retries" with late answers only | a repeated last chunk damages the file it replaces (finding) |
| `access` | scenes "worker", "limit", "tabs", "logout", "sign-in", "refresh"; 415,450 states | EC2 workers are not cut off, stay within the limit and end; a session that ended is over, tabs stay logged in; stored tokens are current and keep their app |
| `tuning_caps` | 9 installations, all overrides and presets | a default above its cap (finding) |

### Bounds

- Queue and agents. The hazards of the queue are about one row: two workers race for it, one
  holds it while the other sweeps, and no action of a row depends on another row except the
  order of claims (`TryClaim` reads `rowId`) and the revocation of a worker with several
  rows, which is why scene "next" has two jobs. A lease of one tick expires at any moment
  after a claim; with a lease of two ticks and a ticket of three a lease can be renewed
  between two ticks and the ticket can end before the lease does. `calls` is a set, so a
  call is lost, delayed, and handled after its agent repeated it; it is not handled twice,
  because a finish that was committed refuses its repetition. "race" has no deletion, no
  death of the web process and no revocation (`queue` has all of them, with workers that may
  do more than agents); `jobs_liveness` adds revocation; "next" has no Stop, signal, expiry
  or rollback. The proofs have none of these limits.
- `central`. One pool process makes the second job wait for the first, which is what a
  visibility timeout is about: 3 ticks against runs of 1. Two deliveries per message, one
  restart of the node. The check passes over two sides; `VerdictIsTrue` looks at all pairs of
  sides with two names, one below the other or not, when it reports. Connections: S3 by key, by temporary keys and by
  four kinds of profile, Azure by key, SAS and profile, SFTP by password and key, one drive
  and WebDAV, each with its secrets typed or kept; two saves; and one change between four
  home directories (complete; keys rotated and a login expired; only roles and programs;
  unreadable). The types left out have forms with fixed fields, like WebDAV.
- `schedules`. A calendar of 2 seconds a minute, 2 minutes an hour, 2 hours a day, weeks of
  3 days and months of 4 and 5 days, so that every carry happens within 84 seconds, which is
  more than a year. Two runners race for one schedule; two jobs are enough to stack, one
  crash to forget. Connections, settings and paths: one of each kind that the decisions tell apart.
- `uploads`. Files of 2 and 1 chunks, two requests at a time, one pipe at a time
  (`MAX_PIPES`), two starts of rcat, one lost answer, one restart (in "retries" that of the web process alone, in
  "stopped" of either kind): each race here is of two
  requests for one file, or of the last chunks of two files. A viewer of at most 2 chunks of 3 bytes over a file of 14 bytes,
  characters of one and two bytes that come in three pieces; one trouble, and up to three
  acts of the user.
- `access`. EC2: at most one worker, two instances, two faults; the retry is earlier than the
  boot timeout, and that earlier than the run time, as the defaults are (assumption). Logins:
  two tabs, three pairs of tokens, an access token of 2 ticks and a refresh token of 5, a grace
  window of 2, a clock of 6, two storage events that wait; a setting changes at time 3, in a tab
  that has another pair than localStorage; after an older pair took the place of a newer one two pairs
  and one event that waits are enough for the reuse, which TLC reaches; in "logout" a tab writes only
  what is new and handles no event; a logout begins by time 2. Tokens: two connections, two runs, two grants, two refreshes.

### Fairness

- `Tick`: time passes.
- `ExpireLeases`, strong: every list, retrieve and claim sweeps, and so does the schedule
  runner every minute; a row locked for a moment is skipped and found by a later sweep.
- `ExpireCommit`, strong: a sweep is not rolled back for ever. Other open transactions end,
  by commit or rollback (weak).
- `StopRead`, `StopWrite`, weak: a request that does not die runs on (`StopCrash` is the
  request that does, and `StopSettles` excuses it).
- In `RemoteJobs` also: an agent reports and takes note of a missing answer (weak: it is one
  thread with timeouts); a call that is repeated for ever is answered at last (strong:
  `Answered`); an agent that waits for rclone looks at its shutdown flag every second.
  rclone need not end by itself, and nobody has to press Stop.
- In `CentralJobs`: a task goes on and its rclone ends (weak, per task). Nothing is assumed
  of Stop, faults and restarts.
- In `Schedules`: a runner goes on (weak): it loops every minute and systemd restarts it;
  its deaths are bounded.
- In `Uploads`: requests that were received are handled, rcat goes on, the reaper thread
  looks at its pipes, expire runs with every listing of jobs (weak). The browser is not fair:
  a tab may close.
- In `FileViewer`: a request is answered (weak), and a poll that is due happens although other
  requests come before it again and again (strong; a user who scrolls for ever without a
  pause of a tenth of a second would hold polls back, and is excluded by it).
- In `Ec2Workers`: passes are started again and again and go on (the reaper loops every
  minute; a pass that dies is followed by another), a lease that is due expires, EC2 lists
  and terminates instances, and an instance told to shut down does. Boots, claims and
  finishes are not fair: a worker may hang anywhere.

### Exemptions

Several properties name what the code does not promise; each exemption is a state that the
runs reach.

- `NoStackedRuns`: not for a schedule in `untracked`, whose `last_job_id` missed a job: a creator
  died between two commits, or the schedule was claimed while another process had not finished its
  last run (section 6).
- `VerdictIsTrue`: only of the files that have a place in the tree of a side. Where a cloud has
  a file "a" and a file "a/b", the tree ends before "a/b" (section 6).
- `SuccessIsTrue`, `ReplacedIsKept`: not for a file in `overtaken`, which two rcat processes
  wrote at once (`upload_retry`). `SettledJobsDoNotExpire`: not after a restart of the process.
- `ReplacedIsKept`: an object whose rcat lost the web process before its last byte may be gone,
  the old one too (`CutShort`, section 6); it may never be a part. `SuccessIsTrue`: the same for one
  that was there already and was sent again (`Undone`).
- `WindowIsTrue`: of the edges of chunks, not of those in `outgrown`, where an answer ended past
  the size that was seen of a local file (section 6); that the chunks are parts of the file,
  without gap or repetition, is claimed of all.
- `Ec2Settles`: not for a job in `stranded`: a launcher that dies between the commit of "no
  instance" and the second attempt leaves it QUEUED (`ec2_launcher.py:292`).
- `EndedIsOver`: of pairs issued before the session ended. A refresh that was verified before
  and issues its pair later outlives the row of the session once it is cleaned, although
  the docstring at `auth_manager.py:209` has it that none is issued later.
- `TabsStayLoggedIn`: as long as no request or answer is lost, or takes longer than half the
  grace window until its pair is written (the reuse of a token after a lost answer ends the login),
  nobody logs out, and no tab put an older pair in the place of a newer one (`stale`: a tab wrote
  over a live pair of another tab with one that it had not brought itself, or a late storage
  event took from a tab a new pair that it had not written; section 6).
- `TokenIsCurrent`: not after an answer of the provider was lost (`broken`), and not for a
  sign-in that two concurrent requests made two connections of (`made`).
- `StopIsFinal`: after the node knows of the revocation and its tasks took their SIGTERM.
  Before that a task may still write over STOPPED.
- `QueuedTaskEnds`: not when a thread could not start rclone; nobody wakes its watcher then.
- `FollowCatchesUp`: not while paused, or unpaused at the wrong moment (`raced`), and not for
  a cloud file of unknown size that was truncated.
- `NothingLeftBehind`, `ChecksAreChosen` (parts of `WhatIsShownRuns`): see section 6.

## 5. Theorems

`RemoteJobs_proofs` first proves of the queue, for any finite set of jobs, any workers, pools, bindings and
lengths of lease and ticket, that every behaviour of `QueueSpec` satisfies

- `QueueTypeCorrect`: QueueTypeOK;
- `RowsAlwaysAgree`: the lock holder, state, worker and broker token of a row agree;
- `AtMostOneNotification`: the end of a job is mailed at most once, after its row ended;
- `NoJobStranded`: a job whose row ended is not left in PROGRESS, but for a stop request
  that is on its way or died;
- `StopAlwaysHonoured`: a marked stop never becomes a success;
- `MailAlwaysMatches`: the mailed outcome is the shown one, but for Stop and deletion.

None of them is inductive. `QueueInv` adds what they rest on: the kind of an open
transaction determines the state of its row; what a transaction read of the job still
bounds what the job can be (PROGRESS can only have become STOPPED, FAILED by a failed creation, or
GONE); a row is not queued twice; nothing is mailed while the row is open. `InvByJob`
splits the invariant per job, `Untouched` covers jobs a step leaves alone, and each action has a lemma
for the job it is about. `QueueInv` was checked with TLC on the `queue` instance before it was
proved.

It then proves the composition, with its agents and lossy calls, under the same
assumptions. Every behaviour of `JobsSpec` satisfies

- `JobsTypeCorrect`: JobsTypeOK;
- `OneRcloneOnly`: at most one worker ever starts rclone for a job;
- `AgentsHoldTickets`: an agent works only for a row that was given to its worker;
- `SuccessNeverFalse`: a success, shown or mailed, means that rclone ended with status 0;
- `JobsImplementQueue`: QueueSpec, so that all theorems above hold here
  (`OneNotificationToOwner` is one of them);
- `PromiseIsKept`: KeepsPromise, the refinement of `JobPromise`.

The argument has three parts. What an agent knows stays true (`AgentKeeps`): it has a job
while it runs or finishes it, a result is known when it is sent, and an rclone that ended
well stays so; hence every finish call under way that says SUCCESS is true (`CallTrue`). What the
queue gave stays given (`QueueKeeps`): a row that has left the queue never changes its
worker, so that an agent with a job or an rclone for it (`Involved`) still is the holder of
its ticket (`HoldsTicket`), and two workers cannot both have started rclone. And only a
finish decides on a success (`NoNewSuccess`, `FinishSuccess`), which makes `SuccessTrue`
inductive. `QueueSees`, `AgentsSee` and `CallsSee` split a step of the composition into
what it is for each of its parts. For the refinement, `RunOfAgent` reads the run of a job
off the one rclone that was started, and `RunStep`, `MailStep` and `MailOrRun` give the
step of `JobPromise` that each step is. `JobsInv` was checked with TLC on the instance of
`jobs_race` before it was proved.

`CentralJobs_proofs` proves, for any jobs, passes, pool, restarts and faults, that every
behaviour of `CentralSpec` satisfies

- `CentralSuccessIsTrue` (NoFalseCentralSuccess) and `StopsAreFinal` (the action property
  StopIsFinal);
- `JobsRunOnce` (RunsOnce), if `QueueFitsTimeout`.

A success is true because of what the watcher reads (`RunsInv`): before a run begins all that
its threads share is reset (`FreshTask`); a run in which something went wrong shows that
until its watcher ends (`MarkedRun`); status 0 is only ever stored by an rclone that ended in a clean run
(`TrueExit`), and the watcher leaves with it only after its last run (`LastRun`). A stop is final since a
process that took its signal is no more (`SignalEnds`), which leaves `StopWrite` and
`DeleteJob`. `RunsOnce` needs a word about time: a message that waits at the node longer than the
visibility timeout is delivered again. `BacklogInv` counts: for every tick a message waits, each
process of the pool does one tick of work (`WaitIsWork`), and what the other jobs can work is
bounded, so no second delivery begins (`OnlyFirst`) if the longest runs of all other jobs, spread
over the pool, fit into the timeout. That is what the deployment claims of it
(`config.py:79`, README.md:1052, "far above any job"), and it holds in the instance of `central`.

It also proves, for any environments of the processes and overrides of jobs, that `TuningSpec`
satisfies `OffersAreAccepted` (PresetsAreAccepted) and `RunsFitBudget` (RunFitsBudget). An
estimate is transfers times what one of them needs (`MemoryIs`), so that the transfers `fit_preset`
computes by a division fit, and are fewer than those that did not (`Quotient`), thus under their cap;
halving a value keeps it in its bounds (`ReducedIsAllowed`, `LoweredIsInBounds`), and so does a
cap (`CapIsInBounds`). `TuningInv` says of a job that runs that its overrides were accepted under the
settings of its flags; leaving out the buffers of a local source only takes memory away
(`Unbuffered`). `TuningInv` was checked with TLC on the installations of `MCTuning`. The loops of
`_add_motuz_defaults` and `fit_preset` are not recursive in the model: what is halved is
bounded, so the rounds are (`LowerOnce`, `Rounds`), and TLC found the same results as for
the loops written recursively, over some thousand environments and targets.

`MCCentralJobs_proofs` proves `VerdictsAreTrue` (VerdictIsTrue), for any names, files and hashes, and
`ConnectionsRunAsShown` (WhatIsShownRuns of `ConnSpec`), for any home directories, forms, saves and moves.
A verdict: what has a place in a tree and is not left over by the comparison has a hash of one
type on both sides (`EqualIsSame`), and of sides that are the same and have hashes the trees are
the same, wherever they end (`SameLeavesNothing`). Connections: `Reads` are
the columns that decide what rclone gets, so two connections that `Agree` on them run alike
(`SameFormat`); all of them that a worker needs come with a profile's ticket
(`WorkerReads`), and discover and resolve agree profile by profile (`OfferedResolves`). The rest goes column by column
(`UpdatedAt`, `VerifiedAt`, `S3RulesAt`, `ProfileRulesAt`): update and verify combine a form with
the stored row in two ways, which differ only in columns that the form does not have
(`UpdatedIsVerified`). `ConnInv` needs that the last test would give the same of the row it was
saved over and of the row that was saved (`TestTrue`, by `TestedAgain`), because a second
test, and a second save, start from the latter; and that the app of a token is stored only with its token (`StoredWell`), since
verify asks for both and update for the one.

`Schedules_proofs` proves, for any schedules, runners, calendar, connections, settings and
crashes, that every behaviour of `ScheduleSpec` satisfies

- `DueTimesRunOnce` (EachDueTimeOnce), `RunsDoNotStack` (NoStackedRuns), `WaitsAreFirstDue`
  (WaitsForFirstDue), `ChargesNeedConfirmation` (ChargesAreConfirmed);
- `OverwritingIsEarned` (the action property OverwriteIsEarned).

It also proves of the pure operators that `NextRun` is the first due time after a moment
(`NextRunIsFirst`), for hourly, daily, weekly and monthly schedules and any calendar with a month long enough
for the day; the search over days is a recursive function, and a least-element argument
takes the place of an induction. In `SchedulesInv`, `HoldsInv` says which schedule and job a
process holds at each step between its commits. `DuesInv` is the compare-and-set of `_claim` seen
from outside: whatever runs or has run was due before the time the row waits for now, so a claim
takes a new due time. `StackInv` says the same of the jobs: one process at a time
works on a schedule, it creates a job only while none runs, and once all rest the
job that runs is the recorded one. A claim keeps it only if nobody else is at work on the schedule,
which nothing ensures: those claims are what `untracked` marks. The confirmations and places hold
since what a process has read is still true when it uses it: its settings are those of its
transaction, and places are only added (`Asks`, `Earns`).

`Uploads_proofs` proves, for any files, sizes, threads, limits, lost answers and restarts, that
every behaviour of `UploadSpec` satisfies

- `UploadSuccessIsTrue` (SuccessIsTrue), `UploadReplacedIsKept` (ReplacedIsKept);
- `UploadRoomIsKept` (RoomIsKept), where the check is on (`MaxFill < 100`);
- `SettledDoNotExpire` (SettledJobsDoNotExpire).

`UploadInv` follows the bytes. `PlacesInv`: requests, the dictionary of pipes, inodes and
names refer to processes of their own file, and a pipe in the dictionary is open.
`WritersInv`: a file that is not in `overtaken` has one writer, known to the dictionary or to the one
request that finishes it; this is what every abort, retry and late chunk could break.
`DataInv`: the temporary name is the inode that the writer fills, a process that
is closed and neither signalled nor cut short got everything, and whoever waits for a process that ended well finds its
temporary name whole or gone, never written to by another. `VerdictInv`: every result that
is committed, or about to be, is true. `SettledInv` is about the end of a job: while all its files
are settled and it still runs, some request is between its commit and its count, where no
step waits, so the job is not silent. That no quota overflows is an argument of its own: being
fuller is transitive, so among finitely many limits there is a fullest one (`FullestExists`), which is the
one `assess` has looked at.

`Ec2Workers_proofs` proves, for any jobs (also infinitely many), types of machine, limits of time and
number, faults and instances, that every behaviour of `Ec2Spec` satisfies `Ec2TypeCorrect`,
`WorkersAreNotCut` (WorkIsNotCut) and `WorkersStayWithinLimit` (InstancesWithinLimit). A pass
goes on with a list of instances that it read before its first commit, while jobs are claimed,
instances change and answers are lost, so `Ec2Inv` is about what is still true of that: `SeenTrue`, a state that
was seen is an earlier one of its instance, and an instance that was not seen has no worker
that signs in before the pass ends (a boot takes longer than a pass); `TodoTrue`, the rows still to be looked at are open, and the ones that look for
their instance are among them; `PassTrue`, why the pass is where it is, above all that
its reason to terminate an instance (`Justified`) holds until it does. `RowTrue` and `RowNotAhead` say the
same of rows, which must never be ahead of their instance, and `InstTrue` that a job's attempt has
one instance, whose worker can only sign in while a row knows it or looks for it. `SlotsTrue`
counts: the rows that may have an instance, and the slot that a second attempt inherits from the
first between two commits (`Kept`), are never more than the limit; an instance that is alive has a
row of its own (`AliveTakesSlot`), from which the bound on instances follows by an injection. Steps are put into the frames `JobsMove`,
`InstsMove` and `PassForm`: what a job, an instance, a pass may do at all, from which the parts
of the invariant follow once for every action. `Ec2Inv` was checked with TLC on the instance of `access`.

`Access_proofs` proves, for any tabs, token lifetimes and grace window, that every
behaviour of `SessionSpec` satisfies `SessionTypeCorrect` and `EndedSessionsAreOver`
(EndedIsOver). `SessionInv` adds what the row of the session promises: as long as it is
there it expires no earlier than the refresh tokens of the moment of revocation, and once it is gone
those have expired. Refreshes and logouts that go on at the same time only write rows of
other keys (`OtherRow`, which needs that a request is about a pair that was issued), and
cleaning drops the row only when its time is over (`RowsCleaned`).
It also proves `TabsAreNotLoggedOut` (TabsStayLoggedIn). `CalmInv` says why, while
nothing is lost or late, nobody logs out and no tab puts an older pair in the place of a newer
one, a tab with an old pair does no harm: a pair that
was rotated and could still be used is followed (`Followed`), by an answer that is
under way or a pair that its tab has still to write (`Rotating`), which is less than half a grace window
old, or by a pair in localStorage that is no older, which every tab takes first. It needs that an
answer brings a pair nobody knows yet (`Brings`), that until it is written only its tab knows it
(`Holds`), and that an access token lives longer than it takes from a request to the writing of
its answer, so that its tab asks for no other before (`BroughtIsFresh`).

It proves, for any runs, connections and apps, that every behaviour of
`BrokerSpec` satisfies `BrokerTypeCorrect`, `TokensAreCurrent` (TokenIsCurrent) and
`RefreshesNameTheirApp` (RefreshedByItsApp). `BrokerInv` says where every copy of a token
is: in the flow, in a request that has read it, in connections, and in the run that
refreshes. `ConnTrue` relates a connection to its grant; `AskTrue` and `HolderTrue` say
that exactly one run refreshes a locked row, with the token of that row and the app it was
issued to; `Counted` says that two connections of one sign-in were counted before they
share its grant, so that a refresh of the one (`UpstreamInv`) makes only tokens stale
that the property excepts. `FreeRow` is why deletion, pasting and aging, which wait for
the row lock, never meet a refresh. There is one lemma per action. `SessionInv` and `BrokerInv`
were checked with TLC on the instances of `access` before they were proved.

`FileViewer_proofs` proves, for any file of whole characters, chunk length and number of chunks in
the window, that every behaviour of `ViewSpec` satisfies `WindowsAreTrue` (WindowIsTrue). An
`Edge` of a file is a place where no character goes on, and remains one when the file
grows (`Joined`); a `Border` is an edge, or one of the places in `outgrown`. The first part is about the cuts: `TailCut`, `ForwardCut`, `LinesCut` and
`BackwardCut` say that what `align_forward`, `align_complete_lines` and `align_backward` keep of
a read ends, or starts, at an edge of the file, where the read itself started and was cut anywhere.
The second is about the reads: of a local file (`LocalRead`), which also gets what was appended
since its size was seen, and of a cloud
object, which does not, or has no size (`CloudRead`). Together they give
`AnswersAreTrue`: every answer to a request at a border is the part of the file
between two borders, if the end of an answer past the size that was seen becomes one. The third is about the window: replacing, appending, prepending, merging and
trimming chunks keeps adjacent parts adjacent. `ViewInv` says that the chunks, the
requests that wait and the end that is followed are all at borders, and the size that was seen
at an edge, which is what an answer that comes late, after a jump or a poll, needs; `Grows` says that it
stays true when the file is appended to. `ViewInv` was checked with TLC on the instance of
`uploads`.

The invariants of central jobs, schedules and uploads, too, were checked with TLC on the
instances of `central`, `schedules` and `uploads` before they were proved.

Assumptions: `Jobs` is finite (the id of a row counts rows), NULL values are not workers or
jobs, a bound worker serves no other job, lease and ticket are positive; an access token
ends before the refresh token of its pair, and lives longer than it takes to answer a request that is
not late and to write its pair (15 minutes against half of the 60 seconds of grace); rclone's app, the apps of deployments and "no
app" differ, and "no run" is not a run; a launcher repeats its call before a boot is given up, and that is given
up before a job has run too long, an instance boots longer than a pass takes, EC2 starts one instance per client token, and one it
cannot place is terminated at once; files, jobs of Celery and limits of a folder are
finitely many and sizes are numbers; fields of schedules are within their calendar, whose
months are long enough for some of their days; a form has the inputs that its dialog renders for
its type, and of these a type that is one of the nine (`FormsAssumption`,
`CloudConnectionDialogFields.jsx:118`); what is appended to a viewed file are whole characters, none of
which is longer than a chunk of 256 KiB (`ViewerAssumption`); what an environment and a job set are integers (`TuningAssumption`). Two theorems assume more: `JobsRunOnce` that the backlog
fits into the visibility timeout, `UploadRoomIsKept` that the check of the space is on.

Only model-checked: liveness (`ClaimedJobEnds`, `StopSettles`, `EndReachesRclone`,
`QueuedTaskEnds`, `DueIsTaken`, `UploadEnds`, `FollowCatchesUp`, `Ec2Settles`), which is out
of reach of the prover. Every invariant and every other action property of the passing runs is
stated by a theorem.

## 6. Findings

Runs that expect a violation:

- `StopKeepsOutcome` (queue_stop_race): `copy_job_manager.stop` reads the job again "to
  avoid race conditions" and writes STOPPED without lock or compare-and-set; an outcome
  that commits in between is overwritten after its owner was told of it.
- `RevokedRunsNothing` (queue_revoke_race): a claim that is not committed while
  `revoke_worker` scans gives the revoked worker a running job; the lease ends it later.
- `EndedRunStopsRclone` (jobs_stop_rclone): `JobRun.terminate` is called once per reason
  and misses an rclone that its thread has not registered yet. A SIGTERM during the long
  poll of a claim that is then answered with a job meets exactly this window.
- `ReplacedIsNeverDamaged` (upload_retry): `upload_pipes.finish` forgets the pipe before it
  waits for rcat, so a page that sends the last chunk again starts a second rcat on the same
  temporary name, and the first request renames the truncated file over the old one.
- `DefaultsWithinCaps` (tuning_caps): halving transfers sets checkers to
  `max(2 * transfers, 32)` without looking at the cap of checkers.

Met while modelling, without a run of their own (the models have the behaviour, and the
properties exempt it by name where one would forbid it):

- "A run whose previous job is still running is skipped (not stacked)" (`schedule_manager.py:18`)
  does not hold where the next time of a schedule comes before its last run is stored: nothing
  locks the schedule between `_claim` and `last_job_id`, and another runner that claims it then sees
  the run before. It comes to that when a schedule is claimed shortly before its next time, when
  `create_for` waits for the measurement of the source, and late in a pass: `tick` takes one `now`
  for up to 200 runs (`:311`), from which `_claim` computes the next time (`:235`), so the row may
  be due again at once. `Claim` marks such a schedule in `untracked`.

- A check says "Files are IDENTICAL!" of sides that differ (`hashsum_outcome`,
  `job_runner.py:67`) when both have a file "a" and files below it: `_generate_tree_leaf` raises a
  KeyError for "a/b" (`file_utils.py:65`), `generate_file_tree` logs it (`:33`) and returns the
  tree without "a/b" and everything that sorts after it. S3 allows such keys.

- "Stop never damages a file it replaces", and `_abort` takes care that an object is not removed
  with the one it replaces (`upload_pipes.py:176-178`); but when the web process dies alone and uWSGI's
  master starts a new one, rcat (`start_new_session`) reads end of file before the last
  byte, completes the object, sees that its size is wrong and removes it: the old object is gone.

- "A line longer than the chunk is split, but never inside a UTF-8 character" (`file_view.py:217`,
  `:248`): the reader process of a local file looks at the size (`local_connection.py:299`), reads what is
  there by then (`:316`), and `chunk_result` takes bytes past that size for the end of the file
  and keeps them all (`file_view.py:311`). When the file grows in between by more than fits into
  the chunk, this ends anywhere, and the character there is shown as two U+FFFD.

- "Full checks" chosen for a new Amazon S3 connection is an empty input; `serializeForm.jsx`
  makes it null, `_apply_s3_rules` takes None for "no choice" and stores crc32c
  (`cloud_connection_manager.py:88`; its docstring, README.md:1223 and the label say full
  checks; `test_s3_options.py:188` covers only the empty string). Exemption `NoChoice`.
- An SFTP connection changed from key to password keeps `sftp_key_file`, which rclone gets
  whatever the subtype is, while Test did not; one changed from S3 to another type keeps
  `skip_tls_verify`, which its form has no checkbox for. Exemption `LeftOvers`. A change of
  type keeps the secrets of the old one, unused.
- An AWS profile with an `endpoint_url`, or an rclone remote with another provider, counts as
  AWS when the user chose to skip checks (`rclone_connection.py:1181`, "only S3 on AWS or Ceph").
- A copy between two AWS SSO profiles sets AWS_CONFIG_FILE once for both sides
  (`local_credentials.py:830`, `rclone_connection.py:463`); how the AWS SDK then finds the
  first profile is outside of this code, and is not modelled.
- A size stored as bytes with more than seven digits cannot be read again by `parse_size`
  (`rclone_tuning.py:140`): the job is accepted and refused at its start.
- A schedule with run_now that comes due before its creation is finished runs twice at once
  (README.md:1886 "One run at a time"); a launcher that dies may strand a queued EC2 job; a
  retry with a new bootstrap token expires the one that the instance of a lost answer holds,
  and a worker whose exchange was answered but lost gets 401 and shuts down.
- "A tab never refreshes with a token another tab has already rotated" (`authMiddleware.jsx:10-12`,
  `persistedAuth.jsx:3`) does not hold. A tab adopts the `newValue` of a storage event
  (`authMiddleware.jsx:46`), which may be older than what localStorage holds by then, and redux-persist
  writes what was adopted back (`store.jsx:16`), over a newer pair; so does a changed setting or sort of
  a pane in a tab that has not handled its event yet, because settings and tokens are one value
  (`store.jsx:19`). When that pair is used after its grace window, `token_is_revoked` ends the
  login, and nothing was lost or late. TLC reaches it in the scene "tabs" of `access`; the property
  exempts it by `stale`.
- With three tabs, one of which slept: a logout, or a tab that was refused during it, empties
  localStorage before the session is revoked, or without revoking it if the token of the tab that
  logs out has expired. A tab that has not seen the change falls back on its own old
  pair, and `token_is_revoked` takes it for a stolen one. The login was being left, so nothing is
  lost but a log line. Met when the invariant of `TabsAreNotLoggedOut` was written;
  exempted by `left`, and not part of the scenes of `access`, which have two tabs.
- Two concurrent `connect` calls of one sign-in make two connections with one refresh token
  (`oauth_manager.py:468`). The HTTPS broker does not look again whether the job runs once it
  has waited for the lock (`worker_manager.py:883`).
- Viewer: a poll answered with `more` makes the next one jump to the tail although less than
  CATCH_UP_BYTES are missing (`windowAtFollowEnd` needs `eof`, `FileViewerDialog.jsx:435`); Resume
  while a load is under way leaves the window off the end until the file grows (`:423`); a
  jump during the first load of follow mode ends it silently (`:384`).

## 7. Not modelled

- Web application and administration, PAM login, installation: wiring, calls into the
  operating system and shell scripts, each one call without an order of events.
- Parsing of rclone's progress output and of directory listings; flags of rclone commands
  beyond credentials, checks and performance; document and image views; prices: data with no
  state behind it.
- Static and access tokens of workers, PKCE and `state` of a sign-in, encryption of columns.
- Authentication of a call that races with a revocation, except for claims.
- Which existing files an upload skips is an input; the temporary file a restart leaves is
  there, its later removal is not.
- The viewer's text check and decoding, and its Close.
- A copy between connections: `CloudConnections` has one connection at a time.
