-------------------------------- MODULE Uploads --------------------------------
(* Uploads from the browser (managers/upload_manager.py, utils/upload_pipes.py, *)
(* utils/uploadRunner.js): one upload job, its files, the requests that bring   *)
(* their chunks, the `rclone rcat` process of each file, and the user's Stop.   *)
(*                                                                             *)
(* A request (a thread of the one web process) goes on in steps where it waits, *)
(* takes a lock or commits. rcat writes a local file to a temporary name, which *)
(* depends on the job and the file only; inodes tell what is really there.      *)
EXTENDS JobAdmission

CONSTANTS Files,
          Size,         \* file -> its size in units
          ChunkUnits,   \* what the browser sends at once
          Threads,      \* requests that are handled at the same time
          MaxPipes,     \* MAX_PIPES
          MaxStarts,    \* bound: rcat processes ever started
          MaxAttempts,  \* retries after an error (RETRY_DELAYS_MS has 8)
          MaxConflicts, \* in a row (3)
          MaxLost,      \* bound: answers the browser gives up on
          MaxRestarts,  \* bound: restarts of the web process
          Limits, MaxFill   \* what a local folder's limits may be; MOTUZ_MAX_FILL_PERCENT

ASSUME UploadAssumption ==
    /\ IsFiniteSet(Files) /\ Size \in [Files -> Nat] /\ ChunkUnits \in Nat \ {0}
    /\ Threads \subseteq Nat
    /\ {MaxPipes, MaxStarts, MaxAttempts, MaxConflicts, MaxLost, MaxRestarts, MaxFill} \subseteq Nat
    /\ \A limits \in Limits : IsFiniteSet(limits) /\ \A l \in limits : {l.total, l.used} \subseteq Nat

VARIABLES
    job,        \* progress_state of the copy job; "none": not created
    local,      \* the destination is the local filesystem
    room,       \* the limits of the folder when the job was created
    state,      \* file -> upload_file.state
    quiet,      \* nothing was committed for the job for IDLE_SECONDS
    pipes,      \* file -> its entry of _pipes, 0: none
    rcat,       \* the processes, by number: [file, written, stdin, exit, inode]
    data,       \* inode (the number of the rcat that created it) -> units in it
    temp, path, \* file -> the inode at its temporary name and at its path; 0: none / what was there
    req,        \* thread -> the request it handles
    page,       \* file -> what the browser's worker does
    stopping, expiring,     \* Stop and expire between their steps
    lost, restarts,
    overtaken   \* history: files that two rcat processes wrote at the same time

uploadVars == <<job, local, room, state, quiet, pipes, rcat, data, temp, path, req, page,
                stopping, expiring, lost, restarts, overtaken>>
server == <<pipes, rcat, data, temp, path, overtaken>>
owner  == <<stopping, expiring, lost, restarts>>
start  == <<local, room>>

Removed == 0 - 1
Free    == [pc |-> "free", file |-> "none", offset |-> 0, pipe |-> 0, live |-> FALSE,
            result |-> "none", full |-> FALSE]
NewPage == [pc |-> "ready", offset |-> 0, conflicts |-> 0, attempts |-> 0]

UploadInit ==
    /\ job = "none" /\ local \in BOOLEAN /\ room = {}
    /\ state = [f \in Files |-> "pending"] /\ quiet = FALSE
    /\ pipes = [f \in Files |-> 0] /\ rcat = << >> /\ data = << >>
    /\ temp = [f \in Files |-> 0] /\ path = [f \in Files |-> 0]
    /\ req = [t \in Threads |-> Free] /\ page = [f \in Files |-> NewPage]
    /\ stopping = "no" /\ expiring = "no" /\ lost = 0 /\ restarts = 0 /\ overtaken = {}

Total(files) == Cardinality(UNION {{f} \X (1 .. Size[f]) : f \in files})

\* create: refused when the folder would be too full; existing files may be skipped; a job
\* with nothing to send ends at once.
CreateUpload(skipped, limits) ==
    /\ job = "none"
    /\ local \/ limits = {}
    /\ ~Refuses(ReadLimits(limits), Total(Files \ skipped), MaxFill)
    /\ room' = ReadLimits(limits)
    /\ state' = [f \in Files |-> IF f \in skipped THEN "skipped" ELSE "pending"]
    /\ page' = [f \in Files |-> [NewPage EXCEPT !.pc = IF f \in skipped THEN "over" ELSE "ready"]]
    /\ job' = IF skipped = Files THEN "SUCCESS" ELSE "PROGRESS"
    /\ UNCHANGED <<local, quiet, server, req, owner>>

----------------------------------------------------------------------------
(* The browser (uploadRunner.js).                                            *)

Units(f, offset) == IF Size[f] - offset < ChunkUnits THEN Size[f] - offset ELSE ChunkUnits

\* (Which of the free threads takes a request makes no difference: the first does.)
SendChunk(f) ==
    /\ job # "none" /\ page[f].pc = "ready"
    /\ \E t \in Threads :
          /\ req[t].pc = "free" /\ \A u \in Threads : u < t => req[u].pc # "free"
          /\ req' = [req EXCEPT ![t] = [Free EXCEPT !.pc = "arrived", !.file = f,
                                                    !.offset = page[f].offset, !.live = TRUE]]
    /\ page' = [page EXCEPT ![f].pc = "waiting"]
    /\ UNCHANGED <<job, start, state, quiet, server, owner>>

\* A worker of the page with its next try, or without one.
Again(p)     == IF p.attempts < MaxAttempts THEN [p EXCEPT !.pc = "ready", !.attempts = @ + 1]
                ELSE [p EXCEPT !.pc = "over"]
Moved(p, at) == IF p.conflicts < MaxConflicts THEN [p EXCEPT !.pc = "ready", !.conflicts = @ + 1, !.offset = at]
                ELSE [p EXCEPT !.pc = "over"]
Went(p, at)  == [p EXCEPT !.pc = "ready", !.offset = at, !.attempts = 0, !.conflicts = 0]
Over(p)      == [p EXCEPT !.pc = "over"]

\* The answer of a request reaches the page that still waits for it; the thread is free.
Answer(t, next) ==
    /\ req' = [req EXCEPT ![t] = Free]
    /\ page' = IF req[t].live THEN [page EXCEPT ![req[t].file] = next] ELSE page
Page(t) == page[req[t].file]

\* A network error: the page tries again, while the server may still handle the request.
LoseAnswer(t) ==
    /\ req[t].live /\ lost < MaxLost
    /\ lost' = lost + 1
    /\ req' = [req EXCEPT ![t].live = FALSE]
    /\ page' = [page EXCEPT ![req[t].file] = Again(@)]
    /\ UNCHANGED <<job, start, state, quiet, server, stopping, expiring, restarts>>

CloseTab ==
    /\ job # "none" /\ \E f \in Files : page[f].pc # "over"
    /\ page' = [f \in Files |-> Over(page[f])]
    /\ req' = [t \in Threads |-> [req[t] EXCEPT !.live = FALSE]]
    /\ UNCHANGED <<job, start, state, quiet, server, owner>>

----------------------------------------------------------------------------
(* upload_pipes: the dictionary of pipes and the processes behind them.      *)

Alive(i) == rcat[i].exit = "no"
\* Mutant: every rcat gets end of file.
ClosedEarly(i) == [rcat[i] EXCEPT !.stdin = "closed"]
\* _abort: a local file's rcat gets end of file, an object's a signal.
Aborted(i)  == IF local THEN [rcat[i] EXCEPT !.stdin = "closed"]
               ELSE [rcat[i] EXCEPT !.stdin = "signalled"]
AbortAll(S) == [i \in DOMAIN rcat |-> IF i \in S THEN Aborted(i) ELSE rcat[i]]

\* abort_job, reap: entries leave the dictionary, their processes are told to end.
Drop(fs) ==
    /\ pipes' = [f \in Files |-> IF f \in fs THEN 0 ELSE pipes[f]]
    /\ rcat'  = AbortAll({pipes[f] : f \in fs} \ {0})
    /\ UNCHANGED <<data, temp, path, overtaken>>

\* The reaper: nothing came for IDLE_SECONDS, or a single chunk takes that long.
Reap(f) ==
    /\ pipes[f] # 0
    /\ Drop({f})
    /\ UNCHANGED <<job, start, state, quiet, req, page, owner>>

\* rcat comes to its end: well when it got every unit and end of file, else with an error.
\* It removes what it wrote unless a signal ended it: a local file by its temporary name,
\* an object (end of file too early: "cut") with what it replaced. An object is complete when
\* rcat ends well.
RcatEnds(i) ==
    LET f    == rcat[i].file
        well == rcat[i].stdin = "closed" /\ rcat[i].written = Size[f]
        exit == [rcat EXCEPT ![i].exit = IF well THEN "well" ELSE "badly"] IN
    /\ Alive(i) /\ rcat[i].stdin # "open"
    /\ rcat' = exit
    /\ temp' = IF local /\ ~well THEN [temp EXCEPT ![f] = 0] ELSE temp
    /\ path' = IF local \/ rcat[i].stdin = "signalled" THEN path
               ELSE [path EXCEPT ![f] = IF well THEN i ELSE Removed]
    /\ data' = IF ~local /\ well THEN [data EXCEPT ![i] = Size[f]] ELSE data
    /\ UNCHANGED <<job, start, state, quiet, pipes, overtaken, req, page, owner>>

\* rcat fails by itself (no permission, a full disk, the storage's error).
RcatFails(i) ==
    /\ Alive(i)
    /\ rcat' = [rcat EXCEPT ![i].exit = "badly"]
    /\ \/ local /\ temp' = [temp EXCEPT ![rcat[i].file] = 0]
       \/ UNCHANGED temp
    /\ UNCHANGED <<job, start, state, quiet, pipes, data, path, overtaken, req, page, owner>>

----------------------------------------------------------------------------
(* put_chunk.                                                                *)

At(t, where) == req[t].pc = where
Go(t, where) == req' = [req EXCEPT ![t].pc = where]
Result(t, what, full) ==
    req' = [req EXCEPT ![t].pc = "committing", ![t].result = what, ![t].full = full]
Quietly == UNCHANGED <<job, start, state, quiet, owner>>

\* The job and the file are looked at once; the chunk may be on its way for minutes.
LookAtRows(t) ==
    LET f == req[t].file IN
    /\ At(t, "arrived")
    /\ IF job # "PROGRESS" \/ state[f] # "pending"
       THEN Answer(t, Over(Page(t)))
       ELSE Go(t, IF req[t].offset = 0 THEN "starting" ELSE "finding") /\ UNCHANGED page
    /\ UNCHANGED server /\ Quietly

\* start: the old pipe of the file is aborted, and waited for ...
AbortOld(t) ==
    LET f == req[t].file IN
    /\ At(t, "starting")
    /\ req' = [req EXCEPT ![t].pc = "spawning", ![t].pipe = pipes[f]]
    /\ Drop({f})
    /\ UNCHANGED page /\ Quietly

\* ... and a new rcat started, if there are not too many. (An entry that another start
\* put there meanwhile is lost, and its process gets end of file.)
Full == Cardinality({f \in Files : pipes[f] # 0}) >= MaxPipes
WritersOf(f) == {i \in DOMAIN rcat : rcat[i].file = f /\ Alive(i)}
Finishing(f) == {t \in Threads : req[t].file = f /\ req[t].pc \in {"waiting", "renaming"}}
Spawn(t) ==
    LET f == req[t].file
        n == Len(rcat) + 1
        ino == IF local /\ temp[f] # 0 THEN temp[f] ELSE n IN
    /\ At(t, "spawning")
    /\ req[t].pipe # 0 => ~Alive(req[t].pipe)
    /\ ~Full /\ n =< MaxStarts
    /\ pipes' = [pipes EXCEPT ![f] = n]
    /\ rcat' = Append([i \in DOMAIN rcat |-> IF i = pipes[f] THEN [rcat[i] EXCEPT !.stdin = "closed"]
                                             ELSE rcat[i]],
                      [file |-> f, written |-> 0, stdin |-> "open", exit |-> "no", inode |-> ino])
    /\ data' = [Append(data, 0) EXCEPT ![ino] = 0]
    /\ temp' = IF local THEN [temp EXCEPT ![f] = ino] ELSE temp
    /\ overtaken' = IF WritersOf(f) # {} \/ Finishing(f) # {} THEN overtaken \cup {f} ELSE overtaken
    /\ Go(t, "finding")
    /\ UNCHANGED <<path, page>> /\ Quietly

\* PipeBusy: 503. (Also where the bound on processes ends a behaviour of the model.)
Busy(t) ==
    /\ At(t, "spawning")
    /\ req[t].pipe # 0 => ~Alive(req[t].pipe)
    /\ Full \/ Len(rcat) >= MaxStarts
    /\ Answer(t, Again(Page(t)))
    /\ UNCHANGED server /\ Quietly

\* write: the pipe is looked up ...
FindPipe(t) ==
    LET i == pipes[req[t].file] IN
    /\ At(t, "finding")
    /\ IF i = 0 THEN Answer(t, Moved(Page(t), 0))
       ELSE req' = [req EXCEPT ![t].pc = "writing", ![t].pipe = i] /\ UNCHANGED page
    /\ UNCHANGED server /\ Quietly

Writable(i) == Alive(i) /\ rcat[i].stdin = "open"

\* ... and the chunk copied to it, under the pipe's lock: whole, or (the connection breaks)
\* its beginning. The file is complete when its last byte is written.
WriteChunk(t) ==
    LET f == req[t].file
        i == req[t].pipe
        whole == Units(f, req[t].offset) IN
    /\ At(t, "writing") /\ Writable(i) /\ req[t].offset = rcat[i].written
    /\ \E n \in 0 .. whole :
          /\ n < whole => ~req[t].live
          /\ rcat' = [rcat EXCEPT ![i].written = @ + n]
          /\ data' = IF local THEN [data EXCEPT ![rcat[i].inode] = rcat[i].written + n] ELSE data
          /\ IF n < whole THEN Answer(t, Moved(Page(t), 0))
             ELSE IF rcat[i].written + n = Size[f] THEN Go(t, "finishing") /\ UNCHANGED page
             ELSE Result(t, "more", FALSE) /\ UNCHANGED page
    /\ UNCHANGED <<pipes, temp, path, overtaken>> /\ Quietly

WrongOffset(t) ==
    /\ At(t, "writing") /\ req[t].offset # rcat[req[t].pipe].written
    /\ Answer(t, Moved(Page(t), rcat[req[t].pipe].written))
    /\ UNCHANGED server /\ Quietly

\* RcloneExited: rcat's exit status and error text are asked for.
PipeBroken(t) ==
    /\ At(t, "writing") /\ ~Writable(req[t].pipe) /\ req[t].offset = rcat[req[t].pipe].written
    /\ Go(t, "finishing")
    /\ UNCHANGED <<server, page>> /\ Quietly

\* finish: only who finds its own pipe in the dictionary takes it out and closes it.
OwnsPipe(t) == pipes[req[t].file] = req[t].pipe
Finish(t) ==
    LET f == req[t].file IN
    /\ At(t, "finishing")
    /\ IF OwnsPipe(t)
       THEN /\ pipes' = [pipes EXCEPT ![f] = 0]
            /\ rcat' = [rcat EXCEPT ![req[t].pipe].stdin = "closed"]
            /\ Go(t, "waiting") /\ UNCHANGED page
       ELSE /\ Answer(t, Moved(Page(t), IF pipes[f] = 0 THEN 0 ELSE rcat[pipes[f]].written))
            /\ UNCHANGED <<pipes, rcat>>
    /\ UNCHANGED <<data, temp, path, overtaken>> /\ Quietly

\* The exit status is there; a full local disk is recognised in the error text.
RcatAwaited(t) ==
    LET i == req[t].pipe
        well == rcat[i].exit = "well" IN
    /\ At(t, "waiting") /\ ~Alive(i)
    /\ IF well /\ local THEN Go(t, "renaming")
       ELSE \E full \in {FALSE, local} : Result(t, IF well THEN "done" ELSE "failed", full)
    /\ temp' = IF local /\ ~well THEN [temp EXCEPT ![req[t].file] = 0] ELSE temp
    /\ UNCHANGED <<pipes, rcat, data, path, overtaken, page>> /\ Quietly

\* rename_local: what is at the temporary name now gets the file's name.
Rename(t) ==
    LET f == req[t].file IN
    /\ At(t, "renaming")
    /\ Result(t, IF temp[f] # 0 THEN "done" ELSE "failed", FALSE)
    /\ path' = IF temp[f] # 0 THEN [path EXCEPT ![f] = temp[f]] ELSE path
    /\ temp' = [temp EXCEPT ![f] = 0]
    /\ UNCHANGED <<pipes, rcat, data, overtaken, page>> /\ Quietly

\* What became of the file is committed. A full disk fails the job: this request knows the
\* job as it was when the chunk arrived.
CommitChunk(t) ==
    LET f == req[t].file IN
    /\ At(t, "committing")
    /\ state' = IF req[t].result = "more" THEN state ELSE [state EXCEPT ![f] = req[t].result]
    /\ job' = IF req[t].full THEN "FAILED" ELSE job
    /\ quiet' = FALSE
    /\ Go(t, IF req[t].full THEN "aborting" ELSE "counting")
    /\ UNCHANGED <<start, server, page, owner>>

\* After that commit the job's other files are aborted.
AbortTheOthers(t) ==
    /\ At(t, "aborting")
    /\ Drop(Files)
    /\ Go(t, "counting")
    /\ UNCHANGED page /\ Quietly

\* Mutant: only after a file that was uploaded.
NoneIsPendingAfterDone(t) == req[t].result = "done" /\ \A f \in Files : state[f] # "pending"

\* Whoever finds no file pending, and the job still running, finishes it: in a commit of its
\* own, whatever the job has become.
NoneIsPending(t) == \A f \in Files : state[f] # "pending"
Reply(t) == Answer(t, IF state[req[t].file] # "pending" THEN Over(Page(t))
                      ELSE Went(Page(t), req[t].offset + Units(req[t].file, req[t].offset)))
\* Mutant: the last file decides.
VerdictOfLast(t) == IF req[t].result = "failed" THEN "FAILED" ELSE "SUCCESS"
Verdict(t)       == IF \E f \in Files : state[f] = "failed" THEN "FAILED" ELSE "SUCCESS"
CountPending(t) ==
    /\ At(t, "counting")
    /\ IF NoneIsPending(t) /\ job = "PROGRESS"
       THEN req' = [req EXCEPT ![t].pc = "verdict", ![t].result = Verdict(t)] /\ UNCHANGED page
       ELSE Reply(t)
    /\ UNCHANGED server /\ Quietly

FinishJob(t) ==
    /\ At(t, "verdict")
    /\ job' = req[t].result /\ quiet' = FALSE
    /\ Reply(t)
    /\ UNCHANGED <<start, state, server, owner>>

----------------------------------------------------------------------------
(* Stop, expire, and the web process itself.                                 *)

NoRequest == <<start, state, req, page, lost, restarts>>

\* Stop commits STOPPED first, so that a chunk that arrives now is refused, and then
\* aborts the files.
AskStop ==
    /\ job # "none" /\ stopping = "no"
    /\ stopping' = IF job = "PROGRESS" THEN "committing" ELSE "aborting"
    /\ UNCHANGED <<job, NoRequest, quiet, server, expiring>>
StopCommit ==
    /\ stopping = "committing"
    /\ job' = "STOPPED" /\ stopping' = "aborting"
    /\ UNCHANGED <<NoRequest, quiet, server, expiring>>
StopAbort ==
    /\ stopping = "aborting"
    /\ Drop(Files) /\ stopping' = "done"
    /\ UNCHANGED <<job, NoRequest, quiet, expiring>>

\* Nothing is committed for the job for IDLE_SECONDS: no step that is not a wait takes so long.
Waits == {"free", "spawning", "writing", "waiting"}
TimePasses ==
    /\ job = "PROGRESS" /\ ~quiet
    /\ \A t \in Threads : req[t].pc \in Waits
    /\ quiet' = TRUE
    /\ UNCHANGED <<job, NoRequest, server, stopping, expiring>>

\* Mutant: updated_at is empty until the first file of the job has ended.
SilentSinceAFile == job = "PROGRESS" /\ quiet /\ \E f \in Files : state[f] \notin {"pending", "skipped"}

\* expire, when the owner looks at the jobs: a silent job's files are aborted (which waits
\* for their rcat) and the job is failed, whatever it has become.
Silent == job = "PROGRESS" /\ quiet
ExpireRead ==
    /\ expiring = "no" /\ Silent
    /\ expiring' = "aborting"
    /\ UNCHANGED <<job, NoRequest, quiet, server, stopping>>
ExpireAbort ==
    /\ expiring = "aborting"
    /\ Drop(Files) /\ expiring' = "committing"
    /\ UNCHANGED <<job, NoRequest, quiet, stopping>>
ExpireCommit ==
    /\ expiring = "committing"
    /\ job' = "FAILED" /\ expiring' = "no"
    /\ UNCHANGED <<NoRequest, quiet, server, stopping>>

\* The web process goes: requests and pipes are gone with it. Its container takes the rcat
\* processes along. Where uWSGI's master puts a new one in place of it alone, they stay, in
\* sessions of their own, and get end of file: those that were signalled (all but `first`)
\* perhaps before sudo has relayed the signal.
EndOfFile(i)   == [rcat[i] EXCEPT !.stdin = IF local \/ rcat[i].written = Size[rcat[i].file]
                                            THEN "closed" ELSE "cut"]
Left(i, first) == IF rcat[i].stdin \in {"closed", "cut"} \/ (rcat[i].stdin = "signalled" /\ i \in first)
                  THEN rcat[i] ELSE EndOfFile(i)
Restart(alone, first) ==
    /\ job # "none" /\ restarts < MaxRestarts
    /\ restarts' = restarts + 1
    /\ pipes' = [f \in Files |-> 0]
    /\ rcat' = [i \in DOMAIN rcat |-> IF ~Alive(i) THEN rcat[i]
                                      ELSE IF alone THEN Left(i, first)
                                      ELSE [rcat[i] EXCEPT !.exit = "badly"]]
    /\ req' = [t \in Threads |-> Free]
    /\ page' = [f \in Files |-> IF page[f].pc = "waiting" THEN Again(page[f]) ELSE page[f]]
    /\ stopping' = IF stopping = "no" THEN "no" ELSE "done"
    /\ expiring' = "no"
    /\ UNCHANGED <<job, start, state, quiet, data, temp, path, overtaken, lost>>
----------------------------------------------------------------------------
Request(t) ==
    \/ LookAtRows(t) \/ AbortOld(t) \/ Spawn(t) \/ Busy(t) \/ FindPipe(t)
    \/ WriteChunk(t) \/ WrongOffset(t) \/ PipeBroken(t)
    \/ Finish(t) \/ RcatAwaited(t) \/ Rename(t)
    \/ CommitChunk(t) \/ AbortTheOthers(t) \/ CountPending(t) \/ FinishJob(t)
Stopping == StopCommit \/ StopAbort
Expiring == ExpireRead \/ ExpireAbort \/ ExpireCommit
Process(i) == i \in DOMAIN rcat /\ RcatEnds(i)

UploadNext ==
    \/ \E skipped \in SUBSET Files, limits \in Limits : CreateUpload(skipped, limits)
    \/ \E f \in Files : SendChunk(f) \/ Reap(f)
    \/ \E t \in Threads : Request(t) \/ LoseAnswer(t)
    \/ \E i \in DOMAIN rcat : Process(i) \/ RcatFails(i)
    \/ AskStop \/ Stopping \/ TimePasses \/ Expiring
    \/ CloseTab
    \/ \E alone \in BOOLEAN, first \in SUBSET DOMAIN rcat : Restart(alone, first)

UploadSpec == UploadInit /\ [][UploadNext]_uploadVars

\* A request goes on, an rcat that is told to end does, the reaper finds an idle pipe, and
\* somebody looks at the job. The browser need not send anything.
UploadFairness ==
    /\ \A t \in Threads : WF_uploadVars(Request(t))
    /\ \A i \in 1 .. MaxStarts : WF_uploadVars(Process(i))
    /\ \A f \in Files : WF_uploadVars(Reap(f))
    /\ WF_uploadVars(Stopping) /\ WF_uploadVars(TimePasses) /\ WF_uploadVars(Expiring)

----------------------------------------------------------------------------
Complete(f) == path[f] \in DOMAIN data /\ data[path[f]] = Size[f]

\* An object whose rcat lost the web process before it had all bytes ...
CutShort(f) == \E i \in DOMAIN rcat : rcat[i].file = f /\ rcat[i].stdin = "cut"
\* ... and one that happened to when an earlier rcat had brought it already.
CutAfter(k) == \E i \in DOMAIN rcat : i > k /\ rcat[i].file = rcat[k].file /\ rcat[i].stdin = "cut"
Undone(f)   == \E k \in DOMAIN rcat : rcat[k].file = f /\ rcat[k].exit = "well" /\ CutAfter(k)

\* A job that says SUCCESS has brought every file whole, whatever was retried, aborted or
\* stopped meanwhile (but for a file that two rcat wrote at the same time, or that was sent
\* again when it was there and then lost its rcat's web process).
SuccessIsTrue ==
    job = "SUCCESS" =>
        \A f \in Files \ overtaken : state[f] = "skipped" \/ Complete(f) \/ Undone(f)

\* What is at a file's path is what was there before, or the whole new file: no abort, stop,
\* broken connection or restart leaves a part of it, or removes it (first exemption). But the
\* web process that dies alone does the latter to an object on its way, which
\* upload_pipes.py:176-178 keeps an abort from doing.
ReplacedIsKept ==
    \A f \in Files \ overtaken :
        \/ path[f] = 0 \/ Complete(f)
        \/ ~local /\ path[f] = Removed /\ CutShort(f)

\* The docstring of upload_manager.py says so of every file.
ReplacedIsNeverDamaged == local => \A f \in Files : path[f] = 0 \/ Complete(f)

\* An upload that was admitted stays below the limit of what holds its folder: of every
\* quota, where there are some, else of the filesystem.
RoomIsKept ==
    LET quotas == {l \in room : l.kind # "filesystem"}
        sent   == Total({f \in Files : state[f] # "skipped"})
    IN  job # "none" => \A l \in IF quotas = {} THEN room ELSE quotas :
                            (l.used + sent) * 100 =< MaxFill * l.total

\* An upload comes to an end and leaves nothing running, also when the browser is gone, a
\* chunk arrives after Stop, or the process restarts.
UploadEnds ==
    (job # "none") ~> (/\ job # "PROGRESS"
                       /\ \A f \in Files : pipes[f] = 0
                       /\ \A i \in DOMAIN rcat : ~Alive(i))

\* A job is given up as silent only when a file was still to come: two files that end at the
\* same time never leave it to each other to finish the job. (A restart may.)
SettledJobsDoNotExpire ==
    [][expiring = "no" /\ expiring' # "no" =>
         restarts > 0 \/ \E f \in Files : state[f] = "pending"]_uploadVars
=============================================================================
