----------------------------- MODULE MCSchedules -----------------------------
(* An instance of Schedules for TLC, four scenarios of it told apart by       *)
(* `scene`, and as a fifth the performance settings of MCTuning.              *)
EXTENDS Schedules, MCTuning

CONSTANTS a, r1, r2

VARIABLE scene
vars == <<scheduleVars, tuningVars, scene>>

\* A year of two months, of four and five days of two hours of two minutes of two seconds.
Months == <<4, 5>>

S3(region)   == [type |-> "s3", profile |-> FALSE, source |-> "", provider |-> "AWS",
                 endpoint |-> "", region |-> region, account |-> ""]
Profile      == [S3("") EXCEPT !.profile = TRUE, !.source = "aws", !.provider = ""]
LabS3        == [S3("") EXCEPT !.provider = "", !.endpoint = "https"]
Plain        == [S3("") EXCEPT !.provider = "Other", !.endpoint = "http"]
Dropbox      == [S3("") EXCEPT !.type = "dropbox", !.provider = ""]
Sftp         == [Dropbox EXCEPT !.type = "sftp", !.account = "host"]
Buckets      == [Dropbox EXCEPT !.type = "google cloud storage"]
China        == S3("cn-north-1")

Copy(src, dst, path, raw) == [src |-> src, dst |-> dst, path |-> path, raw |-> raw]
LocalCopies == {Copy(Sftp, Local, <<"d">>, "none")}
\* Every pair of connections that money or routing tells apart ...
Paid == {Copy(src, dst, <<"d">>, raw) :
            src \in {S3("us-east-1"), Profile, LabS3, Sftp},
            dst \in {S3(""), S3("eu-west-1"), Dropbox, Local}, raw \in {"none", "confirmed"}}
\* ... and of places that overwriting does.
Placed == {Copy(Sftp, dst, path, "none") :
              dst \in {Local, China, S3(""), Dropbox, Plain, Buckets},
              path \in {<<>>, <<"d">>, <<"d", "e">>, <<"d", "..">>}}

Settings == [localPool : {"central", "onprem"}, largePool : {"central", "onprem", "ec2"},
             central : {"", "us-east-1"}, ec2 : {"us-east-1"}, general : {FALSE}]
Plainly  == [localPool |-> "central", largePool |-> "central", central |-> "", ec2 |-> "",
             general |-> FALSE]
AllConfigs  == Settings \cup {Plainly, [Plainly EXCEPT !.general = TRUE]}
AllRequests == LocalCopies \cup Paid \cup Placed

Hourly == [frequency |-> "hourly", minute |-> 1, hour |-> 0, weekday |-> 0, day_of_month |-> 0]

MCInit ==
    /\ ScheduleInit
    /\ scene \in {"races", "calendar", "charges", "places", "performance"}
    /\ TuningInit(IF scene = "performance" THEN Envs ELSE {Default})
    /\ scene \in {"races", "calendar", "performance"} => cfg = Plainly
    /\ scene = "charges" => cfg \in Settings
    /\ scene = "places"  => cfg \notin Settings

\* Two runners and the owner with one hourly schedule, and every failure.
Races ==
    \/ \E r \in Runners : RunnerStep(r)
    \/ CreateStep(Web)
    \/ now < 2 /\ \E q \in LocalCopies, runNow \in BOOLEAN : CreateSchedule(a, Hourly, q, runNow)
    \/ now \in {3, 6} /\ OwnerStep(a)
    \/ \E j \in DOMAIN jobs : JobEnds(j)
    \/ \E p \in Processes : Crash(p)
    \/ now < 6 /\ ClockTick

\* Every kind of schedule over more than a year; its runs are refused, and the runner is
\* at most a day late.
Calendar ==
    \/ \E q \in LocalCopies, spec \in Specs : CreateSchedule(a, spec, q, FALSE)
    \/ now < 12 /\ (Pause(a) \/ Resume(a))
    \/ EditByHand(a) \/ ClaimInvalid(r1)
    \/ StartTick(r1) \/ Find(r1) \/ Claim(r1) \/ RunClaimed(r1) \/ Refuse(r1)
    \/ pc[r1] = "idle" /\ (row[a].enabled => row[a].next + Day > now) /\ ClockTick

\* A copy of the owner, or a schedule whose run finds other settings than its creation.
Charges ==
    \/ /\ now = 0 /\ jobs = << >> /\ row[a].state = "new"
       /\ \E q \in Paid : CreateCopy(q) \/ CreateSchedule(a, Hourly, q, FALSE)
    \/ now = 2 /\ pc[r1] = "idle" /\ jobs = << >> /\ (StartTick(r1) \/ Reconfigure)
    \/ Find(r1) \/ Claim(r1) \/ RunClaimed(r1) \/ RefuseCost(r1)
    \/ \E p \in {r1, Web} : Admit(p) \/ StoreJob(p) \/ QueueTheJob(p) \/ Record(p)
    \/ now < 2 /\ jobs = << >> /\ Stored(a) /\ ClockTick

\* Two copies, one after the other.
Places ==
    \/ \E q \in Placed : CreateCopy(q)
    \/ Admit(Web) \/ StoreJob(Web) \/ QueueTheJob(Web)

MCNext ==
    /\ UNCHANGED scene
    /\ \/ /\ \/ scene = "races" /\ Races
             \/ scene = "calendar" /\ Calendar
             \/ scene = "charges" /\ Charges
             \/ scene = "places" /\ Places
          /\ UNCHANGED tuningVars
       \/ scene = "performance" /\ TuningNext /\ UNCHANGED scheduleVars

MCSpec     == MCInit /\ [][MCNext]_vars
MCFairSpec == MCSpec /\ ScheduleFairness
=============================================================================
