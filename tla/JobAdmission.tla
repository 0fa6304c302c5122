----------------------------- MODULE JobAdmission -----------------------------
(* What create_for decides about a new copy job before it stores it: who     *)
(* runs it (job_routing.py), whether AWS charges for that and the user said   *)
(* so (egress_cost.py, egress_manager.py), whether the destination has room   *)
(* (space_check.py) and whether it may overwrite (overwrite_policy.py,        *)
(* motuz_destinations.py). Operators only; Schedules composes them.           *)
EXTENDS Naturals, Sequences, FiniteSets

\* A connection: [type, profile (subtype), source (profile_source), provider, endpoint
\* ("": none), region, account (what identifies a storage other than S3)]. Local: None.
Local == [type |-> "local", profile |-> FALSE, source |-> "", provider |-> "",
          endpoint |-> "", region |-> "", account |-> ""]
IsLocal(c) == c.type = "local"

----------------------------------------------------------------------------
(* Where the job runs. cfg: [localPool, largePool, central (the AWS region   *)
(* of this node or ""), ec2 ("": off, else its region), general]. A size is   *)
(* "unknown", "small" or "large" (also: not measured in time).                *)

EC2Types == {"s3", "azureblob", "google cloud storage", "dropbox", "onedrive", "drive"}

EC2Eligible(c) ==
    /\ c.type \in EC2Types
    /\ ~c.profile
    /\ c.type = "s3" => c.endpoint \in {"", "https"}

Route(src, dst, cfg, size) ==
    LET wanted == IF IsLocal(src) \/ IsLocal(dst) THEN cfg.localPool
                  ELSE IF size = "large" THEN cfg.largePool ELSE "central"
    IN  IF cfg.ec2 # "" /\ wanted = "ec2" /\ ~(EC2Eligible(src) /\ EC2Eligible(dst))
        THEN "central" ELSE wanted

\* The region of the machine that runs a pool's jobs; "": not in AWS, or not known.
Runner(pool, cfg) ==
    CASE pool = "central" -> cfg.central
      [] pool = "ec2"     -> cfg.ec2
      [] OTHER            -> ""

----------------------------------------------------------------------------
(* What AWS charges for it.                                                  *)

IsAws(c) ==
    /\ c.type = "s3"
    /\ c.profile => c.source = "aws"
    /\ \/ c.provider = "AWS"
       \/ c.provider = "" /\ c.endpoint = ""

DefaultRegion == "us-east-1"
Region(c) == IF c.region # "" THEN c.region
             ELSE IF c.profile THEN "unknown" ELSE DefaultRegion

NoFee == [kind |-> "none", legs |-> 0]
Fee(kind, legs) == [kind |-> kind, legs |-> legs]

Assess(src, dst, runner) ==
    LET legs == {side \in {"read", "write"} :
                    IF side = "read" THEN Region(src) # runner
                    ELSE ~IsLocal(dst) /\ Region(dst) # runner}
    IN  IF ~IsAws(src) THEN NoFee
        ELSE IF runner = "" \/ (~IsLocal(dst) /\ ~IsAws(dst)) THEN Fee("internet", 0)
        ELSE IF legs = {} THEN Fee("same-region", 0)
        ELSE Fee("inter-region", Cardinality(legs))

NeedsConfirmation(fee) == fee.kind \in {"internet", "inter-region"}

\* Mutant: only the machine that the source's size leads to when it was asked.
CandidateRunnersAsked(src, dst, cfg) == {Runner(Route(src, dst, cfg, "unknown"), cfg)}

\* The machines a new job may get: the size is measured again when it is created.
CandidateRunners(src, dst, cfg) ==
    {Runner(Route(src, dst, cfg, size), cfg) : size \in {"unknown", "large"}}

\* confirmed_copy: the estimate that is stored ("confirmed", or "free": no fee applies), or
\* "refused". `raw` is the request's: "confirmed", or something else.
Confirmed(src, dst, cfg, raw) ==
    IF ~\E r \in CandidateRunners(src, dst, cfg) : NeedsConfirmation(Assess(src, dst, r)) THEN "free"
    ELSE IF raw = "confirmed" THEN "confirmed" ELSE "refused"

----------------------------------------------------------------------------
(* Room at a local destination. A limit: [kind, total, used].                *)

Exceeds(limit, toAdd, maxPercent) ==
    /\ maxPercent < 100
    /\ IF limit.total = 0 THEN toAdd > 0
       ELSE (limit.used + toAdd) * 100 > maxPercent * limit.total

\* parse_reader: limits that make sense.
ReadLimits(raw) == {l \in raw : l.total > 0}

\* A quota, where there is one, is the limit instead of the filesystem's size.
Applicable(limits) ==
    LET quotas == {l \in limits : l.kind # "filesystem"}
    IN  IF quotas # {} THEN quotas ELSE limits

\* Mutant: the limit that is fullest before the job.
FullestNow(limits, toAdd) ==
    CHOOSE l \in Applicable(limits) :
        \A k \in Applicable(limits) : k.used * l.total =< l.used * k.total

\* evaluate: the limit that is fullest after the job decides.
FullestAfter(limits, toAdd) ==
    CHOOSE l \in Applicable(limits) :
        \A k \in Applicable(limits) :
            (k.used + toAdd) * l.total =< (l.used + toAdd) * k.total
Refuses(limits, toAdd, maxPercent) ==
    /\ limits # {}
    /\ Exceeds(FullestAfter(limits, toAdd), toAdd, maxPercent)

----------------------------------------------------------------------------
(* Overwriting. A path is the sequence of its segments.                       *)

\* AWS partitions share no bucket names.
Partition(region) ==
    CASE region = "cn-north-1"    -> "aws-cn"
      [] region = "us-gov-west-1" -> "aws-us-gov"
      [] OTHER                    -> "aws"

\* storage_key: what identifies the storage whoever's connection it is; <<>>: unknown.
StorageKey(c) ==
    CASE IsLocal(c) -> <<"local">>
      [] c.type = "s3" ->
            IF c.endpoint # "" THEN <<"s3", c.endpoint>>
            ELSE IF c.profile \/ c.provider \notin {"", "AWS"} THEN <<>>
            ELSE <<"s3", Partition(c.region)>>
      [] c.type = "google cloud storage" -> <<"gcs">>
      [] c.type = "dropbox" -> <<>>
      [] OTHER -> IF c.account = "" THEN <<>> ELSE <<c.type, c.account>>

IsNormal(path) == \A i \in DOMAIN path : path[i] # ".."
\* A place: [key, path]; there is none for an unknown storage or a path with `..`.
Known(dst, path)  == StorageKey(dst) # <<>> /\ IsNormal(path)
Place(dst, path)  == [key |-> StorageKey(dst), path |-> path]
Ancestors(path)   == {SubSeq(path, 1, n) : n \in 0 .. Len(path)}

IsMotuzDestination(places, dst, path) ==
    /\ Known(dst, path)
    /\ \E folder \in Ancestors(path) : Place(dst, folder) \in places

Decide(places, dst, path, cfg) == cfg.general \/ IsMotuzDestination(places, dst, path)

Register(places, dst, path) ==
    IF ~Known(dst, path) \/ path = <<>> \/ IsMotuzDestination(places, dst, path) THEN places
    ELSE places \cup {Place(dst, path)}
=============================================================================
