------------------------------- MODULE MCUploads -------------------------------
(* An instance of Uploads for TLC, in four scenarios told apart by `scene`,   *)
(* and as a fifth the viewers of MCViewer.                                    *)
EXTENDS Uploads, MCViewer, TLC

CONSTANTS f1, f2

VARIABLE scene
vars == <<uploadVars, viewVars, scene>>

SizeOf == (f1 :> 2) @@ (f2 :> 1)
Limit(kind, total, used) == [kind |-> kind, total |-> total, used |-> used]
AllLimits == {{}} \cup SUBSET ({Limit("filesystem", 10, u) : u \in {6, 8}}
                               \cup {Limit("user", t, u) : t \in {0, 4, 10}, u \in {0, 2, 6}})

MCInit ==
    /\ UploadInit /\ ViewInit
    /\ scene \in {"retries", "stopped", "pair", "room", "reader", "follower"}
    /\ scene \in {"pair", "reader", "follower"} => local
    /\ scene \notin {"reader", "follower"} => store = "local"

\* One file whose answers get lost or whose tab closes; the second file is skipped.
Retries ==
    \/ CreateUpload({f2}, {})
    \/ SendChunk(f1) \/ CloseTab
    \/ \E t \in Threads : Request(t) \/ LoseAnswer(t)
    \/ \E i \in DOMAIN rcat : Process(i)
    \/ lost > 0 /\ (TimePasses \/ Expiring)
    \/ lost > 0 /\ ~local /\ expiring = "no" /\ Restart(TRUE, {})

\* One file, one request at a time, and what ends its job or its process.
Stopped ==
    \/ CreateUpload({f2}, {})
    \/ /\ \A t \in Threads : req[t].pc = "free"
       /\ SendChunk(f1)
    \/ \E t \in Threads : Request(t)
    \/ Reap(f1)
    \/ \E i \in DOMAIN rcat : Process(i)
    \/ Stopping \/ TimePasses \/ Expiring
    \/ restarts = 0 /\ AskStop
    \/ stopping = "no" /\ \E alone \in BOOLEAN, first \in SUBSET DOMAIN rcat : Restart(alone, first)

\* Two files at the same time, and the first rclone may fail.
Pair ==
    \/ CreateUpload({}, {})
    \/ \E f \in Files : SendChunk(f)
    \/ \E t \in Threads : Request(t)
    \/ \E i \in DOMAIN rcat : Process(i)
    \/ rcat # << >> /\ RcatFails(1)
    \/ TimePasses \/ Expiring

Room == \E skipped \in SUBSET Files, limits \in Limits : CreateUpload(skipped, limits)

MCNext ==
    /\ UNCHANGED scene
    /\ \/ /\ \/ scene = "retries" /\ Retries
             \/ scene = "stopped" /\ Stopped
             \/ scene = "pair" /\ Pair
             \/ scene = "room" /\ Room
          /\ UNCHANGED viewVars
       \/ /\ \/ scene = "reader" /\ Reading
             \/ scene = "follower" /\ Following
          /\ UNCHANGED uploadVars

MCSpec     == MCInit /\ [][MCNext]_vars
MCFairSpec == MCSpec /\ UploadFairness /\ ViewFairness

\* The browser gives up only on the answer to a last chunk, while rcat is waited for.
LateInit == UploadInit /\ ViewInit /\ scene = "retries" /\ local /\ store = "local"
LateNext ==
    /\ UNCHANGED <<viewVars, scene>>
    /\ \/ CreateUpload({f2}, {}) \/ SendChunk(f1)
       \/ \E t \in Threads : Request(t) \/ (At(t, "waiting") /\ LoseAnswer(t))
       \/ \E i \in DOMAIN rcat : Process(i)
LateSpec == LateInit /\ [][LateNext]_vars
=============================================================================
