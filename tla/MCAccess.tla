------------------------------- MODULE MCAccess -------------------------------
(* Six small instances in one run, one per `scene`: two of EC2 workers, two of   *)
(* the tokens of a login, and two of the tokens of connections.                 *)
EXTENDS Ec2Workers, Sessions, TokenBroker, TLC

VARIABLE scene

Scenes == {"worker", "limit", "tabs", "logout", "sign-in", "refresh"}
\* small, medium and big sources; the last two types differ only in their limit.
TypeTable == <<[limit |-> 2, type |-> "large"], [limit |-> 5, type |-> "2xlarge"], [limit |-> 8, type |-> "4xlarge"]>>
SourceBytes == (1 :> 1) @@ (2 :> 9)

\* One job and everything that can go wrong with its worker.
WorkerStep ==
    \/ QueueJob(1) \/ StopJob(1) \/ LeaseExpires(1)
    \/ StartPass("reap") \/ StartPass("dispatch") \/ PassStep \/ PassCrash
    \/ \E i \in DOMAIN inst : InstanceStep(i) \/ Dies(i)
    \/ Ec2Tick
\* Two jobs, one worker at a time: lost calls and retries.
LimitStep ==
    /\ \/ \E j \in Jobs : QueueJob(j)
       \/ StartPass("reap") \/ StartPass("dispatch") \/ PassStep
       \/ \E i \in DOMAIN inst : InstanceStep(i)
       \/ Ec2Tick /\ \E r \in Attempts : row[r].state = "launching"
    /\ faults' =< 1
\* Tabs that refresh; requests that are neither lost nor late. A setting is changed at one
\* moment, in a tab that has another pair than localStorage; once an older pair took the place of a
\* newer one, the scene goes on with two pairs.
TabsStep ==
    /\ ~late /\ (stale => Len(issued) = 2 /\ \A t \in Tabs : Len(events[t]) =< 1)
    /\ \/ \E t \in Tabs : \/ Verify(t) \/ Rotate(t) \/ Issue(t) \/ CallAPI(t) \/ Receive(t)
                          \/ Persist(t) \/ SyncTokens(t)
                          \/ (now = 3 /\ storage # tab[t] /\ ChangeSettings(t))
       \/ SessionTick
\* One tab logs out while the other refreshes.
LogoutStep ==
    \/ \E t \in Tabs : \/ Verify(t) \/ RevokeToken(t) \/ RevokeSession(t) \/ CleanTokens(t)
                       \/ Rotate(t) \/ Issue(t) \/ Receive(t) \/ (~late /\ Lose(t))
                       \/ (storage # tab[t] /\ Persist(t))
    \/ CallAPI(1) /\ req'[1].kind # "none"
    \/ now =< 2 /\ LogOut(2)
    \/ CleanElsewhere \/ SessionTick
\* One connection of each kind, a run that refreshes the first, and deployments.
SignInStep ==
    \/ StartFlow \/ PurgeFlow \/ CompleteFlow \/ Redeploy
    \/ \E c \in Conns : ConnectRead(c) \/ ConnectCommit(c)
    \/ PasteToken(1) \/ Ages(1) \/ StartRun("central", 1)
    \/ Ask("central") \/ LockConn("central") \/ Upstream("central") \/ CommitToken("central")
\* Two runs that refresh one connection.
RefreshStep ==
    \/ PasteToken(1) \/ Ages(1) \/ DeleteConn(1)
    \/ \E r \in Runs : StartRun(r, 1) \/ EndRun(r) \/ Ask(r) \/ LockConn(r) \/ Upstream(r)
                       \/ CommitToken(r) \/ LoseReply(r)

AccessInit ==
    /\ Ec2Init /\ SessionInit /\ BrokerInit /\ scene \in Scenes
    /\ scene # "sign-in" => app = NoApp
AccessNext ==
    /\ UNCHANGED scene
    /\ \/ /\ \/ scene = "worker" /\ WorkerStep
             \/ scene = "limit"  /\ LimitStep
          /\ UNCHANGED <<sessionVars, brokerVars>>
       \/ /\ \/ scene = "tabs"   /\ TabsStep
             \/ scene = "logout" /\ LogoutStep
          /\ UNCHANGED <<ec2Vars, brokerVars>>
       \/ /\ \/ scene = "sign-in" /\ SignInStep
             \/ scene = "refresh" /\ RefreshStep
          /\ UNCHANGED <<ec2Vars, sessionVars>>
AccessSpec ==
    AccessInit /\ [][AccessNext]_<<scene, ec2Vars, sessionVars, brokerVars>> /\ Ec2Fairness
=============================================================================
