----------------------------- MODULE TokenBroker -----------------------------
(* OAuth tokens of cloud connections (managers/token_broker_manager.py,          *)
(* managers/oauth_manager.py, the writers of cloud_connection_manager.py, and    *)
(* the HTTPS broker of worker_manager.py): sign-in flows, pasted tokens, and the *)
(* refreshes that rclone asks for, of a provider with single-use refresh tokens. *)
(*                                                                             *)
(* A grant is what a sign-in gave: the app it was given to, and how often its    *)
(* refresh token was rotated. A stored token is [grant, gen, fresh].             *)
EXTENDS Naturals, Sequences

CONSTANTS Runs,          \* rclones that may ask, central ones and those of remote workers
          Remote,        \* those of remote workers
          Conns,         \* numbers of connections
          RcloneApp, OwnApps, NoApp,
          MaxGrants, MaxRefreshes   \* bounds

ASSUME BrokerAssumption ==
    /\ Remote \subseteq Runs /\ Conns \subseteq Nat \ {0}
    /\ NoApp \notin OwnApps /\ RcloneApp \notin OwnApps /\ NoApp # RcloneApp
    /\ {MaxGrants, MaxRefreshes} \subseteq Nat

VARIABLES
    app,      \* <PROVIDER>_CLIENT_ID
    grants,   \* at the provider: [app, gen], and how many connections were made of it
    flow,     \* the oauth_flow row: [pc, client, token]
    conn,     \* cloud_connection rows: [exists, client, token, handle]
    conns,    \* POST connect: what each has read
    asks,     \* run -> its request
    holder,   \* connection -> the run that has its row lock, or NoRun
    foreign,  \* history: refreshes that went to the provider with another app's credentials
    broken    \* history: grants whose rotation was not stored: the answer was lost

brokerVars == <<app, grants, flow, conn, conns, asks, holder, foreign, broken>>

NoRun   == "no run"
ASSUME RunAssumption == NoRun \notin Runs

NoToken == [grant |-> 0, gen |-> 0, fresh |-> FALSE]
NoConn  == [exists |-> FALSE, client |-> NoApp, token |-> NoToken, handle |-> FALSE]
NoFlow  == [pc |-> "none", client |-> NoApp, token |-> NoToken]
Idle    == [pc |-> "idle", conn |-> 0, client |-> NoApp, got |-> NoToken]

BrokerInit ==
    /\ app \in OwnApps \cup {NoApp} /\ grants = << >> /\ flow = NoFlow
    /\ conn = [c \in Conns |-> NoConn] /\ conns = [c \in Conns |-> NoFlow]
    /\ asks = [r \in Runs |-> Idle] /\ holder = [c \in Conns |-> NoRun]
    /\ foreign = {} /\ broken = {}

\* The app new sign-ins use (client_credentials).
SignInApp == IF app = NoApp THEN RcloneApp ELSE app
Granted(client) == grants' = Append(grants, [app |-> client, gen |-> 1, made |-> 0])
NewToken == [grant |-> Len(grants) + 1, gen |-> 1, fresh |-> TRUE]

----------------------------------------------------------------------------
(* Sign-in.                                                                  *)

\* start, after the flows that expired are purged.
StartFlow ==
    /\ flow' = [pc |-> "pending", client |-> SignInApp, token |-> NoToken]
    /\ flow.pc # "pending"
    /\ UNCHANGED <<app, grants, conn, conns, asks, holder, foreign, broken>>
PurgeFlow ==
    /\ flow # NoFlow /\ flow' = NoFlow
    /\ UNCHANGED <<app, grants, conn, conns, asks, holder, foreign, broken>>
\* finish and callback: refused if the app is not the one the flow was started with. The code
\* is exchanged, but without a drive nothing is stored.
SameApp == flow.client = SignInApp
CompleteFlow ==
    /\ flow.pc = "pending" /\ SameApp /\ Len(grants) < MaxGrants
    /\ Granted(flow.client)
    /\ flow' \in {flow, [flow EXCEPT !.pc = "complete", !.token = NewToken]}
    /\ UNCHANGED <<app, conn, conns, asks, holder, foreign, broken>>
\* connect: reads the flow, then creates the connection and deletes it; a second one that has
\* read it too deletes nothing.
ConnectRead(c) ==
    /\ flow.pc = "complete" /\ conn[c] = NoConn /\ conns[c] = NoFlow
    /\ conns' = [conns EXCEPT ![c] = flow]
    /\ UNCHANGED <<app, grants, flow, conn, asks, holder, foreign, broken>>
ConnectCommit(c) ==
    /\ conns[c] # NoFlow
    /\ conn' = [conn EXCEPT ![c] = [exists |-> TRUE, client |-> conns[c].client,
                                    token |-> conns[c].token, handle |-> FALSE]]
    /\ grants' = [grants EXCEPT ![conns[c].token.grant].made = @ + 1]
    /\ flow' = IF flow = conns[c] THEN NoFlow ELSE flow
    /\ conns' = [conns EXCEPT ![c] = NoFlow]
    /\ UNCHANGED <<app, asks, holder, foreign, broken>>

----------------------------------------------------------------------------
(* Connections.                                                              *)

\* Mutant: the connection keeps the client that issued its last token.
KeptClient(c)   == conn[c].client
PastedClient(c) == NoApp
\* create and update with a token pasted from `rclone config`.
PasteToken(c) ==
    /\ holder[c] = NoRun /\ conns[c] = NoFlow /\ Len(grants) < MaxGrants
    /\ Granted(RcloneApp)
    /\ conn' = [conn EXCEPT ![c] = [@ EXCEPT !.exists = TRUE, !.client = PastedClient(c), !.token = NewToken]]
    /\ UNCHANGED <<app, flow, conns, asks, holder, foreign, broken>>
DeleteConn(c) ==
    /\ conn[c].exists /\ holder[c] = NoRun
    /\ conn' = [conn EXCEPT ![c] = NoConn]
    /\ UNCHANGED <<app, grants, flow, conns, asks, holder, foreign, broken>>

\* An access token has less than five minutes left.
Ages(c) ==
    /\ conn[c].token.fresh /\ holder[c] = NoRun
    /\ conn' = [conn EXCEPT ![c].token.fresh = FALSE]
    /\ UNCHANGED <<app, grants, flow, conns, asks, holder, foreign, broken>>
\* Motuz is deployed again with another app, or none.
Redeploy ==
    /\ \E a \in OwnApps \cup {NoApp} : a # app /\ app' = a
    /\ UNCHANGED <<grants, flow, conn, conns, asks, holder, foreign, broken>>

----------------------------------------------------------------------------
(* Refreshes.                                                                *)

Asks(r, pc) == asks[r].pc = pc
Released(c)   == [holder EXCEPT ![c] = NoRun]

\* broker_token, when a run starts: the connection has a handle, or gets one. A remote run has
\* a token of its ticket instead.
StartRun(r, c) ==
    /\ Asks(r, "idle") /\ conn[c].exists
    /\ conn' = IF r \in Remote THEN conn ELSE [conn EXCEPT ![c].handle = TRUE]
    /\ holder[c] = NoRun \/ conn' = conn
    /\ asks' = [asks EXCEPT ![r] = [Idle EXCEPT !.pc = "running", !.conn = c]]
    /\ UNCHANGED <<app, grants, flow, conns, holder, foreign, broken>>
\* handle_worker_token_request: the job has to be running when it is read; the lock on the
\* connection may come later. handle_token_request has nothing to read first.
EndRun(r) ==
    /\ Asks(r, "running") /\ asks' = [asks EXCEPT ![r] = Idle]
    /\ UNCHANGED <<app, grants, flow, conn, conns, holder, foreign, broken>>
Ask(r) ==
    /\ Asks(r, "running") /\ asks' = [asks EXCEPT ![r].pc = "asking"]
    /\ UNCHANGED <<app, grants, flow, conn, conns, holder, foreign, broken>>

\* Mutant: the row is read without FOR UPDATE.
Unlocked(c) == TRUE
RowFree(c)  == holder[c] = NoRun
\* connection_client_credentials: whose refresh token is it?
Issuer(c) == IF conn[c].client \in {NoApp, RcloneApp} THEN RcloneApp
             ELSE IF conn[c].client = app THEN app ELSE NoApp
\* serve_locked_connection: what needs no call releases the lock; a connection that is gone,
\* or whose app is not configured any more, is refused.
LockConn(r) ==
    LET c == asks[r].conn IN
    /\ Asks(r, "asking") /\ RowFree(c)
    /\ IF ~conn[c].exists \/ Issuer(c) = NoApp \/ conn[c].token.fresh
       THEN asks' = [asks EXCEPT ![r].pc = "running"] /\ UNCHANGED holder
       ELSE /\ asks' = [asks EXCEPT ![r].pc = "upstream", ![r].client = Issuer(c), ![r].got = conn[c].token]
            /\ holder' = [holder EXCEPT ![c] = r]
    /\ UNCHANGED <<app, grants, flow, conn, conns, foreign, broken>>

\* The provider: it may rotate the refresh token, and takes only the current one, of the app
\* it was issued to.
Accepted(r) == LET g == grants[asks[r].got.grant] IN g.app = asks[r].client /\ g.gen = asks[r].got.gen
Upstream(r) ==
    LET g == asks[r].got.grant IN
    /\ Asks(r, "upstream")
    /\ foreign' = IF grants[g].app # asks[r].client THEN foreign \cup {g} ELSE foreign
    /\ \/ /\ Accepted(r)
          /\ \E rotated \in {0, 1} :
                /\ grants[g].gen + rotated =< MaxRefreshes
                /\ grants' = [grants EXCEPT ![g].gen = @ + rotated]
                /\ asks' = [asks EXCEPT ![r].pc = "replied", ![r].got.gen = @ + rotated, ![r].got.fresh = TRUE]
          /\ UNCHANGED holder
       \/ /\ asks' = [asks EXCEPT ![r].pc = "running"]   \* refused, or not reached
          /\ holder' = Released(asks[r].conn)
          /\ UNCHANGED grants
    /\ UNCHANGED <<app, flow, conn, conns, broken>>
CommitToken(r) ==
    /\ Asks(r, "replied")
    /\ conn' = [conn EXCEPT ![asks[r].conn].token = asks[r].got]
    /\ asks' = [asks EXCEPT ![r].pc = "running"]
    /\ holder' = Released(asks[r].conn)
    /\ UNCHANGED <<app, grants, flow, conns, foreign, broken>>
\* The answer does not come within 30 seconds, or the process or its database dies.
LoseReply(r) ==
    /\ Asks(r, "replied")
    /\ broken' = broken \cup {asks[r].got.grant}
    /\ asks' = [asks EXCEPT ![r].pc = "running"]
    /\ holder' = Released(asks[r].conn)
    /\ UNCHANGED <<app, grants, flow, conn, conns, foreign>>

BrokerNext ==
    \/ StartFlow \/ PurgeFlow \/ CompleteFlow \/ Redeploy
    \/ \E c \in Conns : ConnectRead(c) \/ ConnectCommit(c) \/ PasteToken(c) \/ DeleteConn(c) \/ Ages(c)
    \/ \E r \in Runs : \/ \E c \in Conns : StartRun(r, c)
                       \/ EndRun(r) \/ Ask(r) \/ LockConn(r) \/ Upstream(r) \/ CommitToken(r) \/ LoseReply(r)

BrokerSpec == BrokerInit /\ [][BrokerNext]_brokerVars

----------------------------------------------------------------------------
\* A connection has the refresh token the provider takes next, however many runs refresh it at
\* once: a rotated one is never overwritten or lost. The exceptions are an answer that was lost,
\* and a sign-in that two requests made a connection of.
TokenIsCurrent ==
    \A c \in Conns :
        LET t == conn[c].token IN
        conn[c].exists /\ holder[c] = NoRun /\ t.grant \notin broken /\ grants[t.grant].made < 2 =>
            t.gen = grants[t.grant].gen

\* A token is only ever refreshed with the app it was issued to, over sign-ins, pasted tokens
\* and deployments with another app.
RefreshedByItsApp == foreign = {}
=============================================================================
