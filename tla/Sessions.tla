------------------------------- MODULE Sessions -------------------------------
(* One login (managers/auth_manager.py): its access and refresh tokens, the      *)
(* rotation of /auth/refresh/, /auth/logout/, the table of revoked tokens, and   *)
(* the browser tabs that share the tokens through localStorage                   *)
(* (middleware/authMiddleware.jsx, reducers/authReducer.jsx, store.jsx).         *)
(*                                                                             *)
(* The n-th pair of tokens is the number n; a request is verified in one step    *)
(* and answered in another, and every commit is a step of its own.              *)
EXTENDS Naturals, Sequences

CONSTANTS Tabs,
          AccessLife, RefreshLife,   \* JWT_ACCESS_TOKEN_EXPIRES, JWT_REFRESH_TOKEN_EXPIRES
          Grace,                     \* REFRESH_GRACE_SECONDS
          Slow,                      \* what takes longer from a request to the storing of its answer is `late`
          MaxTime, MaxPairs, MaxEvents   \* bounds

ASSUME SessionAssumption ==
    /\ {AccessLife, RefreshLife, Grace, Slow, MaxTime, MaxPairs, MaxEvents} \subseteq Nat
    /\ AccessLife < RefreshLife /\ 2 * Slow =< Grace /\ Slow < AccessLife

VARIABLES
    now,
    issued,   \* pair -> when it was issued
    rows,     \* revoked_token: pair (the jti of its refresh token) or TheSid -> [exp, grace]
    storage,  \* the pair in localStorage; 0: logged out
    tab,      \* tab -> the pair in its store
    unsaved,  \* tab -> what of it redux-persist has not yet written to localStorage, and since when
    events,   \* tab -> the pairs in the storage events that it has not yet handled
    req,      \* tab -> its refresh or logout request
    ended,    \* history: 0, or when the session was first revoked
    reused,   \* history: whether it was revoked for a rotated token
    late,     \* history: whether a request was late or an answer was lost
    left,     \* history: whether a tab was told to log out
    stale     \* history: whether a tab put an older pair in the place of a newer one

serverVars  == <<now, issued, rows, ended, reused>>
storeVars   == <<storage, tab, unsaved, events, stale>>
sessionVars == <<serverVars, storeVars, req, late, left>>

TheSid == 0
NoGrace == 0
\* What a store holds of its own, an answer or the end of its login; or has taken from others.
Saved == [how |-> "no", since |-> 0]
Kept  == [how |-> "kept", since |-> 0]
Own(sent) == [how |-> "own", since |-> sent]
NoReq == [kind |-> "none", pair |-> 0, sent |-> 0, pc |-> "none", known |-> FALSE, got |-> 0]

SessionInit ==
    /\ now = 1 /\ issued = <<1>> /\ rows = [k \in {} |-> [exp |-> 0, grace |-> NoGrace]]
    /\ storage = 1 /\ tab = [t \in Tabs |-> 1] /\ req = [t \in Tabs |-> NoReq]
    /\ unsaved = [t \in Tabs |-> Saved] /\ events = [t \in Tabs |-> <<>>]
    /\ ended = 0 /\ reused = FALSE /\ late = FALSE /\ left = FALSE /\ stale = FALSE

----------------------------------------------------------------------------
(* The server.                                                               *)

AccessExpires(n)  == issued[n] + AccessLife
RefreshExpires(n) == issued[n] + RefreshLife
\* _add_revoked: a row that is there is kept.
WithRow(table, k, exp, grace) ==
    IF k \in DOMAIN table THEN table
    ELSE [x \in DOMAIN table \cup {k} |-> IF x = k THEN [exp |-> exp, grace |-> grace] ELSE table[x]]
\* Mutant: the row lives as long as an access token.
ShortSessionRow == now + AccessLife
SessionRowExpires == now + RefreshLife
WithoutSession(table) == WithRow(table, TheSid, SessionRowExpires, NoGrace)
SessionIsRevoked == ended' = IF ended = 0 THEN now ELSE ended

InGrace(n) == rows[n].grace # NoGrace /\ now =< rows[n].grace
\* token_is_revoked, of the refresh token of a pair; one that was rotated a while ago revokes
\* its session.
RefreshRevoked(n) == TheSid \in DOMAIN rows \/ (n \in DOMAIN rows /\ ~InGrace(n))
Reuse(n) == n \in DOMAIN rows /\ rows[n].grace # NoGrace /\ ~InGrace(n)
AccessRevoked == TheSid \in DOMAIN rows

Refresh(t, pc) == req[t].pc = pc /\ req[t].kind = "refresh"
Logout(t, pc)  == req[t].pc = pc /\ req[t].kind = "logout"
To(t, pc) == req' = [req EXCEPT ![t].pc = pc]

\* The token of the request is verified, then the view runs.
Verify(t) ==
    LET n == req[t].pair
        refused == RefreshRevoked(n) \/ RefreshExpires(n) < now
    IN  /\ req[t].pc = "sent"
        /\ IF Reuse(n) /\ RefreshExpires(n) >= now
           THEN rows' = WithoutSession(rows) /\ SessionIsRevoked
                /\ reused' = (reused \/ (TheSid \notin DOMAIN rows /\ req[t].kind = "refresh"))
           ELSE UNCHANGED <<rows, ended, reused>>
        /\ req' = [req EXCEPT ![t].known = n \in DOMAIN rows,
                              ![t].pc = IF refused THEN "refused" ELSE "verified"]
        /\ UNCHANGED <<now, issued, storeVars, late, left>>

\* refresh_token: the old one is revoked with a grace window, and a new pair is issued.
Rotate(t) ==
    LET n == req[t].pair IN
    /\ Refresh(t, "verified") /\ Len(issued) < MaxPairs
    /\ rows' = WithRow(rows, n, RefreshExpires(n), now + Grace)
    /\ To(t, "rotated")
    /\ UNCHANGED <<now, issued, storeVars, ended, reused, late, left>>
Issue(t) ==
    /\ Refresh(t, "rotated") /\ Len(issued) < MaxPairs
    /\ issued' = Append(issued, now)
    /\ req' = [req EXCEPT ![t].pc = "answered", ![t].got = Len(issued) + 1]
    /\ UNCHANGED <<now, rows, storeVars, ended, reused, late, left>>

\* logout_user: the token, the session, and the rows nobody needs any more. A row of the token
\* that appears after revoke_token looked for it is kept.
RevokeToken(t) ==
    LET n == req[t].pair IN
    /\ Logout(t, "verified")
    /\ rows' \in IF n \notin DOMAIN rows THEN {WithRow(rows, n, RefreshExpires(n), NoGrace)}
                ELSE {[rows EXCEPT ![n].grace = NoGrace]} \cup (IF req[t].known THEN {} ELSE {rows})
    /\ To(t, "token")
    /\ UNCHANGED <<now, issued, storeVars, ended, reused, late, left>>
RevokeSession(t) ==
    /\ Logout(t, "token")
    /\ rows' = WithoutSession(rows) /\ SessionIsRevoked
    /\ To(t, "session")
    /\ UNCHANGED <<now, issued, storeVars, reused, late, left>>
\* clean_token_database, in this logout or in that of another login.
Cleaned == [k \in {k \in DOMAIN rows : rows[k].exp >= now} |-> rows[k]]
CleanTokens(t) ==
    /\ Logout(t, "session")
    /\ rows' = Cleaned
    /\ To(t, "answered")
    /\ UNCHANGED <<now, issued, storeVars, ended, reused, late, left>>
CleanElsewhere ==
    /\ rows' = Cleaned /\ rows' # rows
    /\ UNCHANGED <<now, issued, storeVars, req, ended, reused, late, left>>

----------------------------------------------------------------------------
(* The tabs.                                                                 *)

\* The tab's store. What changes in it is written to localStorage a moment later (store.jsx).
Keeps(t, pair) ==
    /\ tab' = [tab EXCEPT ![t] = pair]
    /\ unsaved' = [unsaved EXCEPT ![t] = Own(req[t].sent)]
Adopts(t, pair) ==
    /\ tab' = [tab EXCEPT ![t] = pair]
    /\ unsaved' = IF pair = tab[t] THEN unsaved ELSE [unsaved EXCEPT ![t] = Kept]
\* A new pair that only this tab has.
Brought(t) == unsaved[t].how = "own" /\ tab[t] # 0

\* An API call of a tab whose access token has expired first takes what another tab has
\* written, and refreshes only if that has expired too.
\* Mutant: localStorage is not read again.
OwnPair(t) == tab[t]
Adopted(t) == IF storage # 0 /\ RefreshExpires(storage) > now THEN storage ELSE tab[t]
CallAPI(t) ==
    /\ tab[t] # 0 /\ AccessExpires(tab[t]) =< now
    /\ Adopts(t, Adopted(t))
    /\ req' = IF req[t] = NoReq /\ AccessExpires(Adopted(t)) =< now /\ RefreshExpires(Adopted(t)) > now
              THEN [req EXCEPT ![t] = [NoReq EXCEPT !.kind = "refresh", !.pair = Adopted(t),
                                                    !.sent = now, !.pc = "sent"]]
              ELSE req
    /\ <<tab', req'>> # <<tab, req>>
    /\ UNCHANGED <<serverVars, storage, events, late, left, stale>>

\* An action that changes what is written with the tokens: a setting, the sort of a pane, or
\* the request of a logout. It writes them too.
Touched(t) ==
    unsaved' = IF unsaved[t] = Saved THEN [unsaved EXCEPT ![t] = Kept] ELSE unsaved
ChangeSettings(t) ==
    /\ unsaved[t] = Saved /\ Touched(t)
    /\ UNCHANGED <<serverVars, storage, tab, events, req, late, left, stale>>
LogOut(t) ==
    /\ tab[t] # 0 /\ req[t] = NoReq
    /\ req' = [req EXCEPT ![t] = [NoReq EXCEPT !.kind = "logout", !.pair = tab[t],
                                               !.sent = now, !.pc = "sent"]]
    /\ Touched(t)
    /\ left' = TRUE
    /\ UNCHANGED <<serverVars, storage, tab, events, late, stale>>

Receive(t) ==
    /\ \/ Refresh(t, "answered") /\ Keeps(t, req[t].got)
       \* Refused: another tab may have rotated it first; or the login is over.
       \/ Refresh(t, "refused") /\ IF Adopted(t) \notin {0, req[t].pair} /\ RefreshExpires(Adopted(t)) > now
                                   THEN Adopts(t, Adopted(t)) ELSE Keeps(t, 0)
       \/ req[t].kind = "logout" /\ req[t].pc \in {"answered", "refused"} /\ Keeps(t, 0)
    /\ req' = [req EXCEPT ![t] = NoReq]
    /\ UNCHANGED <<serverVars, storage, events, late, left, stale>>
\* The request, its process or the answer is lost: a logout forgets the tokens all the same.
Lose(t) ==
    /\ req[t] # NoReq
    /\ IF req[t].kind = "logout" THEN Keeps(t, 0) ELSE UNCHANGED <<tab, unsaved>>
    /\ req' = [req EXCEPT ![t] = NoReq]
    /\ late' = TRUE
    /\ UNCHANGED <<serverVars, storage, events, left, stale>>

\* The tab that writes: a pair which another has written meanwhile may be lost.
Overwrites(t) ==
    storage \notin {0, tab[t]} /\ RefreshExpires(storage) > now /\ ~Brought(t)
Told(t) == [u \in Tabs |-> IF u = t THEN events[u] ELSE Append(events[u], tab[t])]
Persist(t) ==
    /\ unsaved[t] # Saved /\ \A u \in Tabs \ {t} : Len(events[u]) < MaxEvents
    /\ storage' = tab[t]
    \* The same pair is an event for the others only if a setting changed with it.
    /\ IF tab[t] = storage THEN events' \in {events, Told(t)} ELSE events' = Told(t)
    /\ unsaved' = [unsaved EXCEPT ![t] = Saved]
    /\ stale' = (stale \/ Overwrites(t))
    /\ UNCHANGED <<serverVars, tab, req, late, left>>
\* The storage event, at any time after another tab has written: the pair is the one that was
\* written then, in localStorage there may be another by now.
SyncTokens(t) ==
    /\ events[t] # <<>>
    /\ Adopts(t, Head(events[t]))
    /\ events' = [events EXCEPT ![t] = Tail(events[t])]
    /\ stale' = (stale \/ (Brought(t) /\ Head(events[t]) # tab[t]))
    /\ UNCHANGED <<serverVars, storage, req, late, left>>

SessionTick ==
    /\ now < MaxTime
    /\ now' = now + 1
    /\ late' = (late \/ \E t \in Tabs : \/ req[t] # NoReq /\ now' - req[t].sent > Slow
                                        \/ Brought(t) /\ now' - unsaved[t].since > Slow)
    /\ UNCHANGED <<issued, rows, ended, reused, storeVars, req, left>>

SessionNext ==
    \/ \E t \in Tabs : \/ Verify(t) \/ Rotate(t) \/ Issue(t)
                       \/ RevokeToken(t) \/ RevokeSession(t) \/ CleanTokens(t)
                       \/ CallAPI(t) \/ ChangeSettings(t) \/ LogOut(t) \/ Receive(t) \/ Lose(t)
                       \/ Persist(t) \/ SyncTokens(t)
    \/ CleanElsewhere \/ SessionTick

SessionSpec == SessionInit /\ [][SessionNext]_sessionVars

----------------------------------------------------------------------------
\* Once a session was revoked, by a logout or for a rotated token, none of its tokens works
\* again, also when the row of its revocation is cleaned away; but a refresh that was verified
\* before and issues its pair later outlives that row (auth_manager.py:211 has it that none
\* was issued later).
EndedIsOver ==
    ended # 0 =>
        \A n \in DOMAIN issued :
            issued[n] =< ended => /\ RefreshExpires(n) >= now => RefreshRevoked(n)
                                  /\ AccessExpires(n) >= now => AccessRevoked

\* A login that nobody leaves does not end for a token that one of its own tabs rotated, as
\* long as requests, their answers and the storing of these come through and take no longer
\* than half the grace window: however the tabs interleave, none uses a token that another
\* rotated longer ago. (A logout empties localStorage before the other tabs know of it: one may
\* fall back on an old token of its own.)  But a tab that adopted a pair writes it back, also
\* over a newer one that another tab has written meanwhile, and a storage event that comes late
\* takes from a tab the pair that it just received (`stale`); the rotated pair that is left is
\* then used after its grace, although authMiddleware.jsx:12 has it that no tab ever does.
TabsStayLoggedIn == reused => late \/ left \/ stale
=============================================================================
