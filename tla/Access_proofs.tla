---------------------------- MODULE Access_proofs ----------------------------
(***************************************************************************)
(* Who may act for whom.  First the login sessions: a session that ended   *)
(* is over, and a tab is not logged out while its session goes on.  Then   *)
(* the tokens of cloud connections: what the broker hands out, refreshes   *)
(* and stores.                                                             *)
(***************************************************************************)
EXTENDS Sessions, TokenBroker, SequenceTheorems, TLAPS

-----------------------------------------------------------------------------
(* Login sessions: the inductive invariant.                                 *)

RevokedRows == [exp : Nat, grace : Nat]
Kinds == {"none", "refresh", "logout"}
Pcs   == {"none", "sent", "refused", "verified", "rotated", "token", "session", "answered"}
Pairs == 0 .. Len(issued)
Reqs  == [kind : Kinds, pair : Pairs, sent : Nat, pc : Pcs, known : BOOLEAN, got : Pairs]
Unsaveds == [how : {"no", "kept", "own"}, since : Nat]

\* Tabs, requests, storage events and localStorage hold pairs that were issued, or none.
SessionTypeOK ==
    /\ now \in Nat \ {0}
    /\ issued \in Seq(Nat)
    /\ rows \in [DOMAIN rows -> RevokedRows]
    /\ storage \in Pairs
    /\ tab \in [Tabs -> Pairs]
    /\ unsaved \in [Tabs -> Unsaveds]
    /\ events \in [Tabs -> Seq(Pairs)]
    /\ req \in [Tabs -> Reqs]
    /\ ended \in Nat

\* A request is about a token: its row is never taken for the one of the session.
RequestsHaveTokens == \A t \in Tabs : req[t].pc # "none" => req[t].pair # 0

\* The row of a session that ended is there as long as a token that was issued before the end.
SessionRowStays ==
    /\ ended =< now
    /\ TheSid \in DOMAIN rows => ended # 0 /\ rows[TheSid].exp >= ended + RefreshLife
    /\ ended # 0 /\ TheSid \notin DOMAIN rows => ended + RefreshLife < now

SessionInv == SessionTypeOK /\ RequestsHaveTokens /\ SessionRowStays

-----------------------------------------------------------------------------
(* The table of revoked tokens.                                             *)

\* The lifetimes of tokens are numbers, and an access token ends first.
LEMMA LifeTimes == AccessLife \in Nat /\ RefreshLife \in Nat /\ Grace \in Nat /\ AccessLife < RefreshLife
BY SessionAssumption

\* The row of another key says nothing about the session.
LEMMA OtherRow ==
    ASSUME SessionTypeOK, SessionRowStays, NEW n, n # TheSid,
           rows' \in [DOMAIN rows' -> RevokedRows], DOMAIN rows' = DOMAIN rows \cup {n},
           \A x \in DOMAIN rows : x # n => rows'[x] = rows[x],
           UNCHANGED <<now, ended>>
    PROVE  SessionRowStays'
BY DEF SessionRowStays, TheSid

\* However the session is revoked, its row lasts as long as the tokens of that moment.
LEMMA SessionRevoked ==
    ASSUME SessionTypeOK, SessionRowStays, rows' = WithoutSession(rows), SessionIsRevoked, now' = now
    PROVE  /\ rows' \in [DOMAIN rows' -> RevokedRows]
           /\ ended' \in Nat
           /\ SessionRowStays'
<1>1. SessionRowExpires \in Nat /\ NoGrace \in Nat
  BY LifeTimes DEF SessionRowExpires, NoGrace, SessionTypeOK
<1>2. /\ rows' \in [DOMAIN rows' -> RevokedRows]
      /\ DOMAIN rows' = DOMAIN rows \cup {TheSid}
      /\ \A x \in DOMAIN rows : rows'[x] = rows[x]
      /\ TheSid \notin DOMAIN rows => rows'[TheSid].exp = SessionRowExpires
  <2>1. rows \in [DOMAIN rows -> RevokedRows] /\ rows' = WithRow(rows, TheSid, SessionRowExpires, NoGrace)
    BY DEF WithoutSession, SessionTypeOK
  <2> QED BY <1>1, <2>1 DEF WithRow, RevokedRows
<1>3. ended' \in Nat /\ ended' # 0 /\ ended' =< now'
  BY DEF SessionIsRevoked, SessionTypeOK, SessionRowStays
<1>4. rows'[TheSid].exp >= ended' + RefreshLife
  <2>1. CASE TheSid \in DOMAIN rows
    BY <2>1, <1>2 DEF SessionIsRevoked, SessionRowStays
  <2>2. CASE TheSid \notin DOMAIN rows
    BY <2>2, <1>2, <1>3, LifeTimes DEF SessionRowExpires, SessionTypeOK
  <2> QED BY <2>1, <2>2
<1> QED BY <1>2, <1>3, <1>4 DEF SessionRowStays

\* Cleaning keeps the row of the session until the tokens have expired.
LEMMA RowsCleaned ==
    ASSUME SessionTypeOK, SessionRowStays, rows' = Cleaned, UNCHANGED <<now, ended>>
    PROVE  rows' \in [DOMAIN rows' -> RevokedRows] /\ SessionRowStays'
<1>1. /\ DOMAIN rows' = {k \in DOMAIN rows : rows[k].exp >= now}
      /\ \A k \in DOMAIN rows' : rows'[k] = rows[k]
      /\ rows' = [k \in DOMAIN rows' |-> rows[k]]
  BY DEF Cleaned
<1>2. rows' \in [DOMAIN rows' -> RevokedRows]
  BY <1>1 DEF SessionTypeOK
<1>3. TheSid \in DOMAIN rows => rows[TheSid].exp \in Nat
  BY DEF SessionTypeOK, RevokedRows
<1>4. SessionRowStays'
  BY <1>1, <1>3, LifeTimes DEF SessionRowStays, SessionTypeOK
<1> QED BY <1>2, <1>4

-----------------------------------------------------------------------------
(* The steps.                                                               *)

\* A request that is under way is about a pair that was issued.
LEMMA RequestedPair ==
    ASSUME SessionInv, NEW t \in Tabs, req[t].pc # "none"
    PROVE  /\ req[t].pair \in Nat \ {TheSid}
           /\ RefreshExpires(req[t].pair) \in Nat
           /\ now + Grace \in Nat
<1>1. req[t].pair \in Pairs /\ req[t].pair # 0 /\ Len(issued) \in Nat
  BY DEF SessionInv, SessionTypeOK, RequestsHaveTokens, Reqs
<1>2. req[t].pair \in DOMAIN issued
  BY <1>1 DEF SessionInv, SessionTypeOK, Pairs
<1>3. issued[req[t].pair] \in Nat
  BY <1>2 DEF SessionInv, SessionTypeOK
<1> QED
  <2>1. now \in Nat /\ RefreshLife \in Nat /\ Grace \in Nat
    BY LifeTimes DEF SessionInv, SessionTypeOK
  <2>2. req[t].pair \in Nat \ {TheSid}
    BY <1>1 DEF Pairs, TheSid
  <2> QED BY <1>3, <2>1, <2>2 DEF RefreshExpires

\* The invariant holds after the login.
LEMMA SessionInitInv == SessionInit => SessionInv
BY LifeTimes
DEF SessionInit, SessionInv, SessionTypeOK, RequestsHaveTokens, SessionRowStays, RevokedRows, Kinds, Pcs,
    Pairs, Reqs, Unsaveds, TheSid, NoGrace, NoReq, Saved

\* A request moves on: it is still about a pair that was issued.
LEMMA RequestMoves ==
    ASSUME SessionInv, NEW t \in Tabs, NEW r \in Reqs, r.pc # "none" => r.pair # 0,
           req' = [req EXCEPT ![t] = r], UNCHANGED issued
    PROVE  req' \in [Tabs -> Reqs'] /\ RequestsHaveTokens'
BY DEF SessionInv, SessionTypeOK, RequestsHaveTokens, Reqs, Pairs

\* A step of the tabs and requests that issues no pair and revokes nothing.
LEMMA NothingRevoked ==
    ASSUME SessionInv, UNCHANGED <<now, issued, rows, ended>>,
           storage' \in Pairs, tab' \in [Tabs -> Pairs], req' \in [Tabs -> Reqs], RequestsHaveTokens',
           unsaved' \in [Tabs -> Unsaveds], events' \in [Tabs -> Seq(Pairs)]
    PROVE  SessionInv'
BY DEF SessionInv, SessionTypeOK, SessionRowStays, Reqs, Pairs

\* What a store keeps of its own, adopts or writes.
LEMMA StoreMoves ==
    ASSUME SessionInv, NEW t \in Tabs, NEW pair \in Pairs
    PROVE  /\ Keeps(t, pair) \/ Adopts(t, pair) =>
                  tab' \in [Tabs -> Pairs] /\ unsaved' \in [Tabs -> Unsaveds]
           /\ Touched(t) => unsaved' \in [Tabs -> Unsaveds]
           /\ Saved \in Unsaveds
<1>1. Saved \in Unsaveds /\ Kept \in Unsaveds /\ Own(req[t].sent) \in Unsaveds
  BY DEF Saved, Kept, Own, Unsaveds, SessionInv, SessionTypeOK, Reqs
<1> QED BY <1>1 DEF Keeps, Adopts, Touched, SessionInv, SessionTypeOK

\* The pairs that were issued stay issued.
LEMMA MorePairs ==
    ASSUME SessionInv, issued' \in Seq(Nat), Len(issued') = Len(issued) + 1
    PROVE  /\ Pairs \subseteq Pairs' /\ Len(issued) + 1 \in Pairs'
           /\ \A t \in Tabs : events[t] \in Seq(Pairs')
<1>1. Pairs \subseteq Pairs' /\ Len(issued) + 1 \in Pairs'
  BY DEF Pairs, SessionInv, SessionTypeOK
<1>2. ASSUME NEW t \in Tabs PROVE events[t] \in Seq(Pairs')
  <2>1. events[t] \in Seq(Pairs)
    BY DEF SessionInv, SessionTypeOK
  <2> QED BY <1>1, <2>1
<1> QED BY <1>1, <1>2

\* Every step of the server, the tabs and the clock keeps the invariant.
THEOREM SessionStep == SessionInv /\ [SessionNext]_sessionVars => SessionInv'
<1> SUFFICES ASSUME SessionInv, [SessionNext]_sessionVars PROVE SessionInv'
  OBVIOUS
<1> USE DEF SessionInv
<1>1. ASSUME NEW t \in Tabs, Verify(t) PROVE SessionInv'
  <2>1. req[t].pc # "none"
    BY <1>1 DEF Verify
  <2> DEFINE known == req[t].pair \in DOMAIN rows
             r == [req[t] EXCEPT !.known = known, !.pc = req'[t].pc]
  <2>2. req'[t].pc \in {"refused", "verified"} /\ req' = [req EXCEPT ![t] = r]
    BY <1>1 DEF Verify, SessionTypeOK, Reqs
  <2>3. r \in Reqs /\ r.pc # "none" /\ r.pair # 0
    <3>1. known \in BOOLEAN
      OBVIOUS
    <3> HIDE DEF known
    <3> QED BY <2>1, <2>2, <3>1 DEF SessionTypeOK, Reqs, Pcs, RequestsHaveTokens
  <2>4. req' \in [Tabs -> Reqs'] /\ RequestsHaveTokens'
    BY <1>1, <2>2, <2>3, RequestMoves DEF Verify
  <2>5. CASE rows' = WithoutSession(rows) /\ SessionIsRevoked
    BY <1>1, <2>4, <2>5, SessionRevoked DEF Verify, storeVars, SessionTypeOK, Pairs
  <2>6. CASE UNCHANGED <<rows, ended>>
    BY <1>1, <2>4, <2>6 DEF Verify, storeVars, SessionTypeOK, Pairs, SessionRowStays
  <2> QED BY <1>1, <2>5, <2>6 DEF Verify
<1>2. ASSUME NEW t \in Tabs, Rotate(t) PROVE SessionInv'
  <2> DEFINE n == req[t].pair
             r == [req[t] EXCEPT !.pc = "rotated"]
  <2>1. req[t].pc # "none" /\ r \in Reqs /\ r.pair # 0
    BY <1>2 DEF Rotate, Refresh, SessionTypeOK, RequestsHaveTokens, Reqs, Pcs
  <2>2. req' \in [Tabs -> Reqs'] /\ RequestsHaveTokens'
    BY <1>2, <2>1, RequestMoves DEF Rotate, Refresh, To, SessionTypeOK
  <2>3. n # TheSid /\ RefreshExpires(n) \in Nat /\ now + Grace \in Nat
    BY <2>1, RequestedPair
  <2>4. /\ rows' \in [DOMAIN rows' -> RevokedRows]
        /\ DOMAIN rows' = DOMAIN rows \cup {n}
        /\ \A x \in DOMAIN rows : rows'[x] = rows[x]
    BY <1>2, <2>3 DEF Rotate, WithRow, RevokedRows, SessionTypeOK
  <2>5. SessionRowStays'
    BY <1>2, <2>3, <2>4, OtherRow DEF Rotate
  <2> QED BY <1>2, <2>2, <2>4, <2>5 DEF Rotate, storeVars, SessionTypeOK, Pairs
<1>3. ASSUME NEW t \in Tabs, Issue(t) PROVE SessionInv'
  <2>1. issued' \in Seq(Nat) /\ Len(issued') = Len(issued) + 1
    BY <1>3 DEF Issue, SessionTypeOK
  <2>2. /\ Pairs \subseteq Pairs' /\ Len(issued) + 1 \in Pairs'
        /\ \A u \in Tabs : events[u] \in Seq(Pairs')
    BY <2>1, MorePairs
  <2> DEFINE r == [req[t] EXCEPT !.pc = "answered", !.got = Len(issued) + 1]
  <2>3. req' = [req EXCEPT ![t] = r] /\ r \in Reqs' /\ r.pair # 0 /\ \A u \in Tabs : req[u] \in Reqs'
    BY <1>3, <2>2 DEF Issue, Refresh, SessionTypeOK, RequestsHaveTokens, Reqs, Pcs
  <2>4. req' \in [Tabs -> Reqs'] /\ RequestsHaveTokens'
    BY <2>3 DEF SessionTypeOK, RequestsHaveTokens
  <2>5. tab' \in [Tabs -> Pairs'] /\ storage' \in Pairs' /\ events' \in [Tabs -> Seq(Pairs')]
    BY <1>3, <2>2 DEF Issue, storeVars, SessionTypeOK
  <2> QED BY <1>3, <2>1, <2>4, <2>5 DEF Issue, storeVars, SessionTypeOK, SessionRowStays
<1>4. ASSUME NEW t \in Tabs, RevokeToken(t) PROVE SessionInv'
  <2> DEFINE n == req[t].pair
             r == [req[t] EXCEPT !.pc = "token"]
  <2>1. req[t].pc # "none" /\ r \in Reqs /\ r.pair # 0
    BY <1>4 DEF RevokeToken, Logout, SessionTypeOK, RequestsHaveTokens, Reqs, Pcs
  <2>2. req' \in [Tabs -> Reqs'] /\ RequestsHaveTokens'
    BY <1>4, <2>1, RequestMoves DEF RevokeToken, Logout, To, SessionTypeOK
  <2>3. n # TheSid /\ RefreshExpires(n) \in Nat /\ NoGrace \in Nat
    BY <2>1, RequestedPair DEF NoGrace
  <2>4. /\ rows' \in [DOMAIN rows' -> RevokedRows]
        /\ DOMAIN rows' = DOMAIN rows \cup {n}
        /\ \A x \in DOMAIN rows : x # n => rows'[x] = rows[x]
    <3>1. CASE n \notin DOMAIN rows
      BY <1>4, <2>3, <3>1 DEF RevokeToken, WithRow, RevokedRows, SessionTypeOK
    <3>2. CASE n \in DOMAIN rows
      <4>1. rows' = [rows EXCEPT ![n].grace = NoGrace] \/ rows' = rows
        BY <1>4, <3>2 DEF RevokeToken
      <4> QED BY <2>3, <3>2, <4>1 DEF RevokedRows, SessionTypeOK
    <3> QED BY <3>1, <3>2
  <2>5. SessionRowStays'
    BY <1>4, <2>3, <2>4, OtherRow DEF RevokeToken
  <2> QED BY <1>4, <2>2, <2>4, <2>5 DEF RevokeToken, storeVars, SessionTypeOK, Pairs
<1>5. ASSUME NEW t \in Tabs, RevokeSession(t) PROVE SessionInv'
  <2> DEFINE r == [req[t] EXCEPT !.pc = "session"]
  <2>1. r \in Reqs /\ r.pair # 0
    BY <1>5 DEF RevokeSession, Logout, SessionTypeOK, RequestsHaveTokens, Reqs, Pcs
  <2>2. req' \in [Tabs -> Reqs'] /\ RequestsHaveTokens'
    BY <1>5, <2>1, RequestMoves DEF RevokeSession, Logout, To, SessionTypeOK
  <2> QED BY <1>5, <2>2, SessionRevoked DEF RevokeSession, storeVars, SessionTypeOK, Pairs
<1>6. ASSUME NEW t \in Tabs, CleanTokens(t) PROVE SessionInv'
  <2> DEFINE r == [req[t] EXCEPT !.pc = "answered"]
  <2>1. r \in Reqs /\ r.pair # 0
    BY <1>6 DEF CleanTokens, Logout, SessionTypeOK, RequestsHaveTokens, Reqs, Pcs
  <2>2. req' \in [Tabs -> Reqs'] /\ RequestsHaveTokens'
    BY <1>6, <2>1, RequestMoves DEF CleanTokens, Logout, To, SessionTypeOK
  <2> QED BY <1>6, <2>2, RowsCleaned DEF CleanTokens, storeVars, SessionTypeOK, Pairs
<1>7. ASSUME NEW t \in Tabs, CallAPI(t) PROVE SessionInv'
  <2>1. Adopted(t) \in Pairs \ {0}
    BY <1>7 DEF CallAPI, Adopted, SessionTypeOK, Pairs
  <2> DEFINE r == [NoReq EXCEPT !.kind = "refresh", !.pair = Adopted(t), !.sent = now, !.pc = "sent"]
  <2>2. r \in Reqs /\ r.pair # 0
    <3>1. 0 \in Pairs /\ now \in Nat
      BY DEF Pairs, SessionTypeOK
    <3> QED BY <2>1, <3>1 DEF NoReq, Reqs, Kinds, Pcs
  <2>3. req' = [req EXCEPT ![t] = r] \/ req' = req
    BY <1>7 DEF CallAPI
  <2>4. req' \in [Tabs -> Reqs] /\ RequestsHaveTokens'
    BY <2>2, <2>3 DEF SessionTypeOK, RequestsHaveTokens
  <2>5. tab' \in [Tabs -> Pairs] /\ unsaved' \in [Tabs -> Unsaveds]
    BY <1>7, <2>1, StoreMoves DEF CallAPI
  <2> QED BY <1>7, <2>4, <2>5, NothingRevoked DEF CallAPI, serverVars, SessionTypeOK
<1>8. NoReq \in Reqs /\ NoReq.pc = "none" /\ 0 \in Pairs
  BY DEF NoReq, Reqs, Kinds, Pcs, Pairs, SessionTypeOK
<1>9. ASSUME NEW t \in Tabs, LogOut(t) PROVE SessionInv'
  <2> DEFINE r == [NoReq EXCEPT !.kind = "logout", !.pair = tab[t], !.sent = now, !.pc = "sent"]
  <2>1. r \in Reqs /\ r.pair # 0
    BY <1>9 DEF LogOut, NoReq, Reqs, Kinds, Pcs, Pairs, SessionTypeOK
  <2>2. req' \in [Tabs -> Reqs] /\ RequestsHaveTokens'
    BY <1>9, <2>1 DEF LogOut, SessionTypeOK, RequestsHaveTokens
  <2>3. unsaved' \in [Tabs -> Unsaveds]
    BY <1>9, <1>8, StoreMoves DEF LogOut
  <2> QED BY <1>9, <2>2, <2>3, NothingRevoked DEF LogOut, serverVars, SessionTypeOK
<1>10. ASSUME NEW t \in Tabs, Receive(t) PROVE SessionInv'
  <2>1. req' \in [Tabs -> Reqs] /\ RequestsHaveTokens'
    BY <1>8, <1>10 DEF Receive, SessionTypeOK, RequestsHaveTokens
  <2>2. req[t].got \in Pairs /\ Adopted(t) \in Pairs
    BY DEF Adopted, SessionTypeOK, Reqs
  <2>3. tab' \in [Tabs -> Pairs] /\ unsaved' \in [Tabs -> Unsaveds]
    BY <1>8, <1>10, <2>2, StoreMoves DEF Receive
  <2> QED BY <1>10, <2>1, <2>3, NothingRevoked DEF Receive, serverVars, SessionTypeOK
<1>11. ASSUME NEW t \in Tabs, Lose(t) PROVE SessionInv'
  <2>1. req' \in [Tabs -> Reqs] /\ RequestsHaveTokens'
    BY <1>8, <1>11 DEF Lose, SessionTypeOK, RequestsHaveTokens
  <2>2. tab' \in [Tabs -> Pairs] /\ unsaved' \in [Tabs -> Unsaveds]
    BY <1>8, <1>11, StoreMoves DEF Lose, SessionTypeOK
  <2> QED BY <1>11, <2>1, <2>2, NothingRevoked DEF Lose, serverVars, SessionTypeOK
<1>12. ASSUME NEW t \in Tabs, ChangeSettings(t) PROVE SessionInv'
  BY <1>8, <1>12, StoreMoves, NothingRevoked
  DEF ChangeSettings, serverVars, SessionTypeOK, RequestsHaveTokens
<1>13. ASSUME NEW t \in Tabs, Persist(t) PROVE SessionInv'
  <2>1. \A u \in Tabs : Append(events[u], tab[t]) \in Seq(Pairs)
    BY DEF SessionTypeOK
  <2>2. events' \in [Tabs -> Seq(Pairs)]
    BY <1>13, <2>1 DEF Persist, Told, SessionTypeOK
  <2>3. unsaved' \in [Tabs -> Unsaveds]
    BY <1>8, <1>13, StoreMoves DEF Persist, SessionTypeOK
  <2> QED BY <1>13, <2>2, <2>3, NothingRevoked DEF Persist, serverVars, SessionTypeOK, RequestsHaveTokens
<1>14. ASSUME NEW t \in Tabs, SyncTokens(t) PROVE SessionInv'
  <2>1. Head(events[t]) \in Pairs /\ Tail(events[t]) \in Seq(Pairs)
    BY <1>14 DEF SyncTokens, SessionTypeOK
  <2>2. tab' \in [Tabs -> Pairs] /\ unsaved' \in [Tabs -> Unsaveds]
    BY <1>14, <2>1, StoreMoves DEF SyncTokens
  <2> QED BY <1>14, <2>1, <2>2, NothingRevoked DEF SyncTokens, serverVars, SessionTypeOK, RequestsHaveTokens
<1>15. CASE CleanElsewhere
  BY <1>15, RowsCleaned DEF CleanElsewhere, storeVars, SessionTypeOK, RequestsHaveTokens, Pairs, Reqs
<1>16. CASE SessionTick
  <2>1. now' = now + 1 /\ now' \in Nat \ {0}
    BY <1>16 DEF SessionTick, SessionTypeOK
  <2>2. SessionTypeOK'
    BY <1>16, <2>1 DEF SessionTick, storeVars, SessionTypeOK, Pairs, Reqs
  <2>3. SessionRowStays'
    BY <1>16, <2>1, LifeTimes DEF SessionTick, SessionTypeOK, SessionRowStays
  <2> QED BY <1>16, <2>2, <2>3 DEF SessionTick, RequestsHaveTokens
<1>17. CASE UNCHANGED sessionVars
  BY <1>17 DEF sessionVars, serverVars, storeVars, SessionTypeOK, RequestsHaveTokens, SessionRowStays, Pairs, Reqs
<1> QED
  BY <1>1, <1>2, <1>3, <1>4, <1>5, <1>6, <1>7, <1>9, <1>10, <1>11, <1>12, <1>13, <1>14, <1>15, <1>16, <1>17
  DEF SessionNext

-----------------------------------------------------------------------------
(* The theorems.                                                            *)

\* The strengthening of EndedIsOver is an invariant of a login.
THEOREM SessionInvariant == SessionSpec => []SessionInv
BY SessionInitInv, SessionStep, PTL DEF SessionSpec

\* Types of the tokens, requests and revocations of a login (auth_manager.py, authMiddleware.jsx).
THEOREM SessionTypeCorrect == SessionSpec => []SessionTypeOK
<1>1. SessionInv => SessionTypeOK
  BY DEF SessionInv
<1> QED BY <1>1, SessionInvariant, PTL

\* Once a session was revoked (logout_user, or a token used again: token_is_revoked), none of its
\* tokens that were issued before works again, also after clean_token_database.
THEOREM EndedSessionsAreOver == SessionSpec => []EndedIsOver
<1>1. SessionInv => EndedIsOver
  <2> SUFFICES ASSUME SessionInv, ended # 0, NEW n \in DOMAIN issued, issued[n] =< ended,
                      RefreshExpires(n) >= now \/ AccessExpires(n) >= now
               PROVE  TheSid \in DOMAIN rows
    BY DEF EndedIsOver, RefreshRevoked, AccessRevoked
  <2>1. issued[n] \in Nat /\ ended \in Nat /\ now \in Nat
    BY DEF SessionInv, SessionTypeOK
  <2>2. ended + RefreshLife >= now
    BY <2>1, LifeTimes DEF RefreshExpires, AccessExpires
  <2> QED BY <2>1, <2>2, LifeTimes DEF SessionInv, SessionRowStays
<1> QED BY <1>1, SessionInvariant, PTL
-----------------------------------------------------------------------------
(* The tabs of a login that nobody leaves, when nothing is lost or late and no *)
(* tab puts an older pair in the place of a newer one.                        *)

\* A refresh is under way that rotated pair n, or its tab has not written the new pair yet.
Rotating(n) ==
    \E u \in Tabs :
        \/ /\ req[u].kind = "refresh" /\ req[u].pc \in {"rotated", "answered"}
           /\ req[u].pair = n /\ req[u].sent + Grace =< rows[n].grace
        \/ Brought(u) /\ unsaved[u].since + Grace =< rows[n].grace
\* A pair that was rotated and could still be used: its successor is awaited or stored.
Followed(n) ==
    RefreshExpires(n) > now =>
        Rotating(n) \/ (storage \notin {0, n} /\ issued[storage] >= issued[n])
\* Only rotations write rows, and only for a pair whose access token had expired.
RowOfRotation(n) == n \in DOMAIN issued /\ rows[n].grace > 0 /\ AccessExpires(n) =< now
\* A request about a rotated pair was sent before, or not much later than it was rotated.
InTime(t) ==
    req[t].pc # "none" =>
        /\ req[t].kind = "refresh"
        /\ req[t].sent =< now /\ now =< req[t].sent + Slow
        /\ AccessExpires(req[t].pair) =< req[t].sent
        /\ req[t].pc = "sent" /\ req[t].pair \in DOMAIN rows =>
               req[t].sent + Grace =< rows[req[t].pair].grace + Slow
        /\ req[t].pc = "refused" => RefreshExpires(req[t].pair) < now
\* Pair n is in no request or storage event, and none of these tabs has it.
Unknown(n, others) ==
    /\ n \in DOMAIN issued /\ n \notin DOMAIN rows /\ n # storage
    /\ \A t \in others : tab[t] # n
    /\ \A t \in Tabs : req[t].pair # n /\ \A i \in DOMAIN events[t] : events[t][i] # n
\* Nobody knows the pair that an answer brings, and it is no older than its request.
Brings(t) ==
    req[t].pc = "answered" =>
        /\ Unknown(req[t].got, Tabs) /\ issued[req[t].got] >= req[t].sent
        /\ \A u \in Tabs : req[u].pc = "answered" /\ u # t => req[u].got # req[t].got
\* The tab that has received it is the only one that knows it until it is written.
Holds(t) ==
    Brought(t) =>
        /\ Unknown(tab[t], Tabs \ {t}) /\ issued[tab[t]] >= unsaved[t].since
        /\ unsaved[t].since =< now /\ now =< unsaved[t].since + Slow
        /\ req[t].pc = "none"

CalmInv ==
    /\ ended = 0
    /\ \A n \in DOMAIN rows : RowOfRotation(n) /\ Followed(n)
    /\ \A t \in Tabs : InTime(t) /\ Brings(t) /\ Holds(t)
Calm    == ~late /\ ~left /\ ~stale
TabsInv == Calm => ~reused /\ CalmInv

\* The types of what a step of a tab is about.
LEMMA TabFields ==
    ASSUME SessionInv
    PROVE  /\ now \in Nat \ {0} /\ Len(issued) \in Nat /\ DOMAIN issued = 1 .. Len(issued)
           /\ \A n \in DOMAIN issued : issued[n] \in Nat
           /\ \A n \in DOMAIN rows : rows[n].grace \in Nat
           /\ storage \in 0 .. Len(issued)
           /\ \A t \in Tabs : tab[t] \in 0 .. Len(issued) /\ unsaved[t].since \in Nat
           /\ \A t \in Tabs : \A i \in DOMAIN events[t] : events[t][i] \in 0 .. Len(issued)
           /\ \A t \in Tabs : /\ req[t].pair \in 0 .. Len(issued) /\ req[t].got \in 0 .. Len(issued)
                              /\ req[t].sent \in Nat
                              /\ req[t].pc # "none" => req[t].pair \in DOMAIN issued
           /\ AccessLife \in Nat /\ RefreshLife \in Nat /\ Grace \in Nat /\ Slow \in Nat
           /\ AccessLife < RefreshLife /\ 2 * Slow =< Grace /\ Slow < AccessLife
<1>1. /\ AccessLife \in Nat /\ RefreshLife \in Nat /\ Grace \in Nat /\ Slow \in Nat
      /\ AccessLife < RefreshLife /\ 2 * Slow =< Grace /\ Slow < AccessLife
  BY SessionAssumption
<1>2. /\ now \in Nat \ {0} /\ Len(issued) \in Nat /\ DOMAIN issued = 1 .. Len(issued)
      /\ \A n \in DOMAIN issued : issued[n] \in Nat
  BY DEF SessionInv, SessionTypeOK
<1>3. \A n \in DOMAIN rows : rows[n].grace \in Nat
  BY DEF SessionInv, SessionTypeOK, RevokedRows
<1>4. storage \in 0 .. Len(issued) /\ \A t \in Tabs : tab[t] \in 0 .. Len(issued) /\ unsaved[t].since \in Nat
  BY DEF SessionInv, SessionTypeOK, Pairs, Unsaveds
<1>5. \A t \in Tabs : /\ req[t].pair \in 0 .. Len(issued) /\ req[t].got \in 0 .. Len(issued)
                      /\ req[t].sent \in Nat
  BY DEF SessionInv, SessionTypeOK, Reqs, Pairs
<1>6. \A t \in Tabs : req[t].pc # "none" => req[t].pair \in DOMAIN issued
  BY <1>2, <1>5 DEF SessionInv, RequestsHaveTokens
<1>7. ASSUME NEW t \in Tabs, NEW i \in DOMAIN events[t] PROVE events[t][i] \in 0 .. Len(issued)
  <2>1. events[t] \in Seq(0 .. Len(issued))
    BY DEF SessionInv, SessionTypeOK, Pairs
  <2> QED BY <2>1
<1> QED BY <1>1, <1>2, <1>3, <1>4, <1>5, <1>6, <1>7

\* A request that moves on, keeping its pair and the moment it was sent.
MovesOn(t, pc) ==
    /\ \A u \in Tabs \ {t} : req'[u] = req[u]
    /\ req'[t].kind = req[t].kind /\ req'[t].pair = req[t].pair /\ req'[t].sent = req[t].sent
    /\ req'[t].pc = pc

\* A tab with a new pair has no request, and waits no longer than an access token lives.
LEMMA BroughtIsFresh ==
    ASSUME SessionInv, CalmInv, NEW t \in Tabs, Brought(t)
    PROVE  req[t].pc = "none" /\ AccessExpires(tab[t]) > now
<1>1. Holds(t)
  BY DEF CalmInv
<1>2. /\ tab[t] \in DOMAIN issued /\ issued[tab[t]] >= unsaved[t].since
      /\ now =< unsaved[t].since + Slow /\ req[t].pc = "none"
  BY <1>1 DEF Holds, Unknown
<1>3. issued[tab[t]] \in Nat /\ unsaved[t].since \in Nat /\ now \in Nat /\ Slow \in Nat
      /\ AccessLife \in Nat /\ Slow < AccessLife
  BY <1>2, TabFields
<1> QED BY <1>2, <1>3 DEF AccessExpires

\* The token of a refresh is never refused for having been rotated: it is still in its grace
\* window, which is twice as long as any request.
LEMMA VerifyCalm ==
    ASSUME SessionInv, CalmInv, NEW t \in Tabs, Verify(t)
    PROVE  CalmInv' /\ UNCHANGED <<reused, late, left, stale>>
<1>1. PICK n : n = req[t].pair
  OBVIOUS
<1>2. req[t].pc = "sent" /\ n \in DOMAIN issued /\ InTime(t)
  BY <1>1, TabFields DEF Verify, CalmInv
<1>3. n \in DOMAIN rows => InGrace(n)
  <2> SUFFICES ASSUME n \in DOMAIN rows PROVE InGrace(n)
    OBVIOUS
  <2>1. RowOfRotation(n) /\ rows[n].grace \in Nat
    BY TabFields DEF CalmInv
  <2>2. /\ req[t].sent + Grace =< rows[n].grace + Slow
        /\ now =< req[t].sent + Slow /\ req[t].sent \in Nat
    BY <1>1, <1>2, TabFields DEF InTime
  <2>3. now \in Nat /\ Grace \in Nat /\ Slow \in Nat /\ 2 * Slow =< Grace
    BY TabFields
  <2>4. now =< rows[n].grace
    BY <2>1, <2>2, <2>3
  <2> QED BY <2>1, <2>4 DEF InGrace, NoGrace, RowOfRotation
<1>4. TheSid \notin DOMAIN rows
  BY TabFields DEF CalmInv, RowOfRotation, TheSid
<1>5. ~Reuse(n) /\ (RefreshRevoked(n) <=> FALSE)
  BY <1>3, <1>4 DEF Reuse, RefreshRevoked
<1>6. UNCHANGED <<now, issued, rows, storage, tab, unsaved, events, ended, reused, late, left, stale>>
  BY <1>1, <1>5 DEF Verify, storeVars
<1>7. PICK pc \in {"refused", "verified"} : MovesOn(t, pc) /\ (pc = "refused" => RefreshExpires(n) < now)
  <2>1. PICK pc : /\ pc = IF RefreshExpires(n) < now THEN "refused" ELSE "verified"
                  /\ req' = [req EXCEPT ![t].known = n \in DOMAIN rows, ![t].pc = pc]
    BY <1>1, <1>5 DEF Verify
  <2>2. req[t] \in Reqs /\ req \in [Tabs -> Reqs]
    BY DEF SessionInv, SessionTypeOK
  <2>3. MovesOn(t, pc)
    BY <2>1, <2>2 DEF MovesOn, Reqs
  <2> QED BY <2>1, <2>3
<1>8. \A k : Rotating(k) => Rotating(k)'
  BY <1>2, <1>6, <1>7 DEF Rotating, Brought, MovesOn
<1>9. \A k \in DOMAIN rows : RowOfRotation(k)' /\ Followed(k)'
  BY <1>6, <1>8 DEF CalmInv, RowOfRotation, Followed, AccessExpires, RefreshExpires
<1>10. ASSUME NEW u \in Tabs PROVE InTime(u)'
  <2>1. CASE u = t
    BY <1>1, <1>2, <1>6, <1>7, <2>1 DEF InTime, MovesOn, AccessExpires, RefreshExpires
  <2>2. CASE u # t
    BY <1>6, <1>7, <2>2 DEF CalmInv, InTime, MovesOn, AccessExpires, RefreshExpires
  <2> QED BY <2>1, <2>2
<1>11. ASSUME NEW n1, NEW others, Unknown(n1, others) PROVE Unknown(n1, others)'
  BY <1>6, <1>7, <1>11 DEF Unknown, MovesOn
<1>12. ASSUME NEW u \in Tabs PROVE Brings(u)' /\ Holds(u)'
  <2>1. Brings(u) /\ Holds(u)
    BY DEF CalmInv
  <2>2. Brings(u)'
    BY <1>2, <1>6, <1>7, <1>11, <2>1 DEF Brings, MovesOn
  <2>3. Holds(u)'
    BY <1>2, <1>6, <1>7, <1>11, <2>1 DEF Holds, Brought, MovesOn
  <2> QED BY <2>2, <2>3
<1> QED BY <1>6, <1>9, <1>10, <1>12 DEF CalmInv

\* A rotation waits for its answer, and requests for the same pair were sent before it.
LEMMA RotateCalm ==
    ASSUME SessionInv, CalmInv, NEW t \in Tabs, Rotate(t)
    PROVE  CalmInv'
<1>1. PICK n : n = req[t].pair
  OBVIOUS
<1>2. req[t].pc = "verified" /\ req[t].kind = "refresh" /\ n \in DOMAIN issued /\ InTime(t)
  BY <1>1, TabFields DEF Rotate, Refresh, CalmInv
<1>3. UNCHANGED <<now, issued, storage, tab, unsaved, events, ended>>
  BY DEF Rotate, storeVars
<1>4. MovesOn(t, "rotated")
  <2>1. req[t] \in Reqs /\ req \in [Tabs -> Reqs]
    BY DEF SessionInv, SessionTypeOK
  <2> QED BY <2>1 DEF Rotate, To, MovesOn, Reqs
<1>5. /\ DOMAIN rows' = DOMAIN rows \cup {n}
      /\ \A k \in DOMAIN rows : rows'[k] = rows[k]
      /\ n \notin DOMAIN rows => rows'[n].grace = now + Grace
  BY <1>1 DEF Rotate, WithRow
<1>6. \A k \in DOMAIN rows : Rotating(k) => Rotating(k)'
  BY <1>2, <1>3, <1>4, <1>5 DEF Rotating, Brought, MovesOn
<1>7. ASSUME NEW k \in DOMAIN rows' PROVE RowOfRotation(k)' /\ Followed(k)'
  <2>1. CASE k \in DOMAIN rows
    BY <1>3, <1>5, <1>6, <2>1 DEF CalmInv, RowOfRotation, Followed, AccessExpires, RefreshExpires
  <2>2. CASE k = n /\ n \notin DOMAIN rows
    <3>1. rows'[n].grace = now + Grace
      BY <1>5, <2>2
    <3>2. req[t].sent =< now /\ AccessExpires(n) =< req[t].sent /\ req[t].sent \in Nat /\ issued[n] \in Nat
      BY <1>1, <1>2, TabFields DEF InTime
    <3>3. RowOfRotation(n)'
      BY <1>2, <1>3, <3>1, <3>2, TabFields DEF RowOfRotation, AccessExpires
    <3>4. Rotating(n)'
      <4>1. /\ req'[t].kind = "refresh" /\ req'[t].pc = "rotated" /\ req'[t].pair = n
            /\ req'[t].sent + Grace =< rows'[n].grace
        BY <1>1, <1>2, <1>4, <3>1, <3>2, TabFields DEF MovesOn
      <4> QED BY <4>1 DEF Rotating
    <3> QED BY <2>2, <3>3, <3>4 DEF Followed
  <2> QED BY <1>5, <2>1, <2>2
<1>8. ASSUME NEW u \in Tabs PROVE InTime(u)'
  <2>1. CASE u = t
    BY <1>1, <1>2, <1>3, <1>4, <2>1 DEF InTime, MovesOn, AccessExpires, RefreshExpires
  <2>2. CASE u # t
    <3>1. req'[u] = req[u] /\ InTime(u)
      BY <1>4, <2>2 DEF MovesOn, CalmInv
    <3>2. ASSUME req[u].pc = "sent", req[u].pair \in DOMAIN rows'
          PROVE  req[u].sent + Grace =< rows'[req[u].pair].grace + Slow
      <4>1. CASE req[u].pair \in DOMAIN rows
        BY <1>5, <3>1, <3>2, <4>1 DEF InTime
      <4>2. CASE req[u].pair \notin DOMAIN rows
        <5>1. rows'[req[u].pair].grace = now + Grace
          BY <1>5, <3>2, <4>2
        <5>2. req[u].sent =< now /\ req[u].sent \in Nat
          BY <3>1, <3>2, TabFields DEF InTime
        <5> QED BY <5>1, <5>2, TabFields
      <4> QED BY <4>1, <4>2
    <3> QED BY <1>3, <3>1, <3>2 DEF InTime, AccessExpires, RefreshExpires
  <2> QED BY <2>1, <2>2
<1>9. ASSUME NEW m, NEW others, Unknown(m, others) PROVE Unknown(m, others)'
  BY <1>1, <1>3, <1>4, <1>5, <1>9 DEF Unknown, MovesOn
<1>10. ASSUME NEW u \in Tabs PROVE Brings(u)' /\ Holds(u)'
  <2>1. Brings(u) /\ Holds(u)
    BY DEF CalmInv
  <2>2. Brings(u)'
    BY <1>2, <1>3, <1>4, <1>9, <2>1 DEF Brings, MovesOn
  <2>3. Holds(u)'
    BY <1>2, <1>3, <1>4, <1>9, <2>1 DEF Holds, Brought, MovesOn
  <2> QED BY <2>2, <2>3
<1> QED BY <1>3, <1>7, <1>8, <1>10 DEF CalmInv

\* The pair that is issued is new.
LEMMA IssueCalm ==
    ASSUME SessionInv, CalmInv, NEW t \in Tabs, Issue(t)
    PROVE  CalmInv'
<1>1. PICK n : n = Len(issued) + 1
  OBVIOUS
<1>2. req[t].pc = "rotated" /\ req[t].kind = "refresh" /\ InTime(t)
  BY DEF Issue, Refresh, CalmInv
<1>3. UNCHANGED <<now, rows, storage, tab, unsaved, events, ended>>
  BY DEF Issue, storeVars
<1>4. MovesOn(t, "answered") /\ req'[t].got = n
  <2>1. req[t] \in Reqs /\ req \in [Tabs -> Reqs]
    BY DEF SessionInv, SessionTypeOK
  <2> QED BY <1>1, <2>1 DEF Issue, MovesOn, Reqs
<1>5. /\ DOMAIN issued' = 1 .. n /\ issued'[n] = now
      /\ \A k \in DOMAIN issued : issued'[k] = issued[k]
      /\ DOMAIN issued \subseteq DOMAIN issued' /\ n \notin DOMAIN issued
  <2>1. issued \in Seq(Nat) /\ now \in Nat /\ issued' = Append(issued, now)
    BY DEF Issue, SessionInv, SessionTypeOK
  <2> QED BY <1>1, <2>1
<1>6. \A k : Rotating(k) => Rotating(k)'
  BY <1>2, <1>3, <1>4 DEF Rotating, Brought, MovesOn
<1>7. ASSUME NEW k \in DOMAIN rows PROVE RowOfRotation(k)' /\ Followed(k)'
  <2>1. RowOfRotation(k) /\ Followed(k) /\ k \in DOMAIN issued
    BY DEF CalmInv, RowOfRotation
  <2>2. storage # 0 => storage \in DOMAIN issued
    BY TabFields
  <2> QED BY <1>3, <1>5, <1>6, <2>1, <2>2 DEF RowOfRotation, Followed, AccessExpires, RefreshExpires
<1>8. ASSUME NEW u \in Tabs PROVE InTime(u)'
  <2>1. InTime(u) /\ (req[u].pc # "none" => req[u].pair \in DOMAIN issued)
    BY TabFields DEF CalmInv
  <2>2. CASE u = t
    BY <1>2, <1>3, <1>4, <1>5, <2>1, <2>2 DEF InTime, MovesOn, AccessExpires, RefreshExpires
  <2>3. CASE u # t
    BY <1>3, <1>4, <1>5, <2>1, <2>3 DEF InTime, MovesOn, AccessExpires, RefreshExpires
  <2> QED BY <2>2, <2>3
<1>9. ASSUME NEW m, NEW others, Unknown(m, others) PROVE Unknown(m, others)'
  BY <1>3, <1>4, <1>5, <1>9 DEF Unknown, MovesOn
<1>10. Unknown(n, Tabs)'
  <2>1. \A k \in DOMAIN rows : k \in DOMAIN issued
    BY DEF CalmInv, RowOfRotation
  <2>2. n \notin DOMAIN rows /\ n \in DOMAIN issued' /\ n # storage
    BY <1>1, <1>5, <2>1, TabFields
  <2>3. \A v \in Tabs : /\ tab[v] # n /\ req[v].pair # n
                        /\ \A i \in DOMAIN events[v] : events[v][i] # n
    BY <1>1, TabFields
  <2> QED BY <1>3, <1>4, <2>2, <2>3 DEF Unknown, MovesOn
<1>11. ASSUME NEW u \in Tabs PROVE Brings(u)'
  <2>1. \A v \in Tabs : req[v].pc = "answered" => req[v].got \in DOMAIN issued
    BY DEF CalmInv, Brings, Unknown
  <2>2. CASE u = t
    <3>1. issued'[n] >= req[t].sent
      BY <1>2, <1>5, TabFields DEF InTime
    <3>2. \A v \in Tabs : req'[v].pc = "answered" /\ v # t => req'[v].got # n
      BY <1>4, <1>5, <2>1 DEF MovesOn
    <3> QED BY <1>4, <1>10, <2>2, <3>1, <3>2 DEF Brings, MovesOn
  <2>3. CASE u # t
    <3> SUFFICES ASSUME req[u].pc = "answered" PROVE Brings(u)'
      BY <1>4, <2>3 DEF Brings, MovesOn
    <3>1. /\ Unknown(req[u].got, Tabs) /\ issued[req[u].got] >= req[u].sent /\ req[u].got # n
          /\ \A v \in Tabs : req[v].pc = "answered" /\ v # u => req[v].got # req[u].got
      BY <1>5, <2>1 DEF CalmInv, Brings
    <3>2. req'[u] = req[u] /\ req[u].got \in DOMAIN issued
      BY <1>4, <2>1, <2>3 DEF MovesOn
    <3>3. Unknown(req[u].got, Tabs)'
      BY <1>9, <3>1, <3>2
    <3>4. \A v \in Tabs : req'[v].pc = "answered" /\ v # u => req'[v].got # req[u].got
      BY <1>4, <3>1 DEF MovesOn
    <3> QED BY <1>5, <3>1, <3>2, <3>3, <3>4 DEF Brings
  <2> QED BY <2>2, <2>3
<1>12. ASSUME NEW u \in Tabs PROVE Holds(u)'
  <2> SUFFICES ASSUME Brought(u) PROVE Holds(u)'
    BY <1>3 DEF Holds, Brought
  <2>1. Holds(u) /\ u # t /\ req'[u] = req[u]
    BY <1>2, <1>4, BroughtIsFresh DEF CalmInv, MovesOn
  <2>2. tab[u] \in DOMAIN issued /\ Unknown(tab[u], Tabs \ {u})'
    BY <1>3, <1>9, <2>1 DEF Holds, Unknown
  <2> QED BY <1>3, <1>5, <2>1, <2>2 DEF Holds
<1> QED BY <1>3, <1>7, <1>8, <1>11, <1>12 DEF CalmInv

\* A tab sends a pair that another rotated only while that one waits for its answer or has not
\* written it: afterwards the tab finds the successor in localStorage.
LEMMA CallCalm ==
    ASSUME SessionInv, CalmInv, NEW t \in Tabs, CallAPI(t)
    PROVE  CalmInv'
<1>1. PICK n : n = Adopted(t)
  OBVIOUS
<1>2. ~Brought(t) /\ n \in DOMAIN issued
  <2>1. ~Brought(t)
    <3> SUFFICES ASSUME Brought(t) PROVE FALSE
      OBVIOUS
    <3>1. AccessExpires(tab[t]) > now /\ AccessExpires(tab[t]) =< now
      BY BroughtIsFresh DEF CallAPI
    <3>2. tab[t] \in DOMAIN issued /\ now \in Nat /\ AccessLife \in Nat
      BY TabFields DEF CallAPI
    <3>3. AccessExpires(tab[t]) \in Nat
      BY <3>2, TabFields DEF AccessExpires
    <3> QED BY <3>1, <3>2, <3>3
  <2>2. n \in DOMAIN issued
    BY <1>1, TabFields DEF CallAPI, Adopted
  <2> QED BY <2>1, <2>2
<1>3. UNCHANGED <<now, issued, rows, storage, events, ended>>
  BY DEF CallAPI, serverVars
<1>4. /\ \A u \in Tabs : tab'[u] = IF u = t THEN n ELSE tab[u]
      /\ \A u \in Tabs \ {t} : unsaved'[u] = unsaved[u]
  BY <1>1 DEF CallAPI, Adopts, SessionInv, SessionTypeOK
<1>5. /\ \A u \in Tabs \ {t} : req'[u] = req[u]
      /\ \/ req'[t] = req[t]
         \/ /\ req[t].pc = "none"
            /\ req'[t].kind = "refresh" /\ req'[t].pair = n /\ req'[t].sent = now /\ req'[t].pc = "sent"
            /\ AccessExpires(n) =< now /\ RefreshExpires(n) > now
  <2>1. PICK r : r = [NoReq EXCEPT !.kind = "refresh", !.pair = n, !.sent = now, !.pc = "sent"]
    OBVIOUS
  <2>2. r.kind = "refresh" /\ r.pair = n /\ r.sent = now /\ r.pc = "sent"
    BY <2>1 DEF NoReq
  <2>3. \/ req' = req
        \/ /\ req' = [req EXCEPT ![t] = r] /\ req[t].pc = "none"
           /\ AccessExpires(n) =< now /\ RefreshExpires(n) > now
    BY <1>1, <2>1 DEF CallAPI, NoReq
  <2>4. req \in [Tabs -> Reqs]
    BY DEF SessionInv, SessionTypeOK
  <2> QED BY <2>2, <2>3, <2>4
<1>6. ~Brought(t)'
  BY <1>1, <1>2, TabFields DEF CallAPI, Adopts, Brought, Kept, SessionInv, SessionTypeOK
<1>7. \A u \in Tabs : (Brought(u) => Brought(u)' /\ u # t) /\ (Brought(u)' => Brought(u) /\ u # t)
  BY <1>2, <1>4, <1>6 DEF Brought
<1>8. ASSUME NEW k, Rotating(k) PROVE Rotating(k)'
  <2>1. PICK u \in Tabs :
            \/ /\ req[u].kind = "refresh" /\ req[u].pc \in {"rotated", "answered"}
               /\ req[u].pair = k /\ req[u].sent + Grace =< rows[k].grace
            \/ Brought(u) /\ unsaved[u].since + Grace =< rows[k].grace
    BY <1>8 DEF Rotating
  <2>2. CASE Brought(u) /\ unsaved[u].since + Grace =< rows[k].grace
    <3>1. Brought(u)' /\ unsaved'[u].since + Grace =< rows'[k].grace
      BY <1>3, <1>4, <1>7, <2>2
    <3> QED BY <3>1 DEF Rotating
  <2>3. CASE /\ req[u].kind = "refresh" /\ req[u].pc \in {"rotated", "answered"}
             /\ req[u].pair = k /\ req[u].sent + Grace =< rows[k].grace
    <3>1. req'[u] = req[u]
      BY <1>5, <2>3
    <3> QED BY <1>3, <2>3, <3>1 DEF Rotating
  <2> QED BY <2>1, <2>2, <2>3
<1>9. ASSUME NEW k \in DOMAIN rows PROVE RowOfRotation(k)' /\ Followed(k)'
  BY <1>3, <1>8 DEF CalmInv, RowOfRotation, Followed, AccessExpires, RefreshExpires
<1>10. ASSUME n \in DOMAIN rows, RefreshExpires(n) > now
       PROVE  now + Grace =< rows[n].grace + Slow
  <2>1. Followed(n)
    BY <1>10 DEF CalmInv
  <2>2. CASE Rotating(n)
    <3>1. PICK u \in Tabs : \/ req[u].pc # "none" /\ req[u].sent + Grace =< rows[n].grace
                            \/ Brought(u) /\ unsaved[u].since + Grace =< rows[n].grace
      BY <2>2 DEF Rotating
    <3>2. /\ req[u].pc # "none" => now =< req[u].sent + Slow
          /\ Brought(u) => now =< unsaved[u].since + Slow
          /\ req[u].sent \in Nat /\ unsaved[u].since \in Nat
      BY <3>1, TabFields DEF CalmInv, InTime, Holds
    <3>3. now \in Nat /\ Grace \in Nat /\ Slow \in Nat /\ rows[n].grace \in Nat
      BY <1>10, TabFields
    <3> QED BY <3>1, <3>2, <3>3
  <2>3. CASE storage \notin {0, n} /\ issued[storage] >= issued[n]
    <3>1. issued[n] \in Nat /\ issued[storage] \in Nat /\ now \in Nat /\ RefreshLife \in Nat
      BY <1>2, <2>3, TabFields
    <3>2. RefreshExpires(storage) > now
      BY <1>10, <2>3, <3>1 DEF RefreshExpires
    <3> QED BY <1>1, <2>3, <3>2 DEF Adopted
  <2> QED BY <1>10, <2>1, <2>2, <2>3 DEF Followed
<1>11. ASSUME NEW u \in Tabs PROVE InTime(u)'
  <2>1. CASE req'[u] = req[u]
    BY <1>3, <2>1 DEF CalmInv, InTime, AccessExpires, RefreshExpires
  <2>2. CASE /\ u = t /\ req'[t].kind = "refresh" /\ req'[t].pair = n /\ req'[t].sent = now
             /\ req'[t].pc = "sent" /\ AccessExpires(n) =< now /\ RefreshExpires(n) > now
    <3>1. now =< now + Slow /\ now =< now
      BY TabFields
    <3> QED BY <1>3, <1>10, <2>2, <3>1 DEF InTime, AccessExpires, RefreshExpires
  <2> QED BY <1>5, <2>1, <2>2
<1>12. ASSUME NEW m, NEW others \in SUBSET Tabs, Unknown(m, others), t \in others
       PROVE  Unknown(m, others)'
  <2>1. m # n
    BY <1>1, <1>12 DEF Unknown, Adopted
  <2> QED BY <1>3, <1>4, <1>5, <1>12, <2>1 DEF Unknown
<1>13. ASSUME NEW u \in Tabs PROVE Brings(u)'
  <2> SUFFICES ASSUME req'[u].pc = "answered" PROVE Brings(u)'
    BY DEF Brings
  <2>1. \A v \in Tabs : req'[v].pc = "answered" => req[v].pc = "answered" /\ req'[v] = req[v]
    BY <1>5
  <2>2. req'[u] = req[u] /\ Brings(u) /\ Unknown(req[u].got, Tabs)
    BY <2>1 DEF CalmInv, Brings
  <2>3. Unknown(req[u].got, Tabs)'
    BY <1>12, <2>2
  <2> QED BY <1>3, <2>1, <2>2, <2>3 DEF Brings
<1>14. ASSUME NEW u \in Tabs PROVE Holds(u)'
  <2> SUFFICES ASSUME Brought(u)' PROVE Holds(u)'
    BY DEF Holds
  <2>1. u # t /\ Brought(u) /\ Holds(u)
    BY <1>7 DEF CalmInv
  <2>2. tab'[u] = tab[u] /\ unsaved'[u] = unsaved[u] /\ req'[u] = req[u]
    BY <1>4, <1>5, <2>1
  <2>3. Unknown(tab[u], Tabs \ {u})'
    BY <1>12, <2>1, <2>2 DEF Holds
  <2> QED BY <1>3, <2>1, <2>2, <2>3 DEF Holds
<1> QED BY <1>3, <1>9, <1>11, <1>13, <1>14 DEF CalmInv

\* The answer comes: its pair is the tab's own until it is written; or the tab was refused
\* because its token has expired.
LEMMA ReceiveCalm ==
    ASSUME SessionInv, CalmInv, NEW t \in Tabs, Receive(t)
    PROVE  CalmInv'
<1>1. /\ req[t].kind = "refresh" /\ req[t].pc \in {"answered", "refused"}
      /\ InTime(t) /\ Brings(t) /\ ~Brought(t)
  BY BroughtIsFresh DEF Receive, Refresh, CalmInv, InTime
<1>2. UNCHANGED <<now, issued, rows, storage, events, ended>>
  BY DEF Receive, serverVars
<1>3. /\ req'[t].pc = "none" /\ req'[t].pair = 0
      /\ \A u \in Tabs \ {t} : req'[u] = req[u]
  BY DEF Receive, NoReq, SessionInv, SessionTypeOK
<1>4. PICK m \in Pairs :
          /\ \A u \in Tabs : tab'[u] = IF u = t THEN m ELSE tab[u]
          /\ \A u \in Tabs \ {t} : unsaved'[u] = unsaved[u]
          /\ req[t].pc = "answered" => m = req[t].got /\ m # 0 /\ Brought(t)' /\ unsaved'[t].since = req[t].sent
          /\ req[t].pc = "refused" => m \in {storage, tab[t], 0} /\ ~Brought(t)'
  <2>1. CASE req[t].pc = "answered"
    <3>1. Keeps(t, req[t].got) /\ req[t].got \in Pairs
      BY <1>1, <2>1 DEF Receive, Refresh, SessionInv, SessionTypeOK, Reqs
    <3>2. req[t].got # 0
      BY <1>1, <2>1, TabFields DEF Brings, Unknown
    <3> QED BY <2>1, <3>1, <3>2 DEF Keeps, Own, Brought, SessionInv, SessionTypeOK
  <2>2. CASE req[t].pc = "refused"
    <3>1. CASE Adopts(t, Adopted(t))
      <4>1. Adopted(t) \in {storage, tab[t]} /\ Adopted(t) \in Pairs
        BY DEF Adopted, SessionInv, SessionTypeOK
      <4> QED BY <1>1, <2>2, <3>1, <4>1 DEF Adopts, Kept, Brought, SessionInv, SessionTypeOK
    <3>2. CASE Keeps(t, 0)
      <4>1. 0 \in Pairs
        BY DEF Pairs, SessionInv, SessionTypeOK
      <4> QED BY <2>2, <3>2, <4>1 DEF Keeps, Brought, SessionInv, SessionTypeOK
    <3> QED BY <1>1, <2>2, <3>1, <3>2 DEF Receive, Refresh
  <2> QED BY <1>1, <2>1, <2>2
<1>5. \A u \in Tabs \ {t} : Brought(u)' <=> Brought(u)
  BY <1>4 DEF Brought
<1>6. ASSUME NEW k, Rotating(k) PROVE Rotating(k)'
  <2>1. PICK u \in Tabs :
            \/ /\ req[u].kind = "refresh" /\ req[u].pc \in {"rotated", "answered"}
               /\ req[u].pair = k /\ req[u].sent + Grace =< rows[k].grace
            \/ Brought(u) /\ unsaved[u].since + Grace =< rows[k].grace
    BY <1>6 DEF Rotating
  <2>2. CASE u = t
    <3>1. req[t].pc = "answered" /\ req[t].sent + Grace =< rows[k].grace
      BY <1>1, <2>1, <2>2
    <3> QED BY <1>2, <1>4, <3>1 DEF Rotating
  <2>3. CASE u # t
    <3>1. req'[u] = req[u] /\ unsaved'[u] = unsaved[u] /\ (Brought(u) => Brought(u)')
      BY <1>3, <1>4, <1>5, <2>3
    <3> QED BY <1>2, <2>1, <3>1 DEF Rotating
  <2> QED BY <2>2, <2>3
<1>7. ASSUME NEW k \in DOMAIN rows PROVE RowOfRotation(k)' /\ Followed(k)'
  BY <1>2, <1>6 DEF CalmInv, RowOfRotation, Followed, AccessExpires, RefreshExpires
<1>8. ASSUME NEW u \in Tabs PROVE InTime(u)'
  <2>1. CASE u = t
    BY <1>3, <2>1 DEF InTime
  <2>2. CASE u # t
    BY <1>2, <1>3, <2>2 DEF CalmInv, InTime, AccessExpires, RefreshExpires
  <2> QED BY <2>1, <2>2
<1>9. ASSUME NEW k, NEW others \in SUBSET Tabs, Unknown(k, others), k # m \/ t \notin others
      PROVE  Unknown(k, others)'
  <2>1. k # 0
    BY <1>9, TabFields DEF Unknown
  <2> QED BY <1>2, <1>3, <1>4, <1>9, <2>1 DEF Unknown
<1>10. ASSUME NEW u \in Tabs \ {t}, Brings(u), req[u].pc = "answered" PROVE req[u].got # m
  <2>1. /\ Unknown(req[u].got, Tabs) /\ req[u].got # 0
        /\ req[t].pc = "answered" => req[t].got # req[u].got
    BY <1>10, TabFields DEF Brings, Unknown
  <2> QED BY <1>1, <1>4, <2>1 DEF Unknown
<1>11. ASSUME NEW u \in Tabs \ {t}, Holds(u), Brought(u) PROVE tab[u] # m
  <2>1. Unknown(tab[u], Tabs \ {u}) /\ tab[u] # 0
    BY <1>11, TabFields DEF Holds, Unknown
  <2>2. req[t].pc = "answered" => req[t].got # tab[u]
    BY <1>1 DEF Brings, Unknown
  <2> QED BY <1>1, <1>4, <2>1, <2>2 DEF Unknown
<1>12. ASSUME NEW u \in Tabs PROVE Brings(u)'
  <2> SUFFICES ASSUME req'[u].pc = "answered" PROVE Brings(u)'
    BY DEF Brings
  <2>1. \A v \in Tabs : req'[v].pc = "answered" => v # t /\ req'[v] = req[v]
    BY <1>3
  <2>2. u # t /\ req'[u] = req[u] /\ Brings(u) /\ Unknown(req[u].got, Tabs)
    BY <2>1 DEF CalmInv, Brings
  <2>3. Unknown(req[u].got, Tabs)'
    BY <1>9, <1>10, <2>1, <2>2
  <2> QED BY <1>2, <2>1, <2>2, <2>3 DEF Brings
<1>13. ASSUME NEW u \in Tabs PROVE Holds(u)'
  <2> SUFFICES ASSUME Brought(u)' PROVE Holds(u)'
    BY DEF Holds
  <2>1. CASE u = t
    <3>1. req[t].pc = "answered" /\ m = req[t].got /\ tab'[t] = m /\ unsaved'[t].since = req[t].sent
      BY <1>1, <1>4, <2>1
    <3>2. Unknown(m, Tabs \ {t}) /\ issued[m] >= req[t].sent
      BY <1>1, <3>1 DEF Brings, Unknown
    <3>3. Unknown(m, Tabs \ {t})'
      BY <1>9, <3>2
    <3>4. req[t].sent =< now /\ now =< req[t].sent + Slow
      BY <1>1, <3>1 DEF InTime
    <3> QED BY <1>2, <1>3, <2>1, <3>1, <3>2, <3>3, <3>4 DEF Holds
  <2>2. CASE u # t
    <3>1. Brought(u) /\ Holds(u) /\ Unknown(tab[u], Tabs \ {u})
      BY <1>5, <2>2 DEF CalmInv, Holds
    <3>2. tab'[u] = tab[u] /\ unsaved'[u] = unsaved[u] /\ req'[u] = req[u]
      BY <1>3, <1>4, <2>2
    <3>3. Unknown(tab[u], Tabs \ {u})'
      BY <1>9, <1>11, <2>2, <3>1, <3>2
    <3> QED BY <1>2, <3>1, <3>2, <3>3 DEF Holds
  <2> QED BY <2>1, <2>2
<1> QED BY <1>2, <1>7, <1>8, <1>12, <1>13 DEF CalmInv

\* The pair that a tab writes is younger than all that were rotated, or there is nothing in
\* localStorage that it replaces.
LEMMA PersistCalm ==
    ASSUME SessionInv, CalmInv, NEW t \in Tabs, Persist(t), ~stale'
    PROVE  CalmInv'
<1>1. UNCHANGED <<now, issued, rows, tab, req, ended>> /\ storage' = tab[t] /\ ~Overwrites(t)
  BY DEF Persist, serverVars
<1>2. /\ \A u \in Tabs \ {t} : unsaved'[u] = unsaved[u]
      /\ ~Brought(t)'
  BY DEF Persist, Saved, Brought, SessionInv, SessionTypeOK
<1>3. \A u \in Tabs : \A i \in DOMAIN events'[u] :
          events'[u][i] = tab[t] \/ (i \in DOMAIN events[u] /\ events'[u][i] = events[u][i])
  <2> SUFFICES ASSUME NEW u \in Tabs, NEW i \in DOMAIN events'[u]
               PROVE  events'[u][i] = tab[t] \/ (i \in DOMAIN events[u] /\ events'[u][i] = events[u][i])
    OBVIOUS
  <2>1. events[u] \in Seq(Pairs) /\ tab[t] \in Pairs
    BY DEF SessionInv, SessionTypeOK
  <2>2. events' = events \/ events' = Told(t)
    BY DEF Persist
  <2>3. events'[u] = events[u] \/ events'[u] = Append(events[u], tab[t])
    BY <2>2 DEF Told
  <2> QED BY <2>1, <2>3
<1>4. \A u \in Tabs : (Brought(u)' <=> Brought(u) /\ u # t)
  BY <1>1, <1>2 DEF Brought
<1>5. ASSUME ~Brought(t), NEW k, Rotating(k) PROVE Rotating(k)'
  <2>1. PICK u \in Tabs :
            \/ /\ req[u].kind = "refresh" /\ req[u].pc \in {"rotated", "answered"}
               /\ req[u].pair = k /\ req[u].sent + Grace =< rows[k].grace
            \/ u # t /\ Brought(u) /\ unsaved[u].since + Grace =< rows[k].grace
    BY <1>5 DEF Rotating
  <2> QED BY <1>1, <1>2, <1>4, <2>1 DEF Rotating
<1>6. ASSUME NEW k \in DOMAIN rows PROVE Followed(k)'
  <2> SUFFICES ASSUME RefreshExpires(k) > now PROVE Followed(k)'
    BY <1>1 DEF Followed, RefreshExpires
  <2>1. k \in DOMAIN issued /\ issued[k] + AccessLife =< now /\ Followed(k) /\ issued[k] \in Nat
    BY TabFields DEF CalmInv, RowOfRotation, AccessExpires
  <2>2. CASE Brought(t)
    <3>1. /\ Unknown(tab[t], Tabs \ {t}) /\ issued[tab[t]] >= unsaved[t].since
          /\ now =< unsaved[t].since + Slow
      BY <2>2 DEF CalmInv, Holds
    <3>2. tab[t] # k /\ tab[t] # 0 /\ issued[tab[t]] \in Nat
      BY <3>1, TabFields DEF Unknown
    <3>3. issued[tab[t]] >= issued[k]
      <4>1. /\ unsaved[t].since \in Nat /\ now \in Nat /\ Slow \in Nat /\ AccessLife \in Nat
            /\ Slow < AccessLife
        BY TabFields
      <4> QED BY <2>1, <3>1, <3>2, <4>1
    <3> QED BY <1>1, <3>2, <3>3 DEF Followed
  <2>3. CASE ~Brought(t) /\ Rotating(k)
    BY <1>5, <2>3 DEF Followed
  <2>4. CASE ~Brought(t) /\ ~Rotating(k)
    <3>1. storage \notin {0, k} /\ issued[storage] >= issued[k]
      BY <2>1, <2>4 DEF Followed
    <3>2. RefreshExpires(storage) > now
      <4>1. issued[storage] \in Nat /\ now \in Nat /\ RefreshLife \in Nat
        BY <3>1, TabFields
      <4> QED BY <2>1, <3>1, <4>1 DEF RefreshExpires
    <3>3. storage = tab[t]
      BY <1>1, <2>4, <3>1, <3>2 DEF Overwrites
    <3> QED BY <1>1, <3>1, <3>3 DEF Followed
  <2> QED BY <2>2, <2>3, <2>4
<1>7. ASSUME NEW k \in DOMAIN rows PROVE RowOfRotation(k)'
  BY <1>1 DEF CalmInv, RowOfRotation, AccessExpires
<1>8. ASSUME NEW m, NEW others \in SUBSET Tabs, Unknown(m, others), m # tab[t]
      PROVE  Unknown(m, others)'
  BY <1>1, <1>3, <1>8 DEF Unknown
<1>9. ASSUME NEW u \in Tabs PROVE InTime(u)' /\ Brings(u)' /\ Holds(u)'
  <2>1. InTime(u) /\ Brings(u) /\ Holds(u)
    BY DEF CalmInv
  <2>2. InTime(u)'
    BY <1>1, <2>1 DEF InTime, AccessExpires, RefreshExpires
  <2>3. Brings(u)'
    <3> SUFFICES ASSUME req[u].pc = "answered" PROVE Brings(u)'
      BY <1>1 DEF Brings
    <3>1. Unknown(req[u].got, Tabs) /\ req[u].got # tab[t]
      BY <2>1 DEF Brings, Unknown
    <3>2. Unknown(req[u].got, Tabs)'
      BY <1>1, <1>8, <3>1
    <3> QED BY <1>1, <2>1, <3>2 DEF Brings
  <2>4. Holds(u)'
    <3> SUFFICES ASSUME Brought(u), u # t PROVE Holds(u)'
      BY <1>4 DEF Holds
    <3>1. Unknown(tab[u], Tabs \ {u}) /\ tab[u] # tab[t]
      BY <2>1 DEF Holds, Unknown
    <3>2. Unknown(tab[u], Tabs \ {u})'
      BY <1>1, <1>8, <3>1
    <3> QED BY <1>1, <1>2, <2>1, <3>2 DEF Holds
  <2> QED BY <2>2, <2>3, <2>4
<1> QED BY <1>1, <1>6, <1>7, <1>9 DEF CalmInv

\* A storage event brings nothing new.
LEMMA SyncCalm ==
    ASSUME SessionInv, CalmInv, NEW t \in Tabs, SyncTokens(t), ~stale'
    PROVE  CalmInv'
<1>1. PICK n : n = Head(events[t])
  OBVIOUS
<1>2. UNCHANGED <<now, issued, rows, storage, req, ended>>
  BY DEF SyncTokens, serverVars
<1>3. /\ \A u \in Tabs : \A i \in DOMAIN events'[u] : \E j \in DOMAIN events[u] : events'[u][i] = events[u][j]
      /\ \E j \in DOMAIN events[t] : n = events[t][j]
  <2>1. events[t] \in Seq(Pairs) /\ events[t] # <<>>
    BY DEF SyncTokens, SessionInv, SessionTypeOK
  <2>2. \A i \in DOMAIN Tail(events[t]) : i + 1 \in DOMAIN events[t] /\ Tail(events[t])[i] = events[t][i + 1]
    BY <2>1
  <2>3. 1 \in DOMAIN events[t] /\ n = events[t][1]
    BY <1>1, <2>1
  <2>4. /\ events'[t] = Tail(events[t])
        /\ \A u \in Tabs \ {t} : events'[u] = events[u]
    BY DEF SyncTokens, SessionInv, SessionTypeOK
  <2> QED BY <2>2, <2>3, <2>4
<1>4. ~Brought(t)
  <2> SUFFICES ASSUME Brought(t) PROVE FALSE
    OBVIOUS
  <2>1. Unknown(tab[t], Tabs \ {t})
    BY DEF CalmInv, Holds
  <2>2. n # tab[t]
    BY <1>3, <2>1 DEF Unknown
  <2> QED BY <1>1, <2>2 DEF SyncTokens
<1>5. /\ \A u \in Tabs : tab'[u] = IF u = t THEN n ELSE tab[u]
      /\ \A u \in Tabs \ {t} : unsaved'[u] = unsaved[u]
  BY <1>1 DEF SyncTokens, Adopts, SessionInv, SessionTypeOK
<1>6. ~Brought(t)'
  BY <1>1, <1>4 DEF SyncTokens, Adopts, Brought, Kept, SessionInv, SessionTypeOK
<1>7. \A u \in Tabs : (Brought(u) => Brought(u)' /\ u # t) /\ (Brought(u)' => Brought(u) /\ u # t)
  BY <1>4, <1>5, <1>6 DEF Brought
<1>8. \A k : Rotating(k) => Rotating(k)'
  BY <1>2, <1>5, <1>7 DEF Rotating
<1>9. \A k : (RowOfRotation(k) => RowOfRotation(k)') /\ (Followed(k) => Followed(k)')
  BY <1>2, <1>8 DEF RowOfRotation, Followed, AccessExpires, RefreshExpires
<1>10. ASSUME NEW m, NEW others \in SUBSET Tabs, Unknown(m, others) PROVE Unknown(m, others)'
  BY <1>2, <1>3, <1>5, <1>10 DEF Unknown
<1>11. ASSUME NEW u \in Tabs PROVE InTime(u)' /\ Brings(u)' /\ Holds(u)'
  <2>1. InTime(u) /\ Brings(u) /\ Holds(u)
    BY DEF CalmInv
  <2>2. InTime(u)'
    BY <1>2, <2>1 DEF InTime, AccessExpires, RefreshExpires
  <2>3. Brings(u)'
    BY <1>2, <1>10, <2>1 DEF Brings
  <2>4. Holds(u)'
    <3> SUFFICES ASSUME Brought(u), u # t PROVE Holds(u)'
      BY <1>7 DEF Holds
    <3>1. tab'[u] = tab[u] /\ unsaved'[u] = unsaved[u]
      BY <1>5
    <3>2. Unknown(tab[u], Tabs \ {u})'
      BY <1>10, <2>1, <3>1 DEF Holds
    <3> QED BY <1>2, <2>1, <3>1, <3>2 DEF Holds
  <2> QED BY <2>2, <2>3, <2>4
<1> QED BY <1>2, <1>9, <1>11 DEF CalmInv

\* A changed setting makes a tab write what it has.
LEMMA SettingsCalm ==
    ASSUME SessionInv, CalmInv, NEW t \in Tabs, ChangeSettings(t)
    PROVE  CalmInv'
<1>1. UNCHANGED <<now, issued, rows, storage, tab, events, req, ended>>
  BY DEF ChangeSettings, serverVars
<1>2. /\ \A u \in Tabs \ {t} : unsaved'[u] = unsaved[u]
      /\ ~Brought(t) /\ ~Brought(t)'
  BY DEF ChangeSettings, Touched, Brought, Saved, Kept, SessionInv, SessionTypeOK
<1>3. \A u \in Tabs : (Brought(u) => Brought(u)' /\ u # t) /\ (Brought(u)' => Brought(u) /\ u # t)
  BY <1>1, <1>2 DEF Brought
<1>4. \A k : Rotating(k) => Rotating(k)'
  BY <1>1, <1>2, <1>3 DEF Rotating
<1>5. \A k : (RowOfRotation(k) => RowOfRotation(k)') /\ (Followed(k) => Followed(k)')
  BY <1>1, <1>4 DEF RowOfRotation, Followed, AccessExpires, RefreshExpires
<1>6. ASSUME NEW m, NEW others, Unknown(m, others) PROVE Unknown(m, others)'
  BY <1>1, <1>6 DEF Unknown
<1>7. ASSUME NEW u \in Tabs PROVE InTime(u)' /\ Brings(u)' /\ Holds(u)'
  <2>1. InTime(u) /\ Brings(u) /\ Holds(u)
    BY DEF CalmInv
  <2>2. InTime(u)'
    BY <1>1, <2>1 DEF InTime, AccessExpires, RefreshExpires
  <2>3. Brings(u)'
    BY <1>1, <1>6, <2>1 DEF Brings
  <2>4. Holds(u)'
    BY <1>1, <1>2, <1>3, <1>6, <2>1 DEF Holds
  <2> QED BY <2>2, <2>3, <2>4
<1> QED BY <1>1, <1>5, <1>7 DEF CalmInv

\* Cleaning drops rows and nothing else.
LEMMA CleanCalm ==
    ASSUME SessionInv, CalmInv, CleanElsewhere
    PROVE  CalmInv'
<1>1. UNCHANGED <<now, issued, storage, tab, unsaved, events, req, ended>>
  BY DEF CleanElsewhere, storeVars
<1>2. DOMAIN rows' \subseteq DOMAIN rows /\ \A k \in DOMAIN rows' : rows'[k] = rows[k]
  BY DEF CleanElsewhere, Cleaned
<1>3. ASSUME NEW k \in DOMAIN rows' PROVE RowOfRotation(k)' /\ Followed(k)'
  <2>1. RowOfRotation(k) /\ Followed(k) /\ rows'[k] = rows[k]
    BY <1>2 DEF CalmInv
  <2>2. Rotating(k) => Rotating(k)'
    BY <1>1, <2>1 DEF Rotating, Brought
  <2> QED BY <1>1, <2>1, <2>2 DEF RowOfRotation, Followed, AccessExpires, RefreshExpires
<1>4. ASSUME NEW m, NEW others, Unknown(m, others) PROVE Unknown(m, others)'
  BY <1>1, <1>2, <1>4 DEF Unknown
<1>5. ASSUME NEW u \in Tabs PROVE InTime(u)' /\ Brings(u)' /\ Holds(u)'
  <2>1. InTime(u) /\ Brings(u) /\ Holds(u)
    BY DEF CalmInv
  <2>2. InTime(u)'
    BY <1>1, <1>2, <2>1 DEF InTime, AccessExpires, RefreshExpires
  <2> QED BY <1>1, <1>4, <2>1, <2>2 DEF Brings, Holds, Brought
<1> QED BY <1>1, <1>3, <1>5 DEF CalmInv

\* Time passes, and no request gets late and no pair waits too long to be written.
LEMMA TickCalm ==
    ASSUME SessionInv, CalmInv, SessionTick, ~late'
    PROVE  CalmInv'
<1>1. now \in Nat /\ now' = now + 1 /\ UNCHANGED <<issued, rows, storage, tab, unsaved, events, req, ended>>
  BY TabFields DEF SessionTick, storeVars
<1>2. ASSUME NEW k \in DOMAIN rows PROVE RowOfRotation(k)' /\ Followed(k)'
  <2>1. k \in DOMAIN issued /\ RowOfRotation(k) /\ Followed(k)
    BY DEF CalmInv, RowOfRotation
  <2>2. issued[k] \in Nat /\ AccessLife \in Nat /\ RefreshLife \in Nat
    BY <2>1, TabFields
  <2>3. Rotating(k) => Rotating(k)'
    BY <1>1 DEF Rotating, Brought
  <2>4. Followed(k)'
    BY <1>1, <2>1, <2>2, <2>3 DEF Followed, RefreshExpires
  <2>5. RowOfRotation(k)'
    BY <1>1, <2>1, <2>2 DEF RowOfRotation, AccessExpires
  <2> QED BY <2>4, <2>5
<1>3. ASSUME NEW u \in Tabs PROVE InTime(u)'
  <2> SUFFICES ASSUME req[u].pc # "none" PROVE InTime(u)'
    BY <1>1 DEF InTime
  <2>1. req[u] # NoReq
    BY DEF NoReq
  <2>2. ~(now' - req[u].sent > Slow)
    BY <1>1, <2>1 DEF SessionTick
  <2>3. req[u].sent \in Nat /\ Slow \in Nat /\ req[u].sent =< now /\ req[u].pair \in DOMAIN issued
    BY TabFields DEF CalmInv, InTime
  <2>4. now' =< req[u].sent + Slow /\ req[u].sent =< now'
    BY <1>1, <2>2, <2>3
  <2>5. issued[req[u].pair] \in Nat /\ RefreshLife \in Nat
    BY <2>3, TabFields
  <2>6. RefreshExpires(req[u].pair) < now => RefreshExpires(req[u].pair)' < now'
    BY <1>1, <2>5 DEF RefreshExpires
  <2> QED BY <1>1, <2>4, <2>6 DEF CalmInv, InTime, AccessExpires
<1>4. ASSUME NEW u \in Tabs PROVE Brings(u)'
  BY <1>1 DEF CalmInv, Brings, Unknown
<1>5. ASSUME NEW u \in Tabs PROVE Holds(u)'
  <2> SUFFICES ASSUME Brought(u) PROVE Holds(u)'
    BY <1>1 DEF Holds, Brought
  <2>1. Holds(u) /\ ~(now' - unsaved[u].since > Slow)
    BY DEF CalmInv, SessionTick
  <2>2. unsaved[u].since \in Nat /\ Slow \in Nat
    BY TabFields
  <2>3. Unknown(tab[u], Tabs \ {u})'
    BY <1>1, <2>1 DEF Holds, Unknown
  <2>4. unsaved[u].since =< now' /\ now' =< unsaved[u].since + Slow
    BY <1>1, <2>1, <2>2 DEF Holds
  <2> QED BY <1>1, <2>1, <2>3, <2>4 DEF Holds
<1> QED BY <1>1, <1>2, <1>3, <1>4, <1>5 DEF CalmInv

\* Every step keeps it, and no step revokes the session.
LEMMA TabsStep ==
    ASSUME SessionInv, TabsInv, [SessionNext]_sessionVars
    PROVE  TabsInv'
<1> SUFFICES ASSUME ~late', ~left', ~stale' PROVE ~reused' /\ CalmInv'
  BY DEF TabsInv, Calm
<1>1. ~late /\ ~left /\ ~stale
  <2>1. ASSUME NEW t \in Tabs, Verify(t) \/ Rotate(t) \/ Issue(t) PROVE UNCHANGED <<late, left, stale>>
    BY <2>1 DEF Verify, Rotate, Issue, storeVars
  <2>2. ASSUME NEW t \in Tabs, RevokeToken(t) \/ RevokeSession(t) \/ CleanTokens(t)
        PROVE  UNCHANGED <<late, left, stale>>
    BY <2>2 DEF RevokeToken, RevokeSession, CleanTokens, storeVars
  <2>3. ASSUME NEW t \in Tabs, CallAPI(t) \/ Receive(t) \/ ChangeSettings(t)
        PROVE  UNCHANGED <<late, left, stale>>
    BY <2>3 DEF CallAPI, Receive, ChangeSettings
  <2>4. ASSUME NEW t \in Tabs, LogOut(t) \/ Lose(t) PROVE FALSE
    BY <2>4 DEF LogOut, Lose
  <2>5. ASSUME NEW t \in Tabs, Persist(t) \/ SyncTokens(t) PROVE UNCHANGED <<late, left>> /\ ~stale
    BY <2>5 DEF Persist, SyncTokens
  <2>6. CASE CleanElsewhere \/ UNCHANGED sessionVars
    BY <2>6 DEF CleanElsewhere, sessionVars, storeVars
  <2>7. CASE SessionTick
    BY <2>7 DEF SessionTick, storeVars
  <2> QED BY <2>1, <2>2, <2>3, <2>4, <2>5, <2>6, <2>7 DEF SessionNext
<1>2. ~late /\ ~left /\ ~stale /\ ~reused /\ CalmInv
  BY <1>1 DEF TabsInv, Calm
<1>3. ASSUME NEW t \in Tabs, Verify(t) PROVE ~reused' /\ CalmInv'
  BY <1>2, <1>3, VerifyCalm
<1>4. ASSUME NEW t \in Tabs, Rotate(t) PROVE ~reused' /\ CalmInv'
  BY <1>2, <1>4, RotateCalm DEF Rotate
<1>5. ASSUME NEW t \in Tabs, Issue(t) PROVE ~reused' /\ CalmInv'
  BY <1>2, <1>5, IssueCalm DEF Issue
<1>6. ASSUME NEW t \in Tabs, RevokeToken(t) \/ RevokeSession(t) \/ CleanTokens(t) PROVE FALSE
  <2>1. req[t].kind = "logout" /\ req[t].pc # "none"
    BY <1>6 DEF RevokeToken, RevokeSession, CleanTokens, Logout
  <2> QED BY <1>2, <2>1 DEF CalmInv, InTime
<1>7. ASSUME NEW t \in Tabs, CallAPI(t) PROVE ~reused' /\ CalmInv'
  BY <1>2, <1>7, CallCalm DEF CallAPI, serverVars
<1>8. ASSUME NEW t \in Tabs, Receive(t) PROVE ~reused' /\ CalmInv'
  BY <1>2, <1>8, ReceiveCalm DEF Receive, serverVars
<1>9. ASSUME NEW t \in Tabs, Persist(t) PROVE ~reused' /\ CalmInv'
  BY <1>2, <1>9, PersistCalm DEF Persist, serverVars
<1>10. ASSUME NEW t \in Tabs, SyncTokens(t) PROVE ~reused' /\ CalmInv'
  BY <1>2, <1>10, SyncCalm DEF SyncTokens, serverVars
<1>11. ASSUME NEW t \in Tabs, ChangeSettings(t) PROVE ~reused' /\ CalmInv'
  BY <1>2, <1>11, SettingsCalm DEF ChangeSettings, serverVars
<1>12. CASE CleanElsewhere
  BY <1>2, <1>12, CleanCalm DEF CleanElsewhere
<1>13. CASE SessionTick
  BY <1>2, <1>13, TickCalm DEF SessionTick
<1>14. CASE \E t \in Tabs : LogOut(t) \/ Lose(t)
  BY <1>14 DEF LogOut, Lose
<1>15. CASE UNCHANGED sessionVars
  <2>1. UNCHANGED <<now, issued, rows, storage, tab, unsaved, events, req, ended, reused>>
    BY <1>15 DEF sessionVars, serverVars, storeVars
  <2> QED BY <1>2, <2>1 DEF CalmInv, RowOfRotation, Followed, Rotating, InTime, Brings, Holds, Brought, Unknown,
          AccessExpires, RefreshExpires
<1> QED
  BY <1>3, <1>4, <1>5, <1>6, <1>7, <1>8, <1>9, <1>10, <1>11, <1>12, <1>13, <1>14, <1>15 DEF SessionNext

\* For any number of tabs: as long as no request or answer is lost or late, nobody logs out and
\* no tab puts an older pair in the place of a newer one, in localStorage or in its store, the
\* server never takes a refresh for the reuse of a rotated token (token_is_revoked,
\* authMiddleware.jsx, store.jsx).
THEOREM TabsAreNotLoggedOut == SessionSpec => []TabsStayLoggedIn
<1>1. SessionInit => TabsInv
  <2> SUFFICES ASSUME SessionInit PROVE ~reused /\ CalmInv
    BY DEF TabsInv
  <2>1. /\ DOMAIN rows = {} /\ ended = 0 /\ ~reused
        /\ \A t \in Tabs : req[t].pc = "none" /\ unsaved[t].how = "no"
    BY DEF SessionInit, NoReq, Saved
  <2> QED BY <2>1 DEF CalmInv, InTime, Brings, Holds, Brought
<1>2. SessionInv /\ TabsInv /\ [SessionNext]_sessionVars => TabsInv'
  BY TabsStep
<1>3. TabsInv => TabsStayLoggedIn
  BY DEF TabsInv, Calm, TabsStayLoggedIn
<1> QED BY <1>1, <1>2, <1>3, SessionInvariant, PTL DEF SessionSpec

-----------------------------------------------------------------------------
(* The token broker: the inductive invariant.                               *)

Apps    == OwnApps \cup {RcloneApp}
Clients == Apps \cup {NoApp}
Grants  == [app : Apps, gen : Nat, made : Nat]
Tokens  == [grant : Nat, gen : Nat, fresh : BOOLEAN]
Flows   == [pc : {"none", "pending", "complete"}, client : Clients, token : Tokens]
ConnRows == [exists : BOOLEAN, client : Clients, token : Tokens, handle : BOOLEAN]
Requests == [pc : {"idle", "running", "asking", "upstream", "replied"}, conn : Conns \cup {0},
             client : Clients, got : Tokens]

BrokerTypeOK ==
    /\ app \in OwnApps \cup {NoApp}
    /\ grants \in Seq(Grants)
    /\ flow \in Flows
    /\ conn \in [Conns -> ConnRows]
    /\ conns \in [Conns -> Flows]
    /\ asks \in [Runs -> Requests] /\ \A r \in Runs : asks[r].pc # "idle" => asks[r].conn \in Conns
    /\ holder \in [Conns -> Runs \cup {NoRun}]

\* The app a refresh of a token with this client has to name.
AppOf(client) == IF client \in {NoApp, RcloneApp} THEN RcloneApp ELSE client
IssuedTo(token, client) ==
    token.grant \in DOMAIN grants /\ grants[token.grant].app = AppOf(client)
Made(token) == grants[token.grant].made
Current(token) ==
    token.grant \notin broken /\ Made(token) < 2 => token.gen = grants[token.grant].gen

\* A sign-in that is complete: as long as no connection was made of it, nobody has refreshed it.
Complete(f) == f.pc = "complete"
FlowTrue(f) ==
    Complete(f) => /\ f.client \in Apps
                   /\ IssuedTo(f.token, f.client)
                   /\ Made(f.token) = 0 => f.token.gen = grants[f.token.grant].gen
SignIns == /\ flow.pc = "pending" => flow.client \in Apps
           /\ FlowTrue(flow)
           /\ \A c \in Conns : FlowTrue(conns[c])
           /\ \A c \in Conns : conns[c] # NoFlow => Complete(conns[c]) /\ ~conn[c].exists

\* A connection knows who issued its token, and has the current one unless a run refreshes it.
ConnTrue(c) ==
    conn[c].exists => /\ IssuedTo(conn[c].token, conn[c].client)
                      /\ holder[c] = NoRun => Current(conn[c].token)

\* Connections with the same token are counted, those that are still to be made included.
Shared(c, d) ==
    c # d /\ conn[c].exists /\ conn[d].exists /\ conn[c].token.grant = conn[d].token.grant
        => Made(conn[c].token) >= 2
Announced(c, f) ==
    conn[c].exists /\ Complete(f) /\ conn[c].token.grant = f.token.grant => Made(f.token) >= 1
Counted == /\ \A c, d \in Conns : Shared(c, d)
           /\ \A c \in Conns : Announced(c, flow)
           /\ \A c, d \in Conns : Announced(c, conns[d])

\* A run that refreshes has the lock of its connection, the token of it, and the app to name.
Refreshing(r) == asks[r].pc \in {"upstream", "replied"}
AskTrue(r) ==
    Refreshing(r) =>
        LET c == asks[r].conn IN
        /\ c \in Conns /\ conn[c].exists /\ holder[c] = r
        /\ asks[r].client = AppOf(conn[c].client)
        /\ asks[r].got.grant = conn[c].token.grant
        /\ asks[r].pc = "upstream" => asks[r].got = conn[c].token
        /\ Current(asks[r].got)
HolderTrue(c) == holder[c] # NoRun => Refreshing(holder[c]) /\ asks[holder[c]].conn = c

BrokerInv ==
    /\ BrokerTypeOK
    /\ SignIns
    /\ \A c \in Conns : ConnTrue(c) /\ HolderTrue(c)
    /\ Counted
    /\ \A r \in Runs : AskTrue(r)
    /\ RefreshedByItsApp

-----------------------------------------------------------------------------
(* Frames: what a step that changes little leaves true.                     *)

\* rclone's own app, those of a deployment and no app are told apart.
LEMMA AppsDiffer == NoApp \notin Apps /\ RcloneApp # NoApp /\ RcloneApp \notin OwnApps
BY BrokerAssumption DEF Apps

\* What a row, a flow or a request is before anything happens has its type.
LEMMA Constants == /\ NoToken \in Tokens /\ NoConn \in ConnRows /\ NoFlow \in Flows
                   /\ Idle \in Requests /\ Idle.pc = "idle"
                   /\ ~Complete(NoFlow) /\ ~NoConn.exists
BY DEF NoToken, NoConn, NoFlow, Idle, Tokens, ConnRows, Flows, Requests, Clients, Complete

\* The invariant holds before the first sign-in.
LEMMA BrokerInitInv == BrokerInit => BrokerInv
<1> SUFFICES ASSUME BrokerInit PROVE BrokerInv
  OBVIOUS
<1>1. BrokerTypeOK
  BY Constants DEF BrokerInit, BrokerTypeOK
<1>2. SignIns
  BY Constants DEF BrokerInit, SignIns, FlowTrue, NoFlow
<1>3. \A c \in Conns : ConnTrue(c) /\ HolderTrue(c)
  BY Constants DEF BrokerInit, ConnTrue, HolderTrue
<1>4. Counted
  BY Constants DEF BrokerInit, Counted, Shared, Announced
<1>5. \A r \in Runs : AskTrue(r)
  BY DEF BrokerInit, AskTrue, Refreshing, Idle
<1> QED BY <1>1, <1>2, <1>3, <1>4, <1>5 DEF BrokerInv, BrokerInit, RefreshedByItsApp

\* The flow is started or purged, or the app is another one.
LEMMA FlowMoves ==
    ASSUME BrokerInv, UNCHANGED <<grants, conn, conns, asks, holder, foreign, broken>>,
           app' \in OwnApps \cup {NoApp}, flow' \in Flows,
           flow' = flow \/ ~Complete(flow'), flow'.pc = "pending" => flow'.client \in Apps
    PROVE  BrokerInv'
<1> USE DEF BrokerInv
<1>1. BrokerTypeOK'
  BY DEF BrokerTypeOK
<1>2. SignIns'
  BY DEF SignIns, FlowTrue, Complete, IssuedTo, Made
<1>3. \A c \in Conns : ConnTrue(c)' /\ HolderTrue(c)'
  BY DEF ConnTrue, HolderTrue, IssuedTo, Current, Made, Refreshing
<1>4. Counted'
  BY DEF Counted, Shared, Announced, Made, Complete
<1>5. \A r \in Runs : AskTrue(r)'
  BY DEF AskTrue, Refreshing, Current, Made
<1> QED BY <1>1, <1>2, <1>3, <1>4, <1>5 DEF RefreshedByItsApp

\* A run moves that refreshes neither before nor after; its connection may get a handle.
LEMMA RunMoves ==
    ASSUME BrokerInv, NEW r \in Runs, NEW q \in Requests, asks' = [asks EXCEPT ![r] = q],
           ~Refreshing(r), q.pc \notin {"upstream", "replied"}, q.pc # "idle" => q.conn \in Conns,
           UNCHANGED <<app, grants, flow, conns, holder, foreign, broken>>,
           conn' \in [Conns -> ConnRows],
           \A c \in Conns : /\ conn'[c].exists = conn[c].exists
                            /\ conn'[c].client = conn[c].client
                            /\ conn'[c].token = conn[c].token
    PROVE  BrokerInv'
<1> USE DEF BrokerInv
<1>1. BrokerTypeOK'
  BY DEF BrokerTypeOK
<1>2. SignIns'
  BY DEF SignIns, FlowTrue, Complete, IssuedTo, Made
<1>3. \A u \in Runs : /\ Refreshing(u)' <=> Refreshing(u)
                      /\ Refreshing(u) => asks'[u] = asks[u]
  BY DEF BrokerTypeOK, Refreshing
<1>4. \A c \in Conns : ConnTrue(c)'
  BY DEF ConnTrue, IssuedTo, Current, Made
<1>5. \A c \in Conns : HolderTrue(c)'
  BY <1>3 DEF HolderTrue, BrokerTypeOK
<1>6. Counted'
  BY DEF Counted, Shared, Announced, Made, Complete
<1>7. \A u \in Runs : AskTrue(u)'
  BY <1>3 DEF AskTrue, Current, Made
<1> QED BY <1>1, <1>2, <1>4, <1>5, <1>6, <1>7 DEF RefreshedByItsApp

-----------------------------------------------------------------------------
(* The steps of sign-ins and connections.                                   *)

\* The provider gives a grant of its own.
LEMMA GrantGiven ==
    ASSUME BrokerTypeOK, NEW client \in Apps, Granted(client)
    PROVE  /\ grants' \in Seq(Grants)
           /\ NewToken \in Tokens
           /\ NewToken.grant \notin DOMAIN grants /\ NewToken.grant \in DOMAIN grants'
           /\ grants'[NewToken.grant] = [app |-> client, gen |-> NewToken.gen, made |-> 0]
           /\ \A g \in DOMAIN grants : g \in DOMAIN grants' /\ grants'[g] = grants[g]
BY DEF BrokerTypeOK, Granted, NewToken, Tokens, Grants

\* The sign-in, whose app signs in.
LEMMA SignInAppIsOne ==
    ASSUME BrokerTypeOK PROVE SignInApp \in Apps
BY DEF BrokerTypeOK, SignInApp, Apps

\* start: the flow is of the app that new sign-ins use.
LEMMA StartFlowInv == BrokerInv /\ StartFlow => BrokerInv'
<1> SUFFICES ASSUME BrokerInv, StartFlow PROVE BrokerInv'
  OBVIOUS
<1>1. SignInApp \in Apps
  BY SignInAppIsOne DEF BrokerInv
<1>2. flow'.pc = "pending" /\ flow'.client = SignInApp /\ flow' \in Flows
  BY <1>1, Constants DEF StartFlow, Flows, Clients
<1> QED BY <1>1, <1>2, FlowMoves DEF StartFlow, Complete, BrokerInv, BrokerTypeOK

\* A flow expires, or is deleted.
LEMMA PurgeFlowInv == BrokerInv /\ PurgeFlow => BrokerInv'
BY Constants, FlowMoves DEF PurgeFlow, NoFlow, BrokerInv, BrokerTypeOK

\* Another app is deployed: who issued a token is not asked of the environment.
LEMMA RedeployInv == BrokerInv /\ Redeploy => BrokerInv'
BY FlowMoves DEF Redeploy, BrokerInv, BrokerTypeOK, SignIns

\* A sign-in completes with a grant that no connection was made of.
LEMMA CompleteFlowInv == BrokerInv /\ CompleteFlow => BrokerInv'
<1> SUFFICES ASSUME BrokerInv, CompleteFlow PROVE BrokerInv'
  OBVIOUS
<1> USE DEF BrokerInv
<1>1. flow.client \in Apps /\ flow.pc = "pending"
  BY DEF CompleteFlow, SignIns
<1>2. /\ grants' \in Seq(Grants)
      /\ NewToken \in Tokens
      /\ NewToken.grant \notin DOMAIN grants /\ NewToken.grant \in DOMAIN grants'
      /\ grants'[NewToken.grant] = [app |-> flow.client, gen |-> NewToken.gen, made |-> 0]
      /\ \A g \in DOMAIN grants : g \in DOMAIN grants' /\ grants'[g] = grants[g]
  BY <1>1, GrantGiven DEF CompleteFlow
<1>3. flow' = flow \/ (/\ flow' \in Flows /\ Complete(flow')
                       /\ flow'.client = flow.client /\ flow'.token = NewToken)
  BY <1>2 DEF CompleteFlow, BrokerTypeOK, Flows, Complete
<1>4. BrokerTypeOK'
  BY <1>2, <1>3 DEF CompleteFlow, BrokerTypeOK
<1>5. SignIns'
  <2>1. FlowTrue(flow)'
    BY <1>1, <1>2, <1>3, AppsDiffer DEF FlowTrue, Complete, IssuedTo, Made, AppOf, Apps
  <2>2. \A c \in Conns : FlowTrue(conns[c])'
    BY <1>2 DEF CompleteFlow, SignIns, FlowTrue, Complete, IssuedTo, Made
  <2> QED BY <1>1, <1>3, <2>1, <2>2 DEF CompleteFlow, SignIns, Complete
<1>6. \A c \in Conns : ConnTrue(c)' /\ HolderTrue(c)'
  BY <1>2 DEF CompleteFlow, ConnTrue, HolderTrue, Refreshing, IssuedTo, Current, Made
<1>7. Counted'
  <2>1. \A c \in Conns : conn[c].exists => conn[c].token.grant \in DOMAIN grants
    BY DEF ConnTrue, IssuedTo
  <2>2. \A c, d \in Conns : Shared(c, d)'
    BY <1>2, <2>1 DEF CompleteFlow, Counted, Shared, Made
  <2>3. \A c \in Conns : Announced(c, flow)'
    BY <1>1, <1>2, <1>3, <2>1 DEF CompleteFlow, Announced, Complete
  <2>4. \A c, d \in Conns : Announced(c, conns[d])'
    BY <1>2, <2>1 DEF CompleteFlow, Counted, Announced, Complete, Made
  <2> QED BY <2>2, <2>3, <2>4 DEF Counted
<1>8. \A r \in Runs : AskTrue(r)'
  <2> SUFFICES ASSUME NEW r \in Runs, Refreshing(r) PROVE AskTrue(r)'
    BY DEF CompleteFlow, AskTrue, Refreshing
  <2>1. asks[r].got.grant \in DOMAIN grants
    BY DEF AskTrue, ConnTrue, IssuedTo
  <2>2. Current(asks[r].got)'
    BY <1>2, <2>1 DEF CompleteFlow, AskTrue, Current, Made
  <2> QED BY <2>2 DEF CompleteFlow, AskTrue, Refreshing
<1> QED BY <1>4, <1>5, <1>6, <1>7, <1>8 DEF RefreshedByItsApp, CompleteFlow

\* connect reads the flow: what it knows is what the flow says.
LEMMA ConnectReadInv == ASSUME NEW c \in Conns PROVE BrokerInv /\ ConnectRead(c) => BrokerInv'
<1> SUFFICES ASSUME BrokerInv, ConnectRead(c) PROVE BrokerInv'
  OBVIOUS
<1> USE DEF BrokerInv
<1>1. /\ \A d \in Conns : conns'[d] = IF d = c THEN flow ELSE conns[d]
      /\ Complete(flow) /\ ~conn[c].exists
  BY Constants DEF ConnectRead, BrokerTypeOK, Complete
<1>2. BrokerTypeOK'
  BY DEF ConnectRead, BrokerTypeOK
<1>3. SignIns'
  <2>1. FlowTrue(flow)' /\ \A d \in Conns : FlowTrue(conns[d])'
    BY <1>1 DEF ConnectRead, SignIns, FlowTrue, Complete, IssuedTo, Made
  <2>2. \A d \in Conns : conns'[d] # NoFlow => Complete(conns'[d]) /\ ~conn'[d].exists
    BY <1>1 DEF ConnectRead, SignIns
  <2> QED BY <2>1, <2>2 DEF ConnectRead, SignIns, Complete
<1>4. \A d \in Conns : ConnTrue(d)' /\ HolderTrue(d)'
  BY DEF ConnectRead, ConnTrue, HolderTrue, Refreshing, IssuedTo, Current, Made
<1>5. Counted'
  BY <1>1 DEF ConnectRead, Counted, Shared, Announced, Made, Complete
<1>6. \A r \in Runs : AskTrue(r)'
  BY DEF ConnectRead, AskTrue, Refreshing, Current, Made
<1> QED BY <1>2, <1>3, <1>4, <1>5, <1>6 DEF RefreshedByItsApp, ConnectRead

\* A run that refreshes keeps others off its connection.
LEMMA FreeRow ==
    ASSUME BrokerInv, NEW c \in Conns, holder[c] = NoRun, NEW r \in Runs, Refreshing(r)
    PROVE  asks[r].conn # c
BY RunAssumption DEF BrokerInv, AskTrue

\* A pasted token is one of rclone's app, and the connection forgets the other client.
LEMMA PasteTokenInv == ASSUME NEW c \in Conns PROVE BrokerInv /\ PasteToken(c) => BrokerInv'
<1> SUFFICES ASSUME BrokerInv, PasteToken(c) PROVE BrokerInv'
  OBVIOUS
<1> USE DEF BrokerInv
<1>1. /\ grants' \in Seq(Grants)
      /\ NewToken \in Tokens
      /\ NewToken.grant \notin DOMAIN grants /\ NewToken.grant \in DOMAIN grants'
      /\ grants'[NewToken.grant] = [app |-> RcloneApp, gen |-> NewToken.gen, made |-> 0]
      /\ \A g \in DOMAIN grants : g \in DOMAIN grants' /\ grants'[g] = grants[g]
  BY GrantGiven DEF PasteToken, Apps
<1>2. /\ conn' \in [Conns -> ConnRows]
      /\ conn'[c].exists /\ conn'[c].client = NoApp /\ conn'[c].token = NewToken
      /\ \A d \in Conns : d # c => conn'[d] = conn[d]
  BY <1>1 DEF PasteToken, PastedClient, BrokerTypeOK, ConnRows, Clients
<1>3. BrokerTypeOK'
  BY <1>1, <1>2 DEF PasteToken, BrokerTypeOK
<1>4. SignIns'
  <2>1. FlowTrue(flow)' /\ \A d \in Conns : FlowTrue(conns[d])'
    BY <1>1 DEF PasteToken, SignIns, FlowTrue, Complete, IssuedTo, Made
  <2>2. \A d \in Conns : conns'[d] # NoFlow => Complete(conns'[d]) /\ ~conn'[d].exists
    BY <1>2 DEF PasteToken, SignIns
  <2> QED BY <2>1, <2>2 DEF PasteToken, SignIns, Complete
<1>5. \A d \in Conns : ConnTrue(d)'
  BY <1>1, <1>2 DEF PasteToken, ConnTrue, IssuedTo, Current, Made, AppOf
<1>6. \A d \in Conns : HolderTrue(d)'
  BY DEF PasteToken, HolderTrue, Refreshing
<1>7. Counted'
  <2>1. /\ \A d \in Conns : conn[d].exists => conn[d].token.grant \in DOMAIN grants
        /\ \A d \in Conns : Complete(conns[d]) => conns[d].token.grant \in DOMAIN grants
        /\ Complete(flow) => flow.token.grant \in DOMAIN grants
    BY DEF ConnTrue, SignIns, FlowTrue, IssuedTo
  <2>2. \A d, e \in Conns : Shared(d, e)'
    BY <1>1, <1>2, <2>1 DEF Counted, Shared, Made
  <2>3. \A d \in Conns : Announced(d, flow)'
    BY <1>1, <1>2, <2>1 DEF PasteToken, Counted, Announced, Complete, Made
  <2>4. \A d, e \in Conns : Announced(d, conns[e])'
    BY <1>1, <1>2, <2>1 DEF PasteToken, Counted, Announced, Complete, Made
  <2> QED BY <2>2, <2>3, <2>4 DEF Counted
<1>8. \A r \in Runs : AskTrue(r)'
  <2>1. SUFFICES ASSUME NEW r \in Runs, Refreshing(r) PROVE AskTrue(r)'
    BY DEF PasteToken, AskTrue, Refreshing
  <2>2. asks[r].conn # c
    BY <2>1, FreeRow DEF PasteToken
  <2>3. PICK d \in Conns : d = asks[r].conn /\ conn[d].exists /\ conn'[d] = conn[d]
    BY <1>2, <2>1, <2>2 DEF AskTrue
  <2>4. /\ asks[r].got.grant = conn[d].token.grant /\ Current(asks[r].got)
        /\ asks[r].got.grant \in DOMAIN grants
    BY <2>1, <2>3 DEF AskTrue, ConnTrue, IssuedTo
  <2>5. grants'[asks[r].got.grant] = grants[asks[r].got.grant] /\ broken' = broken /\ asks' = asks /\ holder' = holder
    BY <1>1, <2>4 DEF PasteToken
  <2>6. Current(asks[r].got)'
    BY <2>4, <2>5 DEF Current, Made
  <2> QED BY <2>1, <2>3, <2>5, <2>6 DEF AskTrue, Refreshing
<1> QED BY <1>3, <1>4, <1>5, <1>6, <1>7, <1>8 DEF RefreshedByItsApp, PasteToken

\* A connection is deleted while no run refreshes it.
LEMMA DeleteConnInv == ASSUME NEW c \in Conns PROVE BrokerInv /\ DeleteConn(c) => BrokerInv'
<1> SUFFICES ASSUME BrokerInv, DeleteConn(c) PROVE BrokerInv'
  OBVIOUS
<1> USE DEF BrokerInv
<1>1. /\ conn' \in [Conns -> ConnRows]
      /\ ~conn'[c].exists
      /\ \A d \in Conns : d # c => conn'[d] = conn[d]
  BY Constants DEF DeleteConn, BrokerTypeOK
<1>2. BrokerTypeOK'
  BY <1>1 DEF DeleteConn, BrokerTypeOK
<1>3. SignIns'
  BY <1>1 DEF DeleteConn, SignIns, FlowTrue, Complete, IssuedTo, Made
<1>4. \A d \in Conns : ConnTrue(d)' /\ HolderTrue(d)'
  BY <1>1 DEF DeleteConn, ConnTrue, HolderTrue, Refreshing, IssuedTo, Current, Made
<1>5. Counted'
  BY <1>1 DEF DeleteConn, Counted, Shared, Announced, Made, Complete
<1>6. \A r \in Runs : AskTrue(r)'
  <2> SUFFICES ASSUME NEW r \in Runs, Refreshing(r) PROVE AskTrue(r)'
    BY DEF DeleteConn, AskTrue, Refreshing
  <2>1. asks[r].conn # c
    BY FreeRow DEF DeleteConn
  <2> QED BY <1>1, <2>1 DEF DeleteConn, AskTrue, Refreshing, Current, Made
<1> QED BY <1>2, <1>3, <1>4, <1>5, <1>6 DEF RefreshedByItsApp, DeleteConn

\* Aging changes no refresh token.
LEMMA AgesInv == ASSUME NEW c \in Conns PROVE BrokerInv /\ Ages(c) => BrokerInv'
<1> SUFFICES ASSUME BrokerInv, Ages(c) PROVE BrokerInv'
  OBVIOUS
<1> USE DEF BrokerInv
<1>1. /\ conn' \in [Conns -> ConnRows]
      /\ \A d \in Conns : /\ conn'[d].exists = conn[d].exists
                          /\ conn'[d].client = conn[d].client
                          /\ conn'[d].token.grant = conn[d].token.grant
                          /\ conn'[d].token.gen = conn[d].token.gen
                          /\ d # c => conn'[d] = conn[d]
  BY DEF Ages, BrokerTypeOK, ConnRows, Tokens
<1>2. BrokerTypeOK'
  BY <1>1 DEF Ages, BrokerTypeOK
<1>3. SignIns'
  BY <1>1 DEF Ages, SignIns, FlowTrue, Complete, IssuedTo, Made
<1>4. \A d \in Conns : ConnTrue(d)' /\ HolderTrue(d)'
  BY <1>1 DEF Ages, ConnTrue, HolderTrue, Refreshing, IssuedTo, Current, Made
<1>5. Counted'
  BY <1>1 DEF Ages, Counted, Shared, Announced, Made, Complete
<1>6. \A r \in Runs : AskTrue(r)'
  <2> SUFFICES ASSUME NEW r \in Runs, Refreshing(r) PROVE AskTrue(r)'
    BY DEF Ages, AskTrue, Refreshing
  <2>1. asks[r].conn # c
    BY FreeRow DEF Ages
  <2> QED BY <1>1, <2>1 DEF Ages, AskTrue, Refreshing, Current, Made
<1> QED BY <1>2, <1>3, <1>4, <1>5, <1>6 DEF RefreshedByItsApp, Ages

\* A connection is made of a sign-in. If another one was made of it before, neither is trusted
\* to have the current token.
LEMMA ConnectCommitInv == ASSUME NEW c \in Conns PROVE BrokerInv /\ ConnectCommit(c) => BrokerInv'
<1> SUFFICES ASSUME BrokerInv, ConnectCommit(c) PROVE BrokerInv'
  OBVIOUS
<1> USE DEF BrokerInv
<1> PICK f : f = conns[c]
  OBVIOUS
<1> DEFINE g == f.token.grant
<1>0. UNCHANGED <<app, asks, holder, foreign, broken>>
  BY DEF ConnectCommit
<1>1. Complete(f) /\ ~conn[c].exists /\ f \in Flows /\ FlowTrue(f)
  BY DEF ConnectCommit, SignIns, BrokerTypeOK
<1>2. g \in DOMAIN grants /\ IssuedTo(f.token, f.client) /\ grants[g] \in Grants
  BY <1>1 DEF FlowTrue, IssuedTo, BrokerTypeOK
<1>3. /\ grants' \in Seq(Grants)
      /\ DOMAIN grants' = DOMAIN grants
      /\ \A h \in DOMAIN grants : /\ grants'[h].app = grants[h].app
                                  /\ grants'[h].gen = grants[h].gen
                                  /\ h # g => grants'[h] = grants[h]
      /\ grants'[g].made = grants[g].made + 1
  <2>1. [grants[g] EXCEPT !.made = @ + 1] \in Grants
    BY <1>2 DEF Grants
  <2>2. grants' = [grants EXCEPT ![g] = [grants[g] EXCEPT !.made = @ + 1]]
    BY DEF ConnectCommit
  <2>3. g \in 1 .. Len(grants)
    BY <1>2 DEF BrokerTypeOK
  <2>4. grants' \in Seq(Grants)
    BY <2>1, <2>2, <2>3, ExceptSeq DEF BrokerTypeOK
  <2> QED BY <1>2, <2>2, <2>4 DEF Grants, BrokerTypeOK
<1>4. /\ conn' \in [Conns -> ConnRows]
      /\ conn'[c].exists /\ conn'[c].client = f.client /\ conn'[c].token = f.token
      /\ \A d \in Conns : d # c => conn'[d] = conn[d]
  BY <1>1 DEF ConnectCommit, BrokerTypeOK, Flows, ConnRows
<1>5. /\ flow' = flow \/ flow' = NoFlow
      /\ \A d \in Conns : conns'[d] = IF d = c THEN NoFlow ELSE conns[d]
  BY DEF ConnectCommit, BrokerTypeOK
<1>6. BrokerTypeOK'
  BY <1>3, <1>4, <1>5, Constants DEF ConnectCommit, BrokerTypeOK
<1>7. \A h \in DOMAIN grants : grants[h].made \in Nat /\ grants'[h].made \in {grants[h].made, grants[h].made + 1}
  <2> SUFFICES ASSUME NEW h \in DOMAIN grants
               PROVE  grants[h].made \in Nat /\ grants'[h].made \in {grants[h].made, grants[h].made + 1}
    OBVIOUS
  <2>1. grants[h] \in Grants
    BY DEF BrokerTypeOK
  <2> QED BY <1>3, <2>1 DEF Grants
<1>8. \A h \in DOMAIN grants : /\ grants'[h].made = 0 => grants[h].made = 0
                               /\ grants'[h].made < 2 => grants[h].made < 2
                               /\ grants[h].made >= 1 => grants'[h].made >= 1
                               /\ grants[h].made >= 2 => grants'[h].made >= 2
  BY <1>7
<1>9. SignIns'
  <2>2. FlowTrue(flow)' /\ \A d \in Conns : FlowTrue(conns[d])'
    BY <1>3, <1>5, <1>8, Constants DEF SignIns, FlowTrue, IssuedTo, Made
  <2>3. \A d \in Conns : conns'[d] # NoFlow => Complete(conns'[d]) /\ ~conn'[d].exists
    BY <1>4, <1>5 DEF SignIns
  <2> QED BY <1>5, <2>2, <2>3 DEF SignIns, Complete, NoFlow
<1>10. \A d \in Conns : ConnTrue(d)'
  <2>1. ConnTrue(c)'
    <3>1. IssuedTo(f.token, f.client)'
      BY <1>2, <1>3 DEF IssuedTo
    <3>2. grants'[g].made < 2 => grants[g].made = 0
      BY <1>2, <1>3, <1>7
    <3>3. grants[g].made = 0 => f.token.gen = grants'[g].gen
      BY <1>1, <1>2, <1>3 DEF FlowTrue, Made
    <3>4. Current(f.token)'
      BY <3>2, <3>3 DEF Current, Made
    <3> QED BY <1>4, <3>1, <3>4 DEF ConnTrue, IssuedTo, Current, Made
  <2>2. ASSUME NEW d \in Conns, d # c PROVE ConnTrue(d)'
    <3> SUFFICES ASSUME conn[d].exists PROVE ConnTrue(d)'
      BY <1>4, <2>2 DEF ConnTrue
    <3>1. PICK t, p : t = conn[d].token /\ p = conn[d].client
      OBVIOUS
    <3>2. t = conn'[d].token /\ p = conn'[d].client
      BY <1>4, <2>2, <3>1
    <3>3. t.grant \in DOMAIN grants /\ grants[t.grant].app = AppOf(p)
      BY <3>1 DEF ConnTrue, IssuedTo
    <3>4. IssuedTo(t, p)'
      BY <1>3, <3>3 DEF IssuedTo
    <3>5. holder[d] = NoRun => Current(t)
      BY <3>1 DEF ConnTrue, Current, Made
    <3>6. holder[d] = NoRun => Current(t)'
      BY <1>0, <1>3, <1>8, <3>3, <3>5 DEF Current, Made
    <3> QED BY <1>0, <3>2, <3>4, <3>6 DEF ConnTrue, IssuedTo, Current, Made
  <2> QED BY <2>1, <2>2
<1>11. \A d \in Conns : HolderTrue(d)'
  BY DEF ConnectCommit, HolderTrue, Refreshing
<1>12. Counted'
  <2>1. /\ \A d \in Conns : conn[d].exists => conn[d].token.grant \in DOMAIN grants
        /\ \A d \in Conns : Complete(conns[d]) => conns[d].token.grant \in DOMAIN grants
        /\ Complete(flow) => flow.token.grant \in DOMAIN grants
    BY DEF ConnTrue, SignIns, FlowTrue, IssuedTo
  <2>2. \A d \in Conns : conn[d].exists /\ conn[d].token.grant = g => grants[g].made >= 1
    BY <1>1 DEF Counted, Announced, Made
  <2>3. \A d, e \in Conns : Shared(d, e)'
    <3> SUFFICES ASSUME NEW d \in Conns, NEW e \in Conns, d # e, conn'[d].exists, conn'[e].exists,
                        conn'[d].token.grant = conn'[e].token.grant
                 PROVE  grants'[conn'[d].token.grant].made >= 2
      BY DEF Shared, Made
    <3>1. CASE d = c \/ e = c
      <4>1. PICK x \in Conns : x # c /\ x \in {d, e} /\ conn[x].exists /\ conn[x].token.grant = g
        BY <1>4, <3>1
      <4>2. grants[g].made >= 1 /\ conn'[d].token.grant = g
        BY <1>4, <2>2, <3>1, <4>1
      <4> QED BY <1>2, <1>3, <1>7, <4>2
    <3>2. CASE d # c /\ e # c
      <4>1. Shared(d, e) /\ conn'[d] = conn[d] /\ conn'[e] = conn[e]
        BY <1>4, <3>2 DEF Counted
      <4> QED BY <1>8, <2>1, <4>1 DEF Shared, Made
    <3> QED BY <3>1, <3>2
  <2>4. \A d \in Conns : Announced(d, flow)'
    <3> SUFFICES ASSUME NEW d \in Conns, conn'[d].exists, Complete(flow)', conn'[d].token.grant = flow'.token.grant
                 PROVE  grants'[flow'.token.grant].made >= 1
      BY DEF Announced, Made
    <3>1. flow' = flow
      BY <1>5, Constants DEF Complete
    <3>2. CASE d = c
      BY <1>2, <1>3, <1>4, <1>7, <3>1, <3>2
    <3>3. CASE d # c
      <4>1. Announced(d, flow) /\ conn'[d] = conn[d]
        BY <1>4, <3>3 DEF Counted
      <4> QED BY <1>8, <2>1, <3>1, <4>1 DEF Announced, Made, Complete
    <3> QED BY <3>2, <3>3
  <2>5. \A d, e \in Conns : Announced(d, conns[e])'
    <3> SUFFICES ASSUME NEW d \in Conns, NEW e \in Conns, conn'[d].exists, Complete(conns'[e]),
                        conn'[d].token.grant = conns'[e].token.grant
                 PROVE  grants'[conns'[e].token.grant].made >= 1
      BY DEF Announced, Made, Complete
    <3>1. conns'[e] = conns[e]
      BY <1>5, Constants
    <3>2. CASE d = c
      BY <1>2, <1>3, <1>4, <1>7, <3>1, <3>2
    <3>3. CASE d # c
      <4>1. Announced(d, conns[e]) /\ conn'[d] = conn[d]
        BY <1>4, <3>3 DEF Counted
      <4> QED BY <1>8, <2>1, <3>1, <4>1 DEF Announced, Made, Complete
    <3> QED BY <3>2, <3>3
  <2> QED BY <2>3, <2>4, <2>5 DEF Counted
<1>13. \A r \in Runs : AskTrue(r)'
  <2> SUFFICES ASSUME NEW r \in Runs, Refreshing(r) PROVE AskTrue(r)'
    BY DEF ConnectCommit, AskTrue, Refreshing
  <2>1. asks[r].conn # c /\ asks[r].got.grant \in DOMAIN grants
    BY <1>1 DEF AskTrue, ConnTrue, IssuedTo
  <2>2. Current(asks[r].got)'
    <3>1. PICK t : t = asks[r].got
      OBVIOUS
    <3>2. Current(t)
      BY <3>1 DEF AskTrue, Current, Made
    <3>3. Current(t)'
      BY <1>0, <1>3, <1>8, <2>1, <3>1, <3>2 DEF Current, Made
    <3> QED BY <1>0, <3>1, <3>3 DEF Current, Made
  <2> QED BY <1>0, <1>4, <2>1, <2>2 DEF AskTrue, Refreshing
<1> QED BY <1>6, <1>9, <1>10, <1>11, <1>12, <1>13 DEF RefreshedByItsApp, ConnectCommit

-----------------------------------------------------------------------------
(* The steps of runs and refreshes.                                         *)

\* A run starts: its connection keeps its token.
LEMMA StartRunInv == ASSUME NEW r \in Runs, NEW c \in Conns PROVE BrokerInv /\ StartRun(r, c) => BrokerInv'
<1> SUFFICES ASSUME BrokerInv, StartRun(r, c) PROVE BrokerInv'
  OBVIOUS
<1> DEFINE q == [Idle EXCEPT !.pc = "running", !.conn = c]
<1>1. q \in Requests /\ q.pc = "running" /\ q.conn \in Conns
  BY Constants DEF Idle, Requests
<1>2. conn' = conn \/ conn' = [conn EXCEPT ![c].handle = TRUE]
  BY DEF StartRun
<1>3. /\ conn' \in [Conns -> ConnRows]
      /\ \A d \in Conns : /\ conn'[d].exists = conn[d].exists
                          /\ conn'[d].client = conn[d].client
                          /\ conn'[d].token = conn[d].token
  <2>1. CASE conn' = conn
    BY <2>1 DEF BrokerInv, BrokerTypeOK
  <2>2. CASE conn' = [conn EXCEPT ![c].handle = TRUE]
    <3> DEFINE row == [conn[c] EXCEPT !.handle = TRUE]
    <3>1. conn[c] \in ConnRows
      BY DEF BrokerInv, BrokerTypeOK
    <3>2. row \in ConnRows
      BY <3>1 DEF ConnRows
    <3>3. row.exists = conn[c].exists /\ row.client = conn[c].client /\ row.token = conn[c].token
      BY <3>1 DEF ConnRows
    <3>4. conn' = [conn EXCEPT ![c] = row]
      BY <2>2
    <3> HIDE DEF row
    <3> QED BY <3>2, <3>3, <3>4 DEF BrokerInv, BrokerTypeOK
  <2> QED BY <1>2, <2>1, <2>2
<1>4. ~Refreshing(r)
  BY DEF StartRun, Asks, Refreshing
<1> HIDE DEF q
<1> QED BY <1>1, <1>3, <1>4, RunMoves DEF StartRun, q

\* A run ends, and asks no more.
LEMMA EndRunInv == ASSUME NEW r \in Runs PROVE BrokerInv /\ EndRun(r) => BrokerInv'
BY Constants, RunMoves DEF EndRun, Asks, Refreshing, BrokerInv, BrokerTypeOK

\* A run that does not refresh asks, or gets its answer.
LEMMA RunAsks ==
    ASSUME BrokerInv, NEW r \in Runs, asks[r].pc \in {"running", "asking"}, NEW pc \in {"running", "asking"},
           asks' = [asks EXCEPT ![r].pc = pc],
           UNCHANGED <<app, grants, flow, conn, conns, holder, foreign, broken>>
    PROVE  BrokerInv'
<1> DEFINE q == [asks[r] EXCEPT !.pc = pc]
<1>1. q \in Requests /\ q.pc = pc /\ q.conn \in Conns
  BY DEF BrokerInv, BrokerTypeOK, Requests
<1>2. asks' = [asks EXCEPT ![r] = q]
  OBVIOUS
<1>3. ~Refreshing(r)
  BY DEF Refreshing
<1> HIDE DEF q
<1> QED BY <1>1, <1>2, <1>3, RunMoves DEF BrokerInv, BrokerTypeOK

\* A run asks for a token.
LEMMA AskInv == ASSUME NEW r \in Runs PROVE BrokerInv /\ Ask(r) => BrokerInv'
BY RunAsks DEF Ask, Asks

\* A run gets the row lock, and with it the current token and the app it was issued to.
LEMMA LockConnInv == ASSUME NEW r \in Runs PROVE BrokerInv /\ LockConn(r) => BrokerInv'
<1> SUFFICES ASSUME BrokerInv, LockConn(r) PROVE BrokerInv'
  OBVIOUS
<1> PICK c : c = asks[r].conn
  OBVIOUS
<1>1. CASE asks' = [asks EXCEPT ![r].pc = "running"] /\ UNCHANGED holder
  BY <1>1, RunAsks DEF LockConn, Asks
<1>2. CASE /\ conn[c].exists /\ Issuer(c) # NoApp
           /\ asks' = [asks EXCEPT ![r].pc = "upstream", ![r].client = Issuer(c), ![r].got = conn[c].token]
           /\ holder' = [holder EXCEPT ![c] = r]
  <2> USE DEF BrokerInv
  <2>1. UNCHANGED <<app, grants, flow, conn, conns, foreign, broken>>
    BY DEF LockConn
  <2>2. c \in Conns /\ holder[c] = NoRun /\ asks[r].pc = "asking"
    BY DEF LockConn, Asks, RowFree, BrokerTypeOK
  <2>3. Issuer(c) = AppOf(conn[c].client) /\ Issuer(c) \in Clients
    BY <1>2, <2>2 DEF Issuer, AppOf, BrokerTypeOK, Clients, Apps
  <2>4. /\ asks' \in [Runs -> Requests]
        /\ asks'[r].pc = "upstream" /\ asks'[r].conn = c
        /\ asks'[r].client = Issuer(c) /\ asks'[r].got = conn[c].token
        /\ \A u \in Runs : u # r => asks'[u] = asks[u]
    BY <1>2, <2>2, <2>3 DEF BrokerTypeOK, Requests, ConnRows
  <2>5. /\ holder' \in [Conns -> Runs \cup {NoRun}]
        /\ holder'[c] = r
        /\ \A d \in Conns : d # c => holder'[d] = holder[d]
    BY <1>2, <2>2 DEF BrokerTypeOK
  <2>6. BrokerTypeOK'
    BY <2>1, <2>2, <2>4, <2>5 DEF BrokerTypeOK
  <2>7. SignIns'
    BY <2>1 DEF SignIns, FlowTrue, Complete, IssuedTo, Made
  <2>8. \A d \in Conns : ConnTrue(d)'
    BY <2>1, <2>5, RunAssumption DEF ConnTrue, IssuedTo, Current, Made
  <2>9. \A d \in Conns : HolderTrue(d)'
    BY <2>2, <2>4, <2>5 DEF HolderTrue, Refreshing
  <2>10. Counted'
    BY <2>1 DEF Counted, Shared, Announced, Made, Complete
  <2>11. \A u \in Runs : AskTrue(u)'
    <3>1. AskTrue(r)'
      <4>1. PICK t : t = conn[c].token
        OBVIOUS
      <4>2. Current(t)
        BY <1>2, <2>2, <4>1 DEF ConnTrue
      <4>3. Current(t)'
        BY <2>1, <4>2 DEF Current, Made
      <4>4. asks'[r].got = t /\ conn'[c].token = t /\ asks'[r].client = AppOf(conn'[c].client)
        BY <2>1, <2>3, <2>4, <4>1
      <4> QED BY <1>2, <2>1, <2>2, <2>4, <2>5, <4>3, <4>4 DEF AskTrue, Current, Made
    <3>2. ASSUME NEW u \in Runs, u # r, Refreshing(u) PROVE AskTrue(u)'
      <4>1. asks[u].conn # c
        BY <2>2, <3>2, FreeRow
      <4> QED BY <2>1, <2>4, <2>5, <3>2, <4>1 DEF AskTrue, Refreshing, Current, Made
    <3> QED BY <2>4, <3>1, <3>2 DEF AskTrue, Refreshing
  <2> QED BY <2>1, <2>6, <2>7, <2>8, <2>9, <2>10, <2>11 DEF RefreshedByItsApp
<1> QED BY <1>1, <1>2 DEF LockConn

\* Only one run at a time refreshes a connection.
LEMMA OneHolder ==
    ASSUME BrokerInv, NEW r \in Runs, Refreshing(r)
    PROVE  /\ asks[r].conn \in Conns /\ conn[asks[r].conn].exists /\ holder[asks[r].conn] = r
           /\ \A u \in Runs : Refreshing(u) /\ u # r => asks[u].conn # asks[r].conn
BY DEF BrokerInv, AskTrue

\* A run releases the connection, with a token of the same grant that is the current one.
LEMMA Releases ==
    ASSUME BrokerInv, NEW r \in Runs, Refreshing(r), NEW c, c = asks[r].conn,
           NEW t \in Tokens, t.grant = conn[c].token.grant, Current(t)',
           conn' \in [Conns -> ConnRows],
           conn'[c].exists = conn[c].exists, conn'[c].client = conn[c].client, conn'[c].token = t,
           \A d \in Conns : d # c => conn'[d] = conn[d],
           asks' = [asks EXCEPT ![r].pc = "running"], holder' = Released(c),
           UNCHANGED <<app, grants, flow, conns, foreign>>, broken \subseteq broken'
    PROVE  BrokerInv'
<1> USE DEF BrokerInv
<1>1. c \in Conns /\ conn[c].exists /\ holder[c] = r
  BY OneHolder
<1>2. /\ asks' \in [Runs -> Requests]
      /\ asks'[r].pc = "running" /\ asks'[r].conn = c
      /\ \A u \in Runs : u # r => asks'[u] = asks[u]
  BY DEF BrokerTypeOK, Requests
<1>3. /\ holder' \in [Conns -> Runs \cup {NoRun}]
      /\ holder'[c] = NoRun
      /\ \A d \in Conns : d # c => holder'[d] = holder[d]
  BY <1>1 DEF Released, BrokerTypeOK
<1>4. \A d \in Conns : /\ conn'[d].exists = conn[d].exists
                       /\ conn'[d].client = conn[d].client
                       /\ conn'[d].token.grant = conn[d].token.grant
  OBVIOUS
<1>5. BrokerTypeOK'
  BY <1>1, <1>2, <1>3 DEF BrokerTypeOK
<1>6. SignIns'
  BY <1>4 DEF SignIns, FlowTrue, Complete, IssuedTo, Made
<1>7. \A d \in Conns : ConnTrue(d)'
  <2>1. ConnTrue(c)'
    BY <1>1 DEF ConnTrue, IssuedTo, Current, Made
  <2>2. ASSUME NEW d \in Conns, d # c PROVE ConnTrue(d)'
    BY <1>3, <2>2 DEF ConnTrue, IssuedTo, Current, Made
  <2> QED BY <2>1, <2>2
<1>8. \A d \in Conns : HolderTrue(d)'
  <2> SUFFICES ASSUME NEW d \in Conns, holder'[d] # NoRun PROVE HolderTrue(d)'
    BY DEF HolderTrue
  <2>1. d # c /\ holder[d] = holder'[d] /\ Refreshing(holder[d]) /\ asks[holder[d]].conn = d
    BY <1>3 DEF HolderTrue
  <2>2. holder[d] # r /\ holder[d] \in Runs
    BY <2>1 DEF BrokerTypeOK
  <2> QED BY <1>2, <2>1, <2>2 DEF HolderTrue, Refreshing
<1>9. Counted'
  BY <1>4 DEF Counted, Shared, Announced, Made, Complete
<1>10. \A u \in Runs : AskTrue(u)'
  <2>1. ASSUME NEW u \in Runs, u # r, Refreshing(u) PROVE AskTrue(u)'
    <3>1. asks[u].conn # c
      BY <2>1, OneHolder
    <3> QED BY <1>2, <1>3, <2>1, <3>1 DEF AskTrue, Refreshing, Current, Made
  <2> QED BY <1>2, <2>1 DEF AskTrue, Refreshing
<1> QED BY <1>5, <1>6, <1>7, <1>8, <1>9, <1>10 DEF RefreshedByItsApp

\* The token of the answer is stored: it is the current one.
LEMMA CommitTokenInv == ASSUME NEW r \in Runs PROVE BrokerInv /\ CommitToken(r) => BrokerInv'
<1> SUFFICES ASSUME BrokerInv, CommitToken(r) PROVE BrokerInv'
  OBVIOUS
<1>1. PICK c, t : c = asks[r].conn /\ t = asks[r].got
  OBVIOUS
<1>2. Refreshing(r) /\ c \in Conns /\ t \in Tokens /\ t.grant = conn[c].token.grant /\ Current(t)
  BY <1>1, OneHolder DEF CommitToken, Asks, Refreshing, BrokerInv, BrokerTypeOK, Requests, AskTrue, Current, Made
<1>3. Current(t)'
  BY <1>2 DEF CommitToken, Current, Made
<1>4. conn[c] \in ConnRows /\ conn' = [conn EXCEPT ![c] = [conn[c] EXCEPT !.token = t]]
  BY <1>1, <1>2 DEF CommitToken, BrokerInv, BrokerTypeOK
<1>5. [conn[c] EXCEPT !.token = t] \in ConnRows
  BY <1>2, <1>4 DEF ConnRows
<1>6. /\ conn' \in [Conns -> ConnRows]
      /\ conn'[c].exists = conn[c].exists /\ conn'[c].client = conn[c].client /\ conn'[c].token = t
      /\ \A d \in Conns : d # c => conn'[d] = conn[d]
  BY <1>2, <1>4, <1>5 DEF BrokerInv, BrokerTypeOK, ConnRows
<1>7. /\ asks' = [asks EXCEPT ![r].pc = "running"] /\ holder' = Released(c)
      /\ UNCHANGED <<app, grants, flow, conns, foreign>> /\ broken \subseteq broken'
  BY <1>1 DEF CommitToken
<1> QED BY <1>1, <1>2, <1>3, <1>6, <1>7, Releases

\* The answer is lost, and with it the rotated refresh token: the grant is broken.
LEMMA LoseReplyInv == ASSUME NEW r \in Runs PROVE BrokerInv /\ LoseReply(r) => BrokerInv'
<1> SUFFICES ASSUME BrokerInv, LoseReply(r) PROVE BrokerInv'
  OBVIOUS
<1>1. PICK c, t : c = asks[r].conn /\ t = conn[c].token
  OBVIOUS
<1>2. Refreshing(r) /\ c \in Conns /\ t \in Tokens /\ t.grant = asks[r].got.grant
  BY <1>1, OneHolder DEF LoseReply, Asks, Refreshing, BrokerInv, BrokerTypeOK, ConnRows, AskTrue
<1>3. Current(t)'
  BY <1>2 DEF LoseReply, Current
<1> QED BY <1>1, <1>2, <1>3, Releases DEF LoseReply, BrokerInv, BrokerTypeOK

\* A refresh names the app its token was issued to.
LEMMA RightApp ==
    ASSUME BrokerInv, NEW r \in Runs, Refreshing(r)
    PROVE  /\ asks[r].got.grant \in DOMAIN grants
           /\ grants[asks[r].got.grant].app = asks[r].client
BY DEF BrokerInv, AskTrue, ConnTrue, IssuedTo

\* The provider answers. What else has this grant was counted, and so is not taken to be current.
LEMMA UpstreamInv == ASSUME NEW r \in Runs PROVE BrokerInv /\ Upstream(r) => BrokerInv'
<1> SUFFICES ASSUME BrokerInv, Upstream(r) PROVE BrokerInv'
  OBVIOUS
<1> PICK c, g, t : c = asks[r].conn /\ g = asks[r].got.grant /\ t = asks[r].got
  OBVIOUS
<1>1. Refreshing(r) /\ asks[r].pc = "upstream"
  BY DEF Upstream, Asks, Refreshing
<1>2. /\ c \in Conns /\ conn[c].exists /\ holder[c] = r
      /\ g \in DOMAIN grants /\ grants[g].app = asks[r].client
      /\ t = conn[c].token /\ Current(t)
  BY <1>1, OneHolder, RightApp DEF BrokerInv, AskTrue, Current, Made
<1>3. UNCHANGED <<app, flow, conn, conns, foreign, broken>>
  BY <1>2 DEF Upstream
<1>4. CASE asks' = [asks EXCEPT ![r].pc = "running"] /\ holder' = Released(c) /\ UNCHANGED grants
  <2>1. Current(t)'
    BY <1>2, <1>3, <1>4 DEF Current, Made
  <2>2. t \in Tokens /\ conn' \in [Conns -> ConnRows]
    BY <1>2, <1>3 DEF BrokerInv, BrokerTypeOK, ConnRows
  <2> QED BY <1>1, <1>2, <1>3, <1>4, <2>1, <2>2, Releases
<1>5. ASSUME Accepted(r), NEW rotated \in {0, 1}, grants' = [grants EXCEPT ![g].gen = @ + rotated],
             asks' = [asks EXCEPT ![r].pc = "replied", ![r].got.gen = @ + rotated, ![r].got.fresh = TRUE],
             UNCHANGED holder
      PROVE  BrokerInv'
  <2> USE DEF BrokerInv
  <2>1. grants[g] \in Grants /\ g \in 1 .. Len(grants) /\ grants[g].gen \in Nat
    <3>1. g \in 1 .. Len(grants) /\ grants[g] \in Grants
      BY <1>2 DEF BrokerTypeOK
    <3> QED BY <3>1 DEF Grants
  <2> DEFINE given == [grants[g] EXCEPT !.gen = @ + rotated]
  <2>2. given \in Grants /\ given.gen = grants[g].gen + rotated
        /\ given.app = grants[g].app /\ given.made = grants[g].made
    BY <2>1 DEF Grants
  <2>3. grants' = [grants EXCEPT ![g] = given]
    BY <1>5
  <2>4. /\ grants' \in Seq(Grants)
        /\ DOMAIN grants' = DOMAIN grants
        /\ grants'[g] = given
        /\ \A h \in DOMAIN grants : h # g => grants'[h] = grants[h]
    <3> HIDE DEF given
    <3>1. grants' \in Seq(Grants)
      BY <2>1, <2>2, <2>3, ExceptSeq DEF BrokerTypeOK
    <3> QED BY <1>2, <2>3, <3>1 DEF BrokerTypeOK
  <2>5. \A h \in DOMAIN grants : /\ grants'[h].app = grants[h].app
                                 /\ grants'[h].made = grants[h].made
                                 /\ h # g => grants'[h].gen = grants[h].gen
                                 /\ grants[h].made \in Nat
    <3> SUFFICES ASSUME NEW h \in DOMAIN grants
                 PROVE  /\ grants'[h].app = grants[h].app /\ grants'[h].made = grants[h].made
                        /\ h # g => grants'[h].gen = grants[h].gen
                        /\ grants[h].made \in Nat
      OBVIOUS
    <3>1. grants[h] \in Grants
      BY DEF BrokerTypeOK
    <3> HIDE DEF given
    <3> QED BY <2>2, <2>4, <3>1 DEF Grants
  <2>6. grants[g].made \in Nat /\ (grants[g].made >= 2 => ~(grants'[g].made < 2))
    <3>1. PICK m : m = grants[g].made
      OBVIOUS
    <3>2. m \in Nat /\ grants'[g].made = m
      BY <1>2, <2>5, <3>1
    <3>3. m >= 2 => ~(m < 2)
      BY <3>2
    <3> QED BY <3>1, <3>2, <3>3
  <2>7. t \in Tokens /\ t.gen = grants[g].gen
    BY <1>5 DEF BrokerTypeOK, Requests, Accepted
  <2> DEFINE got == [t EXCEPT !.gen = @ + rotated, !.fresh = TRUE]
             q == [asks[r] EXCEPT !.pc = "replied", !.got = got]
  <2>8. got \in Tokens /\ got.grant = g /\ got.gen = given.gen
    <3>1. t.gen + rotated = given.gen /\ given.gen \in Nat /\ t.grant = g
      BY <2>2, <2>7 DEF Grants
    <3> HIDE DEF given
    <3> QED BY <2>7, <3>1 DEF Tokens
  <2>9. asks' = [asks EXCEPT ![r] = q]
    BY <1>5
  <2>10. /\ asks' \in [Runs -> Requests]
        /\ asks'[r].pc = "replied" /\ asks'[r].conn = c
        /\ asks'[r].client = asks[r].client /\ asks'[r].got = got
        /\ \A u \in Runs : u # r => asks'[u] = asks[u]
    <3> HIDE DEF got
    <3>1. q \in Requests /\ q.pc = "replied" /\ q.conn = c /\ q.client = asks[r].client /\ q.got = got
      BY <2>8 DEF BrokerTypeOK, Requests
    <3> HIDE DEF q
    <3> QED BY <2>9, <3>1 DEF BrokerTypeOK
  <2> HIDE DEF given, got, q
  <2>11. BrokerTypeOK'
    <3>1. \A u \in Runs : asks'[u].pc # "idle" => asks'[u].conn \in Conns
      BY <1>2, <2>10 DEF BrokerTypeOK
    <3> QED BY <1>3, <1>5, <2>4, <2>10, <3>1 DEF BrokerTypeOK
  <2>12. SignIns'
    <3>1. ASSUME NEW f, FlowTrue(f), Announced(c, f) PROVE FlowTrue(f)'
      BY <1>2, <1>3, <2>4, <2>5, <3>1 DEF FlowTrue, Announced, IssuedTo, Made, Complete
    <3>2. FlowTrue(flow)' /\ \A d \in Conns : FlowTrue(conns[d])'
      <4>1. ASSUME NEW f, f = flow PROVE FlowTrue(f)'
        BY <1>2, <3>1, <4>1 DEF SignIns, Counted
      <4>2. ASSUME NEW d \in Conns, NEW f, f = conns[d] PROVE FlowTrue(f)'
        BY <1>2, <3>1, <4>2 DEF SignIns, Counted
      <4> QED BY <1>3, <4>1, <4>2 DEF FlowTrue, IssuedTo, Made, Complete
    <3> QED BY <1>3, <3>2 DEF SignIns, Complete
  <2>13. \A d \in Conns : ConnTrue(d)'
    <3> SUFFICES ASSUME NEW d \in Conns, conn[d].exists PROVE ConnTrue(d)'
      BY <1>3 DEF ConnTrue
    <3>1. PICK s, p : s = conn[d].token /\ p = conn[d].client
      OBVIOUS
    <3>2. IssuedTo(s, p)'
      BY <2>4, <2>5, <3>1 DEF ConnTrue, IssuedTo
    <3>3. holder[d] = NoRun => Current(s)'
      <4> SUFFICES ASSUME holder[d] = NoRun PROVE Current(s)'
        OBVIOUS
      <4>1. d # c /\ Current(s) /\ s.grant \in DOMAIN grants
        BY <1>2, <3>1, RunAssumption DEF ConnTrue, IssuedTo, Current, Made
      <4>2. s.grant = g => grants[g].made >= 2
        BY <1>2, <3>1, <4>1 DEF Counted, Shared, Made
      <4>3. s.grant = g => ~(grants'[g].made < 2)
        BY <2>6, <4>2
      <4> QED BY <1>3, <2>4, <2>5, <4>1, <4>3 DEF Current, Made
    <3> QED BY <1>3, <1>5, <3>1, <3>2, <3>3 DEF ConnTrue, IssuedTo, Current, Made
  <2>14. \A d \in Conns : HolderTrue(d)'
    BY <1>1, <1>5, <2>10 DEF HolderTrue, Refreshing, BrokerTypeOK
  <2>15. Counted'
    BY <1>3, <2>4, <2>5 DEF Counted, Shared, Announced, Made, Complete, ConnTrue, IssuedTo, SignIns, FlowTrue
  <2>16. AskTrue(r)'
    <3>1. PICK s : s = got
      OBVIOUS
    <3>2. Current(s)'
      BY <2>4, <2>8, <3>1 DEF Current
    <3>3. asks[r].client = AppOf(conn[c].client)
      BY <1>1 DEF AskTrue
    <3>4. s.grant = conn[c].token.grant
      BY <1>2, <2>8, <3>1
    <3>5. Current(asks[r].got)'
      BY <2>10, <3>1, <3>2 DEF Current, Made
    <3>6. asks'[r].client = AppOf(conn'[c].client) /\ asks'[r].got.grant = conn'[c].token.grant
      BY <1>3, <2>10, <3>1, <3>3, <3>4
    <3> QED BY <1>2, <1>3, <1>5, <2>10, <3>5, <3>6 DEF AskTrue
  <2>17. ASSUME NEW u \in Runs, u # r, Refreshing(u) PROVE AskTrue(u)'
    <3>1. PICK d, s : d = asks[u].conn /\ s = asks[u].got
      OBVIOUS
    <3>2. d \in Conns /\ d # c /\ conn[d].exists /\ s.grant = conn[d].token.grant /\ Current(s)
          /\ s.grant \in DOMAIN grants
      BY <1>1, <2>17, <3>1, OneHolder, RightApp DEF AskTrue, Current, Made
    <3>3. s.grant = g => grants[g].made >= 2
      BY <1>2, <3>2 DEF Counted, Shared, Made
    <3>4. s.grant = g => ~(grants'[g].made < 2)
      BY <2>6, <3>3
    <3>5. Current(s)'
      BY <1>3, <2>4, <2>5, <3>2, <3>4 DEF Current, Made
    <3> QED BY <1>3, <1>5, <2>10, <2>17, <3>1, <3>5 DEF AskTrue, Refreshing, Current, Made
  <2> QED BY <1>3, <2>10, <2>11, <2>12, <2>13, <2>14, <2>15, <2>16, <2>17 DEF AskTrue, Refreshing, RefreshedByItsApp
<1> QED BY <1>4, <1>5 DEF Upstream

-----------------------------------------------------------------------------
(* The theorems.                                                            *)

\* Every step keeps the invariant: one lemma for every action.
THEOREM BrokerStep == BrokerInv /\ [BrokerNext]_brokerVars => BrokerInv'
<1> SUFFICES ASSUME BrokerInv, [BrokerNext]_brokerVars PROVE BrokerInv'
  OBVIOUS
<1>1. CASE StartFlow \/ PurgeFlow \/ CompleteFlow \/ Redeploy
  BY <1>1, StartFlowInv, PurgeFlowInv, CompleteFlowInv, RedeployInv
<1>2. ASSUME NEW c \in Conns, ConnectRead(c) \/ ConnectCommit(c) \/ PasteToken(c) \/ DeleteConn(c) \/ Ages(c)
      PROVE  BrokerInv'
  BY <1>2, ConnectReadInv, ConnectCommitInv, PasteTokenInv, DeleteConnInv, AgesInv
<1>3. ASSUME NEW r \in Runs, \/ \E c \in Conns : StartRun(r, c)
                             \/ EndRun(r) \/ Ask(r) \/ LockConn(r) \/ Upstream(r) \/ CommitToken(r) \/ LoseReply(r)
      PROVE  BrokerInv'
  BY <1>3, StartRunInv, EndRunInv, AskInv, LockConnInv, UpstreamInv, CommitTokenInv, LoseReplyInv
<1>4. CASE UNCHANGED brokerVars
  BY <1>4, FlowMoves DEF brokerVars, BrokerInv, BrokerTypeOK, SignIns
<1> QED BY <1>1, <1>2, <1>3, <1>4 DEF BrokerNext

\* The strengthening of the two properties is an invariant of the token broker.
THEOREM BrokerInvariant == BrokerSpec => []BrokerInv
BY BrokerInitInv, BrokerStep, PTL DEF BrokerSpec

\* Types of sign-ins, connections, requests and row locks (token_broker_manager.py).
THEOREM BrokerTypeCorrect == BrokerSpec => []BrokerTypeOK
<1>1. BrokerInv => BrokerTypeOK
  BY DEF BrokerInv
<1> QED BY <1>1, BrokerInvariant, PTL

\* However many runs refresh a connection through serve_locked_connection, its row has the
\* refresh token the provider takes next.
THEOREM TokensAreCurrent == BrokerSpec => []TokenIsCurrent
<1>1. BrokerInv => TokenIsCurrent
  BY DEF BrokerInv, TokenIsCurrent, ConnTrue, Current, Made
<1> QED BY <1>1, BrokerInvariant, PTL

\* connection_client_credentials never takes the token of one app to the provider with the
\* credentials of another.
THEOREM RefreshesNameTheirApp == BrokerSpec => []RefreshedByItsApp
<1>1. BrokerInv => RefreshedByItsApp
  BY DEF BrokerInv
<1> QED BY <1>1, BrokerInvariant, PTL
=============================================================================
