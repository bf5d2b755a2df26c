---------------------------- MODULE AdminRequests ----------------------------
(***************************************************************************)
(* The administration of accounts: apps/web/src/lib/services/admin-users.ts*)
(* and admin-guard.ts with the routes under api/admin/users, signing in    *)
(* and out, and what Better Auth does for them.                            *)
(***************************************************************************)
EXTENDS AccountState

untouched == UNCHANGED <<youtubeVars, youtubeGhosts>>

\* The session says "admin".  Better Auth asks again when the call commits,
\* with the cookie the request came with.
RequireAdmin(a, c) == RoleBy(a, c) = "admin"

\* Mutant: one administrator, active or not, is enough.
AnyAdminRemains(a) ==
    (Live(a) /\ account[a].role = "admin") => {b \in People : Live(b) /\ account[b].role = "admin"} # {}

\* The action would not leave the instance without an active administrator.
NotFinalAdmin(a) ==
    (Live(a) /\ account[a].role = "admin") => ActiveAdmins \ {a} # {}

AdminCall(op, actor, at) ==
    [Idle EXCEPT !.op = op, !.actor = actor, !.at = at, !.cookie = cookie[actor]]

AdminArrives(s, call) ==
    /\ RequireAdmin(call.actor, cookie[call.actor])
    /\ Arrive(s, call)
    /\ UNCHANGED <<accountVars, adminGhosts>> /\ untouched

CreateUserArrives(s, u) ==
    \E a \in People, role \in {"admin", "user"} :
      /\ account[a] = NoAccount
      /\ AdminArrives(s, [AdminCall("create", u, a) EXCEPT !.role = role])

\* A request that gives a role is only about the role, whatever it says of a
\* ban.  The guard is asked only when the role read is "admin".
SetRoleArrives(s, u) ==
    \E a \in People, role \in {"admin", "user"} :
      /\ Live(a)
      /\ account[a].role = "admin" /\ role = "user" => NotFinalAdmin(a)
      /\ AdminArrives(s, [AdminCall("setRole", u, a) EXCEPT !.role = role])

BanArrives(s, u) ==
    \E a \in People : Live(a) /\ NotFinalAdmin(a) /\ AdminArrives(s, AdminCall("ban", u, a))

UnbanArrives(s, u) ==
    \E a \in People : Live(a) /\ AdminArrives(s, AdminCall("unban", u, a))

\* Mutant: recordings that still hold media do not block.
DeleteUserUnasked(s, u) ==
    \E a \in People :
      Live(a) /\ NotFinalAdmin(a) /\ a # u /\ AdminArrives(s, AdminCall("delete", u, a))

DeleteUserArrives(s, u) ==
    \E a \in People :
      /\ Live(a) /\ NotFinalAdmin(a)
      /\ a # u
      /\ a \notin media
      /\ AdminArrives(s, AdminCall("delete", u, a))
-----------------------------------------------------------------------------
\* A call changed a role, a ban or an account: the checks of the other calls
\* in flight are out of date, and if it took an active administrator away on
\* such checks itself, the guard said nothing.
AccountWritten(s, row) ==
    LET c == calls[s]
        removes == ActiveAdmin(c.at) /\ ~(row.state = "live" /\ row.role = "admin" /\ ~row.banned) IN
    /\ account' = [account EXCEPT ![c.at] = row]
    /\ calls' = [x \in Slots |-> IF x = s THEN Idle
                                 ELSE IF calls[x].op \notin {"idle", "callback"}
                                   THEN [calls[x] EXCEPT !.fresh = FALSE]
                                 ELSE calls[x]]
    /\ raced' = (raced \/ (removes /\ ~c.fresh))
    /\ lostRights' = IF removes THEN [lostRights EXCEPT ![c.at] = clock] ELSE lostRights
    /\ UNCHANGED <<clock, events, media, stagedBeside>>

Commit(s, op) == calls[s].op = op /\ RequireAdmin(calls[s].actor, calls[s].cookie)

\* Mutant: an account is made without a role.
CreateUserRoleless(s) ==
    /\ Commit(s, "create")
    /\ account[calls[s].at] = NoAccount
    /\ AccountWritten(s, [state |-> "live", role |-> "none", banned |-> FALSE])
    /\ UNCHANGED <<sessions, cookie, orphaned>> /\ untouched

CreateUserCommits(s) ==
    /\ Commit(s, "create")
    /\ account[calls[s].at] = NoAccount
    /\ AccountWritten(s, [state |-> "live", role |-> calls[s].role, banned |-> FALSE])
    /\ UNCHANGED <<sessions, cookie, orphaned>> /\ untouched

SetRoleCommits(s) ==
    /\ Commit(s, "setRole")
    /\ Live(calls[s].at)
    /\ AccountWritten(s, [account[calls[s].at] EXCEPT !.role = calls[s].role])
    /\ UNCHANGED <<sessions, cookie, orphaned>> /\ untouched

\* Nobody bans themselves; the banned account's sessions are removed, the
\* cookie in its browser is not.
BanCommits(s) ==
    /\ Commit(s, "ban")
    /\ Live(calls[s].at) /\ calls[s].at # calls[s].actor
    /\ AccountWritten(s, [account[calls[s].at] EXCEPT !.banned = TRUE])
    /\ sessions' = sessions \ {calls[s].at}
    /\ UNCHANGED <<cookie, orphaned>> /\ untouched

UnbanCommits(s) ==
    /\ Commit(s, "unban")
    /\ Live(calls[s].at)
    /\ AccountWritten(s, [account[calls[s].at] EXCEPT !.banned = FALSE])
    /\ UNCHANGED <<sessions, cookie, orphaned>> /\ untouched

\* The row goes with everything that cascades from it, recordings included.
\* connected_by_user_id is ON DELETE RESTRICT: a connection row, disconnected
\* or not, keeps its account from being deleted.
DeleteUserCommits(s) ==
    LET a == calls[s].at IN
    /\ Commit(s, "delete")
    /\ Live(a) /\ connection[a] = NoConnection
    /\ AccountWritten(s, [account[a] EXCEPT !.state = "gone"])
    /\ sessions' = sessions \ {a}
    /\ orphaned' = IF a \in media THEN orphaned \cup {a} ELSE orphaned
    /\ client' = [client EXCEPT ![a] = NoOne]
    /\ UNCHANGED <<cookie, connection, pending, youtubeGhosts>>

\* What Better Auth or the database refuses, and a lost request.
AdminCallFails(s) ==
    /\ calls[s].op \notin {"idle", "callback"}
    /\ Ends(s)
    /\ UNCHANGED <<accountVars, adminGhosts>> /\ untouched
-----------------------------------------------------------------------------
\* Signing in makes a session and a cookie that is believed for CookieAge.
SignIn(a) ==
    /\ Event
    /\ Live(a) /\ ~account[a].banned
    /\ sessions' = sessions \cup {a}
    /\ cookie' = [cookie EXCEPT ![a] = [role |-> account[a].role, until |-> clock + CookieAge]]
    /\ UNCHANGED <<account, media, calls, clock, adminGhosts>> /\ untouched

SignOut(a) ==
    /\ Event
    /\ a \in sessions
    /\ sessions' = sessions \ {a}
    /\ cookie' = [cookie EXCEPT ![a] = NoCookie]
    /\ UNCHANGED <<account, media, calls, clock, adminGhosts>> /\ untouched

Tick ==
    /\ clock < MaxClock
    /\ clock' = clock + 1
    /\ UNCHANGED <<accountVars, calls, events, adminGhosts>> /\ untouched

\* A recording is staged: recordings.owner_id REFERENCES user.
RecordingStaged(a) ==
    /\ Event
    /\ SignedIn(a) /\ Live(a)
    /\ media' = media \cup {a}
    /\ stagedBeside' = IF \E s \in Slots : calls[s].op = "delete" /\ calls[s].at = a
                       THEN stagedBeside \cup {a} ELSE stagedBeside
    /\ UNCHANGED <<account, sessions, cookie, calls, clock, raced, lostRights, orphaned>> /\ untouched

\* The pipeline has removed the media of an account's last recording.
RecordingsCleaned(a) ==
    /\ Event
    /\ a \in media /\ Live(a)
    /\ media' = media \ {a}
    /\ UNCHANGED <<account, sessions, cookie, calls, clock, adminGhosts>> /\ untouched
=============================================================================
