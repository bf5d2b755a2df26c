------------------------------ MODULE Accounts -------------------------------
(***************************************************************************)
(* Accounts and their YouTube connections: the calls together, and what    *)
(* must hold whatever calls overlap.                                       *)
(***************************************************************************)
EXTENDS AdminRequests, ConnectionRequests

Init ==
    /\ account = [a \in People |->
         IF a \in FirstAdmins THEN [state |-> "live", role |-> "admin", banned |-> FALSE]
         ELSE IF a \in FirstUsers THEN [state |-> "live", role |-> "user", banned |-> FALSE]
         ELSE NoAccount]
    /\ sessions = FirstAdmins \cup FirstUsers
    /\ cookie = [a \in People |-> NoCookie]
    /\ media = {}
    /\ client = [a \in People |-> NoOne]
    /\ connection = [a \in People |-> NoConnection]
    /\ pending = [k \in Keys |-> NoState]
    /\ calls = [s \in Slots |-> Idle]
    /\ clock = CookieAge + 1 /\ events = 0
    /\ raced = FALSE
    /\ lostRights = [a \in People |-> 0]
    /\ orphaned = {} /\ stagedBeside = {}
    /\ reconfigured = {}

Arrives(s, a) ==
    \/ CreateUserArrives(s, a) \/ SetRoleArrives(s, a) \/ BanArrives(s, a)
    \/ UnbanArrives(s, a) \/ DeleteUserArrives(s, a)
    \/ CallbackArrives(s, a)

Commits(s) ==
    \/ CreateUserCommits(s) \/ SetRoleCommits(s) \/ BanCommits(s)
    \/ UnbanCommits(s) \/ DeleteUserCommits(s) \/ AdminCallFails(s)
    \/ CallbackCommits(s) \/ CallbackFails(s)

Does(a) ==
    \/ SignIn(a)
    \/ SignOut(a)

Records(a) ==
    \/ RecordingStaged(a) \/ RecordingsCleaned(a)
    \/ SaveClientConfig(a) \/ ClearClientConfig(a)
    \/ CreateConnectUrl(a) \/ Disconnect(a)

Next ==
    \/ \E s \in Slots : Commits(s)
    \/ \E s \in Slots, a \in People : calls[s] = Idle /\ Arrives(s, a)
    \/ \E a \in People : Does(a)
    \/ \E a \in Recorders : Records(a)
    \/ Tick \/ WorkerMarksReauth \/ WebRestarts

Spec == Init /\ [][Next]_vars
-----------------------------------------------------------------------------
TypeOK ==
    /\ account \in [People -> AccountRow] /\ sessions \subseteq People
    /\ cookie \in [People -> Cookie] /\ media \subseteq People
    /\ client \in [People -> Clients \cup {NoOne}]
    /\ connection \in [People -> Connection]
    /\ pending \in [Keys -> PendingState]
    /\ calls \in [Slots -> Call]
    /\ clock \in Nat /\ events \in 0 .. MaxEvents
    /\ raced \in BOOLEAN /\ lostRights \in [People -> Nat]
    /\ orphaned \subseteq People /\ stagedBeside \subseteq People
    /\ reconfigured \subseteq People

\* At least one active administrator is left by any sequence of demotions,
\* bans, deletions and promotions, as long as no call takes one away on
\* checks that another call has overtaken.
AdminsRemain == raced \/ ActiveAdmins # {}

\* An account that is no longer an active administrator administers nobody,
\* from CookieAge after it stopped being one: the role in a cookie, which
\* also speaks for a call that commits late, does not outlive that.
StaleRoleIsBrief ==
    [][\A s \in Slots :
         (calls[s].op \notin {"idle", "callback"} /\ account' # account /\ calls'[s] = Idle) =>
           ActiveAdmin(calls[s].actor) \/ clock <= lostRights[calls[s].actor] + CookieAge]_vars

\* Deleting an account leaves no object and no video that nothing refers to,
\* unless the account stages a recording while it is being deleted.
OrphansOnlyByRace == orphaned \subseteq stagedBeside

\* The token in a row was granted to the account it is for, in a flow that
\* account started.
GrantIsOwners ==
    \A a \in People : connection[a].token.starter \in {a, NoOne}

\* A row that says CONNECTED holds a token of the client the worker will pair
\* it with, unless the client was changed since the callback read it.
TokenFitsClient ==
    \A a \in People \ reconfigured :
      connection[a].status = "CONNECTED" => connection[a].token.client = ResolveClientConfig(a)
=============================================================================
