---------------------------- MODULE AccountState -----------------------------
(***************************************************************************)
(* Accounts, sessions, YouTube connections, and the calls in flight that   *)
(* change them.  AdminRequests and ConnectionRequests add the calls;       *)
(* Accounts composes them.                                                 *)
(*                                                                         *)
(* As in the library a call ARRIVES (session, checks and reads) and then   *)
(* COMMITS (the write, which Better Auth or Google may refuse).  A refused *)
(* call changes nothing and has no step of its own.                        *)
(***************************************************************************)
EXTENDS Naturals, FiniteSets

CONSTANTS
    People,        \* user ids: accounts there are, or that can be created
    FirstAdmins, FirstUsers,   \* the accounts at the start, all signed in
    Recorders,     \* bound: the accounts that record and start to connect
    Clients,       \* Google OAuth clients
    EnvClient,     \* the instance-wide pair GOOGLE_CLIENT_ID/SECRET, or NoOne
    Keys,          \* OAuth states that can be issued
    Slots,         \* calls the web process serves at once
    CookieAge,     \* session cookie cache, in ticks (30 s)
    StateTtl,      \* life of an OAuth state, in ticks (10 min)
    MaxClock,      \* bound: ticks
    MaxEvents,     \* bound: calls and other events in a behaviour
    NoOne          \* no account, no client, no key

ASSUME AccountAssumption ==
    /\ FirstAdmins \subseteq People /\ FirstUsers \subseteq People
    /\ FirstAdmins \cap FirstUsers = {} /\ FirstAdmins # {}
    /\ Recorders \subseteq People
    /\ EnvClient \in Clients \cup {NoOne}
    /\ NoOne \notin People \cup Clients \cup Keys
    /\ CookieAge \in Nat /\ StateTtl \in Nat /\ MaxClock \in Nat /\ MaxEvents \in Nat

VARIABLES
    account,     \* the user table
    sessions,    \* accounts with a row in the session table
    cookie,      \* the session data cookie in each account's browser
    media,       \* accounts owning recordings that hold an object or a video
    client,      \* youtube_oauth_clients: the client each account saved
    connection,  \* youtube_connections
    pending,     \* pendingStates, in the memory of the web process
    calls,       \* the call each slot serves
    clock, events,
    raced,       \* ghost: an active admin went by a call whose checks were stale
    lostRights,  \* ghost: the tick at which an account last stopped being an admin
    orphaned,    \* ghost: accounts deleted with their recordings' media in place
    stagedBeside,  \* ghost: accounts that staged a recording while being deleted
    reconfigured   \* ghost: accounts whose client changed after their connection's callback read it

accountVars == <<account, sessions, cookie, media>>
youtubeVars == <<client, connection, pending>>
adminGhosts == <<raced, lostRights, orphaned, stagedBeside>>
youtubeGhosts == <<reconfigured>>
vars == <<accountVars, youtubeVars, calls, clock, events, adminGhosts, youtubeGhosts>>

NoAccount == [state |-> "none", role |-> "user", banned |-> FALSE]
AccountRow == [state : {"none", "live", "gone"}, role : {"admin", "user"}, banned : BOOLEAN]
NoCookie == [role |-> "none", until |-> 0]
Cookie == [role : {"none", "admin", "user"}, until : Nat]

\* The token says who started the flow it came from, and whose client asked.
NoToken == [starter |-> NoOne, client |-> NoOne]
Token == [starter : People \cup {NoOne}, client : Clients \cup {NoOne}]
NoConnection == [status |-> "none", token |-> NoToken]
Connection == [status : {"none", "CONNECTED", "DISCONNECTED", "REAUTH_REQUIRED"}, token : Token]

NoState == [state |-> "none", user |-> NoOne, client |-> NoOne, until |-> 0]
PendingState == [state : {"none", "live", "gone"}, user : People \cup {NoOne},
                 client : Clients \cup {NoOne}, until : Nat]

Idle == [op |-> "idle", actor |-> NoOne, at |-> NoOne, role |-> "user", cookie |-> NoCookie,
         starter |-> NoOne, client |-> NoOne, grant |-> NoOne, fresh |-> TRUE]
Call == [op : {"idle", "create", "setRole", "ban", "unban", "delete", "callback"},
         actor : People \cup {NoOne}, at : People \cup {NoOne}, role : {"admin", "user"},
         cookie : Cookie, starter : People \cup {NoOne}, client : Clients \cup {NoOne},
         grant : Clients \cup {NoOne}, fresh : BOOLEAN]

Live(a) == account[a].state = "live"
ActiveAdmin(a) == Live(a) /\ account[a].role = "admin" /\ ~account[a].banned
ActiveAdmins == {a \in People : ActiveAdmin(a)}

\* Mutant: the cookie cache never runs out.
RoleByAnyCookie(a, c) ==
    IF c.role # "none" THEN c.role
    ELSE IF a \in sessions THEN account[a].role
    ELSE "none"

\* Whom Better Auth takes a request for: the cached session in its cookie for
\* CookieAge after the sign-in, the session and user rows after that.
RoleBy(a, c) ==
    IF c.role # "none" /\ clock <= c.until THEN c.role
    ELSE IF a \in sessions THEN account[a].role
    ELSE "none"

SignedIn(a) == RoleBy(a, cookie[a]) # "none"

Event == events < MaxEvents /\ events' = events + 1

Arrive(s, call) ==
    /\ calls[s] = Idle
    /\ Event
    /\ calls' = [calls EXCEPT ![s] = call]
    /\ UNCHANGED clock

Ends(s) == calls' = [calls EXCEPT ![s] = Idle] /\ UNCHANGED <<clock, events>>
=============================================================================
