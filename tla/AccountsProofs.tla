--------------------------- MODULE AccountsProofs ---------------------------
(***************************************************************************)
(* What Accounts promises, for any number of people, clients, OAuth        *)
(* states, overlapping calls and ticks.                                    *)
(***************************************************************************)
EXTENDS Accounts, TLAPS

-----------------------------------------------------------------------------
(* Types.                                                                  *)

\* A call in flight is somebody's and about somebody; a callback is about the
\* account that brings it.
CallsNamed ==
    \A s \in Slots :
      calls[s].op # "idle" =>
        /\ calls[s].actor \in People /\ calls[s].at \in People
        /\ calls[s].op = "callback" => calls[s].starter = calls[s].at

TypeInv == TypeOK /\ CallsNamed

LEMMA IdleIsCall == Idle \in Call /\ NoCookie \in Cookie /\ NoConnection \in Connection
                    /\ NoState \in PendingState /\ NoAccount \in AccountRow
  BY DEF Idle, Call, NoCookie, Cookie, NoConnection, Connection, NoToken, Token,
         NoState, PendingState, NoAccount, AccountRow

LEMMA InitType == Init => TypeInv
<1> SUFFICES ASSUME Init PROVE TypeInv
  OBVIOUS
<1>1. account \in [People -> AccountRow]
  BY IdleIsCall DEF Init, AccountRow
<1>2. events \in 0 .. MaxEvents /\ clock \in Nat
  BY AccountAssumption DEF Init
<1>3. TypeOK
  BY <1>1, <1>2, IdleIsCall, AccountAssumption DEF Init, TypeOK
<1>4. CallsNamed
  BY DEF Init, CallsNamed, Idle
<1> QED
  BY <1>3, <1>4 DEF TypeInv

\* A call that arrives brings nothing but itself.
Brings(s, call) ==
    /\ calls' = [calls EXCEPT ![s] = call]
    /\ events' \in 0 .. MaxEvents /\ UNCHANGED clock
    /\ call \in Call /\ call.op # "idle"
    /\ call.actor \in People /\ call.at \in People

LEMMA AdminCallIsTyped ==
    ASSUME TypeInv, NEW u \in People, NEW a \in People, NEW role \in {"admin", "user"},
           NEW op \in {"create", "setRole", "ban", "unban", "delete"}
    PROVE  /\ [AdminCall(op, u, a) EXCEPT !.role = role] \in Call
           /\ AdminCall(op, u, a) \in Call
  BY DEF TypeInv, TypeOK, AdminCall, Call, Idle, NoCookie, Cookie

LEMMA EventCounts ==
    ASSUME TypeInv, Event PROVE events' \in 0 .. MaxEvents
  BY AccountAssumption DEF TypeInv, TypeOK, Event

\* What an administrator's call has checked when it arrives.
Checked(call) ==
    /\ call.op \in {"create", "setRole", "ban", "unban", "delete"}
    /\ call.fresh
    /\ call.op \in {"ban", "delete"} \/ (call.op = "setRole" /\ call.role = "user")
         => NotFinalAdmin(call.at)
    /\ call.op = "delete" => call.at \notin media
    /\ call.cookie = cookie[call.actor]

LEMMA AdminArrivals ==
    ASSUME TypeInv, NEW s \in Slots, NEW u \in People,
           \/ CreateUserArrives(s, u) \/ SetRoleArrives(s, u) \/ BanArrives(s, u)
           \/ UnbanArrives(s, u) \/ DeleteUserArrives(s, u)
    PROVE  /\ \E call \in Call : Brings(s, call) /\ Checked(call)
           /\ UNCHANGED <<accountVars, youtubeVars, adminGhosts, youtubeGhosts>>
<1> USE DEF AdminArrives, Arrive
<1>1. CASE CreateUserArrives(s, u)
  <2>1. PICK a \in People, role \in {"admin", "user"} :
          AdminArrives(s, [AdminCall("create", u, a) EXCEPT !.role = role])
    BY <1>1 DEF CreateUserArrives
  <2> DEFINE call == [AdminCall("create", u, a) EXCEPT !.role = role]
  <2>2. call \in Call
    BY AdminCallIsTyped
  <2>3. Brings(s, call) /\ Checked(call)
    BY <2>1, <2>2, EventCounts DEF Brings, Checked, AdminCall, Idle
  <2> QED
    BY <2>1, <2>2, <2>3 DEF untouched
<1>2. CASE SetRoleArrives(s, u)
  <2>1. PICK a \in People, role \in {"admin", "user"} :
          /\ Live(a)
          /\ account[a].role = "admin" /\ role = "user" => NotFinalAdmin(a)
          /\ AdminArrives(s, [AdminCall("setRole", u, a) EXCEPT !.role = role])
    BY <1>2 DEF SetRoleArrives
  <2> DEFINE call == [AdminCall("setRole", u, a) EXCEPT !.role = role]
  <2>2. call \in Call
    BY AdminCallIsTyped
  <2>3. role = "user" => NotFinalAdmin(a)
    BY <2>1 DEF NotFinalAdmin
  <2>4. Brings(s, call) /\ Checked(call)
    BY <2>1, <2>2, <2>3, EventCounts DEF Brings, Checked, AdminCall, Idle
  <2> QED
    BY <2>1, <2>2, <2>4 DEF untouched
<1>3. CASE BanArrives(s, u)
  <2>1. PICK a \in People : NotFinalAdmin(a) /\ AdminArrives(s, AdminCall("ban", u, a))
    BY <1>3 DEF BanArrives
  <2>2. AdminCall("ban", u, a) \in Call
    BY AdminCallIsTyped
  <2>3. Brings(s, AdminCall("ban", u, a)) /\ Checked(AdminCall("ban", u, a))
    BY <2>1, <2>2, EventCounts DEF Brings, Checked, AdminCall, Idle
  <2> QED
    BY <2>1, <2>2, <2>3 DEF untouched
<1>4. CASE UnbanArrives(s, u)
  <2>1. PICK a \in People : AdminArrives(s, AdminCall("unban", u, a))
    BY <1>4 DEF UnbanArrives
  <2>2. AdminCall("unban", u, a) \in Call
    BY AdminCallIsTyped
  <2>3. Brings(s, AdminCall("unban", u, a)) /\ Checked(AdminCall("unban", u, a))
    BY <2>1, <2>2, EventCounts DEF Brings, Checked, AdminCall, Idle
  <2> QED
    BY <2>1, <2>2, <2>3 DEF untouched
<1>5. CASE DeleteUserArrives(s, u)
  <2>1. PICK a \in People : /\ NotFinalAdmin(a) /\ a \notin media
                            /\ AdminArrives(s, AdminCall("delete", u, a))
    BY <1>5 DEF DeleteUserArrives
  <2>2. AdminCall("delete", u, a) \in Call
    BY AdminCallIsTyped
  <2>3. Brings(s, AdminCall("delete", u, a)) /\ Checked(AdminCall("delete", u, a))
    BY <2>1, <2>2, EventCounts DEF Brings, Checked, AdminCall, Idle
  <2> QED
    BY <2>1, <2>2, <2>3 DEF untouched
<1> QED
  BY <1>1, <1>2, <1>3, <1>4, <1>5

-----------------------------------------------------------------------------
(* What a commit of an administrator's call does to the account it is about. *)

SessionsAreActive == \A a \in sessions : Live(a) /\ ~account[a].banned

Active(row) == row.state = "live" /\ row.role = "admin" /\ ~row.banned

AdminOps == {"create", "setRole", "ban", "unban", "delete"}

Writes(s, row) ==
    LET c == calls[s] IN
    /\ c.op \in AdminOps /\ RequireAdmin(c.actor, c.cookie)
    /\ AccountWritten(s, row)
    /\ row \in AccountRow /\ row.state # "none" /\ account[c.at].state # "gone"
    /\ ActiveAdmin(c.at) /\ ~Active(row) =>
         c.op \in {"ban", "delete"} \/ (c.op = "setRole" /\ c.role = "user")
    /\ sessions' \subseteq sessions
    /\ c.at \in sessions' => row.state = "live" /\ ~row.banned
    /\ orphaned' \subseteq orphaned \cup (IF c.op = "delete" THEN {c.at} \cap media ELSE {})
    /\ \/ client' = client
       \/ client' = [client EXCEPT ![c.at] = NoOne] /\ row.state = "gone"
            /\ connection[c.at] = NoConnection
    /\ UNCHANGED <<cookie, connection, pending, reconfigured>>

LEMMA AdminCommitsWrite ==
    ASSUME TypeInv, SessionsAreActive, NEW s \in Slots,
           \/ CreateUserCommits(s) \/ SetRoleCommits(s) \/ BanCommits(s)
           \/ UnbanCommits(s) \/ DeleteUserCommits(s)
    PROVE  \E row \in AccountRow : Writes(s, row)
<1> DEFINE at == calls[s].at
<1>1. calls[s] \in Call /\ (calls[s].op # "idle" => at \in People)
  BY DEF TypeInv, TypeOK, CallsNamed
<1>2. \A a \in People : account[a] \in AccountRow
  BY DEF TypeInv, TypeOK
<1> USE DEF untouched, youtubeVars, youtubeGhosts, Commit, AdminOps, AccountRow, Live
<1>3. CASE CreateUserCommits(s)
  <2> DEFINE row == [state |-> "live", role |-> calls[s].role, banned |-> FALSE]
  <2>1. row \in AccountRow
    BY <1>1 DEF Call
  <2>2. account[at].state = "none"
    BY <1>3 DEF CreateUserCommits, NoAccount
  <2>3. Writes(s, row)
    BY <1>3, <2>1, <2>2 DEF CreateUserCommits, Writes, ActiveAdmin, SessionsAreActive
  <2> QED
    BY <2>1, <2>3
<1>4. CASE SetRoleCommits(s)
  <2> DEFINE row == [account[at] EXCEPT !.role = calls[s].role]
  <2>1. row \in AccountRow /\ row.state = account[at].state /\ row.banned = account[at].banned
        /\ row.role = calls[s].role
    BY <1>1, <1>2, <1>4 DEF Call, SetRoleCommits
  <2>2. Writes(s, row)
    BY <1>1, <1>4, <2>1 DEF SetRoleCommits, Writes, ActiveAdmin, Active, SessionsAreActive, Call
  <2> QED
    BY <2>1, <2>2
<1>5. CASE BanCommits(s)
  <2> DEFINE row == [account[at] EXCEPT !.banned = TRUE]
  <2>1. row \in AccountRow /\ row.state = account[at].state
    BY <1>1, <1>2, <1>5 DEF BanCommits
  <2>2. Writes(s, row)
    BY <1>1, <1>5, <2>1 DEF BanCommits, Writes
  <2> QED
    BY <2>1, <2>2
<1>6. CASE UnbanCommits(s)
  <2> DEFINE row == [account[at] EXCEPT !.banned = FALSE]
  <2>1. row \in AccountRow /\ row.state = account[at].state /\ row.role = account[at].role /\ ~row.banned
    BY <1>1, <1>2, <1>6 DEF UnbanCommits
  <2>2. Writes(s, row)
    BY <1>1, <1>6, <2>1 DEF UnbanCommits, Writes, ActiveAdmin, Active
  <2> QED
    BY <2>1, <2>2
<1>7. CASE DeleteUserCommits(s)
  <2> DEFINE row == [account[at] EXCEPT !.state = "gone"]
  <2>1. row \in AccountRow /\ row.state = "gone"
    BY <1>1, <1>2, <1>7 DEF DeleteUserCommits
  <2>2. Writes(s, row)
    BY <1>1, <1>7, <2>1 DEF DeleteUserCommits, Writes
  <2> QED
    BY <2>1, <2>2
<1> QED
  BY <1>3, <1>4, <1>5, <1>6, <1>7

\* What the callback of an OAuth flow brings when it arrives.
LEMMA CallbackArrivals ==
    ASSUME TypeInv, NEW s \in Slots, NEW a \in People, CallbackArrives(s, a)
    PROVE  /\ UNCHANGED <<accountVars, adminGhosts, client, connection, reconfigured>>
           /\ pending' \in [Keys -> PendingState]
           /\ \/ UNCHANGED <<calls, clock>> /\ events' \in 0 .. MaxEvents
              \/ \E call \in Call :
                   /\ Brings(s, call)
                   /\ call.op = "callback" /\ call.actor = a /\ call.at = a /\ call.starter = a
                   /\ call.client = ResolveClientConfig(a) /\ call.cookie = NoCookie
<1>1. PICK k \in Keys :
        /\ PendingFor(k, a)
        /\ pending' = [pending EXCEPT ![k] = [NoState EXCEPT !.state = "gone"]]
        /\ IF ResolveClientConfig(a) # NoOne
           THEN Arrive(s, CallbackCall(a, k))
           ELSE calls[s] = Idle /\ Event /\ UNCHANGED <<calls, clock>>
        /\ UNCHANGED <<client, connection, reconfigured>> /\ peopleUntouched
  BY DEF CallbackArrives
<1>2. pending' \in [Keys -> PendingState]
  BY <1>1 DEF TypeInv, TypeOK, NoState, PendingState
<1>3. ResolveClientConfig(a) \in Clients \cup {NoOne}
  BY AccountAssumption DEF TypeInv, TypeOK, ResolveClientConfig
<1>4. pending[k] \in PendingState /\ pending[k].user = a
  BY <1>1 DEF TypeInv, TypeOK, PendingFor
<1>5. CallbackCall(a, k) \in Call
  BY <1>3, <1>4, IdleIsCall DEF CallbackCall, Call, Idle, PendingState
<1>6. CASE ResolveClientConfig(a) # NoOne
  <2>1. Arrive(s, CallbackCall(a, k))
    BY <1>1, <1>6
  <2>2. Brings(s, CallbackCall(a, k))
    BY <2>1, <1>5, EventCounts DEF Brings, Arrive, CallbackCall, Idle
  <2>3. /\ CallbackCall(a, k).op = "callback" /\ CallbackCall(a, k).actor = a
        /\ CallbackCall(a, k).at = a /\ CallbackCall(a, k).starter = a
        /\ CallbackCall(a, k).client = ResolveClientConfig(a)
        /\ CallbackCall(a, k).cookie = NoCookie
    BY <1>4 DEF CallbackCall, Idle
  <2> QED
    BY <1>1, <1>2, <1>5, <2>2, <2>3 DEF peopleUntouched
<1>7. CASE ResolveClientConfig(a) = NoOne
  BY <1>1, <1>2, <1>7, EventCounts DEF peopleUntouched
<1> QED
  BY <1>6, <1>7

-----------------------------------------------------------------------------
(* The invariant the others rest on: types, named calls, and that only      *)
(* accounts which are neither banned nor gone have a session.               *)

BaseInv == TypeInv /\ SessionsAreActive

LEMMA InitBase == Init => BaseInv
<1> SUFFICES ASSUME Init PROVE BaseInv
  OBVIOUS
<1>1. SessionsAreActive
  BY AccountAssumption DEF Init, SessionsAreActive, Live
<1> QED
  BY <1>1, InitType DEF BaseInv

LEMMA BringsBase ==
    ASSUME BaseInv, NEW s \in Slots, NEW call \in Call, Brings(s, call),
           call.op = "callback" => call.starter = call.at,
           UNCHANGED <<accountVars, adminGhosts, client, connection, reconfigured>>,
           pending' \in [Keys -> PendingState]
    PROVE  BaseInv'
<1> USE DEF BaseInv, TypeInv, accountVars, adminGhosts
<1>1. calls' \in [Slots -> Call]
  BY DEF TypeOK, Brings
<1>2. TypeOK'
  BY <1>1 DEF TypeOK, Brings
<1>3. CallsNamed'
  BY DEF TypeOK, CallsNamed, Brings
<1>4. SessionsAreActive'
  BY DEF SessionsAreActive, Live
<1> QED
  BY <1>2, <1>3, <1>4

LEMMA WritesBase ==
    ASSUME BaseInv, NEW s \in Slots, NEW row \in AccountRow, Writes(s, row)
    PROVE  BaseInv'
<1> USE DEF BaseInv, TypeInv
<1>1. calls[s].at \in People /\ calls[s] \in Call
  BY DEF TypeOK, CallsNamed, Writes, AdminOps
<1>2. calls' \in [Slots -> Call]
  <2>1. \A x \in Slots : calls[x] \in Call /\ [calls[x] EXCEPT !.fresh = FALSE] \in Call
    BY DEF TypeOK, Call
  <2> QED
    BY <2>1, IdleIsCall DEF Writes, AccountWritten
<1>3. /\ account' \in [People -> AccountRow] /\ lostRights' \in [People -> Nat]
      /\ client' \in [People -> Clients \cup {NoOne}] /\ raced' \in BOOLEAN
      /\ orphaned' \subseteq People
  BY <1>1 DEF TypeOK, Writes, AccountWritten
<1>4. TypeOK'
  BY <1>2, <1>3 DEF TypeOK, Writes, AccountWritten
<1>5. CallsNamed'
  BY DEF TypeOK, CallsNamed, Writes, AccountWritten, Idle
<1>6. SessionsAreActive'
  BY <1>1 DEF TypeOK, SessionsAreActive, Live, Writes, AccountWritten
<1> QED
  BY <1>4, <1>5, <1>6

\* The steps of Next that are neither an administrator's call nor a callback
\* arriving.
Others ==
    \/ \E s \in Slots : AdminCallFails(s) \/ CallbackCommits(s) \/ CallbackFails(s)
    \/ \E a \in People : SignIn(a) \/ SignOut(a)
    \/ \E a \in People :
         \/ RecordingStaged(a) \/ RecordingsCleaned(a)
         \/ SaveClientConfig(a) \/ ClearClientConfig(a)
         \/ CreateConnectUrl(a) \/ Disconnect(a)
    \/ Tick \/ WorkerMarksReauth \/ WebRestarts
    \/ UNCHANGED vars

\* Every step brings a call, writes an account, or is one of the others.
LEMMA Steps ==
    ASSUME BaseInv, [Next]_vars
    PROVE  \/ \E s \in Slots, call \in Call :
                /\ Brings(s, call) /\ Checked(call)
                /\ UNCHANGED <<accountVars, youtubeVars, adminGhosts, youtubeGhosts>>
           \/ \E s \in Slots, a \in People : calls[s] = Idle /\ CallbackArrives(s, a)
           \/ \E s \in Slots : \E row \in AccountRow : Writes(s, row)
           \/ Others
<1>1. CASE \E s \in Slots : Commits(s)
  <2>1. PICK s \in Slots : Commits(s)
    BY <1>1
  <2>2. CASE AdminCallFails(s) \/ CallbackCommits(s) \/ CallbackFails(s)
    BY <2>2 DEF Others
  <2>3. CASE \/ CreateUserCommits(s) \/ SetRoleCommits(s) \/ BanCommits(s)
             \/ UnbanCommits(s) \/ DeleteUserCommits(s)
    BY <2>3, AdminCommitsWrite DEF BaseInv
  <2> QED
    BY <2>1, <2>2, <2>3 DEF Commits
<1>2. CASE \E s \in Slots, a \in People : calls[s] = Idle /\ Arrives(s, a)
  <2>1. PICK s \in Slots, a \in People : calls[s] = Idle /\ Arrives(s, a)
    BY <1>2
  <2>2. CASE CallbackArrives(s, a)
    BY <2>1, <2>2
  <2>3. CASE \/ CreateUserArrives(s, a) \/ SetRoleArrives(s, a) \/ BanArrives(s, a)
             \/ UnbanArrives(s, a) \/ DeleteUserArrives(s, a)
    BY <2>3, AdminArrivals DEF BaseInv
  <2> QED
    BY <2>1, <2>2, <2>3 DEF Arrives
<1>3. CASE \E a \in People : Does(a)
  BY <1>3 DEF Does, Others
<1>4. CASE \E a \in Recorders : Records(a)
  BY <1>4, AccountAssumption DEF Records, Others
<1>5. CASE Tick \/ WorkerMarksReauth \/ WebRestarts \/ UNCHANGED vars
  BY <1>5 DEF Others
<1> QED
  BY <1>1, <1>2, <1>3, <1>4, <1>5 DEF Next

LEMMA OthersBase == ASSUME BaseInv, Others PROVE BaseInv'
<1> USE DEF BaseInv, TypeInv, accountVars, youtubeVars, adminGhosts, youtubeGhosts,
            untouched, peopleUntouched
<1>1. ASSUME NEW s \in Slots, AdminCallFails(s) \/ CallbackFails(s) PROVE BaseInv'
  <2>1. TypeOK'
    BY <1>1, IdleIsCall DEF TypeOK, AdminCallFails, CallbackFails, Ends
  <2>2. CallsNamed' /\ SessionsAreActive'
    BY <1>1 DEF TypeOK, CallsNamed, SessionsAreActive, Live, AdminCallFails, CallbackFails, Ends, Idle
  <2> QED
    BY <2>1, <2>2
<1>2. ASSUME NEW s \in Slots, CallbackCommits(s) PROVE BaseInv'
  <2>1. [status |-> "CONNECTED", token |-> [starter |-> calls[s].starter, client |-> calls[s].client]]
          \in Connection
    BY DEF TypeOK, Call, Connection, Token
  <2>2. TypeOK'
    BY <1>2, <2>1, IdleIsCall DEF TypeOK, CallsNamed, CallbackCommits, Ends
  <2>3. CallsNamed' /\ SessionsAreActive'
    BY <1>2 DEF TypeOK, CallsNamed, SessionsAreActive, Live, CallbackCommits, Ends, Idle
  <2> QED
    BY <2>2, <2>3
<1>3. ASSUME NEW a \in People, SignIn(a) \/ SignOut(a) PROVE BaseInv'
  <2>1. account[a] \in AccountRow /\ clock + CookieAge \in Nat
    BY AccountAssumption DEF TypeOK
  <2>2. cookie' \in [People -> Cookie]
    BY <1>3, <2>1, IdleIsCall DEF TypeOK, SignIn, SignOut, Cookie, AccountRow
  <2>3. TypeOK'
    BY <1>3, <2>2, EventCounts DEF TypeOK, SignIn, SignOut
  <2>4. CallsNamed' /\ SessionsAreActive'
    BY <1>3 DEF CallsNamed, SessionsAreActive, Live, SignIn, SignOut
  <2> QED
    BY <2>3, <2>4
<1>4. ASSUME NEW a \in People, RecordingStaged(a) \/ RecordingsCleaned(a) PROVE BaseInv'
  <2>1. TypeOK'
    BY <1>4, EventCounts DEF TypeOK, RecordingStaged, RecordingsCleaned
  <2>2. CallsNamed' /\ SessionsAreActive'
    BY <1>4 DEF CallsNamed, SessionsAreActive, Live, RecordingStaged, RecordingsCleaned
  <2> QED
    BY <2>1, <2>2
<1>5. ASSUME NEW a \in People, SaveClientConfig(a) \/ ClearClientConfig(a) PROVE BaseInv'
  <2> DEFINE Stale(call) == [call EXCEPT !.fresh = FALSE]
  <2>a. calls' = [s \in Slots |-> IF calls[s].op = "callback" /\ calls[s].at = a
                                  THEN Stale(calls[s]) ELSE calls[s]]
    BY <1>5 DEF SaveClientConfig, ClearClientConfig, ClientChanged
  <2>b. \A call \in Call : /\ Stale(call) \in Call /\ Stale(call).op = call.op
                            /\ Stale(call).actor = call.actor /\ Stale(call).at = call.at
                            /\ Stale(call).starter = call.starter
    BY DEF Call
  <2> HIDE DEF Stale
  <2>1. calls' \in [Slots -> Call]
    BY <2>a, <2>b DEF TypeOK
  <2>2. client' \in [People -> Clients \cup {NoOne}]
    BY <1>5 DEF TypeOK, SaveClientConfig, ClearClientConfig
  <2>3. TypeOK'
    BY <1>5, <2>1, <2>2, EventCounts DEF TypeOK, SaveClientConfig, ClearClientConfig, ClientChanged
  <2>4. CallsNamed'
    BY <2>a, <2>b DEF TypeOK, CallsNamed
  <2>5. SessionsAreActive'
    BY <1>5 DEF SessionsAreActive, Live, SaveClientConfig, ClearClientConfig, ClientChanged
  <2> QED
    BY <2>3, <2>4, <2>5
<1>6. ASSUME NEW a \in People, CreateConnectUrl(a) PROVE BaseInv'
  <2>1. PICK k \in Keys : pending' = Pruned([pending EXCEPT ![k] =
              [state |-> "live", user |-> a, client |-> ResolveClientConfig(a), until |-> clock + StateTtl]])
    BY <1>6 DEF CreateConnectUrl
  <2>2. ResolveClientConfig(a) \in Clients \cup {NoOne} /\ clock + StateTtl \in Nat
    BY AccountAssumption DEF TypeOK, ResolveClientConfig
  <2>3. [pending EXCEPT ![k] = [state |-> "live", user |-> a, client |-> ResolveClientConfig(a),
                                until |-> clock + StateTtl]] \in [Keys -> PendingState]
    BY <2>2 DEF TypeOK, PendingState
  <2>4. pending' \in [Keys -> PendingState]
    BY <2>1, <2>3, IdleIsCall DEF Pruned, NoState, PendingState
  <2>5. TypeOK'
    BY <1>6, <2>4, EventCounts DEF TypeOK, CreateConnectUrl
  <2>6. CallsNamed' /\ SessionsAreActive'
    BY <1>6 DEF CallsNamed, SessionsAreActive, Live, CreateConnectUrl
  <2> QED
    BY <2>5, <2>6
<1>7. ASSUME NEW a \in People, Disconnect(a) PROVE BaseInv'
  <2>1. [status |-> "DISCONNECTED", token |-> NoToken] \in Connection
    BY DEF Connection, NoToken, Token
  <2>2. TypeOK'
    BY <1>7, <2>1, EventCounts DEF TypeOK, Disconnect
  <2>3. CallsNamed' /\ SessionsAreActive'
    BY <1>7 DEF CallsNamed, SessionsAreActive, Live, Disconnect
  <2> QED
    BY <2>2, <2>3
<1>8. ASSUME Tick PROVE BaseInv'
  <2>1. TypeOK'
    BY <1>8 DEF TypeOK, Tick
  <2>2. CallsNamed' /\ SessionsAreActive'
    BY <1>8 DEF CallsNamed, SessionsAreActive, Live, Tick
  <2> QED
    BY <2>1, <2>2
<1>9. ASSUME WorkerMarksReauth PROVE BaseInv'
  <2>1. connection' \in [People -> Connection]
    BY <1>9, IdleIsCall DEF TypeOK, WorkerMarksReauth, Connection
  <2>2. TypeOK'
    BY <1>9, <2>1, EventCounts DEF TypeOK, WorkerMarksReauth
  <2>3. CallsNamed' /\ SessionsAreActive'
    BY <1>9 DEF CallsNamed, SessionsAreActive, Live, WorkerMarksReauth
  <2> QED
    BY <2>2, <2>3
<1>10. ASSUME WebRestarts PROVE BaseInv'
  <2>1. calls' \in [Slots -> Call] /\ pending' \in [Keys -> PendingState]
    BY <1>10, IdleIsCall DEF TypeOK, WebRestarts, NoState, PendingState
  <2>2. TypeOK'
    BY <1>10, <2>1, EventCounts DEF TypeOK, WebRestarts
  <2>3. CallsNamed' /\ SessionsAreActive'
    BY <1>10 DEF CallsNamed, SessionsAreActive, Live, WebRestarts, Idle
  <2> QED
    BY <2>2, <2>3
<1>11. CASE UNCHANGED vars
  BY <1>11 DEF vars, TypeOK, CallsNamed, SessionsAreActive, Live
<1> QED
  BY <1>1, <1>2, <1>3, <1>4, <1>5, <1>6, <1>7, <1>8, <1>9, <1>10, <1>11 DEF Others

LEMMA BaseStep == ASSUME BaseInv, [Next]_vars PROVE BaseInv'
<1>1. ASSUME NEW s \in Slots, NEW call \in Call, Brings(s, call), Checked(call),
             UNCHANGED <<accountVars, youtubeVars, adminGhosts, youtubeGhosts>>
      PROVE  BaseInv'
  <2>1. call.op # "callback"
    BY <1>1 DEF Checked
  <2> QED
    BY <1>1, <2>1, BringsBase DEF youtubeVars, youtubeGhosts, BaseInv, TypeInv, TypeOK
<1>2. ASSUME NEW s \in Slots, NEW a \in People, CallbackArrives(s, a) PROVE BaseInv'
  <2>1. CASE UNCHANGED <<calls, clock>> /\ events' \in 0 .. MaxEvents
    BY <1>2, <2>1, CallbackArrivals
       DEF BaseInv, TypeInv, TypeOK, CallsNamed, SessionsAreActive, Live, accountVars, adminGhosts
  <2>2. CASE \E call \in Call : Brings(s, call) /\ call.starter = a /\ call.at = a
    BY <1>2, <2>2, CallbackArrivals, BringsBase DEF BaseInv
  <2> QED
    BY <1>2, <2>1, <2>2, CallbackArrivals DEF BaseInv
<1> QED
  BY <1>1, <1>2, Steps, WritesBase, OthersBase

\* Accounts, sessions, connections and calls in flight keep their types.
THEOREM AccountsTypeCorrect == Spec => []TypeOK
<1>1. BaseInv => TypeOK
  BY DEF BaseInv, TypeInv
<1> QED
  BY <1>1, InitBase, BaseStep, PTL DEF Spec

-----------------------------------------------------------------------------
(* At least one administrator.                                              *)

Overtaken(call) == [call EXCEPT !.fresh = FALSE]

\* The other steps change no account; they end calls, or mark a callback as
\* overtaken.
LEMMA OthersCalls ==
    ASSUME BaseInv, Others
    PROVE  /\ UNCHANGED <<account, raced>>
           /\ \A x \in Slots : \/ calls'[x] = calls[x]
                               \/ calls'[x] = Idle
                               \/ calls[x].op = "callback" /\ calls'[x] = Overtaken(calls[x])
<1> USE DEF BaseInv, TypeInv, TypeOK, accountVars, adminGhosts, peopleUntouched, Overtaken
<1>1. ASSUME NEW s \in Slots, AdminCallFails(s) \/ CallbackCommits(s) \/ CallbackFails(s)
      PROVE  calls' = [calls EXCEPT ![s] = Idle] /\ UNCHANGED <<account, raced>>
  BY <1>1 DEF AdminCallFails, CallbackCommits, CallbackFails, Ends
<1>2. ASSUME NEW a \in People, SaveClientConfig(a) \/ ClearClientConfig(a)
      PROVE  /\ calls' = [s \in Slots |-> IF calls[s].op = "callback" /\ calls[s].at = a
                                          THEN Overtaken(calls[s]) ELSE calls[s]]
             /\ UNCHANGED <<account, raced>>
  BY <1>2 DEF SaveClientConfig, ClearClientConfig, ClientChanged
<1>3. ASSUME NEW a \in People,
             \/ SignIn(a) \/ SignOut(a) \/ RecordingStaged(a) \/ RecordingsCleaned(a)
             \/ CreateConnectUrl(a) \/ Disconnect(a)
      PROVE  UNCHANGED <<calls, account, raced>>
  BY <1>3 DEF SignIn, SignOut, RecordingStaged, RecordingsCleaned, CreateConnectUrl, Disconnect
<1>4. ASSUME Tick \/ WorkerMarksReauth \/ UNCHANGED vars
      PROVE  UNCHANGED <<calls, account, raced>>
  BY <1>4 DEF Tick, WorkerMarksReauth, vars
<1>5. ASSUME WebRestarts
      PROVE  calls' = [s \in Slots |-> Idle] /\ UNCHANGED <<account, raced>>
  BY <1>5 DEF WebRestarts
<1> QED
  BY <1>1, <1>2, <1>3, <1>4, <1>5 DEF Others

\* What a call can take away, it was allowed to, unless another call has
\* written an account since.
Removes(call) ==
    call.op \in {"ban", "delete"} \/ (call.op = "setRole" /\ call.role = "user")
ChecksHold == \A s \in Slots : calls[s].fresh /\ Removes(calls[s]) => NotFinalAdmin(calls[s].at)

AdminInv == BaseInv /\ ChecksHold /\ AdminsRemain

LEMMA InitAdmin == Init => AdminInv
<1> SUFFICES ASSUME Init PROVE AdminInv
  OBVIOUS
<1>1. ChecksHold
  BY DEF Init, ChecksHold, Removes, Idle
<1>2. PICK a \in FirstAdmins : a \in People
  BY AccountAssumption
<1>3. ActiveAdmin(a)
  BY <1>2 DEF Init, ActiveAdmin, Live
<1>4. AdminsRemain
  BY <1>2, <1>3 DEF AdminsRemain, ActiveAdmins
<1> QED
  BY <1>1, <1>4, InitBase DEF AdminInv

\* Only the account a call is about changes, and it was not the last.
LEMMA WritesAdmin ==
    ASSUME AdminInv, NEW s \in Slots, NEW row \in AccountRow, Writes(s, row)
    PROVE  ChecksHold' /\ AdminsRemain'
<1> DEFINE at == calls[s].at
<1>1. at \in People /\ account \in [People -> AccountRow]
  BY DEF AdminInv, BaseInv, TypeInv, TypeOK, CallsNamed, Writes, AdminOps
<1>2. account' = [account EXCEPT ![at] = row]
  BY DEF Writes, AccountWritten
<1>3. \A x \in Slots : calls'[x].op \in AdminOps => ~calls'[x].fresh
  <2> SUFFICES ASSUME NEW x \in Slots, calls'[x].op \in AdminOps PROVE ~calls'[x].fresh
    OBVIOUS
  <2>1. calls[x] \in Call
    BY DEF AdminInv, BaseInv, TypeInv, TypeOK
  <2>2. CASE calls[x].op \notin {"idle", "callback"} /\ x # s
    BY <2>1, <2>2 DEF Writes, AccountWritten, Call
  <2>3. CASE calls[x].op \in {"idle", "callback"} \/ x = s
    BY <2>3 DEF Writes, AccountWritten, AdminOps, Idle
  <2> QED
    BY <2>2, <2>3
<1>4. ChecksHold'
  BY <1>3 DEF ChecksHold, Removes, AdminOps
<1>5. AdminsRemain'
  <2>1. CASE raced
    BY <2>1 DEF AdminsRemain, Writes, AccountWritten
  <2>2. CASE ~raced /\ ActiveAdmin(at) /\ ~Active(row)
    <3>1. CASE ~calls[s].fresh
      BY <2>2, <3>1 DEF AdminsRemain, Writes, AccountWritten, Active
    <3>2. CASE calls[s].fresh
      <4>1. NotFinalAdmin(at)
        BY <2>2, <3>2 DEF AdminInv, ChecksHold, Removes, Writes
      <4>2. PICK b \in ActiveAdmins : b # at
        BY <2>2, <4>1 DEF NotFinalAdmin, ActiveAdmin
      <4>3. b \in ActiveAdmins'
        BY <1>1, <1>2, <4>2 DEF ActiveAdmins, ActiveAdmin, Live
      <4> QED
        BY <4>3 DEF AdminsRemain
    <3> QED
      BY <3>1, <3>2
  <2>3. CASE ~raced /\ (~ActiveAdmin(at) \/ Active(row))
    <3>1. PICK b \in ActiveAdmins : TRUE
      BY <2>3 DEF AdminInv, AdminsRemain
    <3>2. b \in ActiveAdmins'
      BY <1>1, <1>2, <2>3, <3>1 DEF ActiveAdmins, ActiveAdmin, Active, Live
    <3> QED
      BY <3>2 DEF AdminsRemain
  <2> QED
    BY <2>1, <2>2, <2>3
<1> QED
  BY <1>4, <1>5

LEMMA AdminStep == ASSUME AdminInv, [Next]_vars PROVE AdminInv'
<1> USE DEF AdminInv
<1>1. BaseInv'
  BY BaseStep
<1>2. ASSUME UNCHANGED <<account, raced>>,
             \A x \in Slots : \/ calls'[x] = calls[x]
                              \/ calls'[x].fresh /\ Removes(calls'[x]) => NotFinalAdmin(calls'[x].at)
      PROVE  AdminInv'
  <2>1. ActiveAdmins' = ActiveAdmins /\ \A a : NotFinalAdmin(a)' <=> NotFinalAdmin(a)
    BY <1>2 DEF ActiveAdmins, ActiveAdmin, Live, NotFinalAdmin
  <2>2. ChecksHold'
    BY <1>2, <2>1 DEF ChecksHold, Removes, NotFinalAdmin, ActiveAdmins, ActiveAdmin, Live
  <2>3. AdminsRemain'
    BY <1>2, <2>1 DEF AdminsRemain
  <2> QED
    BY <1>1, <2>2, <2>3
<1>3. ASSUME NEW s \in Slots, NEW call \in Call, Brings(s, call), Checked(call),
             UNCHANGED <<accountVars, youtubeVars, adminGhosts, youtubeGhosts>>
      PROVE  AdminInv'
  <2>1. \A x \in Slots : calls'[x] = calls[x] \/ calls'[x] = call
    BY <1>3 DEF Brings, BaseInv, TypeInv, TypeOK
  <2>2. Removes(call) => NotFinalAdmin(call.at)
    BY <1>3 DEF Checked, Removes
  <2> QED
    BY <1>2, <1>3, <2>1, <2>2 DEF accountVars, adminGhosts
<1>4. ASSUME NEW s \in Slots, NEW a \in People, CallbackArrives(s, a) PROVE AdminInv'
  <2>1. UNCHANGED <<account, raced>>
    BY <1>4, CallbackArrivals DEF BaseInv, accountVars, adminGhosts
  <2>2. \A x \in Slots : calls'[x] = calls[x] \/ calls'[x].op = "callback"
    BY <1>4, CallbackArrivals DEF Brings, BaseInv, TypeInv, TypeOK
  <2> QED
    BY <1>2, <2>1, <2>2 DEF Removes
<1>5. ASSUME NEW s \in Slots, NEW row \in AccountRow, Writes(s, row) PROVE AdminInv'
  BY <1>1, <1>5, WritesAdmin
<1>6. ASSUME Others PROVE AdminInv'
  <2>1. \A x \in Slots : \/ calls'[x] = calls[x]
                         \/ ~(calls'[x].fresh /\ Removes(calls'[x]))
    <3> SUFFICES ASSUME NEW x \in Slots, calls'[x] # calls[x]
                 PROVE  ~(calls'[x].fresh /\ Removes(calls'[x]))
      OBVIOUS
    <3>1. CASE calls'[x] = Idle
      BY <3>1 DEF Idle, Removes
    <3>2. CASE calls[x].op = "callback" /\ calls'[x] = Overtaken(calls[x])
      BY <3>2 DEF Overtaken, BaseInv, TypeInv, TypeOK, Call
    <3> QED
      BY <1>6, <3>1, <3>2, OthersCalls
  <2> QED
    BY <1>2, <1>6, <2>1, OthersCalls
<1> QED
  BY <1>3, <1>4, <1>5, <1>6, Steps

\* An active administrator is left by any number of calls, of any number of
\* administrators, unless one took rights away on checks another overtook.
THEOREM AnAdminRemains == Spec => []AdminsRemain
<1>1. AdminInv => AdminsRemain
  BY DEF AdminInv
<1> QED
  BY <1>1, InitAdmin, AdminStep, PTL DEF Spec

-----------------------------------------------------------------------------
(* Roles in cookies.                                                        *)

\* A cookie that says "admin" is right, or it runs out within CookieAge of
\* the moment its account stopped being one.
Believed(a, c) ==
    c.role = "admin" =>
      /\ c.until <= clock + CookieAge
      /\ ActiveAdmin(a) \/ c.until <= lostRights[a] + CookieAge

CookiesExpire ==
    /\ \A a \in People : Believed(a, cookie[a])
    /\ \A s \in Slots : calls[s].op \in AdminOps => Believed(calls[s].actor, calls[s].cookie)

RoleInv == BaseInv /\ CookiesExpire

LEMMA InitRole == Init => RoleInv
<1> SUFFICES ASSUME Init PROVE RoleInv
  OBVIOUS
<1>1. CookiesExpire
  BY DEF Init, CookiesExpire, Believed, NoCookie, Idle, AdminOps
<1> QED
  BY <1>1, InitBase DEF RoleInv

LEMMA BeliefsStay ==
    ASSUME BaseInv, NEW s \in Slots, NEW row \in AccountRow, Writes(s, row),
           NEW a \in People, NEW c \in Cookie, Believed(a, c)
    PROVE  c.role = "admin" =>
             /\ c.until <= clock' + CookieAge
             /\ ActiveAdmin(a)' \/ c.until <= lostRights'[a] + CookieAge
<1> DEFINE at == calls[s].at
<1>1. at \in People /\ account \in [People -> AccountRow] /\ lostRights \in [People -> Nat]
  BY DEF BaseInv, TypeInv, TypeOK, CallsNamed, Writes, AdminOps
<1>2. /\ account' = [account EXCEPT ![at] = row] /\ clock' = clock
      /\ lostRights' = IF ActiveAdmin(at) /\ ~Active(row)
                       THEN [lostRights EXCEPT ![at] = clock] ELSE lostRights
  BY DEF Writes, AccountWritten, Active
<1>3. CASE a # at
  BY <1>1, <1>2, <1>3 DEF Believed, ActiveAdmin, Live
<1>4. CASE a = at /\ Active(row)
  BY <1>1, <1>2, <1>4 DEF Believed, ActiveAdmin, Live, Active
<1>5. CASE a = at /\ ~Active(row)
  BY <1>1, <1>2, <1>5 DEF Believed
<1> QED
  BY <1>3, <1>4, <1>5

\* The other steps change no account, and sign in whoever they find active.
LEMMA OthersBelieve ==
    ASSUME BaseInv, Others
    PROVE  /\ UNCHANGED <<account, lostRights>> /\ clock' \in Nat /\ clock <= clock'
           /\ \A a \in People :
                \/ cookie'[a] = cookie[a] \/ cookie'[a] = NoCookie
                \/ /\ Live(a) /\ ~account[a].banned
                   /\ cookie'[a] = [role |-> account[a].role, until |-> clock + CookieAge]
<1> USE DEF BaseInv, TypeInv, TypeOK, accountVars, adminGhosts, peopleUntouched
<1>1. ASSUME NEW s \in Slots, AdminCallFails(s) \/ CallbackCommits(s) \/ CallbackFails(s)
      PROVE  UNCHANGED <<account, lostRights, clock, cookie>>
  BY <1>1 DEF AdminCallFails, CallbackCommits, CallbackFails, Ends
<1>2. ASSUME NEW a \in People, SignIn(a)
      PROVE  /\ UNCHANGED <<account, lostRights, clock>> /\ Live(a) /\ ~account[a].banned
             /\ cookie' = [cookie EXCEPT ![a] = [role |-> account[a].role, until |-> clock + CookieAge]]
  BY <1>2 DEF SignIn
<1>3. ASSUME NEW a \in People, SignOut(a)
      PROVE  UNCHANGED <<account, lostRights, clock>> /\ cookie' = [cookie EXCEPT ![a] = NoCookie]
  BY <1>3 DEF SignOut
<1>4. ASSUME NEW a \in People,
             \/ SaveClientConfig(a) \/ ClearClientConfig(a) \/ RecordingStaged(a)
             \/ RecordingsCleaned(a) \/ CreateConnectUrl(a) \/ Disconnect(a)
      PROVE  UNCHANGED <<account, lostRights, clock, cookie>>
  BY <1>4 DEF SaveClientConfig, ClearClientConfig, ClientChanged, RecordingStaged, RecordingsCleaned,
              CreateConnectUrl, Disconnect
<1>5. ASSUME Tick
      PROVE  UNCHANGED <<account, lostRights, cookie>> /\ clock' = clock + 1
  BY <1>5 DEF Tick
<1>6. ASSUME WorkerMarksReauth \/ WebRestarts \/ UNCHANGED vars
      PROVE  UNCHANGED <<account, lostRights, clock, cookie>>
  BY <1>6 DEF WorkerMarksReauth, WebRestarts, vars
<1> QED
  BY <1>1, <1>2, <1>3, <1>4, <1>5, <1>6 DEF Others

LEMMA RoleStep == ASSUME RoleInv, [Next]_vars PROVE RoleInv'
<1> USE DEF RoleInv
<1>1. BaseInv'
  BY BaseStep
<1>2. ASSUME NEW s \in Slots, NEW call \in Call, Brings(s, call), Checked(call),
             UNCHANGED <<accountVars, youtubeVars, adminGhosts, youtubeGhosts>>
      PROVE  CookiesExpire'
  <2>1. /\ \A x \in Slots : calls'[x] = calls[x] \/ calls'[x] = call
        /\ call.cookie = cookie[call.actor] /\ call.actor \in People
        /\ UNCHANGED <<account, cookie, lostRights, clock>>
    BY <1>2 DEF Brings, Checked, BaseInv, TypeInv, TypeOK, accountVars, adminGhosts
  <2> QED
    BY <2>1 DEF CookiesExpire, Believed, ActiveAdmin, Live
<1>3. ASSUME NEW s \in Slots, NEW a \in People, CallbackArrives(s, a) PROVE CookiesExpire'
  <2>1. /\ \A x \in Slots : calls'[x] = calls[x] \/ calls'[x].op = "callback"
        /\ UNCHANGED <<account, cookie, lostRights, clock>>
    BY <1>3, CallbackArrivals DEF Brings, BaseInv, TypeInv, TypeOK, accountVars, adminGhosts
  <2> QED
    BY <2>1 DEF CookiesExpire, Believed, ActiveAdmin, Live, AdminOps
<1>4. ASSUME NEW s \in Slots, NEW row \in AccountRow, Writes(s, row) PROVE CookiesExpire'
  <2>1. cookie' = cookie /\ cookie \in [People -> Cookie]
    BY <1>4 DEF Writes, BaseInv, TypeInv, TypeOK
  <2>2. \A x \in Slots : calls'[x].op \in AdminOps =>
          /\ calls[x].op \in AdminOps /\ calls[x].actor \in People /\ calls[x].cookie \in Cookie
          /\ calls'[x].actor = calls[x].actor /\ calls'[x].cookie = calls[x].cookie
    <3> SUFFICES ASSUME NEW x \in Slots, calls'[x].op \in AdminOps
                 PROVE /\ calls[x].op \in AdminOps /\ calls[x].actor \in People
                       /\ calls[x].cookie \in Cookie
                       /\ calls'[x].actor = calls[x].actor /\ calls'[x].cookie = calls[x].cookie
      OBVIOUS
    <3>1. calls[x] \in Call /\ calls'[x] # Idle
      BY DEF BaseInv, TypeInv, TypeOK, Idle, AdminOps
    <3>2. calls'[x] = calls[x] \/ calls'[x] = [calls[x] EXCEPT !.fresh = FALSE]
      BY <1>4, <3>1 DEF Writes, AccountWritten
    <3>3. /\ calls'[x].op = calls[x].op /\ calls'[x].actor = calls[x].actor
          /\ calls'[x].cookie = calls[x].cookie
      BY <3>1, <3>2 DEF Call
    <3> QED
      BY <3>1, <3>3 DEF BaseInv, TypeInv, CallsNamed, Call, AdminOps
  <2>3. \A a \in People, c \in Cookie : Believed(a, c) =>
          (c.role = "admin" =>
             /\ c.until <= clock' + CookieAge
             /\ ActiveAdmin(a)' \/ c.until <= lostRights'[a] + CookieAge)
    BY <1>4, BeliefsStay
  <2> QED
    BY <2>1, <2>2, <2>3 DEF CookiesExpire, Believed
<1>5. ASSUME Others PROVE CookiesExpire'
  <2>1. /\ UNCHANGED <<account, lostRights>> /\ clock' \in Nat /\ clock <= clock' /\ clock \in Nat
        /\ CookieAge \in Nat /\ cookie \in [People -> Cookie]
    BY <1>5, OthersBelieve, AccountAssumption DEF BaseInv, TypeInv, TypeOK
  <2>2. \A a \in People, c \in Cookie : Believed(a, c) => Believed(a, c)'
    BY <2>1 DEF Believed, ActiveAdmin, Live, Cookie
  <2>3. ASSUME NEW a \in People PROVE Believed(a, cookie[a])'
    <3>1. CASE cookie'[a] = cookie[a]
      BY <2>1, <3>1 DEF CookiesExpire, Believed, ActiveAdmin, Live, Cookie
    <3>2. CASE cookie'[a] = NoCookie
      BY <3>2 DEF Believed, NoCookie
    <3>3. CASE /\ Live(a) /\ ~account[a].banned
               /\ cookie'[a] = [role |-> account[a].role, until |-> clock + CookieAge]
      BY <2>1, <3>3 DEF Believed, ActiveAdmin, Live
    <3> QED
      BY <1>5, <3>1, <3>2, <3>3, OthersBelieve
  <2>4. ASSUME NEW s \in Slots, calls'[s].op \in AdminOps
        PROVE  Believed(calls[s].actor, calls[s].cookie)'
    <3>1. calls'[s] = calls[s]
      <4>1. calls'[s] # Idle
        BY <2>4 DEF Idle, AdminOps
      <4>2. CASE calls[s].op = "callback" /\ calls'[s] = Overtaken(calls[s])
        BY <2>4, <4>2 DEF AdminOps, Overtaken, BaseInv, TypeInv, TypeOK, Call
      <4> QED
        BY <1>5, <4>1, <4>2, OthersCalls
    <3>2. calls[s].cookie \in Cookie /\ calls[s].actor \in People
      BY <2>4, <3>1 DEF BaseInv, TypeInv, TypeOK, CallsNamed, Call, AdminOps
    <3> QED
      BY <2>1, <2>4, <3>1, <3>2 DEF CookiesExpire, Believed, ActiveAdmin, Live, Cookie
  <2> QED
    BY <2>3, <2>4 DEF CookiesExpire
<1> QED
  BY <1>1, <1>2, <1>3, <1>4, <1>5, Steps

\* Whoever changes an account was an active administrator within CookieAge of
\* doing it, whatever cookies, sessions and calls in flight there are.
LEMMA WritersAreAdmins ==
    ASSUME RoleInv, [Next]_vars, NEW s \in Slots,
           calls[s].op \notin {"idle", "callback"}, account' # account, calls'[s] = Idle
    PROVE  ActiveAdmin(calls[s].actor) \/ clock <= lostRights[calls[s].actor] + CookieAge
<1> USE DEF RoleInv
<1>1. PICK x \in Slots, row \in AccountRow : Writes(x, row)
  <2>1. CASE \E x \in Slots, a \in People : calls[x] = Idle /\ CallbackArrives(x, a)
    BY <2>1, CallbackArrivals DEF BaseInv, accountVars
  <2>2. CASE Others
    BY <2>2, OthersCalls
  <2> QED
    BY <2>1, <2>2, Steps DEF accountVars
<1>2. calls[s] \in Call
  BY DEF BaseInv, TypeInv, TypeOK
<1>3. s = x
  BY <1>1, <1>2 DEF Writes, AccountWritten, Idle, Call
<1> DEFINE a == calls[s].actor
           c == calls[s].cookie
<1>4. RoleBy(a, c) = "admin" /\ Believed(a, c) /\ a \in People /\ c \in Cookie
  BY <1>1, <1>2, <1>3 DEF Writes, RequireAdmin, CookiesExpire, BaseInv, TypeInv, CallsNamed, AdminOps, Call
<1>5. clock \in Nat /\ lostRights[a] \in Nat /\ CookieAge \in Nat
  BY <1>4, AccountAssumption DEF BaseInv, TypeInv, TypeOK
<1>6. CASE c.role # "none" /\ clock <= c.until
  BY <1>4, <1>5, <1>6 DEF RoleBy, Believed, Cookie
<1>7. CASE ~(c.role # "none" /\ clock <= c.until)
  BY <1>4, <1>7 DEF RoleBy, BaseInv, SessionsAreActive, ActiveAdmin
<1> QED
  BY <1>6, <1>7

\* A demotion, a ban or a deletion is final from CookieAge after it: the role
\* in a cookie does not outlive that, nor does a call admitted by it.
THEOREM StaleRolesRunOut == Spec => StaleRoleIsBrief
<1> DEFINE Lawful ==
      \A s \in Slots :
         (calls[s].op \notin {"idle", "callback"} /\ account' # account /\ calls'[s] = Idle) =>
           ActiveAdmin(calls[s].actor) \/ clock <= lostRights[calls[s].actor] + CookieAge
<1>1. RoleInv /\ [Next]_vars => [Lawful]_vars
  BY WritersAreAdmins
<1> QED
  BY <1>1, InitRole, RoleStep, PTL DEF Spec, StaleRoleIsBrief

-----------------------------------------------------------------------------
(* Media that nothing refers to.                                            *)

\* An account being deleted had no media when it was asked about.
DeletionsAsked ==
    \A s \in Slots : calls[s].op = "delete" /\ calls[s].at \in media => calls[s].at \in stagedBeside

MediaInv == BaseInv /\ DeletionsAsked /\ OrphansOnlyByRace

LEMMA InitMedia == Init => MediaInv
  BY InitBase DEF MediaInv, Init, DeletionsAsked, OrphansOnlyByRace

\* The other steps remove media, or stage a recording and say beside what.
LEMMA OthersStage ==
    ASSUME BaseInv, Others
    PROVE  /\ orphaned' = orphaned /\ stagedBeside \subseteq stagedBeside'
           /\ \A a \in media' \ media, s \in Slots :
                calls'[s].op = "delete" /\ calls'[s].at = a => a \in stagedBeside'
<1> USE DEF accountVars, adminGhosts, peopleUntouched
<1>1. ASSUME NEW a \in People, RecordingStaged(a)
      PROVE  /\ orphaned' = orphaned /\ stagedBeside \subseteq stagedBeside'
             /\ \A b \in media' \ media, s \in Slots :
                  calls'[s].op = "delete" /\ calls'[s].at = b => b \in stagedBeside'
  BY <1>1 DEF RecordingStaged
<1>2. ASSUME NEW a \in People, RecordingsCleaned(a)
      PROVE  UNCHANGED <<orphaned, stagedBeside>> /\ media' \subseteq media
  BY <1>2 DEF RecordingsCleaned
<1>3. ASSUME \/ \E s \in Slots : AdminCallFails(s) \/ CallbackCommits(s) \/ CallbackFails(s)
             \/ \E a \in People : SignIn(a) \/ SignOut(a)
             \/ \E a \in People : \/ SaveClientConfig(a) \/ ClearClientConfig(a)
                                  \/ CreateConnectUrl(a) \/ Disconnect(a)
             \/ Tick \/ WorkerMarksReauth \/ WebRestarts
             \/ UNCHANGED vars
      PROVE  UNCHANGED <<orphaned, stagedBeside, media>>
  BY <1>3 DEF AdminCallFails, CallbackCommits, CallbackFails, SignIn, SignOut, SaveClientConfig,
              ClearClientConfig, ClientChanged, CreateConnectUrl, Disconnect, Tick, WorkerMarksReauth,
              WebRestarts, vars
<1> QED
  BY <1>1, <1>2, <1>3 DEF Others

LEMMA MediaStep == ASSUME MediaInv, [Next]_vars PROVE MediaInv'
<1> USE DEF MediaInv
<1>1. BaseInv'
  BY BaseStep
<1>2. ASSUME NEW s \in Slots, NEW call \in Call, Brings(s, call), Checked(call),
             UNCHANGED <<accountVars, youtubeVars, adminGhosts, youtubeGhosts>>
      PROVE  DeletionsAsked' /\ OrphansOnlyByRace'
  BY <1>2 DEF Brings, Checked, BaseInv, TypeInv, TypeOK, accountVars, adminGhosts,
              DeletionsAsked, OrphansOnlyByRace
<1>3. ASSUME NEW s \in Slots, NEW a \in People, CallbackArrives(s, a)
      PROVE  DeletionsAsked' /\ OrphansOnlyByRace'
  <2>1. /\ \A x \in Slots : calls'[x] = calls[x] \/ calls'[x].op = "callback"
        /\ UNCHANGED <<media, orphaned, stagedBeside>>
    BY <1>3, CallbackArrivals DEF Brings, BaseInv, TypeInv, TypeOK, accountVars, adminGhosts
  <2> QED
    BY <2>1 DEF DeletionsAsked, OrphansOnlyByRace
<1>4. ASSUME NEW s \in Slots, NEW row \in AccountRow, Writes(s, row)
      PROVE  DeletionsAsked' /\ OrphansOnlyByRace'
  <2>1. \A x \in Slots : calls'[x].op = "delete" =>
          calls[x].op = "delete" /\ calls'[x].at = calls[x].at
    <3> SUFFICES ASSUME NEW x \in Slots, calls'[x].op = "delete"
                 PROVE calls[x].op = "delete" /\ calls'[x].at = calls[x].at
      OBVIOUS
    <3>1. calls[x] \in Call /\ calls'[x] # Idle
      BY DEF BaseInv, TypeInv, TypeOK, Idle
    <3>2. calls'[x] = calls[x] \/ calls'[x] = [calls[x] EXCEPT !.fresh = FALSE]
      BY <1>4, <3>1 DEF Writes, AccountWritten
    <3> QED
      BY <3>1, <3>2 DEF Call
  <2>2. UNCHANGED <<media, stagedBeside>>
    BY <1>4 DEF Writes, AccountWritten
  <2>3. OrphansOnlyByRace'
    BY <1>4, <2>2 DEF Writes, DeletionsAsked, OrphansOnlyByRace
  <2> QED
    BY <2>1, <2>2, <2>3 DEF DeletionsAsked
<1>5. ASSUME Others PROVE DeletionsAsked' /\ OrphansOnlyByRace'
  <2>1. \A s \in Slots : calls'[s].op = "delete" => calls'[s] = calls[s]
    <3> SUFFICES ASSUME NEW s \in Slots, calls'[s].op = "delete" PROVE calls'[s] = calls[s]
      OBVIOUS
    <3>1. calls'[s] # Idle
      BY DEF Idle
    <3>2. CASE calls[s].op = "callback" /\ calls'[s] = Overtaken(calls[s])
      BY <3>2 DEF Overtaken, BaseInv, TypeInv, TypeOK, Call
    <3> QED
      BY <1>5, <3>1, <3>2, OthersCalls
  <2> QED
    BY <1>5, <2>1, OthersStage DEF DeletionsAsked, OrphansOnlyByRace
<1> QED
  BY <1>1, <1>2, <1>3, <1>4, <1>5, Steps

\* Only a recording staged while its account is being deleted leaves media
\* without a row: countBlockingRecordings catches every other.
THEOREM OrphansNeedARace == Spec => []OrphansOnlyByRace
<1>1. MediaInv => OrphansOnlyByRace
  BY DEF MediaInv
<1> QED
  BY <1>1, InitMedia, MediaStep, PTL DEF Spec

-----------------------------------------------------------------------------
(* Tokens.                                                                  *)

\* A callback nobody has overtaken has the client its account has.
ClientsRead ==
    \A s \in Slots :
      (calls[s].op = "callback" /\ calls[s].fresh /\ account[calls[s].at].state # "gone")
        => calls[s].client = ResolveClientConfig(calls[s].at)

TokenInv == BaseInv /\ ClientsRead /\ GrantIsOwners /\ TokenFitsClient

LEMMA InitToken == Init => TokenInv
<1> SUFFICES ASSUME Init PROVE TokenInv
  OBVIOUS
<1>1. ClientsRead /\ GrantIsOwners /\ TokenFitsClient
  BY DEF Init, ClientsRead, GrantIsOwners, TokenFitsClient, Idle, NoConnection, NoToken
<1> QED
  BY <1>1, InitBase DEF TokenInv

\* Steps that touch no client, connection or account.
LEMMA TokensStay ==
    ASSUME TokenInv, UNCHANGED <<account, client, connection, reconfigured>>,
           \A x \in Slots : calls'[x].op = "callback" =>
             \/ calls'[x] = calls[x]
             \/ calls'[x].client = ResolveClientConfig(calls'[x].at)
    PROVE  ClientsRead' /\ GrantIsOwners' /\ TokenFitsClient'
  BY DEF TokenInv, ClientsRead, GrantIsOwners, TokenFitsClient, ResolveClientConfig

\* Deleting an account takes its client, but an account with a connection is
\* not deleted, and a callback does not bring a deleted one back.
LEMMA WritesTokens ==
    ASSUME TokenInv, NEW s \in Slots, NEW row \in AccountRow, Writes(s, row)
    PROVE  ClientsRead' /\ GrantIsOwners' /\ TokenFitsClient'
<1> DEFINE at == calls[s].at
<1>1. /\ at \in People /\ account \in [People -> AccountRow]
      /\ client \in [People -> Clients \cup {NoOne}]
  BY DEF TokenInv, BaseInv, TypeInv, TypeOK, CallsNamed, Writes, AdminOps
<1>2. account' = [account EXCEPT ![at] = row] /\ UNCHANGED <<connection, reconfigured>>
  BY DEF Writes, AccountWritten
<1>3. \A x \in Slots : calls'[x].op = "callback" => calls'[x] = calls[x] /\ calls[x].at \in People
  <2> SUFFICES ASSUME NEW x \in Slots, calls'[x].op = "callback"
               PROVE  calls'[x] = calls[x] /\ calls[x].at \in People
    OBVIOUS
  <2>1. calls[x] \in Call /\ calls'[x] # Idle
    BY DEF TokenInv, BaseInv, TypeInv, TypeOK, Idle
  <2>2. CASE calls'[x] = [calls[x] EXCEPT !.fresh = FALSE] /\ calls[x].op \notin {"idle", "callback"}
    BY <2>1, <2>2 DEF Call
  <2>3. calls'[x] = calls[x]
    BY <2>1, <2>2 DEF Writes, AccountWritten
  <2> QED
    BY <2>3 DEF TokenInv, BaseInv, TypeInv, CallsNamed
<1>4. CASE client' = client
  <2>1. ClientsRead'
    BY <1>1, <1>2, <1>3, <1>4 DEF TokenInv, ClientsRead, ResolveClientConfig, Writes
  <2> QED
    BY <1>2, <1>4, <2>1 DEF TokenInv, GrantIsOwners, TokenFitsClient, ResolveClientConfig
<1>5. CASE /\ client' = [client EXCEPT ![at] = NoOne] /\ row.state = "gone"
           /\ connection[at] = NoConnection
  <2>1. ClientsRead'
    BY <1>1, <1>2, <1>3, <1>5 DEF TokenInv, ClientsRead, ResolveClientConfig
  <2>2. TokenFitsClient'
    BY <1>1, <1>2, <1>5 DEF TokenInv, TokenFitsClient, ResolveClientConfig, NoConnection
  <2> QED
    BY <1>2, <2>1, <2>2 DEF TokenInv, GrantIsOwners
<1> QED
  BY <1>4, <1>5 DEF Writes

LEMMA OthersTokens ==
    ASSUME TokenInv, Others
    PROVE  ClientsRead' /\ GrantIsOwners' /\ TokenFitsClient'
<1> USE DEF accountVars, youtubeVars, adminGhosts, youtubeGhosts, untouched, peopleUntouched
<1>1. ASSUME \/ \E s \in Slots : AdminCallFails(s) \/ CallbackFails(s)
             \/ \E a \in People : SignIn(a) \/ SignOut(a)
             \/ \E a \in People : RecordingStaged(a) \/ RecordingsCleaned(a) \/ CreateConnectUrl(a)
             \/ Tick \/ UNCHANGED vars
      PROVE  ClientsRead' /\ GrantIsOwners' /\ TokenFitsClient'
  <2>1. UNCHANGED <<account, client, connection, reconfigured>>
    BY <1>1 DEF AdminCallFails, CallbackFails, SignIn, SignOut, RecordingStaged, RecordingsCleaned,
                CreateConnectUrl, Tick, vars
  <2>2. \A x \in Slots : calls'[x] = calls[x] \/ calls'[x] = Idle
    BY <1>1 DEF AdminCallFails, CallbackFails, SignIn, SignOut, RecordingStaged, RecordingsCleaned,
                CreateConnectUrl, Tick, vars, Ends, TokenInv, BaseInv, TypeInv, TypeOK
  <2> QED
    BY <2>1, <2>2, TokensStay DEF Idle
<1>2. ASSUME NEW s \in Slots, CallbackCommits(s)
      PROVE  ClientsRead' /\ GrantIsOwners' /\ TokenFitsClient'
  <2> DEFINE at == calls[s].at
  <2>1. /\ at \in People /\ calls[s].starter = at /\ Live(at)
        /\ connection' = [connection EXCEPT ![at] =
             [status |-> "CONNECTED", token |-> [starter |-> calls[s].starter, client |-> calls[s].client]]]
        /\ reconfigured' = IF calls[s].fresh THEN reconfigured \ {at} ELSE reconfigured \cup {at}
        /\ calls' = [calls EXCEPT ![s] = Idle] /\ UNCHANGED <<account, client>>
        /\ connection \in [People -> Connection] /\ calls \in [Slots -> Call]
    BY <1>2 DEF CallbackCommits, Ends, TokenInv, BaseInv, TypeInv, TypeOK, CallsNamed
  <2>2. ClientsRead'
    BY <2>1 DEF TokenInv, ClientsRead, ResolveClientConfig, Idle
  <2>3. GrantIsOwners'
    BY <2>1 DEF TokenInv, GrantIsOwners
  <2>4. calls[s].fresh => calls[s].client = ResolveClientConfig(at)
    BY <1>2, <2>1 DEF TokenInv, ClientsRead, CallbackCommits, Live
  <2>5. TokenFitsClient'
    BY <2>1, <2>4 DEF TokenInv, TokenFitsClient, ResolveClientConfig
  <2> QED
    BY <2>2, <2>3, <2>5
<1>3. ASSUME NEW a \in People, SaveClientConfig(a) \/ ClearClientConfig(a)
      PROVE  ClientsRead' /\ GrantIsOwners' /\ TokenFitsClient'
  <2>1. /\ \E c : client' = [client EXCEPT ![a] = c]
        /\ calls' = [s \in Slots |-> IF calls[s].op = "callback" /\ calls[s].at = a
                                     THEN Overtaken(calls[s]) ELSE calls[s]]
        /\ reconfigured' = reconfigured \cup {a} /\ UNCHANGED <<account, connection>>
        /\ client \in [People -> Clients \cup {NoOne}] /\ calls \in [Slots -> Call]
    BY <1>3 DEF SaveClientConfig, ClearClientConfig, ClientChanged, Overtaken,
                TokenInv, BaseInv, TypeInv, TypeOK
  <2>2. \A b \in People : b # a => ResolveClientConfig(b)' = ResolveClientConfig(b)
    BY <2>1 DEF ResolveClientConfig
  <2>3. ClientsRead'
    <3> SUFFICES ASSUME NEW s \in Slots, calls'[s].op = "callback", calls'[s].fresh,
                        account[calls'[s].at].state # "gone"
                 PROVE  (calls[s].client = ResolveClientConfig(calls[s].at))'
      BY <2>1 DEF ClientsRead
    <3>1. calls[s].at # a \/ calls[s].op # "callback"
      BY <2>1 DEF Overtaken, Call
    <3>2. calls'[s] = calls[s] /\ calls[s].at # a
      BY <2>1, <3>1
    <3>3. calls[s].at \in People
      BY <3>2 DEF TokenInv, BaseInv, TypeInv, CallsNamed
    <3>4. calls[s].client = ResolveClientConfig(calls[s].at)
      BY <3>2 DEF TokenInv, ClientsRead
    <3> QED
      BY <2>2, <3>2, <3>3, <3>4 DEF ResolveClientConfig
  <2>4. GrantIsOwners' /\ TokenFitsClient'
    BY <2>1, <2>2 DEF TokenInv, GrantIsOwners, TokenFitsClient
  <2> QED
    BY <2>3, <2>4
<1>4. ASSUME NEW a \in People, Disconnect(a)
      PROVE  ClientsRead' /\ GrantIsOwners' /\ TokenFitsClient'
  <2>1. /\ connection' = [connection EXCEPT ![a] = [status |-> "DISCONNECTED", token |-> NoToken]]
        /\ UNCHANGED <<account, client, calls, reconfigured>>
        /\ connection \in [People -> Connection]
    BY <1>4 DEF Disconnect, TokenInv, BaseInv, TypeInv, TypeOK
  <2> QED
    BY <2>1 DEF TokenInv, ClientsRead, GrantIsOwners, TokenFitsClient, ResolveClientConfig, NoToken
<1>5. ASSUME WorkerMarksReauth PROVE ClientsRead' /\ GrantIsOwners' /\ TokenFitsClient'
  <2>1. /\ \A a \in People : /\ connection'[a].status # "CONNECTED"
                             /\ connection'[a].token = connection[a].token
        /\ UNCHANGED <<account, client, calls, reconfigured>>
    BY <1>5 DEF WorkerMarksReauth, NoConnection, Connection, TokenInv, BaseInv, TypeInv, TypeOK
  <2> QED
    BY <2>1 DEF TokenInv, ClientsRead, GrantIsOwners, TokenFitsClient, ResolveClientConfig
<1>6. ASSUME WebRestarts PROVE ClientsRead' /\ GrantIsOwners' /\ TokenFitsClient'
  <2>1. UNCHANGED <<account, client, connection, reconfigured>> /\ \A x \in Slots : calls'[x] = Idle
    BY <1>6 DEF WebRestarts
  <2> QED
    BY <2>1, TokensStay DEF Idle
<1> QED
  BY <1>1, <1>2, <1>3, <1>4, <1>5, <1>6 DEF Others

LEMMA TokenStep == ASSUME TokenInv, [Next]_vars PROVE TokenInv'
<1> USE DEF TokenInv
<1>1. BaseInv'
  BY BaseStep
<1>2. ASSUME NEW s \in Slots, NEW call \in Call, Brings(s, call), Checked(call),
             UNCHANGED <<accountVars, youtubeVars, adminGhosts, youtubeGhosts>>
      PROVE  TokenInv'
  <2>1. \A x \in Slots : calls'[x].op = "callback" => calls'[x] = calls[x]
    BY <1>2 DEF Brings, Checked, BaseInv, TypeInv, TypeOK
  <2> QED
    BY <1>1, <1>2, <2>1, TokensStay DEF accountVars, youtubeVars, youtubeGhosts
<1>3. ASSUME NEW s \in Slots, NEW a \in People, CallbackArrives(s, a) PROVE TokenInv'
  <2>1. \A x \in Slots : \/ calls'[x] = calls[x]
                         \/ calls'[x].client = ResolveClientConfig(calls'[x].at)
    BY <1>3, CallbackArrivals DEF Brings, BaseInv, TypeInv, TypeOK
  <2> QED
    BY <1>1, <1>3, <2>1, CallbackArrivals, TokensStay DEF BaseInv, accountVars
<1> QED
  BY <1>1, <1>2, <1>3, Steps, WritesTokens, OthersTokens

\* No account ever holds a token from a flow another account started.
THEOREM GrantsAreOwn == Spec => []GrantIsOwners
<1>1. TokenInv => GrantIsOwners
  BY DEF TokenInv
<1> QED
  BY <1>1, InitToken, TokenStep, PTL DEF Spec

\* A CONNECTED row and the client the worker pairs it with belong together,
\* unless the client was changed behind the callback that made it.
THEOREM TokensFitClients == Spec => []TokenFitsClient
<1>1. TokenInv => TokenFitsClient
  BY DEF TokenInv
<1> QED
  BY <1>1, InitToken, TokenStep, PTL DEF Spec
=============================================================================
