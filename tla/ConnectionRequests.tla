------------------------- MODULE ConnectionRequests --------------------------
(***************************************************************************)
(* Connecting a YouTube channel: apps/web/src/lib/services/                *)
(* youtube-connection.ts with the routes under api/youtube.                *)
(***************************************************************************)
EXTENDS AccountState

peopleUntouched == UNCHANGED <<accountVars, adminGhosts>>

\* The account's own client, else the instance-wide one, else none.
ResolveClientConfig(a) == IF client[a] # NoOne THEN client[a] ELSE EnvClient

\* A callback in flight read the client before this change of it.
ClientChanged(a) ==
    /\ calls' = [s \in Slots |-> IF calls[s].op = "callback" /\ calls[s].at = a
                                 THEN [calls[s] EXCEPT !.fresh = FALSE] ELSE calls[s]]
    /\ reconfigured' = reconfigured \cup {a}
    /\ UNCHANGED <<clock, connection, pending>> /\ peopleUntouched

SaveClientConfig(a) ==
    /\ Event /\ SignedIn(a) /\ Live(a)
    /\ \E c \in Clients : client' = [client EXCEPT ![a] = c]
    /\ ClientChanged(a)

ClearClientConfig(a) ==
    /\ Event /\ SignedIn(a)
    /\ client' = [client EXCEPT ![a] = NoOne]
    /\ ClientChanged(a)

\* States that have run out are removed whenever one is issued.
Pruned(states) ==
    [k \in Keys |-> IF states[k].state = "live" /\ states[k].until < clock
                    THEN [NoState EXCEPT !.state = "gone"] ELSE states[k]]

\* The browser is sent to Google with the client id and the new state.
CreateConnectUrl(a) ==
    /\ Event /\ SignedIn(a)
    /\ ResolveClientConfig(a) # NoOne
    /\ \E k \in Keys :
         /\ pending[k] = NoState
         /\ pending' = Pruned([pending EXCEPT ![k] =
              [state |-> "live", user |-> a, client |-> ResolveClientConfig(a), until |-> clock + StateTtl]])
    /\ UNCHANGED <<client, connection, calls, clock, youtubeGhosts>> /\ peopleUntouched

\* Mutant: any signed-in account may bring the state back.
PendingForAnyone(k, a) == pending[k].state = "live" /\ pending[k].until >= clock

\* The state is known, was issued to this account and has not run out.
PendingFor(k, a) ==
    /\ pending[k].state = "live"
    /\ pending[k].user = a
    /\ pending[k].until >= clock

CallbackCall(a, k) ==
    [Idle EXCEPT !.op = "callback", !.actor = a, !.at = a, !.starter = pending[k].user,
                 !.grant = pending[k].client, !.client = ResolveClientConfig(a)]

\* The browser comes back from Google.  The state is checked and forgotten in
\* one go; the client is read before the code is exchanged.  A state whose
\* account has no client any more is spent all the same.
CallbackArrives(s, a) ==
    \E k \in Keys :
      /\ SignedIn(a) /\ PendingFor(k, a)
      /\ pending' = [pending EXCEPT ![k] = [NoState EXCEPT !.state = "gone"]]
      /\ IF ResolveClientConfig(a) # NoOne
         THEN Arrive(s, CallbackCall(a, k))
         ELSE calls[s] = Idle /\ Event /\ UNCHANGED <<calls, clock>>
      /\ UNCHANGED <<client, connection, reconfigured>> /\ peopleUntouched

\* Google exchanges a code only for the client it was given to, and the
\* channel was read; the row is inserted, or replaced whatever it says.
CallbackCommits(s) ==
    LET c == calls[s] IN
    /\ c.op = "callback"
    /\ c.grant = c.client
    /\ Live(c.at)
    /\ connection' = [connection EXCEPT ![c.at] =
         [status |-> "CONNECTED", token |-> [starter |-> c.starter, client |-> c.client]]]
    /\ reconfigured' = IF c.fresh THEN reconfigured \ {c.at} ELSE reconfigured \cup {c.at}
    /\ Ends(s)
    /\ UNCHANGED <<client, pending>> /\ peopleUntouched

\* The exchange or the channel fails, or Google gives no refresh token.
CallbackFails(s) ==
    /\ calls[s].op = "callback"
    /\ Ends(s)
    /\ UNCHANGED <<youtubeVars, youtubeGhosts>> /\ peopleUntouched

\* Mutant: only the token is removed.
DisconnectKeepsStatus(a) ==
    /\ Event /\ SignedIn(a)
    /\ connection[a] # NoConnection
    /\ connection' = [connection EXCEPT ![a].token = NoToken]
    /\ UNCHANGED <<client, pending, calls, clock, youtubeGhosts>> /\ peopleUntouched

\* The row stays, without a token.
Disconnect(a) ==
    /\ Event /\ SignedIn(a)
    /\ connection[a] # NoConnection
    /\ connection' = [connection EXCEPT ![a] = [status |-> "DISCONNECTED", token |-> NoToken]]
    /\ UNCHANGED <<client, pending, calls, clock, youtubeGhosts>> /\ peopleUntouched

\* The worker met an authorization error: it marks every account's row.
WorkerMarksReauth ==
    /\ Event
    /\ connection' = [a \in People |-> IF connection[a] = NoConnection THEN NoConnection
                                       ELSE [connection[a] EXCEPT !.status = "REAUTH_REQUIRED"]]
    /\ UNCHANGED <<client, pending, calls, clock, youtubeGhosts>> /\ peopleUntouched

\* The web process restarts: calls in flight are cut off, states forgotten.
WebRestarts ==
    /\ Event
    /\ calls' = [s \in Slots |-> Idle]
    /\ pending' = [k \in Keys |-> IF pending[k].state = "live"
                                  THEN [NoState EXCEPT !.state = "gone"] ELSE pending[k]]
    /\ UNCHANGED <<client, connection, clock, youtubeGhosts>> /\ peopleUntouched
=============================================================================
