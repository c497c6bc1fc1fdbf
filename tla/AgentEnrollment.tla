-------------------------- MODULE AgentEnrollment --------------------------
(***************************************************************************)
(* Who may connect as a fleet agent, and what the fleet page shows of it:  *)
(* enrollment and rotation tokens, credentials and agent rows shared by    *)
(* the gateway's connection handlers (fleet/gateway/server.py, db.py) and  *)
(* the operators' requests in the web workers (fleet/api.py).              *)
(*                                                                         *)
(* Every database function of the gateway and every request reads an       *)
(* agent's row and commits later; the ORM writes a column only when it     *)
(* differs from the value that was read, and a commit on a row deleted     *)
(* meanwhile fails.  One project; agent uuids, credentials and tokens are  *)
(* never used twice, connections are.                                      *)
(***************************************************************************)
EXTENDS Naturals, FiniteSets

CONSTANTS
    Agents,     \* agent uuids
    Conns,      \* connections to the gateway at a time
    Requests,   \* operators' requests at a time
    Creds,      \* credentials, hashed in AgentCredential
    Standing,   \* values of the standing enrollment tokens
    OneTime     \* values of the one-time rotation tokens

Tokens == Standing \cup OneTime
Nobody == "nobody"
NoToken == "noToken"
NoConn == "noConn"

ASSUME EnrollmentAssumption ==
    /\ Standing \cap OneTime = {}
    /\ Nobody \notin Agents /\ NoToken \notin Tokens /\ NoConn \notin Conns

VARIABLES
    status,     \* Agent.status, or "none" and "deleted" when there is no row
    cred,       \* the AgentCredential rows: whose, from which token, revoked
    token,      \* the AgentEnrollmentToken rows
    conn,       \* _handle_connection of a connection
    current,    \* GatewayServer._connections
    request     \* the operators' requests

vars == <<status, cred, token, conn, current, request>>

Free == [at |-> "free", agent |-> Nobody, token |-> NoToken, seen |-> "none", closed |-> FALSE]
Idle == [op |-> "none", agent |-> Nobody, seen |-> "none", tokens |-> {}]
Statuses == {"none", "enrolled", "online", "offline", "revoked", "deleted"}

\* The steps of a connection's handler, the states it can be in, and those of
\* a request and of the rows.
Steps == {"free", "authing", "enrolling", "replying", "serving", "beating", "closing",
          "leaving", "marking"}
Handler ==
    {h \in [at : Steps, agent : Agents \cup {Nobody}, token : Tokens \cup {NoToken},
            seen : Statuses, closed : BOOLEAN] :
        (h.at = "free" <=> h.agent = Nobody) /\ (h.at = "enrolling" <=> h.token # NoToken)}
RequestState ==
    {r \in [op : {"none", "mint", "revoke", "rotate", "delete", "cut"},
            agent : Agents \cup {Nobody}, seen : Statuses, tokens : SUBSET Standing] :
        r.op \in {"none", "mint"} <=> r.agent = Nobody}
CredRow == [agent : Agents \cup {Nobody}, from : Tokens \cup {NoToken}, revoked : BOOLEAN]
TokenRow == [state : {"none", "live", "used", "dead"}, agent : Agents \cup {Nobody}]

TypeOK ==
    /\ status \in [Agents -> Statuses]
    /\ cred \in [Creds -> CredRow]
    /\ token \in [Tokens -> TokenRow]
    /\ conn \in [Conns -> Handler]
    /\ current \in [Agents -> Conns \cup {NoConn}]
    /\ request \in [Requests -> RequestState]

\* A project without agents or tokens.
Init ==
    /\ status = [a \in Agents |-> "none"]
    /\ cred = [c \in Creds |-> [agent |-> Nobody, from |-> NoToken, revoked |-> FALSE]]
    /\ token = [t \in Tokens |-> [state |-> "none", agent |-> Nobody]]
    /\ conn = [k \in Conns |-> Free]
    /\ current = [a \in Agents |-> NoConn]
    /\ request = [w \in Requests |-> Idle]

Exists(a) == status[a] \notin {"none", "deleted"}
Admitted(a) == Exists(a) /\ status[a] # "revoked"

\* The row after the ORM's update of a status that was read as seen.
Written(a, seen, new) ==
    IF seen = new THEN status ELSE [status EXCEPT ![a] = new]

Locked(t) == \E k \in Conns : conn[k].at = "enrolling" /\ conn[k].token = t

Move(k, at) == conn' = [conn EXCEPT ![k].at = at, ![k].seen = "none"]
MoveSeeing(k, at) == conn' = [conn EXCEPT ![k].at = at, ![k].seen = status[conn[k].agent]]
Leave(k) == conn' = [conn EXCEPT ![k] = Free]

\* The credentials of an agent after all of them are revoked.
Revoked(a) == [c \in Creds |-> IF cred[c].agent = a THEN [cred[c] EXCEPT !.revoked = TRUE]
                               ELSE cred[c]]

-----------------------------------------------------------------------------
(* The gateway *)

\* authenticate_agent finds the row and a credential that is not revoked; any
\* other first frame is answered with an error and changes nothing.
Authenticate(k, a, c) ==
    /\ conn[k].at = "free"
    /\ Admitted(a) /\ cred[c].agent = a /\ ~cred[c].revoked
    /\ conn' = [conn EXCEPT ![k] = [Free EXCEPT !.at = "authing", !.agent = a,
                                                !.seen = status[a]]]
    /\ UNCHANGED <<status, cred, token, current, request>>

AuthenticateCommits(k) ==
    /\ conn[k].at = "authing"
    /\ IF Exists(conn[k].agent)
       THEN /\ status' = Written(conn[k].agent, conn[k].seen, "online")
            /\ Move(k, "replying")
       ELSE UNCHANGED status /\ Leave(k)
    /\ UNCHANGED <<cred, token, current, request>>

Redeemable(t) == token[t].state = "live"

\* Bug: the row of the token is read without a lock.
EnrollReadsUnlocked(k, t, a) ==
    /\ conn[k].at = "free"
    /\ Redeemable(t)
    /\ IF t \in OneTime THEN a = token[t].agent
       ELSE status[a] = "none" /\ \A j \in Conns : conn[j].agent # a
    /\ conn' = [conn EXCEPT ![k] = [Free EXCEPT !.at = "enrolling", !.agent = a, !.token = t,
                                                !.seen = status[a]]]
    /\ UNCHANGED <<status, cred, token, current, request>>

\* enroll_agent locks the token's row and reads it and, for a rotation token,
\* the row of its agent; a new agent gets a uuid of its own.
EnrollReads(k, t, a) ==
    /\ conn[k].at = "free"
    /\ ~Locked(t) /\ Redeemable(t)
    /\ IF t \in OneTime THEN a = token[t].agent
       ELSE status[a] = "none" /\ \A j \in Conns : conn[j].agent # a
    /\ conn' = [conn EXCEPT ![k] = [Free EXCEPT !.at = "enrolling", !.agent = a, !.token = t,
                                                !.seen = status[a]]]
    /\ UNCHANGED <<status, cred, token, current, request>>

Unused == {c \in Creds : cred[c].agent = Nobody}

\* The commit: a credential, the end of a one-time token, the agent's row.
EnrollCommits(k) ==
    LET a == conn[k].agent
        t == conn[k].token IN
    /\ conn[k].at = "enrolling"
    /\ Unused # {}
    /\ cred' = [cred EXCEPT ![CHOOSE c \in Unused : TRUE] = [agent |-> a, from |-> t, revoked |-> FALSE]]
    /\ token' = IF t \in OneTime THEN [token EXCEPT ![t].state = "used"] ELSE token
    /\ status' = IF conn[k].seen \in {"none", "revoked"} THEN [status EXCEPT ![a] = "enrolled"]
                 ELSE status
    /\ conn' = [conn EXCEPT ![k].at = "replying", ![k].token = NoToken,
                            ![k].seen = "none"]
    /\ UNCHANGED <<current, request>>

\* Signing the certificate fails, or the commit does: nothing is kept.
EnrollFails(k) ==
    /\ conn[k].at = "enrolling"
    /\ Leave(k)
    /\ UNCHANGED <<status, cred, token, current, request>>

\* The answer is sent, the connection becomes the agent's current one and an
\* older one is closed.
Register(k) ==
    LET a == conn[k].agent IN
    /\ conn[k].at = "replying"
    /\ current' = [current EXCEPT ![a] = k]
    /\ conn' = [j \in Conns |->
                CASE j = k -> [conn[k] EXCEPT !.at = "serving", !.seen = "none"]
                  [] j = current[a] /\ j # k -> [conn[j] EXCEPT !.closed = TRUE]
                  [] OTHER -> conn[j]]
    /\ UNCHANGED <<status, cred, token, request>>

\* The answer cannot be sent: _handle_connection has no agent_uuid yet and
\* cleans nothing up.
ReplyFails(k) ==
    /\ conn[k].at = "replying"
    /\ Leave(k)
    /\ UNCHANGED <<status, cred, token, current, request>>

\* Bug: only record_heartbeat looks at the status, and it returns silently.
HeartbeatUnchecked(k) ==
    /\ conn[k].at = "serving"
    /\ Admitted(conn[k].agent) /\ MoveSeeing(k, "beating")
    /\ UNCHANGED <<status, cred, token, current, request>>

\* A frame of the agent in _serve_authenticated: a revoked agent's connection
\* ends; otherwise a heartbeat reads the row in record_heartbeat.
Heartbeat(k) ==
    /\ conn[k].at = "serving"
    /\ IF Admitted(conn[k].agent) THEN MoveSeeing(k, "beating") ELSE Move(k, "closing")
    /\ UNCHANGED <<status, cred, token, current, request>>

\* Bug: a heartbeat updates last_seen_at only.
HeartbeatCommitsSeenOnly(k) ==
    /\ conn[k].at = "beating"
    /\ Move(k, "serving")
    /\ UNCHANGED <<status, cred, token, current, request>>

HeartbeatCommits(k) ==
    /\ conn[k].at = "beating"
    /\ IF Exists(conn[k].agent)
       THEN status' = Written(conn[k].agent, conn[k].seen, "online") /\ Move(k, "serving")
       ELSE UNCHANGED status /\ Move(k, "closing")
    /\ UNCHANGED <<cred, token, current, request>>

\* The agent is gone, silent for the heartbeat timeout, or the connection was
\* closed by a newer one or by an operator.
ConnectionEnds(k) ==
    /\ conn[k].at = "serving"
    /\ Move(k, "closing")
    /\ UNCHANGED <<status, cred, token, current, request>>

\* Bug: a connection that has been replaced removes the entry of its successor.
CleanUpAnyway(k) ==
    /\ conn[k].at = "closing"
    /\ current' = [current EXCEPT ![conn[k].agent] = NoConn]
    /\ Move(k, "leaving")
    /\ UNCHANGED <<status, cred, token, request>>

\* The finally block: only the current connection marks the agent offline.
CleanUp(k) ==
    LET a == conn[k].agent IN
    /\ conn[k].at = "closing"
    /\ IF current[a] = k
       THEN current' = [current EXCEPT ![a] = NoConn] /\ Move(k, "leaving")
       ELSE UNCHANGED current /\ Leave(k)
    /\ UNCHANGED <<status, cred, token, request>>

MarkOfflineReads(k) ==
    /\ conn[k].at = "leaving"
    /\ IF Admitted(conn[k].agent) THEN MoveSeeing(k, "marking") ELSE Leave(k)
    /\ UNCHANGED <<status, cred, token, current, request>>

MarkOfflineCommits(k) ==
    /\ conn[k].at = "marking"
    /\ status' = IF Exists(conn[k].agent) THEN Written(conn[k].agent, conn[k].seen, "offline")
                 ELSE status
    /\ Leave(k)
    /\ UNCHANGED <<cred, token, current, request>>

\* The gateway stops: its transactions roll back, nobody is marked offline.
GatewayRestarts ==
    /\ conn' = [k \in Conns |-> Free]
    /\ current' = [a \in Agents |-> NoConn]
    /\ UNCHANGED <<status, cred, token, request>>

-----------------------------------------------------------------------------
(* The operators' requests *)

\* issue_enrollment_token: the UPDATE of _mint_standing_token sees the tokens
\* that are live when it starts.
MintReads(w) ==
    /\ request[w] = Idle
    /\ request' = [request EXCEPT ![w] = [Idle EXCEPT !.op = "mint",
                        !.tokens = {t \in Standing : Redeemable(t)}]]
    /\ UNCHANGED <<status, cred, token, conn, current>>

MintCommits(w) ==
    LET new == {t \in Standing : token[t].state = "none"} IN
    /\ request[w].op = "mint"
    /\ \A s \in request[w].tokens : ~Locked(s)
    /\ new # {}
    /\ token' = [s \in Tokens |->
                    CASE s = CHOOSE t \in new : TRUE -> [state |-> "live", agent |-> Nobody]
                      [] s \in request[w].tokens -> [token[s] EXCEPT !.state = "dead"]
                      [] OTHER -> token[s]]
    /\ request' = [request EXCEPT ![w] = Idle]
    /\ UNCHANGED <<status, cred, conn, current>>

\* revoke_agent, rotate_agent_credential and delete_agent read the row and
\* refuse what its status does not allow.
RequestReads(w, op, a) ==
    /\ request[w] = Idle
    /\ \/ op = "revoke" /\ Exists(a)
       \/ op = "rotate" /\ Admitted(a)
       \/ op = "delete" /\ status[a] = "revoked"
    /\ request' = [request EXCEPT ![w] = [Idle EXCEPT !.op = op, !.agent = a,
                                                      !.seen = status[a]]]
    /\ UNCHANGED <<status, cred, token, conn, current>>

\* The agent's row is gone when the request writes: it fails.
RequestFails(w) ==
    /\ request[w].op \in {"revoke", "rotate", "delete"}
    /\ ~Exists(request[w].agent)
    /\ request' = [request EXCEPT ![w] = Idle]
    /\ UNCHANGED <<status, cred, token, conn, current>>

RevokeCommits(w) ==
    LET a == request[w].agent IN
    /\ request[w].op = "revoke" /\ Exists(a)
    /\ status' = Written(a, request[w].seen, "revoked")
    /\ cred' = Revoked(a)
    /\ request' = [request EXCEPT ![w] = [Idle EXCEPT !.op = "cut", !.agent = a]]
    /\ UNCHANGED <<token, conn, current>>

\* Every credential is revoked and a one-time token issued for the same agent.
RotateCommits(w, t) ==
    LET a == request[w].agent IN
    /\ request[w].op = "rotate" /\ Exists(a)
    /\ t \in OneTime /\ token[t].state = "none"
    /\ cred' = Revoked(a)
    /\ token' = [token EXCEPT ![t] = [state |-> "live", agent |-> a]]
    /\ request' = [request EXCEPT ![w] = [Idle EXCEPT !.op = "cut", !.agent = a]]
    /\ UNCHANGED <<status, conn, current>>

\* The row goes, its credentials and tokens with it; a token that is being
\* redeemed is locked and delays the cascade.
DeleteCommits(w) ==
    LET a == request[w].agent IN
    /\ request[w].op = "delete" /\ Exists(a)
    /\ \A t \in OneTime : token[t].agent = a => ~Locked(t)
    /\ status' = [status EXCEPT ![a] = "deleted"]
    /\ cred' = Revoked(a)
    /\ token' = [t \in Tokens |-> IF token[t].agent = a THEN [token[t] EXCEPT !.state = "dead"]
                                  ELSE token[t]]
    /\ request' = [request EXCEPT ![w] = Idle]
    /\ UNCHANGED <<conn, current>>

\* _force_disconnect closes the connection the gateway has for the agent, or
\* does not reach the gateway.
ForceDisconnect(w) ==
    /\ request[w].op = "cut"
    /\ request' = [request EXCEPT ![w] = Idle]
    /\ \/ UNCHANGED conn
       \/ /\ current[request[w].agent] # NoConn
          /\ conn' = [conn EXCEPT ![current[request[w].agent]].closed = TRUE]
    /\ UNCHANGED <<status, cred, token, current>>

-----------------------------------------------------------------------------
Connection(k) ==
    \/ AuthenticateCommits(k) \/ EnrollCommits(k)
    \/ EnrollFails(k) \/ Register(k) \/ ReplyFails(k)
    \/ Heartbeat(k) \/ HeartbeatCommits(k) \/ ConnectionEnds(k)
    \/ CleanUp(k) \/ MarkOfflineReads(k) \/ MarkOfflineCommits(k)

Operator(w) ==
    \/ MintReads(w) \/ MintCommits(w)
    \/ \E op \in {"revoke", "rotate", "delete"}, a \in Agents : RequestReads(w, op, a)
    \/ RequestFails(w) \/ RevokeCommits(w) \/ \E t \in OneTime : RotateCommits(w, t)
    \/ DeleteCommits(w) \/ ForceDisconnect(w)

Next ==
    \/ \E k \in Conns :
        \/ \E a \in Agents : \/ \E c \in Creds : Authenticate(k, a, c)
                             \/ \E t \in Tokens : EnrollReads(k, t, a)
        \/ Connection(k)
    \/ \E w \in Requests : Operator(w)
    \/ GatewayRestarts

Spec == Init /\ [][Next]_vars

\* Handlers and executor calls go on, a connected agent sends heartbeats for
\* ever, a closed connection is noticed; nobody has to connect or to ask.
FairSpec ==
    /\ Spec
    /\ \A k \in Conns :
        /\ WF_vars(AuthenticateCommits(k))
        /\ WF_vars(EnrollFails(k) \/ EnrollCommits(k))
        /\ WF_vars(Register(k) \/ ReplyFails(k))
        /\ WF_vars(Heartbeat(k)) /\ WF_vars(HeartbeatCommits(k))
        /\ WF_vars(CleanUp(k)) /\ WF_vars(MarkOfflineReads(k)) /\ WF_vars(MarkOfflineCommits(k))

-----------------------------------------------------------------------------
(* Properties *)

\* However a lost connection, a reconnect and a forced disconnect race, the
\* only connection of an agent that is served and not closed is the one that
\* commands and disconnects are sent to (server.py:384).
OpenIsCurrent ==
    \A k \in Conns :
        conn[k].at \in {"serving", "beating"} /\ ~conn[k].closed => current[conn[k].agent] = k

\* A one-time token gives one credential however its redemptions race
\* (db.py:246).
OneCredentialPerRotation ==
    \A c, d \in Creds : cred[c].from \in OneTime /\ cred[c].from = cred[d].from => c = d

\* A stale mark_offline or the commit of an old connection is corrected by the
\* next heartbeat: an agent that stays connected is online (server.py:443).
ConnectedIsOnline ==
    \A a \in Agents, k \in Conns :
        <>[](current[a] = k) => <>[](status[a] = "online")

\* An agent that stays revoked loses its connections even when the disconnect
\* did not reach the gateway (server.py:525).
RevokedIsCutOff ==
    \A a \in Agents :
        <>[](status[a] = "revoked") =>
            <>[](\A k \in Conns : conn[k].agent = a => conn[k].at \notin {"serving", "beating"})

\* A revoked agent is never admitted again: "A revoked agent can't reconnect;
\* re-enrolling it (with a fresh standing token) creates a brand-new agent row
\* rather than reviving this one" (docs/fleet-agents.md:145).
RevokedStaysRevoked ==
    [][\A a \in Agents : status[a] = "revoked" => status'[a] \in {"revoked", "deleted"}]_vars

=============================================================================
