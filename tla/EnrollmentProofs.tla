-------------------------- MODULE EnrollmentProofs --------------------------
(* Proofs about AgentEnrollment, for any agents, connections and requests.  *)
EXTENDS AgentEnrollment, TLAPS

(* Types.                                                                  *)

\* A handler between its authentication and its end has an agent, and no token.
LEMMA Busy ==
    ASSUME TypeOK, NEW k \in Conns, conn[k].at \notin {"free", "enrolling"}
    PROVE  /\ conn[k] \in Handler /\ conn[k].agent \in Agents /\ conn[k].token = NoToken
           /\ status[conn[k].agent] \in Statuses
<1>1. conn[k] \in Handler
  BY DEF TypeOK
<1>2. conn[k].agent \in Agents /\ conn[k].token = NoToken
  BY <1>1 DEF Handler, Steps
<1> QED
  BY <1>1, <1>2 DEF TypeOK

\* Such a handler may go to any other step, with any status it has read.
LEMMA StepTaken ==
    ASSUME NEW h \in Handler, h.at \notin {"free", "enrolling"},
           NEW at \in Steps \ {"free", "enrolling"}, NEW seen \in Statuses
    PROVE  [h EXCEPT !.at = at, !.seen = seen] \in Handler
BY DEF Handler, Steps

\* A handler that has not begun.
LEMMA FreeIsHandler == Free \in Handler
BY EnrollmentAssumption DEF Free, Handler, Steps, Statuses, Tokens

\* Move, MoveSeeing and Leave keep the handlers' types.
LEMMA Moves ==
    ASSUME TypeOK, NEW k \in Conns, conn[k].at \notin {"free", "enrolling"},
           NEW at \in Steps \ {"free", "enrolling"}, Move(k, at) \/ MoveSeeing(k, at) \/ Leave(k)
    PROVE  conn' \in [Conns -> Handler]
<1>1. conn \in [Conns -> Handler] /\ "none" \in Statuses
  BY DEF TypeOK, Statuses
<1>2. CASE Move(k, at)
  <2>1. [conn[k] EXCEPT !.at = at, !.seen = "none"] \in Handler
    BY <1>1, Busy, StepTaken
  <2> QED
    BY <1>1, <1>2, <2>1 DEF Move
<1>3. CASE MoveSeeing(k, at)
  <2>1. [conn[k] EXCEPT !.at = at, !.seen = status[conn[k].agent]] \in Handler
    BY Busy, StepTaken
  <2> QED
    BY <1>1, <1>3, <2>1 DEF MoveSeeing
<1>4. CASE Leave(k)
  BY <1>1, <1>4, FreeIsHandler DEF Leave
<1> QED
  BY <1>2, <1>3, <1>4

\* An update of an agent's status writes a status.
LEMMA Writes ==
    ASSUME TypeOK, NEW a \in Agents, NEW seen, NEW new \in Statuses
    PROVE  Written(a, seen, new) \in [Agents -> Statuses]
BY DEF Written, TypeOK

\* The steps of a handler that has a connected agent.
LEMMA TypeServing ==
    ASSUME TypeOK, NEW k \in Conns,
           \/ AuthenticateCommits(k) \/ ReplyFails(k) \/ Heartbeat(k) \/ HeartbeatCommits(k)
           \/ ConnectionEnds(k) \/ CleanUp(k) \/ MarkOfflineReads(k) \/ MarkOfflineCommits(k)
    PROVE  TypeOK'
<1>0. /\ {"replying", "beating", "closing", "serving", "leaving", "marking"}
           \subseteq Steps \ {"free", "enrolling"}
      /\ {"online", "offline"} \subseteq Statuses
  BY DEF Steps, Statuses
<1>1. conn[k].at \notin {"free", "enrolling"}
  BY DEF AuthenticateCommits, ReplyFails, Heartbeat, HeartbeatCommits, ConnectionEnds, CleanUp,
         MarkOfflineReads, MarkOfflineCommits
<1>2. conn[k].agent \in Agents
  BY <1>1, Busy
<1>3. conn' \in [Conns -> Handler]
  <2>1. \E at \in Steps \ {"free", "enrolling"} : Move(k, at) \/ MoveSeeing(k, at) \/ Leave(k)
    BY <1>0 DEF AuthenticateCommits, ReplyFails, Heartbeat, HeartbeatCommits, ConnectionEnds,
                CleanUp, MarkOfflineReads, MarkOfflineCommits
  <2> QED
    BY <1>1, <2>1, Moves
<1>4. status' \in [Agents -> Statuses]
  <2>1. Written(conn[k].agent, conn[k].seen, "online") \in [Agents -> Statuses]
    BY <1>0, <1>2, Writes
  <2>2. Written(conn[k].agent, conn[k].seen, "offline") \in [Agents -> Statuses]
    BY <1>0, <1>2, Writes
  <2> QED
    BY <2>1, <2>2 DEF TypeOK, AuthenticateCommits, ReplyFails, Heartbeat, HeartbeatCommits,
                      ConnectionEnds, CleanUp, MarkOfflineReads, MarkOfflineCommits
<1>5. current' \in [Agents -> Conns \cup {NoConn}]
  BY DEF TypeOK, AuthenticateCommits, ReplyFails, Heartbeat, HeartbeatCommits, ConnectionEnds,
         CleanUp, MarkOfflineReads, MarkOfflineCommits
<1>6. UNCHANGED <<cred, token, request>>
  BY DEF AuthenticateCommits, ReplyFails, Heartbeat, HeartbeatCommits, ConnectionEnds,
         CleanUp, MarkOfflineReads, MarkOfflineCommits
<1> QED
  BY <1>3, <1>4, <1>5, <1>6 DEF TypeOK

\* A redemption and the registration of a connection.
LEMMA TypeJoining ==
    ASSUME TypeOK, NEW k \in Conns, EnrollCommits(k) \/ EnrollFails(k) \/ Register(k)
    PROVE  TypeOK'
<1>1. CASE EnrollCommits(k)
  <2>1. conn[k] \in Handler /\ conn[k].at = "enrolling"
    BY <1>1 DEF TypeOK, EnrollCommits
  <2>2. conn[k].agent \in Agents /\ conn[k].token \in Tokens
    BY <2>1 DEF Handler
  <2>3. [conn[k] EXCEPT !.at = "replying", !.token = NoToken, !.seen = "none"] \in Handler
    BY <2>1 DEF Handler, Steps, Statuses
  <2>4. conn' \in [Conns -> Handler]
    BY <1>1, <2>3 DEF TypeOK, EnrollCommits
  <2>5. cred' \in [Creds -> CredRow]
    <3>1. [agent |-> conn[k].agent, from |-> conn[k].token, revoked |-> FALSE] \in CredRow
      BY <2>2 DEF CredRow
    <3> QED
      BY <1>1, <3>1 DEF TypeOK, EnrollCommits
  <2>6. token' \in [Tokens -> TokenRow]
    <3>1. \A row \in TokenRow : [row EXCEPT !.state = "used"] \in TokenRow
      BY DEF TokenRow
    <3> QED
      BY <1>1, <2>2, <3>1 DEF TypeOK, EnrollCommits
  <2>7. status' \in [Agents -> Statuses]
    BY <1>1 DEF TypeOK, EnrollCommits, Statuses
  <2> QED
    BY <1>1, <2>4, <2>5, <2>6, <2>7 DEF TypeOK, EnrollCommits
<1>2. CASE EnrollFails(k)
  BY <1>2, FreeIsHandler DEF EnrollFails, Leave, TypeOK
<1>3. CASE Register(k)
  <2>1. conn[k].at = "replying"
    BY <1>3 DEF Register
  <2>2. [conn[k] EXCEPT !.at = "serving", !.seen = "none"] \in Handler
    BY <2>1, Busy, StepTaken DEF Steps, Statuses
  <2>3. \A h \in Handler : [h EXCEPT !.closed = TRUE] \in Handler
    BY DEF Handler
  <2>4. conn' \in [Conns -> Handler]
    BY <1>3, <2>2, <2>3 DEF TypeOK, Register
  <2> QED
    BY <1>3, <2>1, <2>4, Busy DEF TypeOK, Register
<1> QED
  BY <1>1, <1>2, <1>3

\* A first frame that is accepted.
LEMMA TypeConnect ==
    ASSUME TypeOK, NEW k \in Conns, NEW a \in Agents,
           (\E c \in Creds : Authenticate(k, a, c)) \/ \E t \in Tokens : EnrollReads(k, t, a)
    PROVE  TypeOK'
<1>1. status[a] \in Statuses
  BY DEF TypeOK
<1>2. CASE \E c \in Creds : Authenticate(k, a, c)
  <2>1. [Free EXCEPT !.at = "authing", !.agent = a, !.seen = status[a]] \in Handler
    BY <1>1, EnrollmentAssumption DEF Free, Handler, Steps
  <2> QED
    BY <1>2, <2>1 DEF Authenticate, TypeOK
<1>3. CASE \E t \in Tokens : EnrollReads(k, t, a)
  <2>1. \A t \in Tokens : [Free EXCEPT !.at = "enrolling", !.agent = a, !.token = t,
                                       !.seen = status[a]] \in Handler
    BY <1>1, EnrollmentAssumption DEF Free, Handler, Steps
  <2> QED
    BY <1>3, <2>1 DEF EnrollReads, TypeOK
<1> QED
  BY <1>2, <1>3

\* An operator's request.
LEMMA TypeOperator ==
    ASSUME TypeOK, NEW w \in Requests, Operator(w)
    PROVE  TypeOK'
<1>0. Idle \in RequestState
  BY DEF Idle, RequestState, Statuses
<1>1. request[w] \in RequestState
  BY DEF TypeOK
<1>2. \A a \in Agents : Revoked(a) \in [Creds -> CredRow]
  BY DEF Revoked, TypeOK, CredRow
<1>3. \A row \in TokenRow : [row EXCEPT !.state = "dead"] \in TokenRow
  BY DEF TokenRow
<1>4. CASE MintReads(w)
  <2>1. [Idle EXCEPT !.op = "mint", !.tokens = {t \in Standing : Redeemable(t)}] \in RequestState
    BY <1>0 DEF Idle, RequestState
  <2> QED
    BY <1>4, <2>1 DEF MintReads, TypeOK
<1>5. CASE MintCommits(w)
  <2>1. [state |-> "live", agent |-> Nobody] \in TokenRow
    BY DEF TokenRow
  <2>2. token' \in [Tokens -> TokenRow]
    BY <1>3, <1>5, <2>1 DEF MintCommits, TypeOK
  <2> QED
    BY <1>0, <1>5, <2>2 DEF MintCommits, TypeOK
<1>6. ASSUME NEW op \in {"revoke", "rotate", "delete"}, NEW a \in Agents, RequestReads(w, op, a)
      PROVE  TypeOK'
  <2>1. [Idle EXCEPT !.op = op, !.agent = a, !.seen = status[a]] \in RequestState
    BY EnrollmentAssumption DEF Idle, RequestState, TypeOK
  <2> QED
    BY <1>6, <2>1 DEF RequestReads, TypeOK
<1>7. CASE RequestFails(w)
  BY <1>0, <1>7 DEF RequestFails, TypeOK
<1>8. ASSUME request[w].op \in {"revoke", "rotate", "delete"}
      PROVE  /\ request[w].agent \in Agents
             /\ [Idle EXCEPT !.op = "cut", !.agent = request[w].agent] \in RequestState
  BY <1>0, <1>1, <1>8, EnrollmentAssumption DEF Idle, RequestState
<1>9. CASE RevokeCommits(w)
  <2>1. status' \in [Agents -> Statuses]
    BY <1>8, <1>9, Writes DEF RevokeCommits, Statuses
  <2> QED
    BY <1>2, <1>8, <1>9, <2>1 DEF RevokeCommits, TypeOK
<1>10. ASSUME NEW t \in OneTime, RotateCommits(w, t)
       PROVE  TypeOK'
  <2>1. [state |-> "live", agent |-> request[w].agent] \in TokenRow
    BY <1>8, <1>10 DEF RotateCommits, TokenRow
  <2> QED
    BY <1>2, <1>8, <1>10, <2>1 DEF RotateCommits, TypeOK, Tokens
<1>11. CASE DeleteCommits(w)
  <2>1. status' \in [Agents -> Statuses]
    BY <1>11 DEF DeleteCommits, TypeOK, Statuses
  <2>2. token' \in [Tokens -> TokenRow]
    BY <1>3, <1>11 DEF DeleteCommits, TypeOK
  <2> QED
    BY <1>0, <1>2, <1>8, <1>11, <2>1, <2>2 DEF DeleteCommits, TypeOK
<1>12. CASE ForceDisconnect(w)
  <2>1. \A h \in Handler : [h EXCEPT !.closed = TRUE] \in Handler
    BY DEF Handler
  <2> QED
    BY <1>0, <1>12, <2>1 DEF ForceDisconnect, TypeOK
<1> QED
  BY <1>4, <1>5, <1>6, <1>7, <1>9, <1>10, <1>11, <1>12 DEF Operator

\* Every step keeps the types.
LEMMA TypeStep ==
    ASSUME TypeOK, [Next]_vars
    PROVE  TypeOK'
<1>1. CASE UNCHANGED vars
  BY <1>1 DEF TypeOK, vars
<1>2. CASE GatewayRestarts
  BY <1>2, FreeIsHandler DEF GatewayRestarts, TypeOK
<1>3. ASSUME NEW k \in Conns, Connection(k)
      PROVE  TypeOK'
  BY <1>3, TypeServing, TypeJoining DEF Connection
<1> QED
  BY <1>1, <1>2, <1>3, TypeConnect, TypeOperator DEF Next

\* No project has a row at first.
LEMMA TypeInit == Init => TypeOK
<1> SUFFICES ASSUME Init PROVE TypeOK
  OBVIOUS
<1>1. Idle \in RequestState /\ Free \in Handler
  BY FreeIsHandler DEF Idle, RequestState, Statuses
<1>2. /\ [agent |-> Nobody, from |-> NoToken, revoked |-> FALSE] \in CredRow
      /\ [state |-> "none", agent |-> Nobody] \in TokenRow
  BY DEF CredRow, TokenRow
<1> QED
  BY <1>1, <1>2 DEF Init, TypeOK, Statuses

\* The rows, the handlers and the requests hold what the program can put there,
\* through every connection, request and restart of the gateway.
THEOREM EnrollmentTypes == Spec => []TypeOK
BY TypeInit, TypeStep, PTL DEF Spec

-----------------------------------------------------------------------------
(* A one-time token gives one credential.                                  *)

\* The lock on the row of a token that is being redeemed holds one redemption
\* at a time and keeps the token live; a token that is live, or not issued yet,
\* has given no credential.
Redemptions ==
    /\ \A j, k \in Conns :
        conn[j].at = "enrolling" /\ conn[k].at = "enrolling" /\ conn[j].token = conn[k].token
            => j = k
    /\ \A k \in Conns : conn[k].at = "enrolling" /\ conn[k].token \in OneTime
            => token[conn[k].token].state = "live"
    /\ \A t \in OneTime : token[t].state \in {"none", "live"} => \A c \in Creds : cred[c].from # t

RotationInv == Redemptions /\ OneCredentialPerRotation

\* A new redemption finds the row unlocked.
LEMMA RotationEnrollReads ==
    ASSUME TypeOK, RotationInv, NEW k \in Conns, NEW t \in Tokens, NEW a \in Agents,
           EnrollReads(k, t, a)
    PROVE  RotationInv'
<1>1. /\ \A j \in Conns \ {k} : conn'[j] = conn[j]
      /\ conn'[k].at = "enrolling" /\ conn'[k].token = t
  BY DEF EnrollReads, TypeOK, Free
<1>2. \A j \in Conns : conn[j].at = "enrolling" => conn[j].token # t
  BY DEF EnrollReads, Locked
<1> QED
  BY <1>1, <1>2 DEF RotationInv, Redemptions, OneCredentialPerRotation, EnrollReads, Redeemable

\* The redemption that commits ends its token.
LEMMA RotationEnrollCommits ==
    ASSUME TypeOK, RotationInv, NEW k \in Conns, EnrollCommits(k)
    PROVE  RotationInv'
<1> DEFINE t == conn[k].token
           new == CHOOSE c \in Unused : TRUE
<1>1. new \in Creds
  BY DEF EnrollCommits, Unused
<1>2. conn[k] \in Handler /\ t \in Tokens
  BY DEF TypeOK, EnrollCommits, Handler
<1>3. /\ \A j \in Conns \ {k} : conn'[j] = conn[j]
      /\ conn'[k].at = "replying"
  BY <1>2 DEF EnrollCommits, TypeOK, Handler
<1>4. \A c \in Creds \ {new} : cred'[c] = cred[c]
  BY DEF EnrollCommits, TypeOK
<1>5. cred'[new].from = t
  BY <1>1 DEF EnrollCommits, TypeOK
<1>6. /\ \A s \in Tokens \ {t} : token'[s] = token[s]
      /\ t \in OneTime => token'[t].state = "used"
      /\ t \notin OneTime => token'[t] = token[t]
  BY <1>2 DEF EnrollCommits, TypeOK, TokenRow
<1>7. t \in OneTime => \A c \in Creds : cred[c].from # t
  BY DEF RotationInv, Redemptions, EnrollCommits
<1>8. OneCredentialPerRotation'
  BY <1>1, <1>4, <1>5, <1>7 DEF RotationInv, OneCredentialPerRotation
<1>9. Redemptions'
  <2>1. \A j \in Conns : conn'[j].at = "enrolling" => j # k /\ conn[j].token # t
    BY <1>3 DEF RotationInv, Redemptions, EnrollCommits
  <2>2. \A s \in OneTime : token'[s].state \in {"none", "live"} => s # t
    BY <1>6
  <2> HIDE DEF t, new
  <2> QED
    BY <1>1, <1>2, <1>3, <1>4, <1>5, <1>6, <2>1, <2>2 DEF RotationInv, Redemptions, Tokens
<1> QED
  BY <1>8, <1>9 DEF RotationInv

\* No other step starts a redemption or gives a credential.
LEMMA RotationOther ==
    ASSUME TypeOK, TypeOK', RotationInv, cred' = cred, token' = token,
           \A k \in Conns : conn'[k].at = "enrolling" => conn'[k] = conn[k]
    PROVE  RotationInv'
BY DEF RotationInv, Redemptions, OneCredentialPerRotation

\* The requests touch no row that is locked, and credentials keep their token.
LEMMA RotationOperator ==
    ASSUME TypeOK, TypeOK', RotationInv, NEW w \in Requests, Operator(w)
    PROVE  RotationInv'
<1>0. \A a : \A c \in Creds : Revoked(a)[c].from = cred[c].from
  BY DEF Revoked, TypeOK, CredRow
<1>1. CASE MintReads(w) \/ RequestFails(w) \/ \E op \in {"revoke", "rotate", "delete"}, a \in Agents :
                RequestReads(w, op, a)
  BY <1>1, RotationOther DEF MintReads, RequestFails, RequestReads
<1>2. CASE ForceDisconnect(w)
  <2>1. \A k \in Conns : conn'[k].at = conn[k].at /\ conn'[k].token = conn[k].token
    BY <1>2 DEF ForceDisconnect, TypeOK, Handler
  <2> QED
    <3>1. cred' = cred /\ token' = token
      BY <1>2 DEF ForceDisconnect
    <3>2. OneCredentialPerRotation'
      BY <3>1 DEF RotationInv, OneCredentialPerRotation
    <3>3. Redemptions'
      BY <2>1, <3>1 DEF RotationInv, Redemptions
    <3> QED
      BY <3>2, <3>3 DEF RotationInv
<1>3. CASE MintCommits(w)
  <2>1. \A t \in OneTime : token'[t] = token[t]
    <3>1. request[w].tokens \subseteq Standing
      BY DEF TypeOK, RequestState
    <3>2. PICK new \in Standing : \A s \in Tokens \ {new} :
                token'[s] = token[s] \/ s \in request[w].tokens
      BY <1>3, <3>1 DEF MintCommits, Tokens
    <3> QED
      BY <3>1, <3>2, EnrollmentAssumption DEF Tokens
  <2>2. conn' = conn /\ cred' = cred
    BY <1>3 DEF MintCommits
  <2> QED
    BY <2>1, <2>2 DEF RotationInv, Redemptions, OneCredentialPerRotation
<1>4. CASE RevokeCommits(w)
  BY <1>0, <1>4 DEF RevokeCommits, RotationInv, Redemptions, OneCredentialPerRotation
<1>5. ASSUME NEW t \in OneTime, RotateCommits(w, t)
      PROVE  RotationInv'
  <2>1. /\ token'[t].state = "live" /\ token[t].state = "none"
        /\ \A s \in Tokens \ {t} : token'[s] = token[s]
    BY <1>5 DEF RotateCommits, TypeOK, Tokens
  <2>2. conn' = conn /\ \A c \in Creds : cred'[c].from = cred[c].from
    BY <1>0, <1>5 DEF RotateCommits
  <2>3. \A k \in Conns : conn[k].at = "enrolling" /\ conn[k].token \in OneTime => conn[k].token # t
    BY <2>1 DEF RotationInv, Redemptions
  <2>4. \A s \in OneTime : token'[s].state \in {"none", "live"} => \A c \in Creds : cred[c].from # s
    BY <2>1 DEF RotationInv, Redemptions, Tokens
  <2>5. OneCredentialPerRotation'
    BY <2>2 DEF RotationInv, OneCredentialPerRotation
  <2>6. Redemptions'
    BY <2>1, <2>2, <2>3, <2>4 DEF RotationInv, Redemptions, Tokens
  <2> QED
    BY <2>5, <2>6 DEF RotationInv
<1>6. CASE DeleteCommits(w)
  <2>1. ASSUME NEW t \in OneTime
        PROVE  \/ token'[t] = token[t]
               \/ token'[t].state = "dead" /\ ~Locked(t)
    <3>1. t \in Tokens /\ token[t] \in TokenRow
      BY DEF TypeOK, Tokens
    <3>2. [token[t] EXCEPT !.state = "dead"].state = "dead"
      BY <3>1 DEF TokenRow
    <3>3. token'[t] = IF token[t].agent = request[w].agent
                      THEN [token[t] EXCEPT !.state = "dead"] ELSE token[t]
      BY <1>6, <3>1 DEF DeleteCommits
    <3>4. token[t].agent = request[w].agent => ~Locked(t)
      BY <1>6 DEF DeleteCommits
    <3> QED
      BY <3>2, <3>3, <3>4
  <2>2. conn' = conn /\ \A c \in Creds : cred'[c].from = cred[c].from
    BY <1>0, <1>6 DEF DeleteCommits
  <2> QED
    BY <2>1, <2>2 DEF RotationInv, Redemptions, OneCredentialPerRotation, Locked
<1> QED
  BY <1>1, <1>2, <1>3, <1>4, <1>5, <1>6 DEF Operator

\* Every step keeps the strengthening: an unredeemed token has given nothing, and
\* only one redemption at a time holds it.
LEMMA RotationStep ==
    ASSUME TypeOK, RotationInv, [Next]_vars
    PROVE  RotationInv'
<1>1. TypeOK'
  BY TypeStep
<1>2. CASE UNCHANGED vars
  BY <1>2 DEF vars, RotationInv, Redemptions, OneCredentialPerRotation
<1>3. ASSUME NEW k \in Conns, NEW a \in Agents, NEW c \in Creds, Authenticate(k, a, c)
      PROVE  RotationInv'
  BY <1>1, <1>3, RotationOther DEF Authenticate, TypeOK, Free
<1>4. ASSUME NEW k \in Conns, Connection(k), ~EnrollCommits(k)
      PROVE  RotationInv'
  <2>1. cred' = cred /\ token' = token
    BY <1>4 DEF Connection, AuthenticateCommits, EnrollFails, Register, ReplyFails, Heartbeat,
        HeartbeatCommits, ConnectionEnds, CleanUp, MarkOfflineReads, MarkOfflineCommits
  <2>2. CASE Register(k)
    <3>1. \A j \in Conns : conn'[j].at = "enrolling" =>
                /\ conn[j].at = "enrolling" /\ conn'[j].token = conn[j].token
      BY <2>2 DEF Register, TypeOK, Handler
    <3> QED
      BY <2>1, <3>1 DEF RotationInv, Redemptions, OneCredentialPerRotation
  <2>3. CASE ~Register(k)
    <3>1. \A j \in Conns : conn'[j].at = "enrolling" => conn'[j] = conn[j]
      BY <1>4, <2>3 DEF Connection, AuthenticateCommits, EnrollFails, ReplyFails, Heartbeat,
          HeartbeatCommits, ConnectionEnds, CleanUp, MarkOfflineReads, MarkOfflineCommits,
          Move, MoveSeeing, Leave, Free, TypeOK, Handler
    <3> QED
      BY <1>1, <2>1, <3>1, RotationOther
  <2> QED
    BY <2>2, <2>3
<1>5. CASE GatewayRestarts
  BY <1>1, <1>5, RotationOther DEF GatewayRestarts, Free
<1> QED
  BY <1>1, <1>2, <1>3, <1>4, <1>5, RotationEnrollReads, RotationEnrollCommits, RotationOperator DEF Next

\* However the redemptions of a one-time token race in enroll_agent, and whatever
\* connections, requests and restarts do meanwhile, it gives one credential.
THEOREM RotationGivesOneCredential == Spec => []OneCredentialPerRotation
<1>1. Init => RotationInv
  BY EnrollmentAssumption
     DEF Init, RotationInv, Redemptions, OneCredentialPerRotation, Free, Tokens
<1>2. TypeOK /\ RotationInv /\ [Next]_vars => TypeOK' /\ RotationInv'
  BY TypeStep, RotationStep
<1>3. RotationInv => OneCredentialPerRotation
  BY DEF RotationInv
<1> QED
  BY <1>1, <1>2, <1>3, TypeInit, PTL DEF Spec

-----------------------------------------------------------------------------
(* The open connection of an agent is its current one.                     *)

\* Going to another step, a handler keeps its agent and stays closed if it was.
LEMMA Moved ==
    ASSUME TypeOK, NEW k \in Conns, NEW at, Move(k, at) \/ MoveSeeing(k, at)
    PROVE  /\ conn'[k].at = at /\ conn'[k].agent = conn[k].agent /\ conn'[k].closed = conn[k].closed
           /\ \A j \in Conns \ {k} : conn'[j] = conn[j]
<1>1. conn \in [Conns -> Handler] /\ conn[k] \in Handler
  BY DEF TypeOK
<1>2. ASSUME NEW h \in Handler, NEW seen
      PROVE  LET g == [h EXCEPT !.at = at, !.seen = seen] IN
             g.at = at /\ g.agent = h.agent /\ g.closed = h.closed
  BY DEF Handler
<1>3. PICK seen : conn' = [conn EXCEPT ![k] = [conn[k] EXCEPT !.at = at, !.seen = seen]]
  <2>1. CASE Move(k, at)
    BY <1>1, <2>1 DEF Move
  <2>2. CASE MoveSeeing(k, at)
    BY <1>1, <2>2 DEF MoveSeeing
  <2> QED
    BY <2>1, <2>2
<1>4. conn'[k] = [conn[k] EXCEPT !.at = at, !.seen = seen] /\ \A j \in Conns \ {k} : conn'[j] = conn[j]
  BY <1>1, <1>3
<1> QED
  BY <1>1, <1>2, <1>4

\* A handler that has ended is not served.
LEMMA Left ==
    ASSUME TypeOK, NEW k \in Conns, Leave(k)
    PROVE  conn'[k].at = "free" /\ \A j \in Conns \ {k} : conn'[j] = conn[j]
BY DEF Leave, Free, TypeOK

\* A connection is served after a step because it was before, or because the step
\* registers it and closes the one it replaces.
LEMMA OpenStep ==
    ASSUME TypeOK, OpenIsCurrent, [Next]_vars
    PROVE  OpenIsCurrent'
<1> USE DEF OpenIsCurrent
<1>1. CASE UNCHANGED vars
  BY <1>1 DEF vars
<1>2. ASSUME NEW k \in Conns, Register(k)
      PROVE  OpenIsCurrent'
  <2>1. conn[k].agent \in Agents
    BY <1>2, Busy DEF Register
  <2>2. \A j \in Conns \ {k} :
            /\ conn'[j].at = conn[j].at /\ conn'[j].agent = conn[j].agent
            /\ conn[j].closed \/ j = current[conn[k].agent] => conn'[j].closed
    BY <1>2 DEF Register, TypeOK, Handler
  <2>3. conn'[k].agent = conn[k].agent
    BY <1>2 DEF Register, TypeOK, Handler
  <2> QED
    BY <1>2, <2>1, <2>2, <2>3 DEF Register, TypeOK
<1>3. ASSUME NEW k \in Conns, CleanUp(k)
      PROVE  OpenIsCurrent'
  <2>1. conn[k].agent \in Agents
    BY <1>3, Busy DEF CleanUp
  <2>2. \A j \in Conns : conn'[j].at \in {"serving", "beating"} => j # k /\ conn'[j] = conn[j]
    BY <1>3 DEF CleanUp, Move, Leave, Free, TypeOK, Handler
  <2>3. \A j \in Conns : conn[j].at \in {"serving", "beating"} => conn[j].agent \in Agents
    BY Busy
  <2>4. \/ current' = current
        \/ /\ current[conn[k].agent] = k
           /\ current' = [current EXCEPT ![conn[k].agent] = NoConn]
    BY <1>3 DEF CleanUp
  <2> QED
    BY <2>1, <2>2, <2>3, <2>4 DEF TypeOK
<1>4. ASSUME NEW k \in Conns, Connection(k), ~Register(k), ~CleanUp(k)
      PROVE  OpenIsCurrent'
  <2>1. \A j \in Conns : conn'[j].at \in {"serving", "beating"} =>
            /\ conn[j].at \in {"serving", "beating"}
            /\ conn'[j].agent = conn[j].agent /\ conn'[j].closed = conn[j].closed
    <3>1. CASE EnrollCommits(k)
      <4>1. conn'[k].at = "replying" /\ \A j \in Conns \ {k} : conn'[j] = conn[j]
        BY <3>1 DEF EnrollCommits, TypeOK, Handler
      <4> QED
        BY <4>1
    <3>2. CASE \E at \in {"replying", "closing", "marking"} : Move(k, at) \/ MoveSeeing(k, at)
      BY <3>2, Moved
    <3>3. CASE Leave(k)
      BY <3>3, Left
    <3>4. CASE /\ conn[k].at \in {"serving", "beating"}
               /\ \E at \in {"serving", "beating"} : Move(k, at) \/ MoveSeeing(k, at)
      BY <3>4, Moved
    <3>5. \/ EnrollCommits(k) \/ Leave(k)
          \/ \E at \in {"replying", "closing", "marking"} : Move(k, at) \/ MoveSeeing(k, at)
          \/ /\ conn[k].at \in {"serving", "beating"}
             /\ \E at \in {"serving", "beating"} : Move(k, at) \/ MoveSeeing(k, at)
      BY <1>4
         DEF Connection, AuthenticateCommits, EnrollFails, ReplyFails, Heartbeat,
             HeartbeatCommits, ConnectionEnds, MarkOfflineReads, MarkOfflineCommits
    <3> QED
      BY <3>1, <3>2, <3>3, <3>4, <3>5
  <2>2. current' = current
    BY <1>4 DEF Connection, AuthenticateCommits, EnrollCommits, EnrollFails, ReplyFails, Heartbeat,
        HeartbeatCommits, ConnectionEnds, MarkOfflineReads, MarkOfflineCommits
  <2> QED
    BY <2>1, <2>2
<1>5. ASSUME NEW k \in Conns, NEW a \in Agents,
             (\E c \in Creds : Authenticate(k, a, c)) \/ \E t \in Tokens : EnrollReads(k, t, a)
      PROVE  OpenIsCurrent'
  <2>1. \A j \in Conns : conn'[j].at \in {"serving", "beating"} => conn'[j] = conn[j]
    <3>1. \A j \in Conns \ {k} : conn'[j] = conn[j]
      BY <1>5 DEF Authenticate, EnrollReads, TypeOK
    <3>2. conn'[k].at \in {"authing", "enrolling"}
      <4>1. CASE \E c \in Creds : Authenticate(k, a, c)
        BY <4>1 DEF Authenticate, Free, TypeOK
      <4>2. CASE \E t \in Tokens : EnrollReads(k, t, a)
        BY <4>2 DEF EnrollReads, Free, TypeOK
      <4> QED
        BY <1>5, <4>1, <4>2
    <3> QED
      BY <3>1, <3>2
  <2>2. current' = current
    BY <1>5 DEF Authenticate, EnrollReads
  <2> QED
    BY <2>1, <2>2
<1>6. ASSUME NEW w \in Requests, Operator(w)
      PROVE  OpenIsCurrent'
  <2>1. \A j \in Conns : /\ conn'[j].at = conn[j].at /\ conn'[j].agent = conn[j].agent
                         /\ conn[j].closed => conn'[j].closed
    <3>1. CASE ForceDisconnect(w)
      <4>1. CASE UNCHANGED conn
        BY <4>1
      <4>2. CASE ~UNCHANGED conn
        <5> DEFINE i == current[request[w].agent]
        <5>1. conn \in [Conns -> Handler] /\ conn' = [conn EXCEPT ![i] = [conn[i] EXCEPT !.closed = TRUE]]
          BY <3>1, <4>2 DEF ForceDisconnect, TypeOK
        <5>2. \A h \in Handler : LET g == [h EXCEPT !.closed = TRUE] IN
                                  g.at = h.at /\ g.agent = h.agent /\ g.closed
          BY DEF Handler
        <5>3. \A j \in Conns : conn'[j] = IF j = i THEN [conn[j] EXCEPT !.closed = TRUE] ELSE conn[j]
          BY <5>1
        <5> QED
          BY <5>1, <5>2, <5>3
      <4> QED
        BY <4>1, <4>2
    <3>2. CASE ~ForceDisconnect(w)
      BY <1>6, <3>2 DEF Operator, MintReads, MintCommits, RequestReads, RequestFails,
          RevokeCommits, RotateCommits, DeleteCommits
    <3> QED
      BY <3>1, <3>2
  <2>2. current' = current
    BY <1>6 DEF Operator, MintReads, MintCommits, RequestReads, RequestFails, RevokeCommits,
        RotateCommits, DeleteCommits, ForceDisconnect
  <2> QED
    BY <2>1, <2>2
<1>7. CASE GatewayRestarts
  BY <1>7 DEF GatewayRestarts, Free
<1> QED
  BY <1>1, <1>2, <1>3, <1>4, <1>5, <1>6, <1>7 DEF Next

\* The connection of an agent that _serve_authenticated serves and nothing has
\* closed is the one in _connections, where commands and disconnects go.
THEOREM OpenConnectionIsCurrent == Spec => []OpenIsCurrent
<1>1. Init => OpenIsCurrent
  BY DEF Init, OpenIsCurrent, Free
<1>2. TypeOK /\ OpenIsCurrent /\ [Next]_vars => TypeOK' /\ OpenIsCurrent'
  BY TypeStep, OpenStep
<1> QED
  BY <1>1, <1>2, TypeInit, PTL DEF Spec

=============================================================================
