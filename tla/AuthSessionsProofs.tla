------------------------- MODULE AuthSessionsProofs -------------------------
(***************************************************************************)
(* Theorems about AuthSessions, for any browsers, GitHub users, requests   *)
(* and deadlines.                                                          *)
(***************************************************************************)
EXTENDS AuthSessions, TLAPS

----------------------------------------------------------------------------
(* The shape of a request.                                                 *)

Fields == {"ask", "pc", "gate", "tok", "csrf", "sid", "due", "rt", "spent", "set", "barred",
           "ok"}

AskFits(ask) ==
  /\ ask.kind \in Kinds
  /\ ask.browser \in Browsers
  /\ ask.g \in GitHubUsers
  /\ ask.browser \in Careful => ~ask.dies /\ ask.csrf = "right"

\* A request is only where its kind may bring it.
PcFits(r) ==
  /\ req[r].gate => Gated(Kind(r))
  /\ req[r].gate => req[r].pc \in {"load", "token", "refresh", "store", "revoke", "rotate",
                                   "answered", "done"}
  /\ req[r].pc \in {"consume", "exchange", "complete"} => Callback(Kind(r))
  /\ req[r].pc = "renew" => Kind(r) = "renew"
  /\ req[r].pc = "rotate" => req[r].gate \/ Kind(r) \in {"me", "renew"}

Shape ==
  /\ DOMAIN req = Requests
  /\ \A r \in Requests : DOMAIN req[r] = Fields /\ AskFits(req[r].ask) /\ PcFits(r)

IsOver(r) == req[r].pc \in {"answered", "done"}

----------------------------------------------------------------------------
(* Accounts and sessions.                                                  *)

\* Users and sessions are named after the logins that made them.
Logged == {r \in Requests : Kind(r) = "login" /\ IsOver(r)}

Created == Seats \cup Logged

Names ==
  /\ users \subseteq {0} \cup Logged
  /\ DOMAIN sessions \subseteq Created
  /\ ended \subseteq Created
  /\ \A r \in Requests : /\ req[r].sid \in {0} \cup Created
                         /\ req[r].pc = "new" => req[r].sid = 0

\* The session that may hold a token, as far as the token's request has come.
Held(t, s) ==
  \/ s \in Seats /\ t = <<s, "first">>
  \/ \E r \in Requests :
       \/ t = <<r, "code">> /\ Kind(r) = "login" /\ s = r /\ IsOver(r)
       \/ t = <<r, "code">> /\ Kind(r) = "link" /\ s = req[r].sid /\ IsOver(r)
       \/ t = <<r, "again">> /\ Kind(r) = "renew" /\ s = req[r].sid /\ IsOver(r)
       \/ /\ t = <<r, "main">> /\ Kind(r) \in {"me", "renew"} /\ s = req[r].sid
          /\ IsOver(r) \/ req[r].pc = "renew"
       \/ /\ t = <<r, "gate">> /\ Gated(Kind(r)) /\ s = req[r].sid
          /\ ~req[r].gate /\ req[r].pc # "new" /\ (IsOver(r) \/ req[r].tok = t)

Accounts ==
  /\ DOMAIN tokens = DOMAIN accounts
  /\ accounts \in [DOMAIN accounts -> [user : users, linked : BOOLEAN]]
  /\ \A g, h \in DOMAIN accounts :
        accounts[g].linked /\ accounts[h].linked /\ accounts[g].user = accounts[h].user => g = h

\* Also a session that has ended is of an account of its user.
Sessions ==
  \A s \in DOMAIN sessions :
    /\ DOMAIN sessions[s] = {"user", "g", "token", "valid", "due"}
    /\ sessions[s].g \in DOMAIN accounts
    /\ accounts[sessions[s].g].user = sessions[s].user
    /\ sessions[s].valid => accounts[sessions[s].g].linked
    /\ Held(sessions[s].token, s)

Ended ==
  /\ \A s \in ended \cap DOMAIN sessions : ~sessions[s].valid
  /\ \A r \in Requests : req[r].barred \subseteq ended /\ req[r].sid \notin req[r].barred

Inv == Shape /\ Names /\ Accounts /\ Sessions /\ Ended

----------------------------------------------------------------------------
(* Steps of a request.                                                     *)

\* A request has not been to GitHub yet, at the gateway or in its handler.
Early == {"new", "consume", "exchange", "load", "token", "refresh"}

\* What every step of a request that is begun does to it, but for Load.
Moves(r) ==
  /\ DOMAIN req' = Requests
  /\ \A q \in Requests \ {r} : req'[q] = req[q]
  /\ DOMAIN req'[r] = Fields
  /\ req'[r].ask = req[r].ask
  /\ req'[r].barred = req[r].barred
  /\ req'[r].sid = req[r].sid
  /\ req[r].pc # "new" /\ req'[r].pc # "new"
  /\ ~req[r].gate => ~req'[r].gate
  /\ PcFits(r)'
  /\ IsOver(r) => IsOver(r)'
  /\ req[r].pc = "renew" => IsOver(r)'
  /\ ~req[r].gate => IsOver(r)' \/ req'[r].tok = req[r].tok
  /\ req[r].pc \notin {"consume", "exchange"} => req'[r].pc \notin {"consume", "exchange"}
  /\ req[r].pc \notin Early => ~req'[r].gate \/ req'[r].pc \notin Early
  /\ req[r].pc \notin Early /\ ~req[r].gate => req'[r].pc \notin Early

\* A request that is over stays where its kind may bring it.
LEMMA OverMoves ==
  ASSUME Shape, NEW r \in Requests, NEW ok, NEW set, Over(r, ok, set),
         req[r].pc # "new"
  PROVE  Moves(r) /\ req'[r].pc = "answered"
  BY DEF Shape, Over, Change, Moves, Early, Fields, PcFits, IsOver, Kind, NoToken

LEMMA ReceiveMoves ==
  ASSUME Shape, NEW r \in Requests, Receive(r)
  PROVE  Moves(r) /\ IsOver(r)
  BY DEF Shape, Receive, Change, Moves, Early, Fields, PcFits, IsOver, Kind

LEMMA FailMoves ==
  ASSUME Shape, NEW r \in Requests, Fail(r)
  PROVE  Moves(r)
  BY DEF Shape, Fail, InFlight, Change, Moves, Early, Fields, PcFits, IsOver, Kind, NoToken

LEMMA ProceedMoves ==
  ASSUME Shape, NEW r \in Requests, NEW tok, NEW set, Proceed(r, tok, set),
         req[r].pc \in {"token", "store", "revoke", "rotate"},
         req[r].pc = "rotate" \/ tok = req[r].tok
  PROVE  Moves(r)
<1> USE DEF Shape, Moves, Early, Fields, PcFits, IsOver, Kind
<1>1. CASE req[r].gate
  <2>1. Change(r, [gate |-> FALSE, tok |-> tok, set |-> set,
                   pc |-> IF Kind(r) = "profile" THEN "principal" ELSE "load",
                   csrf |-> IF set # {} /\ req[r].csrf # "none" THEN "right" ELSE req[r].csrf])
    BY <1>1 DEF Proceed
  <2> QED
    BY <1>1, <2>1 DEF Change
<1>2. CASE ~req[r].gate /\ Callback(Kind(r))
  <2>1. Change(r, [pc |-> "complete"])
    BY <1>2 DEF Proceed, Callback
  <2> QED
    BY <1>2, <2>1 DEF Change, Callback
<1>3. CASE ~req[r].gate /\ ~Callback(Kind(r))
  <2>1. \/ \E ok, x : Over(r, ok, x)
        \/ Change(r, [pc |-> Kind(r)])
    BY <1>3 DEF Proceed, Callback, Succeed, Refuse
  <2>2. Kind(r) \in {"start", "startlink", "me", "renew", "logout", "profile", "unlink", "delete"}
    BY <1>3 DEF AskFits, Kinds, Callback
  <2>3. ASSUME Change(r, [pc |-> Kind(r)]) PROVE Moves(r)
    BY <1>3, <2>2, <2>3 DEF Change, Callback
  <2> QED
    BY <2>1, <2>3, OverMoves
<1> QED
  BY <1>1, <1>2, <1>3

LEMMA AuthorizedMoves ==
  ASSUME Shape, NEW r \in Requests, Authorized(r),
         req[r].pc \in {"token", "store", "revoke"}
  PROVE  Moves(r)
<1>1. CASE allowRotation(r) /\ req[r].due
  <2>1. Change(r, [pc |-> "rotate"])
    BY <1>1 DEF Authorized
  <2> QED
    BY <1>1, <2>1 DEF allowRotation, Change, Shape, Moves, Early, Fields, PcFits, IsOver, Kind
<1>2. CASE ~(allowRotation(r) /\ req[r].due)
  <2>1. Proceed(r, req[r].tok, req[r].set)
    BY <1>2 DEF Authorized
  <2> QED
    BY <2>1, ProceedMoves
<1> QED
  BY <1>1, <1>2

LEMMA LoadGitHubTokenMoves ==
  ASSUME Shape, NEW r \in Requests, LoadGitHubToken(r)
  PROVE  Moves(r)
<1>1. CASE Authorized(r)
  BY <1>1, AuthorizedMoves DEF LoadGitHubToken
<1>2. ASSUME NEW rt, Change(r, [pc |-> "refresh", rt |-> rt])
      PROVE  Moves(r)
  BY <1>2 DEF LoadGitHubToken, Change, Shape, Moves, Early, Fields, PcFits, IsOver, Kind
<1>3. ASSUME Change(r, [pc |-> "revoke"])
      PROVE  Moves(r)
  BY <1>3 DEF LoadGitHubToken, Change, Shape, Moves, Early, Fields, PcFits, IsOver, Kind
<1> QED
  BY <1>1, <1>2, <1>3 DEF LoadGitHubToken

LEMMA RefreshMoves ==
  ASSUME Shape, NEW r \in Requests, RefreshUserAccessToken(r)
  PROVE  Moves(r)
<1> USE DEF Change, Shape, Moves, Early, Fields, PcFits, IsOver, Kind
<1>0. req[r].pc = "refresh"
  BY DEF RefreshUserAccessToken
<1>1. ASSUME NEW rt, NEW spent, Change(r, [pc |-> "store", rt |-> rt, spent |-> spent])
      PROVE  Moves(r)
  BY <1>0, <1>1
<1>2. ASSUME NEW spent, Change(r, [pc |-> "revoke", spent |-> spent])
      PROVE  Moves(r)
  BY <1>0, <1>2
<1>3. ASSUME Change(r, [pc |-> "revoke"])
      PROVE  Moves(r)
  BY <1>0, <1>3
<1> QED
  BY <1>1, <1>2, <1>3 DEF RefreshUserAccessToken

LEMMA StoreMoves ==
  ASSUME Shape, NEW r \in Requests, StoreToken(r) \/ MarkTokenRevoked(r)
  PROVE  Moves(r)
  BY AuthorizedMoves DEF StoreToken, MarkTokenRevoked

LEMMA RotateMoves ==
  ASSUME Shape, NEW r \in Requests, Rotate(r)
  PROVE  Moves(r)
  BY ProceedMoves, OverMoves DEF Rotate, Refuse

LEMMA HandlerMoves ==
  ASSUME Shape, NEW r \in Requests,
         \/ LoadSessionPrincipal(r) \/ RefreshSession(r) \/ Logout(r) \/ UnlinkAccount(r)
         \/ DeleteAccount(r) \/ StartOAuth(r) \/ CompleteAuth(r)
  PROVE  Moves(r) /\ IsOver(r)'
<1>1. /\ req[r].pc # "new"
      /\ \E ok, set : Over(r, ok, set)
  BY DEF LoadSessionPrincipal, RefreshSession, Logout, UnlinkAccount, DeleteAccount, StartOAuth,
         CompleteAuth, Succeed, Refuse
<1> QED
  BY <1>1, OverMoves DEF IsOver

LEMMA ConsumeMoves ==
  ASSUME Shape, NEW r \in Requests, ConsumeOAuthState(r)
  PROVE  Moves(r)
<1>1. CASE Change(r, [pc |-> "exchange"])
  BY <1>1 DEF ConsumeOAuthState, Change, Shape, Moves, Early, Fields, PcFits, IsOver, Kind
<1>2. CASE Refuse(r)
  BY <1>2, OverMoves DEF Refuse, ConsumeOAuthState
<1> QED
  BY <1>1, <1>2 DEF ConsumeOAuthState

LEMMA ExchangeMoves ==
  ASSUME Shape, NEW r \in Requests, ExchangeUserAccessToken(r)
  PROVE  Moves(r)
<1>1. ASSUME NEW pc \in {"complete", "load"}, Change(r, [pc |-> pc]) PROVE Moves(r)
  BY <1>1 DEF ExchangeUserAccessToken, Change, Shape, Moves, Early, Fields, PcFits, IsOver, Kind
<1>2. CASE Refuse(r)
  BY <1>2, OverMoves DEF Refuse, ExchangeUserAccessToken
<1> QED
  BY <1>1, <1>2 DEF ExchangeUserAccessToken

----------------------------------------------------------------------------
(* What a step of a request leaves of the invariant.                       *)

LEMMA MovesShape ==
  ASSUME Shape, NEW r \in Requests, Moves(r)
  PROVE  Shape' /\ Created \subseteq Created' /\ Created' \subseteq Created \cup {r}
<1>1. Shape'
  BY DEF Shape, Moves, PcFits, Kind
<1>2. Logged \subseteq Logged' /\ Logged' \subseteq Logged \cup {r}
  BY DEF Shape, Moves, Logged, IsOver, Kind
<1> QED
  BY <1>1, <1>2 DEF Created

LEMMA HeldMoves ==
  ASSUME Shape, NEW r \in Requests, Moves(r), NEW t, NEW s, Held(t, s)
  PROVE  Held(t, s)'
<1>1. CASE s \in Seats /\ t = <<s, "first">>
  BY <1>1 DEF Held
<1>2. ASSUME NEW q \in Requests,
             \/ t = <<q, "code">> /\ Kind(q) = "login" /\ s = q /\ IsOver(q)
             \/ t = <<q, "code">> /\ Kind(q) = "link" /\ s = req[q].sid /\ IsOver(q)
             \/ t = <<q, "again">> /\ Kind(q) = "renew" /\ s = req[q].sid /\ IsOver(q)
             \/ /\ t = <<q, "main">> /\ Kind(q) \in {"me", "renew"} /\ s = req[q].sid
                /\ IsOver(q) \/ req[q].pc = "renew"
             \/ /\ t = <<q, "gate">> /\ Gated(Kind(q)) /\ s = req[q].sid
                /\ ~req[q].gate /\ req[q].pc # "new" /\ (IsOver(q) \/ req[q].tok = t)
      PROVE  Held(t, s)'
  <2>1. CASE q = r
    BY <1>2, <2>1 DEF Moves, Kind, IsOver, Held
  <2>2. CASE q # r
    <3>1. req'[q] = req[q]
      BY <2>2 DEF Moves
    <3> QED
      BY <1>2, <3>1 DEF Kind, IsOver, Held
  <2> QED
    BY <2>1, <2>2
<1> QED
  BY <1>1, <1>2 DEF Held

\* A token opens no two sessions.
LEMMA HeldOnce ==
  ASSUME Shape, NEW t, NEW s, NEW u, Held(t, s), Held(t, u)
  PROVE  s = u
  BY NamesAssumption DEF Held

LEMMA QuietKeeps ==
  ASSUME Inv, NEW r \in Requests, Moves(r),
         UNCHANGED <<users, accounts, sessions, ended>>, DOMAIN tokens' = DOMAIN tokens
  PROVE  Inv'
<1> USE DEF Inv
<1>1. Shape' /\ Created \subseteq Created'
  BY MovesShape
<1>2. Names'
  <2>1. Logged \subseteq Logged'
    BY DEF Shape, Moves, Logged, IsOver, Kind
  <2> QED
    BY <1>1, <2>1 DEF Names, Moves
<1>3. Accounts'
  BY DEF Accounts
<1>4. Sessions'
  <2>1. ASSUME NEW t, NEW s, Held(t, s) PROVE Held(t, s)'
    BY <2>1, HeldMoves
  <2> QED
    BY <2>1 DEF Sessions
<1>5. Ended'
  BY DEF Ended, Moves
<1> QED
  BY <1>1, <1>2, <1>3, <1>4, <1>5

LEMMA BeginKeeps ==
  ASSUME Inv, NEW r \in Requests, Begin(r)
  PROVE  Inv'
<1> USE DEF Inv
<1> DEFINE pc == IF Callback(Kind(r)) THEN "consume" ELSE IF Kind(r) = "start" THEN "create"
                 ELSE "load"
<1>1. /\ req[r].pc = "new" /\ DOMAIN req' = Requests /\ DOMAIN req'[r] = Fields
      /\ \A q \in Requests \ {r} : req'[q] = req[q]
      /\ req'[r].ask = req[r].ask /\ req'[r].sid = req[r].sid
      /\ req'[r].pc = pc /\ req'[r].gate = Gated(Kind(r)) /\ req'[r].barred = ended
  BY DEF Begin, Change, Shape, Fields
<1>2. UNCHANGED <<users, accounts, tokens, sessions, ended>>
  BY DEF Begin
<1>3. Shape'
  <2>1. ASSUME NEW q \in Requests \ {r} PROVE PcFits(q)'
    <3>1. PcFits(q) /\ req'[q] = req[q]
      BY <1>1 DEF Shape
    <3> QED
      BY <3>1 DEF PcFits, Kind
  <2>2. PcFits(r)'
    <3>1. Kind(r)' = Kind(r)
      BY <1>1 DEF Kind
    <3> HIDE DEF Inv
    <3> QED
      BY <1>1, <3>1 DEF PcFits, Gated, Callback
  <2> QED
    BY <1>1, <2>1, <2>2 DEF Shape
<1>4. Logged' = Logged /\ Created' = Created
  <2>1. \A q \in Requests : Kind(q)' = Kind(q) /\ (IsOver(q)' <=> IsOver(q))
    BY <1>1 DEF Kind, IsOver
  <2> QED
    BY <2>1 DEF Logged, Created
<1>5. Names'
  BY <1>1, <1>2, <1>4 DEF Names
<1>6. Sessions'
  <2>1. ASSUME NEW t, NEW s, Held(t, s) PROVE Held(t, s)'
    BY <1>1, <2>1 DEF Held, IsOver, Kind
  <2> QED
    BY <1>2, <2>1 DEF Sessions
<1>7. Ended'
  <2>1. req[r].sid = 0 /\ 0 \notin ended
    BY <1>1, NamesAssumption DEF Names, Created, Logged
  <2> QED
    BY <1>1, <1>2, <2>1 DEF Ended
<1> QED
  BY <1>2, <1>3, <1>5, <1>6, <1>7 DEF Accounts

\* A request takes up a session, or a login goes on without one.  A request
\* that already holds a rotated token finds the same session again.
LEMMA TakeUpKeeps ==
  ASSUME Inv, NEW r \in Requests, req[r].pc \in {"load", "token", "refresh", "store"},
         UNCHANGED <<users, accounts, tokens, sessions, ended>>,
         NEW s, NEW pc \in {"complete", "token"},
         DOMAIN req' = Requests, DOMAIN req'[r] = Fields,
         \A q \in Requests \ {r} : req'[q] = req[q],
         req'[r].ask = req[r].ask, req'[r].gate = req[r].gate, req'[r].tok = req[r].tok,
         req'[r].barred = req[r].barred, req'[r].pc = pc, req'[r].sid = s,
         pc = "complete" => Kind(r) = "login" /\ s = 0,
         pc = "token" => s \in LoadSessionByTokenHash(req[r].tok)
  PROVE  Inv'
<1> USE DEF Inv
<1>1. Shape'
  BY DEF Shape, PcFits, Kind, Gated, Callback
<1>2. Logged' = Logged /\ Created' = Created
  <2>1. \A q \in Requests : Kind(q)' = Kind(q) /\ (IsOver(q)' <=> IsOver(q))
    BY DEF Kind, IsOver
  <2> QED
    BY <2>1 DEF Logged, Created
<1>3. \/ s = 0
      \/ s \in DOMAIN sessions /\ sessions[s].token = req[r].tok /\ sessions[s].valid
  BY DEF LoadSessionByTokenHash
<1>4. Names'
  BY <1>2, <1>3 DEF Names
<1>5. Ended'
  <2>1. s \notin ended
    BY <1>3, NamesAssumption DEF Ended, Names, Created, Logged
  <2> QED
    BY <2>1 DEF Ended
<1>6. Sessions'
  <2>1. ASSUME NEW u \in DOMAIN sessions
        PROVE  Held(sessions[u].token, u)'
    <3> DEFINE t == sessions[u].token
    <3>1. Held(t, u) /\ t = sessions'[u].token
      BY DEF Sessions
    <3>2. CASE \E tag : t = <<r, tag>>
      <4>1. t = <<r, "gate">> /\ Gated(Kind(r)) /\ u = req[r].sid /\ ~req[r].gate /\ req[r].tok = t
        BY <3>1, <3>2, NamesAssumption DEF Held, IsOver
      <4>2. pc = "token" /\ s \in LoadSessionByTokenHash(req[r].tok)
        BY <4>1 DEF Gated
      <4>3. Held(t, s)
        BY <4>1, <4>2, <1>3, NamesAssumption DEF Sessions, LoadSessionByTokenHash
      <4>4. s = u
        BY <3>1, <4>3, HeldOnce
      <4> QED
        BY <3>1, <4>1, <4>4 DEF Held, Kind
    <3>3. CASE ~ \E tag : t = <<r, tag>>
      BY <3>1, <3>3 DEF Held, Kind, IsOver
    <3> QED
      BY <3>2, <3>3
  <2> QED
    BY <2>1 DEF Sessions
<1> QED
  BY <1>1, <1>4, <1>5, <1>6 DEF Accounts

LEMMA LoadKeeps ==
  ASSUME Inv, NEW r \in Requests, Load(r)
  PROVE  Inv'
<1> DEFINE found == LoadSessionByTokenHash(req[r].tok)
<1>1. /\ req[r].pc = "load"
      /\ UNCHANGED <<users, accounts, tokens, sessions, ended>>
  BY DEF Load
<1>2. CASE found = {} /\ Kind(r) # "login"
  <2>1. Over(r, FALSE, req[r].set)
    BY <1>2 DEF Load, Refuse
  <2> QED
    BY <1>1, <2>1, OverMoves, QuietKeeps DEF Inv
<1>3. CASE found = {} /\ Kind(r) = "login"
  <2>1. Change(r, [pc |-> "complete", sid |-> 0])
    BY <1>3 DEF Load
  <2> QED
    BY <1>1, <1>3, <2>1, TakeUpKeeps DEF Change, Inv, Shape, Fields
<1>4. ASSUME NEW s \in found,
             Change(r, [pc |-> "token", sid |-> s, due |-> sessions[s].due, spent |-> NoToken])
      PROVE  Inv'
  BY <1>1, <1>4, TakeUpKeeps DEF Change, Inv, Shape, Fields
<1> QED
  BY <1>2, <1>3, <1>4 DEF Load

LEMMA GoesOnKeeps ==
  ASSUME Inv, NEW r \in Requests, LoginGoesOn(r)
  PROVE  Inv'
<1>1. /\ req[r].pc \in {"load", "token", "refresh", "store"} /\ Kind(r) = "login"
      /\ UNCHANGED <<users, accounts, tokens, sessions, ended>>
      /\ Change(r, [pc |-> "complete", sid |-> 0, rt |-> NoToken, spent |-> NoToken])
  BY DEF LoginGoesOn
<1> QED
  BY <1>1, TakeUpKeeps DEF Change, Inv, Shape, Fields

----------------------------------------------------------------------------
(* Steps that write accounts or sessions.                                  *)

SessionFields == {"user", "g", "token", "valid", "due"}

LEMMA WriteKeeps ==
  ASSUME Inv, NEW r \in Requests, Moves(r), Accounts',
         users' \subseteq users \cup Logged',
         DOMAIN sessions' \subseteq Created',
         ended \subseteq ended', ended' \subseteq Created',
         \A s \in ended' \cap DOMAIN sessions' : ~sessions'[s].valid,
         \A s \in DOMAIN sessions' :
            /\ DOMAIN sessions'[s] = SessionFields
            /\ sessions'[s].g \in DOMAIN accounts'
            /\ accounts'[sessions'[s].g].user = sessions'[s].user
            /\ sessions'[s].valid => accounts'[sessions'[s].g].linked,
         \A s \in DOMAIN sessions' :
            \/ s \in DOMAIN sessions /\ sessions'[s].token = sessions[s].token
            \/ \E t : t = sessions'[s].token /\ Held(t, s)'
  PROVE  Inv'
<1> USE DEF Inv
<1>1. Shape' /\ Created \subseteq Created'
  BY MovesShape
<1>2. Names'
  <2>1. Logged \subseteq Logged'
    BY DEF Shape, Moves, Logged, IsOver, Kind
  <2> QED
    BY <1>1, <2>1 DEF Names, Moves
<1>3. Sessions'
  <2>1. ASSUME NEW s \in DOMAIN sessions', NEW t, t = sessions'[s].token
        PROVE  Held(t, s)'
    <3>1. CASE s \in DOMAIN sessions /\ sessions'[s].token = sessions[s].token
      <4>1. Held(t, s)
        BY <2>1, <3>1 DEF Sessions
      <4> QED
        BY <4>1, HeldMoves
    <3>2. CASE \E u : u = sessions'[s].token /\ Held(u, s)'
      BY <2>1, <3>2
    <3> QED
      BY <3>1, <3>2
  <2> QED
    BY <2>1 DEF Sessions, SessionFields
<1>4. Ended'
  BY DEF Ended, Moves
<1> QED
  BY <1>1, <1>2, <1>3, <1>4

\* Sessions that keep their account and may end or change their token.
LEMMA RewriteKeeps ==
  ASSUME Inv, NEW r \in Requests, Moves(r),
         UNCHANGED <<users, accounts, tokens>>, ended \subseteq ended', ended' \subseteq Created,
         DOMAIN sessions' = DOMAIN sessions,
         \A s \in DOMAIN sessions :
            /\ DOMAIN sessions'[s] = SessionFields
            /\ sessions'[s].g = sessions[s].g /\ sessions'[s].user = sessions[s].user
            /\ sessions'[s].valid => sessions[s].valid
            /\ s \in ended' => s \in ended \/ ~sessions'[s].valid
            /\ \/ sessions'[s].token = sessions[s].token
               \/ \E t : t = sessions'[s].token /\ Held(t, s)'
  PROVE  Inv'
<1>1. Created \subseteq Created'
  BY MovesShape DEF Inv
<1> QED
  BY <1>1, WriteKeeps DEF Inv, Names, Accounts, Sessions, Ended, SessionFields

\* A rotated token belongs to the session of the request that rotates it.
LEMMA RotateKeeps ==
  ASSUME Inv, NEW r \in Requests, Rotate(r)
  PROVE  Inv'
<1>0. PICK new, s : new = <<r, IF req[r].gate THEN "gate" ELSE "main">> /\ s = req[r].sid
  OBVIOUS
<1>1. Moves(r)
  BY RotateMoves DEF Inv
<1>2. CASE s \notin DOMAIN sessions
  BY <1>0, <1>1, <1>2, QuietKeeps DEF Rotate
<1>3. CASE s \in DOMAIN sessions
  <2>1. /\ sessions' = RotateSession(s, new) /\ Proceed(r, new, {new})
        /\ req[r].pc = "rotate"
        /\ UNCHANGED <<users, accounts, tokens, ended>>
    BY <1>0, <1>3 DEF Rotate
  <2>2. Held(new, s)'
    <3>1. CASE req[r].gate
      <4>1. /\ Gated(Kind(r)) /\ req'[r].tok = new /\ ~req'[r].gate /\ req'[r].pc # "new"
        BY <2>1, <3>1 DEF Inv, Shape, PcFits, Proceed, Change, Fields
      <4> QED
        BY <1>0, <1>1, <3>1, <4>1 DEF Moves, Held, Kind
    <3>2. CASE ~req[r].gate
      <4>1. Kind(r) \in {"me", "renew"}
        BY <2>1, <3>2 DEF Inv, Shape, PcFits
      <4>2. IsOver(r)' \/ req'[r].pc = "renew"
        <5>1. \/ \E ok, x : Over(r, ok, x)
              \/ Kind(r) = "renew" /\ Change(r, [pc |-> Kind(r)])
          BY <2>1, <3>2, <4>1 DEF Proceed, Callback, Succeed, Refuse
        <5> QED
          BY <2>1, <5>1, OverMoves DEF Inv, Shape, IsOver, Change, Fields
      <4> QED
        BY <1>0, <1>1, <3>2, <4>1, <4>2 DEF Moves, Held, Kind
    <3> QED
      BY <3>1, <3>2
  <2>3. \E t : t = new /\ Held(t, s)'
    BY <2>2
  <2>4. \A u \in DOMAIN sessions :
           \/ u = s /\ sessions'[u].token = new
           \/ sessions'[u].token = sessions[u].token
    BY <1>3, <2>1 DEF RotateSession, Inv, Sessions
  <2>5. \A u \in DOMAIN sessions :
           /\ DOMAIN sessions'[u] = SessionFields
           /\ sessions'[u].g = sessions[u].g /\ sessions'[u].user = sessions[u].user
           /\ sessions'[u].valid => sessions[u].valid
    BY <1>3, <2>1 DEF RotateSession, Inv, Sessions, SessionFields
  <2>6. DOMAIN sessions' = DOMAIN sessions /\ ended' \subseteq Created
    BY <1>3, <2>1 DEF RotateSession, Inv, Names
  <2> QED
    BY <1>1, <2>1, <2>3, <2>4, <2>5, <2>6, RewriteKeeps
<1> QED
  BY <1>2, <1>3

\* RefreshSession's second rotation.
LEMMA RefreshSessionKeeps ==
  ASSUME Inv, NEW r \in Requests, RefreshSession(r)
  PROVE  Inv'
<1>0. PICK new, s : new = <<r, "again">> /\ s = req[r].sid
  OBVIOUS
<1>1. Moves(r) /\ IsOver(r)'
  BY HandlerMoves DEF Inv
<1>2. CASE s \notin DOMAIN sessions
  BY <1>0, <1>1, <1>2, QuietKeeps DEF RefreshSession
<1>3. CASE s \in DOMAIN sessions
  <2>1. /\ sessions' = RotateSession(s, new)
        /\ req[r].pc = "renew"
        /\ UNCHANGED <<users, accounts, tokens, ended>>
    BY <1>0, <1>3 DEF RefreshSession
  <2>2. Kind(r) = "renew"
    BY <2>1 DEF Inv, Shape, PcFits
  <2>3. \E t : t = new /\ Held(t, s)'
    BY <1>0, <1>1, <2>2 DEF Moves, Held, Kind
  <2>4. \A u \in DOMAIN sessions :
           \/ u = s /\ sessions'[u].token = new
           \/ sessions'[u].token = sessions[u].token
    BY <1>3, <2>1 DEF RotateSession, Inv, Sessions
  <2>5. \A u \in DOMAIN sessions :
           /\ DOMAIN sessions'[u] = SessionFields
           /\ sessions'[u].g = sessions[u].g /\ sessions'[u].user = sessions[u].user
           /\ sessions'[u].valid => sessions[u].valid
    BY <1>3, <2>1 DEF RotateSession, Inv, Sessions, SessionFields
  <2>6. DOMAIN sessions' = DOMAIN sessions /\ ended' \subseteq Created
    BY <1>3, <2>1 DEF RotateSession, Inv, Names
  <2> QED
    BY <1>1, <2>1, <2>3, <2>4, <2>5, <2>6, RewriteKeeps
<1> QED
  BY <1>2, <1>3

LEMMA LogoutKeeps ==
  ASSUME Inv, NEW r \in Requests, Logout(r)
  PROVE  Inv'
<1>1. Moves(r)
  BY HandlerMoves DEF Inv
<1>2. CASE req[r].sid \notin DOMAIN sessions
  BY <1>1, <1>2, QuietKeeps DEF Logout
<1>3. CASE req[r].sid \in DOMAIN sessions
  <2>1. /\ sessions' = [sessions EXCEPT ![req[r].sid].valid = FALSE]
        /\ ended' = ended \cup {req[r].sid}
        /\ UNCHANGED <<users, accounts, tokens>>
    BY <1>3 DEF Logout, InvalidateSession
  <2>2. ended' \subseteq Created
    BY <1>3, <2>1 DEF Inv, Names
  <2> QED
    BY <1>1, <1>3, <2>1, <2>2, RewriteKeeps DEF Inv, Sessions, SessionFields
<1> QED
  BY <1>2, <1>3

\* Unlinking ends every session of the account.
LEMMA UnlinkKeeps ==
  ASSUME Inv, NEW r \in Requests, UnlinkAccount(r)
  PROVE  Inv'
<1>1. Moves(r)
  BY HandlerMoves DEF Inv
<1>2. CASE UNCHANGED <<accounts, tokens, sessions, ended>>
  BY <1>1, <1>2, QuietKeeps DEF UnlinkAccount
<1>3. ASSUME NEW g \in Own(r),
             accounts' = [accounts EXCEPT ![g].linked = FALSE],
             tokens' = [tokens EXCEPT ![g].revoked = TRUE],
             sessions' = InvalidateSessionsOf(r, g),
             ended' = ended \cup Of(g)
      PROVE  Inv'
  <2>0. users' = users /\ g \in DOMAIN accounts
    BY DEF UnlinkAccount, Own, Account, Inv, Sessions
  <2>1. Accounts'
    <3>1. \A h \in DOMAIN accounts :
             /\ accounts'[h] \in [user : users, linked : BOOLEAN]
             /\ accounts'[h].user = accounts[h].user
             /\ accounts'[h].linked => accounts[h].linked
      BY <1>3, <2>0 DEF Inv, Accounts
    <3>2. /\ DOMAIN accounts' = DOMAIN accounts /\ DOMAIN tokens' = DOMAIN tokens
          /\ accounts' = [h \in DOMAIN accounts |-> accounts'[h]]
      BY <1>3 DEF Inv, Accounts
    <3> QED
      BY <2>0, <3>1, <3>2 DEF Inv, Accounts
  <2>2. Created \subseteq Created'
    BY <1>1, MovesShape DEF Inv
  <2>3. /\ DOMAIN sessions' = DOMAIN sessions
        /\ \A s \in DOMAIN sessions :
              /\ DOMAIN sessions'[s] = SessionFields
              /\ sessions'[s].g = sessions[s].g /\ sessions'[s].user = sessions[s].user
              /\ sessions'[s].token = sessions[s].token
              /\ sessions'[s].valid => sessions[s].valid /\ sessions[s].g # g
    BY <1>3 DEF InvalidateSessionsOf, Of, Inv, Sessions, SessionFields
  <2>4. \A s \in ended' \cap DOMAIN sessions' : ~sessions'[s].valid
    BY <1>3, <2>3 DEF Of, Inv, Ended
  <2>5. \A h \in DOMAIN accounts :
           /\ h \in DOMAIN accounts' /\ accounts'[h].user = accounts[h].user
           /\ h # g => accounts'[h].linked = accounts[h].linked
    BY <1>3, <2>0 DEF Inv, Accounts
  <2>6. ended' \subseteq Created'
    BY <1>3, <2>2 DEF Of, Inv, Names
  <2> QED
    BY <1>1, <1>3, <2>0, <2>1, <2>2, <2>3, <2>4, <2>5, <2>6, WriteKeeps DEF Inv, Names, Sessions
<1> QED
  BY <1>2, <1>3 DEF UnlinkAccount

\* Deleting a user deletes the user's accounts and sessions, and no others.
LEMMA DeleteKeeps ==
  ASSUME Inv, NEW r \in Requests, DeleteAccount(r)
  PROVE  Inv'
<1>1. Moves(r)
  BY HandlerMoves DEF Inv
<1>2. CASE UNCHANGED <<users, accounts, tokens, sessions, ended>>
  BY <1>1, <1>2, QuietKeeps
<1>3. ASSUME NEW u,
             users' = users \ {u},
             accounts' = Without(accounts, {h \in DOMAIN accounts : accounts[h].user = u}),
             tokens' = Without(tokens, {h \in DOMAIN accounts : accounts[h].user = u}),
             sessions' = Without(sessions, {s \in DOMAIN sessions : sessions[s].user = u}),
             ended' = ended \cup {s \in DOMAIN sessions : sessions[s].user = u}
      PROVE  Inv'
  <2>1. Accounts'
    BY <1>3 DEF Without, Inv, Accounts
  <2>2. Created \subseteq Created'
    BY <1>1, MovesShape DEF Inv
  <2>3. \A s \in DOMAIN sessions' : /\ s \in DOMAIN sessions /\ sessions'[s] = sessions[s]
                                    /\ sessions[s].user # u
    BY <1>3 DEF Without
  <2>4. \A h \in DOMAIN accounts : accounts[h].user # u =>
           h \in DOMAIN accounts' /\ accounts'[h] = accounts[h]
    BY <1>3 DEF Without
  <2>5. \A s \in ended' \cap DOMAIN sessions' : ~sessions'[s].valid
    BY <1>3, <2>3 DEF Inv, Ended
  <2>6. DOMAIN sessions' \subseteq Created' /\ ended' \subseteq Created'
    BY <1>3, <2>2, <2>3 DEF Inv, Names
  <2> QED
    BY <1>1, <1>3, <2>1, <2>3, <2>4, <2>5, <2>6, WriteKeeps DEF Inv, Sessions, SessionFields
<1> QED
  BY <1>2, <1>3 DEF DeleteAccount

\* A login links its account to the account's user, or to a new one if there
\* is no such account, and ends the session the browser had before.
LEMMA LoginKeeps ==
  ASSUME Inv, NEW r \in Requests, req[r].pc = "complete", Kind(r) = "login",
         completeLoginTx(r), tokens' = upsertGitHubToken(r), Moves(r), IsOver(r)'
  PROVE  Inv'
<1>0. PICK g, u, prior, new :
        /\ g = req[r].ask.g
        /\ u = IF g \in DOMAIN accounts THEN accounts[g].user ELSE r
        /\ prior = {req[r].sid} \cap DOMAIN sessions
        /\ new = [user |-> u, g |-> g, token |-> <<r, "code">>, valid |-> TRUE, due |-> FALSE]
  OBVIOUS
<1>1. /\ ~(g \in DOMAIN accounts /\ ~accounts[g].linked /\ userHasDifferentLinkedAccount(u, g))
      /\ users' = users \cup {u}
      /\ accounts' = With(accounts, g, [user |-> u, linked |-> TRUE])
      /\ sessions' = With([s \in DOMAIN sessions |-> IF s \in prior
                              THEN [sessions[s] EXCEPT !.valid = FALSE] ELSE sessions[s]], r, new)
      /\ ended' = ended \cup prior
  BY <1>0 DEF completeLoginTx, LinkTo
<1>2. r \notin Created /\ r \notin DOMAIN sessions /\ r \notin ended /\ r \notin users
  <2>1. r \notin Created
    BY NamesAssumption DEF Created, Logged, IsOver
  <2> QED
    BY <2>1, NamesAssumption DEF Inv, Names, Created
<1>3. Created \subseteq Created' /\ r \in Logged' /\ r \in Created'
  BY MovesShape DEF Inv, Moves, Logged, Kind, Created
<1>4. /\ g \in DOMAIN accounts' /\ accounts'[g] = [user |-> u, linked |-> TRUE]
      /\ DOMAIN accounts' = DOMAIN accounts \cup {g}
      /\ \A h \in DOMAIN accounts \ {g} : accounts'[h] = accounts[h]
      /\ g \in DOMAIN accounts => accounts[g].user = u
      /\ g \notin DOMAIN accounts => u = r
  BY <1>0, <1>1 DEF With
<1>5. \A h \in DOMAIN accounts \ {g} : accounts[h].user = u => ~accounts[h].linked
  <2>1. CASE g \in DOMAIN accounts
    BY <1>0, <1>1, <2>1 DEF Inv, Accounts, userHasDifferentLinkedAccount
  <2>2. CASE g \notin DOMAIN accounts
    BY <1>2, <1>4, <2>2 DEF Inv, Accounts
  <2> QED
    BY <2>1, <2>2
<1>6. Accounts'
  <2>1. DOMAIN tokens' = DOMAIN accounts'
    BY <1>0, <1>4 DEF upsertGitHubToken, With, Inv, Accounts
  <2>2. accounts' \in [DOMAIN accounts' -> [user : users', linked : BOOLEAN]]
    <3>1. \A h \in DOMAIN accounts' : accounts'[h] \in [user : users', linked : BOOLEAN]
      <4>1. ASSUME NEW h \in DOMAIN accounts PROVE accounts[h] \in [user : users', linked : BOOLEAN]
        BY <1>1 DEF Inv, Accounts
      <4>2. [user |-> u, linked |-> TRUE] \in [user : users', linked : BOOLEAN]
        BY <1>1
      <4> QED
        BY <1>4, <4>1, <4>2
    <3> QED
      BY <1>1, <3>1 DEF With
  <2>3. \A h \in DOMAIN accounts' : h # g /\ accounts'[h].linked => accounts'[h].user # u
    BY <1>4, <1>5
  <2>4. accounts'[g].user = u
    BY <1>4
  <2> QED
    BY <1>4, <2>1, <2>2, <2>3, <2>4 DEF Inv, Accounts
<1>7. /\ DOMAIN sessions' = DOMAIN sessions \cup {r} /\ sessions'[r] = new
      /\ \A s \in DOMAIN sessions :
            /\ DOMAIN sessions'[s] = SessionFields
            /\ sessions'[s].g = sessions[s].g /\ sessions'[s].user = sessions[s].user
            /\ sessions'[s].token = sessions[s].token
            /\ sessions'[s].valid => sessions[s].valid
            /\ s \in prior => ~sessions'[s].valid
  BY <1>1, <1>2 DEF With, Inv, Sessions, SessionFields
<1>8. \A s \in ended' \cap DOMAIN sessions' : ~sessions'[s].valid
  <2>1. ASSUME NEW s \in ended \cap DOMAIN sessions PROVE ~sessions'[s].valid
    BY <1>7 DEF Inv, Ended
  <2>2. ended' \cap DOMAIN sessions' \subseteq (ended \cap DOMAIN sessions) \cup prior
    BY <1>0, <1>1, <1>2, <1>7
  <2> QED
    BY <1>0, <1>7, <2>1, <2>2
<1>9. /\ users' \subseteq users \cup Logged'
      /\ DOMAIN sessions' \subseteq Created' /\ ended' \subseteq Created'
  <2>1. u \in users \cup {r}
    BY <1>4 DEF Inv, Accounts
  <2>2. prior \subseteq Created /\ DOMAIN sessions \subseteq Created /\ ended \subseteq Created
    BY <1>0 DEF Inv, Names
  <2>3. users' = users \cup {u} /\ ended' = ended \cup prior
    BY <1>1
  <2>4. DOMAIN sessions' = DOMAIN sessions \cup {r}
    BY <1>7
  <2> QED
    BY <1>3, <2>1, <2>2, <2>3, <2>4
<1>10. \A s \in DOMAIN sessions' :
         /\ DOMAIN sessions'[s] = SessionFields
         /\ sessions'[s].g \in DOMAIN accounts'
         /\ accounts'[sessions'[s].g].user = sessions'[s].user
         /\ sessions'[s].valid => accounts'[sessions'[s].g].linked
  <2>1. \A h \in DOMAIN accounts : /\ h \in DOMAIN accounts'
                                   /\ accounts'[h].user = accounts[h].user
                                   /\ accounts[h].linked => accounts'[h].linked
    BY <1>4
  <2>2. ASSUME NEW s \in DOMAIN sessions
        PROVE  /\ sessions'[s].g \in DOMAIN accounts'
               /\ accounts'[sessions'[s].g].user = sessions'[s].user
               /\ sessions'[s].valid => accounts'[sessions'[s].g].linked
    BY <1>7, <2>1 DEF Inv, Sessions
  <2> QED
    BY <1>0, <1>4, <1>7, <2>2 DEF SessionFields
<1>11. \E t : t = sessions'[r].token /\ Held(t, r)'
  BY <1>0, <1>7 DEF Held, Moves, Kind
<1>12. \A s \in DOMAIN sessions' :
         \/ s \in DOMAIN sessions /\ sessions'[s].token = sessions[s].token
         \/ \E t : t = sessions'[s].token /\ Held(t, s)'
  BY <1>7, <1>11
<1> QED
  BY <1>1, <1>6, <1>8, <1>9, <1>10, <1>12, WriteKeeps

\* A linked account belongs to the session's user, who has no other one.
LEMMA LinkKeeps ==
  ASSUME Inv, NEW r \in Requests, Kind(r) = "link",
         completeLinkTx(r), tokens' = upsertGitHubToken(r), Moves(r), IsOver(r)'
  PROVE  /\ Inv'
         /\ DOMAIN sessions' = DOMAIN sessions
         /\ \A s \in DOMAIN sessions : sessions'[s].g = sessions[s].g
<1>0. PICK g, s, u, token :
        /\ g = req[r].ask.g /\ u \in users /\ s = req[r].sid /\ token = <<r, "code">>
        /\ s \in DOMAIN sessions /\ sessions[s].user = u
        /\ MayLink(u, g)
        /\ accounts' = IF g \in DOMAIN accounts THEN [accounts EXCEPT ![g].linked = TRUE]
                       ELSE With(accounts, g, [user |-> u, linked |-> TRUE])
        /\ sessions' = [sessions EXCEPT ![s] = IF @.valid
                           THEN [@ EXCEPT !.g = g, !.token = token, !.due = FALSE] ELSE @]
        /\ UNCHANGED <<users, ended>>
  BY DEF completeLinkTx, LinkTo
<1>1. Created \subseteq Created'
  BY MovesShape DEF Inv
<1>2. sessions[s].valid => sessions[s].g = g
  BY <1>0 DEF MayLink, userHasDifferentLinkedAccount, Inv, Sessions
<1>3. /\ g \in DOMAIN accounts' /\ DOMAIN accounts' = DOMAIN accounts \cup {g}
      /\ accounts'[g] \in [user : users, linked : BOOLEAN]
      /\ accounts'[g].user = u /\ accounts'[g].linked
      /\ \A h \in DOMAIN accounts \ {g} : accounts'[h] = accounts[h]
  BY <1>0 DEF With, MayLink, Inv, Accounts
<1>4. \A h \in DOMAIN accounts \ {g} : accounts[h].user = u => ~accounts[h].linked
  BY <1>0 DEF MayLink, userHasDifferentLinkedAccount
<1>5. Accounts'
  <2>1. DOMAIN tokens' = DOMAIN accounts'
    BY <1>0, <1>3 DEF upsertGitHubToken, With, Inv, Accounts
  <2>2. accounts' \in [DOMAIN accounts' -> [user : users', linked : BOOLEAN]]
    <3>1. \A h \in DOMAIN accounts' : accounts'[h] \in [user : users', linked : BOOLEAN]
      <4>1. ASSUME NEW h \in DOMAIN accounts PROVE accounts[h] \in [user : users', linked : BOOLEAN]
        BY <1>0 DEF Inv, Accounts
      <4>2. accounts'[g] \in [user : users', linked : BOOLEAN]
        BY <1>0, <1>3
      <4> QED
        BY <1>3, <4>1, <4>2
    <3>2. accounts' = [h \in DOMAIN accounts' |-> accounts'[h]]
      BY <1>0 DEF With, Inv, Accounts
    <3> QED
      BY <3>1, <3>2
  <2> QED
    BY <1>3, <1>4, <2>1, <2>2 DEF Inv, Accounts
<1>6. /\ DOMAIN sessions' = DOMAIN sessions
      /\ \A v \in DOMAIN sessions :
            /\ DOMAIN sessions'[v] = SessionFields
            /\ sessions'[v].g = sessions[v].g /\ sessions'[v].user = sessions[v].user
            /\ sessions'[v].valid => sessions[v].valid
            /\ \/ sessions'[v].token = sessions[v].token
               \/ v = s /\ sessions'[v].token = token
  BY <1>0, <1>2 DEF Inv, Sessions, SessionFields
<1>7. \E t : t = token /\ Held(t, s)'
  BY <1>0 DEF Held, Moves, Kind
<1>8. \A v \in DOMAIN sessions' :
         /\ DOMAIN sessions'[v] = SessionFields
         /\ sessions'[v].g \in DOMAIN accounts'
         /\ accounts'[sessions'[v].g].user = sessions'[v].user
         /\ sessions'[v].valid => accounts'[sessions'[v].g].linked
  <2>1. \A h \in DOMAIN accounts : /\ h \in DOMAIN accounts'
                                   /\ accounts'[h].user = accounts[h].user
                                   /\ accounts[h].linked => accounts'[h].linked
    BY <1>0, <1>3 DEF MayLink
  <2> QED
    BY <1>6, <2>1 DEF Inv, Sessions
<1>9. /\ DOMAIN sessions' \subseteq Created' /\ ended' \subseteq Created'
      /\ \A v \in ended' \cap DOMAIN sessions' : ~sessions'[v].valid
  BY <1>0, <1>1, <1>6 DEF Inv, Names, Ended
<1>10. \A v \in DOMAIN sessions' :
         \/ v \in DOMAIN sessions /\ sessions'[v].token = sessions[v].token
         \/ \E t : t = sessions'[v].token /\ Held(t, v)'
  BY <1>6, <1>7
<1>11. Inv'
  <2>1. users' \subseteq users \cup Logged' /\ ended \subseteq ended'
    BY <1>0
  <2> QED
    BY <1>5, <1>8, <1>9, <1>10, <2>1, WriteKeeps
<1> QED
  BY <1>6, <1>11

LEMMA CompleteKeeps ==
  ASSUME Inv, NEW r \in Requests, CompleteAuth(r)
  PROVE  Inv'
<1>1. Moves(r) /\ IsOver(r)'
  BY HandlerMoves DEF Inv
<1>2. CASE UNCHANGED <<users, accounts, tokens, sessions, ended>>
  BY <1>1, <1>2, QuietKeeps
<1>3. CASE ~UNCHANGED <<users, accounts, tokens, sessions, ended>>
  <2>1. /\ req[r].pc = "complete"
        /\ IF Kind(r) = "link" THEN completeLinkTx(r) ELSE completeLoginTx(r)
        /\ tokens' = upsertGitHubToken(r)
    BY <1>3 DEF CompleteAuth
  <2>2. Kind(r) \in {"login", "link"}
    BY <2>1 DEF Inv, Shape, PcFits, Callback
  <2> QED
    BY <1>1, <2>1, <2>2, LoginKeeps, LinkKeeps
<1> QED
  BY <1>2, <1>3

\* Deadlines touch no request.
LEMMA TimeKeeps ==
  ASSUME Inv,
         \/ \E g \in DOMAIN tokens : AccessTokenExpires(g)
         \/ \E s \in DOMAIN sessions : RotationFallsDue(s) \/ SessionExpires(s)
  PROVE  /\ Inv'
         /\ UNCHANGED req /\ DOMAIN sessions' = DOMAIN sessions
         /\ \A s \in DOMAIN sessions : /\ sessions'[s].g = sessions[s].g
                                       /\ sessions'[s].token = sessions[s].token
                                       /\ sessions'[s].valid => sessions[s].valid
<1>1. /\ UNCHANGED <<users, accounts, ended, req>>
      /\ DOMAIN tokens' = DOMAIN tokens
      /\ DOMAIN sessions' = DOMAIN sessions
      /\ \A s \in DOMAIN sessions :
            /\ DOMAIN sessions'[s] = SessionFields
            /\ sessions'[s].g = sessions[s].g /\ sessions'[s].user = sessions[s].user
            /\ sessions'[s].token = sessions[s].token
            /\ sessions'[s].valid => sessions[s].valid
  <2> USE DEF Inv, Sessions, SessionFields
  <2>1. ASSUME NEW g \in DOMAIN tokens, AccessTokenExpires(g) PROVE <1>1!:
    BY <2>1 DEF AccessTokenExpires
  <2>2. ASSUME NEW s \in DOMAIN sessions, RotationFallsDue(s) PROVE <1>1!:
    BY <2>2 DEF RotationFallsDue
  <2>3. ASSUME NEW s \in DOMAIN sessions, SessionExpires(s) PROVE <1>1!:
    BY <2>3 DEF SessionExpires
  <2> QED
    BY <2>1, <2>2, <2>3
<1>2. ASSUME NEW t, NEW s, Held(t, s) PROVE Held(t, s)'
  BY <1>1, <1>2 DEF Held, IsOver, Kind
<1>3. Created' = Created /\ Logged' = Logged
  BY <1>1 DEF Created, Logged, IsOver, Kind
<1>4. Shape' /\ Names' /\ Accounts' /\ Ended'
  BY <1>1, <1>3 DEF Inv, Shape, PcFits, Kind, Names, Accounts, Ended
<1>5. Sessions'
  <2>1. ASSUME NEW s \in DOMAIN sessions', NEW t, t = sessions'[s].token PROVE Held(t, s)'
    <3>1. Held(t, s)
      BY <1>1, <2>1 DEF Inv, Sessions
    <3> QED
      BY <1>2, <3>1
  <2> QED
    BY <1>1, <2>1 DEF Inv, Sessions, SessionFields
<1> QED
  BY <1>1, <1>4, <1>5 DEF Inv

LEMMA InitInv == Init => Inv
<1> SUFFICES ASSUME Init PROVE Inv
  OBVIOUS
<1> DEFINE g0 == CHOOSE x \in GitHubUsers : TRUE
<1>0. /\ users = IF Seats = {} THEN {} ELSE {0}
      /\ accounts = [x \in IF Seats = {} THEN {} ELSE {g0} |-> [user |-> 0, linked |-> TRUE]]
      /\ tokens = [x \in DOMAIN accounts |-> [rt |-> FirstGrant, revoked |-> FALSE, expired |-> FALSE]]
      /\ sessions = [b \in Seats |-> [user |-> 0, g |-> g0, token |-> <<b, "first">>,
                                      valid |-> TRUE, due |-> FALSE]]
      /\ ended = {}
  BY DEF Init
<1>5. PICK plan \in Plans :
        req = [r \in Requests |->
                       [ask |-> plan.asks[r], pc |-> "new", gate |-> FALSE, tok |-> NoToken,
                        csrf |-> "none", sid |-> 0, due |-> FALSE, rt |-> NoToken,
                        spent |-> NoToken, set |-> {}, barred |-> {}, ok |-> FALSE]]
  BY DEF Init
<1>1. Shape
  BY <1>5, PlansAssumption DEF Shape, Fields, AskFits, PcFits
<1>2. Names /\ Ended
  BY <1>0, <1>5 DEF Names, Ended, Created
<1>3. Accounts
  BY <1>0 DEF Accounts
<1>4. Sessions
  BY <1>0 DEF Sessions, Held
<1> QED
  BY <1>1, <1>2, <1>3, <1>4 DEF Inv

LEMMA NextKeeps == Inv /\ [Next]_vars => Inv'
<1> SUFFICES ASSUME Inv, [Next]_vars PROVE Inv'
  OBVIOUS
<1>1. CASE UNCHANGED vars
  <2>1. Shape' /\ Names' /\ Accounts' /\ Ended'
    BY <1>1 DEF vars, Inv, Shape, PcFits, Kind, Names, Created, Logged, IsOver, Accounts, Ended
  <2>2. ASSUME NEW t, NEW s, Held(t, s) PROVE Held(t, s)'
    BY <1>1, <2>2 DEF vars, Held, IsOver, Kind
  <2>3. Sessions'
    BY <1>1, <2>2 DEF vars, Inv, Sessions
  <2> QED
    BY <2>1, <2>3 DEF Inv
<1>2. ASSUME NEW r \in Requests,
             \/ Begin(r) \/ Receive(r) \/ Fail(r) \/ Load(r) \/ LoginGoesOn(r) \/ LoadGitHubToken(r)
             \/ RefreshUserAccessToken(r) \/ StoreToken(r) \/ MarkTokenRevoked(r) \/ Rotate(r)
             \/ LoadSessionPrincipal(r) \/ RefreshSession(r) \/ Logout(r) \/ UnlinkAccount(r)
             \/ DeleteAccount(r) \/ StartOAuth(r) \/ ConsumeOAuthState(r)
             \/ ExchangeUserAccessToken(r) \/ CompleteAuth(r)
      PROVE  Inv'
  <2>1. CASE \/ Receive(r) \/ Fail(r) \/ LoadGitHubToken(r) \/ RefreshUserAccessToken(r)
             \/ LoadSessionPrincipal(r) \/ StartOAuth(r) \/ ConsumeOAuthState(r)
             \/ ExchangeUserAccessToken(r)
    <3>1. Moves(r)
      BY <2>1, ReceiveMoves, FailMoves, LoadGitHubTokenMoves, RefreshMoves, HandlerMoves,
         ConsumeMoves, ExchangeMoves DEF Inv
    <3>2. UNCHANGED <<users, accounts, tokens, sessions, ended>>
      BY <2>1 DEF Receive, Fail, LoadGitHubToken, RefreshUserAccessToken, LoadSessionPrincipal,
                  StartOAuth, ConsumeOAuthState, ExchangeUserAccessToken
    <3> QED
      BY <3>1, <3>2, QuietKeeps
  <2>2. CASE StoreToken(r) \/ MarkTokenRevoked(r)
    <3>1. Moves(r)
      BY <2>2, StoreMoves DEF Inv
    <3>2. UNCHANGED <<users, accounts, sessions, ended>> /\ DOMAIN tokens' = DOMAIN tokens
      BY <2>2 DEF StoreToken, MarkTokenRevoked, StoreRefreshedGitHubToken, Marked
    <3> QED
      BY <3>1, <3>2, QuietKeeps
  <2> QED
    BY <1>2, <2>1, <2>2, BeginKeeps, LoadKeeps, GoesOnKeeps, RotateKeeps, RefreshSessionKeeps, LogoutKeeps,
       UnlinkKeeps, DeleteKeeps, CompleteKeeps
<1> QED
  BY <1>1, <1>2, TimeKeeps DEF Next

----------------------------------------------------------------------------
\* The invariant holds in every state: users and sessions are named after
\* the logins that made them, every session is of an account of its user and
\* holds a token that was made for it, and no session that has ended is live.
THEOREM Invariance == Spec => []Inv
<1> QED
  BY InitInv, NextKeeps, PTL DEF Spec

\* Every live session is of a linked account and of that account's owner, a
\* user has at most one linked account, and a token opens at most one session,
\* however logins, links, unlinks and deletions overlap.
THEOREM SessionsAreOwned == Spec => []SessionsMatchAccounts
<1>1. Inv => SessionsMatchAccounts
  <2> SUFFICES ASSUME Inv PROVE SessionsMatchAccounts
    OBVIOUS
  <2>1. \A g \in DOMAIN accounts : accounts[g] \in [user : users, linked : BOOLEAN]
    BY DEF Inv, Accounts
  <2>2. ASSUME NEW s \in DOMAIN sessions, sessions[s].valid
        PROVE  /\ sessions[s].g \in DOMAIN accounts
               /\ accounts[sessions[s].g] = [user |-> sessions[s].user, linked |-> TRUE]
    BY <2>1, <2>2 DEF Inv, Sessions
  <2>3. ASSUME NEW s \in DOMAIN sessions, NEW t \in DOMAIN sessions,
               sessions[t].token = sessions[s].token
        PROVE  t = s
    BY <2>3, HeldOnce DEF Inv, Sessions
  <2> QED
    BY <2>1, <2>2, <2>3 DEF Inv, Accounts, SessionsMatchAccounts
<1> QED
  BY Invariance, <1>1, PTL

\* No request that begins after a session was ended succeeds in it.
THEOREM EndedIsFinal == Spec => []EndedStaysEnded
<1>1. Inv => EndedStaysEnded
  BY DEF Inv, Ended, EndedStaysEnded
<1> QED
  BY Invariance, <1>1, PTL

\* A live session keeps its account as long as it lives, so that a rotation
\* may write the account it loaded (authenticateSession, RotateSession): a
\* link can only bring back the account that the user has.
LEMMA LiveSessionsKeepAccounts ==
  ASSUME Inv, [Next]_vars, NEW s \in DOMAIN sessions \cap DOMAIN sessions', sessions[s].valid
  PROVE  sessions'[s].g = sessions[s].g
<1>1. /\ sessions[s].g \in DOMAIN accounts
      /\ accounts[sessions[s].g].user = sessions[s].user /\ accounts[sessions[s].g].linked
      /\ DOMAIN sessions[s] = {"user", "g", "token", "valid", "due"}
  BY DEF Inv, Sessions
<1>2. CASE sessions' = sessions
  BY <1>2
<1>3. ASSUME NEW q, NEW t, sessions' = RotateSession(q, t) PROVE sessions'[s].g = sessions[s].g
  BY <1>1, <1>3 DEF RotateSession
<1>4. ASSUME NEW r \in Requests, Logout(r) PROVE sessions'[s].g = sessions[s].g
  BY <1>1, <1>4 DEF Logout, InvalidateSession
<1>5. ASSUME NEW r \in Requests, UnlinkAccount(r) PROVE sessions'[s].g = sessions[s].g
  BY <1>1, <1>5 DEF UnlinkAccount, InvalidateSessionsOf
<1>6. ASSUME NEW r \in Requests, DeleteAccount(r) PROVE sessions'[s].g = sessions[s].g
  BY <1>1, <1>6 DEF DeleteAccount, Without
<1>7. ASSUME NEW r \in Requests, CompleteAuth(r) PROVE sessions'[s].g = sessions[s].g
  <2>1. CASE completeLoginTx(r) /\ Kind(r) # "link"
    <3>1. s # r
      <4>1. ~IsOver(r) /\ r \notin Seats
        BY <1>7, NamesAssumption DEF CompleteAuth, IsOver
      <4> QED
        BY <4>1 DEF Inv, Names, Created, Logged
    <3> QED
      BY <1>1, <2>1, <3>1 DEF completeLoginTx, With
  <2>2. CASE completeLinkTx(r)
    <3>1. PICK u \in users :
            /\ req[r].sid \in DOMAIN sessions /\ sessions[req[r].sid].user = u
            /\ MayLink(u, req[r].ask.g)
            /\ sessions' = [sessions EXCEPT ![req[r].sid] =
                 IF @.valid THEN [@ EXCEPT !.g = req[r].ask.g, !.token = <<r, "code">>, !.due = FALSE]
                 ELSE @]
      BY <2>2 DEF completeLinkTx
    <3>2. CASE s = req[r].sid
      <4>1. sessions[s].g = req[r].ask.g
        BY <1>1, <3>1, <3>2 DEF MayLink, userHasDifferentLinkedAccount
      <4> QED
        BY <1>1, <3>1, <3>2, <4>1
    <3>3. CASE s # req[r].sid
      BY <3>1, <3>3
    <3> QED
      BY <3>2, <3>3
  <2> QED
    BY <1>2, <1>7, <2>1, <2>2 DEF CompleteAuth
<1>8. ASSUME NEW x, RotationFallsDue(x) \/ SessionExpires(x) PROVE sessions'[s].g = sessions[s].g
  BY <1>1, <1>8 DEF RotationFallsDue, SessionExpires
<1>9. ASSUME NEW r \in Requests, Rotate(r) \/ RefreshSession(r)
      PROVE  sessions' = sessions \/ \E q, t : sessions' = RotateSession(q, t)
  BY <1>9 DEF Rotate, RefreshSession
<1>10. ASSUME NEW r \in Requests,
              \/ Begin(r) \/ Receive(r) \/ Fail(r) \/ Load(r) \/ LoginGoesOn(r) \/ LoadGitHubToken(r)
              \/ RefreshUserAccessToken(r) \/ StoreToken(r) \/ MarkTokenRevoked(r)
              \/ LoadSessionPrincipal(r) \/ StartOAuth(r) \/ ConsumeOAuthState(r)
              \/ ExchangeUserAccessToken(r)
       PROVE  sessions' = sessions
  BY <1>10 DEF Begin, Receive, Fail, Load, LoginGoesOn, LoadGitHubToken, RefreshUserAccessToken,
               StoreToken, MarkTokenRevoked, LoadSessionPrincipal, StartOAuth, ConsumeOAuthState,
               ExchangeUserAccessToken
<1>11. CASE UNCHANGED vars \/ \E x : AccessTokenExpires(x)
  BY <1>2, <1>11 DEF vars, AccessTokenExpires
<1> QED
  BY <1>2, <1>3, <1>4, <1>5, <1>6, <1>7, <1>8, <1>9, <1>10, <1>11 DEF Next

----------------------------------------------------------------------------
(* Refresh tokens.  They are named after the request that got them from    *)
(* GitHub; one that was got and not stored yet is known to nobody else.    *)

Minted(t) ==
  \/ t = FirstGrant
  \/ \E r \in Requests :
       \/ /\ t = <<r, "code">> /\ Callback(Kind(r))
          /\ req[r].pc \notin {"new", "consume", "exchange"}
       \/ /\ t = <<r, "gate">> /\ Gated(Kind(r))
          /\ req[r].pc # "new" /\ (req[r].gate => req[r].pc \notin Early)
       \/ /\ t = <<r, "main">>
          /\ ~req[r].gate /\ req[r].pc \notin Early

\* Tokens that are stored, under way to GitHub or spent there.
UsedTokens ==
  {tokens[g].rt : g \in DOMAIN tokens}
    \cup {req[r].rt : r \in {q \in Requests : req[q].pc = "refresh"}}
    \cup {req[r].spent : r \in Requests}

HasCode(r) ==
  /\ Callback(Kind(r))
  /\ req[r].pc \in {"load", "token", "refresh", "store", "revoke", "complete"}

FreshTokens(r) ==
  {t \in {<<r, "code">>} : HasCode(r)} \cup {t \in {req[r].rt} : req[r].pc = "store"}

\* The account whose token a request takes to GitHub or has spent there.
OfSession(r, g) == req[r].sid \in DOMAIN sessions /\ sessions[req[r].sid].g = g

Granted ==
  /\ DOMAIN grants = GitHubUsers
  /\ \A g \in GitHubUsers : \A t \in grants[g] : Minted(t)
  /\ \A g, h \in GitHubUsers : grants[g] \cap grants[h] # {} => g = h

Stored ==
  /\ DOMAIN tokens \subseteq GitHubUsers
  /\ \A h \in DOMAIN tokens :
       /\ DOMAIN tokens[h] = {"rt", "revoked", "expired"}
       /\ tokens[h].rt # NoToken
       /\ \A g \in GitHubUsers : tokens[h].rt \in grants[g] => g = h
       /\ \A g \in DOMAIN tokens : tokens[h].rt = tokens[g].rt => g = h

UnderWay(r) ==
  /\ req[r].pc \in {"new", "token", "refresh"} => req[r].spent = NoToken
  /\ req[r].pc = "refresh" =>
       /\ req[r].rt # NoToken
       /\ \A h \in DOMAIN tokens : tokens[h].rt = req[r].rt => OfSession(r, h)
       /\ \A g \in GitHubUsers :
             req[r].rt \in grants[g] /\ req[r].sid \in DOMAIN sessions => OfSession(r, g)
  /\ req[r].pc \in {"store", "revoke"} =>
       \A h \in DOMAIN tokens : tokens[h].rt = req[r].spent => OfSession(r, h)
  /\ req[r].pc = "store" =>
       /\ req[r].rt = <<r, IF req[r].gate THEN "gate" ELSE "main">>
       /\ req[r].sid \in DOMAIN sessions => req[r].rt \in grants[sessions[req[r].sid].g]
       /\ \E g \in GitHubUsers : req[r].rt \in grants[g]
  /\ HasCode(r) => <<r, "code">> \in grants[req[r].ask.g]

GrantInv ==
  /\ Granted /\ Stored
  /\ \A r \in Requests : UnderWay(r)
  /\ \A t \in UsedTokens : t = NoToken \/ Minted(t)
  /\ \A r \in Requests : FreshTokens(r) \cap UsedTokens = {}
  /\ HonouredUnlessRevoked

----------------------------------------------------------------------------
(* Steps that leave the grants alone.                                      *)

\* Tokens, once got, stay named after their request.
LEMMA MovesMint ==
  ASSUME Shape, NEW r \in Requests, Moves(r), NEW t, Minted(t)
  PROVE  Minted(t)'
<1>1. CASE t = FirstGrant
  BY <1>1 DEF Minted
<1>2. ASSUME NEW q \in Requests,
             \/ /\ t = <<q, "code">> /\ Callback(Kind(q))
                /\ req[q].pc \notin {"new", "consume", "exchange"}
             \/ /\ t = <<q, "gate">> /\ Gated(Kind(q))
                /\ req[q].pc # "new" /\ (req[q].gate => req[q].pc \notin Early)
             \/ /\ t = <<q, "main">>
                /\ ~req[q].gate /\ req[q].pc \notin Early
      PROVE  Minted(t)'
  <2>1. CASE q = r
    BY <1>2, <2>1 DEF Moves, Kind, Minted
  <2>2. CASE q # r
    <3>1. req'[q] = req[q]
      BY <2>2 DEF Moves
    <3> QED
      BY <1>2, <3>1 DEF Kind, Minted
  <2> QED
    BY <2>1, <2>2
<1> QED
  BY <1>1, <1>2 DEF Minted

\* A request neither comes to a call to GitHub nor gets a token by its step.
Plain(r) ==
  /\ DOMAIN req' = Requests
  /\ \A q \in Requests \ {r} : req'[q] = req[q]
  /\ req'[r].ask = req[r].ask
  /\ req'[r].pc \notin {"new", "refresh", "store"}
  /\ req'[r].spent \in {req[r].spent, NoToken}
  /\ req'[r].pc \in {"token", "revoke"} => req'[r].spent = NoToken
  /\ HasCode(r)' => HasCode(r)

\* A stored token is kept, or replaced by one that the request got for it.
TokensStep(r) ==
  \A h \in DOMAIN tokens' :
    /\ DOMAIN tokens'[h] = {"rt", "revoked", "expired"}
    /\ \/ /\ h \in DOMAIN tokens /\ tokens'[h].rt = tokens[h].rt
          /\ tokens[h].revoked => tokens'[h].revoked
       \/ /\ h \in GitHubUsers /\ tokens'[h].rt \in FreshTokens(r) \cap grants[h]
          /\ tokens'[h].rt \notin FreshTokens(r)'

\* A session that goes takes its account's token with it.
SessionsStep(r) ==
  /\ \A s \in DOMAIN sessions' :
        \/ s \in DOMAIN sessions /\ sessions'[s].g = sessions[s].g
        \/ \A q \in Requests \ {r} : req[q].sid # s
  /\ \A s \in DOMAIN sessions \ DOMAIN sessions' : sessions[s].g \notin DOMAIN tokens'

\* The request of a spent token does not disappear with it.
ReportStep(r) ==
  \A h \in DOMAIN tokens' :
     ~tokens'[h].revoked /\ tokens'[h].rt = req[r].spent /\ req[r].pc \in {"store", "revoke"}
       => tokens'[h].rt \in grants[h] \cup mislaid'

\* What is fresh is no used token, and is named after its request.
LEMMA FreshNames ==
  ASSUME GrantInv, NEW r \in Requests, NEW t \in FreshTokens(r)
  PROVE  /\ t \in {<<r, "code">>, <<r, "gate">>, <<r, "main">>} /\ t # NoToken
         /\ t \notin UsedTokens
<1>1. t = <<r, "code">> \/ (req[r].pc = "store" /\ t = req[r].rt)
  BY DEF FreshTokens
<1>2. req[r].pc = "store" => req[r].rt \in {<<r, "gate">>, <<r, "main">>}
  BY DEF GrantInv, UnderWay
<1>3. <<r, "code">> # NoToken /\ <<r, "gate">> # NoToken /\ <<r, "main">> # NoToken
  BY DEF NoToken
<1>4. t \notin UsedTokens
  BY DEF GrantInv
<1> QED
  BY <1>1, <1>2, <1>3, <1>4

LEMMA PlainKeeps ==
  ASSUME Inv, GrantInv, NEW r \in Requests, Plain(r), \A t : Minted(t) => Minted(t)',
         grants' = grants, TokensStep(r), SessionsStep(r), ReportStep(r), mislaid \subseteq mislaid'
  PROVE  GrantInv'
<1> USE DEF GrantInv
<1>1. FreshTokens(r)' \subseteq FreshTokens(r)
  BY DEF Plain, FreshTokens, HasCode
<1>2. \A q \in Requests \ {r} :
        FreshTokens(q)' = FreshTokens(q) /\ (HasCode(q)' <=> HasCode(q))
  BY DEF Plain, FreshTokens, HasCode, Kind
<1>3. Granted'
  BY DEF Granted
<1>4. ASSUME NEW h \in DOMAIN tokens', tokens'[h].rt \notin FreshTokens(r)
      PROVE  /\ h \in DOMAIN tokens /\ tokens'[h].rt = tokens[h].rt
             /\ tokens[h].revoked => tokens'[h].revoked
  BY <1>4 DEF TokensStep
<1>5. \A h \in DOMAIN tokens : tokens[h].rt \in UsedTokens
  BY DEF UsedTokens
<1>6. ASSUME NEW h \in DOMAIN tokens', tokens'[h].rt \in FreshTokens(r)
      PROVE  /\ h \in GitHubUsers /\ tokens'[h].rt \in grants[h]
             /\ tokens'[h].rt # NoToken /\ tokens'[h].rt \notin UsedTokens
             /\ tokens'[h].rt \notin FreshTokens(r)'
  <2>1. tokens'[h].rt \notin UsedTokens /\ tokens'[h].rt # NoToken
    BY <1>6, FreshNames
  <2> QED
    BY <1>5, <1>6, <2>1 DEF TokensStep
<1>7. Stored'
  <2>1. DOMAIN tokens' \subseteq GitHubUsers
    BY <1>4, <1>6 DEF Stored
  <2>2. ASSUME NEW h \in DOMAIN tokens'
        PROVE  /\ DOMAIN tokens'[h] = {"rt", "revoked", "expired"}
               /\ tokens'[h].rt # NoToken
               /\ \A g \in GitHubUsers : tokens'[h].rt \in grants[g] => g = h
               /\ \A g \in DOMAIN tokens' : tokens'[h].rt = tokens'[g].rt => g = h
    BY <1>4, <1>5, <1>6 DEF Stored, TokensStep, Granted
  <2> QED
    BY <2>1, <2>2 DEF Stored
<1>8. ASSUME NEW q \in Requests PROVE UnderWay(q)'
  <2>1. CASE q = r
    BY <1>7, <2>1 DEF UnderWay, Plain, HasCode, Stored
  <2>2. CASE q # r
    <3>1. req'[q] = req[q] /\ (HasCode(q)' <=> HasCode(q)) /\ UnderWay(q)
      BY <1>2, <2>2 DEF Plain
    <3>2. req[q].sid \in DOMAIN sessions' =>
            req[q].sid \in DOMAIN sessions /\ sessions'[req[q].sid].g = sessions[req[q].sid].g
      BY <2>2 DEF SessionsStep
    <3>3. ASSUME NEW h \in DOMAIN tokens', tokens'[h].rt \in UsedTokens
          PROVE  /\ h \in DOMAIN tokens /\ tokens'[h].rt = tokens[h].rt
                 /\ OfSession(q, h) => OfSession(q, h)'
      BY <1>4, <1>6, <3>1, <3>2, <3>3 DEF OfSession, SessionsStep
    <3>4. /\ req[q].pc = "refresh" => req[q].rt \in UsedTokens
          /\ req[q].spent \in UsedTokens
      BY DEF UsedTokens
    <3>5. \A h \in DOMAIN tokens' :
             /\ req[q].pc = "refresh" /\ tokens'[h].rt = req[q].rt => OfSession(q, h)'
             /\ req[q].pc \in {"store", "revoke"} /\ tokens'[h].rt = req[q].spent
                  => OfSession(q, h)'
      BY <3>1, <3>3, <3>4 DEF UnderWay
    <3>6. req[q].pc = "refresh" =>
            \A g \in GitHubUsers :
              req[q].rt \in grants[g] /\ req[q].sid \in DOMAIN sessions' => OfSession(q, g)'
      BY <3>1, <3>2 DEF UnderWay, OfSession
    <3> QED
      BY <3>1, <3>2, <3>5, <3>6 DEF UnderWay
  <2> QED
    BY <2>1, <2>2
<1>9. UsedTokens' \subseteq UsedTokens \cup {NoToken} \cup {t \in FreshTokens(r) : t \notin FreshTokens(r)'
                                                             /\ \E h \in GitHubUsers : t \in grants[h]}
  <2>1. ASSUME NEW h \in DOMAIN tokens'
        PROVE  \/ tokens'[h].rt \in UsedTokens
               \/ /\ tokens'[h].rt \in FreshTokens(r) /\ tokens'[h].rt \notin FreshTokens(r)'
                  /\ \E g \in GitHubUsers : tokens'[h].rt \in grants[g]
    BY <1>4, <1>5, <1>6
  <2>2. ASSUME NEW q \in Requests
        PROVE  /\ req'[q].spent \in UsedTokens \cup {NoToken}
               /\ req'[q].pc = "refresh" => req'[q].rt \in UsedTokens
    BY DEF Plain, UsedTokens
  <2> QED
    BY <2>1, <2>2 DEF UsedTokens
<1>10. \A t \in UsedTokens' : t = NoToken \/ Minted(t)'
  <2>1. ASSUME NEW t \in UsedTokens' PROVE t = NoToken \/ Minted(t)
    BY <1>9 DEF Granted
  <2> QED
    BY <2>1
<1>11. ASSUME NEW q \in Requests PROVE FreshTokens(q)' \cap UsedTokens' = {}
  <2>1. CASE q = r
    BY <1>1, <1>9, <2>1, FreshNames
  <2>2. CASE q # r
    BY <1>2, <1>9, <2>2, FreshNames
  <2> QED
    BY <2>1, <2>2
<1>12. HonouredUnlessRevoked'
  <2>1. ASSUME NEW h \in DOMAIN tokens', ~tokens'[h].revoked
        PROVE  \/ tokens'[h].rt \in grants[h] \cup mislaid'
               \/ \E q \in Requests : /\ req'[q].spent = tokens'[h].rt
                                      /\ req'[q].pc \in {"store", "revoke"}
    <3>1. CASE tokens'[h].rt \in FreshTokens(r)
      BY <1>6, <3>1
    <3>2. CASE tokens'[h].rt \notin FreshTokens(r)
      <4>1. \/ tokens'[h].rt \in grants[h] \cup mislaid
            \/ \E q \in Requests : /\ req[q].spent = tokens'[h].rt
                                   /\ req[q].pc \in {"store", "revoke"}
        BY <1>4, <2>1, <3>2 DEF HonouredUnlessRevoked
      <4>2. ASSUME NEW q \in Requests \ {r}, req[q].spent = tokens'[h].rt,
                   req[q].pc \in {"store", "revoke"}
            PROVE  /\ req'[q].spent = tokens'[h].rt
                   /\ req'[q].pc \in {"store", "revoke"}
        BY <4>2 DEF Plain
      <4>3. ASSUME req[r].spent = tokens'[h].rt, req[r].pc \in {"store", "revoke"}
            PROVE  tokens'[h].rt \in grants[h] \cup mislaid'
        BY <2>1, <4>3 DEF ReportStep
      <4> QED
        BY <4>1, <4>2, <4>3
    <3> QED
      BY <3>1, <3>2
  <2> QED
    BY <2>1 DEF HonouredUnlessRevoked
<1> QED
  BY <1>3, <1>7, <1>8, <1>10, <1>11, <1>12

\* Nothing is stored, and no session changes its account.
LEMMA RestKeeps ==
  ASSUME Inv, GrantInv, NEW r \in Requests, Plain(r), \A t : Minted(t) => Minted(t)',
         UNCHANGED <<tokens, grants>>, DOMAIN sessions' = DOMAIN sessions,
         \A s \in DOMAIN sessions : sessions'[s].g = sessions[s].g,
         mislaid \subseteq mislaid',
         req[r].pc \notin {"store", "revoke"} \/ req[r].spent \in mislaid'
  PROVE  GrantInv'
<1>1. TokensStep(r)
  BY DEF GrantInv, Stored, TokensStep
<1>2. SessionsStep(r)
  BY DEF SessionsStep
<1>3. ReportStep(r)
  BY DEF ReportStep, GrantInv, UnderWay
<1> QED
  BY <1>1, <1>2, <1>3, PlainKeeps

LEMMA OverPlain ==
  ASSUME Shape, NEW r \in Requests, NEW ok, NEW set, Over(r, ok, set)
  PROVE  Plain(r)
  BY DEF Shape, Over, Change, Plain, Fields, HasCode, Kind, NoToken

LEMMA ProceedPlain ==
  ASSUME Shape, NEW r \in Requests, NEW tok, NEW set, Proceed(r, tok, set),
         req[r].pc \in {"token", "store", "revoke", "rotate"},
         req[r].pc = "rotate" => ~Callback(Kind(r))
  PROVE  Plain(r)
<1> USE DEF Shape, Plain, Fields, Kind
<1>1. CASE req[r].gate
  <2>1. Change(r, [gate |-> FALSE, tok |-> tok, set |-> set,
                   pc |-> IF Kind(r) = "profile" THEN "principal" ELSE "load",
                   csrf |-> IF set # {} /\ req[r].csrf # "none" THEN "right" ELSE req[r].csrf])
    BY <1>1 DEF Proceed
  <2> QED
    BY <1>1, <2>1 DEF Change, HasCode, PcFits, Gated, Callback
<1>2. CASE ~req[r].gate /\ Callback(Kind(r))
  <2>1. Change(r, [pc |-> "complete"])
    BY <1>2 DEF Proceed, Callback
  <2> QED
    BY <1>2, <2>1 DEF Change, Callback, HasCode
<1>3. CASE ~req[r].gate /\ ~Callback(Kind(r))
  <2>1. \/ \E ok, x : Over(r, ok, x)
        \/ Change(r, [pc |-> Kind(r)])
    BY <1>3 DEF Proceed, Callback, Succeed, Refuse
  <2>2. Kind(r) \in {"start", "startlink", "me", "renew", "logout", "profile", "unlink", "delete"}
    BY <1>3 DEF AskFits, Kinds, Callback
  <2>3. ASSUME Change(r, [pc |-> Kind(r)]) PROVE Plain(r)
    BY <1>3, <2>2, <2>3 DEF Change, HasCode, Callback
  <2> QED
    BY <2>1, <2>3, OverPlain
<1> QED
  BY <1>1, <1>2, <1>3

LEMMA AuthorizedPlain ==
  ASSUME Shape, NEW r \in Requests, Authorized(r),
         req[r].pc \in {"token", "store", "revoke"},
         req[r].pc = "token" => req[r].spent = NoToken
  PROVE  Plain(r)
<1>1. CASE allowRotation(r) /\ req[r].due
  <2>1. Change(r, [pc |-> "rotate"])
    BY <1>1 DEF Authorized
  <2> QED
    BY <2>1 DEF Change, Shape, Plain, Fields, HasCode, Kind
<1>2. CASE ~(allowRotation(r) /\ req[r].due)
  <2>1. Proceed(r, req[r].tok, req[r].set)
    BY <1>2 DEF Authorized
  <2> QED
    BY <2>1, ProceedPlain
<1> QED
  BY <1>1, <1>2

LEMMA BeginGrants ==
  ASSUME Inv, GrantInv, NEW r \in Requests, mislaid \subseteq mislaid', Begin(r)
  PROVE  GrantInv'
<1> DEFINE pc == IF Callback(Kind(r)) THEN "consume" ELSE IF Kind(r) = "start" THEN "create"
                 ELSE "load"
<1>1. /\ req[r].pc = "new" /\ DOMAIN req' = Requests
      /\ \A q \in Requests \ {r} : req'[q] = req[q]
      /\ req'[r].ask = req[r].ask /\ req'[r].pc = pc
      /\ req'[r].spent = req[r].spent
  BY DEF Begin, Change, Inv, Shape, Fields
<1>2. Plain(r)
  BY <1>1 DEF Plain, HasCode, Kind, Callback, GrantInv, UnderWay
<1>3. ASSUME NEW t, Minted(t) PROVE Minted(t)'
  BY <1>1, <1>3 DEF Minted, Kind, Early
<1> QED
  BY <1>1, <1>2, <1>3, RestKeeps DEF Begin

LEMMA TakeUpGrants ==
  ASSUME Inv, GrantInv, NEW r \in Requests, mislaid \subseteq mislaid',
         req[r].pc \in {"load", "token", "refresh", "store"},
         req[r].pc = "store" => req[r].spent \in mislaid',
         UNCHANGED <<tokens, grants, sessions>>,
         NEW pc \in {"complete", "token"}, DOMAIN req' = Requests,
         \A q \in Requests \ {r} : req'[q] = req[q],
         req'[r].ask = req[r].ask, req'[r].gate = req[r].gate, req'[r].pc = pc,
         req'[r].spent \in {req[r].spent, NoToken},
         pc = "token" => req[r].pc = "load" /\ req'[r].spent = NoToken
  PROVE  GrantInv'
<1>1. Plain(r)
  BY DEF Plain, HasCode, Kind
<1>2. ASSUME NEW t, Minted(t) PROVE Minted(t)'
  BY <1>2 DEF Minted, Kind, Early
<1> QED
  BY <1>1, <1>2, RestKeeps

LEMMA LoadGrants ==
  ASSUME Inv, GrantInv, NEW r \in Requests, mislaid \subseteq mislaid', Load(r)
  PROVE  GrantInv'
<1>1. req[r].pc = "load"
      /\ UNCHANGED <<tokens, grants, sessions>>
  BY DEF Load
<1>2. ASSUME Over(r, FALSE, req[r].set) PROVE GrantInv'
  BY <1>1, <1>2, OverMoves, OverPlain, MovesMint, RestKeeps DEF Inv
<1>3. ASSUME Change(r, [pc |-> "complete", sid |-> 0]) PROVE GrantInv'
  BY <1>1, <1>3, TakeUpGrants DEF Change, Inv, Shape, Fields
<1>4. ASSUME NEW s, Change(r, [pc |-> "token", sid |-> s, due |-> sessions[s].due,
                                spent |-> NoToken])
      PROVE  GrantInv'
  BY <1>1, <1>4, TakeUpGrants DEF Change, Inv, Shape, Fields
<1> QED
  BY <1>2, <1>3, <1>4 DEF Load, Refuse

LEMMA GoesOnGrants ==
  ASSUME Inv, GrantInv, NEW r \in Requests, mislaid \subseteq mislaid', LoginGoesOn(r)
  PROVE  GrantInv'
<1>1. /\ req[r].pc \in {"load", "token", "refresh", "store"}
      /\ req[r].pc = "store" => req[r].spent \in mislaid'
      /\ UNCHANGED <<tokens, grants, sessions>>
      /\ Change(r, [pc |-> "complete", sid |-> 0, rt |-> NoToken, spent |-> NoToken])
  BY DEF LoginGoesOn, Mislays
<1> QED
  BY <1>1, TakeUpGrants DEF Change, Inv, Shape, Fields

LEMMA ReceiveGrants ==
  ASSUME Inv, GrantInv, NEW r \in Requests, mislaid \subseteq mislaid', Receive(r)
  PROVE  GrantInv'
<1>1. Moves(r) /\ req[r].pc = "answered"
  BY ReceiveMoves DEF Inv, Receive, GrantInv, UnderWay
<1>2. Plain(r)
  BY <1>1 DEF Receive, Change, Inv, Shape, Fields, Plain, HasCode
<1> QED
  BY <1>1, <1>2, MovesMint, RestKeeps DEF Inv, Receive

\* A request that dies with a spent token is remembered for it.
LEMMA FailGrants ==
  ASSUME Inv, GrantInv, NEW r \in Requests, mislaid \subseteq mislaid', Fail(r)
  PROVE  GrantInv'
<1>1. Moves(r)
  BY FailMoves DEF Inv
<1>2. Plain(r)
  BY DEF Fail, Change, Inv, Shape, Fields, Plain, HasCode
<1>3. req[r].pc \in {"store", "revoke"} => req[r].spent \in mislaid'
  BY DEF Fail, Mislays
<1> QED
  BY <1>1, <1>2, <1>3, MovesMint, RestKeeps DEF Inv, Fail

\* A request takes the stored token of its session's account to GitHub.
LEMMA LoadTokenGrants ==
  ASSUME Inv, GrantInv, NEW r \in Requests, mislaid \subseteq mislaid', LoadGitHubToken(r)
  PROVE  GrantInv'
<1> USE DEF GrantInv
<1>0. /\ req[r].pc = "token" /\ req[r].spent = NoToken
      /\ UNCHANGED <<tokens, grants, sessions>>
  BY DEF LoadGitHubToken, UnderWay
<1>1. Moves(r)
  BY LoadGitHubTokenMoves DEF Inv
<1>2. CASE Authorized(r)
  BY <1>0, <1>1, <1>2, AuthorizedPlain, MovesMint, RestKeeps DEF Inv
<1>3. ASSUME NEW g \in Account(r), Change(r, [pc |-> "refresh", rt |-> tokens[g].rt])
      PROVE  GrantInv'
  <2>1. /\ req[r].sid \in DOMAIN sessions /\ sessions[req[r].sid].g = g
        /\ g \in DOMAIN tokens
    BY <1>3 DEF Account, Inv, Sessions, Accounts
  <2>2. /\ req'[r].pc = "refresh" /\ req'[r].rt = tokens[g].rt
        /\ req'[r].sid = req[r].sid /\ req'[r].spent = NoToken
        /\ req'[r].ask = req[r].ask
        /\ \A q \in Requests \ {r} : req'[q] = req[q]
    BY <1>0, <1>3 DEF Change, Inv, Shape, Fields
  <2>3. ASSUME NEW q \in Requests PROVE UnderWay(q)'
    <3>1. CASE q = r
      <4>1. \A h \in DOMAIN tokens : tokens[h].rt = tokens[g].rt => h = g
        BY <2>1 DEF Stored
      <4>2. \A h \in GitHubUsers : tokens[g].rt \in grants[h] => h = g
        BY <2>1 DEF Stored
      <4>3. HasCode(r)' => HasCode(r)
        BY <1>0, <2>2 DEF HasCode, Kind
      <4>4. tokens[g].rt # NoToken
        BY <2>1 DEF Stored
      <4> QED
        BY <1>0, <2>1, <2>2, <3>1, <4>1, <4>2, <4>3, <4>4 DEF UnderWay, OfSession
    <3>2. CASE q # r
      BY <1>0, <2>2, <3>2 DEF UnderWay, OfSession, HasCode, Kind
    <3> QED
      BY <3>1, <3>2
  <2>4. UsedTokens' \subseteq UsedTokens
    <3>1. ASSUME NEW q \in Requests
          PROVE  /\ req'[q].spent \in UsedTokens
                 /\ req'[q].pc = "refresh" => req'[q].rt \in UsedTokens
      BY <1>0, <2>1, <2>2 DEF UsedTokens
    <3> QED
      BY <1>0, <3>1 DEF UsedTokens
  <2>5. ASSUME NEW q \in Requests PROVE FreshTokens(q)' \subseteq FreshTokens(q)
    BY <1>0, <2>2 DEF FreshTokens, HasCode, Kind
  <2>6. \A t : Minted(t) => Minted(t)'
    BY <1>1, MovesMint DEF Inv
  <2>7. HonouredUnlessRevoked'
    BY <1>0, <2>2 DEF HonouredUnlessRevoked
  <2> QED
    BY <1>0, <2>3, <2>4, <2>5, <2>6, <2>7 DEF Granted, Stored
<1>4. ASSUME Change(r, [pc |-> "revoke"])
      PROVE  GrantInv'
  <2>1. Plain(r)
    BY <1>0, <1>4 DEF Change, Inv, Shape, Fields, Plain, HasCode, Kind
  <2> QED
    BY <1>0, <1>1, <2>1, MovesMint, RestKeeps DEF Inv
<1> QED
  BY <1>2, <1>3, <1>4 DEF LoadGitHubToken

LEMMA RotateGrants ==
  ASSUME Inv, GrantInv, NEW r \in Requests, mislaid \subseteq mislaid', Rotate(r)
  PROVE  GrantInv'
<1>0. PICK new : new = <<r, IF req[r].gate THEN "gate" ELSE "main">>
  OBVIOUS
<1>1. Moves(r) /\ req[r].pc = "rotate"
  BY RotateMoves DEF Inv, Rotate, GrantInv, UnderWay
<1>2. Plain(r)
  <2>1. ~Callback(Kind(r))
    BY <1>1 DEF Inv, Shape, PcFits, Gated, Callback
  <2>2. Refuse(r) \/ Proceed(r, new, {new})
    BY <1>0 DEF Rotate
  <2> QED
    BY <1>1, <2>1, <2>2, ProceedPlain, OverPlain DEF Inv, Refuse
<1>3. DOMAIN sessions' = DOMAIN sessions /\ \A s \in DOMAIN sessions : sessions'[s].g = sessions[s].g
  <2>1. PICK s : s = req[r].sid
    OBVIOUS
  <2>2. sessions' = sessions \/ sessions' = RotateSession(s, new)
    BY <1>0, <2>1 DEF Rotate
  <2>3. ASSUME sessions' = RotateSession(s, new) PROVE <1>3!:
    BY <2>3 DEF RotateSession, Inv, Sessions
  <2> QED
    BY <2>2, <2>3
<1> QED
  BY <1>1, <1>2, <1>3, MovesMint, RestKeeps DEF Inv, Rotate

\* Handlers that leave accounts and GitHub alone.
LEMMA HandlerGrants ==
  ASSUME Inv, GrantInv, NEW r \in Requests, mislaid \subseteq mislaid',
         LoadSessionPrincipal(r) \/ RefreshSession(r) \/ Logout(r) \/ StartOAuth(r)
  PROVE  GrantInv'
<1>1. /\ req[r].pc \notin {"store", "revoke", "done"}
      /\ \E ok, set : Over(r, ok, set)
      /\ UNCHANGED <<tokens, grants>>
  <2>1. req[r].pc \in {"principal", "renew", "logout", "create", "startlink"}
    BY DEF LoadSessionPrincipal, RefreshSession, Logout, StartOAuth
  <2>2. UNCHANGED <<tokens, grants>>
    BY DEF LoadSessionPrincipal, RefreshSession, Logout, StartOAuth
  <2>3. \E ok, set : Over(r, ok, set)
    BY DEF LoadSessionPrincipal, RefreshSession, Logout, StartOAuth, Succeed, Refuse
  <2> QED
    BY <2>1, <2>2, <2>3 DEF GrantInv, UnderWay
<1>2. Moves(r)
  BY HandlerMoves DEF Inv
<1>3. Plain(r)
  BY <1>1, OverPlain DEF Inv
<1>4. DOMAIN sessions' = DOMAIN sessions /\ \A s \in DOMAIN sessions : sessions'[s].g = sessions[s].g
  <2>0. PICK s : s = req[r].sid
    OBVIOUS
  <2>1. ASSUME RefreshSession(r) PROVE <1>4!:
    <3>1. sessions' = sessions \/ \E t : sessions' = RotateSession(s, t)
      BY <2>0, <2>1 DEF RefreshSession
    <3>2. ASSUME NEW t, sessions' = RotateSession(s, t) PROVE <1>4!:
      BY <3>2 DEF RotateSession, Inv, Sessions
    <3> QED
      BY <3>1, <3>2
  <2>2. ASSUME Logout(r) PROVE <1>4!:
    <3>1. sessions' = sessions \/ sessions' = [sessions EXCEPT ![s].valid = FALSE]
      BY <2>0, <2>2 DEF Logout, InvalidateSession
    <3> QED
      BY <3>1 DEF Inv, Sessions
  <2> QED
    BY <2>1, <2>2 DEF LoadSessionPrincipal, StartOAuth
<1> QED
  BY <1>1, <1>2, <1>3, <1>4, MovesMint, RestKeeps DEF Inv

LEMMA ConsumeGrants ==
  ASSUME Inv, GrantInv, NEW r \in Requests, mislaid \subseteq mislaid', ConsumeOAuthState(r)
  PROVE  GrantInv'
<1>1. /\ req[r].pc = "consume" /\ UNCHANGED <<tokens, grants, sessions>>
  BY DEF ConsumeOAuthState, GrantInv, UnderWay
<1>2. Moves(r)
  BY ConsumeMoves DEF Inv
<1>3. Plain(r)
  <2>1. ASSUME Change(r, [pc |-> "exchange"]) PROVE Plain(r)
    BY <1>1, <2>1 DEF Change, Inv, Shape, Fields, Plain, HasCode
  <2> QED
    BY <1>1, <2>1, OverPlain DEF ConsumeOAuthState, Refuse, Inv
<1> QED
  BY <1>1, <1>2, <1>3, MovesMint, RestKeeps DEF Inv

LEMMA UnlinkGrants ==
  ASSUME Inv, GrantInv, NEW r \in Requests, mislaid \subseteq mislaid', UnlinkAccount(r)
  PROVE  GrantInv'
<1>1. req[r].pc = "unlink" /\ grants' = grants
  BY DEF UnlinkAccount, GrantInv, UnderWay
<1>2. Moves(r)
  BY HandlerMoves DEF Inv
<1>3. Plain(r)
  BY <1>1, OverPlain DEF UnlinkAccount, Succeed, Refuse, Inv
<1>4. CASE UNCHANGED <<tokens, sessions>>
  BY <1>1, <1>2, <1>3, <1>4, MovesMint, RestKeeps DEF Inv
<1>5. ASSUME NEW g \in Own(r), tokens' = [tokens EXCEPT ![g].revoked = TRUE],
             sessions' = InvalidateSessionsOf(r, g)
      PROVE  GrantInv'
  <2>1. TokensStep(r)
    BY <1>5 DEF TokensStep, GrantInv, Stored
  <2>2. SessionsStep(r)
    BY <1>5 DEF SessionsStep, InvalidateSessionsOf, Of, Inv, Sessions
  <2>3. ReportStep(r)
    BY <1>1 DEF ReportStep
  <2> QED
    BY <1>1, <1>2, <1>3, <2>1, <2>2, <2>3, MovesMint, PlainKeeps DEF Inv
<1> QED
  BY <1>4, <1>5 DEF UnlinkAccount

\* With a user every account goes that one of its sessions is of.
LEMMA DeleteGrants ==
  ASSUME Inv, GrantInv, NEW r \in Requests, mislaid \subseteq mislaid', DeleteAccount(r)
  PROVE  GrantInv'
<1>1. req[r].pc = "delete" /\ grants' = grants
  BY DEF DeleteAccount, GrantInv, UnderWay
<1>2. Moves(r)
  BY HandlerMoves DEF Inv
<1>3. Plain(r)
  BY <1>1, OverPlain DEF DeleteAccount, Succeed, Refuse, Inv
<1>4. CASE UNCHANGED <<tokens, sessions>>
  BY <1>1, <1>2, <1>3, <1>4, MovesMint, RestKeeps DEF Inv
<1>5. ASSUME NEW u,
             tokens' = Without(tokens, {h \in DOMAIN accounts : accounts[h].user = u}),
             sessions' = Without(sessions, {s \in DOMAIN sessions : sessions[s].user = u})
      PROVE  GrantInv'
  <2>1. TokensStep(r)
    BY <1>5 DEF TokensStep, GrantInv, Stored, Without
  <2>2. SessionsStep(r)
    BY <1>5 DEF SessionsStep, Without, Inv, Sessions
  <2>3. ReportStep(r)
    BY <1>1 DEF ReportStep
  <2> QED
    BY <1>1, <1>2, <1>3, <2>1, <2>2, <2>3, MovesMint, PlainKeeps DEF Inv
<1> QED
  BY <1>4, <1>5 DEF DeleteAccount

\* The session's account is the one whose token was taken to GitHub.
LEMMA StoreGrants ==
  ASSUME Inv, GrantInv, NEW r \in Requests, mislaid \subseteq mislaid', StoreToken(r)
  PROVE  GrantInv'
<1> USE DEF GrantInv
<1>1. /\ req[r].pc = "store" /\ UNCHANGED <<grants, sessions>>
      /\ Authorized(r)
  BY DEF StoreToken, UnderWay
<1>2. Moves(r) /\ Plain(r)
  BY <1>1, StoreMoves, AuthorizedPlain DEF Inv
<1>3. PICK new : new = req[r].rt
  OBVIOUS
<1>4. \A g : g \in Account(r) <=> OfSession(r, g)
  BY DEF Account, OfSession
<1>5. /\ DOMAIN tokens' = DOMAIN tokens
      /\ \A h \in DOMAIN tokens : /\ ~OfSession(r, h) => tokens'[h] = tokens[h]
                                  /\ OfSession(r, h) => tokens'[h] = [rt |-> new, revoked |-> FALSE,
                                                                      expired |-> FALSE]
  BY <1>3, <1>4 DEF StoreToken, StoreRefreshedGitHubToken
<1>6. new \in FreshTokens(r) /\ new \notin FreshTokens(r)'
  <2>1. new = <<r, "gate">> \/ new = <<r, "main">>
    <3>1. UnderWay(r)
      OBVIOUS
    <3> QED
      BY <1>1, <1>3, <3>1 DEF UnderWay
  <2>2. \A t \in FreshTokens(r)' : t = <<r, "code">>
    BY <1>2 DEF FreshTokens, Plain
  <2> QED
    BY <1>1, <1>3, <2>1, <2>2 DEF FreshTokens
<1>7. \A h \in DOMAIN tokens : OfSession(r, h) => new \in grants[h]
  BY <1>1, <1>3 DEF UnderWay, OfSession
<1>8. TokensStep(r)
  BY <1>5, <1>6, <1>7 DEF TokensStep, Stored
<1>9. SessionsStep(r)
  BY <1>1 DEF SessionsStep
<1>10. ReportStep(r)
  <2>1. ASSUME NEW h \in DOMAIN tokens', tokens'[h].rt = req[r].spent PROVE tokens'[h].rt \in grants[h]
    <3>1. CASE OfSession(r, h)
      BY <1>5, <1>7, <3>1
    <3>2. CASE ~OfSession(r, h)
      BY <1>1, <1>5, <2>1, <3>2 DEF UnderWay
    <3> QED
      BY <3>1, <3>2
  <2> QED
    BY <2>1 DEF ReportStep
<1> QED
  BY <1>1, <1>2, <1>8, <1>9, <1>10, MovesMint, PlainKeeps DEF Inv

\* What is marked includes the token that was spent, or its report is lost.
LEMMA MarkGrants ==
  ASSUME Inv, GrantInv, NEW r \in Requests, mislaid \subseteq mislaid', MarkTokenRevoked(r)
  PROVE  GrantInv'
<1> USE DEF GrantInv
<1>1. /\ req[r].pc = "revoke" /\ UNCHANGED <<grants, sessions>>
      /\ Authorized(r)
  BY DEF MarkTokenRevoked
<1>2. Moves(r) /\ Plain(r)
  BY <1>1, StoreMoves, AuthorizedPlain DEF Inv
<1>3. \A g : g \in Account(r) <=> OfSession(r, g)
  BY DEF Account, OfSession
<1>4. CASE tokens' = Marked(r)
  <2>1. /\ DOMAIN tokens' = DOMAIN tokens
        /\ \A h \in DOMAIN tokens :
             /\ ~OfSession(r, h) => tokens'[h] = tokens[h]
             /\ OfSession(r, h) => tokens'[h] = [tokens[h] EXCEPT !.revoked = TRUE]
    BY <1>3, <1>4 DEF Marked
  <2>2. TokensStep(r)
    BY <2>1 DEF TokensStep, Stored
  <2>3. SessionsStep(r)
    BY <1>1 DEF SessionsStep
  <2>4. ReportStep(r)
    <3>1. ASSUME NEW h \in DOMAIN tokens', tokens'[h].rt = req[r].spent
          PROVE  tokens'[h].revoked
      <4>1. OfSession(r, h)
        BY <1>1, <2>1, <3>1 DEF UnderWay
      <4> QED
        BY <2>1, <4>1 DEF Stored
    <3> QED
      BY <3>1 DEF ReportStep
  <2> QED
    BY <1>1, <1>2, <2>2, <2>3, <2>4, MovesMint, PlainKeeps DEF Inv
<1>5. CASE tokens' = tokens /\ Mislays(r)
  BY <1>1, <1>2, <1>5, MovesMint, RestKeeps DEF Inv, Mislays
<1> QED
  BY <1>4, <1>5 DEF MarkTokenRevoked

----------------------------------------------------------------------------
(* Steps that GitHub sees, transactions and time.                          *)

\* GitHub gives out a token nobody knows yet, perhaps for one it takes back.
LEMMA GotKeeps ==
  ASSUME Inv, GrantInv, NEW r \in Requests, mislaid \subseteq mislaid', Moves(r), UNCHANGED <<tokens, sessions>>,
         NEW g \in GitHubUsers, NEW new, NEW old,
         DOMAIN grants' = GitHubUsers, \A h \in GitHubUsers \ {g} : grants'[h] = grants[h],
         grants[g] \ {old} \subseteq grants'[g], new \in grants'[g],
         grants'[g] \subseteq grants[g] \cup {new},
         new # NoToken, ~Minted(new), Minted(new)',
         \/ old = NoToken
         \/ /\ old \in UsedTokens /\ req'[r].spent = old
            /\ req'[r].pc \in {"store", "revoke"},
         req[r].pc \in {"exchange", "refresh"}, req'[r].pc # "refresh",
         req'[r].spent \in UsedTokens, FreshTokens(r)' \subseteq FreshTokens(r) \cup {new},
         UnderWay(r)'
  PROVE  GrantInv'
<1> USE DEF GrantInv
<1>1. \A h \in GitHubUsers : new \notin grants[h]
  BY DEF Granted
<1>2. /\ \A t \in UsedTokens : t # new
      /\ \A q \in Requests : \A t \in FreshTokens(q) : t # old
  <2>1. \A q \in Requests : \A t \in FreshTokens(q) : t # NoToken /\ t \notin UsedTokens
    BY FreshNames
  <2> QED
    BY <2>1
<1>3. Granted'
  <2>1. \A t : Minted(t) => Minted(t)'
    BY MovesMint DEF Inv
  <2>2. \A h \in GitHubUsers : \A t \in grants'[h] : t \in grants[h] \/ (t = new /\ h = g)
    OBVIOUS
  <2>3. \A h \in GitHubUsers : \A t \in grants'[h] : Minted(t)'
    BY <2>1, <2>2 DEF Granted
  <2>4. ASSUME NEW h \in GitHubUsers, NEW i \in GitHubUsers, NEW t \in grants'[h] \cap grants'[i]
        PROVE  h = i
    BY <1>1, <2>2 DEF Granted
  <2> QED
    BY <2>3, <2>4 DEF Granted
<1>4. ASSUME NEW t \in UsedTokens, NEW h \in GitHubUsers, t \in grants'[h]
      PROVE  t \in grants[h]
  BY <1>2, <1>4
<1>5. \A h \in DOMAIN tokens : tokens[h].rt \in UsedTokens
  BY DEF UsedTokens
<1>6. Stored'
  BY <1>4, <1>5 DEF Stored
<1>7. ASSUME NEW q \in Requests \ {r} PROVE UnderWay(q)'
  <2>1. req'[q] = req[q] /\ (HasCode(q)' <=> HasCode(q)) /\ UnderWay(q)
    BY DEF Moves, HasCode, Kind
  <2>2. ASSUME NEW t \in FreshTokens(q), NEW h \in GitHubUsers, t \in grants[h]
        PROVE  t \in grants'[h]
    BY <1>2, <2>2
  <2>3. /\ req[q].pc = "refresh" => req[q].rt \in UsedTokens
        /\ req[q].pc = "store" => req[q].rt \in FreshTokens(q)
        /\ HasCode(q) => <<q, "code">> \in FreshTokens(q)
    BY DEF UsedTokens, FreshTokens
  <2>4. req[q].pc = "refresh" =>
          \A h \in GitHubUsers :
            req[q].rt \in grants'[h] /\ req[q].sid \in DOMAIN sessions => OfSession(q, h)
    BY <1>4, <2>1, <2>3 DEF UnderWay
  <2>5. req[q].pc = "store" =>
          /\ req[q].sid \in DOMAIN sessions => req[q].rt \in grants'[sessions[req[q].sid].g]
          /\ \E h \in GitHubUsers : req[q].rt \in grants'[h]
    <3>1. req[q].sid \in DOMAIN sessions => sessions[req[q].sid].g \in GitHubUsers
      BY DEF Inv, Sessions, Accounts, Stored
    <3> QED
      BY <2>1, <2>2, <2>3, <3>1 DEF UnderWay
  <2>6. HasCode(q) => <<q, "code">> \in grants'[req[q].ask.g]
    BY <2>1, <2>2, <2>3 DEF UnderWay, Inv, Shape, AskFits
  <2> QED
    BY <2>1, <2>4, <2>5, <2>6 DEF UnderWay, OfSession
<1>8. UsedTokens' \subseteq UsedTokens
  <2>1. ASSUME NEW q \in Requests
        PROVE  req'[q].spent \in UsedTokens /\ (req'[q].pc = "refresh" => req'[q].rt \in UsedTokens)
    BY DEF Moves, UsedTokens
  <2> QED
    BY <2>1 DEF Moves, UsedTokens
<1>9. \A t \in UsedTokens' : t = NoToken \/ Minted(t)'
  BY <1>8, MovesMint DEF Inv
<1>10. ASSUME NEW q \in Requests PROVE FreshTokens(q)' \cap UsedTokens' = {}
  <2>1. q # r => FreshTokens(q)' = FreshTokens(q)
    BY DEF Moves, FreshTokens, HasCode, Kind
  <2> QED
    BY <1>2, <1>8, <2>1
<1>11. HonouredUnlessRevoked'
  <2>1. ASSUME NEW h \in DOMAIN tokens, ~tokens[h].revoked
        PROVE  \/ tokens[h].rt \in grants'[h] \cup mislaid'
               \/ \E q \in Requests : /\ req'[q].spent = tokens[h].rt
                                      /\ req'[q].pc \in {"store", "revoke"}
    <3>1. CASE tokens[h].rt \in grants[h]
      BY <2>1, <3>1 DEF Stored
    <3>2. ASSUME NEW q \in Requests, req[q].spent = tokens[h].rt,
                 req[q].pc \in {"store", "revoke"}
          PROVE  req'[q] = req[q]
      BY <3>2 DEF Moves, UnderWay
    <3> QED
      BY <2>1, <3>1, <3>2 DEF HonouredUnlessRevoked
  <2> QED
    BY <2>1 DEF HonouredUnlessRevoked
<1> QED
  BY <1>3, <1>6, <1>7, <1>9, <1>10, <1>11

\* GitHub takes a refresh token once.
LEMMA RefreshGrants ==
  ASSUME Inv, GrantInv, NEW r \in Requests, mislaid \subseteq mislaid', RefreshUserAccessToken(r)
  PROVE  GrantInv'
<1> USE DEF GrantInv
<1>0. PICK old, new : old = req[r].rt /\ new = <<r, IF req[r].gate THEN "gate" ELSE "main">>
  OBVIOUS
<1>1. /\ req[r].pc = "refresh" /\ req[r].spent = NoToken /\ Moves(r)
      /\ UNCHANGED <<tokens, sessions>>
  BY RefreshMoves DEF RefreshUserAccessToken, UnderWay, Inv
<1>2. ASSUME grants' = grants, Change(r, [pc |-> "revoke"]) PROVE GrantInv'
  <2>1. Plain(r)
    BY <1>1, <1>2 DEF Change, Inv, Shape, Fields, Plain, HasCode, Kind
  <2> QED
    BY <1>1, <1>2, <2>1, MovesMint, RestKeeps DEF Inv
<1>3. ASSUME NEW g \in GitHubUsers, old \in grants[g],
             grants' = [grants EXCEPT ![g] = (@ \ {old}) \cup {new}],
             req'[r].pc \in {"store", "revoke"}, req'[r].spent = old,
             req'[r].pc = "store" => req'[r].rt = new,
             req'[r].gate = req[r].gate
      PROVE  GrantInv'
  <2>1. old \in UsedTokens
    BY <1>0, <1>1 DEF UsedTokens
  <2>2. /\ DOMAIN grants' = GitHubUsers /\ \A h \in GitHubUsers \ {g} : grants'[h] = grants[h]
        /\ grants[g] \ {old} \subseteq grants'[g] /\ new \in grants'[g]
        /\ grants'[g] \subseteq grants[g] \cup {new}
    BY <1>3 DEF Granted
  <2>3. new # NoToken /\ ~Minted(new)
    <3>1. new \in {<<r, "gate">>, <<r, "main">>}
      BY <1>0
    <3>2. \A tag : <<r, tag>> # NoToken /\ <<r, tag>> # FirstGrant
      BY NamesAssumption DEF NoToken, FirstGrant
    <3>3. CASE req[r].gate
      <4>1. new = <<r, "gate">>
        BY <1>0, <3>3
      <4> QED
        BY <1>1, <3>2, <3>3, <4>1 DEF Minted, Early
    <3>4. CASE ~req[r].gate
      <4>1. new = <<r, "main">>
        BY <1>0, <3>4
      <4> QED
        BY <1>1, <3>2, <3>4, <4>1 DEF Minted, Early
    <3> QED
      BY <3>3, <3>4
  <2>4. Minted(new)'
    <3>1. CASE req[r].gate
      <4>1. Gated(Kind(r)) /\ new = <<r, "gate">>
        BY <1>0, <3>1 DEF Inv, Shape, PcFits
      <4> QED
        BY <1>1, <1>3, <4>1 DEF Minted, Early, Moves, Kind
    <3>2. CASE ~req[r].gate
      BY <1>0, <1>3, <3>2 DEF Minted, Early
    <3> QED
      BY <3>1, <3>2
  <2>5. HasCode(r)' => HasCode(r)
    BY <1>1 DEF HasCode, Moves, Kind
  <2>6. FreshTokens(r)' \subseteq FreshTokens(r) \cup {new}
    BY <1>3, <2>5 DEF FreshTokens
  <2>7. UnderWay(r)'
    <3>1. \A h \in DOMAIN tokens : tokens[h].rt = old => OfSession(r, h)
      BY <1>0, <1>1 DEF UnderWay
    <3>2. req[r].sid \in DOMAIN sessions => sessions[req[r].sid].g = g
      <4>1. UnderWay(r) /\ req[r].rt \in grants[g]
        BY <1>0, <1>3
      <4> QED
        BY <1>1, <4>1 DEF UnderWay, OfSession
    <3>3. HasCode(r) => <<r, "code">> \in grants'[req[r].ask.g]
      <4>1. HasCode(r) => <<r, "code">> \in FreshTokens(r) /\ <<r, "code">> \in grants[req[r].ask.g]
        BY DEF FreshTokens, UnderWay
      <4>2. HasCode(r) => <<r, "code">> # old
        BY <2>1, <4>1, FreshNames
      <4> QED
        BY <2>2, <4>1, <4>2 DEF Inv, Shape, AskFits
    <3>4. req'[r].sid = req[r].sid /\ req'[r].ask = req[r].ask
      BY <1>1 DEF Moves
    <3>5. new = <<r, IF req'[r].gate THEN "gate" ELSE "main">>
      BY <1>0, <1>3
    <3> QED
      BY <1>1, <1>3, <2>2, <2>5, <3>1, <3>2, <3>3, <3>4, <3>5 DEF UnderWay, OfSession
  <2> QED
    BY <1>1, <1>3, <2>1, <2>2, <2>3, <2>4, <2>6, <2>7, GotKeeps
<1>4. ASSUME NEW g \in GitHubUsers, old \in grants[g],
             grants' = [grants EXCEPT ![g] = (@ \ {old}) \cup {new}],
             \/ Change(r, [pc |-> "store", rt |-> new, spent |-> old])
             \/ Change(r, [pc |-> "revoke", spent |-> old])
      PROVE  GrantInv'
  <2>1. /\ req'[r].pc \in {"store", "revoke"} /\ req'[r].spent = old
        /\ req'[r].pc = "store" => req'[r].rt = new
        /\ req'[r].gate = req[r].gate
    <3>1. ASSUME Change(r, [pc |-> "store", rt |-> new, spent |-> old]) PROVE <2>1!:
      BY <1>1, <3>1 DEF Change, Inv, Shape, Fields
    <3>2. ASSUME Change(r, [pc |-> "revoke", spent |-> old]) PROVE <2>1!:
      BY <1>1, <3>2 DEF Change, Inv, Shape, Fields
    <3> QED
      BY <1>4, <3>1, <3>2
  <2> QED
    BY <1>3, <1>4, <2>1
<1> QED
  BY <1>0, <1>2, <1>4 DEF RefreshUserAccessToken

\* The code's exchange adds a grant.
LEMMA ExchangeGrants ==
  ASSUME Inv, GrantInv, NEW r \in Requests, mislaid \subseteq mislaid', ExchangeUserAccessToken(r)
  PROVE  GrantInv'
<1> USE DEF GrantInv
<1>0. PICK g, new : g = req[r].ask.g /\ new = <<r, "code">>
  OBVIOUS
<1>1. /\ req[r].pc = "exchange" /\ Moves(r) /\ Callback(Kind(r))
      /\ UNCHANGED <<tokens, sessions>> /\ g \in GitHubUsers
  BY <1>0, ExchangeMoves DEF ExchangeUserAccessToken, UnderWay, Inv, Shape, PcFits, AskFits
<1>2. ASSUME grants' = grants, Refuse(r) PROVE GrantInv'
  BY <1>1, <1>2, OverPlain, MovesMint, RestKeeps DEF Inv, Refuse
<1>3. ASSUME grants' = [grants EXCEPT ![g] = @ \cup {new}],
             req'[r].pc \in {"complete", "load"}, req'[r].spent = req[r].spent
      PROVE  GrantInv'
  <2>1. /\ DOMAIN grants' = GitHubUsers /\ \A h \in GitHubUsers \ {g} : grants'[h] = grants[h]
        /\ grants[g] \ {NoToken} \subseteq grants'[g] /\ new \in grants'[g]
        /\ grants'[g] \subseteq grants[g] \cup {new}
    BY <1>1, <1>3 DEF Granted
  <2>2. new # NoToken /\ ~Minted(new)
    BY <1>0, <1>1, NamesAssumption DEF NoToken, FirstGrant, Minted
  <2>3. Minted(new)'
    BY <1>0, <1>1, <1>3 DEF Minted, Moves, Kind
  <2>4. FreshTokens(r)' \subseteq FreshTokens(r) \cup {new}
    BY <1>0, <1>3 DEF FreshTokens
  <2>5. UnderWay(r)'
    BY <1>0, <1>1, <1>3, <2>1 DEF UnderWay, Moves
  <2>6. req'[r].spent \in UsedTokens
    BY <1>3 DEF UsedTokens
  <2> QED
    BY <1>1, <1>3, <2>1, <2>2, <2>3, <2>4, <2>5, <2>6, GotKeeps
<1>4. ASSUME NEW pc \in {"complete", "load"}, grants' = [grants EXCEPT ![g] = @ \cup {new}],
             Change(r, [pc |-> pc])
      PROVE  GrantInv'
  BY <1>1, <1>3, <1>4 DEF Change, Inv, Shape, Fields
<1> QED
  BY <1>0, <1>2, <1>4 DEF ExchangeUserAccessToken

\* The code's token is stored with the account it was got for; a new session
\* is of no request that is under way.
LEMMA CompleteGrants ==
  ASSUME Inv, GrantInv, NEW r \in Requests, mislaid \subseteq mislaid', CompleteAuth(r)
  PROVE  GrantInv'
<1> USE DEF GrantInv
<1>0. PICK g, new : g = req[r].ask.g /\ new = <<r, "code">>
  OBVIOUS
<1>1. /\ req[r].pc = "complete" /\ grants' = grants /\ Callback(Kind(r))
      /\ g \in GitHubUsers /\ new \in grants[g] /\ HasCode(r)
  <2>1. req[r].pc = "complete" /\ grants' = grants
    BY DEF CompleteAuth
  <2>2. Callback(Kind(r)) /\ g \in GitHubUsers
    BY <1>0, <2>1 DEF Inv, Shape, PcFits, AskFits
  <2>3. HasCode(r)
    BY <2>1, <2>2 DEF HasCode
  <2> QED
    BY <1>0, <2>1, <2>2, <2>3 DEF UnderWay
<1>2. Moves(r)
  BY HandlerMoves DEF Inv
<1>3. (\E ok, set : Over(r, ok, set)) /\ Plain(r)
  <2>1. \E ok, set : Over(r, ok, set)
    BY DEF CompleteAuth, Succeed, Refuse
  <2> QED
    BY <1>1, <2>1, OverPlain DEF Inv
<1>4. CASE UNCHANGED <<tokens, sessions>>
  BY <1>1, <1>2, <1>3, <1>4, MovesMint, RestKeeps DEF Inv
<1>5. ASSUME tokens' = upsertGitHubToken(r), SessionsStep(r)
      PROVE  GrantInv'
  <2>1. /\ DOMAIN tokens' = DOMAIN tokens \cup {g}
        /\ tokens'[g] = [rt |-> new, revoked |-> FALSE, expired |-> FALSE]
        /\ \A h \in DOMAIN tokens \ {g} : tokens'[h] = tokens[h]
    BY <1>0, <1>5 DEF upsertGitHubToken, With
  <2>2. new \in FreshTokens(r) /\ new \notin FreshTokens(r)'
    <3>1. req'[r].pc = "answered"
      BY <1>1, <1>3, OverMoves DEF Inv
    <3> QED
      BY <1>0, <1>1, <3>1 DEF FreshTokens, HasCode
  <2>3. TokensStep(r)
    BY <1>1, <2>1, <2>2 DEF TokensStep, Stored
  <2>4. ReportStep(r)
    BY <1>1 DEF ReportStep
  <2> QED
    BY <1>1, <1>2, <1>3, <1>5, <2>3, <2>4, MovesMint, PlainKeeps DEF Inv
<1>6. ASSUME completeLoginTx(r), Kind(r) # "link" PROVE SessionsStep(r)
  <2>1. /\ DOMAIN sessions' = DOMAIN sessions \cup {r}
        /\ \A s \in DOMAIN sessions \ {r} : sessions'[s].g = sessions[s].g
    BY <1>6 DEF completeLoginTx, With, Inv, Sessions
  <2>2. \A q \in Requests : req[q].sid # r
    BY <1>1, NamesAssumption DEF Inv, Names, Created, Logged, IsOver
  <2>3. r \notin DOMAIN sessions
    BY <1>1, NamesAssumption DEF Inv, Names, Created, Logged, IsOver
  <2> QED
    BY <2>1, <2>2, <2>3 DEF SessionsStep
<1>7. ASSUME completeLinkTx(r), Kind(r) = "link", tokens' = upsertGitHubToken(r)
      PROVE  SessionsStep(r)
  BY <1>7, HandlerMoves, LinkKeeps DEF SessionsStep, Inv
<1> QED
  BY <1>4, <1>5, <1>6, <1>7 DEF CompleteAuth

LEMMA TimeGrants ==
  ASSUME Inv, GrantInv, mislaid \subseteq mislaid',
         \/ \E g \in DOMAIN tokens : AccessTokenExpires(g)
         \/ \E s \in DOMAIN sessions : RotationFallsDue(s) \/ SessionExpires(s)
  PROVE  GrantInv'
<1> USE DEF GrantInv
<1>1. /\ UNCHANGED req /\ DOMAIN sessions' = DOMAIN sessions
      /\ \A s \in DOMAIN sessions : sessions'[s].g = sessions[s].g
  BY TimeKeeps
<1>2. /\ grants' = grants /\ DOMAIN tokens' = DOMAIN tokens
      /\ \A h \in DOMAIN tokens : /\ tokens'[h].rt = tokens[h].rt
                                  /\ tokens'[h].revoked = tokens[h].revoked
                                  /\ DOMAIN tokens'[h] = DOMAIN tokens[h]
  <2>1. ASSUME NEW g \in DOMAIN tokens, AccessTokenExpires(g) PROVE <1>2!:
    <3>1. grants' = grants /\ tokens' = [tokens EXCEPT ![g].expired = TRUE]
      BY <2>1 DEF AccessTokenExpires
    <3>2. ASSUME NEW h \in DOMAIN tokens
          PROVE  /\ tokens'[h].rt = tokens[h].rt
                 /\ tokens'[h].revoked = tokens[h].revoked
                 /\ DOMAIN tokens'[h] = DOMAIN tokens[h]
      <4>1. DOMAIN tokens[h] = {"rt", "revoked", "expired"}
        BY DEF Stored
      <4> QED
        BY <3>1, <4>1
    <3> QED
      BY <3>1, <3>2
  <2>2. ASSUME NEW s, RotationFallsDue(s) \/ SessionExpires(s) PROVE <1>2!:
    BY <2>2 DEF RotationFallsDue, SessionExpires
  <2> QED
    BY <2>1, <2>2
<1>3. \A t : Minted(t) => Minted(t)'
  BY <1>1 DEF Minted, Kind
<1>6. Granted' /\ Stored'
  <2>1. ASSUME NEW h \in DOMAIN tokens'
        PROVE  /\ DOMAIN tokens'[h] = {"rt", "revoked", "expired"}
               /\ tokens'[h].rt # NoToken
               /\ \A g \in GitHubUsers : tokens'[h].rt \in grants'[g] => g = h
               /\ \A g \in DOMAIN tokens' : tokens'[h].rt = tokens'[g].rt => g = h
    BY <1>2 DEF Stored
  <2>2. Granted'
    BY <1>2, <1>3 DEF Granted
  <2>3. DOMAIN tokens' \subseteq GitHubUsers
    BY <1>2 DEF Stored
  <2> QED
    BY <2>1, <2>2, <2>3 DEF Stored
<1>4. ASSUME NEW q \in Requests
      PROVE  /\ FreshTokens(q)' = FreshTokens(q)
             /\ UnderWay(q)'
  BY <1>1, <1>2 DEF FreshTokens, HasCode, Kind, UnderWay, OfSession
<1>5. UsedTokens' \subseteq UsedTokens
  BY <1>1, <1>2 DEF UsedTokens
<1>7. HonouredUnlessRevoked'
  BY <1>1, <1>2 DEF HonouredUnlessRevoked
<1> QED
  BY <1>3, <1>4, <1>5, <1>6, <1>7

LEMMA InitGrants == Init => GrantInv
<1> SUFFICES ASSUME Init PROVE GrantInv
  OBVIOUS
<1>1. PICK g0 \in GitHubUsers : g0 = CHOOSE x \in GitHubUsers : TRUE
  BY NamesAssumption
<1>2. /\ DOMAIN tokens \subseteq {g0}
      /\ \A h \in DOMAIN tokens : tokens[h] = [rt |-> FirstGrant, revoked |-> FALSE, expired |-> FALSE]
      /\ grants = [x \in GitHubUsers |-> IF x \in DOMAIN tokens THEN {FirstGrant} ELSE {}]
  BY <1>1 DEF Init
<1>3. \A r \in Requests : /\ req[r].pc = "new" /\ req[r].spent = NoToken
                          /\ req[r].rt = NoToken
  BY DEF Init
<1>4. Granted /\ Stored
  <2>1. FirstGrant # NoToken /\ Minted(FirstGrant)
    BY DEF FirstGrant, NoToken, Minted
  <2>2. \A g \in GitHubUsers : grants[g] = IF g \in DOMAIN tokens THEN {FirstGrant} ELSE {}
    BY <1>2
  <2>3. Granted
    <3>1. \A g \in GitHubUsers : \A t \in grants[g] : t = FirstGrant /\ g = g0
      BY <1>2, <2>2
    <3> QED
      BY <1>2, <2>1, <3>1 DEF Granted
  <2>4. \A h \in DOMAIN tokens : /\ h = g0
                                  /\ DOMAIN tokens[h] = {"rt", "revoked", "expired"}
                                  /\ tokens[h].rt = FirstGrant
    BY <1>2
  <2>5. \A g \in GitHubUsers : FirstGrant \in grants[g] => g = g0
    BY <1>2, <2>2
  <2> QED
    BY <1>2, <2>1, <2>3, <2>4, <2>5 DEF Stored
<1>5. \A r \in Requests : UnderWay(r)
  BY <1>3 DEF UnderWay, HasCode
<1>6. UsedTokens \subseteq {FirstGrant, NoToken}
  BY <1>2, <1>3 DEF UsedTokens
<1>7. \A r \in Requests : FreshTokens(r) = {}
  BY <1>3 DEF FreshTokens, HasCode
<1>8. HonouredUnlessRevoked
  BY <1>1, <1>2 DEF HonouredUnlessRevoked
<1> QED
  BY <1>4, <1>5, <1>6, <1>7, <1>8 DEF GrantInv, Minted

\* No report that was lost is made up for.
LEMMA MislaidStaysMislaid ==
  ASSUME [Next]_vars
  PROVE  mislaid \subseteq mislaid'
<1>1. ASSUME NEW r \in Requests,
             \/ Fail(r) \/ LoginGoesOn(r) \/ MarkTokenRevoked(r)
      PROVE  mislaid \subseteq mislaid'
  BY <1>1 DEF Fail, LoginGoesOn, MarkTokenRevoked, Mislays
<1>2. ASSUME NEW r \in Requests,
             \/ Begin(r) \/ Receive(r) \/ Load(r) \/ LoadGitHubToken(r)
             \/ RefreshUserAccessToken(r) \/ StoreToken(r) \/ Rotate(r)
             \/ LoadSessionPrincipal(r) \/ RefreshSession(r) \/ Logout(r) \/ UnlinkAccount(r)
             \/ DeleteAccount(r) \/ StartOAuth(r) \/ ConsumeOAuthState(r)
             \/ ExchangeUserAccessToken(r) \/ CompleteAuth(r)
      PROVE  mislaid' = mislaid
  BY <1>2 DEF Begin, Receive, Load, LoadGitHubToken, RefreshUserAccessToken, StoreToken, Rotate,
              LoadSessionPrincipal, RefreshSession, Logout, UnlinkAccount, DeleteAccount, StartOAuth,
              ConsumeOAuthState, ExchangeUserAccessToken, CompleteAuth
<1>3. ASSUME NEW x, AccessTokenExpires(x) \/ RotationFallsDue(x) \/ SessionExpires(x)
      PROVE  mislaid' = mislaid
  BY <1>3 DEF AccessTokenExpires, RotationFallsDue, SessionExpires
<1> QED
  BY <1>1, <1>2, <1>3 DEF Next, vars

LEMMA NextGrants == Inv /\ GrantInv /\ [Next]_vars => GrantInv'
<1> SUFFICES ASSUME Inv, GrantInv, [Next]_vars PROVE GrantInv'
  OBVIOUS
<1>1. CASE UNCHANGED vars
  <2>1. UNCHANGED <<req, sessions, tokens, grants, mislaid>>
    BY <1>1 DEF vars
  <2>2. \A t : Minted(t)' <=> Minted(t)
    BY <2>1 DEF Minted, Kind
  <2>3. (Granted /\ Stored)'
    BY <2>1, <2>2 DEF GrantInv, Granted, Stored
  <2>4. \A r \in Requests : HasCode(r)' <=> HasCode(r)
    BY <2>1 DEF HasCode, Kind
  <2>5. \A r \in Requests : \A g : OfSession(r, g)' <=> OfSession(r, g)
    BY <2>1 DEF OfSession
  <2>6. ASSUME NEW r \in Requests PROVE UnderWay(r)'
    <3>1. UnderWay(r)
      BY DEF GrantInv
    <3> QED
      BY <2>1, <2>4, <2>5, <3>1 DEF UnderWay
  <2>7. UsedTokens' = UsedTokens
    BY <2>1 DEF UsedTokens
  <2>8. \A r \in Requests : FreshTokens(r)' = FreshTokens(r)
    BY <2>1, <2>4 DEF FreshTokens
  <2>9. HonouredUnlessRevoked'
    BY <2>1 DEF GrantInv, HonouredUnlessRevoked
  <2> QED
    BY <2>2, <2>3, <2>6, <2>7, <2>8, <2>9 DEF GrantInv
<1>0. mislaid \subseteq mislaid'
  BY MislaidStaysMislaid
<1>2. ASSUME NEW r \in Requests,
             \/ Begin(r) \/ Receive(r) \/ Fail(r) \/ Load(r) \/ LoginGoesOn(r) \/ LoadGitHubToken(r)
             \/ RefreshUserAccessToken(r) \/ StoreToken(r) \/ MarkTokenRevoked(r) \/ Rotate(r)
             \/ LoadSessionPrincipal(r) \/ RefreshSession(r) \/ Logout(r) \/ UnlinkAccount(r)
             \/ DeleteAccount(r) \/ StartOAuth(r) \/ ConsumeOAuthState(r)
             \/ ExchangeUserAccessToken(r) \/ CompleteAuth(r)
      PROVE  GrantInv'
  BY <1>0, <1>2, BeginGrants, ReceiveGrants, FailGrants, LoadGrants, GoesOnGrants, LoadTokenGrants, RefreshGrants,
     StoreGrants, MarkGrants, RotateGrants, HandlerGrants, UnlinkGrants, DeleteGrants,
     ConsumeGrants, ExchangeGrants, CompleteGrants
<1>3. CASE \/ \E g \in DOMAIN tokens : AccessTokenExpires(g)
           \/ \E s \in DOMAIN sessions : RotationFallsDue(s) \/ SessionExpires(s)
  BY <1>0, <1>3, TimeGrants
<1> QED
  BY <1>1, <1>2, <1>3 DEF Next

\* A stored refresh token that is not marked revoked is one GitHub still takes,
\* or a request has spent it that is about to report, or could not: two
\* requests that refresh at once never leave a spent token as a good one
\* (ensureGitHubAuthorization, completeLoginTx, completeLinkTx).
THEOREM GoodTokensAreHonoured == Spec => []HonouredUnlessRevoked
<1>1. Init => GrantInv
  BY InitGrants
<1>2. Inv /\ Inv' /\ GrantInv /\ [Next]_vars => GrantInv'
  BY NextGrants
<1>3. GrantInv => HonouredUnlessRevoked
  BY DEF GrantInv
<1> QED
  BY Invariance, <1>1, <1>2, <1>3, PTL DEF Spec

----------------------------------------------------------------------------
(* What a browser holds, now and when its request in flight is answered.   *)

\* Tokens and sessions are of the browser whose request made them.
Owner(x) == IF x \in Browsers THEN x ELSE Browser(x)

Mine(b, t) ==
  t = NoToken \/ \E x \in Browsers \cup Requests : Owner(x) = b /\ \E tag : t = <<x, tag>>

\* The token's own request, if any, is over or is r.
Settled(r, t) == t[1] \in Requests => t[1] = r \/ IsOver(t[1])

Purses ==
  /\ DOMAIN cookie = Browsers
  /\ \A b \in Browsers : Mine(b, cookie[b]) /\ Settled(0, cookie[b])
  /\ \A r \in Requests :
       /\ \/ req[r].sid = 0
          \/ req[r].sid \in Browsers \cup Requests /\ Owner(req[r].sid) = Browser(r)
       /\ \A t \in req[r].set \cup {req[r].tok} : Mine(Browser(r), t) /\ Settled(r, t)

Busy(r) == req[r].pc \notin {"new", "answered", "done"}

Opened(r) == req[r].pc \in {"token", "refresh", "store", "revoke", "rotate", "renew"}

\* What the browser holds once the answer has come.
Holds(r) == IF req[r].set = {} THEN {cookie[Browser(r)]} ELSE req[r].set

Fits(t) ==
  t # NoToken =>
    LET s == SessionOf(t)
    IN  s \in DOMAIN sessions /\ sessions[s].valid => sessions[s].token = t

\* A careful browser has one request in flight.
Alone(r) == \A q \in Requests : Browser(q) = Browser(r) /\ InFlight(q) /\ InFlight(r) => q = r

\* While a session is rotated for the second time the browser's token is old.
Tidy(r) ==
  /\ req[r].pc = "new" => req[r].set = {}
  /\ Busy(r) => Holds(r) = {req[r].tok} /\ req[r].csrf = "right"
  /\ Opened(r) => req[r].tok # NoToken /\ req[r].sid = SessionOf(req[r].tok)
  /\ Busy(r) /\ req[r].pc # "renew" => Fits(req[r].tok)
  /\ req[r].pc = "answered" => \A t \in Holds(r) : Fits(t)

Calm(b) == (\A r \in Requests : Browser(r) = b => ~InFlight(r)) => Fits(cookie[b])

CarefulInv ==
  /\ Purses
  /\ \A r \in Requests : Browser(r) \in Careful => Alone(r) /\ Tidy(r)
  /\ \A b \in Careful : Calm(b)

\* A token is looked up in the session of its owner.
LEMMA HeldIsMine ==
  ASSUME Inv, Purses, NEW t, NEW s \in DOMAIN sessions, Held(t, s)
  PROVE  /\ t # NoToken /\ SessionOf(t) = s /\ s \in Browsers \cup Requests
         /\ \A b : Mine(b, t) => Owner(s) = b
<1>1. s # 0 /\ s \in Browsers \cup Requests
  BY NamesAssumption DEF Inv, Names, Created, Logged
<1>2. CASE s \in Seats /\ t = <<s, "first">>
  BY <1>1, <1>2, NamesAssumption DEF SessionOf, Mine, NoToken
<1>3. ASSUME NEW q \in Requests, NEW tag, t = <<q, tag>>,
             (Kind(q) = "login" /\ s = q) \/ (Kind(q) # "login" /\ s = req[q].sid)
      PROVE  t # NoToken /\ SessionOf(t) = s /\ \A b : Mine(b, t) => Owner(s) = b
  <2>1. q \notin Browsers /\ q # 0 /\ t[1] = q
    BY <1>3, NamesAssumption
  <2>2. SessionOf(t) = s
    BY <1>3, <2>1 DEF SessionOf
  <2>3. Owner(s) = Browser(q) /\ Owner(q) = Browser(q)
    BY <1>1, <1>3, <2>1 DEF Purses, Owner
  <2>4. t # NoToken
    BY <1>3, <2>1 DEF NoToken
  <2>5. ASSUME NEW b, Mine(b, t) PROVE Owner(s) = b
    BY <1>3, <2>3, <2>4, <2>5 DEF Mine
  <2> QED
    BY <2>2, <2>4, <2>5
<1> QED
  BY <1>1, <1>2, <1>3 DEF Held, Gated

\* The session of a token is of the token's browser.
LEMMA SessionIsMine ==
  ASSUME Inv, Purses, NEW b \in Browsers, NEW t, Mine(b, t), t # NoToken
  PROVE  SessionOf(t) = 0 \/ (SessionOf(t) \in Browsers \cup Requests /\ Owner(SessionOf(t)) = b)
<1>1. PICK x \in Browsers \cup Requests : Owner(x) = b /\ \E tag : t = <<x, tag>>
  BY DEF Mine
<1> QED
  BY <1>1 DEF SessionOf, Purses, Owner

\* A step of one browser's request does not matter to another browser.
LEMMA StepKeeps ==
  ASSUME Inv, Inv', CarefulInv, NEW r \in Requests,
         DOMAIN req' = Requests, \A q \in Requests \ {r} : req'[q] = req[q],
         req'[r].ask = req[r].ask, IsOver(r) => IsOver(r)', req'[r].pc # "new",
         \/ req'[r].sid = 0
         \/ req'[r].sid \in Browsers \cup Requests /\ Owner(req'[r].sid) = Browser(r),
         \A t \in req'[r].set \cup {req'[r].tok} : Mine(Browser(r), t) /\ Settled(r, t)',
         DOMAIN cookie' = Browsers, \A b \in Browsers \ {Browser(r)} : cookie'[b] = cookie[b],
         \E c : c = cookie'[Browser(r)] /\ Mine(Browser(r), c) /\ Settled(0, c)',
         \A s \in DOMAIN sessions' : sessions'[s].valid =>
            \/ s \in DOMAIN sessions /\ sessions[s].valid /\ sessions'[s].token = sessions[s].token
            \/ Owner(s) = Browser(r),
         Browser(r) \in Careful =>
            /\ InFlight(r) \/ \A q \in Requests : Browser(q) = Browser(r) => ~InFlight(q)
            /\ Tidy(r)' /\ \A b : b = Browser(r) => Calm(b)'
  PROVE  CarefulInv'
<1> USE DEF CarefulInv
<1>0. PICK br : br = Browser(r)
  OBVIOUS
<1>1. /\ \A q \in Requests : Browser(q)' = Browser(q) /\ Kind(q)' = Kind(q) /\ Browser(q) \in Browsers
      /\ \A x \in Browsers \cup Requests : Owner(x)' = Owner(x)
      /\ \A q \in Requests : IsOver(q) => IsOver(q)'
  <2>1. \A q \in Requests : req'[q].ask = req[q].ask
    OBVIOUS
  <2>2. \A q \in Requests : Browser(q)' = Browser(q) /\ Kind(q)' = Kind(q) /\ Browser(q) \in Browsers
    BY <2>1 DEF Browser, Kind, Inv, Shape, AskFits
  <2>3. \A q \in Requests : IsOver(q) => IsOver(q)'
    BY DEF IsOver
  <2> QED
    BY <2>2, <2>3 DEF Owner
<1>2. ASSUME NEW b, NEW t, Mine(b, t) PROVE Mine(b, t)'
  BY <1>1, <1>2 DEF Mine
<1>3. ASSUME NEW q, NEW t, Settled(q, t) PROVE Settled(q, t)'
  BY <1>1, <1>3 DEF Settled
<1>4. Purses'
  <2>1. ASSUME NEW b \in Browsers, NEW c, c = cookie'[b] PROVE Mine(b, c)' /\ Settled(0, c)'
    <3>1. CASE b = br
      BY <1>0, <1>2, <2>1, <3>1
    <3>2. CASE b # br
      BY <1>0, <1>2, <1>3, <2>1, <3>2 DEF Purses
    <3> QED
      BY <3>1, <3>2
  <2>2. ASSUME NEW q \in Requests
        PROVE  /\ \/ req'[q].sid = 0
                  \/ /\ req'[q].sid \in Browsers \cup Requests
                     /\ \A x : x = req'[q].sid => Owner(x)' = Browser(q)
               /\ \A t \in req'[q].set \cup {req'[q].tok} : Mine(Browser(q), t) /\ Settled(q, t)'
    BY <1>1, <1>3 DEF Purses
  <2>3. ASSUME NEW q \in Requests, NEW b, b = Browser(q), NEW t \in req'[q].set \cup {req'[q].tok}
        PROVE  Mine(b, t)' /\ Settled(q, t)'
    BY <1>2, <2>2, <2>3
  <2> QED
    BY <1>1, <2>1, <2>2, <2>3 DEF Purses
<1>5. ASSUME NEW b \in Browsers \ {br}, NEW t, Mine(b, t), t # NoToken
      PROVE  SessionOf(t)' = SessionOf(t) /\ (Fits(t) => Fits(t)')
  <2>1. PICK x \in Browsers \cup Requests : Owner(x) = b /\ \E tag : t = <<x, tag>>
    BY <1>5 DEF Mine
  <2>2. x # r
    BY <1>0, <1>5, <2>1, NamesAssumption DEF Owner
  <2>3. SessionOf(t)' = SessionOf(t)
    BY <1>1, <2>1, <2>2 DEF SessionOf
  <2>4. PICK s : s = SessionOf(t)
    OBVIOUS
  <2>5. s \in DOMAIN sessions' => Owner(s) = b
    <3>1. 0 \notin DOMAIN sessions'
      BY NamesAssumption DEF Inv, Names, Created, Logged
    <3> QED
      BY <1>5, <2>4, <3>1, SessionIsMine
  <2>6. s = SessionOf(t)'
    BY <2>3, <2>4
  <2>7. ASSUME Fits(t), s \in DOMAIN sessions', sessions'[s].valid PROVE sessions'[s].token = t
    BY <1>0, <1>5, <2>4, <2>5, <2>7 DEF Fits
  <2>8. Fits(t) => Fits(t)'
    BY <2>6, <2>7 DEF Fits
  <2> QED
    BY <2>3, <2>8
<1>6. ASSUME NEW q \in Requests \ {r}, Browser(q) \in Careful PROVE Alone(q)' /\ Tidy(q)'
  <2>1. req'[q] = req[q] /\ Alone(q) /\ Tidy(q) /\ Browser(q)' = Browser(q) /\ Browser(q) \in Browsers
    BY <1>1, <1>6
  <2>2. CASE Browser(q) = br
    <3>1. ~InFlight(q)
      BY <1>0, <1>6, <2>2 DEF Alone
    <3> QED
      BY <2>1, <3>1 DEF Alone, Tidy, InFlight, Busy, Opened
  <2>3. CASE Browser(q) # br
    <3>1. ASSUME NEW p \in Requests, Browser(p) = Browser(q) PROVE InFlight(p)' <=> InFlight(p)
      BY <1>0, <2>3, <3>1 DEF InFlight
    <3>2. Alone(q)'
      BY <1>1, <2>1, <3>1 DEF Alone
    <3>3. cookie'[Browser(q)] = cookie[Browser(q)] /\ Holds(q)' = Holds(q)
      BY <1>0, <2>1, <2>3 DEF Holds
    <3>4. PICK b, t : b \in Browsers \ {br} /\ b = Browser(q) /\ t = req[q].tok
      BY <2>1, <2>3
    <3>5. Mine(b, t) /\ \A u \in Holds(q) : Mine(b, u)
      BY <2>1, <3>4 DEF Purses, Holds
    <3>6. t # NoToken => SessionOf(t)' = SessionOf(t) /\ (Fits(t) => Fits(t)')
      BY <1>5, <3>4, <3>5
    <3>7. \A u \in Holds(q) : Fits(u) => Fits(u)'
      BY <1>5, <3>4, <3>5 DEF Fits
    <3>8. t = NoToken => Fits(t)'
      BY DEF Fits
    <3>9. t = req'[q].tok /\ (Opened(q)' <=> Opened(q)) /\ (Busy(q)' <=> Busy(q))
      BY <2>1, <3>4 DEF Opened, Busy
    <3>10. Opened(q)' => t # NoToken /\ req'[q].sid = SessionOf(t)'
      BY <2>1, <3>4, <3>6, <3>9 DEF Tidy
    <3>11. Busy(q)' /\ req'[q].pc # "renew" => Fits(t)'
      BY <2>1, <3>4, <3>6, <3>8, <3>9 DEF Tidy
    <3>12. req'[q].pc = "answered" => \A u \in Holds(q)' : Fits(u)'
      BY <2>1, <3>3, <3>7 DEF Tidy
    <3> QED
      BY <2>1, <3>2, <3>3, <3>4, <3>9, <3>10, <3>11, <3>12 DEF Tidy
  <2> QED
    BY <2>2, <2>3
<1>7. Browser(r) \in Careful => Alone(r)' /\ Tidy(r)'
  <2>1. ASSUME Browser(r) \in Careful, NEW q \in Requests \ {r}, Browser(q) = Browser(r)
        PROVE  ~InFlight(q)'
    BY <2>1 DEF Alone, InFlight
  <2> QED
    BY <1>1, <2>1 DEF Alone
<1>8. ASSUME NEW b \in Careful PROVE Calm(b)'
  <2>1. CASE b = br
    BY <1>0, <1>8, <2>1
  <2>2. CASE b # br
    <3>1. PICK c : c = cookie[b]
      OBVIOUS
    <3>2. b \in Browsers \ {br} /\ c = cookie'[b] /\ Mine(b, c)
      BY <1>0, <2>2, <3>1, NamesAssumption DEF Purses
    <3>3. Fits(c) => Fits(c)'
      BY <1>5, <3>2 DEF Fits
    <3>4. (\A q \in Requests : Browser(q)' = b => ~InFlight(q)') => Fits(c)
      <4>1. \A q \in Requests : Browser(q) = b => Browser(q)' = b /\ (InFlight(q)' <=> InFlight(q))
        BY <1>0, <1>1, <2>2 DEF InFlight
      <4> QED
        BY <3>1, <4>1 DEF Calm
    <3> QED
      BY <3>2, <3>3, <3>4 DEF Calm
  <2> QED
    BY <2>1, <2>2
<1> QED
  BY <1>1, <1>4, <1>6, <1>7, <1>8

\* A step of a request that stays in flight and gives the browser nothing yet.
LEMMA RequestKeeps ==
  ASSUME Inv, Inv', CarefulInv, NEW r \in Requests, Moves(r), UNCHANGED cookie,
         \A t \in req'[r].set \cup {req'[r].tok} :
            \/ t \in req[r].set \cup {req[r].tok, NoToken}
            \/ \E tag : t = <<r, tag>>,
         \A s \in DOMAIN sessions' : sessions'[s].valid =>
            \/ s \in DOMAIN sessions /\ sessions[s].valid /\ sessions'[s].token = sessions[s].token
            \/ s \in {r, req[r].sid},
         Browser(r) \in Careful => InFlight(r) /\ InFlight(r)' /\ Tidy(r)'
  PROVE  CarefulInv'
<1>1. Purses
  BY DEF CarefulInv
<1>2. r \notin Browsers /\ 0 \notin Browsers \cup Requests /\ Browser(r) \in Browsers /\ Owner(r) = Browser(r)
  BY NamesAssumption DEF Inv, Shape, AskFits, Browser, Owner
<1>3. ASSUME NEW t \in req'[r].set \cup {req'[r].tok} PROVE Mine(Browser(r), t) /\ Settled(r, t)'
  <2>1. CASE t \in req[r].set \cup {req[r].tok}
    <3>1. Mine(Browser(r), t) /\ Settled(r, t)
      BY <1>1, <2>1 DEF Purses
    <3>2. \A q \in Requests : IsOver(q) => IsOver(q)'
      BY DEF Moves, IsOver
    <3> QED
      BY <3>1, <3>2 DEF Settled
  <2>2. CASE t = NoToken
    BY <1>2, <2>2 DEF Mine, Settled, NoToken
  <2>3. ASSUME NEW tag, t = <<r, tag>> PROVE Mine(Browser(r), t) /\ Settled(r, t)'
    BY <1>2, <2>3 DEF Mine, Settled
  <2> QED
    BY <1>3, <2>1, <2>2, <2>3
<1>4. \E c : c = cookie'[Browser(r)] /\ Mine(Browser(r), c) /\ Settled(0, c)'
  <2>1. PICK c : c = cookie[Browser(r)]
    OBVIOUS
  <2>2. Mine(Browser(r), c) /\ Settled(0, c)
    BY <1>1, <1>2, <2>1 DEF Purses
  <2>3. \A q \in Requests : IsOver(q) => IsOver(q)'
    BY DEF Moves, IsOver
  <2>4. Settled(0, c)'
    BY <2>2, <2>3 DEF Settled
  <2> QED
    BY <2>1, <2>2, <2>4
<1>5. ASSUME Browser(r) \in Careful, NEW b, b = Browser(r) PROVE Calm(b)'
  <2>1. Browser(r)' = b /\ InFlight(r)'
    BY <1>5 DEF Moves, Browser
  <2> QED
    BY <2>1 DEF Calm
<1>6. \A s \in DOMAIN sessions' : sessions'[s].valid =>
            \/ s \in DOMAIN sessions /\ sessions[s].valid /\ sessions'[s].token = sessions[s].token
            \/ Owner(s) = Browser(r)
  <2>1. 0 \notin DOMAIN sessions'
    BY <1>2, NamesAssumption DEF Inv, Names, Created, Logged
  <2> QED
    BY <1>1, <1>2, <2>1 DEF Purses
<1>7. /\ req'[r].sid = 0 \/ (req'[r].sid \in Browsers \cup Requests /\ Owner(req'[r].sid) = Browser(r))
      /\ DOMAIN cookie' = Browsers /\ \A b \in Browsers : cookie'[b] = cookie[b]
  BY <1>1 DEF Purses, Moves
<1> QED
  BY <1>3, <1>4, <1>5, <1>6, <1>7, StepKeeps DEF Moves

\* A request keeps its token, or is over and leaves the browser its own or none.
Steady(r) ==
  /\ req'[r].set \in {req[r].set, {NoToken}}
  /\ \/ req'[r].pc = "answered" /\ req'[r].tok = NoToken
     \/ /\ Busy(r)' /\ (Opened(r)' => Opened(r))
        /\ req'[r].tok = req[r].tok /\ req'[r].set = req[r].set
        /\ req[r].csrf = "right" => req'[r].csrf = "right"

\* No session is opened or gets a new token.
Fades ==
  \A s \in DOMAIN sessions' : sessions'[s].valid =>
     s \in DOMAIN sessions /\ sessions[s].valid /\ sessions'[s].token = sessions[s].token

LEMMA FadesFits ==
  ASSUME Fades, NEW t, SessionOf(t)' = SessionOf(t), Fits(t)
  PROVE  Fits(t)'
<1>1. PICK s : s = SessionOf(t)
  OBVIOUS
<1>2. s = SessionOf(t)'
  BY <1>1
<1>3. s \in DOMAIN sessions' /\ sessions'[s].valid => sessions'[s].token = t \/ t = NoToken
  BY <1>1 DEF Fits, Fades
<1> QED
  BY <1>2, <1>3 DEF Fits

LEMMA MovesSessionOf ==
  ASSUME Shape, NEW r \in Requests, Moves(r), NEW b, NEW t, Mine(b, t), t # NoToken
  PROVE  SessionOf(t)' = SessionOf(t)
<1>1. PICK x \in Browsers \cup Requests : \E tag : t = <<x, tag>>
  BY DEF Mine
<1>2. x \in Requests => req'[x].ask = req[x].ask /\ req'[x].sid = req[x].sid
  BY DEF Moves
<1> QED
  BY <1>1, <1>2 DEF SessionOf, Kind

LEMMA AnsweredTidy ==
  ASSUME NEW r \in Requests, req'[r].pc = "answered", \A u : u \in Holds(r)' => Fits(u)'
  PROVE  Tidy(r)'
  BY DEF Tidy, Busy, Opened

LEMMA BusyTidy ==
  ASSUME NEW r \in Requests, NEW t, req'[r].tok = t, req'[r].pc \notin {"new", "answered", "done"},
         Holds(r)' = {t}, req'[r].csrf = "right",
         Opened(r)' => t # NoToken /\ req'[r].sid = SessionOf(t)',
         req'[r].pc = "renew" \/ Fits(t)'
  PROVE  Tidy(r)'
<1>1. \A u : u = req'[r].tok => u = t
  OBVIOUS
<1>2. Opened(r)' => req'[r].tok # NoToken /\ req'[r].sid = SessionOf(req[r].tok)'
  BY DEF SessionOf
<1>3. req'[r].pc = "renew" \/ Fits(req[r].tok)'
  BY DEF Fits, SessionOf
<1> QED
  BY <1>2, <1>3 DEF Tidy, Busy

LEMMA SteadyKeeps ==
  ASSUME Inv, Inv', CarefulInv, NEW r \in Requests, Moves(r), Steady(r), Fades,
         UNCHANGED cookie, Busy(r), req[r].pc # "renew"
  PROVE  CarefulInv'
<1> USE DEF CarefulInv
<1>1. PICK t : t = req[r].tok
  OBVIOUS
<1>2. Mine(Browser(r), t)
  BY <1>1 DEF Purses
<1>3. t # NoToken => SessionOf(t)' = SessionOf(t)
  BY <1>2, MovesSessionOf DEF Inv
<1>4. Fits(t) => Fits(t)'
  BY <1>3, FadesFits DEF Fits
<1>5. Fits(NoToken)'
  BY DEF Fits
<1>6. ASSUME Browser(r) \in Careful
      PROVE  InFlight(r) /\ InFlight(r)' /\ Tidy(r)'
  <2>1. Tidy(r) /\ Holds(r) = {t} /\ Fits(t) /\ req[r].csrf = "right"
    BY <1>1, <1>6 DEF Tidy
  <2>2. InFlight(r) /\ InFlight(r)'
    BY DEF InFlight, Busy, Steady
  <2>3. Browser(r)' = Browser(r)
    BY DEF Moves, Browser
  <2>4. Holds(r)' \in {{t}, {NoToken}}
    BY <2>1, <2>3 DEF Holds, Steady
  <2>5. CASE req'[r].pc = "answered" /\ req'[r].tok = NoToken
    <3>1. ASSUME NEW u, u \in Holds(r)' PROVE Fits(u)'
      <4>1. u = t \/ u = NoToken
        BY <2>4, <3>1
      <4> QED
        BY <1>4, <1>5, <2>1, <4>1
    <3> QED
      BY <2>2, <2>5, <3>1, AnsweredTidy
  <2>6. CASE /\ Busy(r)' /\ (Opened(r)' => Opened(r))
             /\ req'[r].tok = t /\ req'[r].set = req[r].set /\ req'[r].csrf = "right"
    <3>1. Holds(r)' = {t}
      BY <2>1, <2>3, <2>6 DEF Holds
    <3>2. Opened(r)' => t # NoToken /\ req'[r].sid = SessionOf(t)'
      <4>1. Opened(r) => t # NoToken /\ req[r].sid = SessionOf(t)
        BY <1>1, <2>1 DEF Tidy
      <4> QED
        BY <1>3, <2>6, <4>1 DEF Moves
    <3> QED
      <4>1. Fits(t)'
        BY <1>4, <2>1
      <4>2. req'[r].pc \notin {"new", "answered", "done"} /\ req'[r].csrf = "right"
        BY <2>6 DEF Busy
      <4> QED
        BY <2>2, <2>6, <3>1, <3>2, <4>1, <4>2, BusyTidy
  <2> QED
    BY <1>1, <2>1, <2>2, <2>5, <2>6 DEF Steady
<1>7. \A u \in req'[r].set \cup {req'[r].tok} : u \in req[r].set \cup {req[r].tok, NoToken}
  BY DEF Steady
<1> QED
  BY <1>6, <1>7, RequestKeeps DEF Fades

LEMMA OverSteady ==
  ASSUME Shape, NEW r \in Requests, NEW ok, NEW set, Over(r, ok, set),
         set \in {req[r].set, {NoToken}}
  PROVE  Steady(r)
  BY DEF Shape, Over, Change, Fields, Steady

LEMMA ProceedSteady ==
  ASSUME Shape, NEW r \in Requests, Proceed(r, req[r].tok, req[r].set),
         req[r].pc \in {"token", "store", "revoke"}
  PROVE  Steady(r)
<1> USE DEF Shape, Fields, Kind
<1>1. CASE req[r].gate
  <2>1. PICK csrf : /\ csrf \in {"right", req[r].csrf}
                    /\ Change(r, [gate |-> FALSE, tok |-> req[r].tok, set |-> req[r].set,
                                  pc |-> IF Kind(r) = "profile" THEN "principal" ELSE "load",
                                  csrf |-> csrf])
    BY <1>1 DEF Proceed
  <2> QED
    BY <2>1 DEF Change, Steady, Busy, Opened
<1>2. CASE ~req[r].gate /\ Callback(Kind(r))
  <2>1. Change(r, [pc |-> "complete"])
    BY <1>2 DEF Proceed, Callback
  <2> QED
    BY <2>1 DEF Change, Steady, Busy, Opened
<1>3. CASE ~req[r].gate /\ ~Callback(Kind(r))
  <2>1. \/ \E ok : Over(r, ok, req[r].set)
        \/ Change(r, [pc |-> Kind(r)])
    BY <1>3 DEF Proceed, Callback, Succeed, Refuse
  <2>2. Kind(r) \in {"start", "startlink", "me", "renew", "logout", "profile", "unlink", "delete"}
    BY <1>3 DEF AskFits, Kinds, Callback
  <2>3. ASSUME Change(r, [pc |-> Kind(r)]) PROVE Steady(r)
    BY <2>2, <2>3 DEF Change, Steady, Busy, Opened
  <2> QED
    BY <2>1, <2>3, OverSteady
<1> QED
  BY <1>1, <1>2, <1>3

LEMMA AuthorizedSteady ==
  ASSUME Shape, NEW r \in Requests, Authorized(r), req[r].pc \in {"token", "store", "revoke"}
  PROVE  Steady(r)
<1>1. CASE allowRotation(r) /\ req[r].due
  <2>1. Change(r, [pc |-> "rotate"])
    BY <1>1 DEF Authorized
  <2> QED
    BY <2>1 DEF Change, Shape, Fields, Steady, Busy, Opened
<1>2. CASE ~(allowRotation(r) /\ req[r].due)
  <2>1. Proceed(r, req[r].tok, req[r].set)
    BY <1>2 DEF Authorized
  <2> QED
    BY <2>1, ProceedSteady
<1> QED
  BY <1>1, <1>2

\* Calls to GitHub, and statements that write no session.
LEMMA CallsCareful ==
  ASSUME Inv, Inv', CarefulInv, NEW r \in Requests,
         \/ LoadGitHubToken(r) \/ RefreshUserAccessToken(r) \/ StoreToken(r) \/ MarkTokenRevoked(r)
         \/ LoadSessionPrincipal(r) \/ StartOAuth(r) \/ ConsumeOAuthState(r)
         \/ ExchangeUserAccessToken(r)
  PROVE  CarefulInv'
<1>1. Moves(r)
  BY LoadGitHubTokenMoves, RefreshMoves, StoreMoves, HandlerMoves, ConsumeMoves, ExchangeMoves
     DEF Inv
<1>2. /\ UNCHANGED <<sessions, cookie>>
      /\ req[r].pc \notin {"new", "answered", "done", "renew"}
  BY DEF LoadGitHubToken, RefreshUserAccessToken, StoreToken, MarkTokenRevoked,
         LoadSessionPrincipal, StartOAuth, ConsumeOAuthState, ExchangeUserAccessToken
<1>3. Steady(r)
  <2> USE DEF Inv
  <2>1. ASSUME LoadGitHubToken(r) PROVE Steady(r)
    <3>1. ASSUME NEW rt, Change(r, [pc |-> "refresh", rt |-> rt]) PROVE Steady(r)
      BY <2>1, <3>1 DEF LoadGitHubToken, Change, Shape, Fields, Steady, Busy, Opened
    <3>2. ASSUME Change(r, [pc |-> "revoke"]) PROVE Steady(r)
      BY <2>1, <3>2 DEF LoadGitHubToken, Change, Shape, Fields, Steady, Busy, Opened
    <3> QED
      BY <2>1, <3>1, <3>2, AuthorizedSteady DEF LoadGitHubToken
  <2>2. ASSUME RefreshUserAccessToken(r) PROVE Steady(r)
    <3>0. req[r].pc = "refresh"
      BY <2>2 DEF RefreshUserAccessToken
    <3>1. ASSUME NEW rt, NEW t, Change(r, [pc |-> "store", rt |-> rt, spent |-> t]) PROVE Steady(r)
      BY <3>0, <3>1 DEF Change, Shape, Fields, Steady, Busy, Opened
    <3>2. ASSUME NEW t, Change(r, [pc |-> "revoke", spent |-> t]) PROVE Steady(r)
      BY <3>0, <3>2 DEF Change, Shape, Fields, Steady, Busy, Opened
    <3>3. ASSUME Change(r, [pc |-> "revoke"]) PROVE Steady(r)
      BY <3>0, <3>3 DEF Change, Shape, Fields, Steady, Busy, Opened
    <3> QED
      BY <2>2, <3>1, <3>2, <3>3 DEF RefreshUserAccessToken
  <2>3. ASSUME StoreToken(r) \/ MarkTokenRevoked(r) PROVE Steady(r)
    BY <2>3, AuthorizedSteady DEF StoreToken, MarkTokenRevoked
  <2>4. ASSUME LoadSessionPrincipal(r) \/ StartOAuth(r) PROVE Steady(r)
    BY <2>4, OverSteady DEF LoadSessionPrincipal, StartOAuth, Succeed, Refuse
  <2>5. ASSUME ConsumeOAuthState(r) PROVE Steady(r)
    <3>1. ASSUME Change(r, [pc |-> "exchange"]) PROVE Steady(r)
      BY <3>1 DEF Change, Shape, Fields, Steady, Busy, Opened
    <3> QED
      BY <2>5, <3>1, OverSteady DEF ConsumeOAuthState, Refuse
  <2>6. ASSUME ExchangeUserAccessToken(r) PROVE Steady(r)
    <3>1. ASSUME NEW pc \in {"complete", "load"}, Change(r, [pc |-> pc]) PROVE Steady(r)
      BY <3>1 DEF Change, Shape, Fields, Steady, Busy, Opened
    <3> QED
      BY <2>6, <3>1, OverSteady DEF ExchangeUserAccessToken, Refuse
  <2> QED
    BY <2>1, <2>2, <2>3, <2>4, <2>5, <2>6
<1> QED
  BY <1>1, <1>2, <1>3, SteadyKeeps DEF Fades, Busy

\* Handlers that end sessions, and with them the caller's cookie.
LEMMA EndsCareful ==
  ASSUME Inv, Inv', CarefulInv, NEW r \in Requests,
         Logout(r) \/ UnlinkAccount(r) \/ DeleteAccount(r)
  PROVE  CarefulInv'
<1>1. Moves(r)
  BY HandlerMoves DEF Inv
<1>2. /\ UNCHANGED cookie /\ req[r].pc \in {"logout", "unlink", "delete"}
      /\ Refuse(r) \/ Succeed(r, {NoToken})
  BY DEF Logout, UnlinkAccount, DeleteAccount
<1>3. Steady(r)
  BY <1>2, OverSteady DEF Inv, Succeed, Refuse
<1>4. Fades
  <2> USE DEF Inv, Sessions, Fades
  <2>1. ASSUME Logout(r) PROVE Fades
    <3>1. PICK s : s = req[r].sid
      OBVIOUS
    <3>2. sessions' = sessions \/ sessions' = [sessions EXCEPT ![s].valid = FALSE]
      BY <2>1, <3>1 DEF Logout, InvalidateSession
    <3> QED
      BY <3>2
  <2>2. ASSUME UnlinkAccount(r) PROVE Fades
    <3>1. sessions' = sessions \/ \E g : sessions' = InvalidateSessionsOf(r, g)
      BY <2>2 DEF UnlinkAccount
    <3>2. ASSUME NEW g, sessions' = InvalidateSessionsOf(r, g) PROVE Fades
      BY <3>2 DEF InvalidateSessionsOf
    <3> QED
      BY <3>1, <3>2
  <2>3. ASSUME DeleteAccount(r) PROVE Fades
    <3>1. sessions' = sessions \/ \E S : sessions' = Without(sessions, S)
      BY <2>3 DEF DeleteAccount
    <3>2. ASSUME NEW S, sessions' = Without(sessions, S) PROVE Fades
      BY <3>2 DEF Without
    <3> QED
      BY <3>1, <3>2
  <2> QED
    BY <2>1, <2>2, <2>3
<1> QED
  BY <1>1, <1>2, <1>3, <1>4, SteadyKeeps DEF Busy

\* A browser begins with the token it holds.
LEMMA BeginCareful ==
  ASSUME Inv, Inv', CarefulInv, NEW r \in Requests, Begin(r)
  PROVE  CarefulInv'
<1> USE DEF CarefulInv
<1>0. PICK b, t : b = Browser(r) /\ t = cookie[b]
  OBVIOUS
<1>1. /\ req[r].pc = "new" /\ DOMAIN req' = Requests
      /\ \A q \in Requests \ {r} : req'[q] = req[q]
      /\ req'[r].ask = req[r].ask /\ req'[r].sid = req[r].sid
      /\ req'[r].pc \in {"consume", "create", "load"}
      /\ req'[r].tok = t /\ req'[r].set = req[r].set /\ req'[r].csrf = req[r].ask.csrf
  BY <1>0 DEF Begin, Change, Inv, Shape, Fields
<1>2. UNCHANGED <<sessions, cookie>> /\ b \in Browsers /\ 0 \notin Requests
  BY <1>0, NamesAssumption DEF Begin, Inv, Shape, AskFits, Browser
<1>3. Mine(b, t) /\ Settled(0, t)
  BY <1>0, <1>2 DEF Purses
<1>4. \A q \in Requests : /\ req'[q].ask = req[q].ask /\ req'[q].sid = req[q].sid
                          /\ IsOver(q) => IsOver(q)'
  BY <1>1 DEF IsOver
<1>5. ASSUME NEW q, NEW u, Settled(q, u) PROVE Settled(q, u)'
  BY <1>4, <1>5 DEF Settled
<1>6. \A u \in req'[r].set \cup {req'[r].tok} : Mine(b, u) /\ Settled(r, u)'
  <2>1. ASSUME NEW u \in req[r].set PROVE Mine(b, u) /\ Settled(r, u)'
    BY <1>0, <1>5, <2>1 DEF Purses
  <2>2. Settled(0, t)'
    BY <1>3, <1>5
  <2>3. Settled(r, t)'
    BY <1>2, <2>2 DEF Settled
  <2> QED
    BY <1>1, <1>3, <2>1, <2>3
<1>7. \E c : c = cookie'[b] /\ Mine(b, c) /\ Settled(0, c)'
  BY <1>0, <1>2, <1>3, <1>5
<1>8. ASSUME b \in Careful
      PROVE  /\ \A q \in Requests : Browser(q) = b => ~InFlight(q)
             /\ Tidy(r)' /\ Calm(b)'
  <2>1. \A q \in Requests : Browser(q) = b => ~InFlight(q)
    BY <1>0, <1>8 DEF Begin
  <2>2. Fits(t) /\ req[r].set = {} /\ req[r].ask.csrf = "right"
    BY <1>0, <1>1, <1>8, <2>1 DEF Calm, Tidy, Inv, Shape, AskFits, Browser
  <2>3. t # NoToken => SessionOf(t)' = SessionOf(t)
    BY <1>3, <1>4 DEF Mine, SessionOf, Kind
  <2>4. Fits(t)'
    BY <1>2, <2>2, <2>3 DEF Fits
  <2>5. Browser(r)' = b
    BY <1>0, <1>1 DEF Browser
  <2>6. Holds(r)' = {t}
    BY <1>0, <1>1, <1>2, <2>2, <2>5 DEF Holds
  <2>7. Tidy(r)'
    BY <1>1, <2>2, <2>4, <2>6, BusyTidy DEF Opened
  <2>8. Calm(b)'
    BY <1>1, <2>5 DEF Calm, InFlight
  <2> QED
    BY <2>1, <2>7, <2>8
<1>9. req'[r].sid = 0 \/ (req'[r].sid \in Browsers \cup Requests /\ Owner(req'[r].sid) = Browser(r))
  BY <1>1 DEF Purses
<1>10. IsOver(r) => IsOver(r)'
  BY <1>1 DEF IsOver
<1> QED
  BY <1>0, <1>1, <1>2, <1>6, <1>7, <1>8, <1>9, <1>10, StepKeeps DEF Purses

\* The answer's token fits as long as the answer takes.
LEMMA ReceiveCareful ==
  ASSUME Inv, Inv', CarefulInv, NEW r \in Requests, Receive(r)
  PROVE  CarefulInv'
<1> USE DEF CarefulInv
<1>0. PICK b, c : b = Browser(r) /\ c = cookie'[b]
  OBVIOUS
<1>1. Moves(r) /\ req[r].pc = "answered" /\ IsOver(r)
  BY ReceiveMoves DEF Inv, Receive
<1>2. req'[r].pc = "done" /\ req'[r].set = {} /\ req'[r].tok = req[r].tok
  BY DEF Receive, Change, Inv, Shape, Fields
<1>3. sessions' = sessions /\ b \in Browsers /\ b \notin Requests
  BY <1>0, NamesAssumption DEF Receive, Inv, Shape, AskFits, Browser
<1>4. c \in Holds(r) /\ DOMAIN cookie' = Browsers /\ \A x \in Browsers \ {b} : cookie'[x] = cookie[x]
  BY <1>0, <1>3 DEF Receive, Purses, Holds
<1>5. \A q \in Requests : IsOver(q) => IsOver(q)'
  BY <1>1 DEF Moves, IsOver
<1>6. ASSUME NEW q, NEW u, Settled(q, u) PROVE Settled(q, u)'
  BY <1>5, <1>6 DEF Settled
<1>7. \A u \in req'[r].set \cup {req'[r].tok} : Mine(b, u) /\ Settled(r, u)'
  BY <1>0, <1>2, <1>6 DEF Purses
<1>8. Mine(b, c) /\ Settled(0, c)'
  <2>1. Mine(b, c) /\ (Settled(0, c) \/ Settled(r, c))
    BY <1>0, <1>3, <1>4 DEF Holds, Purses
  <2>2. Settled(0, c)' \/ Settled(r, c)'
    BY <1>6, <2>1
  <2> QED
    BY <1>1, <1>5, <2>1, <2>2 DEF Settled
<1>9. ASSUME b \in Careful
      PROVE  InFlight(r) /\ Tidy(r)' /\ Calm(b)'
  <2>1. InFlight(r) /\ Tidy(r)'
    BY <1>1, <1>2 DEF InFlight, Tidy, Busy, Opened
  <2>2. Fits(c)
    BY <1>0, <1>1, <1>4, <1>9 DEF Tidy
  <2>3. c # NoToken => SessionOf(c)' = SessionOf(c)
    BY <1>1, <1>8, MovesSessionOf DEF Inv
  <2>4. Fits(c)'
    BY <1>3, <2>2, <2>3 DEF Fits
  <2>5. Calm(b)'
    BY <1>0, <2>4 DEF Calm, Fits, SessionOf
  <2> QED
    BY <2>1, <2>5
<1>10. \E x : x = cookie'[b] /\ Mine(b, x) /\ Settled(0, x)'
  BY <1>0, <1>8
<1>11. req'[r].sid = 0 \/ (req'[r].sid \in Browsers \cup Requests /\ Owner(req'[r].sid) = Browser(r))
  BY <1>1 DEF Purses, Moves
<1> QED
  BY <1>0, <1>1, <1>3, <1>4, <1>7, <1>9, <1>10, <1>11, StepKeeps DEF Moves

\* A careful browser's requests do not die.
LEMMA FailCareful ==
  ASSUME Inv, Inv', CarefulInv, NEW r \in Requests, Fail(r)
  PROVE  CarefulInv'
<1>1. Moves(r) /\ UNCHANGED <<sessions, cookie>>
  BY FailMoves DEF Inv, Fail
<1>2. Browser(r) \notin Careful
  BY DEF Fail, Inv, Shape, AskFits, Browser
<1>3. req'[r].set = {} /\ req'[r].tok = NoToken
  BY DEF Fail, Change, Inv, Shape, Fields
<1> QED
  BY <1>1, <1>2, <1>3, RequestKeeps

\* The session found is the browser's own, also for a token rotated on the way.
LEMMA TakeUpCareful ==
  ASSUME Inv, Inv', CarefulInv, NEW r \in Requests, NEW b, NEW t,
         b = Browser(r), t = req[r].tok,
         req[r].pc \in {"load", "token", "refresh", "store"}, UNCHANGED <<sessions, cookie>>,
         NEW s, NEW pc \in {"complete", "token"},
         DOMAIN req' = Requests, \A q \in Requests \ {r} : req'[q] = req[q],
         req'[r].ask = req[r].ask, req'[r].tok = t, req'[r].set = req[r].set,
         req'[r].csrf = req[r].csrf, req'[r].pc = pc, req'[r].sid = s,
         pc = "complete" => Kind(r) = "login" /\ s = 0,
         pc = "token" => s \in LoadSessionByTokenHash(t)
  PROVE  CarefulInv'
<1> USE DEF CarefulInv
<1>1. b \in Browsers /\ b \notin Requests /\ 0 \notin Browsers \cup Requests
  BY NamesAssumption DEF Inv, Shape, AskFits, Browser
<1>2. Mine(b, t)
  BY DEF Purses
<1>3. pc = "token" => /\ s \in DOMAIN sessions /\ t # NoToken /\ SessionOf(t) = s
                      /\ s \in Browsers \cup Requests /\ Owner(s) = b
  <2>1. ASSUME s \in DOMAIN sessions, sessions[s].token = t PROVE Held(t, s)
    BY <2>1 DEF Inv, Sessions
  <2> QED
    BY <1>2, <2>1, HeldIsMine DEF LoadSessionByTokenHash
<1>4. t # NoToken => SessionOf(t)' = SessionOf(t)
  <2>1. ASSUME t # NoToken
        PROVE  SessionOf(t)' = SessionOf(t)
    <3>1. PICK x \in Browsers \cup Requests : \E tag : t = <<x, tag>>
      BY <1>2, <2>1 DEF Mine
    <3>2. CASE x # r
      <4>1. x \in Requests => req'[x] = req[x]
        BY <3>2
      <4> QED
        BY <3>1, <4>1 DEF SessionOf, Kind
    <3>3. CASE x = r
      BY <1>3, <3>1, <3>3, NamesAssumption DEF SessionOf, Kind
    <3> QED
      BY <3>2, <3>3
  <2> QED
    BY <2>1
<1>5. \A q \in Requests : IsOver(q) => IsOver(q)'
  BY DEF IsOver
<1>6. \A u \in req'[r].set \cup {req'[r].tok} : Mine(b, u) /\ Settled(r, u)'
  <2>1. \A u \in req[r].set \cup {t} : Mine(b, u) /\ Settled(r, u)
    BY DEF Purses
  <2>2. ASSUME NEW u, Settled(r, u) PROVE Settled(r, u)'
    BY <1>5, <2>2 DEF Settled
  <2> QED
    BY <2>1, <2>2
<1>7. \E c : c = cookie'[b] /\ Mine(b, c) /\ Settled(0, c)'
  <2>1. PICK c : c = cookie[b]
    OBVIOUS
  <2>2. Mine(b, c) /\ Settled(0, c)
    BY <1>1, <2>1 DEF Purses
  <2>3. Settled(0, c)'
    BY <1>5, <2>2 DEF Settled
  <2> QED
    BY <2>1, <2>2, <2>3
<1>8. ASSUME b \in Careful
      PROVE  InFlight(r) /\ Tidy(r)' /\ Calm(b)'
  <2>1. Holds(r) = {t} /\ req[r].csrf = "right" /\ Fits(t)
    BY <1>8 DEF Tidy, Busy
  <2>2. Browser(r)' = b
    BY DEF Browser
  <2>3. Holds(r)' = {t}
    BY <2>1, <2>2 DEF Holds
  <2>4. Fits(t)'
    BY <1>4, <2>1 DEF Fits
  <2>5. Opened(r)' => t # NoToken /\ req'[r].sid = SessionOf(t)'
    BY <1>3, <1>4 DEF Opened
  <2>6. Tidy(r)'
    BY <2>1, <2>3, <2>4, <2>5, BusyTidy
  <2>7. InFlight(r) /\ Calm(b)'
    BY <2>2 DEF Calm, InFlight
  <2> QED
    BY <2>6, <2>7
<1>9. IsOver(r) => IsOver(r)'
  BY <1>5
<1> QED
  BY <1>1, <1>3, <1>6, <1>7, <1>8, <1>9, StepKeeps DEF Purses

LEMMA LoadCareful ==
  ASSUME Inv, Inv', CarefulInv, NEW r \in Requests, Load(r)
  PROVE  CarefulInv'
<1>0. PICK b, t : b = Browser(r) /\ t = req[r].tok
  OBVIOUS
<1>1. req[r].pc = "load" /\ UNCHANGED <<sessions, cookie>>
  BY DEF Load
<1>2. CASE Over(r, FALSE, req[r].set)
  BY <1>1, <1>2, OverMoves, OverSteady, SteadyKeeps DEF Inv, Fades, Busy
<1>3. ASSUME Change(r, [pc |-> "complete", sid |-> 0]), Kind(r) = "login" PROVE CarefulInv'
  BY <1>0, <1>1, <1>3, TakeUpCareful DEF Change, Inv, Shape, Fields
<1>4. ASSUME NEW s \in LoadSessionByTokenHash(req[r].tok),
             Change(r, [pc |-> "token", sid |-> s, due |-> sessions[s].due, spent |-> NoToken])
      PROVE  CarefulInv'
  BY <1>0, <1>1, <1>4, TakeUpCareful DEF Change, Inv, Shape, Fields
<1> QED
  BY <1>2, <1>3, <1>4 DEF Load, Refuse

LEMMA GoesOnCareful ==
  ASSUME Inv, Inv', CarefulInv, NEW r \in Requests, LoginGoesOn(r)
  PROVE  CarefulInv'
<1>0. PICK b, t : b = Browser(r) /\ t = req[r].tok
  OBVIOUS
<1>1. /\ req[r].pc \in {"load", "token", "refresh", "store"} /\ Kind(r) = "login"
      /\ UNCHANGED <<sessions, cookie>>
      /\ Change(r, [pc |-> "complete", sid |-> 0, rt |-> NoToken, spent |-> NoToken])
  BY DEF LoginGoesOn
<1> QED
  BY <1>0, <1>1, TakeUpCareful DEF Change, Inv, Shape, Fields

\* A request's new token fits its session from the moment it is written.
LEMMA NewFits ==
  ASSUME NEW r \in Requests, NEW tag, NEW t, t = <<r, tag>>, NEW s,
         s = IF Kind(r)' = "login" THEN r ELSE req'[r].sid,
         s \in DOMAIN sessions' /\ sessions'[s].valid => sessions'[s].token = t
  PROVE  Fits(t)'
<1>1. r \notin Browsers /\ t[1] = r
  BY NamesAssumption
<1>2. SessionOf(t)' = s
  BY <1>1 DEF SessionOf, Kind
<1> QED
  BY <1>2 DEF Fits

LEMMA RotateCareful ==
  ASSUME Inv, Inv', CarefulInv, NEW r \in Requests, Rotate(r)
  PROVE  CarefulInv'
<1> USE DEF CarefulInv
<1>0. PICK new, tag, s, t : /\ tag = IF req[r].gate THEN "gate" ELSE "main"
                            /\ new = <<r, tag>> /\ s = req[r].sid /\ t = req[r].tok
  OBVIOUS
<1>1. Moves(r) /\ req[r].pc = "rotate" /\ UNCHANGED cookie /\ Kind(r) # "login"
  BY RotateMoves DEF Inv, Shape, PcFits, Rotate, Gated
<1>2. CASE s \notin DOMAIN sessions
  <2>1. sessions' = sessions /\ Over(r, FALSE, req[r].set)
    BY <1>0, <1>2 DEF Rotate, Refuse
  <2> QED
    BY <1>1, <2>1, OverSteady, SteadyKeeps DEF Inv, Fades, Busy
<1>3. CASE s \in DOMAIN sessions
  <2>1. sessions' = RotateSession(s, new) /\ Proceed(r, new, {new})
    BY <1>0, <1>3 DEF Rotate
  <2>2. /\ \A u \in DOMAIN sessions' \ {s} : u \in DOMAIN sessions /\ sessions'[u] = sessions[u]
        /\ sessions'[s].valid => sessions'[s].token = new
    BY <1>3, <2>1 DEF RotateSession, Inv, Sessions
  <2>3. Fits(new)'
    <3>1. s = IF Kind(r)' = "login" THEN r ELSE req'[r].sid
      BY <1>0, <1>1 DEF Moves, Kind
    <3> QED
      BY <1>0, <2>2, <3>1, NewFits
  <2>4. \/ /\ req[r].gate /\ req'[r].pc \in {"principal", "load"}
           /\ req'[r].tok = new /\ req'[r].set = {new}
           /\ req[r].csrf = "right" => req'[r].csrf = "right"
        \/ /\ req'[r].pc = "answered" /\ req'[r].tok = NoToken
           /\ \/ req'[r].set = {new}
              \/ req'[r].set = req[r].set /\ req[r].csrf # "right"
        \/ /\ req'[r].pc = "renew" /\ req'[r].tok = t /\ req'[r].set = req[r].set
           /\ req'[r].csrf = req[r].csrf
    <3> USE DEF Inv, Shape, Fields
    <3>1. CASE req[r].gate
      <4>1. /\ req'[r].pc \in {"principal", "load"}
            /\ req'[r].tok = new /\ req'[r].set = {new}
            /\ req[r].csrf = "right" => req'[r].csrf = "right"
        BY <2>1, <3>1 DEF Proceed, Change
      <4> QED
        BY <3>1, <4>1
    <3>2. CASE ~req[r].gate
      <4>1. Kind(r) \in {"me", "renew"}
        BY <1>1, <3>2 DEF PcFits
      <4>2. \/ Over(r, TRUE, {new})
            \/ req[r].csrf # "right" /\ Over(r, FALSE, req[r].set)
            \/ Change(r, [pc |-> "renew"])
        BY <2>1, <3>2, <4>1 DEF Proceed, Succeed, Refuse, Callback
      <4>3. ASSUME Over(r, TRUE, {new})
            PROVE  req'[r].pc = "answered" /\ req'[r].tok = NoToken /\ req'[r].set = {new}
        BY <4>3 DEF Over, Change
      <4>4. ASSUME Over(r, FALSE, req[r].set)
            PROVE  req'[r].pc = "answered" /\ req'[r].tok = NoToken /\ req'[r].set = req[r].set
        BY <4>4 DEF Over, Change
      <4>5. ASSUME Change(r, [pc |-> "renew"])
            PROVE  /\ req'[r].pc = "renew" /\ req'[r].tok = t /\ req'[r].set = req[r].set
                   /\ req'[r].csrf = req[r].csrf
        BY <1>0, <4>5 DEF Change
      <4> QED
        BY <4>2, <4>3, <4>4, <4>5
    <3> QED
      BY <3>1, <3>2
  <2>5. ASSUME Browser(r) \in Careful
        PROVE  InFlight(r) /\ InFlight(r)' /\ Tidy(r)'
    <3>1. /\ Holds(r) = {t} /\ req[r].csrf = "right"
          /\ t # NoToken /\ s = SessionOf(t)
      BY <1>0, <1>1, <2>5 DEF Tidy, Busy, Opened
    <3>2. Browser(r)' = Browser(r)
      BY <1>1 DEF Moves, Browser
    <3>3. InFlight(r) /\ InFlight(r)'
      BY <1>1, <2>4 DEF InFlight
    <3>4. CASE req'[r].set = {new} /\ req'[r].pc = "answered"
      <4>1. Holds(r)' = {new}
        BY <3>4 DEF Holds
      <4> QED
        BY <2>3, <3>3, <3>4, <4>1, AnsweredTidy
    <3>5. CASE req'[r].set = {new} /\ req'[r].pc \in {"principal", "load"} /\ req'[r].tok = new
               /\ req'[r].csrf = "right"
      <4>1. Holds(r)' = {new} /\ ~Opened(r)'
        BY <3>5 DEF Holds, Opened
      <4> QED
        BY <2>3, <3>3, <3>5, <4>1, BusyTidy
    <3>6. CASE /\ req'[r].pc = "renew" /\ req'[r].tok = t /\ req'[r].set = req[r].set
               /\ req'[r].csrf = "right"
      <4>1. Holds(r)' = {t}
        BY <1>1, <3>1, <3>2, <3>6 DEF Holds
      <4>2. Mine(Browser(r), t)
        BY <1>0 DEF Purses
      <4>3. SessionOf(t)' = SessionOf(t)
        BY <1>1, <3>1, <4>2, MovesSessionOf DEF Inv
      <4>4. req'[r].sid = SessionOf(t)'
        BY <1>0, <1>1, <3>1, <4>3 DEF Moves
      <4> QED
        BY <3>1, <3>3, <3>6, <4>1, <4>4, BusyTidy
    <3> QED
      BY <2>4, <3>1, <3>4, <3>5, <3>6
  <2>6. \A u \in req'[r].set \cup {req'[r].tok} :
           u \in req[r].set \cup {req[r].tok, NoToken} \/ \E x : u = <<r, x>>
    BY <1>0, <2>4
  <2> QED
    BY <1>0, <1>1, <2>2, <2>5, <2>6, RequestKeeps
<1> QED
  BY <1>2, <1>3

\* The second rotation ends with the answer that carries its token.
LEMMA RefreshSessionCareful ==
  ASSUME Inv, Inv', CarefulInv, NEW r \in Requests, RefreshSession(r)
  PROVE  CarefulInv'
<1> USE DEF CarefulInv
<1>0. PICK new, s, t : new = <<r, "again">> /\ s = req[r].sid /\ t = req[r].tok
  OBVIOUS
<1>1. /\ Moves(r) /\ req[r].pc = "renew" /\ UNCHANGED cookie /\ Kind(r) = "renew"
  BY HandlerMoves DEF Inv, Shape, PcFits, RefreshSession
<1>2. Browser(r)' = Browser(r)
  BY <1>1 DEF Moves, Browser
<1>3. CASE s \notin DOMAIN sessions
  <2>1. /\ sessions' = sessions
        /\ req'[r].pc = "answered" /\ req'[r].set = req[r].set /\ req'[r].tok = NoToken
    BY <1>0, <1>3 DEF RefreshSession, Refuse, Over, Change, Inv, Shape, Fields
  <2>2. ASSUME Browser(r) \in Careful
        PROVE  InFlight(r) /\ InFlight(r)' /\ Tidy(r)'
    <3>1. Holds(r) = {t} /\ t # NoToken /\ s = SessionOf(t)
      BY <1>0, <1>1, <2>2 DEF Tidy, Busy, Opened
    <3>2. Holds(r)' = {t}
      BY <1>1, <1>2, <2>1, <3>1 DEF Holds
    <3>3. Mine(Browser(r), t)
      BY <1>0 DEF Purses
    <3>4. SessionOf(t)' = s
      BY <1>1, <3>1, <3>3, MovesSessionOf DEF Inv
    <3>5. Fits(t)'
      BY <1>3, <2>1, <3>4 DEF Fits
    <3> QED
      BY <1>1, <2>1, <3>2, <3>5, AnsweredTidy DEF InFlight
  <2> QED
    BY <1>1, <2>1, <2>2, RequestKeeps
<1>4. CASE s \in DOMAIN sessions
  <2>1. /\ sessions' = RotateSession(s, new)
        /\ req'[r].pc = "answered" /\ req'[r].set = {new} /\ req'[r].tok = NoToken
    <3>1. sessions' = RotateSession(s, new) /\ Over(r, TRUE, {new})
      BY <1>0, <1>4 DEF RefreshSession, Succeed
    <3> QED
      BY <3>1 DEF Over, Change, Inv, Shape, Fields
  <2>2. /\ \A u \in DOMAIN sessions' \ {s} : u \in DOMAIN sessions /\ sessions'[u] = sessions[u]
        /\ sessions'[s].valid => sessions'[s].token = new
    BY <1>4, <2>1 DEF RotateSession, Inv, Sessions
  <2>3. Fits(new)'
    <3>1. s = IF Kind(r)' = "login" THEN r ELSE req'[r].sid
      BY <1>0, <1>1 DEF Moves, Kind
    <3> QED
      BY <1>0, <2>2, <3>1, NewFits
  <2>4. InFlight(r) /\ InFlight(r)' /\ Tidy(r)'
    <3>1. Holds(r)' = {new}
      BY <2>1 DEF Holds
    <3> QED
      BY <1>1, <2>1, <2>3, <3>1, AnsweredTidy DEF InFlight
  <2>5. \A u \in req'[r].set \cup {req'[r].tok} : u = NoToken \/ \E x : u = <<r, x>>
    BY <1>0, <2>1
  <2> QED
    BY <1>0, <1>1, <2>2, <2>4, <2>5, RequestKeeps
<1> QED
  BY <1>3, <1>4

\* A callback's answer carries the token of the session it made or linked.
LEMMA CompleteCareful ==
  ASSUME Inv, Inv', CarefulInv, NEW r \in Requests, CompleteAuth(r)
  PROVE  CarefulInv'
<1> USE DEF CarefulInv
<1>0. PICK new, s : new = <<r, "code">> /\ s = IF Kind(r) = "login" THEN r ELSE req[r].sid
  OBVIOUS
<1>1. /\ Moves(r) /\ req[r].pc = "complete" /\ UNCHANGED cookie /\ Kind(r) \in {"login", "link"}
  BY HandlerMoves DEF Inv, Shape, PcFits, CompleteAuth, Callback
<1>2. CASE Refuse(r) /\ sessions' = sessions
  BY <1>1, <1>2, OverSteady, SteadyKeeps DEF Inv, Fades, Busy, Refuse
<1>3. CASE ~(Refuse(r) /\ sessions' = sessions)
  <2>1. /\ IF Kind(r) = "link" THEN completeLinkTx(r) ELSE completeLoginTx(r)
        /\ Succeed(r, {new})
    BY <1>0, <1>3 DEF CompleteAuth
  <2>2. req'[r].pc = "answered" /\ req'[r].set = {new} /\ req'[r].tok = NoToken
    BY <2>1 DEF Succeed, Over, Change, Inv, Shape, Fields
  <2>3. /\ \A u \in DOMAIN sessions' \ {s} : sessions'[u].valid =>
              u \in DOMAIN sessions /\ sessions[u].valid /\ sessions'[u].token = sessions[u].token
        /\ s \in DOMAIN sessions' /\ sessions'[s].valid => sessions'[s].token = new
    <3>1. CASE Kind(r) = "login"
      <4>1. PICK u, g, prior :
              sessions' = With([v \in DOMAIN sessions |-> IF v \in prior
                                  THEN [sessions[v] EXCEPT !.valid = FALSE] ELSE sessions[v]],
                               r, [user |-> u, g |-> g, token |-> new, valid |-> TRUE, due |-> FALSE])
        BY <1>0, <2>1, <3>1 DEF completeLoginTx
      <4> QED
        BY <1>0, <3>1, <4>1 DEF With, Inv, Sessions
    <3>2. CASE Kind(r) = "link"
      <4>1. PICK g : sessions' = [sessions EXCEPT ![s] = IF @.valid
                                    THEN [@ EXCEPT !.g = g, !.token = new, !.due = FALSE] ELSE @]
        BY <1>0, <2>1, <3>2 DEF completeLinkTx
      <4> QED
        BY <4>1 DEF Inv, Sessions
    <3> QED
      BY <1>1, <3>1, <3>2
  <2>4. Fits(new)'
    <3>1. s = IF Kind(r)' = "login" THEN r ELSE req'[r].sid
      BY <1>0, <1>1 DEF Moves, Kind
    <3> QED
      BY <1>0, <2>3, <3>1, NewFits
  <2>5. InFlight(r) /\ InFlight(r)' /\ Tidy(r)'
    <3>1. Holds(r)' = {new}
      BY <2>2 DEF Holds
    <3> QED
      BY <1>1, <2>2, <2>4, <3>1, AnsweredTidy DEF InFlight
  <2>6. \A u \in req'[r].set \cup {req'[r].tok} : u = NoToken \/ \E x : u = <<r, x>>
    BY <1>0, <2>2
  <2> QED
    BY <1>0, <1>1, <2>3, <2>5, <2>6, RequestKeeps
<1> QED
  BY <1>2, <1>3

LEMMA IdleCareful ==
  ASSUME Inv, CarefulInv, UNCHANGED <<req, cookie>>, Fades
  PROVE  CarefulInv'
<1> USE DEF CarefulInv
<1>1. UNCHANGED req /\ Fades
  OBVIOUS
<1>2. UNCHANGED cookie
  OBVIOUS
<1>3. ASSUME NEW t, Fits(t) PROVE Fits(t)'
  <2>1. SessionOf(t)' = SessionOf(t)
    BY <1>1 DEF SessionOf, Kind
  <2> QED
    BY <1>1, <1>3, <2>1, FadesFits
<1>4. Purses'
  BY <1>1, <1>2 DEF Purses, Mine, Owner, Settled, IsOver, Browser
<1>5. ASSUME NEW r \in Requests, Browser(r)' \in Careful PROVE Alone(r)' /\ Tidy(r)'
  <2>1. Browser(r) \in Careful
    BY <1>1, <1>5 DEF Browser
  <2>2. PICK t : t = req[r].tok
    OBVIOUS
  <2>3. Fits(t) => Fits(t)'
    BY <1>3
  <2>4. \A u \in Holds(r) : Fits(u) => Fits(u)'
    BY <1>3
  <2>5. Holds(r)' = Holds(r)
    BY <1>1, <1>2 DEF Holds, Browser
  <2>6. Alone(r)'
    BY <1>1, <2>1 DEF Alone, Browser, InFlight
  <2>7. CASE req[r].pc \in {"new", "done"}
    BY <1>1, <2>1, <2>6, <2>7 DEF Tidy, Busy, Opened
  <2>8. CASE req[r].pc = "answered"
    BY <1>1, <2>1, <2>4, <2>5, <2>6, <2>8, AnsweredTidy DEF Tidy
  <2>9. CASE req[r].pc \notin {"new", "answered", "done"}
    <3>1. /\ Holds(r)' = {t} /\ req'[r].csrf = "right" /\ req'[r].tok = t
          /\ req'[r].pc = "renew" \/ Fits(t)'
      BY <1>1, <2>1, <2>2, <2>3, <2>5, <2>9 DEF Tidy, Busy
    <3>2. Opened(r)' => t # NoToken /\ req'[r].sid = SessionOf(t)'
      <4>1. Opened(r) => t # NoToken /\ req[r].sid = SessionOf(t)
        BY <2>1, <2>2 DEF Tidy
      <4>2. (Opened(r)' <=> Opened(r)) /\ SessionOf(t)' = SessionOf(t)
        BY <1>1 DEF Opened, SessionOf, Kind
      <4> QED
        BY <1>1, <4>1, <4>2
    <3> QED
      BY <1>1, <2>6, <2>9, <3>1, <3>2, BusyTidy
  <2> QED
    BY <2>7, <2>8, <2>9
<1>6. ASSUME NEW b \in Careful PROVE Calm(b)'
  <2>1. PICK c : c = cookie[b]
    OBVIOUS
  <2>2. Fits(c) => Fits(c)'
    BY <1>3
  <2>3. (\A r \in Requests : Browser(r)' = b => ~InFlight(r)') => Fits(c)
    BY <1>1, <1>6, <2>1 DEF Calm, Browser, InFlight
  <2> QED
    BY <1>2, <2>1, <2>2, <2>3 DEF Calm, Fits, SessionOf
<1> QED
  BY <1>4, <1>5, <1>6

LEMMA TimeCareful ==
  ASSUME Inv, CarefulInv,
         \/ \E g \in DOMAIN tokens : AccessTokenExpires(g)
         \/ \E s \in DOMAIN sessions : RotationFallsDue(s) \/ SessionExpires(s)
  PROVE  CarefulInv'
<1>1. UNCHANGED req /\ Fades
  BY TimeKeeps DEF Fades
<1>2. UNCHANGED cookie
  BY DEF AccessTokenExpires, RotationFallsDue, SessionExpires
<1> QED
  BY <1>1, <1>2, IdleCareful

LEMMA InitCareful == Init => CarefulInv
<1> SUFFICES ASSUME Init PROVE CarefulInv
  OBVIOUS
<1>1. /\ sessions = [b \in Seats |-> sessions[b]]
      /\ \A b \in Seats : sessions[b].token = <<b, "first">>
      /\ cookie = [b \in Browsers |-> IF b \in Seats THEN <<b, "first">> ELSE NoToken]
  BY DEF Init
<1>2. \A r \in Requests : /\ req[r].pc = "new" /\ req[r].tok = NoToken
                          /\ req[r].set = {} /\ req[r].sid = 0
  BY DEF Init
<1>3. \A b \in Browsers : b \notin Requests /\ b # 0 /\ Owner(b) = b
  BY NamesAssumption DEF Owner
<1>4. 0 \notin Requests
  BY NamesAssumption
<1>5. Purses
  <2>1. ASSUME NEW b \in Browsers PROVE Mine(b, cookie[b]) /\ Settled(0, cookie[b])
    <3>1. CASE b \in Seats
      BY <1>1, <1>3, <3>1 DEF Mine, Settled
    <3>2. CASE b \notin Seats
      BY <1>1, <1>4, <3>2 DEF Mine, Settled, NoToken
    <3> QED
      BY <3>1, <3>2
  <2> QED
    BY <1>1, <1>2, <1>4, <2>1 DEF Purses, Mine, Settled, NoToken
<1>6. \A r \in Requests : Alone(r) /\ Tidy(r)
  BY <1>2 DEF Alone, Tidy, InFlight, Busy, Opened
<1>7. ASSUME NEW b \in Browsers PROVE Fits(cookie[b])
  <2>1. CASE b \in Seats
    BY <1>1, <1>3, <2>1 DEF Fits, SessionOf
  <2>2. CASE b \notin Seats
    BY <1>1, <2>2 DEF Fits
  <2> QED
    BY <2>1, <2>2
<1> QED
  BY <1>5, <1>6, <1>7, NamesAssumption DEF CarefulInv, Calm

LEMMA NextCareful == Inv /\ Inv' /\ CarefulInv /\ [Next]_vars => CarefulInv'
<1> SUFFICES ASSUME Inv, Inv', CarefulInv, [Next]_vars PROVE CarefulInv'
  OBVIOUS
<1>1. CASE UNCHANGED vars
  <2>1. UNCHANGED <<req, cookie>> /\ Fades
    BY <1>1 DEF vars, Fades
  <2> QED
    BY <2>1, IdleCareful
<1>2. ASSUME NEW r \in Requests,
             \/ Begin(r) \/ Receive(r) \/ Fail(r) \/ Load(r) \/ LoginGoesOn(r) \/ LoadGitHubToken(r)
             \/ RefreshUserAccessToken(r) \/ StoreToken(r) \/ MarkTokenRevoked(r) \/ Rotate(r)
             \/ LoadSessionPrincipal(r) \/ RefreshSession(r) \/ Logout(r) \/ UnlinkAccount(r)
             \/ DeleteAccount(r) \/ StartOAuth(r) \/ ConsumeOAuthState(r)
             \/ ExchangeUserAccessToken(r) \/ CompleteAuth(r)
      PROVE  CarefulInv'
  BY <1>2, BeginCareful, ReceiveCareful, FailCareful, LoadCareful, GoesOnCareful, CallsCareful, EndsCareful,
     RotateCareful, RefreshSessionCareful, CompleteCareful
<1>3. CASE \/ \E g \in DOMAIN tokens : AccessTokenExpires(g)
           \/ \E s \in DOMAIN sessions : RotationFallsDue(s) \/ SessionExpires(s)
  BY <1>3, TimeCareful
<1> QED
  BY <1>1, <1>2, <1>3 DEF Next

\* A browser that sends one request at a time, with the right CSRF header, and
\* receives every answer holds the token its session has now, as long as the
\* session lasts (authenticateSession, RefreshSession, the gateway's authorize).
THEOREM CarefulIsKept == Spec => []CarefulBrowserKeepsSession
<1>1. Init => CarefulInv
  BY InitCareful
<1>2. Inv /\ Inv' /\ CarefulInv /\ [Next]_vars => CarefulInv'
  BY NextCareful
<1>3. CarefulInv => CarefulBrowserKeepsSession
  BY DEF CarefulInv, Calm, Fits, CarefulBrowserKeepsSession
<1> QED
  BY Invariance, <1>1, <1>2, <1>3, PTL DEF Spec
=============================================================================
