---------------------------- MODULE AuthSessions ----------------------------
(***************************************************************************)
(* Logins, linked GitHub accounts and browser sessions: auth-service, and  *)
(* the gateway that authenticates a request there before it forwards it.   *)
(*                                                                         *)
(* Every request is a process; a step of it is one SQL statement, one      *)
(* transaction or one call to GitHub.  The transactions of CompleteAuth,   *)
(* UnlinkAccount and DeleteAccount are one step each: they run in READ     *)
(* COMMITTED, but all of them write the account's row, so that two of them *)
(* end as if one had run after the other or one of them fails on a         *)
(* constraint.  Secrets are named after the request that made them, hashes *)
(* and encryption are left out, and so is a session's authorisation        *)
(* status, which is only displayed.                                        *)
(***************************************************************************)
EXTENDS Integers, FiniteSets

CONSTANTS Browsers,     \* numbers, apart from the requests
          Careful,      \* browsers that send one request at a time, with the
                        \* right CSRF header, and receive every answer
          GitHubUsers,
          Requests,     \* numbers
          Plans,        \* what each request asks for, whether it may die, and
                        \* which deadlines pass, once each
          Seats         \* browsers that are logged in at the beginning

Kinds == {"start", "startlink", "login", "link", "me", "renew", "logout", "profile",
          "unlink", "delete"}

ASSUME NamesAssumption ==
    /\ Seats \subseteq Browsers /\ Careful \subseteq Browsers
    /\ Browsers \cap Requests = {} /\ 0 \notin Browsers \cup Requests
    /\ GitHubUsers # {}

ASSUME PlansAssumption ==
    \A plan \in Plans, r \in Requests :
        /\ plan.asks[r].kind \in Kinds
        /\ plan.asks[r].browser \in Browsers
        /\ plan.asks[r].g \in GitHubUsers
        /\ plan.asks[r].browser \in Careful => ~plan.asks[r].dies /\ plan.asks[r].csrf = "right"

VARIABLES users,        \* users.id
          accounts,     \* github_accounts, by github_user_id: [user, linked]
          tokens,       \* github_user_tokens: [rt, revoked, expired]
          grants,       \* the refresh tokens GitHub accepts
          states,       \* auth_oauth_states, by the request that created them
          sessions,     \* auth_sessions: [user, g, token, valid, due]
          cookie,       \* each browser's session cookie
          oauth,        \* each browser's OAuth cookie: whose state it is for
          ended,        \* sessions somebody was told are over
          deadlines,    \* deadlines still to come: <<what, of whom>>
          mislaid,      \* refresh tokens spent by requests that stored no word of it
          req

vars == <<users, accounts, tokens, grants, states, sessions, cookie, oauth, ended, deadlines,
          mislaid, req>>

-----------------------------------------------------------------------------
NoToken == <<0, "none">>
FirstGrant == <<0, "first">>

Without(f, S) == [x \in DOMAIN f \ S |-> f[x]]
With(f, x, v) == [y \in DOMAIN f \cup {x} |-> IF y = x THEN v ELSE f[y]]

Kind(r) == req[r].ask.kind
Browser(r) == req[r].ask.browser

\* Requests the gateway authenticates before it forwards them
Gated(kind) == kind \in {"profile", "unlink", "delete"}
Callback(kind) == kind \in {"login", "link"}

InFlight(r) == req[r].pc \notin {"new", "done"}

\* One GitHub user has logged in from every seat, each in a session of its own
Init ==
    LET g == CHOOSE x \in GitHubUsers : TRUE
    IN  /\ users = IF Seats = {} THEN {} ELSE {0}
        /\ accounts = [x \in IF Seats = {} THEN {} ELSE {g} |-> [user |-> 0, linked |-> TRUE]]
        /\ tokens = [x \in DOMAIN accounts |-> [rt |-> FirstGrant, revoked |-> FALSE, expired |-> FALSE]]
        /\ grants = [x \in GitHubUsers |-> IF x \in DOMAIN accounts THEN {FirstGrant} ELSE {}]
        /\ states = << >>
        /\ sessions = [b \in Seats |-> [user |-> 0, g |-> g, token |-> <<b, "first">>,
                                        valid |-> TRUE, due |-> FALSE]]
        /\ cookie = [b \in Browsers |-> IF b \in Seats THEN <<b, "first">> ELSE NoToken]
        /\ oauth = [b \in Browsers |-> 0]
        /\ ended = {} /\ mislaid = {}
        /\ \E plan \in Plans :
           /\ deadlines = plan.deadlines
           /\ req = [r \in Requests |->
                       [ask |-> plan.asks[r], pc |-> "new", gate |-> FALSE, tok |-> NoToken,
                        csrf |-> "none", sid |-> 0, due |-> FALSE, rt |-> NoToken,
                        spent |-> NoToken, set |-> {}, barred |-> {}, ok |-> FALSE]]

-----------------------------------------------------------------------------
(* The shape of a request.                                                 *)

Change(r, f) == req' = [req EXCEPT ![r] =
                    [x \in DOMAIN @ |-> IF x \in DOMAIN f THEN f[x] ELSE @[x]]]

\* A request that is over keeps nothing but its answer and its session
Over(r, ok, set) ==
    Change(r, [pc |-> "answered", ok |-> ok, set |-> set, tok |-> NoToken, csrf |-> "none",
               due |-> FALSE, rt |-> NoToken, spent |-> NoToken])

Refuse(r) == Over(r, FALSE, req[r].set)

\* The handler answers; cookies a middleware has set stay on the answer
Succeed(r, set) == Over(r, TRUE, IF set = {} THEN req[r].set ELSE set)

\* A callback follows its start through GitHub; a start creates its state.
\* A request without a cookie header authenticates nobody.
Begin(r) ==
    /\ req[r].pc = "new"
    /\ \A s \in Requests : Browser(s) = Browser(r) =>
          /\ Browser(r) \in Careful => ~InFlight(s)
          /\ req[r].ask.after = s => req[s].pc = "done"
    /\ Change(r, [pc |-> IF Callback(Kind(r)) THEN "consume"
                         ELSE IF Kind(r) = "start" THEN "create" ELSE "load",
                  gate |-> Gated(Kind(r)), tok |-> cookie[Browser(r)],
                  csrf |-> req[r].ask.csrf, barred |-> ended])
    /\ UNCHANGED <<users, accounts, tokens, grants, states, sessions, cookie, oauth, ended, deadlines,
                   mislaid>>

\* The answer reaches the browser, in any order with other answers
Receive(r) ==
    /\ req[r].pc = "answered"
    /\ Change(r, [pc |-> "done", set |-> {}])
    /\ \/ req[r].set = {} /\ cookie' = cookie
       \/ \E t \in req[r].set : cookie' = [cookie EXCEPT ![Browser(r)] = t]
    /\ oauth' = [oauth EXCEPT ![Browser(r)] =
                   IF Kind(r) \in {"start", "startlink"} /\ req[r].ok THEN r
                   ELSE IF Callback(Kind(r)) /\ req[r].ok THEN 0 ELSE @]
    /\ UNCHANGED <<users, accounts, tokens, grants, states, sessions, ended, deadlines, mislaid>>

Mislays(r) == mislaid' = mislaid \cup {req[r].spent}

\* A pod, the connection or a statement of the request dies
Fail(r) ==
    /\ InFlight(r) /\ req[r].ask.dies
    /\ Change(r, [pc |-> "done", set |-> {}, tok |-> NoToken, csrf |-> "none", due |-> FALSE,
                  rt |-> NoToken, spent |-> NoToken])
    /\ IF req[r].pc \in {"store", "revoke"} THEN Mislays(r) ELSE mislaid' = mislaid
    /\ UNCHANGED <<users, accounts, tokens, grants, states, sessions, cookie, oauth, ended,
                   deadlines>>

-----------------------------------------------------------------------------
(* authenticateSession.                                                    *)

\* The session a token opens: not ended, and of a linked account
LoadSessionByTokenHash(token) ==
    {s \in DOMAIN sessions : /\ sessions[s].token = token /\ sessions[s].valid
                             /\ accounts[sessions[s].g].linked}

allowRotation(r) == req[r].gate \/ Kind(r) \in {"me", "renew"}

\* Mutant: rotated cookies are not passed on.
ProceedWithoutCookies(r, tok, set) ==
    IF req[r].gate
    THEN Change(r, [gate |-> FALSE, tok |-> tok,
                    pc |-> IF Kind(r) = "profile" THEN "principal" ELSE "load"])
    ELSE CASE Kind(r) = "me" -> Succeed(r, set)
           [] Callback(Kind(r)) -> Change(r, [pc |-> "complete"])
           [] OTHER -> IF req[r].csrf = "right" THEN Change(r, [pc |-> Kind(r)]) ELSE Refuse(r)

\* Where an authenticated request goes.  The gateway copies rotated cookies to
\* the answer at once, and to the request it forwards with a CSRF header that
\* fits; the handlers of auth-service compare the header with the cookie sent.
Proceed(r, tok, set) ==
    IF req[r].gate
    THEN Change(r, [gate |-> FALSE, tok |-> tok, set |-> set,
                    pc |-> IF Kind(r) = "profile" THEN "principal" ELSE "load",
                    csrf |-> IF set # {} /\ req[r].csrf # "none" THEN "right" ELSE req[r].csrf])
    ELSE CASE Kind(r) = "me" -> Succeed(r, set)
           [] Callback(Kind(r)) -> Change(r, [pc |-> "complete"])
           [] OTHER -> IF req[r].csrf = "right" THEN Change(r, [pc |-> Kind(r)]) ELSE Refuse(r)

\* ensureGitHubAuthorization is over: rotate a session that is due
Authorized(r) ==
    IF allowRotation(r) /\ req[r].due THEN Change(r, [pc |-> "rotate"])
    ELSE Proceed(r, req[r].tok, req[r].set)

\* A login goes on without its prior session, everybody else is refused
Load(r) ==
    /\ req[r].pc = "load"
    /\ LET found == LoadSessionByTokenHash(req[r].tok)
       IN  \/ /\ found = {}
              /\ IF Kind(r) = "login" THEN Change(r, [pc |-> "complete", sid |-> 0])
                 ELSE Refuse(r)
           \/ \E s \in found : Change(r, [pc |-> "token", sid |-> s, due |-> sessions[s].due,
                                            spent |-> NoToken])
    /\ UNCHANGED <<users, accounts, tokens, grants, states, sessions, cookie, oauth, ended, deadlines,
                   mislaid>>

\* HandleCallback ignores whatever error authenticateSession has: the login
\* goes on, and no session is its prior one
LoginGoesOn(r) ==
    /\ Kind(r) = "login" /\ req[r].ask.dies
    /\ req[r].pc \in {"load", "token", "refresh", "store"}
    /\ Change(r, [pc |-> "complete", sid |-> 0, rt |-> NoToken, spent |-> NoToken])
    /\ IF req[r].pc = "store" THEN Mislays(r) ELSE mislaid' = mislaid
    /\ UNCHANGED <<users, accounts, tokens, grants, states, sessions, cookie, oauth, ended,
                   deadlines>>

\* The account of the session; the row and its account may be gone by now
Account(r) == IF req[r].sid \in DOMAIN sessions THEN {sessions[req[r].sid].g} ELSE {}

\* Revoked, gone or fresh tokens need no call to GitHub; nor does an account
\* without a refresh token or with an expired one, which each reading decides
LoadGitHubToken(r) ==
    /\ req[r].pc = "token"
    /\ \/ /\ \A g \in Account(r) : tokens[g].revoked \/ ~tokens[g].expired
          /\ Authorized(r)
       \/ \E g \in Account(r) :
             /\ ~tokens[g].revoked /\ tokens[g].expired
             /\ \/ Change(r, [pc |-> "refresh", rt |-> tokens[g].rt])
                \/ Change(r, [pc |-> "revoke"])
    /\ UNCHANGED <<users, accounts, tokens, grants, states, sessions, cookie, oauth, ended, deadlines,
                   mislaid>>

\* GitHub takes a refresh token once; its answer may be lost on the way
RefreshUserAccessToken(r) ==
    /\ req[r].pc = "refresh"
    /\ \/ \E g \in GitHubUsers :
             LET new == <<r, IF req[r].gate THEN "gate" ELSE "main">>
             IN  /\ req[r].rt \in grants[g]
                 /\ grants' = [grants EXCEPT ![g] = (@ \ {req[r].rt}) \cup {new}]
                 /\ \/ Change(r, [pc |-> "store", rt |-> new, spent |-> req[r].rt])
                    \/ Change(r, [pc |-> "revoke", spent |-> req[r].rt])
       \/ grants' = grants /\ Change(r, [pc |-> "revoke"])
    /\ UNCHANGED <<users, accounts, tokens, states, sessions, cookie, oauth, ended, deadlines,
                   mislaid>>

\* Mutant: the new refresh token is not stored.
StoreKeepsOldRefreshToken(r) ==
    [g \in DOMAIN tokens |->
        IF g \in Account(r) THEN [tokens[g] EXCEPT !.revoked = FALSE, !.expired = FALSE]
        ELSE tokens[g]]

\* The new pair replaces whatever is stored and lifts a revocation
StoreRefreshedGitHubToken(r) ==
    [g \in DOMAIN tokens |->
        IF g \in Account(r) THEN [rt |-> req[r].rt, revoked |-> FALSE, expired |-> FALSE]
        ELSE tokens[g]]

StoreToken(r) ==
    /\ req[r].pc = "store"
    /\ tokens' = StoreRefreshedGitHubToken(r)
    /\ Authorized(r)
    /\ UNCHANGED <<users, accounts, grants, states, sessions, cookie, oauth, ended, deadlines,
                   mislaid>>

Marked(r) ==
    [g \in DOMAIN tokens |->
        IF g \in Account(r) THEN [tokens[g] EXCEPT !.revoked = TRUE] ELSE tokens[g]]

\* Whatever token is stored by now is marked; an error is ignored
MarkTokenRevoked(r) ==
    /\ req[r].pc = "revoke"
    /\ \/ tokens' = Marked(r) /\ mislaid' = mislaid
       \/ req[r].ask.dies /\ tokens' = tokens /\ Mislays(r)
    /\ Authorized(r)
    /\ UNCHANGED <<users, accounts, grants, states, sessions, cookie, oauth, ended, deadlines>>

\* A session that ended meanwhile keeps its token; the caller is not told.
\* The account it writes too, the one the session had when it was loaded, is
\* the one it has (LiveSessionsKeepAccounts); roles are left out.
RotateSession(s, token) ==
    [sessions EXCEPT ![s] = IF @.valid THEN [@ EXCEPT !.token = token, !.due = FALSE] ELSE @]

Rotate(r) ==
    /\ req[r].pc = "rotate"
    /\ LET new == <<r, IF req[r].gate THEN "gate" ELSE "main">>
       IN  IF req[r].sid \in DOMAIN sessions
           THEN sessions' = RotateSession(req[r].sid, new) /\ Proceed(r, new, {new})
           ELSE sessions' = sessions /\ Refuse(r)
    /\ UNCHANGED <<users, accounts, tokens, grants, states, cookie, oauth, ended, deadlines,
                   mislaid>>

-----------------------------------------------------------------------------
(* The handlers.                                                           *)

\* profile-service looks the session up once more, with the merged cookie
LoadSessionPrincipal(r) ==
    /\ req[r].pc = "principal"
    /\ \/ /\ \E s \in DOMAIN sessions : sessions[s].token = req[r].tok /\ sessions[s].valid
          /\ Succeed(r, {})
       \/ Refuse(r)
    /\ UNCHANGED <<users, accounts, tokens, grants, states, sessions, cookie, oauth, ended, deadlines,
                   mislaid>>

\* RefreshSession rotates a second time and renews the absolute expiry
RefreshSession(r) ==
    /\ req[r].pc = "renew"
    /\ IF req[r].sid \in DOMAIN sessions
       THEN /\ sessions' = RotateSession(req[r].sid, <<r, "again">>)
            /\ Succeed(r, {<<r, "again">>})
       ELSE sessions' = sessions /\ Refuse(r)
    /\ UNCHANGED <<users, accounts, tokens, grants, states, cookie, oauth, ended, deadlines,
                   mislaid>>

\* Mutant: only the session with the presented token ends.
InvalidateByToken(r) ==
    [sessions EXCEPT ![req[r].sid].valid = @ /\ sessions[req[r].sid].token # req[r].tok]

\* By the session's id: a token rotated meanwhile ends with it
InvalidateSession(r) == [sessions EXCEPT ![req[r].sid].valid = FALSE]

Logout(r) ==
    /\ req[r].pc = "logout"
    /\ IF req[r].sid \in DOMAIN sessions
       THEN sessions' = InvalidateSession(r) /\ ended' = ended \cup {req[r].sid}
       ELSE UNCHANGED <<sessions, ended>>
    /\ Succeed(r, {NoToken})
    /\ UNCHANGED <<users, accounts, tokens, grants, states, cookie, oauth, deadlines, mislaid>>

\* The linked account of the session that was authenticated
Own(r) == {g \in Account(r) : accounts[g].linked /\ accounts[g].user = sessions[req[r].sid].user}

Of(g) == {s \in DOMAIN sessions : sessions[s].g = g}

\* Mutant: unlinking ends only the caller's session.
InvalidateOwnSession(r, g) == [sessions EXCEPT ![req[r].sid].valid = FALSE]

\* Every session of the account, whichever browser it is in
InvalidateSessionsOf(r, g) ==
    [s \in DOMAIN sessions |-> IF s \in Of(g) THEN [sessions[s] EXCEPT !.valid = FALSE]
                               ELSE sessions[s]]

UnlinkAccount(r) ==
    /\ req[r].pc = "unlink"
    /\ \/ Own(r) = {} /\ Refuse(r) /\ UNCHANGED <<accounts, tokens, sessions, ended>>
       \/ \E g \in Own(r) :
             /\ accounts' = [accounts EXCEPT ![g].linked = FALSE]
             /\ tokens' = [tokens EXCEPT ![g].revoked = TRUE]
             /\ sessions' = InvalidateSessionsOf(r, g)
             /\ ended' = ended \cup Of(g)
             /\ Succeed(r, {NoToken})
    /\ UNCHANGED <<users, grants, states, cookie, oauth, deadlines, mislaid>>

\* The user's row goes, and with it accounts, tokens, sessions and link states
DeleteAccount(r) ==
    /\ req[r].pc = "delete"
    /\ \/ Own(r) = {} /\ Refuse(r) /\ UNCHANGED <<users, accounts, tokens, states, sessions, ended>>
       \/ \E g \in Own(r) :
             LET u == accounts[g].user
                 gone == {h \in DOMAIN accounts : accounts[h].user = u}
                 over == {s \in DOMAIN sessions : sessions[s].user = u}
             IN  /\ users' = users \ {u}
                 /\ accounts' = Without(accounts, gone)
                 /\ tokens' = Without(tokens, gone)
                 /\ sessions' = Without(sessions, over)
                 /\ states' = Without(states, {n \in DOMAIN states : states[n].link = {u}})
                 /\ ended' = ended \cup over
                 /\ Succeed(r, {NoToken})
    /\ UNCHANGED <<grants, cookie, oauth, deadlines, mislaid>>

\* startOAuth, for a login or for the user who links an account
StartOAuth(r) ==
    /\ req[r].pc \in {"create", "startlink"}
    /\ \/ /\ Kind(r) = "startlink" /\ Account(r) = {}
          /\ states' = states /\ Refuse(r)
       \/ /\ Kind(r) = "startlink" => Account(r) # {}
          /\ states' = With(states, r,
                 [used |-> FALSE, link |-> IF Kind(r) = "startlink"
                                           THEN {sessions[req[r].sid].user} ELSE {}])
          /\ Succeed(r, {})
    /\ UNCHANGED <<users, accounts, tokens, grants, sessions, cookie, oauth, ended, deadlines,
                   mislaid>>

-----------------------------------------------------------------------------
(* The OAuth callback.                                                     *)

StateOf(r) == req[r].ask.after

\* An update that only an unused state of this browser survives; or it expired
ConsumeOAuthState(r) ==
    /\ req[r].pc = "consume"
    /\ \/ /\ StateOf(r) \in DOMAIN states /\ oauth[Browser(r)] = StateOf(r)
          /\ ~states[StateOf(r)].used
          /\ states' = [states EXCEPT ![StateOf(r)].used = TRUE]
          /\ Change(r, [pc |-> "exchange"])
       \/ states' = states /\ Refuse(r)
    /\ UNCHANGED <<users, accounts, tokens, grants, sessions, cookie, oauth, ended, deadlines,
                   mislaid>>

\* The code's exchange and fetchGitHubIdentity; either may fail
ExchangeUserAccessToken(r) ==
    /\ req[r].pc = "exchange"
    /\ \/ /\ grants' = [grants EXCEPT ![req[r].ask.g] = @ \cup {<<r, "code">>}]
          /\ Change(r, [pc |-> IF Kind(r) = "login" /\ req[r].tok = NoToken
                               THEN "complete" ELSE "load"])
       \/ grants' = grants /\ Refuse(r)
    /\ UNCHANGED <<users, accounts, tokens, states, sessions, cookie, oauth, ended, deadlines,
                   mislaid>>

userHasDifferentLinkedAccount(u, g) ==
    \E h \in DOMAIN accounts \ {g} : accounts[h].user = u /\ accounts[h].linked

\* insertUser and insertGitHubAccount, or the account's own user, linked again
LinkTo(g, u) == With(accounts, g, [user |-> u, linked |-> TRUE])

upsertGitHubToken(r) ==
    With(tokens, req[r].ask.g, [rt |-> <<r, "code">>, revoked |-> FALSE, expired |-> FALSE])

completeLoginTx(r) ==
    LET g == req[r].ask.g
        u == IF g \in DOMAIN accounts THEN accounts[g].user ELSE r
        prior == {req[r].sid} \cap DOMAIN sessions
    IN  /\ ~(g \in DOMAIN accounts /\ ~accounts[g].linked /\ userHasDifferentLinkedAccount(u, g))
        /\ users' = users \cup {u}
        /\ accounts' = LinkTo(g, u)
        /\ sessions' = With([s \in DOMAIN sessions |-> IF s \in prior
                                THEN [sessions[s] EXCEPT !.valid = FALSE] ELSE sessions[s]],
                            r, [user |-> u, g |-> g, token |-> <<r, "code">>,
                                valid |-> TRUE, due |-> FALSE])
        /\ ended' = ended \cup prior

\* The account is nobody's or the user's own, and the user has no other one
MayLink(u, g) ==
    /\ g \in DOMAIN accounts => accounts[g].user = u
    /\ ~userHasDifferentLinkedAccount(u, g)

\* The session keeps its id and gets the account and a new token, if it has
\* not ended; a deleted user or session makes the transaction fail
completeLinkTx(r) ==
    LET g == req[r].ask.g
        s == req[r].sid
    IN  \E u \in users :
        /\ s \in DOMAIN sessions /\ sessions[s].user = u
        /\ StateOf(r) \in DOMAIN states /\ states[StateOf(r)].link = {u}
        /\ MayLink(u, g)
        /\ accounts' = IF g \in DOMAIN accounts THEN [accounts EXCEPT ![g].linked = TRUE]
                       ELSE LinkTo(g, u)
        /\ sessions' = [sessions EXCEPT ![s] = IF @.valid
                           THEN [@ EXCEPT !.g = g, !.token = <<r, "code">>, !.due = FALSE] ELSE @]
        /\ UNCHANGED <<users, ended>>

CompleteAuth(r) ==
    /\ req[r].pc = "complete"
    /\ \/ /\ IF Kind(r) = "link" THEN completeLinkTx(r) ELSE completeLoginTx(r)
          /\ tokens' = upsertGitHubToken(r)
          /\ Succeed(r, {<<r, "code">>})
       \/ Refuse(r) /\ UNCHANGED <<users, accounts, tokens, sessions, ended>>
    /\ UNCHANGED <<grants, states, cookie, oauth, deadlines, mislaid>>

-----------------------------------------------------------------------------
(* Time.  Requests are short against every one of these deadlines.         *)

Passes(what, x) ==
    /\ <<what, x>> \in deadlines
    /\ deadlines' = deadlines \ {<<what, x>>}

AccessTokenExpires(g) ==
    /\ Passes("access token", g)
    /\ tokens' = [tokens EXCEPT ![g].expired = TRUE]
    /\ UNCHANGED <<users, accounts, grants, states, sessions, cookie, oauth, ended, req, mislaid>>

\* SessionRotationInterval has passed, or the session's secret was replaced
RotationFallsDue(s) ==
    /\ Passes("rotation", s)
    /\ sessions' = [sessions EXCEPT ![s].due = TRUE]
    /\ UNCHANGED <<users, accounts, tokens, grants, states, cookie, oauth, ended, req, mislaid>>

\* The session's idle or absolute expiry
SessionExpires(s) ==
    /\ Passes("session", s)
    /\ \A r \in Requests : InFlight(r) => req[r].sid # s
    /\ sessions' = [sessions EXCEPT ![s].valid = FALSE]
    /\ UNCHANGED <<users, accounts, tokens, grants, states, cookie, oauth, ended, req, mislaid>>

Next ==
    \/ \E r \in Requests :
          \/ Begin(r) \/ Receive(r) \/ Fail(r) \/ Load(r) \/ LoginGoesOn(r) \/ LoadGitHubToken(r)
          \/ RefreshUserAccessToken(r) \/ StoreToken(r) \/ MarkTokenRevoked(r) \/ Rotate(r)
          \/ LoadSessionPrincipal(r) \/ RefreshSession(r) \/ Logout(r) \/ UnlinkAccount(r)
          \/ DeleteAccount(r) \/ StartOAuth(r) \/ ConsumeOAuthState(r)
          \/ ExchangeUserAccessToken(r) \/ CompleteAuth(r)
    \/ \E g \in DOMAIN tokens : AccessTokenExpires(g)
    \/ \E s \in DOMAIN sessions : RotationFallsDue(s) \/ SessionExpires(s)

Spec == Init /\ [][Next]_vars

-----------------------------------------------------------------------------
(* Properties.                                                             *)

\* A live session is of a linked account and of that account's owner, a user
\* has at most one linked account, and no token opens two sessions, whatever
\* logins, links, unlinks and deletions overlap.
SessionsMatchAccounts ==
    /\ DOMAIN tokens = DOMAIN accounts
    /\ \A g \in DOMAIN accounts : accounts[g].user \in users
    /\ \A g, h \in DOMAIN accounts :
          accounts[g].linked /\ accounts[h].linked /\ accounts[g].user = accounts[h].user => g = h
    /\ \A s \in DOMAIN sessions : sessions[s].valid =>
          /\ sessions[s].g \in DOMAIN accounts
          /\ accounts[sessions[s].g] = [user |-> sessions[s].user, linked |-> TRUE]
          /\ \A t \in DOMAIN sessions : sessions[t].token = sessions[s].token => t = s

\* Once a logout, an unlink, a deletion or a new login has ended a session, no
\* request begun later succeeds in it, also not with a token that a racing
\* request rotated, nor after the account is linked again.
EndedStaysEnded ==
    \A r \in Requests : req[r].ok => req[r].sid \notin req[r].barred

\* The session a token was issued for
SessionOf(t) ==
    IF t[1] \in Browsers THEN t[1]
    ELSE IF Kind(t[1]) = "login" THEN t[1] ELSE req[t[1]].sid

\* A browser that sends one request at a time holds the token its session
\* has now, as long as the session lasts: no rotation on the way, at the
\* gateway or in a handler, leaves it with an older one.
CarefulBrowserKeepsSession ==
    \A b \in Careful :
        (\A r \in Requests : Browser(r) = b => ~InFlight(r)) /\ cookie[b] # NoToken =>
            LET s == SessionOf(cookie[b])
            IN  s \in DOMAIN sessions /\ sessions[s].valid => sessions[s].token = cookie[b]

\* A stored refresh token that is not marked revoked is one GitHub still takes,
\* unless a request has spent it and is about to report, or could not: two
\* requests that refresh at once never leave a spent token as a good one.
\* (A revocation on GitHub's side is not among GitHub's steps.)
HonouredUnlessRevoked ==
    \A g \in DOMAIN tokens : ~tokens[g].revoked =>
        \/ tokens[g].rt \in grants[g] \cup mislaid
        \/ \E r \in Requests : /\ req[r].spent = tokens[g].rt
                               /\ req[r].pc \in {"store", "revoke"}

=============================================================================
