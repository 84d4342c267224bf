--------------------------- MODULE MCAuthSessions ---------------------------
(***************************************************************************)
(* A careful browser 11 and another one, 12, both logged in as one user;   *)
(* each plan lets at most four requests meet.  Browser 13 stays idle.      *)
(***************************************************************************)
EXTENDS AuthSessions

Ask(kind, b) ==
    [kind |-> kind, browser |-> b, csrf |-> "right", after |-> 0, g |-> 1, dies |-> FALSE]
Stale(kind, b) == [Ask(kind, b) EXCEPT !.csrf = "stale"]
Dies(ask) == [ask EXCEPT !.dies = TRUE]
Back(kind, b, start, g) == [Ask(kind, b) EXCEPT !.after = start, !.g = g]

\* A request that waits for itself is never sent
Idle == [Ask("me", 13) EXCEPT !.after = 4]

Token == <<"access token", 1>>
Due(s) == <<"rotation", s>>
Expiry(s) == <<"session", s>>

Plan(asks, pass) == [asks |-> asks, deadlines |-> pass]

MCPlans ==
  { \* one browser's requests rotate and refresh, the other ends the account
    Plan(<<Ask("profile", 11), Ask("renew", 11), Ask("unlink", 12), Ask("me", 11)>>, {Token, Due(11)}),
    Plan(<<Ask("profile", 11), Ask("me", 11), Ask("delete", 12), Ask("profile", 12)>>, {Due(11)}),
    Plan(<<Ask("profile", 11), Ask("renew", 11), Ask("unlink", 11), Idle>>, {Token, Due(11), Expiry(11)}),
    \* tabs of one browser race each other
    Plan(<<Ask("me", 12), Ask("logout", 12), Ask("profile", 12), Ask("me", 11)>>, {Due(12), Expiry(11)}),
    Plan(<<Ask("renew", 12), Stale("renew", 12), Stale("unlink", 12), Idle>>, {Due(12)}),
    Plan(<<Dies(Ask("me", 12)), Dies(Ask("profile", 12)), Ask("me", 11), Idle>>, {Token}),
    \* unlink or delete, and log in again
    Plan(<<Ask("unlink", 11), Ask("start", 11), Back("login", 11, 2, 1), Ask("me", 12)>>, {Token}),
    Plan(<<Ask("delete", 12), Ask("start", 11), Back("login", 11, 2, 1), Ask("me", 12)>>, {}),
    Plan(<<Ask("me", 11), Ask("start", 12), Dies(Back("login", 12, 2, 1)), Ask("profile", 11)>>, {Token}),
    \* one start, two callbacks; another GitHub user in the same browser
    Plan(<<Ask("start", 12), Back("login", 12, 1, 2), Back("login", 12, 1, 2), Ask("me", 12)>>, {}),
    \* link the account again, or another one, while it is unlinked or deleted
    Plan(<<Ask("startlink", 12), Back("link", 12, 1, 1), Ask("unlink", 11), Idle>>, {}),
    Plan(<<Ask("startlink", 12), Back("link", 12, 1, 2), Ask("unlink", 11), Ask("me", 12)>>, {}),
    Plan(<<Ask("startlink", 12), Back("link", 12, 1, 1), Ask("delete", 11), Idle>>, {}),
    \* another user logs in first with the account to be linked
    Plan(<<Ask("start", 11), Back("login", 11, 1, 2), Ask("startlink", 12), Back("link", 12, 3, 2)>>, {}) }

=============================================================================
