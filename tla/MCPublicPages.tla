--------------------------- MODULE MCPublicPages ---------------------------
EXTENDS PublicPages

Board(n) == [kind |-> "board", limit |-> n]
Job(n) == [kind |-> "job", limit |-> n]
History(n) == [kind |-> "history", limit |-> n]
Update(u, set) == [kind |-> "update", user |-> u, set |-> set]
Set(u, x, hidden) == [kind |-> "hide", user |-> u, repo |-> x, hidden |-> hidden]
Hide(u, x) == Set(u, x, TRUE)
Page(u) == [kind |-> "page", user |-> u]
Refresh(u, n) == [kind |-> "refresh", user |-> u, total |-> n]
Delete(u) == [kind |-> "delete", user |-> u]

\* Boards while settings change, snapshots are refreshed and accounts go
SeasonPlans ==
    {<<Update(2, [shows |-> FALSE]), Job(2), Board(2), Delete(2)>>,
     <<Update(2, [public |-> FALSE]), Board(2), Board(2), Delete(1)>>,
     <<Update(2, [shows |-> FALSE]), Update(2, [exact |-> FALSE]), Board(2), Refresh(1, 5)>>,
     <<Refresh(2, 5), Update(2, [shows |-> FALSE]), Board(2), Delete(2)>>,
     <<Refresh(1, 5), History(2), Board(1), Delete(2)>>,
     <<Refresh(1, 5), Refresh(1, 6), Job(1), Board(2)>>}

\* Two readers of one page while its owner changes two things, or deletes all
PagePlans ==
    {<<Page(1), Hide(1, 1), Hide(1, 2), Page(1)>>,
     <<Page(1), Hide(1, 1), Set(1, 1, FALSE), Page(1)>>,
     <<Page(1), Update(1, [exact |-> FALSE]), Update(1, [shows |-> FALSE]), Page(1)>>,
     <<Page(1), Update(1, [public |-> FALSE]), Hide(1, 1), Page(1)>>,
     <<Page(1), Refresh(1, 5), Hide(1, 1), Page(1)>>,
     <<Page(1), Delete(1), Hide(1, 1), Page(1)>>}

MCPlans == SeasonPlans \cup PagePlans

\* A bound: plans with pages end after two seconds, which are enough for changes
\* that are stored in another order than they were asked for
PagesInTwoSeconds ==
    (\E r \in Requests : req[r].ask.kind = "page") => clock <= Start + 1
=============================================================================
