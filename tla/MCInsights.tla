----------------------------- MODULE MCInsights -----------------------------
EXTENDS Insights

MCLanes == <<"security", "testing">>
MCLaneOf == LET P1 == CHOOSE p \in PRs : TRUE
            IN  [p \in PRs |-> IF p = P1 THEN "testing" ELSE "security"]
\* a pull request's second version, say self-merged, bears no score
MCEarns(p, v) == v = 1
MCTemplates == {[id |-> "quest-regression-tests", lane |-> "testing", goal |-> 1,
                 badge |-> "test-builder"]}

Do(kind, p) == [kind |-> kind, pr |-> p]
MCPlans ==
    LET P1 == CHOOSE p \in PRs : TRUE
        P2 == CHOOSE p \in PRs : p # P1
    IN  {[row |-> r, faults |-> f, jobs |-> [j \in Jobs |-> IF j = 1 THEN a ELSE b]] :
            <<r, f, a, b>> \in {<<0, 0, Do("grade", P1), Do("grade", P1)>>,
                                <<0, 0, Do("grade", P1), Do("grade", P2)>>,
                                <<1, 0, Do("history", P1), Do("visit", P1)>>,
                                <<1, 0, Do("badge", P1), Do("grade", P2)>>,
                                <<0, 0, Do("score", P1), Do("visit", P1)>>,
                                <<1, 1, Do("score", P1), Do("visit", P1)>>}}
=============================================================================
