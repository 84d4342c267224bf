----------------------------- MODULE MCSyncRuns -----------------------------
(* Two goroutines of different pods execute a request to sync a user, any   *)
(* number of times.                                                         *)
EXTENDS SyncRuns

MCRequests == {[corr |-> "a", mode |-> "user", subject |-> "u"]}
MCExecs == {"e1", "e2"}
MCPod == [e \in MCExecs |-> IF e = "e1" THEN "p1" ELSE "p2"]
============================================================================
