-------------------------- MODULE MCAuthoredHistory --------------------------
(* A small calendar: recent, older and first pull requests of one user.     *)
EXTENDS AuthoredHistory

MCPRs == 1 .. 7
MCCreated == <<2, 3, 3, 13, 13, 14, 14>>
============================================================================
