-------------------------- MODULE MCBackfillPlans ---------------------------
(***************************************************************************)
(* Two plans that share a job, and two limiter scopes; one of the targets  *)
(* names an installation as well as its user.                              *)
(***************************************************************************)
EXTENDS BackfillPlans

MCTargets == <<<<"repository", "user">>, <<"user">>>>

MCJobs == [repository |-> {"a"}, user |-> {"a", "b"}]

MCModes == [memory |-> {1}, persistent |-> {1, 2}]

MCScopes == [repository |-> <<"u", "i">>, user |-> <<"u">>]

=============================================================================
