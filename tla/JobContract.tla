---------------------------- MODULE JobContract ----------------------------
(***************************************************************************)
(* What the scheduler promises of the jobs it accepts, without leases,     *)
(* clocks, pauses, workers or a database: one open job per dedupe key, one *)
(* end per job, success only for work that was done, MaxAttempts failures  *)
(* at the most, and one dead letter for every job it gives up.             *)
(***************************************************************************)
EXTENDS Integers, Sequences

CONSTANTS Keys, NoKey, MaxAttempts

VARIABLES
  life,      \* the accepted jobs, in order
  worked,    \* jobs some execution of which succeeded
  letters    \* the jobs given up, in the order of their dead letters

contract == <<life, worked, letters>>

Open(j) == life[j].end = "open"

Init == life = << >> /\ worked = {} /\ letters = << >>

Accept(key) ==
  /\ \A j \in DOMAIN life : Open(j) /\ life[j].key = key => key = NoKey
  /\ life' = Append(life, [key |-> key, end |-> "open", tries |-> 0])
  /\ UNCHANGED <<worked, letters>>

\* An execution succeeds; it ends the job if its report comes in time.
Work(j) ==
  /\ worked' = worked \cup {j}
  /\ \/ life' = life
     \/ Open(j) /\ life' = [life EXCEPT ![j].end = "succeeded"]
  /\ UNCHANGED letters

TryAgain(j) ==
  /\ Open(j) /\ life[j].tries + 1 < MaxAttempts
  /\ life' = [life EXCEPT ![j].tries = @ + 1]
  /\ UNCHANGED <<worked, letters>>

GiveUp(j) ==
  /\ Open(j)
  /\ life' = [life EXCEPT ![j] = [key |-> @.key, end |-> "dead_letter", tries |-> MaxAttempts]]
  /\ letters' = Append(letters, j)
  /\ UNCHANGED worked

Cancel(j) ==
  /\ Open(j)
  /\ life' = [life EXCEPT ![j].end = "canceled"]
  /\ UNCHANGED <<worked, letters>>

Next ==
  \/ \E key \in Keys \cup {NoKey} : Accept(key)
  \/ \E j \in DOMAIN life : Work(j) \/ TryAgain(j) \/ GiveUp(j) \/ Cancel(j)

Spec == Init /\ [][Next]_contract
=============================================================================
