--------------------------- MODULE SchedulerState ---------------------------
(***************************************************************************)
(* The scheduler's durable state: several pods, each with an in-memory     *)
(* copy, and PostgreSQL (durable.go, state_store.go).  A mutation locks    *)
(* the counters row, replaces the pod's copy by the stored state, runs,    *)
(* and stores the whole state back.  The state was once stored as one JSON *)
(* snapshot; whoever first finds no rows migrates that snapshot.           *)
(*                                                                         *)
(* A state is abstracted to the set of mutations it contains.  durableMu   *)
(* lets a pod do one operation at a time; pods interleave between the      *)
(* statements that are not under the row lock.                             *)
(***************************************************************************)
EXTENDS Naturals, FiniteSets

CONSTANTS
  Pods,
  Mutations,   \* bound: mutations ever requested
  Legacy,      \* the mutations contained in the legacy snapshot
  NoPod

ASSUME StateAssumption ==
  /\ NoPod \notin Pods
  /\ Legacy \cap Mutations = {}

VARIABLES
  rows,      \* normalizedStateExists
  stored,    \* the state in the normalized tables
  snapshot,  \* whether the legacy snapshot is there
  lock,      \* who holds the lock on the counters row
  pod,       \* pod[p]: what p is doing, with its local variables
  cache,     \* cache[p]: p's in-memory copy of the state
  wanted,    \* mutations not requested yet
  acked      \* mutations reported to a caller as done

stateVars == <<rows, stored, snapshot, lock, pod, cache, wanted, acked>>

IdlePod == [pc |-> "idle", exists |-> FALSE, loaded |-> {}, m |-> {}]

StateInit ==
  /\ rows = FALSE
  /\ stored = {}
  /\ snapshot = TRUE
  /\ lock = NoPod
  /\ pod = [p \in Pods |-> IdlePod]
  /\ cache = [p \in Pods |-> {}]
  /\ wanted = Mutations
  /\ acked = {}

----------------------------------------------------------------------------
(* withDurableMutation and Mutate.                                         *)

\* The transaction begins and asks whether normalized rows exist.
BeginMutate(p, m) ==
  /\ pod[p].pc = "idle"
  /\ pod' = [pod EXCEPT ![p] = [pc |-> "mutate", exists |-> rows, loaded |-> {}, m |-> {m}]]
  /\ wanted' = wanted \ {m}
  /\ UNCHANGED <<rows, stored, snapshot, lock, cache, acked>>

\* Mutant: the row is not locked.
LockIgnored(p) == TRUE

\* ensureRuntimeCountersRowTx and lockRuntimeCountersRowTx wait until no other
\* transaction has inserted, updated or locked the row.
LockFree(p) == lock = NoPod

\* Mutant: a mutation starts from the rows alone.
LoadedRowsOnly(exists) == stored

\* The state a mutation starts from.
Loaded(exists) ==
  IF ~exists /\ stored = {} /\ snapshot THEN Legacy ELSE stored

\* The row is locked and the state loaded into the pod's copy.
LockAndLoad(p) ==
  /\ pod[p].pc = "mutate"
  /\ LockFree(p)
  /\ lock' = p
  /\ pod' = [pod EXCEPT ![p] = [pc |-> "locked", exists |-> pod[p].exists,
                                  loaded |-> Loaded(pod[p].exists), m |-> pod[p].m]]
  /\ cache' = [cache EXCEPT ![p] = Loaded(pod[p].exists)]
  /\ UNCHANGED <<rows, stored, snapshot, wanted, acked>>

\* saveStateTx and the commit: the state is replaced, the snapshot deleted.
Save(state) ==
  /\ rows' = TRUE
  /\ stored' = state
  /\ snapshot' = FALSE

\* The mutation runs on the copy and is stored.  The commit's answer may get
\* lost: then the caller sees an error and the copy goes back.
CommitMutate(p) ==
  LET next == pod[p].loaded \cup pod[p].m
  IN /\ pod[p].pc = "locked"
     /\ Save(next)
     /\ lock' = NoPod
     /\ pod' = [pod EXCEPT ![p] = IdlePod]
     /\ \/ cache' = [cache EXCEPT ![p] = next] /\ acked' = acked \cup pod[p].m
        \/ cache' = [cache EXCEPT ![p] = pod[p].loaded] /\ UNCHANGED acked
     /\ UNCHANGED wanted

\* The operation or a statement fails after the load: rollback, and the copy
\* goes back to what was loaded.
RollBack(p) ==
  /\ pod[p].pc = "locked"
  /\ lock' = NoPod
  /\ cache' = [cache EXCEPT ![p] = pod[p].loaded]
  /\ pod' = [pod EXCEPT ![p] = IdlePod]
  /\ UNCHANGED <<rows, stored, snapshot, wanted, acked>>

\* A statement fails before the load: `loaded' is still the zero state, and
\* the copy is replaced by it.
FailEarly(p) ==
  /\ pod[p].pc = "mutate"
  /\ cache' = [cache EXCEPT ![p] = {}]
  /\ pod' = [pod EXCEPT ![p] = IdlePod]
  /\ UNCHANGED <<rows, stored, snapshot, lock, wanted, acked>>

----------------------------------------------------------------------------
(* Load: at start-up (restorePersistedState) and before every status read  *)
(* (refreshDurableState).                                                  *)

\* Rows exist: the copy is replaced by them.
LoadRows(p) ==
  /\ pod[p].pc = "idle"
  /\ rows
  /\ cache' = [cache EXCEPT ![p] = stored]
  /\ UNCHANGED <<rows, stored, snapshot, lock, pod, wanted, acked>>

\* No rows: Load goes on to look for a snapshot.
FindNoRows(p) ==
  /\ pod[p].pc = "idle"
  /\ ~rows
  /\ pod' = [pod EXCEPT ![p] = [pc |-> "legacy", exists |-> FALSE, loaded |-> {}, m |-> {}]]
  /\ UNCHANGED <<rows, stored, snapshot, lock, cache, wanted, acked>>

\* loadLegacyState: no snapshot either, and refreshDurableState empties the
\* copy; or a snapshot to migrate.
LoadLegacy(p) ==
  /\ pod[p].pc = "legacy"
  /\ IF snapshot
     THEN /\ pod' = [pod EXCEPT ![p] = [pc |-> "migrate", exists |-> FALSE,
                                         loaded |-> Legacy, m |-> {}]]
          /\ UNCHANGED cache
     ELSE /\ pod' = [pod EXCEPT ![p] = IdlePod]
          /\ cache' = [cache EXCEPT ![p] = {}]
  /\ UNCHANGED <<rows, stored, snapshot, lock, wanted, acked>>

\* Save: its first statement updates the counters row and so waits for the
\* lock, but what it stores was read before.
Migrate(p) ==
  /\ pod[p].pc = "migrate"
  /\ LockFree(p)
  /\ Save(pod[p].loaded)
  /\ cache' = [cache EXCEPT ![p] = pod[p].loaded]
  /\ pod' = [pod EXCEPT ![p] = IdlePod]
  /\ UNCHANGED <<lock, wanted, acked>>

\* A query of Load fails: the copy stays.
FailLoad(p) ==
  /\ pod[p].pc \in {"legacy", "migrate"}
  /\ pod' = [pod EXCEPT ![p] = IdlePod]
  /\ UNCHANGED <<rows, stored, snapshot, lock, cache, wanted, acked>>

\* The pod dies; PostgreSQL rolls its transaction back and a new pod starts.
Crash(p) ==
  /\ pod' = [pod EXCEPT ![p] = IdlePod]
  /\ cache' = [cache EXCEPT ![p] = {}]
  /\ lock' = IF lock = p THEN NoPod ELSE lock
  /\ UNCHANGED <<rows, stored, snapshot, wanted, acked>>

StateNext ==
  \E p \in Pods :
    \/ \E m \in wanted : BeginMutate(p, m)
    \/ LockAndLoad(p) \/ CommitMutate(p) \/ RollBack(p) \/ FailEarly(p)
    \/ LoadRows(p) \/ FindNoRows(p) \/ LoadLegacy(p) \/ Migrate(p) \/ FailLoad(p)
    \/ Crash(p)

StateSpec == StateInit /\ [][StateNext]_stateVars

----------------------------------------------------------------------------
\* States are sets of mutations, what is acknowledged was requested, and the
\* row is locked exactly by the pod that is inside its transaction.
StateTypeOK ==
  /\ rows \in BOOLEAN
  /\ stored \subseteq Legacy \cup Mutations
  /\ snapshot \in BOOLEAN
  /\ lock \in Pods \cup {NoPod}
  /\ \A p \in Pods : pod[p].pc = "locked" <=> lock = p
  /\ pod \in [Pods -> [pc : {"idle", "mutate", "locked", "legacy", "migrate"},
                       exists : BOOLEAN,
                       loaded : SUBSET (Legacy \cup Mutations),
                       m : SUBSET Mutations]]
  /\ cache \in [Pods -> SUBSET (Legacy \cup Mutations)]
  /\ wanted \subseteq Mutations
  /\ acked \subseteq Mutations \ wanted

\* What the legacy snapshot held is never lost, whichever of the concurrent
\* mutations and loads migrates it and wherever pods die in between.
LegacyIsKept == Legacy \subseteq stored \/ snapshot

\* Mutations of different pods are serialised by the row lock: what is reported
\* as done is stored at that moment, and only a migration can remove it again.
OnlyMigrationForgets ==
  [][\/ stored \subseteq stored' /\ acked' \ acked \subseteq stored'
     \/ \E p \in Pods : pod[p].pc = "migrate" /\ pod'[p].pc = "idle"]_stateVars

=============================================================================
