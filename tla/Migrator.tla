------------------------------ MODULE Migrator ------------------------------
(***************************************************************************)
(* runMigrations and rollbackMigration of migrator.ts, run by several      *)
(* processes: servers that start (MIGRATE_ON_STARTUP) and operators.       *)
(* A migration's statements and its row in schema_migrations are one       *)
(* transaction; PostgreSQL lets the second of two transactions that touch  *)
(* the same objects wait for the first, and fail when the object or the    *)
(* row is there.                                                           *)
(***************************************************************************)
EXTENDS Naturals, FiniteSets

CONSTANTS
    Processes,
    Versions,       \* the migration files, numbered without gaps (loadMigrations)
    MaxCrashes,     \* bound: processes that die or whose statement fails
    MaxRollbacks    \* bound: rollbacks by an operator

ASSUME MigratorAssumption ==
    /\ Processes # {} /\ Versions \subseteq Nat
    /\ MaxCrashes \in Nat /\ MaxRollbacks \in Nat

VARIABLES
    listed,         \* schema_migrations
    schema,         \* the migrations whose statements have taken effect
    runner,         \* for each process: progress and what it has still to apply
    crashes, rollbacks

migratorVars == <<listed, schema, runner, crashes, rollbacks>>

Runner(pc, pending) == [pc |-> pc, pending |-> pending]

MigratorInit ==
    /\ listed = {} /\ schema = {}
    /\ runner = [p \in Processes |-> Runner("starts", {})]
    /\ crashes = 0 /\ rollbacks = 0

\* runMigrations: what is applied is read once.
ReadApplied(p) ==
    /\ runner[p].pc = "starts"
    /\ runner' = [runner EXCEPT ![p] = Runner("next", Versions \ listed)]
    /\ UNCHANGED <<listed, schema, crashes, rollbacks>>

NextVersion(p) == CHOOSE v \in runner[p].pending : \A w \in runner[p].pending : v =< w

\* BEGIN and the UP statements: wait for an open transaction of the version
BeginUp(p) ==
    /\ runner[p].pc = "next" /\ runner[p].pending # {}
    /\ \A q \in Processes : runner[q].pc = "open" => NextVersion(q) # NextVersion(p)
    /\ runner' = [runner EXCEPT ![p].pc = IF NextVersion(p) \in schema THEN "failed" ELSE "open"]
    /\ UNCHANGED <<listed, schema, crashes, rollbacks>>

\* The row is inserted, and COMMIT.
Commit(p) ==
    /\ runner[p].pc = "open"
    /\ listed' = listed \cup {NextVersion(p)}
    /\ schema' = schema \cup {NextVersion(p)}
    /\ runner' = [runner EXCEPT ![p] = Runner("next", @.pending \ {NextVersion(p)})]
    /\ UNCHANGED <<crashes, rollbacks>>

\* Mutant: the error is logged and the next migration tried.
MutantErrorSwallowed(p) ==
    /\ crashes < MaxCrashes
    /\ runner[p].pc = "open"
    /\ crashes' = crashes + 1
    /\ runner' = [runner EXCEPT ![p] = Runner("next", @.pending \ {NextVersion(p)})]
    /\ UNCHANGED <<listed, schema, rollbacks>>

\* The process dies, or a statement fails: ROLLBACK, and startServer fails.
Fails(p) ==
    /\ crashes < MaxCrashes
    /\ runner[p].pc \in {"starts", "next", "open"}
    /\ crashes' = crashes + 1
    /\ runner' = [runner EXCEPT ![p].pc = "failed"]
    /\ UNCHANGED <<listed, schema, rollbacks>>

Done(p) ==
    /\ runner[p].pc = "next" /\ runner[p].pending = {}
    /\ runner' = [runner EXCEPT ![p].pc = "serves"]
    /\ UNCHANGED <<listed, schema, crashes, rollbacks>>

\* rollbackMigration, for any version applied, while no server is migrating it
RollbackMigration(v) ==
    /\ rollbacks < MaxRollbacks
    /\ v \in listed /\ \A q \in Processes : runner[q].pc = "open" => NextVersion(q) # v
    /\ rollbacks' = rollbacks + 1
    /\ listed' = listed \ {v} /\ schema' = schema \ {v}
    /\ UNCHANGED <<runner, crashes>>

MigratorNext ==
    \/ \E p \in Processes : ReadApplied(p) \/ BeginUp(p) \/ Commit(p) \/ Fails(p) \/ Done(p)
    \/ \E v \in Versions : RollbackMigration(v)

MigratorSpec == MigratorInit /\ [][MigratorNext]_migratorVars

-----------------------------------------------------------------------------
(* Properties.                                                             *)

\* A server serves only when all migrations are applied, if no operator rolls
\* one back; and when all of several servers have stopped migrating and none
\* crashed, one of them serves: the losers of the race fail, not all of them.
OneServerStarts ==
    rollbacks = 0 =>
        /\ \A p \in Processes : runner[p].pc = "serves" => listed = Versions
        /\ crashes = 0 /\ (\A p \in Processes : runner[p].pc \in {"failed", "serves"})
              => \E p \in Processes : runner[p].pc = "serves"

=============================================================================
