------------------------------- MODULE Setup -------------------------------
(***************************************************************************)
(* README.md step 4: operators run infra/migrate.py and                    *)
(* infra/rabbitmq_setup.py, while the producer may be running already.     *)
(* The two are separate command lines: the second script does not look at  *)
(* what became of the first, so it may run after a migration that failed,  *)
(* or before any.  This module composes Migrate.tla and Topology.tla; a    *)
(* runner that is no operator only migrates, as the job of ci.yml does.    *)
(***************************************************************************)
EXTENDS Migrate, Topology

CONSTANT Shipped    \* the migration files in the repository: 001 and 002

ASSUME SetupAssumption == Operator \subseteq Runner /\ Shipped \in 0..MaxFiles

setupVars == <<migrateVars, topologyVars>>

SetupTypeOK == MigrateTypeOK /\ TopologyTypeOK

SetupInit ==
    /\ MigrateInit /\ files = Shipped
    /\ TopologyInit

\* An operator runs the scripts one at a time, each as often as he likes and
\* in either order; several operators are not kept apart.
Migrating(r)     == r \in Operator => boot[r] \in {"off", "ok", "failed"}
Bootstrapping(o) == at[o] \in Ended

MigratePart(r) == Migrating(r) /\ RunStep(r) /\ UNCHANGED topologyVars
BootPart(o)    == Bootstrapping(o) /\ BootStep(o) /\ UNCHANGED migrateVars

Outside ==
    \/ FileAdded /\ UNCHANGED topologyVars
    \/ \E m \in Trade : PublishStep(m) /\ UNCHANGED migrateVars
    \/ (ProducerRestarts \/ TradeExpires) /\ UNCHANGED migrateVars

SetupNext ==
    \/ \E r \in Runner : MigratePart(r)
    \/ \E o \in Operator : BootPart(o)
    \/ Outside

SetupSpec == SetupInit /\ [][SetupNext]_setupVars

=============================================================================
