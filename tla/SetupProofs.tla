---------------------------- MODULE SetupProofs ----------------------------
(***************************************************************************)
(* Proofs about Setup.tla: its executions are executions of Migrate and of *)
(* Topology, so what is proved of each holds of the two together.          *)
(***************************************************************************)
EXTENDS Setup, MigrateProofs, TopologyProofs

USE SetupAssumption

LEMMA SetupStepOfParts ==
    [SetupNext]_setupVars => [MigrateNext]_migrateVars /\ [TopologyNext]_topologyVars
<1> SUFFICES ASSUME [SetupNext]_setupVars
             PROVE  [MigrateNext]_migrateVars /\ [TopologyNext]_topologyVars
  OBVIOUS
<1>1. ASSUME NEW r \in Runner, MigratePart(r)
      PROVE  MigrateNext /\ UNCHANGED topologyVars
  BY <1>1 DEF MigratePart, MigrateNext
<1>2. ASSUME NEW o \in Operator, BootPart(o)
      PROVE  TopologyNext /\ UNCHANGED migrateVars
  BY <1>2 DEF BootPart, TopologyNext
<1>3. CASE Outside
  BY <1>3 DEF Outside, MigrateNext, TopologyNext
<1>4. CASE UNCHANGED setupVars
  BY <1>4 DEF setupVars
<1>5. QED
  BY <1>1, <1>2, <1>3, <1>4 DEF SetupNext

\* The operators' use of migrate.py is a use Migrate allows.
THEOREM SetupImplementsMigrate == SetupSpec => MigrateSpec
<1>1. SetupInit => MigrateInit
  BY DEF SetupInit
<1>2. QED
  BY <1>1, SetupStepOfParts, PTL DEF SetupSpec, MigrateSpec

\* The operators' use of rabbitmq_setup.py is a use Topology allows.
THEOREM SetupImplementsTopology == SetupSpec => TopologySpec
<1>1. SetupInit => TopologyInit
  BY DEF SetupInit
<1>2. QED
  BY <1>1, SetupStepOfParts, PTL DEF SetupSpec, TopologySpec

\* Type correctness of the two scripts together.
THEOREM SetupTypeCorrect == SetupSpec => []SetupTypeOK
<1>1. MigrateTypeOK /\ TopologyTypeOK => SetupTypeOK
  BY DEF SetupTypeOK
<1>2. QED
  BY <1>1, SetupImplementsMigrate, SetupImplementsTopology, MigrateTypeCorrect,
     TopologyTypeCorrect, PTL

============================================================================
