--------------------------- MODULE MigrateProofs ---------------------------
(***************************************************************************)
(* Proofs about Migrate.tla, for every set of runners and every number of  *)
(* migration files.                                                        *)
(***************************************************************************)
EXTENDS Migrate, SequenceTheorems, TLAPS

USE MigrateAssumption

\* The inductive invariant.  A run that is at a file has every earlier file
\* behind it; an open transaction is about a file that is not recorded, and no
\* two are about the same one.  So an open transaction is about the first file
\* that is missing.
MigrateInv ==
    /\ MigrateTypeOK
    /\ SchemaIsPrefix
    /\ SuccessMeansApplied
    /\ \A r \in Runner : applied[r] \subseteq recorded
    /\ \A r \in Runner : 1..(next[r] - 1) \subseteq recorded
    /\ \A r \in Runner : at[r] = "commit" => next[r] \notin recorded
    /\ \A q, r \in Runner :
         at[q] = "commit" /\ at[r] = "commit" /\ next[q] = next[r] => q = r

LEMMA EffectType ==
    ASSUME MigrateTypeOK, NEW r \in Runner, at[r] = "commit", TakesEffect(r)
    PROVE  ran' \in Seq(1..files) /\ recorded' \subseteq 1..files
<1>1. next[r] \in 1..files
  BY DEF MigrateTypeOK
<1>2. ran \in Seq(1..files) /\ recorded \subseteq 1..files
  BY DEF MigrateTypeOK
<1>3. QED
  BY <1>1, <1>2, AppendProperties DEF TakesEffect

LEMMA MigrateTypeStep ==
    MigrateTypeOK /\ [MigrateNext]_migrateVars => MigrateTypeOK'
<1> SUFFICES ASSUME MigrateTypeOK, [MigrateNext]_migrateVars
             PROVE  MigrateTypeOK'
  OBVIOUS
<1> USE DEF MigrateTypeOK, Place, Ended, Goes
<1>1. CASE FileAdded
  <2>1. ran' \in Seq(1..files')
    BY <1>1 DEF FileAdded
  <2>2. QED
    BY <1>1, <2>1 DEF FileAdded
<1>2. CASE UNCHANGED migrateVars
  BY <1>2 DEF migrateVars
<1>3. ASSUME NEW r \in Runner, RunStep(r) PROVE MigrateTypeOK'
  <2>1. CASE RunsScript(r)
    BY <2>1 DEF RunsScript
  <2>2. CASE Connects(r)
    BY <2>2 DEF Connects
  <2>4. CASE ReadsApplied(r)
    <3>1. recorded \in SUBSET Nat /\ next[r] <= files + 1
      OBVIOUS
    <3>2. applied' \in [Runner -> SUBSET Nat] /\ list' \in [Runner -> 0..files]
      BY <2>4, <3>1 DEF ReadsApplied
    <3>3. QED
      BY <2>4, <3>1, <3>2 DEF ReadsApplied
  <2>5. CASE Skips(r)
    BY <2>5 DEF Skips
  <2>6. CASE Executes(r)
    BY <2>6 DEF Executes, Pending
  <2>7. CASE Commits(r)
    <3>1. next[r] \in 1..list[r] /\ next[r] \in 1..files /\ list[r] \in 0..files
      BY <2>7 DEF Commits
    <3>2. ran' \in Seq(1..files) /\ recorded' \subseteq 1..files
      BY <2>7, EffectType DEF Commits
    <3>3. next' \in [Runner -> 1..(files + 1)]
      BY <2>7, <3>1 DEF Commits
    <3>4. QED
      BY <2>7, <3>1, <3>2, <3>3 DEF Commits
  <2>8. CASE Succeeds(r)
    BY <2>8 DEF Succeeds, Exits
  <2>9. CASE Fails(r)
    <3>1. ran' \in Seq(1..files) /\ recorded' \subseteq 1..files
      BY <2>9, EffectType DEF Fails
    <3>2. QED
      BY <2>9, <3>1 DEF Fails, Exits
  <2>10. QED
    BY <1>3, <2>1, <2>2, <2>4, <2>5, <2>6, <2>7, <2>8, <2>9 DEF RunStep
<1>4. QED
  BY <1>1, <1>2, <1>3 DEF MigrateNext

LEMMA MigrateInvInit == MigrateInit => MigrateInv
<1> SUFFICES ASSUME MigrateInit
             PROVE  MigrateInv
  OBVIOUS
<1>1. ran \in Seq(1..files) /\ Len(ran) = 0
  BY EmptySeq DEF MigrateInit
<1>2. at \in [Runner -> Place]
  BY DEF MigrateInit, Place
<1>3. applied \in [Runner -> SUBSET Nat] /\ list \in [Runner -> 0..files]
  BY DEF MigrateInit
<1>4. next \in [Runner -> 1..(files + 1)]
  BY DEF MigrateInit
<1>5. MigrateTypeOK
  BY <1>1, <1>2, <1>3, <1>4 DEF MigrateInit, MigrateTypeOK
<1>6. SchemaIsPrefix
  BY <1>1 DEF MigrateInit, SchemaIsPrefix
<1>7. QED
  BY <1>5, <1>6 DEF MigrateInit, MigrateInv, SuccessMeansApplied

\* An open transaction is about the first file that is missing.
LEMMA OpenIsFirstMissing ==
    ASSUME MigrateInv, NEW r \in Runner, at[r] = "commit"
    PROVE  next[r] = Len(ran) + 1 /\ next[r] \in 1..files
<1>1. next[r] \in 1..files /\ Len(ran) \in Nat
  BY DEF MigrateInv, MigrateTypeOK
<1>2. next[r] \notin 1..Len(ran) /\ 1..(next[r] - 1) \subseteq 1..Len(ran)
  BY DEF MigrateInv, SchemaIsPrefix
<1>3. Len(ran) + 1 \notin 1..(next[r] - 1)
  BY <1>1, <1>2
<1>4. QED
  BY <1>1, <1>2, <1>3

LEMMA EffectKeepsPrefix ==
    ASSUME MigrateInv, NEW r \in Runner, at[r] = "commit", TakesEffect(r)
    PROVE  SchemaIsPrefix'
<1>1. ran \in Seq(1..files) /\ next[r] = Len(ran) + 1 /\ next[r] \in 1..files
  BY OpenIsFirstMissing DEF MigrateInv, MigrateTypeOK
<1>2. recorded = 1..Len(ran) /\ \A i \in 1..Len(ran) : ran[i] = i
  BY DEF MigrateInv, SchemaIsPrefix
<1>3. Len(ran') = Len(ran) + 1 /\ \A i \in 1..Len(ran') : ran'[i] = i
  BY <1>1, <1>2, AppendProperties DEF TakesEffect
<1>4. QED
  BY <1>1, <1>2, <1>3 DEF TakesEffect, SchemaIsPrefix

\* What is left of the invariant to show when a run ends.
LEMMA ExitKeepsInv ==
    ASSUME MigrateInv, MigrateTypeOK', SchemaIsPrefix', NEW r \in Runner,
           NEW status \in {"ok", "failed"}, Exits(r, status),
           recorded \subseteq recorded',
           \A q \in Runner \ {r} : list'[q] = list[q],
           \A q \in Runner \ {r} : at[q] = "commit" => next[q] \notin recorded',
           status = "ok" => 1..list'[r] \subseteq recorded'
    PROVE  MigrateInv'
<1>1. /\ at \in [Runner -> Place] /\ next \in [Runner -> 1..(files + 1)]
      /\ applied \in [Runner -> SUBSET Nat]
  BY DEF MigrateInv, MigrateTypeOK
<1>2. at'[r] = status /\ next'[r] = 1 /\ applied'[r] = {}
  BY <1>1 DEF Exits
<1>3. \A q \in Runner \ {r} : at'[q] = at[q] /\ next'[q] = next[q] /\ applied'[q] = applied[q]
  BY <1>1 DEF Exits
<1>4. SuccessMeansApplied'
  <2> SUFFICES ASSUME NEW q \in Runner, at'[q] = "ok"
               PROVE  1..list'[q] \subseteq recorded'
    BY DEF SuccessMeansApplied
  <2>1. CASE q = r
    BY <2>1, <1>2
  <2>2. CASE q # r
    <3>1. at[q] = "ok" /\ list'[q] = list[q]
      BY <2>2, <1>3
    <3>2. 1..list[q] \subseteq recorded
      BY <3>1 DEF MigrateInv, SuccessMeansApplied
    <3>3. QED
      BY <3>1, <3>2
  <2>3. QED
    BY <2>1, <2>2
<1>5. \A q \in Runner : applied'[q] \subseteq recorded'
  BY <1>2, <1>3 DEF MigrateInv
<1>6. \A q \in Runner : 1..(next'[q] - 1) \subseteq recorded'
  <2> SUFFICES ASSUME NEW q \in Runner
               PROVE  1..(next'[q] - 1) \subseteq recorded'
    OBVIOUS
  <2>1. CASE q = r
    BY <2>1, <1>2
  <2>2. CASE q # r
    BY <2>2, <1>3 DEF MigrateInv
  <2>3. QED
    BY <2>1, <2>2
<1>7. \A q \in Runner : at'[q] = "commit" => next'[q] \notin recorded' /\ q # r /\ at[q] = "commit"
  BY <1>2, <1>3
<1>8. \A p, q \in Runner :
        at'[p] = "commit" /\ at'[q] = "commit" /\ next'[p] = next'[q] => p = q
  BY <1>3, <1>7 DEF MigrateInv
<1>9. QED
  BY <1>4, <1>5, <1>6, <1>7, <1>8 DEF MigrateInv

LEMMA MigrateInvStep == MigrateInv /\ [MigrateNext]_migrateVars => MigrateInv'
<1> SUFFICES ASSUME MigrateInv, [MigrateNext]_migrateVars
             PROVE  MigrateInv'
  OBVIOUS
<1>1. MigrateTypeOK /\ MigrateTypeOK'
  BY MigrateTypeStep DEF MigrateInv
<1> USE DEF MigrateInv, SuccessMeansApplied
<1>2. CASE FileAdded
  BY <1>1, <1>2 DEF FileAdded, SchemaIsPrefix
<1>3. CASE UNCHANGED migrateVars
  BY <1>1, <1>3 DEF migrateVars, SchemaIsPrefix
<1>4. ASSUME NEW r \in Runner, RunStep(r) PROVE MigrateInv'
  <2> USE DEF MigrateTypeOK, Ended, Goes
  <2>1. CASE RunsScript(r)
    BY <1>1, <2>1 DEF RunsScript, SchemaIsPrefix
  <2>2. CASE Connects(r)
    BY <1>1, <2>2 DEF Connects, SchemaIsPrefix
  <2>3. CASE ReadsApplied(r)
    BY <1>1, <2>3 DEF ReadsApplied, SchemaIsPrefix
  <2>4. CASE Skips(r)
    <3>1. next[r] \in Nat \ {0} /\ next[r] \in recorded
      BY <1>1, <2>4 DEF Skips
    <3>2. 1..(next'[r] - 1) \subseteq recorded
      BY <1>1, <2>4, <3>1 DEF Skips
    <3>3. \A q \in Runner \ {r} : next'[q] = next[q]
      BY <1>1, <2>4 DEF Skips
    <3>4. UNCHANGED <<at, applied, list, recorded, ran>> /\ at[r] = "files"
      BY <2>4 DEF Skips
    <3>5. SchemaIsPrefix'
      BY <3>4 DEF SchemaIsPrefix
    <3>6. \A q \in Runner : 1..(next'[q] - 1) \subseteq recorded'
      BY <3>2, <3>3, <3>4
    <3>7. \A q \in Runner : at'[q] = "commit" => q # r /\ at[q] = "commit" /\ next'[q] = next[q]
      BY <3>3, <3>4
    <3>8. /\ \A q \in Runner : at'[q] = "commit" => next'[q] \notin recorded'
          /\ \A p, q \in Runner :
               at'[p] = "commit" /\ at'[q] = "commit" /\ next'[p] = next'[q] => p = q
      BY <3>4, <3>7
    <3>9. SuccessMeansApplied' /\ \A q \in Runner : applied'[q] \subseteq recorded'
      BY <3>4
    <3>10. QED
      BY <1>1, <3>5, <3>6, <3>8, <3>9
  <2>5. CASE Executes(r)
    <3>1. UNCHANGED <<applied, list, next, recorded, ran>> /\ SchemaIsPrefix'
      BY <2>5 DEF Executes, SchemaIsPrefix
    <3>2. at'[r] = "commit" /\ \A q \in Runner \ {r} : at'[q] = at[q]
      BY <1>1, <2>5 DEF Executes, Pending
    <3>3. next[r] \notin recorded /\ \A q \in Runner \ {r} : at[q] = "commit" => next[q] # next[r]
      BY <1>1, <2>5 DEF Executes, Locked
    <3>4. \A q, s \in Runner :
            at'[q] = "commit" /\ at'[s] = "commit" /\ next'[q] = next'[s] => q = s
      BY <3>1, <3>2, <3>3
    <3>5. \A q \in Runner : at'[q] = "commit" => next'[q] \notin recorded'
      BY <3>1, <3>2, <3>3
    <3>6. QED
      BY <1>1, <3>1, <3>2, <3>4, <3>5
  <2>6. CASE Commits(r)
    <3>1. at[r] = "commit" /\ TakesEffect(r)
      BY <2>6 DEF Commits
    <3>2. SchemaIsPrefix'
      BY <3>1, EffectKeepsPrefix
    <3>3. \A q \in Runner : at[q] = "commit" /\ q # r => next[q] # next[r]
      BY <3>1
    <3>4. recorded' = recorded \cup {next[r]} /\ next[r] \in Nat \ {0}
      BY <1>1, <3>1 DEF TakesEffect
    <3>5. \A q \in Runner \ {r} : at'[q] = at[q] /\ next'[q] = next[q]
      BY <1>1, <2>6 DEF Commits
    <3>6. at'[r] = "files" /\ next'[r] = next[r] + 1
      BY <1>1, <2>6 DEF Commits
    <3>7. 1..(next'[r] - 1) \subseteq recorded'
      BY <3>4, <3>6
    <3>8. applied' = applied /\ list' = list
      BY <2>6 DEF Commits
    <3>9. \A q \in Runner : 1..(next'[q] - 1) \subseteq recorded'
      BY <3>4, <3>5, <3>7
    <3>10. \A q \in Runner : at'[q] = "commit" => next'[q] \notin recorded'
      BY <3>3, <3>4, <3>5, <3>6
    <3>11. \A p, q \in Runner :
             at'[p] = "commit" /\ at'[q] = "commit" /\ next'[p] = next'[q] => p = q
      BY <3>5, <3>6
    <3>12. SuccessMeansApplied' /\ \A q \in Runner : applied'[q] \subseteq recorded'
      BY <3>4, <3>5, <3>6, <3>8
    <3>13. QED
      BY <1>1, <3>2, <3>9, <3>10, <3>11, <3>12
  <2>7. CASE Succeeds(r)
    <3>1. UNCHANGED <<recorded, ran, list>> /\ SchemaIsPrefix' /\ Exits(r, "ok")
      BY <2>7 DEF Succeeds, SchemaIsPrefix
    <3>2. 1..list[r] \subseteq 1..(next[r] - 1)
      BY <1>1, <2>7 DEF Succeeds
    <3>3. 1..list'[r] \subseteq recorded'
      BY <3>1, <3>2
    <3>4. QED
      BY <1>1, <3>1, <3>3, ExitKeepsInv
  <2>8. CASE Fails(r)
    <3>1. Exits(r, "failed") /\ \A q \in Runner \ {r} : list'[q] = list[q]
      BY <1>1, <2>8 DEF Fails
    <3>2. CASE UNCHANGED <<recorded, ran>>
      <4>1. SchemaIsPrefix'
        BY <3>2 DEF SchemaIsPrefix
      <4>2. QED
        BY <1>1, <3>1, <3>2, <4>1, ExitKeepsInv
    <3>3. CASE at[r] = "commit" /\ TakesEffect(r)
      <4>1. recorded' = recorded \cup {next[r]} /\ SchemaIsPrefix'
        BY <3>3, EffectKeepsPrefix DEF TakesEffect
      <4>2. \A q \in Runner \ {r} : at[q] = "commit" => next[q] # next[r]
        BY <3>3
      <4>3. \A q \in Runner \ {r} : at[q] = "commit" => next[q] \notin recorded'
        BY <4>1, <4>2
      <4>4. QED
        BY <1>1, <3>1, <4>1, <4>3, ExitKeepsInv
    <3>4. QED
      BY <2>8, <3>2, <3>3 DEF Fails
  <2>9. QED
    BY <1>4, <2>1, <2>2, <2>3, <2>4, <2>5, <2>6, <2>7, <2>8 DEF RunStep
<1>5. QED
  BY <1>2, <1>3, <1>4 DEF MigrateNext

\* The inductive invariant holds in every state of every execution of
\* migrate.py.
THEOREM MigrateInvariant == MigrateSpec => []MigrateInv
  BY MigrateInvInit, MigrateInvStep, PTL DEF MigrateSpec

\* Type correctness of the runs of migrate.py.
THEOREM MigrateTypeCorrect == MigrateSpec => []MigrateTypeOK
<1>1. MigrateInv => MigrateTypeOK
  BY DEF MigrateInv
<1>2. QED
  BY <1>1, MigrateInvariant, PTL

\* Any number of overlapping, failing and repeated runs of migrate.py apply
\* the files in order and each exactly once.
THEOREM MigrationsInOrder == MigrateSpec => []SchemaIsPrefix
<1>1. MigrateInv => SchemaIsPrefix
  BY DEF MigrateInv
<1>2. QED
  BY <1>1, MigrateInvariant, PTL

\* The exit status 0 of migrate.py can be relied on.
THEOREM ExitStatusIsHonest == MigrateSpec => []SuccessMeansApplied
<1>1. MigrateInv => SuccessMeansApplied
  BY DEF MigrateInv
<1>2. QED
  BY <1>1, MigrateInvariant, PTL

============================================================================
