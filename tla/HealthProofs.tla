---------------------------- MODULE HealthProofs -----------------------------
(***************************************************************************)
(* A healthy report vouches for the cache, for any hashes, block ranges,   *)
(* failures and threshold: what the reports add to HybridSync leaves its   *)
(* behaviours as they are, so its invariant still holds, and a report is   *)
(* healthy only when the mark is less than the threshold behind the block  *)
(* it rests on.                                                            *)
(***************************************************************************)
EXTENDS Health, HybridSyncProofs

\* Every step of the composition is one of the cache, or leaves it alone.
LEMMA HealthStep == [HealthNext]_healthVars => [Next]_vars
  <1> SUFFICES ASSUME [HealthNext]_healthVars PROVE [Next]_vars
    OBVIOUS
  <1>1. CASE CacheStep
    BY <1>1, Zenon DEF CacheStep
  <1>2. CASE BlockEvent
    BY <1>2 DEF BlockEvent
  <1>3. CASE ConnectionLost
    BY <1>3 DEF ConnectionLost
  <1>4. CASE UNCHANGED healthVars
    BY <1>4 DEF healthVars
  <1> QED
    BY <1>1, <1>2, <1>3, <1>4 DEF HealthNext

\* The cache of a service that reports on itself, and loses its connection, is
\* the cache of HybridSync.
THEOREM HealthImplementsSync == HealthSpec => Spec
  BY HealthStep, PTL DEF HealthSpec, Spec

\* Its inductive invariant therefore holds of the composition too.
THEOREM HealthInvariance == HealthSpec => []IInv
  BY HealthImplementsSync, Invariance, PTL

\* The provider only ever reports a block that exists.
LEMMA CurrentBlockStep ==
    ASSUME IInv, HealthTypeOK, [HealthNext]_healthVars
    PROVE  HealthTypeOK'
  <1>1. head \in Block /\ head \in Nat /\ currentBlock \in Block /\ losses \in Nat
        /\ currentBlock \in Nat
    BY DEF IInv, TypeOK, HealthTypeOK, Block
  <1>2. CASE CacheStep
    <2>1. currentBlock' \in {currentBlock, head, 0} /\ losses' = losses
      BY <1>2, Zenon DEF CacheStep
    <2>2. connected' \in BOOLEAN
      BY <1>2 DEF CacheStep
    <2> QED
      BY <1>1, <2>1, <2>2, HybridSyncAssumption DEF HealthTypeOK, Block
  <1>3. CASE BlockEvent
    BY <1>1, <1>3, HybridSyncAssumption DEF BlockEvent, HealthTypeOK, Block
  <1>4. CASE ConnectionLost
    <2>1. connected' = FALSE /\ losses' = losses + 1 /\ currentBlock' = currentBlock
      BY <1>4 DEF ConnectionLost
    <2>2. connected' \in BOOLEAN
      BY <2>1, Zenon
    <2> QED
      BY <1>1, <2>1, <2>2 DEF HealthTypeOK, Block
  <1>5. CASE UNCHANGED healthVars
    BY <1>5 DEF healthVars, report, HealthTypeOK, Block
  <1> QED
    BY <1>2, <1>3, <1>4, <1>5 DEF HealthNext

\* The variables of the reports have their types.
THEOREM HealthTypeCorrect == HealthSpec => []HealthTypeOK
  <1>1. Init /\ HealthInit => HealthTypeOK
    BY HybridSyncAssumption DEF HealthInit, HealthTypeOK, Block
  <1>2. IInv /\ HealthTypeOK /\ [HealthNext]_healthVars => HealthTypeOK'
    BY CurrentBlockStep
  <1> QED
    BY <1>1, <1>2, HealthInvariance, PTL DEF HealthSpec

\* A healthy report is less than the threshold ahead of the mark, whichever of
\* the two reports it is.
LEMMA HealthyBound ==
    ASSUME IInv, HealthTypeOK, NEW b \in Block,
           \/ b = currentBlock /\ Check = "healthy"
           \/ HealthCheck(b)
    PROVE  b < lastSyncedBlock + HealthyLag
  <1>1. currentBlock \in Nat /\ lastSyncedBlock \in Nat /\ HealthyLag \in Nat \ {0}
    BY HealthAssumption DEF IInv, TypeOK, HealthTypeOK, Block
  <1>2. CASE b = currentBlock /\ Check = "healthy"
    <2>1. GetStats.blocksBehind < HealthyLag
      BY <1>2 DEF Check
    <2>2. (IF currentBlock > lastSyncedBlock
           THEN currentBlock - lastSyncedBlock ELSE 0) < HealthyLag
      BY <2>1 DEF GetStats
    <2> QED
      BY <1>1, <1>2, <2>2
  <1>3. CASE HealthCheck(b)
    BY <1>3 DEF HealthCheck
  <1> QED
    BY <1>2, <1>3

\* Whoever asks, and whatever block number the answer rests on: a report that
\* says healthy vouches for every revocation up to the threshold below it.
THEOREM HealthyVouches == HealthSpec => []HealthyMeansSettled
  <1>1. ASSUME IInv, HealthTypeOK PROVE HealthyMeansSettled
    <2> SUFFICES ASSUME NEW b \in Block,
                        \/ b = currentBlock /\ Check = "healthy"
                        \/ b <= head /\ HealthCheck(b),
                        NEW h \in Hash, minedAt[h] > StartBlock,
                        minedAt[h] + HealthyLag <= b + 1
                 PROVE  Accounted(h)
      BY DEF HealthyMeansSettled
    <2>1. b < lastSyncedBlock + HealthyLag
      BY <1>1, HealthyBound
    <2>2. /\ b \in Nat /\ lastSyncedBlock \in Nat /\ minedAt[h] \in Nat
          /\ HealthyLag \in Nat /\ StartBlock \in Nat
      BY <1>1, HealthAssumption, HybridSyncAssumption DEF IInv, TypeOK, Block
    <2>3. minedAt[h] \in StartBlock + 1 .. lastSyncedBlock
      BY <2>1, <2>2
    <2> QED
      BY <1>1, <2>3 DEF IInv, NoGapBelowMark, Settled
  <1> QED
    BY <1>1, HealthInvariance, HealthTypeCorrect, PTL
=============================================================================
