-------------------------- MODULE EnvironmentProofs --------------------------
(***************************************************************************)
(* What validate() secures of an environment, and that the first scan then *)
(* does its work where its numbers are numbers: the steps of Environment   *)
(* keep ServiceInv, for any environment, start block, batch size, range    *)
(* and height of the chain.  BootstrapProofs has the theorems.             *)
(***************************************************************************)
EXTENDS Environment, TLAPS

-----------------------------------------------------------------------------
\* Numbers and environments

\* On numbers the operators of JavaScript are those of arithmetic.
LEMMA Numbers ==
    ASSUME NEW a \in Int, NEW b \in Int
    PROVE  /\ Number(a)
           /\ Less(a, b) <=> a < b
           /\ Leq(a, b) <=> a <= b
           /\ Plus(a, b) = a + b
           /\ MathMin(a, b) = IF a <= b THEN a ELSE b
           /\ MathMax(a, b) = IF a >= b THEN a ELSE b
  BY EnvironmentAssumption DEF Number, Less, Leq, Plus, MathMin, MathMax

\* With NaN every comparison is false and every sum is NaN.
LEMMA NotNumbers ==
    ASSUME NEW a, NEW b, a = NaN \/ b = NaN
    PROVE  /\ ~Less(a, b) /\ ~Leq(a, b)
           /\ Plus(a, b) = NaN /\ MathMin(a, b) = NaN /\ MathMax(a, b) = NaN
  BY DEF Number, Less, Leq, Plus, MathMin, MathMax

\* What is read from an environment stays what it is while nobody writes to it.
LEMMA SameEnvironment ==
    ASSUME env' = env
    PROVE  /\ IsEnvironment(env)' = IsEnvironment(env)
           /\ Valid' = Valid
           /\ UNCHANGED <<ValidatedNetwork, ChosenNetwork, StartBlock, FirstBlock,
                          BatchSize, LogsMaxRange, ScanNumbers>>
  BY DEF IsEnvironment, Valid, ValidatedNetwork, ChosenNetwork, StartBlock,
         FirstBlock, BatchSize, LogsMaxRange, ScanNumbers, IntervalMinutes, Or

\* A variable that is read as a number is a number, or NaN.
LEMMA NumericRead ==
    ASSUME IsEnvironment(env), NEW n \in Numeric, NEW d \in Int
    PROVE  Or(n, d) \in Int \cup {NaN}
  BY DEF IsEnvironment, Or

\* The numbers of the scan in an environment that passes validate().
LEMMA ValidNumbers ==
    ASSUME IsEnvironment(env), Valid
    PROVE  /\ ChosenNetwork \in Network
           /\ StartBlock \in Int \cup {NaN}
           /\ Number(StartBlock) =>
                 FirstBlock = IF 0 >= StartBlock THEN 0 ELSE StartBlock
           /\ ~Number(StartBlock) => FirstBlock = NaN
           /\ BatchSize \in Int \cup {NaN}
           /\ Number(BatchSize) => BatchSize >= 1
           /\ Number(BatchSize) => LogsMaxRange \in Int /\ LogsMaxRange >= 1
           /\ \/ env[RpcUrl[ChosenNetwork]] # "alchemy"
              \/ Less(0, Or("LOGS_MAX_RANGE", 0))
              \/ LogsMaxRange = 10
  <1>1. ChosenNetwork \in Network
    BY DEF ChosenNetwork, Network
  <1>2. StartBlock \in Int \cup {NaN}
    <2>1. StartBlockName[ChosenNetwork] \in Numeric
      BY <1>1 DEF Numeric
    <2>2. Or(StartBlockName[ChosenNetwork], 0) \in Int \cup {NaN}
      BY <2>1, NumericRead
    <2>3. QED
      BY <2>2 DEF StartBlock
  <1>3. /\ Number(StartBlock) =>
              FirstBlock = IF 0 >= StartBlock THEN 0 ELSE StartBlock
        /\ ~Number(StartBlock) => FirstBlock = NaN
    <2>1. ASSUME Number(StartBlock)
          PROVE  FirstBlock = IF 0 >= StartBlock THEN 0 ELSE StartBlock
      <3>1. StartBlock \in Int
        BY <1>2, <2>1 DEF Number
      <3>2. QED
        BY <3>1, Numbers DEF FirstBlock
    <2>2. ASSUME ~Number(StartBlock) PROVE FirstBlock = NaN
      <3>1. StartBlock = NaN
        BY <2>2 DEF Number
      <3>2. MathMax(0, StartBlock) = NaN
        BY <3>1, NotNumbers
      <3>3. QED
        BY <3>2 DEF FirstBlock
    <2>3. QED
      BY <2>1, <2>2
  <1>4. BatchSize \in Int \cup {NaN}
    BY NumericRead DEF BatchSize, Numeric
  <1>5. Number(BatchSize) => BatchSize \in Int /\ BatchSize >= 1
    <2> SUFFICES ASSUME Number(BatchSize) PROVE BatchSize \in Int /\ BatchSize >= 1
      OBVIOUS
    <2>1. BatchSize \in Int
      BY <1>4 DEF Number
    <2>2. ~Less(BatchSize, 1)
      BY DEF Valid
    <2>3. QED
      BY <2>1, <2>2, Numbers
  <1>6. Or("LOGS_MAX_RANGE", 0) \in Int \cup {NaN}
    BY NumericRead DEF Numeric
  <1>7. CASE Less(0, Or("LOGS_MAX_RANGE", 0))
    <2>1. LogsMaxRange = Or("LOGS_MAX_RANGE", 0)
      BY <1>7 DEF LogsMaxRange
    <2>2. Or("LOGS_MAX_RANGE", 0) \in Int /\ Or("LOGS_MAX_RANGE", 0) >= 1
      BY <1>6, <1>7 DEF Less, Number
    <2>3. QED
      BY <1>1, <1>2, <1>3, <1>4, <1>5, <1>7, <2>1, <2>2
  <1>8. CASE ~Less(0, Or("LOGS_MAX_RANGE", 0))
    <2>1. LogsMaxRange = IF env[RpcUrl[ChosenNetwork]] = "alchemy" THEN 10
                         ELSE BatchSize
      BY <1>8 DEF LogsMaxRange
    <2>2. QED
      BY <1>1, <1>2, <1>3, <1>4, <1>5, <2>1
  <1>9. QED
    BY <1>7, <1>8

\* Its network: validate() and the service agree on it, unless it is in capitals.
LEMMA ValidNetwork ==
    ASSUME Valid, env["NETWORK"] # "MAINNET"
    PROVE  /\ ChosenNetwork = ValidatedNetwork
           /\ Or("NETWORK", "sepolia") \in {"sepolia", "mainnet"}
           /\ env[RpcUrl[ChosenNetwork]] # Unset
           /\ env[Address[ChosenNetwork]] # Unset
  <1>1. /\ ValidatedNetwork \in Network
        /\ env[RpcUrl[ValidatedNetwork]] # Unset
        /\ env[Address[ValidatedNetwork]] # Unset
    BY DEF Valid
  <1>2. Or("NETWORK", "sepolia") # "MAINNET"
    BY DEF Or
  <1>3. Or("NETWORK", "sepolia") \in {"sepolia", "mainnet"}
    BY <1>1, <1>2 DEF ValidatedNetwork, Network
  <1>4. ChosenNetwork = ValidatedNetwork
    BY <1>2, <1>3 DEF ValidatedNetwork, ChosenNetwork
  <1>5. QED
    BY <1>1, <1>3, <1>4

-----------------------------------------------------------------------------
\* The steps of the service

\* The service starts from any environment, and has done nothing.
LEMMA ServiceInit == EnvironmentInit => ServiceInv
  <1> SUFFICES ASSUME EnvironmentInit PROVE ServiceInv
    OBVIOUS
  <1>1. IsEnvironment(env) /\ Head \in Nat
    BY ChoiceAssumption, EnvironmentAssumption DEF EnvironmentInit
  <1>2. routes \in BOOLEAN /\ listening \in BOOLEAN
    BY Zenon DEF EnvironmentInit
  <1>3. EnvironmentTypeOK
    BY <1>1, <1>2 DEF EnvironmentInit, EnvironmentTypeOK
  <1>4. QED
    BY <1>3 DEF EnvironmentInit, ServiceInv

\* What ServiceInv takes from the environment, where that stays what it is.
LEMMA Unaltered ==
    ASSUME ServiceInv, env' = env
    PROVE  /\ IsEnvironment(env) /\ IsEnvironment(env)'
           /\ Valid' = Valid /\ Head \in Nat
           /\ UNCHANGED <<ValidatedNetwork, ChosenNetwork, StartBlock, FirstBlock,
                          BatchSize, LogsMaxRange, ScanNumbers>>
  BY SameEnvironment, EnvironmentAssumption DEF ServiceInv, EnvironmentTypeOK

\* The outer loop goes on after the blocks up to b - 1, or everything is queried.
LEMMA OuterLoopKeepsInv ==
    ASSUME ServiceInv, Valid, NEW b \in Nat, OuterLoop(b),
           bootPc \in {"listening", "scanning"}, Number(StartBlock), FirstBlock < b,
           queried = FirstBlock + 1 .. b - 1,
           bootPc = "scanning" => Number(BatchSize) /\ b <= Head + 1,
           bootPc = "listening" => b = FirstBlock + 1,
           UNCHANGED <<env, routes, listening, networkConfig, queried, widest>>
    PROVE  ServiceInv'
  <1>1. /\ IsEnvironment(env) /\ IsEnvironment(env)' /\ Valid' /\ Head \in Nat
        /\ UNCHANGED <<ValidatedNetwork, ChosenNetwork, StartBlock, FirstBlock,
                       BatchSize, LogsMaxRange, ScanNumbers>>
    BY Unaltered
  <1>2. /\ StartBlock \in Int /\ FirstBlock \in Nat
        /\ BatchSize \in Int \cup {NaN} /\ (Number(BatchSize) => BatchSize >= 1)
    BY <1>1, ValidNumbers DEF Number
  <1>3. /\ routes' \in BOOLEAN /\ listening' \in BOOLEAN
        /\ networkConfig' \in Network \cup {Unset}
        /\ queried' \subseteq 1 .. Head /\ widest' \in 0 .. Head
        /\ lastSyncedBlock \in Nat \cup {NaN}
        /\ outerToBlock \in 0 .. Head \cup {NaN} /\ innerFrom \in 0 .. Head + 1
    BY DEF ServiceInv, EnvironmentTypeOK
  <1>4. /\ networkConfig' \notin {Unset, ValidatedNetwork'} => env'["NETWORK"] = "MAINNET"
        /\ widest' = 0 \/ Leq(widest', LogsMaxRange')
    BY <1>1 DEF ServiceInv
  <1>5. fromBlock' = b
    BY DEF OuterLoop
  <1>6. CASE b <= Head
    <2>1. Leq(b, Head)
      BY <1>1, <1>6, Numbers
    <2>2. /\ outerToBlock' = MathMin(Plus(Plus(b, BatchSize), -1), Head)
          /\ innerFrom' = b /\ bootPc' = "scanning" /\ UNCHANGED lastSyncedBlock
      BY <2>1 DEF OuterLoop
    <2>3. CASE Number(BatchSize)
      <3> DEFINE to == b + BatchSize - 1
      <3>1. BatchSize \in Int /\ BatchSize >= 1
        BY <1>2, <2>3 DEF Number
      <3>2. Plus(Plus(b, BatchSize), -1) = to /\ to \in Int /\ to >= b
        BY <3>1, Numbers
      <3> HIDE DEF to
      <3>3. outerToBlock' = IF to <= Head THEN to ELSE Head
        BY <1>1, <2>2, <3>2, Numbers
      <3>4. outerToBlock' \in Nat /\ outerToBlock' \in 0 .. Head
            /\ innerFrom' <= outerToBlock' + 1
        BY <1>1, <1>6, <2>2, <3>2, <3>3
      <3>5. EnvironmentTypeOK'
        BY <1>1, <1>3, <1>5, <1>6, <2>2, <3>4 DEF EnvironmentTypeOK
      <3>6. QED
        BY <1>1, <1>4, <2>2, <2>3, <3>4, <3>5 DEF ServiceInv
    <2>4. CASE ~Number(BatchSize)
      <3>1. outerToBlock' = NaN
        BY <2>2, <2>4, NotNumbers DEF Number
      <3>2. bootPc = "listening" /\ queried = {}
        BY <2>4 DEF ServiceInv
      <3>3. EnvironmentTypeOK'
        BY <1>1, <1>3, <1>5, <1>6, <2>2, <3>1 DEF EnvironmentTypeOK
      <3>4. QED
        BY <1>1, <1>4, <2>2, <2>4, <3>1, <3>2, <3>3 DEF ServiceInv
    <2>5. QED
      BY <2>3, <2>4
  <1>7. CASE b > Head
    <2>1. ~Leq(b, Head)
      BY <1>1, <1>7, Numbers
    <2>2. /\ bootPc' = "synced" /\ lastSyncedBlock' = Head
          /\ UNCHANGED <<outerToBlock, innerFrom>>
      BY <2>1 DEF OuterLoop
    <2>3. queried' = IF ScanNumbers' THEN FirstBlock' + 1 .. Head ELSE {}
      <3>1. CASE bootPc = "listening"
        <4>1. queried = {} /\ FirstBlock + 1 .. Head = {}
          BY <1>1, <1>2, <1>7, <3>1 DEF ServiceInv
        <4>2. QED
          BY <1>1, <4>1
      <3>2. CASE bootPc = "scanning"
        <4>1. b - 1 = Head /\ ScanNumbers
          BY <1>1, <1>7, <3>2 DEF ScanNumbers
        <4>2. QED
          BY <1>1, <4>1
      <3>3. QED
        BY <3>1, <3>2
    <2>4. EnvironmentTypeOK'
      BY <1>1, <1>3, <1>5, <2>2 DEF EnvironmentTypeOK
    <2>5. QED
      BY <1>1, <1>4, <2>2, <2>3, <2>4 DEF ServiceInv
  <1>8. QED
    BY <1>1, <1>6, <1>7

\* Without a number to go on from, the outer loop ends at once.
LEMMA NoOuterLoop ==
    ASSUME ServiceInv, Valid, OuterLoop(NaN),
           bootPc \in {"listening", "scanning"}, ~ScanNumbers, queried = {},
           UNCHANGED <<env, routes, listening, networkConfig, queried, widest>>
    PROVE  ServiceInv'
  <1>1. /\ IsEnvironment(env)' /\ Valid' /\ Head \in Nat
        /\ UNCHANGED <<ValidatedNetwork, LogsMaxRange, ScanNumbers>>
    BY Unaltered
  <1>2. ~Leq(NaN, Head)
    BY NotNumbers
  <1>3. /\ fromBlock' = NaN /\ bootPc' = "synced" /\ lastSyncedBlock' = Head
        /\ UNCHANGED <<outerToBlock, innerFrom>>
    BY <1>2 DEF OuterLoop
  <1>4. EnvironmentTypeOK'
    BY <1>1, <1>3 DEF ServiceInv, EnvironmentTypeOK
  <1>5. QED
    BY <1>1, <1>3, <1>4 DEF ServiceInv

\* A chunk is queried: the blocks from innerFrom on, as many as a range may have.
LEMMA ChunkKeepsInv ==
    ASSUME ServiceInv, QueryChunk
    PROVE  ServiceInv'
  <1> DEFINE innerTo == MathMin(Plus(Plus(innerFrom, LogsMaxRange), -1),
                                outerToBlock)
  <1>1. /\ IsEnvironment(env) /\ IsEnvironment(env)' /\ Valid' = Valid
        /\ Head \in Nat
        /\ UNCHANGED <<env, ValidatedNetwork, ChosenNetwork, StartBlock, FirstBlock,
                       BatchSize, LogsMaxRange, ScanNumbers>>
    BY Unaltered DEF QueryChunk
  <1>2. /\ bootPc = "scanning" /\ Valid
        /\ innerFrom \in Nat /\ widest \in 0 .. Head /\ Number(StartBlock)
        /\ FirstBlock < innerFrom /\ queried = FirstBlock + 1 .. innerFrom - 1
        /\ widest = 0 \/ Leq(widest, LogsMaxRange)
        /\ queried \subseteq 1 .. Head
    BY DEF ServiceInv, EnvironmentTypeOK, QueryChunk
  <1>3. Number(BatchSize) /\ outerToBlock \in 0 .. Head
    <2>1. Leq(innerFrom, outerToBlock)
      BY DEF QueryChunk
    <2>2. outerToBlock # NaN
      BY <2>1, NotNumbers
    <2>3. QED
      BY <1>2, <2>2 DEF ServiceInv, EnvironmentTypeOK
  <1>4. /\ LogsMaxRange \in Int /\ LogsMaxRange >= 1
        /\ StartBlock \in Int /\ FirstBlock \in Nat
    BY <1>1, <1>2, <1>3, ValidNumbers DEF Number
  <1>5. innerFrom <= outerToBlock
    BY <1>2, <1>3, Numbers DEF QueryChunk
  <1>6. innerTo = IF innerFrom + LogsMaxRange - 1 <= outerToBlock
                  THEN innerFrom + LogsMaxRange - 1 ELSE outerToBlock
    <2> DEFINE to == innerFrom + LogsMaxRange - 1
    <2>1. Plus(Plus(innerFrom, LogsMaxRange), -1) = to /\ to \in Int
      BY <1>2, <1>4, Numbers
    <2> HIDE DEF to
    <2>2. MathMin(to, outerToBlock) = IF to <= outerToBlock THEN to ELSE outerToBlock
      BY <1>3, <2>1, Numbers
    <2>3. QED
      BY <2>1, <2>2 DEF to
  <1>7. /\ queried' = queried \cup (innerFrom .. innerTo)
        /\ widest' = MathMax(widest, innerTo - innerFrom + 1)
        /\ innerFrom' = Plus(innerTo, 1)
        /\ UNCHANGED <<bootPc, routes, listening, networkConfig, lastSyncedBlock,
                       fromBlock, outerToBlock>>
    BY DEF QueryChunk
  <1> HIDE DEF innerTo
  <1>8. /\ innerTo \in Nat /\ innerFrom <= innerTo /\ innerTo <= outerToBlock
        /\ innerTo - innerFrom + 1 <= LogsMaxRange
    BY <1>2, <1>3, <1>4, <1>5, <1>6
  <1>9. innerFrom' = innerTo + 1
    BY <1>7, <1>8, Numbers
  <1>10. widest' \in 0 .. Head /\ Leq(widest', LogsMaxRange')
    <2> DEFINE length == innerTo - innerFrom + 1
    <2>1. length \in Nat /\ length <= LogsMaxRange /\ length <= Head
      BY <1>1, <1>2, <1>3, <1>4, <1>8
    <2>2. widest' = MathMax(widest, length)
      BY <1>7
    <2> HIDE DEF length
    <2>3. widest' = IF widest >= length THEN widest ELSE length
      <3>1. widest \in Int /\ length \in Int
        BY <1>1, <1>2, <2>1
      <3>2. MathMax(widest, length) = IF widest >= length THEN widest ELSE length
        BY <3>1, Numbers
      <3>3. QED
        BY <2>2, <3>2
    <2>4. widest <= LogsMaxRange
      BY <1>2, <1>4, Numbers
    <2>5. widest' \in 0 .. Head /\ widest' <= LogsMaxRange
      BY <1>1, <1>2, <1>4, <2>1, <2>3, <2>4
    <2>6. QED
      BY <1>1, <1>4, <2>5, Numbers
  <1>11. queried' = FirstBlock' + 1 .. innerFrom' - 1 /\ queried' \subseteq 1 .. Head
    BY <1>1, <1>2, <1>3, <1>4, <1>7, <1>8, <1>9
  <1>12. /\ innerFrom' \in 0 .. Head + 1 /\ FirstBlock' < innerFrom'
         /\ innerFrom' <= outerToBlock' + 1 /\ outerToBlock' \in Nat
    BY <1>1, <1>2, <1>3, <1>4, <1>7, <1>8, <1>9
  <1>13. EnvironmentTypeOK'
    BY <1>1, <1>7, <1>10, <1>11, <1>12 DEF ServiceInv, EnvironmentTypeOK
  <1>14. QED
    BY <1>1, <1>2, <1>3, <1>7, <1>10, <1>11, <1>12, <1>13 DEF ServiceInv

\* Every step of the service keeps the invariant.
LEMMA ServiceStepInv ==
    ASSUME ServiceInv, EnvironmentNext
    PROVE  ServiceInv'
  <1>1. env' = env
    BY DEF EnvironmentNext, Refuse, Create, Connect, BeginScan, QueryChunk,
           NextOuter
  <1>2. /\ IsEnvironment(env) /\ IsEnvironment(env)' /\ Valid' = Valid
        /\ Head \in Nat
        /\ UNCHANGED <<ValidatedNetwork, ChosenNetwork, StartBlock, FirstBlock,
                       BatchSize, LogsMaxRange, ScanNumbers>>
    BY <1>1, Unaltered
  <1>3. CASE Refuse
    <2>1. EnvironmentTypeOK'
      BY <1>2, <1>3 DEF Refuse, ServiceInv, EnvironmentTypeOK, scanVars
    <2>2. QED
      BY <1>2, <1>3, <2>1 DEF Refuse, ServiceInv, scanVars
  <1>4. CASE Create
    <2>1. routes' \in BOOLEAN /\ listening' \in BOOLEAN
      <3>1. HasRestModule \in BOOLEAN /\ (Mode \in {"API", "IOT"}) \in BOOLEAN
        BY SMT DEF HasRestModule
      <3>2. routes' = HasRestModule /\ listening' = (Mode \in {"API", "IOT"})
        BY <1>4 DEF Create
      <3>3. QED
        BY <3>1, <3>2, Zenon
    <2>2. bootPc' = "created" /\ UNCHANGED <<networkConfig, scanVars>>
      BY <1>4 DEF Create
    <2>3. EnvironmentTypeOK'
      BY <1>2, <2>1, <2>2 DEF ServiceInv, EnvironmentTypeOK, scanVars
    <2>4. QED
      BY <1>1, <1>2, <1>4, <2>2, <2>3 DEF Create, ServiceInv, scanVars
  <1>5. CASE Connect
    <2>1. /\ Valid /\ bootPc = "created" /\ queried = {} /\ widest = 0
          /\ networkConfig' = ChosenNetwork
          /\ UNCHANGED <<routes, listening, fromBlock, outerToBlock, innerFrom,
                         queried, widest>>
      BY <1>5 DEF Connect, ServiceInv
    <2>2. ChosenNetwork \in Network /\ FirstBlock \in Nat \cup {NaN}
      BY <1>2, <2>1, ValidNumbers DEF Number
    <2>3. networkConfig' # ValidatedNetwork \/ bootPc' = "initFailed"
             => env["NETWORK"] = "MAINNET"
      BY <1>5, <2>1, ValidNetwork DEF Connect
    <2>4. \/ bootPc' = "initFailed" /\ UNCHANGED lastSyncedBlock
          \/ bootPc' = "listening" /\ lastSyncedBlock' = FirstBlock
      BY <1>5 DEF Connect, FirstBlock
    <2>5. EnvironmentTypeOK'
      BY <1>2, <2>1, <2>2, <2>4 DEF ServiceInv, EnvironmentTypeOK
    <2>6. QED
      BY <1>1, <1>2, <2>1, <2>3, <2>4, <2>5 DEF ServiceInv
  <1>6. CASE BeginScan
    <2>1. /\ Valid /\ bootPc = "listening" /\ queried = {}
          /\ lastSyncedBlock = FirstBlock
          /\ OuterLoop(Plus(lastSyncedBlock, 1))
          /\ UNCHANGED <<env, routes, listening, networkConfig, queried, widest>>
      BY <1>6 DEF BeginScan, ServiceInv
    <2>2. CASE Number(StartBlock)
      <3>1. FirstBlock \in Nat
        BY <1>2, <2>1, <2>2, ValidNumbers DEF Number
      <3>2. OuterLoop(FirstBlock + 1) /\ FirstBlock + 1 \in Nat
            /\ queried = FirstBlock + 1 .. (FirstBlock + 1) - 1
            /\ FirstBlock < FirstBlock + 1
        BY <2>1, <3>1, Numbers
      <3>3. QED
        BY <2>1, <2>2, <3>2, OuterLoopKeepsInv
    <2>3. CASE ~Number(StartBlock)
      <3>1. Plus(lastSyncedBlock, 1) = NaN /\ ~ScanNumbers
        BY <1>2, <2>1, <2>3, ValidNumbers, NotNumbers DEF ScanNumbers
      <3>2. QED
        BY <2>1, <3>1, NoOuterLoop
    <2>4. QED
      BY <2>2, <2>3
  <1>7. CASE QueryChunk
    BY <1>7, ChunkKeepsInv
  <1>8. CASE NextOuter
    <2>1. /\ Valid /\ bootPc = "scanning" /\ Number(StartBlock)
          /\ innerFrom \in 0 .. Head + 1 /\ FirstBlock < innerFrom
          /\ queried = FirstBlock + 1 .. innerFrom - 1
          /\ ~Leq(innerFrom, outerToBlock) /\ OuterLoop(Plus(outerToBlock, 1))
          /\ UNCHANGED <<env, routes, listening, networkConfig, queried, widest>>
      BY <1>8 DEF NextOuter, ServiceInv, EnvironmentTypeOK
    <2>2. CASE Number(BatchSize)
      <3>1. outerToBlock \in Nat /\ innerFrom <= outerToBlock + 1
        BY <2>1, <2>2 DEF ServiceInv
      <3>2. innerFrom > outerToBlock
        BY <2>1, <3>1, Numbers
      <3>3. innerFrom = outerToBlock + 1 /\ Plus(outerToBlock, 1) = outerToBlock + 1
        BY <2>1, <3>1, <3>2, Numbers
      <3>4. OuterLoop(innerFrom) /\ innerFrom \in Nat /\ innerFrom <= Head + 1
        BY <1>2, <2>1, <3>3
      <3>5. QED
        BY <2>1, <2>2, <3>4, OuterLoopKeepsInv
    <2>3. CASE ~Number(BatchSize)
      <3>1. outerToBlock = NaN /\ queried = {}
        BY <2>1, <2>3 DEF ServiceInv
      <3>2. Plus(outerToBlock, 1) = NaN /\ ~ScanNumbers
        BY <2>3, <3>1, NotNumbers DEF ScanNumbers
      <3>3. QED
        BY <2>1, <3>1, <3>2, NoOuterLoop
    <2>4. QED
      BY <2>2, <2>3
  <1>9. QED
    BY <1>3, <1>4, <1>5, <1>6, <1>7, <1>8 DEF EnvironmentNext

-----------------------------------------------------------------------------
\* What the invariant is for

\* A finished scan has left no block out, if its numbers are numbers, and asked
\* for no range too long.
LEMMA ScannedCompletely == ServiceInv => FirstScanComplete
  <1> SUFFICES ASSUME ServiceInv, bootPc = "synced"
               PROVE  /\ IF ScanNumbers
                         THEN \A b \in 1 .. Head : b > StartBlock => b \in queried
                         ELSE queried = {}
                      /\ env[RpcUrl[ChosenNetwork]] # "alchemy"
                         \/ Less(0, Or("LOGS_MAX_RANGE", 0))
                         \/ widest <= 10
    BY DEF FirstScanComplete
  <1>1. /\ IsEnvironment(env) /\ Valid /\ widest \in Nat /\ Head \in Nat
        /\ queried = IF ScanNumbers THEN FirstBlock + 1 .. Head ELSE {}
        /\ widest = 0 \/ Leq(widest, LogsMaxRange)
    BY EnvironmentAssumption DEF ServiceInv, EnvironmentTypeOK
  <1>2. ASSUME ScanNumbers, NEW b \in 1 .. Head, b > StartBlock PROVE b \in queried
    <2>1. /\ StartBlock \in Int
          /\ FirstBlock = IF 0 >= StartBlock THEN 0 ELSE StartBlock
      BY <1>1, <1>2, ValidNumbers DEF ScanNumbers, Number
    <2>2. QED
      BY <1>1, <1>2, <2>1
  <1>3. ASSUME LogsMaxRange = 10 PROVE widest <= 10
    BY <1>1, <1>3, Numbers
  <1>4. QED
    BY <1>1, <1>2, <1>3, ValidNumbers
=============================================================================
