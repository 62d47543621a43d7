----------------------------- MODULE Environment -----------------------------
(***************************************************************************)
(* From the environment to the first batch sync: bootstrap() validates the *)
(* environment with ConfigModule.validate(), the modules are chosen by     *)
(* MODE, and BlockchainListenerService reads the same variables again, in  *)
(* its own way, when a lock is configured.                                 *)
(*                                                                         *)
(* A variable holds a number or a word.  Unset stands for a missing or an  *)
(* empty variable, NaN for one of which parseInt makes no number; both are *)
(* compared and added as JavaScript does.  validate() lets some of them    *)
(* pass that the service cannot use; all of them are environments here.    *)
(***************************************************************************)
EXTENDS Integers

CONSTANTS
    Unset, NaN,
    Head,              \* number of the latest block while the service starts
    Example,           \* the environment of .env.example
    Choice             \* bound: the values a variable may have instead

ASSUME EnvironmentAssumption ==
    /\ Unset \notin Int /\ NaN \notin Int /\ Unset # NaN
    /\ Unset \notin {"API", "IOT", "NFC"}
    /\ Head \in Nat

\* Two networks, each with its own three variables.
Network == {"sepolia", "mainnet"}
RpcUrl == [sepolia |-> "SEPOLIA_RPC_URL", mainnet |-> "MAINNET_RPC_URL"]
Address == [sepolia |-> "SEPOLIA_CONTRACT_ADDRESS",
            mainnet |-> "MAINNET_CONTRACT_ADDRESS"]
StartBlockName == [sepolia |-> "SEPOLIA_START_BLOCK",
                   mainnet |-> "MAINNET_START_BLOCK"]

\* The variables somebody acts upon; the others are only logged or handed on.
AppConfig == {"MODE", "NETWORK", "LOCK_ID", "BATCH_SYNC_INTERVAL_MINUTES",
              "BATCH_SYNC_SIZE", "LOGS_MAX_RANGE"}
    \cup UNION {{RpcUrl[n], Address[n], StartBlockName[n]} : n \in Network}

\* The example, with at most two variables changed.
Environments ==
    UNION {{[Example EXCEPT ![a] = v, ![b] = w] :
                v \in Choice[a], w \in Choice[b]} :
              a \in AppConfig, b \in AppConfig}

\* Those that are read as numbers, by parseInt.
Numeric == {"LOCK_ID", "BATCH_SYNC_INTERVAL_MINUTES", "BATCH_SYNC_SIZE",
            "LOGS_MAX_RANGE"} \cup {StartBlockName[n] : n \in Network}

\* Every variable holds something, and these hold a number, no number or nothing.
IsEnvironment(e) ==
    /\ e = [n \in AppConfig |-> e[n]]
    /\ \A n \in Numeric : e[n] \in Int \cup {Unset, NaN}

ASSUME ChoiceAssumption == \A e \in Environments : IsEnvironment(e)

-----------------------------------------------------------------------------
\* Numbers that may be NaN

Number(a) == a # NaN
Less(a, b) == Number(a) /\ Number(b) /\ a < b
Leq(a, b) == Number(a) /\ Number(b) /\ a <= b
Plus(a, b) == IF Number(a) /\ Number(b) THEN a + b ELSE NaN
MathMin(a, b) == IF ~Number(a) \/ ~Number(b) THEN NaN ELSE IF a <= b THEN a ELSE b
MathMax(a, b) == IF ~Number(a) \/ ~Number(b) THEN NaN ELSE IF a >= b THEN a ELSE b

-----------------------------------------------------------------------------
VARIABLES
    env,               \* process.env
    bootPc,            \* where bootstrap(), and then initialize(), stands
    routes,            \* RestModule is loaded
    listening,         \* the HTTP server listens
    networkConfig,     \* the network getNetworkConfig() chose, or Unset
    lastSyncedBlock,
    fromBlock, outerToBlock, innerFrom,   \* locals of performBatchSync
    queried,           \* blocks whose logs were queried
    widest             \* the longest range queried

scanVars == <<lastSyncedBlock, fromBlock, outerToBlock, innerFrom, queried, widest>>
environmentVars == <<env, bootPc, routes, listening, networkConfig, scanVars>>

\* process.env.NAME || default
Or(name, default) == IF env[name] = Unset THEN default ELSE env[name]

\* The network validate() checks: it lower-cases what it reads.
ValidatedNetwork ==
    IF Or("NETWORK", "sepolia") = "MAINNET" THEN "mainnet"
    ELSE Or("NETWORK", "sepolia")

Mode == Or("MODE", "API")
BatchSize == Or("BATCH_SYNC_SIZE", 1000)
IntervalMinutes == Or("BATCH_SYNC_INTERVAL_MINUTES", 15)

\* validate() finds no error and returns what it read.
Valid ==
    LET lockId == Or("LOCK_ID", 1) IN
    /\ Number(lockId) /\ ~Less(lockId, 0)
    /\ ValidatedNetwork \in Network
    /\ env[RpcUrl[ValidatedNetwork]] # Unset
    /\ env[Address[ValidatedNetwork]] \notin {Unset, "malformed"}
    /\ ~Less(IntervalMinutes, 1)
    /\ ~Less(BatchSize, 1) /\ ~Less(10000, BatchSize)

\* getNetworkConfig(): only the exact word selects the mainnet.
ChosenNetwork ==
    IF Or("NETWORK", "sepolia") = "mainnet" THEN "mainnet" ELSE "sepolia"
StartBlock == Or(StartBlockName[ChosenNetwork], 0)

\* AppModule has the routes of RestModule.
HasRestModule == env["MODE"] \in {"API", "IOT"}

\* Faulty variant: the default does not depend on the provider.
FaultyLogsMaxRange ==
    IF Less(0, Or("LOGS_MAX_RANGE", 0)) THEN Or("LOGS_MAX_RANGE", 0) ELSE BatchSize

\* The range of a query: LOGS_MAX_RANGE, if that is a positive number.
LogsMaxRange ==
    LET range == Or("LOGS_MAX_RANGE", 0) IN
    IF Less(0, range) THEN range
    ELSE IF env[RpcUrl[ChosenNetwork]] = "alchemy" THEN 10 ELSE BatchSize

-----------------------------------------------------------------------------
EnvironmentInit ==
    /\ env \in Environments
    /\ bootPc = "validate"
    /\ routes = FALSE /\ listening = FALSE /\ networkConfig = Unset
    /\ lastSyncedBlock = 0 /\ fromBlock = 0 /\ outerToBlock = 0 /\ innerFrom = 0
    /\ queried = {} /\ widest = 0

\* validate() throws, and bootstrap() ends the process.
Refuse ==
    /\ bootPc = "validate" /\ ~Valid
    /\ bootPc' = "exited"
    /\ UNCHANGED <<env, routes, listening, networkConfig, scanVars>>

\* The modules are wired by process.env.MODE, the server by validate()'s MODE.
Create ==
    /\ bootPc = "validate" /\ Valid
    /\ bootPc' = "created"
    /\ routes' = HasRestModule
    /\ listening' = (Mode \in {"API", "IOT"})
    /\ UNCHANGED <<env, networkConfig, scanVars>>

\* A lock is configured: initialize() with no mark in the database.
Connect ==
    /\ bootPc = "created" /\ routes /\ listening
    /\ networkConfig' = ChosenNetwork
    /\ IF Unset \in {env[RpcUrl[ChosenNetwork]], env[Address[ChosenNetwork]]}
       THEN bootPc' = "initFailed" /\ UNCHANGED lastSyncedBlock
       ELSE bootPc' = "listening" /\ lastSyncedBlock' = MathMax(0, StartBlock)
    /\ UNCHANGED <<env, routes, listening, fromBlock, outerToBlock, innerFrom,
                   queried, widest>>

\* Faulty variant: the last outer range goes beyond the head.
FaultyOuterLoop(b) ==
    /\ fromBlock' = b
    /\ IF Leq(b, Head)
       THEN /\ outerToBlock' = Plus(Plus(b, BatchSize), -1)
            /\ innerFrom' = b
            /\ bootPc' = "scanning"
            /\ UNCHANGED lastSyncedBlock
       ELSE /\ lastSyncedBlock' = Head
            /\ bootPc' = "synced"
            /\ UNCHANGED <<outerToBlock, innerFrom>>

\* The outer loop goes on from block b, or ends: the mark moves to the head.
OuterLoop(b) ==
    /\ fromBlock' = b
    /\ IF Leq(b, Head)
       THEN /\ outerToBlock' = MathMin(Plus(Plus(b, BatchSize), -1), Head)
            /\ innerFrom' = b
            /\ bootPc' = "scanning"
            /\ UNCHANGED lastSyncedBlock
       ELSE /\ lastSyncedBlock' = Head
            /\ bootPc' = "synced"
            /\ UNCHANGED <<outerToBlock, innerFrom>>

\* The initial batch sync fires and getBlockNumber answers.
BeginScan ==
    /\ bootPc = "listening"
    /\ OuterLoop(Plus(lastSyncedBlock, 1))
    /\ UNCHANGED <<env, routes, listening, networkConfig, queried, widest>>

\* One chunk of the inner loop is queried.
QueryChunk ==
    /\ bootPc = "scanning" /\ Leq(innerFrom, outerToBlock)
    /\ LET innerTo == MathMin(Plus(Plus(innerFrom, LogsMaxRange), -1), outerToBlock)
       IN  /\ queried' = queried \cup (innerFrom .. innerTo)
           /\ widest' = MathMax(widest, innerTo - innerFrom + 1)
           /\ innerFrom' = Plus(innerTo, 1)
    /\ UNCHANGED <<env, bootPc, routes, listening, networkConfig,
                   lastSyncedBlock, fromBlock, outerToBlock>>

\* Faulty variant: the block after an outer range is left out.
FaultyNextOuter ==
    /\ bootPc = "scanning" /\ ~Leq(innerFrom, outerToBlock)
    /\ OuterLoop(Plus(outerToBlock, 2))
    /\ UNCHANGED <<env, routes, listening, networkConfig, queried, widest>>

\* The inner loop ends.
NextOuter ==
    /\ bootPc = "scanning" /\ ~Leq(innerFrom, outerToBlock)
    /\ OuterLoop(Plus(outerToBlock, 1))
    /\ UNCHANGED <<env, routes, listening, networkConfig, queried, widest>>

EnvironmentNext ==
    Refuse \/ Create \/ Connect \/ BeginScan \/ QueryChunk \/ NextOuter

-----------------------------------------------------------------------------
\* Properties

\* Every state of the service is well typed: no block beyond the head is queried,
\* and only the numbers that an operator's NaN gets into are none.
EnvironmentTypeOK ==
    /\ IsEnvironment(env)
    /\ bootPc \in {"validate", "exited", "created", "initFailed", "listening",
                   "scanning", "synced"}
    /\ routes \in BOOLEAN /\ listening \in BOOLEAN
    /\ networkConfig \in Network \cup {Unset}
    /\ lastSyncedBlock \in Nat \cup {NaN}
    /\ fromBlock \in Nat \cup {NaN}
    /\ outerToBlock \in 0 .. Head \cup {NaN}
    /\ innerFrom \in 0 .. Head + 1
    /\ queried \subseteq 1 .. Head
    /\ widest \in 0 .. Head

\* The block after which the first scan begins, and what the scan counts with.
FirstBlock == MathMax(0, StartBlock)
ScanNumbers == Number(StartBlock) /\ Number(BatchSize)

\* What HYBRID_SYNC.md:36 promises, "Perform initial batch sync from START_BLOCK
\* to current block", and what becomes of it where validate() let a start block
\* or a batch size pass that is no number.  When the first scan has moved the mark
\* to the head, every block after the start block has been queried, or, with NaN,
\* none at all; and no range was longer than an Alchemy free tier allows unless
\* LOGS_MAX_RANGE asked for more.
FirstScanComplete ==
    bootPc = "synced" =>
        /\ IF ScanNumbers THEN \A b \in 1 .. Head : b > StartBlock => b \in queried
           ELSE queried = {}
        /\ env[RpcUrl[ChosenNetwork]] # "alchemy"
           \/ Less(0, Or("LOGS_MAX_RANGE", 0))
           \/ widest <= 10

\* Behind it: past validate() the environment is a valid one, initialize() fails
\* only where NETWORK is written in a way that validate() and the service take for
\* two networks, and a scan has queried the blocks from the start block to where it
\* stands, no more and no less, in ranges as long as they may be.
ServiceInv ==
    /\ EnvironmentTypeOK
    /\ bootPc \notin {"validate", "exited"} => Valid
    /\ bootPc = "initFailed" \/ networkConfig \notin {Unset, ValidatedNetwork}
          => env["NETWORK"] = "MAINNET"
    /\ widest = 0 \/ Leq(widest, LogsMaxRange)
    /\ bootPc \notin {"scanning", "synced"} => queried = {} /\ widest = 0
    /\ bootPc = "listening" => lastSyncedBlock = FirstBlock
    /\ bootPc = "scanning" =>
          /\ Number(StartBlock)
          /\ FirstBlock < innerFrom
          /\ queried = FirstBlock + 1 .. innerFrom - 1
          /\ IF Number(BatchSize)
             THEN outerToBlock \in Nat /\ innerFrom <= outerToBlock + 1
             ELSE outerToBlock = NaN /\ queried = {}
    /\ bootPc = "synced" =>
          queried = IF ScanNumbers THEN FirstBlock + 1 .. Head ELSE {}
=============================================================================
