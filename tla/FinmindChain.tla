----------------------------- MODULE FinmindChain -----------------------------
(***************************************************************************)
(* The FinMind backfill chain of the admin page: an asyncio task in one of *)
(* several worker processes, started, stopped and watched by HTTP requests *)
(* that may reach any worker.  They share three Redis keys -- a state      *)
(* blob, a lock with a TTL, a stop flag with a TTL -- and the rows of      *)
(* backfill_progress.                                                      *)
(*                                                                         *)
(* One step is one Redis or database round trip.  A tick is the unit of    *)
(* the TTLs.  Round trips take no time except the ones that have a bound   *)
(* below; a request that only watches or stops may hang for ever.          *)
(***************************************************************************)
EXTENDS Integers, FiniteSets

CONSTANTS
    Chains,        \* POST /chain/start requests, each with its _run_chain task
    Workers,       \* uvicorn worker processes
    Stops,         \* POST /chain/stop requests
    Polls,         \* admin pages that GET /chain
    NoChain,       \* the lock key is absent
    Datasets,      \* length of the dataset list
    Symbols,       \* length of the universe
    LockTTL,       \* LOCK_TTL
    RefreshEvery,  \* LOCK_REFRESH_INTERVAL
    QuotaSleep,    \* QUOTA_COOLDOWN_SLEEP
    StopTTL,       \* STOP_TTL
    HostRecent,    \* HOST_CHAIN_RECENT_MINUTES
    StuckAfter,    \* STUCK_RESET_MINUTES
    LoadMax,       \* longest _load_universe
    ChunkMax,      \* longest fetch of one chunk
    Faults,        \* which of "crash", "db", "quota" may happen
    MaxCrashes     \* bound on the crashes explored

ASSUME SizesAssumption ==
    /\ Workers # {} /\ NoChain \notin Chains
    /\ Datasets \in Nat /\ Symbols \in Nat
    /\ LockTTL \in Nat \ {0} /\ StopTTL \in Nat \ {0} /\ QuotaSleep \in Nat
    /\ RefreshEvery \in 1..LockTTL
    /\ HostRecent \in 0..StuckAfter /\ StuckAfter \in Nat
    /\ LoadMax \in Nat /\ ChunkMax \in Nat /\ MaxCrashes \in Nat
    /\ Faults \subseteq {"crash", "db", "quota"}

Readers == Chains \cup Stops \cup Polls
ASSUME ActorsAssumption ==
    /\ Chains \cap Stops = {} /\ Chains \cap Polls = {} /\ Stops \cap Polls = {}

VARIABLES
    \* Redis: the lock's owner and remaining ticks, the stop flag's remaining
    \* ticks (0: absent), the status in the state blob
    lock, lockLeft, stop, status,
    \* backfill_progress: the status of each chunk and its age since
    \* started_at; the chunks whose rows were committed to the data tables
    row, rowAge, data,
    \* each start request, then its task: where it is, its worker, the status
    \* in the blob it read last, its position, ticks since its last refresh of
    \* the lock, ticks spent in this step
    pc, at, mine, ds, sym, since, spent,
    \* get_state in each request, and the stop requests
    rd, st,
    \* history: of each chain, whether a stop was requested while it ran, then
    \* dropped by a request that took it for dead, or its lock expired under it;
    \* the chunks whose way through ingest_chunk broke off
    asked, stranded,
    crashes

lockVars == <<lock, lockLeft>>
keyVars  == <<lockVars, stop, status>>
rowVars  == <<row, rowAge, data>>
posVars  == <<ds, sym>>
timeVars == <<since, spent>>
taskVars == <<pc, at, mine, posVars, timeVars>>
reqVars  == <<rd, st>>
histVars == <<asked, stranded>>
vars == <<keyVars, rowVars, taskVars, reqVars, histVars, crashes>>

Chunks == (1..Datasets) \X (1..Symbols)
Statuses == {"idle", "running", "stopping"}
RowStatuses == {"none", "pending", "running", "done", "failed", "skipped"}
StartPcs == {"new", "hostRow", "acquire", "reset", "clear", "publish"}
ChunkPcs == {"claim", "fetch", "upsert", "finish", "fail", "skip"}
LoopPcs  == {"load", "sizeW", "dataset", "datasetW", "symbol", "refresh",
             "quota", "sleep", "gate", "chunkR", "chunkW"} \cup ChunkPcs
FinalPcs == {"abortW", "final", "finalW", "finalStop", "finalLock", "release"}
Pcs == StartPcs \cup LoopPcs \cup FinalPcs \cup {"over"}

\* The task exists.
Live(c) == pc[c] \in LoopPcs \cup FinalPcs
\* The chain has won the lock and has not released it.
Holding(c) == Live(c) \/ pc[c] \in {"reset", "clear", "publish"}
Chunk(c) == <<ds[c], sym[c]>>
Ingesting(c, k) == pc[c] \in {"fetch", "upsert", "finish", "fail", "skip"} /\ Chunk(c) = k
Active(s) == s \in {"running", "stopping"}
\* A tick more, as far as anyone can tell.
Later(n, cap) == IF n < cap THEN n + 1 ELSE n

Init ==
    /\ lock = NoChain /\ lockLeft = 0 /\ stop = 0 /\ status = "idle"
    /\ row = [k \in Chunks |-> "none"] /\ rowAge = [k \in Chunks |-> 0] /\ data = {}
    /\ pc = [c \in Chains |-> "new"]
    /\ at \in [Chains -> Workers]
    /\ mine = [c \in Chains |-> "idle"]
    /\ ds = [c \in Chains |-> 1] /\ sym = [c \in Chains |-> 1]
    /\ since = [c \in Chains |-> 0] /\ spent = [c \in Chains |-> 0]
    /\ rd = [a \in Readers |-> "off"] /\ st = [s \in Stops |-> "new"]
    /\ asked = [c \in Chains |-> "no"] /\ stranded = {} /\ crashes = 0

Go(c, p) == pc' = [pc EXCEPT ![c] = p]
\* The task is over: its locals go with it.
Retire(S) ==
    /\ pc' = [c \in Chains |-> IF c \in S THEN "over" ELSE pc[c]]
    /\ mine' = [c \in Chains |-> IF c \in S THEN "idle" ELSE mine[c]]
    /\ ds' = [c \in Chains |-> IF c \in S THEN 1 ELSE ds[c]]
    /\ sym' = [c \in Chains |-> IF c \in S THEN 1 ELSE sym[c]]
    /\ since' = [c \in Chains |-> IF c \in S THEN 0 ELSE since[c]]
    /\ spent' = [c \in Chains |-> IF c \in S THEN 0 ELSE spent[c]]
\* The chunks they work on are left as they are.
Strands(S) ==
    stranded' = stranded \cup {k \in Chunks : \E c \in S : Ingesting(c, k)}

-----------------------------------------------------------------------------
(* POST /chain/start.                                                      *)

\* _host_chain_likely_active: somebody holds the lock ...
HostCheckLocked(c) ==
    /\ pc[c] = "new" /\ lock # NoChain
    /\ Go(c, "acquire")
    /\ UNCHANGED <<keyVars, rowVars, at, mine, posVars, timeVars, reqVars, histVars, crashes>>
HostCheckFree(c) ==
    /\ pc[c] = "new" /\ lock = NoChain
    /\ Go(c, "hostRow")
    /\ UNCHANGED <<keyVars, rowVars, at, mine, posVars, timeVars, reqVars, histVars, crashes>>

\* ... or a running row is recent: then the start answers 409.
RecentRow == \E k \in Chunks : row[k] = "running" /\ rowAge[k] < HostRecent
HostSuspected(c) ==
    /\ pc[c] = "hostRow" /\ RecentRow
    /\ Go(c, "over")
    /\ UNCHANGED <<keyVars, rowVars, at, mine, posVars, timeVars, reqVars, histVars, crashes>>
HostAbsent(c) ==
    /\ pc[c] = "hostRow" /\ ~RecentRow
    /\ Go(c, "acquire")
    /\ UNCHANGED <<keyVars, rowVars, at, mine, posVars, timeVars, reqVars, histVars, crashes>>

Acquire_NotNX(c) ==                                      \* mutant
    /\ pc[c] = "acquire"
    /\ lock' = c /\ lockLeft' = LockTTL
    /\ since' = [since EXCEPT ![c] = 0]
    /\ Go(c, "reset")
    /\ UNCHANGED <<stop, status, rowVars, at, mine, posVars, spent, reqVars, histVars, crashes>>
\* acquire_lock: SET NX EX.
Acquire(c) ==
    /\ pc[c] = "acquire" /\ lock = NoChain
    /\ lock' = c /\ lockLeft' = LockTTL
    /\ since' = [since EXCEPT ![c] = 0]
    /\ Go(c, "reset")
    /\ UNCHANGED <<stop, status, rowVars, at, mine, posVars, spent, reqVars, histVars, crashes>>
AlreadyRunning(c) ==
    /\ pc[c] = "acquire" /\ lock # NoChain
    /\ Go(c, "over")
    /\ UNCHANGED <<keyVars, rowVars, at, mine, posVars, timeVars, reqVars, histVars, crashes>>

\* reset_stuck: running rows that started long ago are pending again.
Stuck(k) == row[k] = "running" /\ rowAge[k] >= StuckAfter
ResetRows == /\ row' = [k \in Chunks |-> IF Stuck(k) THEN "pending" ELSE row[k]]
             /\ rowAge' = [k \in Chunks |-> IF Stuck(k) THEN 0 ELSE rowAge[k]]
             /\ UNCHANGED data
StartReset(c) ==
    /\ pc[c] = "reset"
    /\ ResetRows
    /\ Go(c, "clear")
    /\ UNCHANGED <<keyVars, at, mine, posVars, timeVars, reqVars, histVars, crashes>>
\* reset_stuck_first = False.
StartKeeps(c) ==
    /\ pc[c] = "reset"
    /\ Go(c, "clear")
    /\ UNCHANGED <<keyVars, rowVars, at, mine, posVars, timeVars, reqVars, histVars, crashes>>
\* The database fails: the request does, and the lock is left to its TTL.
StartFails(c) ==
    /\ pc[c] = "reset" /\ "db" \in Faults
    /\ Go(c, "over")
    /\ UNCHANGED <<keyVars, rowVars, at, mine, posVars, timeVars, reqVars, histVars, crashes>>

StartClear(c) ==
    /\ pc[c] = "clear"
    /\ stop' = 0
    /\ Go(c, "publish")
    /\ UNCHANGED <<lockVars, status, rowVars, at, mine, posVars, timeVars, reqVars, histVars, crashes>>

\* The state is written, the task created, and the request goes on to get_state.
Publish(c) ==
    /\ pc[c] = "publish"
    /\ status' = "running"
    /\ Go(c, "load")
    /\ rd' = [rd EXCEPT ![c] = "read"]
    /\ UNCHANGED <<lockVars, stop, rowVars, at, mine, posVars, timeVars, st, histVars, crashes>>

-----------------------------------------------------------------------------
(* _run_chain.                                                             *)

\* Read the state blob on the way to writing it back at p.
ReadState(c, p) == mine' = [mine EXCEPT ![c] = status] /\ Go(c, p)
\* Write the blob back with the status it had when it was read.
WriteBack(c, p) == /\ status' = mine[c]
                   /\ mine' = [mine EXCEPT ![c] = "idle"]
                   /\ Go(c, p)

\* _load_universe returns ...
Loaded(c) ==
    /\ pc[c] = "load"
    /\ ReadState(c, "sizeW")
    /\ spent' = [spent EXCEPT ![c] = 0]
    /\ UNCHANGED <<keyVars, rowVars, at, posVars, since, reqVars, histVars, crashes>>
\* ... or fails, or finds no symbol: the task writes "idle" and ends.
LoadFails(c) ==
    /\ pc[c] = "load"
    /\ Go(c, "abortW")
    /\ spent' = [spent EXCEPT ![c] = 0]
    /\ UNCHANGED <<keyVars, rowVars, at, mine, posVars, since, reqVars, histVars, crashes>>
WriteAbort(c) ==
    /\ pc[c] = "abortW"
    /\ status' = "idle"
    /\ Go(c, "final")
    /\ UNCHANGED <<lockVars, stop, rowVars, at, mine, posVars, timeVars, reqVars, histVars, crashes>>
WriteSize(c) ==
    /\ pc[c] = "sizeW"
    /\ WriteBack(c, "dataset")
    /\ UNCHANGED <<lockVars, stop, rowVars, at, posVars, timeVars, reqVars, histVars, crashes>>

\* The next dataset, unless a stop is requested.
DatasetOpens(c) ==
    /\ pc[c] = "dataset" /\ ds[c] <= Datasets /\ stop = 0
    /\ ReadState(c, "datasetW")
    /\ UNCHANGED <<keyVars, rowVars, at, posVars, timeVars, reqVars, histVars, crashes>>
\* _count_progress_for_dataset raises: the task ends.
CountFails(c) ==
    /\ pc[c] = "dataset" /\ ds[c] <= Datasets /\ stop = 0 /\ "db" \in Faults
    /\ Go(c, "final")
    /\ UNCHANGED <<keyVars, rowVars, at, mine, posVars, timeVars, reqVars, histVars, crashes>>
ChainEnds(c) ==
    /\ pc[c] = "dataset" /\ (ds[c] > Datasets \/ stop # 0)
    /\ Go(c, "final")
    /\ UNCHANGED <<keyVars, rowVars, at, mine, posVars, timeVars, reqVars, histVars, crashes>>
WriteDataset(c) ==
    /\ pc[c] = "datasetW"
    /\ WriteBack(c, "symbol")
    /\ UNCHANGED <<lockVars, stop, rowVars, at, posVars, timeVars, reqVars, histVars, crashes>>

NextDataset(c) == ds' = [ds EXCEPT ![c] = @ + 1] /\ sym' = [sym EXCEPT ![c] = 1]
\* The next symbol, unless a stop is requested, which ends the dataset only.
SymbolOpens(c) ==
    /\ pc[c] = "symbol" /\ sym[c] <= Symbols /\ stop = 0
    /\ Go(c, "refresh")
    /\ UNCHANGED <<keyVars, rowVars, at, mine, posVars, timeVars, reqVars, histVars, crashes>>
DatasetEnds(c) ==
    /\ pc[c] = "symbol" /\ (sym[c] > Symbols \/ stop # 0)
    /\ NextDataset(c)
    /\ Go(c, "dataset")
    /\ UNCHANGED <<keyVars, rowVars, at, mine, timeVars, reqVars, histVars, crashes>>

RefreshDue_Late(c) == since[c] >= LockTTL                  \* mutant
RefreshDue(c) == since[c] >= RefreshEvery
\* _refresh_lock: a plain SET.
RefreshLock(c) ==
    /\ pc[c] = "refresh" /\ RefreshDue(c)
    /\ lock' = c /\ lockLeft' = LockTTL
    /\ since' = [since EXCEPT ![c] = 0]
    /\ Go(c, "quota")
    /\ UNCHANGED <<stop, status, rowVars, at, mine, posVars, spent, reqVars, histVars, crashes>>
RefreshSkipped(c) ==
    /\ pc[c] = "refresh" /\ ~RefreshDue(c)
    /\ Go(c, "quota")
    /\ UNCHANGED <<keyVars, rowVars, at, mine, posVars, timeVars, reqVars, histVars, crashes>>

\* _wait_for_quota: returns on a stop or when there is quota, else sleeps.
QuotaPasses(c) ==
    /\ pc[c] = "quota"
    /\ Go(c, "gate")
    /\ UNCHANGED <<keyVars, rowVars, at, mine, posVars, timeVars, reqVars, histVars, crashes>>
QuotaSaturated(c) ==
    /\ pc[c] = "quota" /\ stop = 0 /\ "quota" \in Faults
    /\ Go(c, "sleep")
    /\ UNCHANGED <<keyVars, rowVars, at, mine, posVars, timeVars, reqVars, histVars, crashes>>
Wakes(c) ==
    /\ pc[c] = "sleep" /\ spent[c] >= QuotaSleep
    /\ spent' = [spent EXCEPT ![c] = 0]
    /\ Go(c, "quota")
    /\ UNCHANGED <<keyVars, rowVars, at, mine, posVars, since, reqVars, histVars, crashes>>

GateOpen_Blind(c) ==                                     \* mutant
    /\ pc[c] = "gate"
    /\ Go(c, "claim")
    /\ UNCHANGED <<keyVars, rowVars, at, mine, posVars, timeVars, reqVars, histVars, crashes>>
\* A stop during the wait is seen before the chunk begins.
GateOpen(c) ==
    /\ pc[c] = "gate" /\ stop = 0
    /\ Go(c, "claim")
    /\ UNCHANGED <<keyVars, rowVars, at, mine, posVars, timeVars, reqVars, histVars, crashes>>
GateStop(c) ==
    /\ pc[c] = "gate" /\ stop # 0
    /\ NextDataset(c)
    /\ Go(c, "dataset")
    /\ UNCHANGED <<keyVars, rowVars, at, mine, timeVars, reqVars, histVars, crashes>>

-----------------------------------------------------------------------------
(* ingest_chunk.                                                           *)

SetRow(k, s) == row' = [row EXCEPT ![k] = s]

ClaimedAge_Kept(k) == rowAge[k]                          \* mutant
ClaimedAge(k) == 0                     \* claim_chunk resets started_at
\* claim_chunk: upsert into "running", whoever had it.  next is "fetch", or
\* "skip" when the dataset has no mapping.
Claim(c, next) ==
    /\ pc[c] = "claim" /\ next \in {"fetch", "skip"}
    /\ SetRow(Chunk(c), "running")
    /\ rowAge' = [rowAge EXCEPT ![Chunk(c)] = ClaimedAge(Chunk(c))]
    /\ stranded' = stranded \ {Chunk(c)}
    /\ Go(c, next)
    /\ UNCHANGED <<keyVars, data, at, mine, posVars, timeVars, reqVars, asked, crashes>>
\* dataset_sources has no row or no table for it: skipped without a claim.
SkipUnclaimed(c) ==
    /\ pc[c] = "claim"
    /\ Go(c, "chunkR")
    /\ UNCHANGED <<keyVars, rowVars, at, mine, posVars, timeVars, reqVars, histVars, crashes>>
\* resolve_client has no client for the source: it raises outside the try, and
\* _run_chain moves on.
NoClient(c) ==
    /\ pc[c] = "fetch" /\ spent[c] = 0
    /\ Strands({c})
    /\ Go(c, "chunkR")
    /\ UNCHANGED <<keyVars, rowVars, at, mine, posVars, timeVars, reqVars, asked, crashes>>
\* Fetch and transform, with the fallback sources.
Fetched(c, next) ==
    /\ pc[c] = "fetch" /\ next \in {"upsert", "fail"}
    /\ Go(c, next)
    /\ spent' = [spent EXCEPT ![c] = 0]
    /\ UNCHANGED <<keyVars, rowVars, at, mine, posVars, since, reqVars, histVars, crashes>>
\* The data rows are committed ...
Upsert(c) ==
    /\ pc[c] = "upsert"
    /\ data' = data \cup {Chunk(c)}
    /\ Go(c, "finish")
    /\ UNCHANGED <<keyVars, row, rowAge, at, mine, posVars, timeVars, reqVars, histVars, crashes>>
UpsertFails(c) ==
    /\ pc[c] = "upsert" /\ "db" \in Faults
    /\ Go(c, "fail")
    /\ UNCHANGED <<keyVars, rowVars, at, mine, posVars, timeVars, reqVars, histVars, crashes>>

Outcome_DoneAnyway(p) == IF p = "skip" THEN "skipped" ELSE "done"   \* mutant
Outcome_Kept(p) == IF p = "fail" THEN "running"                     \* mutant
                   ELSE IF p = "skip" THEN "skipped" ELSE "done"
Outcome(p) == CASE p = "finish" -> "done" [] p = "fail" -> "failed"
                [] OTHER -> "skipped"
\* ... and then, in a transaction of its own, the outcome is recorded.
Record(c) ==
    /\ pc[c] \in {"finish", "fail", "skip"}
    /\ SetRow(Chunk(c), Outcome(pc[c]))
    /\ Go(c, "chunkR")
    /\ UNCHANGED <<keyVars, rowAge, data, at, mine, posVars, timeVars, reqVars, histVars, crashes>>
\* Claiming or recording raises: _run_chain moves on, the row stays.
IngestRaises(c) ==
    /\ pc[c] \in {"claim", "finish", "fail", "skip"} /\ "db" \in Faults
    /\ Strands({c})
    /\ Go(c, "chunkR")
    /\ UNCHANGED <<keyVars, rowVars, at, mine, posVars, timeVars, reqVars, asked, crashes>>

ReadProgress(c) ==
    /\ pc[c] = "chunkR"
    /\ ReadState(c, "chunkW")
    /\ UNCHANGED <<keyVars, rowVars, at, posVars, timeVars, reqVars, histVars, crashes>>
WriteProgress(c) ==
    /\ pc[c] = "chunkW"
    /\ WriteBack(c, "symbol")
    /\ sym' = [sym EXCEPT ![c] = @ + 1]
    /\ UNCHANGED <<lockVars, stop, rowVars, at, ds, timeVars, reqVars, histVars, crashes>>

-----------------------------------------------------------------------------
(* The finally block of _run_chain.                                        *)

FinalRead(c) ==
    /\ pc[c] = "final"
    /\ Go(c, "finalW")
    /\ UNCHANGED <<keyVars, rowVars, at, mine, posVars, timeVars, reqVars, histVars, crashes>>
FinalWrite(c) ==
    /\ pc[c] = "finalW"
    /\ status' = "idle"
    /\ Go(c, "finalStop")
    /\ UNCHANGED <<lockVars, stop, rowVars, at, mine, posVars, timeVars, reqVars, histVars, crashes>>
FinalStop(c) ==
    /\ pc[c] = "finalStop"
    /\ stop' = 0
    /\ Go(c, "finalLock")
    /\ UNCHANGED <<lockVars, status, rowVars, at, mine, posVars, timeVars, reqVars, histVars, crashes>>

\* _release_lock: GET, compare with this process's id, DELETE.
OwnLock(c) == lock # NoChain /\ at[lock] = at[c]
FinalOwns(c) ==
    /\ pc[c] = "finalLock" /\ OwnLock(c)
    /\ Go(c, "release")
    /\ UNCHANGED <<keyVars, rowVars, at, mine, posVars, timeVars, reqVars, histVars, crashes>>
FinalLost(c) ==
    /\ pc[c] = "finalLock" /\ ~OwnLock(c)
    /\ Retire({c})
    /\ UNCHANGED <<keyVars, rowVars, at, reqVars, histVars, crashes>>
Release(c) ==
    /\ pc[c] = "release"
    /\ lock' = NoChain /\ lockLeft' = 0
    /\ Retire({c})
    /\ UNCHANGED <<stop, status, rowVars, at, reqVars, histVars, crashes>>

-----------------------------------------------------------------------------
(* GET /chain, and the get_state every other request ends with.            *)

Step(a, p) == rd' = [rd EXCEPT ![a] = p]

Poll(p) ==
    /\ rd[p] = "off"
    /\ Step(p, "read")
    /\ UNCHANGED <<keyVars, rowVars, taskVars, st, histVars, crashes>>
SeeIdle(a) ==
    /\ rd[a] = "read" /\ ~Active(status)
    /\ Step(a, "off")
    /\ UNCHANGED <<keyVars, rowVars, taskVars, st, histVars, crashes>>
SeeActive(a) ==
    /\ rd[a] = "read" /\ Active(status)
    /\ Step(a, "lock")
    /\ UNCHANGED <<keyVars, rowVars, taskVars, st, histVars, crashes>>
\* _heal_if_orphaned: the status was active; the lock is there ...
SeeLock(a) ==
    /\ rd[a] = "lock" /\ lock # NoChain
    /\ Step(a, "off")
    /\ UNCHANGED <<keyVars, rowVars, taskVars, st, histVars, crashes>>
Orphaned_Never(a) == FALSE                               \* mutant
\* ... or not, and the state is reset to what an idle chain shows ...
Orphaned(a) == lock = NoChain
SeeNoLock(a) ==
    /\ rd[a] = "lock" /\ Orphaned(a)
    /\ Step(a, "heal")
    /\ UNCHANGED <<keyVars, rowVars, taskVars, st, histVars, crashes>>
Heal(a) ==
    /\ rd[a] = "heal"
    /\ status' = "idle"
    /\ Step(a, "drop")
    /\ UNCHANGED <<lockVars, stop, rowVars, taskVars, st, histVars, crashes>>
\* ... and the stop flag dropped.
DropStop(a) ==
    /\ rd[a] = "drop"
    /\ stop' = 0
    /\ asked' = [c \in Chains |-> IF asked[c] = "yes" THEN "dropped" ELSE asked[c]]
    /\ Step(a, "off")
    /\ UNCHANGED <<lockVars, status, rowVars, taskVars, st, stranded, crashes>>

(* POST /chain/stop and POST /chain/reset-stuck.                           *)

\* The flag first, and the chain whose task is running is asked to stop ...
StopSet(s) ==
    /\ st[s] = "new"
    /\ stop' = StopTTL
    /\ asked' = [c \in Chains |->
                  IF pc[c] \in LoopPcs /\ asked[c] # "lapsed" THEN "yes" ELSE asked[c]]
    /\ st' = [st EXCEPT ![s] = "read"]
    /\ UNCHANGED <<lockVars, status, rowVars, taskVars, rd, stranded, crashes>>
\* ... then the state is read, and written if it was "running" ...
StopSees(s) ==
    /\ st[s] = "read" /\ status = "running"
    /\ st' = [st EXCEPT ![s] = "write"]
    /\ UNCHANGED <<keyVars, rowVars, taskVars, rd, histVars, crashes>>
StopSeesNone(s) ==
    /\ st[s] = "read" /\ status # "running"
    /\ st' = [st EXCEPT ![s] = "sent"]
    /\ Step(s, "read")
    /\ UNCHANGED <<keyVars, rowVars, taskVars, histVars, crashes>>
StopWrite(s) ==
    /\ st[s] = "write"
    /\ status' = "stopping"
    /\ st' = [st EXCEPT ![s] = "sent"]
    /\ Step(s, "read")
    /\ UNCHANGED <<lockVars, stop, rowVars, taskVars, histVars, crashes>>

AdminReset ==
    /\ \E k \in Chunks : Stuck(k)
    /\ ResetRows
    /\ UNCHANGED <<keyVars, taskVars, reqVars, histVars, crashes>>

-----------------------------------------------------------------------------
(* The environment.                                                        *)

\* A worker dies: its tasks and start requests with it, the keys stay.
Crash(w) ==
    /\ "crash" \in Faults /\ crashes < MaxCrashes
    /\ Retire({c \in Chains : at[c] = w /\ Holding(c)})
    /\ Strands({c \in Chains : at[c] = w})
    /\ crashes' = crashes + 1
    /\ UNCHANGED <<keyVars, rowVars, at, reqVars, asked>>

Patience(c) == CASE pc[c] = "load"  -> LoadMax
                 [] pc[c] = "fetch" -> ChunkMax
                 [] pc[c] = "sleep" -> QuotaSleep
                 [] OTHER -> 0
Slow(c) == pc[c] \in {"load", "fetch", "sleep"}

\* The lock expires under the chain that holds it.
Expires(c) == lock = c /\ lockLeft <= 1 /\ Holding(c)
\* The keys age and expire, and so do the started_at of running rows.
Tick ==
    /\ \A c \in Chains : Holding(c) => spent[c] < Patience(c)
    /\ lockLeft' = IF lockLeft > 0 THEN lockLeft - 1 ELSE 0
    /\ lock' = IF lockLeft > 1 THEN lock ELSE NoChain
    /\ stop' = IF stop > 0 THEN stop - 1 ELSE 0
    /\ rowAge' = [k \in Chunks |-> IF row[k] = "running"
                                   THEN Later(rowAge[k], StuckAfter) ELSE rowAge[k]]
    /\ since' = [c \in Chains |-> IF Live(c) THEN Later(since[c], LockTTL) ELSE since[c]]
    /\ spent' = [c \in Chains |-> IF Slow(c) THEN spent[c] + 1 ELSE spent[c]]
    /\ asked' = [c \in Chains |-> IF Expires(c) THEN "lapsed" ELSE asked[c]]
    /\ UNCHANGED <<status, row, data, pc, at, mine, posVars, reqVars, stranded, crashes>>

StartStep(c) ==
    \/ HostCheckLocked(c) \/ HostCheckFree(c) \/ HostSuspected(c) \/ HostAbsent(c)
    \/ Acquire(c) \/ AlreadyRunning(c)
    \/ StartReset(c) \/ StartKeeps(c) \/ StartFails(c) \/ StartClear(c) \/ Publish(c)
LoopStep(c) ==
    \/ Loaded(c) \/ LoadFails(c) \/ WriteAbort(c) \/ WriteSize(c)
    \/ DatasetOpens(c) \/ CountFails(c) \/ ChainEnds(c) \/ WriteDataset(c)
    \/ SymbolOpens(c) \/ DatasetEnds(c) \/ RefreshLock(c) \/ RefreshSkipped(c)
    \/ QuotaPasses(c) \/ QuotaSaturated(c) \/ Wakes(c) \/ GateOpen(c) \/ GateStop(c)
    \/ ReadProgress(c) \/ WriteProgress(c)
ChunkStep(c) ==
    \/ \E next \in {"fetch", "skip"} : Claim(c, next)
    \/ SkipUnclaimed(c) \/ NoClient(c)
    \/ \E next \in {"upsert", "fail"} : Fetched(c, next)
    \/ Upsert(c) \/ UpsertFails(c) \/ Record(c) \/ IngestRaises(c)
FinalStep(c) ==
    \/ FinalRead(c) \/ FinalWrite(c) \/ FinalStop(c)
    \/ FinalOwns(c) \/ FinalLost(c) \/ Release(c)
ReadStep(a) == SeeIdle(a) \/ SeeActive(a) \/ SeeLock(a) \/ SeeNoLock(a)
               \/ Heal(a) \/ DropStop(a)
StopStep(s) == StopSet(s) \/ StopSees(s) \/ StopSeesNone(s) \/ StopWrite(s)

Next ==
    \/ \E c \in Chains : StartStep(c) \/ LoopStep(c) \/ ChunkStep(c) \/ FinalStep(c)
    \/ \E p \in Polls : Poll(p)
    \/ \E a \in Readers : ReadStep(a)
    \/ \E s \in Stops : StopStep(s)
    \/ AdminReset
    \/ \E w \in Workers : Crash(w)
    \/ Tick

Spec == Init /\ [][Next]_vars

\* A task goes on, and so does a start that has won the lock; an open admin page
\* polls every three seconds, and time passes.  Nobody has to start or stop
\* anything.
Fairness ==
    /\ \A c \in Chains : WF_vars(LoopStep(c) \/ ChunkStep(c) \/ FinalStep(c))
    /\ \A c \in Chains : WF_vars(Holding(c) /\ StartStep(c))
    /\ \A p \in Polls : WF_vars(Poll(p) \/ ReadStep(p))
    /\ WF_vars(Tick)
FairSpec == Spec /\ Fairness

-----------------------------------------------------------------------------
(* Properties.                                                             *)

\* Every variable keeps its type.
TypeOK ==
    /\ lock \in Chains \cup {NoChain} /\ lockLeft \in 0..LockTTL
    /\ stop \in 0..StopTTL /\ status \in Statuses
    /\ row \in [Chunks -> RowStatuses] /\ rowAge \in [Chunks -> 0..StuckAfter]
    /\ data \subseteq Nat \X Nat
    /\ pc \in [Chains -> Pcs] /\ at \in [Chains -> Workers]
    /\ mine \in [Chains -> Statuses]
    /\ ds \in [Chains -> Nat] /\ sym \in [Chains -> Nat]
    /\ since \in [Chains -> 0..LockTTL] /\ spent \in [Chains -> Nat]
    /\ rd \in [Readers -> {"off", "read", "lock", "heal", "drop"}]
    /\ st \in [Stops -> {"new", "read", "write", "sent"}]
    /\ asked \in [Chains -> {"no", "yes", "dropped", "lapsed"}]
    /\ stranded \subseteq Chunks /\ crashes \in Nat

\* "Run loop (single owner)": one chain at a time, whatever worker it runs in.
OneChain == \A c, d \in Chains : Live(c) /\ Live(d) => c = d

\* A missing lock means that the worker is gone (docstring of
\* _heal_if_orphaned): no live task is without its lock.
LockedWhileLive == \A c \in Chains : Live(c) => lock = c

\* The lock has expired under a chain that was at work.
Outlived == \E c \in Chains : asked[c] = "lapsed"

\* _refresh_lock extends a lock that the chain holds ("we already hold it"), until
\* one has expired under its chain.
RefreshOwn ==
    [][\A c \in Chains : pc[c] = "refresh" /\ lock' # lock => lock = c \/ Outlived]_vars

\* _release_lock never wipes the lock of another chain (its docstring), until one
\* has expired under its chain.
ReleaseOwn ==
    [][\A c \in Chains : pc[c] = "release" /\ pc'[c] = "over" /\ lock' # lock
                         => lock = c \/ Outlived]_vars

\* A stop requested while a chain runs is seen after the current chunk
\* (docstring of stop_chain): no further chunk passes the last check, unless a
\* request that saw no lock dropped the flag (_heal_if_orphaned), or the lock has
\* expired under the chain that held it.
StopObeyed ==
    [][\A c \in Chains : pc[c] = "gate" /\ pc'[c] = "claim"
                         => asked[c] # "yes" \/ Outlived]_vars

\* reset_stuck only takes back chunks that nobody is working on any more
\* (docstring of claim_chunk: re-claiming resets started_at so the stuck
\* detector is fresh).
ResetOnlyStuck ==
    [][\A k \in Chunks : row[k] = "running" /\ row'[k] = "pending"
                         => \A c \in Chains : ~Ingesting(c, k)]_vars

\* The ledger says "done" only of a chunk whose rows are committed, whatever
\* dies in between.
DoneIsWritten == \A k \in Chunks : row[k] = "done" => k \in data

\* Every way through ingest_chunk records an outcome: a row is "running" only
\* while a chain works on it, or after its chain broke off -- its worker died, the
\* database failed while the outcome was written, or there was no client -- and
\* nobody has claimed it since.
NoRowLeftRunning ==
    \A k \in Chunks : row[k] = "running"
                      => k \in stranded \/ \E c \in Chains : Ingesting(c, k)

\* A lock that expires lets the next start recover by itself (module
\* docstring): there is no host script here, so a start is refused for one only
\* when another chain is at work.
NoFalseConflict ==
    [][\A c \in Chains : pc[c] = "hostRow" /\ pc'[c] = "over"
                         => \E d \in Chains : Live(d)]_vars

\* A state left active by a chain that died is healed while somebody watches.
Orphan == Active(status) /\ lock = NoChain /\ \A c \in Chains : ~Holding(c)
OrphanHealed == Orphan ~> ~Active(status)
=============================================================================
