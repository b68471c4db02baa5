------------------------------ MODULE ScanLock ------------------------------
(***************************************************************************)
(* How ScannerService.runScan keeps scans apart: the throttle and the lock *)
(* with a time to live in redis, shared by the processes of the bot, and   *)
(* the flag "scanning" in the memory of each.  clearScannerLock, which     *)
(* resume and start call, takes the lock and the flag away from whoever    *)
(* has them.  What a scan does between taking and releasing them is left   *)
(* to Scanner.                                                             *)
(***************************************************************************)
EXTENDS Naturals, FiniteSets

CONSTANTS
    Scans,      \* invocations of runScan: each runs once, and the random
                \* token it locks with is its name
    Processes,  \* backend processes that share the redis
    ProcessOf,  \* the process that runs a scan
    LockEvents, \* what may happen to the lock here: "clear", "expire", "crash",
                \* "redis" (a request to redis throws)
    NoScan

ASSUME ScansAssumption ==
    /\ ProcessOf \in [Scans -> Processes]
    /\ NoScan \notin Scans

VARIABLES
    scan,       \* the await each scan is suspended at
    lock,       \* redis scanner:run-lock, the scan whose token it holds
    throttled,  \* scanner:last-started-at lies within the interval
    scanning,   \* the flag of each process
    clearing,   \* progress of clearScannerLock in each process
    lost,       \* history: the scans whose lock expired or was deleted
    cleared,    \* history: whether clearScannerLock was ever called
    jammed      \* history: the processes whose flag a scan has left up for good

lockVars == <<scan, lock, throttled, scanning, clearing, lost, cleared, jammed>>

\* After the lock is taken the flag is tested; the scan proper is "begin" and
\* "body".
ScanPcs == {"idle", "throttle", "lock", "flag", "begin", "body", "release",
            "done", "dead"}

\* The scan has set the flag and not yet reset it.
InScan == {"begin", "body"}

\* The scan has taken the lock and not yet given it back.
Locked == {"flag", "release"} \cup InScan

LockTypeOK ==
    /\ scan \in [Scans -> ScanPcs]
    /\ lock \in Scans \cup {NoScan}
    /\ throttled \in BOOLEAN
    /\ scanning \in [Processes -> BOOLEAN]
    /\ clearing \in [Processes -> {"no", "delete", "flag"}]
    /\ lost \in SUBSET Scans
    /\ cleared \in BOOLEAN
    /\ jammed \in SUBSET Processes

LockInit ==
    /\ scan = [a \in Scans |-> "idle"]
    /\ lock = NoScan
    /\ throttled = FALSE
    /\ scanning = [p \in Processes |-> FALSE]
    /\ clearing = [p \in Processes |-> "no"]
    /\ lost = {}
    /\ cleared = FALSE
    /\ jammed = {}

ScanAt(a, pc) == scan[a] = pc
ScanGoto(a, pc) == scan' = [scan EXCEPT ![a] = pc]

\* A request to redis may throw, whether or not redis has carried it out.
RedisThrows == "redis" \in LockEvents

\* The flag of a process is taken down, by whoever does it.
LowerFlag(p) ==
    /\ scanning' = [scanning EXCEPT ![p] = FALSE]
    /\ jammed' = jammed \ {p}

-----------------------------------------------------------------------------
\* The scheduler, the dashboard, start or the monitor call runScan.
CallScan(a) ==
    /\ ScanAt(a, "idle")
    /\ ScanGoto(a, "throttle")
    /\ UNCHANGED <<lock, throttled, scanning, clearing, lost, cleared, jammed>>

CheckThrottle(a) ==
    /\ ScanAt(a, "throttle")
    /\ \/ ScanGoto(a, IF throttled THEN "done" ELSE "lock")
       \/ RedisThrows /\ ScanGoto(a, "done")
    /\ UNCHANGED <<lock, throttled, scanning, clearing, lost, cleared, jammed>>

\* SET NX PX.  A lock set by a request that throws stays until it expires.
AcquireLock(a) ==
    /\ ScanAt(a, "lock")
    /\ \/ lock = NoScan /\ lock' = a /\ ScanGoto(a, "flag")
       \/ lock # NoScan /\ lock' = lock /\ ScanGoto(a, "done")
       \/ /\ RedisThrows
          /\ lock' \in IF lock = NoScan THEN {NoScan, a} ELSE {lock}
          /\ ScanGoto(a, "done")
    /\ UNCHANGED <<throttled, scanning, clearing, lost, cleared, jammed>>

\* Faulty variant: the lock is trusted, the flag is not tested.
CheckFlagTrusting(a) ==
    /\ ScanAt(a, "flag")
    /\ scanning' = [scanning EXCEPT ![ProcessOf[a]] = TRUE]
    /\ ScanGoto(a, "begin")
    /\ UNCHANGED <<lock, throttled, clearing, lost, cleared, jammed>>

\* Testing and setting the flag is one stretch of code.
CheckFlag(a) ==
    /\ ScanAt(a, "flag")
    /\ IF scanning[ProcessOf[a]]
       THEN ScanGoto(a, "release") /\ UNCHANGED scanning
       ELSE /\ scanning' = [scanning EXCEPT ![ProcessOf[a]] = TRUE]
            /\ ScanGoto(a, "begin")
    /\ UNCHANGED <<lock, throttled, clearing, lost, cleared, jammed>>

\* The flag is up and the lock held, but the try begins only after this request:
\* if it throws, the call ends with both left as they are.
MarkStarted(a) ==
    /\ ScanAt(a, "begin")
    /\ \/ ScanGoto(a, "body") /\ throttled' = TRUE /\ UNCHANGED jammed
       \/ /\ RedisThrows
          /\ ScanGoto(a, "done")
          /\ throttled' = TRUE \/ UNCHANGED throttled
          /\ jammed' = IF scanning[ProcessOf[a]] THEN jammed \cup {ProcessOf[a]} ELSE jammed
    /\ UNCHANGED <<lock, scanning, clearing, lost, cleared>>

\* Faulty variant: an early return around the finally block.
FinishScanEarly(a) ==
    /\ ScanAt(a, "body")
    /\ ScanGoto(a, "release")
    /\ UNCHANGED <<lock, throttled, scanning, clearing, lost, cleared, jammed>>

\* The finally block, whether _runScan returned or threw.
FinishScan(a) ==
    /\ ScanAt(a, "body")
    /\ LowerFlag(ProcessOf[a])
    /\ ScanGoto(a, "release")
    /\ UNCHANGED <<lock, throttled, clearing, lost, cleared>>

\* Faulty variant: DEL without comparing the token.
ReleaseLockBlindly(a) ==
    /\ ScanAt(a, "release")
    /\ lock' = NoScan
    /\ ScanGoto(a, "done")
    /\ UNCHANGED <<throttled, scanning, clearing, lost, cleared, jammed>>

\* The script compares the token before it deletes.
ReleaseLock(a) ==
    /\ ScanAt(a, "release")
    /\ \/ lock' = IF lock = a THEN NoScan ELSE lock
       \/ RedisThrows /\ lock' = lock
    /\ ScanGoto(a, "done")
    /\ UNCHANGED <<throttled, scanning, clearing, lost, cleared, jammed>>

-----------------------------------------------------------------------------
\* clearScannerLock: DEL, and one await later the flag, unless the DEL throws.
BeginClear(p) ==
    /\ "clear" \in LockEvents
    /\ clearing[p] = "no"
    /\ clearing' = [clearing EXCEPT ![p] = "delete"]
    /\ cleared' = TRUE
    /\ UNCHANGED <<scan, lock, throttled, scanning, lost, jammed>>

LoseLock ==
    /\ lost' = lost \cup ({lock} \ {NoScan})
    /\ lock' = NoScan

ClearLock(p) ==
    /\ clearing[p] = "delete"
    /\ \/ LoseLock /\ clearing' = [clearing EXCEPT ![p] = "flag"]
       \/ /\ RedisThrows
          /\ LoseLock \/ UNCHANGED <<lock, lost>>
          /\ clearing' = [clearing EXCEPT ![p] = "no"]
    /\ UNCHANGED <<scan, throttled, scanning, cleared, jammed>>

ClearFlag(p) ==
    /\ clearing[p] = "flag"
    /\ LowerFlag(p)
    /\ clearing' = [clearing EXCEPT ![p] = "no"]
    /\ UNCHANGED <<scan, lock, throttled, lost, cleared>>

ClearStep(p) == ClearLock(p) \/ ClearFlag(p)

-----------------------------------------------------------------------------
\* Faulty variant: SET NX without a time to live.
LockExpiresNever == FALSE /\ UNCHANGED lockVars

\* Thirty minutes pass; the interval passes.
LockExpires ==
    /\ "expire" \in LockEvents
    /\ lock # NoScan
    /\ LoseLock
    /\ UNCHANGED <<scan, throttled, scanning, clearing, cleared, jammed>>

IntervalPasses ==
    /\ throttled
    /\ throttled' = FALSE
    /\ UNCHANGED <<scan, lock, scanning, clearing, lost, cleared, jammed>>

\* A process dies with its scans and its flag; redis remembers.
ScannerDies(p) ==
    /\ "crash" \in LockEvents
    /\ \E a \in Scans : ProcessOf[a] = p /\ scan[a] \notin {"idle", "done", "dead"}
    /\ scan' = [a \in Scans |->
                  IF ProcessOf[a] = p /\ scan[a] \notin {"idle", "done"}
                  THEN "dead" ELSE scan[a]]
    /\ LowerFlag(p)
    /\ clearing' = [clearing EXCEPT ![p] = "no"]
    /\ UNCHANGED <<lock, throttled, lost, cleared>>

-----------------------------------------------------------------------------
\* The steps by which a scan comes to its body and leaves it.
EnterStep(a) ==
    \/ CheckThrottle(a) \/ AcquireLock(a) \/ CheckFlag(a) \/ MarkStarted(a)
    \/ ReleaseLock(a)

ClockStep == LockExpires \/ IntervalPasses

LockNext ==
    \/ \E a \in Scans : CallScan(a) \/ EnterStep(a) \/ FinishScan(a)
    \/ \E p \in Processes : BeginClear(p) \/ ClearStep(p) \/ ScannerDies(p)
    \/ ClockStep

LockSpec == LockInit /\ [][LockNext]_lockVars

\* Scans come to an end, redis forgets the lock after thirty minutes.
LockFairness ==
    /\ \A a \in Scans : WF_lockVars(EnterStep(a) \/ FinishScan(a))
    /\ \A p \in Processes : WF_lockVars(ClearStep(p))
    /\ WF_lockVars(LockExpires)

LockFairSpec == LockSpec /\ LockFairness

-----------------------------------------------------------------------------
\* The purpose of the lock (lines 74-78): scans of different processes, and of
\* one whose flag was cleared, overlap only if one of them has lost its lock
\* to the clock or to clearScannerLock.
OverlapNeedsLoss ==
    \A a, b \in Scans :
        scan[a] \in InScan /\ scan[b] \in InScan /\ a # b
            => {a, b} \cap lost # {}

\* The purpose of the flag (lines 80-84): unless the operator clears it, one
\* process runs one scan at a time, even if the lock expires under it.
OneScanPerProcess ==
    ~cleared =>
        \A a, b \in Scans :
            /\ scan[a] \in InScan /\ scan[b] \in InScan
            /\ ProcessOf[a] = ProcessOf[b]
            => a = b

\* The lock does not outlive its scan for good, not even that of a process
\* which died.
LockIsFreed == \A a \in Scans : lock = a ~> lock # a

\* The flag has no time to live, and a process whose flag is up scans no more
\* until it is resumed or restarted: it is up only for a scan at work, which
\* ends, or since the write to redis before the try (line 85) has thrown.
FlagHasScan ==
    \A p \in Processes : scanning[p] =>
        p \in jammed \/ \E a \in Scans : ProcessOf[a] = p /\ scan[a] \in InScan

-----------------------------------------------------------------------------
(* The inductive strengthening. *)

\* A scan keeps its lock until it gives it back, unless it loses it.
HoldsUnlessLost == \A a \in Scans : scan[a] \in Locked => lock = a \/ a \in lost

\* Nobody has reset the flag under a scan.
FlagIsUp ==
    ~cleared => /\ \A p \in Processes : clearing[p] = "no"
                /\ \A a \in Scans : scan[a] \in InScan => scanning[ProcessOf[a]]

LockInv ==
    /\ LockTypeOK
    /\ HoldsUnlessLost
    /\ FlagIsUp
    /\ OneScanPerProcess
    /\ FlagHasScan

=============================================================================
