--------------------------- MODULE ScanLockProofs ---------------------------
(***************************************************************************)
(* The lock and the flag of ScanLock keep scans apart, for any number of   *)
(* scans and processes, whatever expires, crashes or is cleared.           *)
(***************************************************************************)
EXTENDS ScanLock, TLAPS

LEMMA LockInitially == LockInit => LockInv
BY ScansAssumption
   DEF LockInit, LockInv, LockTypeOK, ScanPcs, HoldsUnlessLost, Locked, InScan,
       FlagIsUp, OneScanPerProcess, FlagHasScan

-----------------------------------------------------------------------------
\* The steps of a scan, one by one.
LEMMA ScanKeepsTypes ==
    ASSUME LockTypeOK, NEW a \in Scans,
           CallScan(a) \/ EnterStep(a) \/ FinishScan(a)
    PROVE  LockTypeOK'
<1> USE ScansAssumption DEF LockTypeOK, ScanPcs, ScanAt, ScanGoto, LowerFlag
<1>1. CASE CallScan(a)
  BY <1>1 DEF CallScan
<1>2. CASE CheckThrottle(a)
  BY <1>2 DEF CheckThrottle
<1>3. CASE AcquireLock(a)
  BY <1>3 DEF AcquireLock
<1>4. CASE CheckFlag(a)
  BY <1>4 DEF CheckFlag
<1>5. CASE MarkStarted(a)
  BY <1>5 DEF MarkStarted
<1>6. CASE FinishScan(a)
  BY <1>6 DEF FinishScan
<1>7. CASE ReleaseLock(a)
  BY <1>7 DEF ReleaseLock
<1> QED
  BY <1>1, <1>2, <1>3, <1>4, <1>5, <1>6, <1>7 DEF EnterStep

\* Only AcquireLock brings a scan to the lock, and only while it is free; only
\* ReleaseLock takes a lock away, and only the scan's own.
LEMMA ScanKeepsLocks ==
    ASSUME LockTypeOK, HoldsUnlessLost, NEW a \in Scans,
           CallScan(a) \/ EnterStep(a) \/ FinishScan(a)
    PROVE  HoldsUnlessLost'
<1> USE ScansAssumption
    DEF LockTypeOK, ScanPcs, HoldsUnlessLost, Locked, InScan, ScanAt, ScanGoto
<1>1. CASE AcquireLock(a)
  BY <1>1 DEF AcquireLock
<1>2. CASE ReleaseLock(a)
  BY <1>2 DEF ReleaseLock
<1>3. CASE CallScan(a) \/ CheckThrottle(a) \/ CheckFlag(a) \/ MarkStarted(a)
           \/ FinishScan(a)
  BY <1>3 DEF CallScan, CheckThrottle, CheckFlag, MarkStarted, FinishScan
<1> QED
  BY <1>1, <1>2, <1>3 DEF EnterStep

\* Without a clear, a scan starts only when the flag of its process is down,
\* so no other scan of the process can be running; and it takes the flag down
\* itself when it ends, so no other scan loses it.
LEMMA ScanKeepsFlags ==
    ASSUME LockTypeOK, FlagIsUp, OneScanPerProcess, NEW a \in Scans,
           CallScan(a) \/ EnterStep(a) \/ FinishScan(a)
    PROVE  FlagIsUp' /\ OneScanPerProcess'
<1> USE ScansAssumption
    DEF LockTypeOK, ScanPcs, InScan, FlagIsUp, OneScanPerProcess, ScanAt, ScanGoto,
        LowerFlag
<1>1. CASE CheckFlag(a)
  BY <1>1 DEF CheckFlag
<1>2. CASE FinishScan(a)
  BY <1>2 DEF FinishScan
<1>3. CASE CallScan(a) \/ CheckThrottle(a) \/ AcquireLock(a) \/ MarkStarted(a)
           \/ ReleaseLock(a)
  BY <1>3 DEF CallScan, CheckThrottle, AcquireLock, MarkStarted, ReleaseLock
<1> QED
  BY <1>1, <1>2, <1>3 DEF EnterStep

\* The scan that raises the flag is at work until it takes it down, or ends where
\* its write to redis throws, which leaves the process jammed.
LEMMA ScanKeepsFlagOwned ==
    ASSUME LockTypeOK, FlagHasScan, NEW a \in Scans,
           CallScan(a) \/ EnterStep(a) \/ FinishScan(a)
    PROVE  FlagHasScan'
<1> USE ScansAssumption
    DEF LockTypeOK, ScanPcs, InScan, FlagHasScan, ScanAt, ScanGoto, LowerFlag
<1>1. CASE CheckFlag(a)
  BY <1>1 DEF CheckFlag
<1>2. CASE FinishScan(a)
  BY <1>2 DEF FinishScan
<1>3. CASE MarkStarted(a)
  <2>1. CASE scan' = [scan EXCEPT ![a] = "body"] /\ jammed' = jammed
    BY <1>3, <2>1 DEF MarkStarted
  <2>2. CASE scan' = [scan EXCEPT ![a] = "done"]
    BY <1>3, <2>2 DEF MarkStarted
  <2> QED
    BY <1>3, <2>1, <2>2 DEF MarkStarted
<1>4. CASE CallScan(a) \/ CheckThrottle(a) \/ AcquireLock(a) \/ ReleaseLock(a)
  <2>1. scanning' = scanning /\ jammed' = jammed
    BY <1>4 DEF CallScan, CheckThrottle, AcquireLock, ReleaseLock
  <2>2. scan[a] \notin InScan /\ \A b \in Scans \ {a} : scan'[b] = scan[b]
    BY <1>4 DEF CallScan, CheckThrottle, AcquireLock, ReleaseLock
  <2> QED
    BY <2>1, <2>2
<1> QED
  BY <1>1, <1>2, <1>3, <1>4 DEF EnterStep

LEMMA ScanKeepsInv ==
    ASSUME LockInv, NEW a \in Scans, CallScan(a) \/ EnterStep(a) \/ FinishScan(a)
    PROVE  LockInv'
BY ScanKeepsTypes, ScanKeepsLocks, ScanKeepsFlags, ScanKeepsFlagOwned DEF LockInv

-----------------------------------------------------------------------------
\* Whoever loses the lock is remembered in lost.
LEMMA LossKeepsLocks ==
    ASSUME LockTypeOK, HoldsUnlessLost, LoseLock, UNCHANGED scan
    PROVE  HoldsUnlessLost' /\ lock' \in Scans \cup {NoScan} /\ lost' \in SUBSET Scans
BY ScansAssumption DEF LockTypeOK, HoldsUnlessLost, LoseLock

\* clearScannerLock: from its first step on, cleared is set.
LEMMA ClearKeepsInv ==
    ASSUME LockInv, NEW p \in Processes, BeginClear(p) \/ ClearStep(p)
    PROVE  LockInv'
<1> USE DEF LockInv
<1>1. CASE BeginClear(p)
  BY <1>1 DEF BeginClear, LockTypeOK, HoldsUnlessLost, FlagIsUp, OneScanPerProcess,
              FlagHasScan
<1>2. CASE ClearLock(p)
  <2>1. cleared /\ cleared' = cleared
    BY <1>2 DEF ClearLock, FlagIsUp, LockTypeOK
  <2>2. HoldsUnlessLost' /\ lock' \in Scans \cup {NoScan} /\ lost' \in SUBSET Scans
    <3>1. CASE LoseLock
      BY <1>2, <3>1, LossKeepsLocks DEF ClearLock
    <3>2. CASE UNCHANGED <<lock, lost>>
      BY <1>2, <3>2 DEF ClearLock, LockTypeOK, HoldsUnlessLost
    <3> QED
      BY <1>2, <3>1, <3>2 DEF ClearLock
  <2>3. LockTypeOK' /\ FlagHasScan'
    BY <1>2, <2>2 DEF ClearLock, LockTypeOK, FlagHasScan
  <2> QED
    BY <2>1, <2>2, <2>3 DEF FlagIsUp, OneScanPerProcess
<1>3. CASE ClearFlag(p)
  <2>1. cleared /\ cleared' = cleared
    BY <1>3 DEF ClearFlag, FlagIsUp, LockTypeOK
  <2>2. HoldsUnlessLost' /\ LockTypeOK' /\ FlagHasScan'
    BY <1>3 DEF ClearFlag, LowerFlag, LockTypeOK, HoldsUnlessLost, FlagHasScan
  <2> QED
    BY <2>1, <2>2 DEF FlagIsUp, OneScanPerProcess
<1> QED
  BY <1>1, <1>2, <1>3 DEF ClearStep

LEMMA ClockKeepsInv ==
    ASSUME LockInv, ClockStep
    PROVE  LockInv'
<1> USE DEF LockInv
<1>1. CASE LockExpires
  <2>1. HoldsUnlessLost' /\ LockTypeOK'
    BY <1>1, LossKeepsLocks DEF LockExpires, LockTypeOK
  <2> QED
    BY <1>1, <2>1 DEF LockExpires, FlagIsUp, OneScanPerProcess, FlagHasScan
<1>2. CASE IntervalPasses
  BY <1>2 DEF IntervalPasses, LockTypeOK, HoldsUnlessLost, FlagIsUp, OneScanPerProcess,
              FlagHasScan
<1> QED
  BY <1>1, <1>2 DEF ClockStep

\* The scans of a process that dies run no more; the others keep what they had.
LEMMA DeathKeepsInv ==
    ASSUME LockInv, NEW p \in Processes, ScannerDies(p)
    PROVE  LockInv'
<1> USE ScansAssumption DEF LockInv, ScannerDies, LowerFlag, LockTypeOK, ScanPcs
<1>1. LockTypeOK'
  OBVIOUS
<1>2. HoldsUnlessLost'
  BY DEF HoldsUnlessLost, Locked, InScan
<1>3. FlagIsUp' /\ OneScanPerProcess'
  BY DEF FlagIsUp, OneScanPerProcess, InScan
<1>4. FlagHasScan'
  BY DEF FlagHasScan, InScan
<1> QED
  BY <1>1, <1>2, <1>3, <1>4

-----------------------------------------------------------------------------
\* The inductive invariant, in every reachable state.
THEOREM LockInvariance == LockSpec => []LockInv
<1>1. LockInv /\ [LockNext]_lockVars => LockInv'
  <2> SUFFICES ASSUME LockInv, [LockNext]_lockVars
               PROVE  LockInv'
    OBVIOUS
  <2>1. CASE LockNext
    BY <2>1, ScanKeepsInv, ClearKeepsInv, ClockKeepsInv, DeathKeepsInv DEF LockNext
  <2>2. CASE UNCHANGED lockVars
    BY <2>2 DEF lockVars, LockInv, LockTypeOK, HoldsUnlessLost, FlagIsUp,
                OneScanPerProcess, FlagHasScan
  <2> QED
    BY <2>1, <2>2
<1> QED
  BY <1>1, LockInitially, PTL DEF LockSpec

\* Scans overlap only after one of them has lost its lock: two scans that kept
\* theirs would both be named by it.
THEOREM OverlapOnlyAfterLoss == LockSpec => []OverlapNeedsLoss
<1>1. LockInv => OverlapNeedsLoss
  BY DEF LockInv, HoldsUnlessLost, OverlapNeedsLoss, Locked, InScan
<1> QED
  BY <1>1, LockInvariance, PTL

\* Without a resume or start, a process runs one scan at a time, whatever
\* becomes of the lock.
THEOREM ScansExclude == LockSpec => []OneScanPerProcess
<1>1. LockInv => OneScanPerProcess
  BY DEF LockInv
<1> QED
  BY <1>1, LockInvariance, PTL

\* A flag that is up belongs to a scan at work, or a start of the process has
\* failed at its write to redis: no other way of ending a scan, no overlap and no
\* clear leaves it up.
THEOREM FlagOwned == LockSpec => []FlagHasScan
<1>1. LockInv => FlagHasScan
  BY DEF LockInv
<1> QED
  BY <1>1, LockInvariance, PTL

=============================================================================
