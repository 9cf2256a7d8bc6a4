-------------------------- MODULE PackagingProofs --------------------------
(***************************************************************************)
(* Proofs about the packaging stage (module Packaging) for every set of   *)
(* back-ends, paths and sizes: the type invariant, and that the reports    *)
(* of concurrent createAppInstaller threads never interleave, even when a *)
(* thread dies inside the critical section with the mutex held.           *)
(***************************************************************************)
EXTENDS Packaging, SequenceTheorems, TLAPS

\* Appending a line to the console output.
LEMMA AppendLine ==
    ASSUME NEW s \in Seq(OutputLines), NEW l \in OutputLines
    PROVE  /\ Append(s, l) \in Seq(OutputLines)
           /\ Len(Append(s, l)) = Len(s) + 1
           /\ \A i \in 1..Len(s) : Append(s, l)[i] = s[i]
           /\ Append(s, l)[Len(s) + 1] = l
  BY AppendProperties

\* A line a thread prints about self.outPackage is an output line.
LEMMA LineTyped ==
    ASSUME NEW b \in Backends, NEW k \in LineKinds
    PROVE  Line(b, k, OutPackage) \in OutputLines
  BY PathsAssumption DEF Line, OutputLines

\* Appending a line of back-end b keeps the blocks of the output unbroken
\* when b has printed nothing yet, or when b printed the last line.
LEMMA ContiguousAppend ==
    ASSUME NEW s \in Seq(OutputLines), NEW l \in OutputLines,
           Contiguous(s),
           \/ \A i \in 1..Len(s) : s[i].b # l.b
           \/ Len(s) > 0 /\ s[Len(s)].b = l.b
    PROVE  Contiguous(Append(s, l))
  <1> DEFINE t == Append(s, l)
  <1>1. /\ Len(t) = Len(s) + 1
        /\ \A i \in 1..Len(s) : t[i] = s[i]
        /\ t[Len(s) + 1] = l
    BY AppendLine
  <1>2. SUFFICES ASSUME NEW i \in 1..Len(t), NEW j \in 1..Len(t),
                        NEW k \in 1..Len(t),
                        i < j, j < k, t[i].b = t[k].b
                 PROVE  t[j].b = t[i].b
    BY DEF Contiguous
  <1>3. CASE k <= Len(s)
    BY <1>1, <1>2, <1>3 DEF Contiguous
  <1>4. CASE k = Len(s) + 1
    <2>1. s[i].b = l.b
      BY <1>1, <1>2, <1>4
    <2>2. Len(s) > 0 /\ s[Len(s)].b = l.b
      BY <2>1, <1>1, <1>2, <1>4
    <2>3. CASE j = Len(s)
      BY <2>2, <2>3, <1>1, <1>2, <1>4
    <2>4. CASE j < Len(s)
      BY <2>1, <2>2, <2>4, <1>1, <1>2, <1>4 DEF Contiguous
    <2>5. QED
      BY <2>3, <2>4, <1>1, <1>2, <1>4
  <1>5. QED
    BY <1>1, <1>2, <1>3, <1>4

-----------------------------------------------------------------------------
(***************************************************************************)
(* Type correctness.                                                       *)
(***************************************************************************)

LEMMA TypeStep == TypeOK /\ [Next]_vars => TypeOK'
  <1> SUFFICES ASSUME TypeOK, [Next]_vars PROVE TypeOK'
    OBVIOUS
  <1> USE DEF TypeOK, ThreadStates
  <1>1. ASSUME NEW b \in Backends, StartThread(b) PROVE TypeOK'
    BY <1>1 DEF StartThread
  <1>2. ASSUME NEW b \in Backends, CreateInstaller(b) PROVE TypeOK'
    BY <1>2, PathsAssumption DEF CreateInstaller
  <1>3. ASSUME NEW b \in Backends, Acquire(b) PROVE TypeOK'
    BY <1>3 DEF Acquire
  <1>4. ASSUME NEW b \in Backends, NEW k \in LineKinds,
               out' = Append(out, Line(b, k, OutPackage)),
               pc' \in [Backends -> ThreadStates],
               UNCHANGED <<threads, mainPc, started, lock, files>>
        PROVE  TypeOK'
    BY <1>4, AppendLine, LineTyped
  <1>5. ASSUME NEW b \in Backends, PrintCreated(b) PROVE TypeOK'
    BY <1>5, <1>4 DEF PrintCreated, LineKinds
  <1>6. ASSUME NEW b \in Backends, PrintPackageInfo(b) PROVE TypeOK'
    <2>1. CASE files[OutPackage] = Absent
                 /\ out' = Append(out, Line(b, "failed", OutPackage))
                 /\ pc' = [pc EXCEPT ![b] = "release"]
      BY <1>6, <2>1, <1>4 DEF PrintPackageInfo, LineKinds
    <2>2. CASE UNCHANGED out /\ pc' = [pc EXCEPT ![b] = "dead"]
      BY <1>6, <2>2 DEF PrintPackageInfo
    <2>3. CASE out' = Append(out, Line(b, "size", OutPackage))
                 /\ pc' = [pc EXCEPT ![b] = "sha"]
      BY <1>6, <2>3, <1>4 DEF PrintPackageInfo, LineKinds
    <2>4. QED
      BY <1>6, <2>1, <2>2, <2>3 DEF PrintPackageInfo
  <1>7. ASSUME NEW b \in Backends, PrintSha(b) PROVE TypeOK'
    BY <1>7, <1>4 DEF PrintSha, LineKinds
  <1>8. ASSUME NEW b \in Backends, Release(b) PROVE TypeOK'
    BY <1>8 DEF Release
  <1>9. CASE AllStarted
    BY <1>9 DEF AllStarted
  <1>10. CASE JoinAll
    BY <1>10 DEF JoinAll
  <1>11. CASE UNCHANGED vars
    BY <1>11 DEF vars
  <1>12. QED
    BY <1>1, <1>2, <1>3, <1>5, <1>6, <1>7, <1>8, <1>9, <1>10, <1>11
    DEF Next, Thread

\* Every reachable state of package() has the types TypeOK gives it.
THEOREM TypeCorrect == Spec => []TypeOK
  <1>1. Init => TypeOK
    BY DEF Init, TypeOK, ThreadStates
  <1>2. QED
    BY <1>1, TypeStep, PTL DEF Spec

-----------------------------------------------------------------------------
(***************************************************************************)
(* The reports of the threads never interleave.  ReportsContiguous is not *)
(* inductive by itself: a step appending a line of b keeps it only if b    *)
(* has printed nothing or printed the last line, which LockInv, SilentInv  *)
(* and LastLineInv (module Packaging) establish.                           *)
(***************************************************************************)

LEMMA IInvInit == Init => IInv
  <1> SUFFICES ASSUME Init PROVE IInv
    OBVIOUS
  <1>1. TypeOK
    BY DEF Init, TypeOK, ThreadStates
  <1>2. StartedInv /\ LockInv /\ SilentInv /\ LastLineInv
    BY DEF Init, StartedInv, LockInv, SilentInv, LastLineInv,
           HoldingStates, ReportingStates
  <1>3. ReportsContiguous
    BY DEF Init, ReportsContiguous, Contiguous
  <1>4. QED
    BY <1>1, <1>2, <1>3 DEF IInv

\* The invariants other than TypeOK, for the step proofs below.
LockParts == StartedInv /\ LockInv /\ SilentInv /\ LastLineInv

\* A report line printed by the holder of the mutex, which then goes on
\* printing (or releases).
LEMMA PrintStep ==
    ASSUME IInv, TypeOK',
           NEW b \in Backends, NEW k \in LineKinds, NEW x \in ReportingStates,
           pc[b] \in {"header", "info", "sha"},
           pc' = [pc EXCEPT ![b] = x],
           out' = Append(out, Line(b, k, OutPackage)),
           UNCHANGED <<threads, mainPc, started, lock, files>>
    PROVE  IInv'
  <1> DEFINE l == Line(b, k, OutPackage)
  <1>1. l \in OutputLines /\ l.b = b
    BY LineTyped DEF Line
  <1>2. /\ Len(out') = Len(out) + 1
        /\ \A i \in 1..Len(out) : out'[i] = out[i]
        /\ out'[Len(out) + 1] = l
    BY <1>1, AppendLine DEF IInv, TypeOK
  <1>3. lock = b
    BY DEF IInv, LockInv, HoldingStates
  <1>4. \A c \in Backends \ {b} : pc[c] \notin HoldingStates
    BY <1>3 DEF IInv, LockInv
  <1>5. ReportsContiguous'
    <2>1. CASE pc[b] = "header"
      BY <2>1, <1>1, ContiguousAppend
      DEF IInv, TypeOK, SilentInv, SilentStates, ReportsContiguous
    <2>2. CASE pc[b] \in {"info", "sha"}
      BY <2>2, <1>1, ContiguousAppend
      DEF IInv, TypeOK, LastLineInv, ReportingStates, ReportsContiguous
    <2>3. QED
      BY <2>1, <2>2
  <1>6. StartedInv'
    BY DEF IInv, TypeOK, StartedInv, ReportingStates
  <1>7. LockInv'
    BY <1>3, <1>4 DEF IInv, TypeOK, LockInv, ReportingStates, HoldingStates
  <1>8. SilentInv'
    BY <1>1, <1>2, <1>4
    DEF IInv, TypeOK, SilentInv, ReportingStates, SilentStates, HoldingStates
  <1>9. LastLineInv'
    BY <1>1, <1>2, <1>4
    DEF IInv, TypeOK, LastLineInv, ReportingStates, HoldingStates
  <1>10. QED
    BY <1>5, <1>6, <1>7, <1>8, <1>9 DEF IInv

LEMMA IInvStep == IInv /\ [Next]_vars => IInv'
  <1> SUFFICES ASSUME IInv, [Next]_vars PROVE IInv'
    OBVIOUS
  <1>0. TypeOK /\ TypeOK'
    BY TypeStep DEF IInv
  <1> USE <1>0 DEF IInv, LockParts, TypeOK, StartedInv, LockInv, SilentInv,
                   LastLineInv, HoldingStates, SilentStates, ReportingStates
  <1>1. ASSUME NEW b \in Backends, StartThread(b) PROVE IInv'
    BY <1>1 DEF StartThread, ReportsContiguous
  <1>2. ASSUME NEW b \in Backends, CreateInstaller(b) PROVE IInv'
    BY <1>2 DEF CreateInstaller, ReportsContiguous
  <1>3. ASSUME NEW b \in Backends, Acquire(b) PROVE IInv'
    BY <1>3, BackendsAssumption DEF Acquire, ReportsContiguous
  <1>4. ASSUME NEW b \in Backends, PrintCreated(b) PROVE IInv'
    BY <1>4, PrintStep DEF PrintCreated, LineKinds
  <1>5. ASSUME NEW b \in Backends, PrintPackageInfo(b) PROVE IInv'
    <2>1. CASE files[OutPackage] = Absent
                 /\ out' = Append(out, Line(b, "failed", OutPackage))
                 /\ pc' = [pc EXCEPT ![b] = "release"]
      BY <1>5, <2>1, PrintStep DEF PrintPackageInfo, LineKinds
    <2>2. CASE UNCHANGED out /\ pc' = [pc EXCEPT ![b] = "dead"]
      BY <1>5, <2>2, BackendsAssumption DEF PrintPackageInfo, ReportsContiguous
    <2>3. CASE out' = Append(out, Line(b, "size", OutPackage))
                 /\ pc' = [pc EXCEPT ![b] = "sha"]
      BY <1>5, <2>3, PrintStep DEF PrintPackageInfo, LineKinds
    <2>4. QED
      BY <1>5, <2>1, <2>2, <2>3 DEF PrintPackageInfo
  <1>6. ASSUME NEW b \in Backends, PrintSha(b) PROVE IInv'
    BY <1>6, PrintStep DEF PrintSha, LineKinds
  <1>7. ASSUME NEW b \in Backends, Release(b) PROVE IInv'
    BY <1>7, BackendsAssumption DEF Release, ReportsContiguous
  <1>8. CASE AllStarted
    BY <1>8 DEF AllStarted, ReportsContiguous
  <1>9. CASE JoinAll
    BY <1>9 DEF JoinAll, ReportsContiguous
  <1>10. CASE UNCHANGED vars
    BY <1>10 DEF vars, ReportsContiguous
  <1>11. QED
    BY <1>1, <1>2, <1>3, <1>4, <1>5, <1>6, <1>7, <1>8, <1>9, <1>10
    DEF Next, Thread

\* The mutex in createAppInstaller keeps the reports of concurrent
\* packaging threads apart: in every reachable state the lines each
\* back-end has printed form one unbroken block of the console output.
THEOREM ReportsNeverInterleave == Spec => []ReportsContiguous
  <1>1. IInv => ReportsContiguous
    BY DEF IInv
  <1>2. QED
    BY <1>1, IInvInit, IInvStep, PTL DEF Spec

\* The mutex bookkeeping of the threads (the run's IInv) holds in every
\* reachable state: the lock is held exactly by the thread inside the
\* critical section, a thread prints nothing before it holds it, and the
\* thread reporting printed the last line.
THEOREM MutexInvariant == Spec => []IInv
  BY IInvInit, IInvStep, PTL DEF Spec

\* The body of PrintOnlyUnderMutex, as a relation between two states.
AppendByHolder ==
    out' # out =>
        /\ Len(out') = Len(out) + 1
        /\ \A i \in 1..Len(out) : out'[i] = out[i]
        /\ out'[Len(out')].b = lock

\* A report line appended by a thread inside the critical section.
LEMMA HolderAppends ==
    ASSUME IInv, NEW b \in Backends, NEW k \in LineKinds,
           pc[b] \in {"header", "info", "sha"},
           out' = Append(out, Line(b, k, OutPackage)), lock' = lock
    PROVE  AppendByHolder
  <1>1. Line(b, k, OutPackage) \in OutputLines /\ Line(b, k, OutPackage).b = b
    BY LineTyped DEF Line
  <1>2. /\ Len(out') = Len(out) + 1
        /\ \A i \in 1..Len(out) : out'[i] = out[i]
        /\ out'[Len(out) + 1] = Line(b, k, OutPackage)
    BY <1>1, AppendLine DEF IInv, TypeOK
  <1>3. lock = b
    BY DEF IInv, LockInv, HoldingStates
  <1>4. QED
    BY <1>1, <1>2, <1>3 DEF AppendByHolder

\* Every step either leaves the console alone or appends a line of the
\* thread holding the mutex.
LEMMA AppendStep == IInv /\ [Next]_vars => AppendByHolder
  <1> SUFFICES ASSUME IInv, [Next]_vars PROVE AppendByHolder
    OBVIOUS
  <1>1. CASE UNCHANGED out
    BY <1>1 DEF AppendByHolder
  <1>2. ASSUME NEW b \in Backends, PrintCreated(b) PROVE AppendByHolder
    BY <1>2, HolderAppends DEF PrintCreated, LineKinds
  <1>3. ASSUME NEW b \in Backends, PrintPackageInfo(b) PROVE AppendByHolder
    <2>1. CASE out' = Append(out, Line(b, "failed", OutPackage))
      BY <1>3, <2>1, HolderAppends DEF PrintPackageInfo, LineKinds
    <2>2. CASE out' = Append(out, Line(b, "size", OutPackage))
      BY <1>3, <2>2, HolderAppends DEF PrintPackageInfo, LineKinds
    <2>3. QED
      BY <1>1, <1>3, <2>1, <2>2 DEF PrintPackageInfo
  <1>4. ASSUME NEW b \in Backends, PrintSha(b) PROVE AppendByHolder
    BY <1>4, HolderAppends DEF PrintSha, LineKinds
  <1>5. QED
    BY <1>1, <1>2, <1>3, <1>4
    DEF Next, Thread, StartThread, CreateInstaller, Acquire, Release,
        AllStarted, JoinAll, vars

\* Only the holder of the mutex writes to the console (the run's
\* PrintOnlyUnderMutex), for any number of threads and any package sizes:
\* each print of the report runs in a state where the thread owns the lock,
\* and prints only append.
THEOREM PrintsUnderMutex == Spec => PrintOnlyUnderMutex
  <1>1. IInv /\ [Next]_vars => [AppendByHolder]_vars
    BY AppendStep
  <1>2. QED
    BY <1>1, IInvInit, IInvStep, PTL DEF Spec, PrintOnlyUnderMutex, AppendByHolder

=============================================================================
