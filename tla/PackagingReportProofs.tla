------------------------ MODULE PackagingReportProofs ------------------------
(***************************************************************************)
(* Proofs that the reports of printPackageInfo come out whole and in      *)
(* order (ReportWellFormed of module Packaging).  The order of the lines  *)
(* of each report holds in every run; that no report is left half-way     *)
(* when package() returns holds exactly when no package size makes hrSize *)
(* raise, which the packaging_truncated run shows to be necessary.         *)
(***************************************************************************)
EXTENDS PackagingProofs

(***************************************************************************)
(* The inductive strengthening, on top of IInv.  A header or size line is *)
(* either followed by the next line of the same report, or is the last    *)
(* line and its thread is still reporting (or died there); the last line  *)
(* printed tells where the reporting thread is in printPackageInfo; once  *)
(* package() has returned every thread it started has finished.            *)
(***************************************************************************)
OpenInv ==
    \A i \in 1..Len(out) :
        out[i].kind \in {"created", "size"} =>
            \/ i < Len(out) /\ out[i + 1].b = out[i].b
            \/ i = Len(out) /\ pc[out[i].b] \in {"info", "sha", "dead"}

LastKindInv ==
    \A b \in Backends :
        /\ pc[b] = "info" => out[Len(out)].kind = "created"
        /\ pc[b] = "sha" => out[Len(out)].kind = "size"
        /\ pc[b] = "release" => out[Len(out)].kind \in {"failed", "sha"}
        /\ pc[b] = "dead" =>
              Len(out) > 0 /\ out[Len(out)].b = b
              /\ out[Len(out)].kind = "created"

JoinedInv ==
    mainPc = "done" => \A b \in Backends : pc[b] \in {"idle", "done", "dead"}

ReportInv == IInv /\ ReportOrder /\ OpenInv /\ LastKindInv /\ JoinedInv

\* No size a package can have makes hrSize raise: the hypothesis under
\* which package() returns only with complete reports.
NoSizeRaises == \A s \in Sizes : ~HrSizeRaises(s)

\* Under that hypothesis no thread dies inside the critical section.
NoDeadInv == \A b \in Backends : pc[b] # "dead"

\* Every line of the console was printed by one of the back-ends.
LEMMA LineOwner ==
    ASSUME NEW s \in Seq(OutputLines), NEW i \in 1..Len(s)
    PROVE  s[i] \in OutputLines /\ s[i].b \in Backends
<1>1. s[i] \in OutputLines
  OBVIOUS
<1>2. QED
  BY <1>1 DEF OutputLines

(***************************************************************************)
(* A line printed by the holder of the mutex.  The four cases are the     *)
(* print statements of createAppInstaller and printPackageInfo: the       *)
(* header, then FAILED or the size line, then the sha256sum line.          *)
(***************************************************************************)
LEMMA ReportPrint ==
    ASSUME ReportInv,
           NEW b \in Backends, NEW k \in LineKinds, NEW x \in ThreadStates,
           \/ pc[b] = "header" /\ k = "created" /\ x = "info"
           \/ pc[b] = "info" /\ k = "failed" /\ x = "release"
           \/ pc[b] = "info" /\ k = "size" /\ x = "sha"
           \/ pc[b] = "sha" /\ k = "sha" /\ x = "release",
           pc' = [pc EXCEPT ![b] = x],
           out' = Append(out, Line(b, k, OutPackage)),
           mainPc' = mainPc
    PROVE  ReportOrder' /\ OpenInv' /\ LastKindInv' /\ JoinedInv'
<1> DEFINE l == Line(b, k, OutPackage)
           n == Len(out)
<1>1. l \in OutputLines /\ l.b = b /\ l.kind = k
  BY LineTyped DEF Line
<1>2. /\ out \in Seq(OutputLines) /\ pc \in [Backends -> ThreadStates]
      /\ Len(out') = n + 1
      /\ \A i \in 1..n : out'[i] = out[i]
      /\ out'[n + 1] = l
  BY <1>1, AppendLine DEF ReportInv, IInv, TypeOK
<1>3. \A c \in Backends \ {b} : pc[c] \notin HoldingStates
  BY DEF ReportInv, IInv, LockInv, HoldingStates
<1>4. pc[b] \in {"info", "sha"} => n > 0 /\ out[n].b = b
  BY DEF ReportInv, IInv, LastLineInv, ReportingStates
<1>5. pc[b] = "header" => \A i \in 1..n : out[i].b # b
  BY DEF ReportInv, IInv, SilentInv, SilentStates
<1>6. /\ pc[b] = "info" => out[n].kind = "created"
      /\ pc[b] = "sha" => out[n].kind = "size"
  BY DEF ReportInv, LastKindInv
<1>7. JoinedInv'
  BY DEF ReportInv, JoinedInv
<1>8. ReportOrder'
  <2>1. ASSUME NEW i \in 1..n
        PROVE  /\ out'[i].kind = "created" =>
                     \A j \in 1..(i - 1) : out'[j].b # out'[i].b
               /\ out'[i].kind # "created" =>
                     /\ i > 1
                     /\ out'[i - 1].b = out'[i].b
                     /\ out'[i - 1].kind = Before[out'[i].kind]
    BY <1>2 DEF ReportInv, ReportOrder
  <2>2. k = "created" => \A j \in 1..n : out'[j].b # b
    BY <1>2, <1>5
  <2>3. k # "created" =>
           /\ n + 1 > 1
           /\ out'[n].b = b
           /\ out'[n].kind = Before[k]
    BY <1>2, <1>4, <1>6 DEF Before
  <2>4. QED
    BY <1>1, <1>2, <2>1, <2>2, <2>3 DEF ReportOrder
<1>9. OpenInv'
  <2>1. ASSUME NEW i \in 1..(n - 1), out[i].kind \in {"created", "size"}
        PROVE  out'[i + 1].b = out'[i].b
    BY <1>2, <2>1 DEF ReportInv, OpenInv
  <2>2. n > 0 /\ out[n].kind \in {"created", "size"} => out[n].b = b
    <3> SUFFICES ASSUME n > 0, out[n].kind \in {"created", "size"}
                 PROVE  out[n].b = b
      OBVIOUS
    <3>1. out[n].b \in Backends
      BY <1>2, LineOwner DEF n
    <3>2. pc[out[n].b] \in {"info", "sha", "dead"}
      BY DEF ReportInv, OpenInv, n
    <3>3. QED
      BY <1>3, <3>1, <3>2 DEF HoldingStates
  <2>3. k \in {"created", "size"} => x \in {"info", "sha"} /\ pc'[b] = x
    BY <1>2
  <2>4. QED
    BY <1>1, <1>2, <2>1, <2>2, <2>3 DEF OpenInv
<1>10. LastKindInv'
  <2>1. ASSUME NEW c \in Backends \ {b}
        PROVE  pc'[c] \notin {"info", "sha", "release", "dead"}
    BY <1>2, <1>3 DEF HoldingStates
  <2>2. /\ x = "info" => k = "created"
        /\ x = "sha" => k = "size"
        /\ x = "release" => k \in {"failed", "sha"}
        /\ x # "dead" /\ pc'[b] = x
    BY <1>2
  <2>3. QED
    BY <1>1, <1>2, <2>1, <2>2 DEF LastKindInv
<1>11. QED
  BY <1>7, <1>8, <1>9, <1>10

(***************************************************************************)
(* A step that prints nothing: a thread starts, produces its package or   *)
(* none, takes the lock, dies inside printPackageInfo, or releases.        *)
(***************************************************************************)
LEMMA QuietStep ==
    ASSUME ReportInv, out' = out, pc' \in [Backends -> ThreadStates],
           \A c \in Backends :
              \/ pc'[c] = pc[c]
              \/ pc[c] = "idle" /\ pc'[c] = "create"
              \/ pc[c] = "create" /\ pc'[c] \in {"acquire", "done"}
              \/ pc[c] = "acquire" /\ pc'[c] = "header"
              \/ pc[c] = "info" /\ pc'[c] = "dead"
              \/ pc[c] = "release" /\ pc'[c] = "done"
    PROVE  ReportOrder' /\ OpenInv' /\ LastKindInv'
<1>1. ReportOrder'
  BY DEF ReportInv, ReportOrder
<1>2. OpenInv'
  <2>1. \A c \in Backends :
           pc[c] \in {"info", "sha", "dead"} => pc'[c] \in {"info", "sha", "dead"}
    OBVIOUS
  <2>2. \A i \in 1..Len(out) : out[i].b \in Backends
    BY LineOwner DEF ReportInv, IInv, TypeOK
  <2>3. QED
    BY <2>1, <2>2 DEF ReportInv, OpenInv
<1>3. LastKindInv'
  <2>1. \A c \in Backends : pc[c] = "info" => Len(out) > 0 /\ out[Len(out)].b = c
    BY DEF ReportInv, IInv, LastLineInv, ReportingStates
  <2>2. QED
    BY <2>1 DEF ReportInv, LastKindInv
<1>4. QED
  BY <1>1, <1>2, <1>3

\* A thread step taken while package() has not returned: the stepping
\* thread is in none of the states JoinedInv allows once it has.
LEMMA BusyThread ==
    ASSUME JoinedInv, NEW b \in Backends,
           pc[b] \in {"create", "acquire", "header", "info", "sha", "release"},
           mainPc' = mainPc
    PROVE  JoinedInv'
BY DEF JoinedInv

LEMMA ReportStep == ReportInv /\ [Next]_vars => ReportInv'
<1> SUFFICES ASSUME ReportInv, [Next]_vars PROVE ReportInv'
  OBVIOUS
<1>0. IInv' /\ pc' \in [Backends -> ThreadStates] /\ JoinedInv
  BY IInvStep DEF ReportInv, IInv, TypeOK
<1> SUFFICES ReportOrder' /\ OpenInv' /\ LastKindInv' /\ JoinedInv'
  BY <1>0 DEF ReportInv
<1>1. ASSUME NEW b \in Backends, StartThread(b)
      PROVE  ReportOrder' /\ OpenInv' /\ LastKindInv' /\ JoinedInv'
  <2>1. pc[b] = "idle" /\ pc' = [pc EXCEPT ![b] = "create"] /\ out' = out
    BY <1>1 DEF StartThread, ReportInv, IInv, StartedInv
  <2>2. ReportOrder' /\ OpenInv' /\ LastKindInv'
    BY <1>0, <2>1, QuietStep DEF ReportInv, IInv, TypeOK
  <2>3. JoinedInv'
    BY <1>1 DEF StartThread, JoinedInv
  <2>4. QED
    BY <2>2, <2>3
<1>2. ASSUME NEW b \in Backends, CreateInstaller(b)
      PROVE  ReportOrder' /\ OpenInv' /\ LastKindInv' /\ JoinedInv'
  <2>1. /\ pc[b] = "create" /\ out' = out /\ mainPc' = mainPc
        /\ \E y \in {"acquire", "done"} : pc' = [pc EXCEPT ![b] = y]
    BY <1>2 DEF CreateInstaller
  <2>2. ReportOrder' /\ OpenInv' /\ LastKindInv'
    BY <1>0, <2>1, QuietStep DEF ReportInv, IInv, TypeOK
  <2>3. QED
    BY <1>0, <2>1, <2>2, BusyThread
<1>3. ASSUME NEW b \in Backends, Acquire(b)
      PROVE  ReportOrder' /\ OpenInv' /\ LastKindInv' /\ JoinedInv'
  <2>1. /\ pc[b] = "acquire" /\ out' = out /\ mainPc' = mainPc
        /\ pc' = [pc EXCEPT ![b] = "header"]
    BY <1>3 DEF Acquire
  <2>2. ReportOrder' /\ OpenInv' /\ LastKindInv'
    BY <1>0, <2>1, QuietStep DEF ReportInv, IInv, TypeOK
  <2>3. QED
    BY <1>0, <2>1, <2>2, BusyThread
<1>4. ASSUME NEW b \in Backends, PrintCreated(b)
      PROVE  ReportOrder' /\ OpenInv' /\ LastKindInv' /\ JoinedInv'
  BY <1>4, ReportPrint DEF PrintCreated, LineKinds, ThreadStates
<1>5. ASSUME NEW b \in Backends, PrintPackageInfo(b)
      PROVE  ReportOrder' /\ OpenInv' /\ LastKindInv' /\ JoinedInv'
  <2>1. pc[b] = "info" /\ mainPc' = mainPc
    BY <1>5 DEF PrintPackageInfo
  <2>2. CASE out' = Append(out, Line(b, "failed", OutPackage))
               /\ pc' = [pc EXCEPT ![b] = "release"]
    BY <2>1, <2>2, ReportPrint DEF LineKinds, ThreadStates
  <2>3. CASE out' = Append(out, Line(b, "size", OutPackage))
               /\ pc' = [pc EXCEPT ![b] = "sha"]
    BY <2>1, <2>3, ReportPrint DEF LineKinds, ThreadStates
  <2>4. CASE out' = out /\ pc' = [pc EXCEPT ![b] = "dead"]
    <3>1. ReportOrder' /\ OpenInv' /\ LastKindInv'
      BY <1>0, <2>1, <2>4, QuietStep DEF ReportInv, IInv, TypeOK
    <3>2. QED
      BY <1>0, <2>1, <3>1, BusyThread
  <2>5. QED
    BY <1>5, <2>2, <2>3, <2>4 DEF PrintPackageInfo
<1>6. ASSUME NEW b \in Backends, PrintSha(b)
      PROVE  ReportOrder' /\ OpenInv' /\ LastKindInv' /\ JoinedInv'
  BY <1>6, ReportPrint DEF PrintSha, LineKinds, ThreadStates
<1>7. ASSUME NEW b \in Backends, Release(b)
      PROVE  ReportOrder' /\ OpenInv' /\ LastKindInv' /\ JoinedInv'
  <2>1. /\ pc[b] = "release" /\ out' = out /\ mainPc' = mainPc
        /\ pc' = [pc EXCEPT ![b] = "done"]
    BY <1>7 DEF Release
  <2>2. ReportOrder' /\ OpenInv' /\ LastKindInv'
    BY <1>0, <2>1, QuietStep DEF ReportInv, IInv, TypeOK
  <2>3. QED
    BY <1>0, <2>1, <2>2, BusyThread
<1>8. CASE AllStarted
  BY <1>8 DEF AllStarted, ReportInv, ReportOrder, OpenInv, LastKindInv,
              JoinedInv
<1>9. CASE JoinAll
  <2>1. \A b \in Backends : pc[b] \in {"idle", "done", "dead"}
    BY <1>9 DEF JoinAll, ReportInv, IInv, TypeOK, StartedInv
  <2>2. QED
    BY <1>9, <2>1 DEF JoinAll, ReportInv, ReportOrder, OpenInv, LastKindInv,
                      JoinedInv
<1>10. CASE UNCHANGED vars
  BY <1>10 DEF vars, ReportInv, ReportOrder, OpenInv, LastKindInv, JoinedInv
<1>11. QED
  BY <1>1, <1>2, <1>3, <1>4, <1>5, <1>6, <1>7, <1>8, <1>9, <1>10
  DEF Next, Thread

LEMMA ReportInit == Init => ReportInv
<1> SUFFICES ASSUME Init PROVE ReportInv
  OBVIOUS
<1>1. IInv
  BY IInvInit
<1>2. QED
  BY <1>1 DEF Init, ReportInv, ReportOrder, OpenInv, LastKindInv, JoinedInv

\* The lines of every report of printPackageInfo come out in order, for
\* any number of packaging threads and any package sizes, including the
\* zero-byte package that kills a thread inside the critical section: a
\* back-end's first line is its header and each later line follows the
\* line before it in the report.
THEOREM ReportsInOrder == Spec => []ReportOrder
<1>1. ReportInv => ReportOrder
  BY DEF ReportInv
<1>2. QED
  BY <1>1, ReportInit, ReportStep, PTL DEF Spec

\* When no size makes hrSize raise, printPackageInfo never kills a thread.
LEMMA NoDeadStep ==
    ASSUME NoSizeRaises, ReportInv, NoDeadInv, [Next]_vars
    PROVE  NoDeadInv'
<1>1. files[OutPackage] # Absent => ~HrSizeRaises(files[OutPackage])
  <2>1. files \in [Paths -> Sizes \cup {Absent}] /\ OutPackage \in Paths
    BY PathsAssumption DEF ReportInv, IInv, TypeOK
  <2>2. QED
    BY <2>1 DEF NoSizeRaises
<1>2. pc \in [Backends -> ThreadStates]
  BY DEF ReportInv, IInv, TypeOK
<1>3. ASSUME NEW b \in Backends, PrintPackageInfo(b) PROVE NoDeadInv'
  <2>1. pc'[b] # "dead"
    BY <1>1, <1>2, <1>3 DEF PrintPackageInfo
  <2>2. \A c \in Backends \ {b} : pc'[c] = pc[c]
    BY <1>2, <1>3 DEF PrintPackageInfo
  <2>3. QED
    BY <2>1, <2>2 DEF NoDeadInv
<1>4. ASSUME NEW b \in Backends,
             \/ StartThread(b) \/ CreateInstaller(b) \/ Acquire(b)
             \/ PrintCreated(b) \/ PrintSha(b) \/ Release(b)
      PROVE  NoDeadInv'
  BY <1>2, <1>4 DEF StartThread, CreateInstaller, Acquire, PrintCreated,
                    PrintSha, Release, NoDeadInv
<1>5. CASE AllStarted \/ JoinAll \/ UNCHANGED vars
  BY <1>5 DEF AllStarted, JoinAll, vars, NoDeadInv
<1>6. QED
  BY <1>3, <1>4, <1>5 DEF Next, Thread

\* With every thread finished and none dead, no report is left open.
LEMMA ClosedWhenJoined ==
    ASSUME ReportInv, NoDeadInv, mainPc = "done"
    PROVE  ReportsClosed
<1> SUFFICES ASSUME NEW i \in 1..Len(out), out[i].kind \in {"created", "size"}
             PROVE  i < Len(out) /\ out[i + 1].b = out[i].b
  BY DEF ReportsClosed
<1>1. out[i].b \in Backends
  BY LineOwner DEF ReportInv, IInv, TypeOK
<1>2. pc[out[i].b] \in {"idle", "done"}
  BY <1>1 DEF ReportInv, JoinedInv, NoDeadInv
<1>3. QED
  BY <1>2 DEF ReportInv, OpenInv

\* When no package size makes hrSize raise, every report is whole and in
\* order by the time package() returns (the run's ReportWellFormed), for
\* any number of packaging threads: a thread that printed its header holds
\* the mutex until it has printed the rest, and package() returns only
\* once every thread it started has finished.  The hypothesis is needed:
\* a zero-byte package truncates the report (packaging_truncated).
THEOREM WellFormedReports ==
    ASSUME NoSizeRaises
    PROVE  Spec => []ReportWellFormed
<1>1. Init => ReportInv /\ NoDeadInv
  BY ReportInit DEF Init, NoDeadInv
<1>2. ReportInv /\ NoDeadInv /\ [Next]_vars => (ReportInv /\ NoDeadInv)'
  BY ReportStep, NoDeadStep
<1>3. ReportInv /\ NoDeadInv => ReportWellFormed
  BY ClosedWhenJoined DEF ReportInv, ReportWellFormed
<1>4. QED
  BY <1>1, <1>2, <1>3, PTL DEF Spec

=============================================================================
