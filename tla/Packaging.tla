----------------------------- MODULE Packaging -----------------------------
(***************************************************************************)
(* The packaging stage of the deploy scripts (Deploy.package,             *)
(* Deploy.createAppInstaller and Deploy.printPackageInfo, identical in     *)
(* deploy_windows.py, deploy_mac.py and deploy_posix_windows.py).          *)
(*                                                                         *)
(* package() spawns one thread per detected packaging tool, starts them   *)
(* all, then joins them all.  Each thread runs createAppInstaller: it asks *)
(* the installer back-end for a package (createInstaller, a collaborator   *)
(* outside this repository), returns silently when none is produced, and  *)
(* otherwise prints a report of self.outPackage between mutex.acquire()    *)
(* and mutex.release().  The report calls hrSize, which raises on a        *)
(* zero-byte file (math.log(0)); an exception leaves the thread with the   *)
(* lock still held, since there is no try/finally around the section.     *)
(*                                                                         *)
(* Data is abstracted: a path is a model value, a file is its size (or     *)
(* Absent), and a printed line is the record of who printed what kind of   *)
(* line about which path.                                                  *)
(***************************************************************************)
EXTENDS Naturals, Sequences, HrSize

CONSTANTS
    Backends,    \* the packaging tools package() may detect
    Paths,       \* the package files the back-ends can produce
    Artifact,    \* Artifact[b]: the file back-end b writes
    OutPackage,  \* self.outPackage, the path every report prints
    Sizes,       \* the byte sizes a produced package may have
    Absent,      \* marks a path with no file on disk
    NoOwner      \* the value of lock when nobody holds the mutex

ASSUME BackendsAssumption == Backends # {} /\ NoOwner \notin Backends
ASSUME PathsAssumption ==
    /\ Artifact \in [Backends -> Paths]
    /\ OutPackage \in Paths
ASSUME SizesAssumption == Sizes \subseteq Nat /\ Absent \notin Sizes

VARIABLES
    threads,     \* the threads package() created (one per detected tool)
    mainPc,      \* where package() is: "start", "join" or "done"
    started,     \* the threads already started
    pc,          \* pc[b]: where thread b is in createAppInstaller
    lock,        \* the holder of mutex, or NoOwner
    files,       \* files[p]: the size of the file at p, or Absent
    out          \* the console output, as a sequence of lines

vars == <<threads, mainPc, started, pc, lock, files, out>>

ThreadStates ==
    {"idle", "create", "acquire", "header", "info", "sha", "release",
     "done", "dead"}

LineKinds == {"created", "size", "sha", "failed"}

OutputLines == [b : Backends, kind : LineKinds, path : Paths]

Line(b, kind, p) == [b |-> b, kind |-> kind, path |-> p]

\* hrSize(size) raises: ValueError from math.log(0), IndexError past TiB.
HrSizeRaises(size) == HrSize(size).error # "none"

TypeOK ==
    /\ threads \subseteq Backends
    /\ mainPc \in {"start", "join", "done"}
    /\ started \subseteq threads
    /\ pc \in [Backends -> ThreadStates]
    /\ lock \in Backends \cup {NoOwner}
    /\ files \in [Paths -> Sizes \cup {Absent}]
    /\ out \in Seq(OutputLines)

\* Files left in the packages directory by an earlier run are possible:
\* nothing in the scripts clears it.
Init ==
    /\ threads \in SUBSET Backends
    /\ mainPc = "start"
    /\ started = {}
    /\ pc = [b \in Backends |-> "idle"]
    /\ lock = NoOwner
    /\ files \in [Paths -> Sizes \cup {Absent}]
    /\ out = <<>>

(***************************************************************************)
(* Mutants: plausible slips in the code below, used to confirm that the   *)
(* properties at the end of the module notice them.                       *)
(***************************************************************************)
\* Starting a thread that was never put in the threads list.
StartThreadAny(b) ==
    /\ mainPc = "start"
    /\ b \notin started
    /\ started' = started \cup {b}
    /\ pc' = [pc EXCEPT ![b] = "create"]
    /\ UNCHANGED <<threads, mainPc, lock, files, out>>

\* Printing the report without mutex.acquire().
AcquireUnlocked(b) ==
    /\ pc[b] = "acquire"
    /\ lock' = b
    /\ pc' = [pc EXCEPT ![b] = "header"]
    /\ UNCHANGED <<threads, mainPc, started, files, out>>

\* printPackageInfo forgetting the sha256sum line.
PrintPackageInfoNoSha(b) ==
    /\ pc[b] = "info"
    /\ \/ /\ files[OutPackage] = Absent
          /\ out' = Append(out, Line(b, "failed", OutPackage))
          /\ pc' = [pc EXCEPT ![b] = "release"]
       \/ /\ files[OutPackage] # Absent
          /\ HrSizeRaises(files[OutPackage])
          /\ pc' = [pc EXCEPT ![b] = "dead"]
          /\ UNCHANGED out
       \/ /\ files[OutPackage] # Absent
          /\ ~HrSizeRaises(files[OutPackage])
          /\ out' = Append(out, Line(b, "size", OutPackage))
          /\ pc' = [pc EXCEPT ![b] = "release"]
    /\ UNCHANGED <<threads, mainPc, started, lock, files>>

\* A missing mutex.release().
ReleaseKeepsLock(b) ==
    /\ pc[b] = "release"
    /\ pc' = [pc EXCEPT ![b] = "done"]
    /\ UNCHANGED <<threads, mainPc, started, lock, files, out>>

(***************************************************************************)
(* package(): the start loop, then the join loop.                         *)
(***************************************************************************)
StartThread(b) ==
    /\ mainPc = "start"
    /\ b \in threads \ started
    /\ started' = started \cup {b}
    /\ pc' = [pc EXCEPT ![b] = "create"]
    /\ UNCHANGED <<threads, mainPc, lock, files, out>>

AllStarted ==
    /\ mainPc = "start"
    /\ started = threads
    /\ mainPc' = "join"
    /\ UNCHANGED <<threads, started, pc, lock, files, out>>

\* thread.join() in list order returns once every thread has finished,
\* normally or by an exception.
JoinAll ==
    /\ mainPc = "join"
    /\ \A b \in threads : pc[b] \in {"done", "dead"}
    /\ mainPc' = "done"
    /\ UNCHANGED <<threads, started, pc, lock, files, out>>

(***************************************************************************)
(* createAppInstaller(mutex), one thread per back-end.                    *)
(***************************************************************************)
\* packagePath = self.createInstaller(); if not packagePath: return
CreateInstaller(b) ==
    /\ pc[b] = "create"
    /\ \/ /\ \E s \in Sizes : files' = [files EXCEPT ![Artifact[b]] = s]
          /\ pc' = [pc EXCEPT ![b] = "acquire"]
       \/ /\ pc' = [pc EXCEPT ![b] = "done"]
          /\ UNCHANGED files
    /\ UNCHANGED <<threads, mainPc, started, lock, out>>

Acquire(b) ==
    /\ pc[b] = "acquire"
    /\ lock = NoOwner
    /\ lock' = b
    /\ pc' = [pc EXCEPT ![b] = "header"]
    /\ UNCHANGED <<threads, mainPc, started, files, out>>

\* print('Created installable package:')
PrintCreated(b) ==
    /\ pc[b] = "header"
    /\ out' = Append(out, Line(b, "created", OutPackage))
    /\ pc' = [pc EXCEPT ![b] = "info"]
    /\ UNCHANGED <<threads, mainPc, started, lock, files>>

\* printPackageInfo(self.outPackage), up to the sha256sum line: FAILED when
\* the file is missing, an exception out of hrSize, or the size line.
PrintPackageInfo(b) ==
    /\ pc[b] = "info"
    /\ \/ /\ files[OutPackage] = Absent
          /\ out' = Append(out, Line(b, "failed", OutPackage))
          /\ pc' = [pc EXCEPT ![b] = "release"]
       \/ /\ files[OutPackage] # Absent
          /\ HrSizeRaises(files[OutPackage])
          /\ pc' = [pc EXCEPT ![b] = "dead"]
          /\ UNCHANGED out
       \/ /\ files[OutPackage] # Absent
          /\ ~HrSizeRaises(files[OutPackage])
          /\ out' = Append(out, Line(b, "size", OutPackage))
          /\ pc' = [pc EXCEPT ![b] = "sha"]
    /\ UNCHANGED <<threads, mainPc, started, lock, files>>

\* print('    sha256sum:', Deploy.sha256sum(path))
PrintSha(b) ==
    /\ pc[b] = "sha"
    /\ out' = Append(out, Line(b, "sha", OutPackage))
    /\ pc' = [pc EXCEPT ![b] = "release"]
    /\ UNCHANGED <<threads, mainPc, started, lock, files>>

Release(b) ==
    /\ pc[b] = "release"
    /\ lock' = NoOwner
    /\ pc' = [pc EXCEPT ![b] = "done"]
    /\ UNCHANGED <<threads, mainPc, started, files, out>>

Thread(b) ==
    \/ CreateInstaller(b)
    \/ Acquire(b)
    \/ PrintCreated(b)
    \/ PrintPackageInfo(b)
    \/ PrintSha(b)
    \/ Release(b)

Next ==
    \/ \E b \in Backends : StartThread(b) \/ Thread(b)
    \/ AllStarted
    \/ JoinAll

\* Python threads are preemptively scheduled, so every runnable thread,
\* the main one included, keeps getting turns.
Fairness ==
    /\ WF_vars(AllStarted)
    /\ WF_vars(JoinAll)
    /\ \A b \in Backends : WF_vars(StartThread(b)) /\ WF_vars(Thread(b))

\* Once package() has returned the deploy script exits, so a state with
\* mainPc = "done" has no successor; every other state without one is a
\* hang, which Termination reports.
Spec == Init /\ [][Next]_vars

FairSpec == Spec /\ Fairness

(***************************************************************************)
(* Properties.                                                             *)
(***************************************************************************)
\* In a report of printPackageInfo, the line that comes right before a line
\* of each kind: the size line and FAILED follow "Created installable
\* package:", the sha256sum line follows the size line.
Before == [size |-> "created", failed |-> "created", sha |-> "size"]

\* In s, the lines of any one back-end are consecutive.
Contiguous(s) ==
    \A i, j, k \in 1..Len(s) :
        (i < j /\ j < k /\ s[i].b = s[k].b) => s[j].b = s[i].b

\* The mutex around the report in createAppInstaller: the lines one
\* back-end prints form one unbroken block of the console output, whatever
\* the order in which the threads run.
ReportsContiguous == Contiguous(out)

(***************************************************************************)
(* The inductive strengthening of ReportsContiguous that the proof in     *)
(* PackagingProofs uses: the mutex is held exactly by the threads between *)
(* acquire() and release() (or killed in between); a thread prints nothing *)
(* before it holds the mutex; while it reports, the last line printed is  *)
(* its own.                                                                *)
(***************************************************************************)
HoldingStates == {"header", "info", "sha", "release", "dead"}

SilentStates == {"idle", "create", "acquire", "header"}

ReportingStates == {"info", "sha", "release"}

StartedInv == \A b \in Backends : b \notin started => pc[b] = "idle"

LockInv ==
    /\ \A b \in Backends : pc[b] \in HoldingStates => lock = b
    /\ lock # NoOwner => pc[lock] \in HoldingStates

SilentInv ==
    \A b \in Backends :
        pc[b] \in SilentStates => \A i \in 1..Len(out) : out[i].b # b

LastLineInv ==
    \A b \in Backends :
        pc[b] \in ReportingStates => Len(out) > 0 /\ out[Len(out)].b = b

\* The invariant is checked by TLC and proved by TLAPS to be inductive.
IInv ==
    /\ TypeOK
    /\ StartedInv
    /\ LockInv
    /\ SilentInv
    /\ LastLineInv
    /\ ReportsContiguous

\* printPackageInfo: a back-end's report is "Created installable package:"
\* followed by either the size and sha256sum lines or FAILED.  Line by
\* line: a back-end's first line is its header, and every other line comes
\* right after the line of the same back-end that precedes it in the
\* report, so the report is never reordered, repeated or split.
ReportOrder ==
    /\ \A i \in 1..Len(out) :
          out[i].kind = "created" => \A j \in 1..(i - 1) : out[j].b # out[i].b
    /\ \A i \in 1..Len(out) :
          out[i].kind # "created" =>
              /\ i > 1
              /\ out[i - 1].b = out[i].b
              /\ out[i - 1].kind = Before[out[i].kind]

\* No report stops after its header or its size line: the line of the same
\* back-end that completes it follows.
ReportsClosed ==
    \A i \in 1..Len(out) :
        out[i].kind \in {"created", "size"} =>
            i < Len(out) /\ out[i + 1].b = out[i].b

\* printPackageInfo: every report is a prefix of one of the two forms, and
\* by the time package() returns no report has stopped half-way.
ReportWellFormed ==
    /\ ReportOrder
    /\ mainPc = "done" => ReportsClosed

\* createAppInstaller prints only between mutex.acquire() and
\* mutex.release(): each step that writes to the console appends one line,
\* printed by the thread that holds the mutex at that moment, and leaves
\* every earlier line as it was.
PrintOnlyUnderMutex ==
    [][out' # out =>
         /\ Len(out') = Len(out) + 1
         /\ \A i \in 1..Len(out) : out'[i] = out[i]
         /\ out'[Len(out')].b = lock]_vars

\* package() joins every thread it started and returns.
Termination == <>(mainPc = "done")

=============================================================================
