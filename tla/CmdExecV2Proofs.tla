-------------------------- MODULE CmdExecV2Proofs --------------------------
(***************************************************************************)
(* Proofs about CmdExecV2, for any number of threads, jobs and buffers and *)
(* every kind of caller.                                                   *)
(*                                                                         *)
(* ExecInv, the inductive invariant, is the types, the conservation of     *)
(* fences and buffers and the discipline of mMtx.  SingleInv, inductive    *)
(* relative to it, says how runs that do not overlap keep the exec-info    *)
(* buffer that run() and wait() read without the lock.                     *)
(***************************************************************************)
EXTENDS CmdExecV2, SequenceTheorems, TLAPS

Runs == {"run", "runAsync", "runFence"}

\* A thread between Lock and the end of its ioctl owns mMtx; the others do not.
LockHeld ==
  \A t \in Threads : thr[t].pc \in {"free", "alloc", "ioctl"} =>
    mtx = t /\ thr[t].call \in (IF thr[t].pc = "ioctl" THEN Runs ELSE Runs \cup {"build"})

\* No buffer is allocated while another is there.
AllocAfterFree == \A t \in Threads : thr[t].pc = "alloc" => execInfo = 0

\* A job refers to a buffer that was allocated before it, or to none.
JobsHaveBuffers == \A j \in Job : jobs[j].buf <= Len(buffers)

ExecInv == /\ TypeOK
           /\ ResourcesConserved
           /\ LockHeld /\ AllocAfterFree /\ JobsHaveBuffers

-----------------------------------------------------------------------------
Busy(t)    == thr[t].pc # "idle"
Settled(j) == j \in closed /\ jobs[j].state = "done"

\* Besides a build or a run nothing else is under way.
OneAtATime ==
  \A t \in Threads : Busy(t) /\ thr[t].call # "wait" =>
    fences = <<>> /\ \A u \in Threads : Busy(u) => u = t

\* Only the last job can be open, and only once it was submitted.
OthersSettled ==
  /\ \A j \in Job : j # Len(jobs) => Settled(j)
  /\ \A t \in Threads :
       thr[t].pc \in {"lock", "free", "alloc", "ioctl"} /\ thr[t].call # "wait" =>
         \A j \in Job : Settled(j)

\* A run finds the command built and does not rebuild it.
RunsFindBuilt ==
  \A t \in Threads : Busy(t) /\ thr[t].call \in Runs =>
    execInfo # 0 /\ ~dirty /\ thr[t].pc \notin {"free", "alloc"}

\* Only run() and wait() poll, and the buffer they fetched before the lock is
\* still the current one.
InfoIsCurrent ==
  \A t \in Threads :
    /\ Busy(t) /\ thr[t].call \in {"run", "wait"} => thr[t].eInfo = execInfo /\ execInfo # 0
    /\ thr[t].pc \in {"poll", "finish"} => thr[t].call \in {"run", "wait"}

\* An open job has the current buffer, which holds its result once it is done.
OpenJobHasInfo ==
  \A j \in Job : ~Settled(j) =>
    /\ execInfo # 0 /\ jobs[j].buf = execInfo
    /\ jobs[j].state = "done" => buffers[execInfo] = jobs[j].res

\* A call that saw the fence signalled waits for a job that is done.
PolledDone ==
  \A t \in Threads : thr[t].pc = "finish" /\ thr[t].polled = "signalled" =>
    jobs[thr[t].fd].state = "done"

NoOverlap == /\ OneAtATime
             /\ OthersSettled
             /\ RunsFindBuilt
             /\ InfoIsCurrent
             /\ OpenJobHasInfo
             /\ PolledDone

SingleInv == client = "single" /\ alive => NoOverlap

-----------------------------------------------------------------------------
\* What mFenceList holds after runAsync() pushed a fence.
LEMMA ToSetAppend ==
  ASSUME NEW S, NEW s \in Seq(S), NEW x \in S
  PROVE  /\ Append(s, x) \in Seq(S)
         /\ ToSet(Append(s, x)) = ToSet(s) \cup {x}
         /\ Len(Append(s, x)) = Len(s) + 1
         /\ \A i \in DOMAIN s : i \in DOMAIN Append(s, x) /\ Append(s, x)[i] = s[i]
         /\ \A i \in DOMAIN Append(s, x) : i \in DOMAIN s \/ i = Len(s) + 1
         /\ Append(s, x)[Len(s) + 1] = x
<1>1. /\ Append(s, x) \in Seq(S)
      /\ Len(Append(s, x)) = Len(s) + 1
      /\ \A i \in 1 .. Len(s) : Append(s, x)[i] = s[i]
      /\ Append(s, x)[Len(s) + 1] = x
  BY AppendProperties
<1>2. /\ DOMAIN s = 1 .. Len(s) /\ Len(s) \in Nat
      /\ DOMAIN Append(s, x) = 1 .. Len(s) + 1
  BY <1>1, LenProperties
<1>3. ToSet(Append(s, x)) = ToSet(s) \cup {x}
  BY <1>1, <1>2 DEF ToSet
<1> QED
  BY <1>1, <1>2, <1>3

\* What mFenceList holds after wait() took the youngest fence.
LEMMA ToSetFront ==
  ASSUME NEW S, NEW s \in Seq(S), s # <<>>,
         \A i, k \in DOMAIN s : s[i] = s[k] => i = k
  PROVE  /\ Front(s) \in Seq(S)
         /\ Last(s) \in ToSet(s)
         /\ ToSet(Front(s)) = ToSet(s) \ {Last(s)}
         /\ \A i, k \in DOMAIN Front(s) : Front(s)[i] = Front(s)[k] => i = k
<1>1. /\ Len(s) \in Nat /\ Len(s) # 0 /\ DOMAIN s = 1 .. Len(s)
      /\ \A i \in 1 .. Len(s) : s[i] \in S
  BY EmptySeq, LenProperties, ElementOfSeq
<1>2. /\ Front(s) \in Seq(S)
      /\ Len(Front(s)) = Len(s) - 1
      /\ \A i \in 1 .. Len(s) - 1 : Front(s)[i] = s[i]
  <2>1. Front(s) = [i \in 1 .. Len(s) - 1 |-> s[i]]
    BY <1>1 DEF Front
  <2> QED
    BY <1>1, <2>1
<1>3. DOMAIN Front(s) = 1 .. Len(s) - 1
  BY <1>1, <1>2, LenProperties
<1>4. Last(s) = s[Len(s)]
  BY DEF Last
<1> QED
  BY <1>1, <1>2, <1>3, <1>4 DEF ToSet

\* A queue that holds nothing is empty.
LEMMA ToSetEmpty ==
  ASSUME NEW S, NEW s \in Seq(S)
  PROVE  (ToSet(s) = {}) <=> (s = <<>>)
<1>1. Len(s) \in Nat /\ DOMAIN s = 1 .. Len(s) /\ (s = <<>> <=> Len(s) = 0)
  BY EmptySeq, LenProperties
<1>2. ASSUME Len(s) # 0 PROVE ToSet(s) # {}
  <2>1. s[1] \in ToSet(s)
    BY <1>1, <1>2 DEF ToSet
  <2> QED
    BY <2>1
<1>3. ASSUME Len(s) = 0 PROVE ToSet(s) = {}
  BY <1>1, <1>3 DEF ToSet
<1> QED
  BY <1>1, <1>2, <1>3

\* A step that does not change who waits for what.
LEMMA SameWaiters ==
  ASSUME \A t \in Threads : (t \in Waiters') <=> (t \in Waiters),
         \A t \in Waiters : thr'[t].fd = thr[t].fd
  PROVE  Waiters' = Waiters /\ Held' = Held
<1>1. Waiters' = Waiters
  BY DEF Waiters
<1> QED
  BY <1>1 DEF Held

\* A call that starts to wait for a fence.
LEMMA OneMoreWaiter ==
  ASSUME NEW t \in Threads, t \notin Waiters, t \in Waiters',
         \A u \in Threads \ {t} : thr'[u] = thr[u]
  PROVE  Waiters' = Waiters \cup {t} /\ Held' = Held \cup {thr'[t].fd}
<1>1. Waiters' = Waiters \cup {t}
  BY DEF Waiters
<1>2. \A u \in Waiters : thr'[u] = thr[u]
  BY DEF Waiters
<1> QED
  BY <1>1, <1>2 DEF Held

\* A call that ends its wait.
LEMMA OneWaiterLess ==
  ASSUME NEW t \in Waiters, t \notin Waiters',
         \A u \in Threads \ {t} : thr'[u] = thr[u],
         \A u, v \in Waiters : thr[u].fd = thr[v].fd => u = v
  PROVE  Waiters' = Waiters \ {t} /\ Held' = Held \ {thr[t].fd}
<1>1. Waiters' = Waiters \ {t}
  BY DEF Waiters
<1>2. \A u \in Waiters' : thr'[u] = thr[u]
  BY DEF Waiters
<1>3. Held' = {thr[u].fd : u \in Waiters'}
  BY <1>2 DEF Held
<1> QED
  BY <1>1, <1>3 DEF Held

-----------------------------------------------------------------------------
\* A command that was never built.
LEMMA ExecInit ==
  ASSUME ConstantsAssumption, Init
  PROVE  ExecInv /\ SingleInv /\ ReportsOwnResult
<1>1. Len(<<>>) = 0 /\ Job = {} /\ Waiters = {} /\ Held = {}
  BY DEF Init, Job, Waiters, Held, Idle
<1>2. TypeOK
  BY <1>1 DEF Init, TypeOK, ConstantsAssumption, ThreadRecord, Idle, Calls
<1>3. ToSet(fences) = {} /\ DOMAIN fences = {}
  BY DEF Init, ToSet
<1>4. ResourcesConserved
  BY <1>1, <1>3 DEF Init, ResourcesConserved
<1>5. LockHeld /\ AllocAfterFree /\ JobsHaveBuffers
  BY <1>1 DEF Init, LockHeld, AllocAfterFree, JobsHaveBuffers, Idle
<1>6. SingleInv
  BY <1>1 DEF Init, SingleInv, NoOverlap, OneAtATime, OthersSettled, RunsFindBuilt, InfoIsCurrent,
              OpenJobHasInfo, PolledDone, Busy, Idle
<1>7. ReportsOwnResult
  BY <1>1 DEF ReportsOwnResult
<1> QED
  BY <1>2, <1>4, <1>5, <1>6, <1>7 DEF ExecInv

-----------------------------------------------------------------------------
\* A thread that calls, locks, builds or gives up leaves fences and jobs alone.
LEMMA QuietStepKeepsFences ==
  ASSUME ExecInv, NEW t \in Threads, t \notin Waiters, t \notin Waiters',
         \A u \in Threads \ {t} : thr'[u] = thr[u],
         UNCHANGED <<fds, Job>>, live' = {execInfo'} \ {0}
  PROVE  ResourcesConserved' /\ Held' = Held
<1>1. Waiters' = Waiters /\ Held' = Held
  <2>1. \A u \in Threads : (u \in Waiters') <=> (u \in Waiters)
    BY DEF Waiters
  <2>2. \A u \in Waiters : thr'[u].fd = thr[u].fd
    BY DEF Waiters
  <2> QED
    BY <2>1, <2>2, SameWaiters
<1>2. \A u \in Waiters' : thr'[u].fd = thr[u].fd
  BY DEF Waiters
<1> QED
  BY <1>1, <1>2 DEF ExecInv, ResourcesConserved, fds

\* What becomes of the threads when one of them goes on.
LEMMA GoToFacts ==
  ASSUME TypeOK, NEW t \in Threads, NEW pc \in {"free", "alloc", "ioctl"}, GoTo(t, pc)
  PROVE  /\ thr' \in [Threads -> ThreadRecord]
         /\ \A u \in Threads \ {t} : thr'[u] = thr[u]
         /\ thr'[t].pc = pc /\ thr'[t].call = thr[t].call
         /\ thr'[t].eInfo = thr[t].eInfo
  BY DEF GoTo, TypeOK, ThreadRecord

\* The same when its call returns.
LEMMA ReturnFacts ==
  ASSUME ConstantsAssumption, TypeOK, NEW t \in Threads, Return(t)
  PROVE  /\ thr' \in [Threads -> ThreadRecord]
         /\ \A u \in Threads \ {t} : thr'[u] = thr[u]
         /\ thr'[t].pc = "idle" /\ thr'[t].call = "wait"
<1>1. Idle \in ThreadRecord
  BY DEF Idle, ThreadRecord, Calls, ConstantsAssumption
<1>2. Idle.pc = "idle" /\ Idle.call = "wait"
  BY DEF Idle
<1> QED
  BY <1>1, <1>2 DEF Return, TypeOK

\* Nothing but the thread's position, the mutex and the dirty flag changes.
LEMMA QuietStepKeeps ==
  ASSUME ConstantsAssumption, ExecInv, NEW t \in Threads, t \notin Waiters,
         UNCHANGED <<live, execInfo, buffers, fds, jobs, client>>,
         mtx' \in Threads \cup {NoThread}, dirty' \in BOOLEAN, alive' \in BOOLEAN,
         thr' \in [Threads -> ThreadRecord],
         \A u \in Threads \ {t} : thr'[u] = thr[u],
         thr'[t].pc \in {"idle", "lock", "free", "alloc", "ioctl"},
         thr'[t].pc = "alloc" => thr[t].pc = "alloc",
         LockHeld'
  PROVE  ExecInv' /\ Held' = Held
<1>1. Job' = Job /\ execInfo' = execInfo /\ buffers' = buffers /\ jobs' = jobs
  BY DEF Job
<1>2. TypeOK'
  BY <1>1 DEF ExecInv, TypeOK, fds
<1>3. t \notin Waiters'
  BY DEF Waiters
<1>4. live' = {execInfo'} \ {0}
  BY DEF ExecInv, ResourcesConserved
<1>5. ResourcesConserved' /\ Held' = Held
  BY <1>1, <1>3, <1>4, QuietStepKeepsFences
<1>6. AllocAfterFree' /\ JobsHaveBuffers'
  BY <1>1 DEF ExecInv, AllocAfterFree, JobsHaveBuffers
<1> QED
  BY <1>2, <1>5, <1>6 DEF ExecInv

LEMMA CallKeeps ==
  ASSUME ConstantsAssumption, ExecInv, NEW t \in Threads, NEW c \in Calls, Call(t, c),
         UNCHANGED client
  PROVE  ExecInv' /\ Held' = Held
<1>1. /\ \A u \in Threads \ {t} : thr'[u] = thr[u]
      /\ thr'[t].pc = "lock" /\ thr[t].pc = "idle"
  BY DEF Call, At, ExecInv, TypeOK, ThreadRecord
<1>2. thr' \in [Threads -> ThreadRecord]
  <2>1. execInfo \in 0 .. MaxBuffers /\ 0 \in 0 .. MaxBuffers
    BY LenProperties DEF ExecInv, TypeOK, ConstantsAssumption
  <2>2. PICK e \in 0 .. MaxBuffers :
          thr' = [thr EXCEPT ![t].pc = "lock", ![t].call = c, ![t].eInfo = e]
    BY <2>1 DEF Call
  <2>3. thr \in [Threads -> ThreadRecord]
    BY DEF ExecInv, TypeOK
  <2>4. thr'[t] \in ThreadRecord
    BY <2>2, <2>3 DEF ThreadRecord
  <2>5. thr' = [thr EXCEPT ![t] = thr'[t]]
    BY <2>2, <2>3
  <2> QED
    BY <2>3, <2>4, <2>5
<1>3. LockHeld'
  <2>1. mtx' = mtx
    BY DEF Call
  <2> QED
    BY <1>1, <2>1 DEF ExecInv, LockHeld
<1>4. t \notin Waiters
  BY <1>1 DEF Waiters
<1>5. /\ UNCHANGED <<live, execInfo, buffers, fds, jobs, client>>
      /\ mtx' \in Threads \cup {NoThread} /\ dirty' \in BOOLEAN /\ alive' \in BOOLEAN
  BY DEF Call, cmd, ExecInv, TypeOK
<1> QED
  BY <1>1, <1>2, <1>3, <1>4, <1>5, QuietStepKeeps

LEMMA LockKeeps ==
  ASSUME ConstantsAssumption, ExecInv, NEW t \in Threads, Lock(t), UNCHANGED client
  PROVE  ExecInv' /\ Held' = Held
<1>1. PICK pc \in {"free", "ioctl"} :
        GoTo(t, pc) /\ (pc = "ioctl" => thr[t].call # "build")
  BY DEF Lock
<1>2. /\ thr' \in [Threads -> ThreadRecord]
      /\ \A u \in Threads \ {t} : thr'[u] = thr[u]
      /\ thr'[t].pc = pc /\ thr'[t].call = thr[t].call
  BY <1>1, GoToFacts DEF ExecInv
<1>3. /\ thr[t].pc = "lock" /\ thr[t].call \in Runs \cup {"build"}
      /\ mtx = NoThread /\ mtx' = t
  BY DEF Lock, At, ExecInv, TypeOK, ThreadRecord, Calls, Runs
<1>4. LockHeld'
  <2>1. \A u \in Threads : thr[u].pc \notin {"free", "alloc", "ioctl"}
    BY <1>3 DEF ExecInv, LockHeld, ConstantsAssumption
  <2> QED
    BY <1>1, <1>2, <1>3, <2>1 DEF LockHeld, Runs
<1>5. t \notin Waiters
  BY <1>3 DEF Waiters
<1>6. /\ UNCHANGED <<live, execInfo, buffers, fds, jobs, client>>
      /\ mtx' \in Threads \cup {NoThread} /\ dirty' \in BOOLEAN /\ alive' \in BOOLEAN
  BY <1>3 DEF Lock, cmd, ExecInv, TypeOK
<1> QED
  BY <1>2, <1>4, <1>5, <1>6, QuietStepKeeps

\* Construction takes place while no other thread is between lock and unlock.
LEMMA ConstructFreeKeeps ==
  ASSUME ConstantsAssumption, ExecInv, NEW t \in Threads, ConstructFree(t), UNCHANGED client
  PROVE  ExecInv' /\ Held' = Held
<1>1. /\ thr' \in [Threads -> ThreadRecord]
      /\ \A u \in Threads \ {t} : thr'[u] = thr[u]
      /\ thr'[t].pc = "alloc" /\ thr'[t].call = thr[t].call
      /\ thr[t].pc = "free"
  BY GoToFacts DEF ConstructFree, At, ExecInv
<1>2. TypeOK'
  BY <1>1 DEF ConstructFree, fds, ExecInv, TypeOK, Job
<1>3. ResourcesConserved' /\ Held' = Held
  <2>1. t \notin Waiters /\ t \notin Waiters'
    BY <1>1 DEF Waiters
  <2>2. UNCHANGED <<fds, Job>> /\ live' = {execInfo'} \ {0}
    BY DEF ConstructFree, Job, ExecInv, ResourcesConserved
  <2> QED
    BY <1>1, <2>1, <2>2, QuietStepKeepsFences
<1>4. LockHeld'
  BY <1>1 DEF ConstructFree, ExecInv, LockHeld
<1>5. AllocAfterFree' /\ JobsHaveBuffers'
  BY DEF ConstructFree, ExecInv, AllocAfterFree, JobsHaveBuffers, Job
<1> QED
  BY <1>2, <1>3, <1>4, <1>5 DEF ExecInv

\* Both ends of the construction: build() returns, a run goes on to its ioctl.
LEMMA AfterConstructFacts ==
  ASSUME ConstantsAssumption, ExecInv, NEW t \in Threads, At(t, "alloc"), AfterConstruct(t)
  PROVE  /\ thr' \in [Threads -> ThreadRecord]
         /\ \A u \in Threads \ {t} : thr'[u] = thr[u]
         /\ thr'[t].pc \in {"idle", "ioctl"}
         /\ mtx' \in Threads \cup {NoThread}
         /\ LockHeld'
         /\ thr[t].pc = "alloc" /\ t \notin Waiters /\ t \notin Waiters'
         /\ \A u \in Threads : thr'[u].pc # "alloc"
<1>1. thr[t].pc = "alloc" /\ mtx = t /\ thr[t].call \in Runs \cup {"build"}
  BY DEF At, ExecInv, LockHeld
<1>2. \A u \in Threads : u # t => thr[u].pc \notin {"free", "alloc", "ioctl"}
  BY <1>1 DEF ExecInv, LockHeld
<1>3. CASE thr[t].call = "build"
  <2>1. /\ thr' \in [Threads -> ThreadRecord]
        /\ \A u \in Threads \ {t} : thr'[u] = thr[u]
        /\ thr'[t].pc = "idle" /\ mtx' = NoThread
    BY <1>3, ReturnFacts DEF AfterConstruct, ExecInv
  <2> QED
    BY <1>1, <1>2, <2>1 DEF LockHeld, Waiters
<1>4. CASE thr[t].call # "build"
  <2>1. /\ thr' \in [Threads -> ThreadRecord]
        /\ \A u \in Threads \ {t} : thr'[u] = thr[u]
        /\ thr'[t].pc = "ioctl" /\ thr'[t].call = thr[t].call /\ mtx' = t
    BY <1>1, <1>4, GoToFacts DEF AfterConstruct, ExecInv
  <2> QED
    BY <1>1, <1>2, <1>4, <2>1 DEF LockHeld, Waiters, Runs
<1> QED
  BY <1>3, <1>4

LEMMA ConstructAllocKeeps ==
  ASSUME ConstantsAssumption, ExecInv, NEW t \in Threads, ConstructAlloc(t), UNCHANGED client
  PROVE  ExecInv' /\ Held' = Held
<1>1. /\ thr' \in [Threads -> ThreadRecord]
      /\ \A u \in Threads \ {t} : thr'[u] = thr[u]
      /\ mtx' \in Threads \cup {NoThread}
      /\ LockHeld'
      /\ thr[t].pc = "alloc" /\ t \notin Waiters /\ t \notin Waiters'
      /\ \A u \in Threads : thr'[u].pc # "alloc"
  BY AfterConstructFacts DEF ConstructAlloc, At
<1>2. /\ buffers' \in Seq({"ok", "fail"}) /\ Len(buffers') = Len(buffers) + 1
      /\ Len(buffers) \in Nat
  BY ToSetAppend DEF ConstructAlloc, ExecInv, TypeOK
<1>3. execInfo = 0 /\ live = {}
  BY <1>1 DEF ExecInv, AllocAfterFree, ResourcesConserved
<1>4. TypeOK'
  <2>1. Len(buffers') <= MaxBuffers
    BY <1>2 DEF ConstructAlloc, ConstantsAssumption
  <2>2. execInfo' \in 0 .. Len(buffers') /\ live' \subseteq 1 .. Len(buffers')
    BY <1>2, <1>3 DEF ConstructAlloc
  <2> QED
    BY <1>1, <1>2, <2>1, <2>2 DEF ConstructAlloc, fds, ExecInv, TypeOK, Job
<1>5. ResourcesConserved' /\ Held' = Held
  <2>1. UNCHANGED <<fds, Job>> /\ live' = {execInfo'} \ {0}
    BY <1>2, <1>3 DEF ConstructAlloc, Job
  <2> QED
    BY <1>1, <2>1, QuietStepKeepsFences
<1>6. AllocAfterFree'
  BY <1>1 DEF AllocAfterFree
<1>7. JobsHaveBuffers'
  <2>1. \A j \in Job : jobs[j].buf \in Nat
    <3>1. \A j \in Job : jobs[j] \in JobRecord
      BY ElementOfSeq DEF ExecInv, TypeOK, Job
    <3> QED
      BY <3>1 DEF JobRecord, ConstantsAssumption
  <2> QED
    BY <1>2, <2>1 DEF ConstructAlloc, ExecInv, JobsHaveBuffers, Job
<1> QED
  BY <1>1, <1>4, <1>5, <1>6, <1>7 DEF ExecInv

LEMMA ConstructFailKeeps ==
  ASSUME ConstantsAssumption, ExecInv, NEW t \in Threads, ConstructFail(t), UNCHANGED client
  PROVE  ExecInv' /\ Held' = Held
<1>1. /\ thr' \in [Threads -> ThreadRecord]
      /\ \A u \in Threads \ {t} : thr'[u] = thr[u]
      /\ thr'[t].pc \in {"idle", "ioctl"}
      /\ mtx' \in Threads \cup {NoThread}
      /\ LockHeld' /\ t \notin Waiters
  BY AfterConstructFacts DEF ConstructFail, At
<1>2. /\ UNCHANGED <<live, execInfo, buffers, fds, jobs, client>>
      /\ dirty' \in BOOLEAN /\ alive' \in BOOLEAN
  BY DEF ConstructFail, cmd, ExecInv, TypeOK
<1> QED
  BY <1>1, <1>2, QuietStepKeeps

\* A call that returns and, when it held mMtx, unlocked it.
LEMMA ReturnKeeps ==
  ASSUME ConstantsAssumption, ExecInv, NEW t \in Threads, Return(t), t \notin Waiters,
         mtx' = mtx \/ (mtx = t /\ mtx' = NoThread),
         UNCHANGED <<cmd, buffers, fds, jobs, alive, client>>
  PROVE  ExecInv' /\ Held' = Held
<1>1. /\ thr' \in [Threads -> ThreadRecord]
      /\ \A u \in Threads \ {t} : thr'[u] = thr[u]
      /\ thr'[t].pc = "idle"
  BY ReturnFacts DEF ExecInv
<1>2. LockHeld'
  BY <1>1 DEF ExecInv, LockHeld
<1>3. /\ UNCHANGED <<live, execInfo, buffers, fds, jobs, client>>
      /\ mtx' \in Threads \cup {NoThread} /\ dirty' \in BOOLEAN /\ alive' \in BOOLEAN
  BY DEF cmd, ExecInv, TypeOK
<1> QED
  BY <1>1, <1>2, <1>3, QuietStepKeeps

LEMMA SubmitFailKeeps ==
  ASSUME ConstantsAssumption, ExecInv, NEW t \in Threads, SubmitFail(t), UNCHANGED client
  PROVE  ExecInv' /\ Held' = Held
<1>1. mtx = t /\ t \notin Waiters
  BY DEF SubmitFail, At, ExecInv, LockHeld, Waiters
<1> QED
  BY <1>1, ReturnKeeps DEF SubmitFail

LEMMA WaitNothingKeeps ==
  ASSUME ConstantsAssumption, ExecInv, NEW t \in Threads, WaitNothing(t), UNCHANGED client
  PROVE  ExecInv' /\ Held' = Held
<1>1. t \notin Waiters
  BY DEF WaitNothing, At, Waiters
<1> QED
  BY <1>1, ReturnKeeps DEF WaitNothing

\* The driver accepts a submission: one more fence, in one place.
LEMMA SubmitKeeps ==
  ASSUME ConstantsAssumption, ExecInv, NEW t \in Threads, Submit(t), UNCHANGED client
  PROVE  /\ ExecInv'
         /\ Len(jobs) + 1 \in 1 .. MaxJobs
         /\ Len(jobs) + 1 \notin ToSet(fences) \cup Held \cup given \cup closed
         /\ \/ /\ Held' = Held \cup {Len(jobs) + 1}
               /\ fences' = fences /\ given' = given
            \/ /\ ToSet(fences') = ToSet(fences) \cup {Len(jobs) + 1}
               /\ Held' = Held /\ given' = given
            \/ /\ given' = given \cup {Len(jobs) + 1}
               /\ fences' = fences /\ Held' = Held
<1> DEFINE j == Len(jobs) + 1
           job == [buf |-> execInfo, state |-> "running", res |-> "ok", told |-> "none"]
<1>1. /\ alive /\ thr[t].pc = "ioctl" /\ thr[t].call \in Runs /\ mtx = t /\ mtx' = NoThread
      /\ jobs' = Append(jobs, job)
      /\ Len(jobs) < MaxJobs
      /\ UNCHANGED <<dirty, execInfo, live, buffers, closed, alive>>
  BY DEF Submit, At, cmd, JobBound, ExecInv, LockHeld, TypeOK, ConstantsAssumption
<1>2. /\ Len(jobs) \in Nat /\ Job = 1 .. Len(jobs) /\ j \notin Job
      /\ jobs \in Seq(JobRecord) /\ fences \in Seq(Job)
  BY DEF ExecInv, TypeOK, Job
<1>3. job \in JobRecord
  BY DEF ExecInv, TypeOK, JobRecord, ConstantsAssumption
<1>4. /\ jobs' \in Seq(JobRecord) /\ Len(jobs') = j
      /\ Job' = Job \cup {j}
      /\ \A k \in Job : jobs'[k] = jobs[k]
      /\ jobs'[j] = job
  <2>1. /\ jobs' \in Seq(JobRecord) /\ Len(jobs') = j
        /\ \A k \in 1 .. Len(jobs) : jobs'[k] = jobs[k]
        /\ jobs'[j] = job
    BY <1>1, <1>2, <1>3, AppendProperties
  <2> QED
    BY <1>2, <2>1 DEF Job
<1>5. /\ thr' \in [Threads -> ThreadRecord]
      /\ \A u \in Threads \ {t} : thr'[u] = thr[u]
      /\ thr[t].call = "run" => thr'[t].pc = "poll" /\ thr'[t].fd = j
      /\ thr[t].call # "run" => thr'[t].pc = "idle"
  <2>1. CASE thr[t].call = "run"
    <3>1. thr' = [thr EXCEPT ![t] = [thr[t] EXCEPT !.pc = "poll", !.fd = j]]
      BY <2>1 DEF Submit
    <3>2. j \in 0 .. MaxJobs
      BY <1>1, <1>2 DEF ConstantsAssumption
    <3> QED
      BY <2>1, <3>1, <3>2 DEF ExecInv, TypeOK, ThreadRecord
  <2>2. CASE thr[t].call # "run"
    <3>1. Return(t)
      BY <2>2 DEF Submit, Return
    <3> QED
      BY <2>2, <3>1, ReturnFacts DEF ExecInv
  <2> QED
    BY <2>1, <2>2
<1>6. fences \in Seq(Job') /\ fences' \in Seq(Job')
  <2>1. fences \in Seq(Job')
    BY <1>2, <1>4
  <2> QED
    BY <1>4, <2>1, ToSetAppend DEF Submit
<1>7. TypeOK'
  <2>1. closed' \subseteq Job' /\ given' \subseteq Job'
    BY <1>1, <1>4 DEF Submit, ExecInv, TypeOK
  <2>2. Len(jobs') <= MaxJobs
    BY <1>1, <1>2, <1>4 DEF ConstantsAssumption
  <2> QED
    BY <1>1, <1>4, <1>5, <1>6, <2>1, <2>2 DEF ExecInv, TypeOK
<1>8. /\ t \notin Waiters
      /\ \A u \in Waiters : u # t /\ thr'[u] = thr[u]
      /\ \A u, v \in Waiters : thr[u].fd = thr[v].fd => u = v
  BY <1>1, <1>5 DEF Waiters, ExecInv, ResourcesConserved
<1>9. j \notin ToSet(fences) \cup Held \cup given \cup closed
  BY <1>2 DEF ExecInv, ResourcesConserved
<1>10. /\ ResourcesConserved'
       /\ \/ /\ Held' = Held \cup {j}
             /\ fences' = fences /\ given' = given
          \/ /\ ToSet(fences') = ToSet(fences) \cup {j}
             /\ Held' = Held /\ given' = given
          \/ /\ given' = given \cup {j}
             /\ fences' = fences /\ Held' = Held
  <2>1. live' = {execInfo'} \ {0}
    BY <1>1 DEF ExecInv, ResourcesConserved
  <2>2. CASE thr[t].call = "run"
    <3>1. Waiters' = Waiters \cup {t} /\ Held' = Held \cup {j}
      <4>1. t \in Waiters'
        BY <1>5, <2>2 DEF Waiters
      <4> QED
        BY <1>5, <1>8, <2>2, <4>1, OneMoreWaiter
    <3>2. fences' = fences /\ given' = given /\ closed' = closed
      BY <1>1, <2>2 DEF Submit
    <3>3. \A u, v \in Waiters' : thr'[u].fd = thr'[v].fd => u = v
      <4>1. \A u \in Waiters : thr'[u].fd \in Held
        BY <1>8 DEF Held
      <4> QED
        BY <1>5, <1>8, <1>9, <2>2, <3>1, <4>1
    <3>4. ResourcesConserved'
      BY <1>4, <1>9, <2>1, <3>1, <3>2, <3>3 DEF ExecInv, ResourcesConserved
    <3> QED
      BY <3>1, <3>2, <3>4
  <2>3. CASE thr[t].call # "run"
    <3>1. Waiters' = Waiters /\ Held' = Held
      <4>1. \A u \in Threads : (u \in Waiters') <=> (u \in Waiters)
        BY <1>5, <1>8, <2>3 DEF Waiters
      <4>2. \A u \in Waiters : thr'[u].fd = thr[u].fd
        BY <1>8
      <4> QED
        BY <4>1, <4>2, SameWaiters
    <3>2. \A u, v \in Waiters' : thr'[u].fd = thr'[v].fd => u = v
      BY <1>8, <3>1
    <3>3. CASE thr[t].call = "runAsync"
      <4>1. /\ fences' = Append(fences, j)
            /\ given' = given /\ closed' = closed
        BY <1>1, <3>3 DEF Submit
      <4>2. /\ ToSet(fences') = ToSet(fences) \cup {j}
            /\ \A i \in DOMAIN fences : fences'[i] = fences[i]
            /\ \A i \in DOMAIN fences' : i \in DOMAIN fences \/ i = Len(fences) + 1
            /\ fences'[Len(fences) + 1] = j
        BY <1>4, <1>6, <4>1, ToSetAppend
      <4>3. \A i \in DOMAIN fences : fences[i] # j
        BY <1>9 DEF ToSet
      <4>4. \A i, k \in DOMAIN fences' : fences'[i] = fences'[k] => i = k
        BY <4>2, <4>3 DEF ExecInv, ResourcesConserved
      <4>5. ResourcesConserved'
        BY <1>4, <1>9, <2>1, <3>1, <3>2, <4>1, <4>2, <4>4 DEF ExecInv, ResourcesConserved
      <4> QED
        BY <3>1, <4>1, <4>2, <4>5
    <3>4. CASE thr[t].call = "runFence"
      <4>1. fences' = fences /\ given' = given \cup {j} /\ closed' = closed
        BY <1>1, <3>4 DEF Submit
      <4>2. ResourcesConserved'
        BY <1>4, <1>9, <2>1, <3>1, <3>2, <4>1 DEF ExecInv, ResourcesConserved
      <4> QED
        BY <3>1, <4>1, <4>2
    <3> QED
      BY <1>1, <2>3, <3>3, <3>4 DEF Runs
  <2> QED
    BY <2>2, <2>3
<1>11. LockHeld' /\ AllocAfterFree'
  BY <1>1, <1>5 DEF ExecInv, LockHeld, AllocAfterFree
<1>12. JobsHaveBuffers'
  <2>1. execInfo <= Len(buffers)
    BY LenProperties DEF ExecInv, TypeOK
  <2>2. jobs'[j].buf = execInfo
    BY <1>4
  <2>3. \A k \in Job : jobs'[k].buf <= Len(buffers)
    BY <1>4 DEF ExecInv, JobsHaveBuffers
  <2> QED
    BY <1>1, <1>4, <2>1, <2>2, <2>3 DEF JobsHaveBuffers
<1>13. ExecInv'
  BY <1>7, <1>10, <1>11, <1>12 DEF ExecInv
<1>14. j \in 1 .. MaxJobs
  BY <1>1, <1>2 DEF ConstantsAssumption
<1> QED
  BY <1>9, <1>10, <1>13, <1>14

\* wait() takes the youngest fence out of the list.
LEMMA TakeKeeps ==
  ASSUME ConstantsAssumption, ExecInv, NEW t \in Threads, WaitTake(t), UNCHANGED client
  PROVE  /\ ExecInv'
         /\ Last(fences) \in ToSet(fences)
         /\ ToSet(fences') = ToSet(fences) \ {Last(fences)}
         /\ Held' = Held \cup {Last(fences)}
<1>1. /\ alive /\ thr[t].pc = "lock" /\ fences # <<>> /\ fences' = Front(fences)
      /\ thr' = [thr EXCEPT ![t].pc = "poll", ![t].fd = Last(fences)]
      /\ UNCHANGED <<mtx, dirty, execInfo, live, buffers, closed, given, jobs, alive, client>>
  BY DEF WaitTake, At, cmd
<1>2. /\ fences' \in Seq(Job)
      /\ Last(fences) \in ToSet(fences)
      /\ ToSet(fences') = ToSet(fences) \ {Last(fences)}
      /\ \A i, k \in DOMAIN fences' : fences'[i] = fences'[k] => i = k
  BY <1>1, ToSetFront DEF ExecInv, TypeOK, ResourcesConserved
<1>3. Last(fences) \in Job /\ Last(fences) \notin Held \cup given \cup closed
  BY <1>2 DEF ExecInv, ResourcesConserved
<1>4. Last(fences) \in 0 .. MaxJobs
  BY <1>3 DEF ExecInv, TypeOK, Job, ConstantsAssumption
<1>5. /\ thr' \in [Threads -> ThreadRecord]
      /\ \A u \in Threads \ {t} : thr'[u] = thr[u]
      /\ thr'[t].pc = "poll" /\ thr'[t].fd = Last(fences)
  <2>1. thr \in [Threads -> ThreadRecord]
    BY DEF ExecInv, TypeOK
  <2>2. thr'[t] \in ThreadRecord
    BY <1>1, <1>4, <2>1 DEF ThreadRecord
  <2>3. thr' = [thr EXCEPT ![t] = thr'[t]]
    BY <1>1, <2>1
  <2> QED
    BY <1>1, <2>1, <2>2, <2>3 DEF ThreadRecord
<1>6. TypeOK'
  BY <1>1, <1>2, <1>5 DEF ExecInv, TypeOK, Job
<1>7. /\ t \notin Waiters
      /\ \A u \in Waiters : u # t /\ thr'[u] = thr[u]
  BY <1>1, <1>5 DEF Waiters
<1>8. Waiters' = Waiters \cup {t} /\ Held' = Held \cup {Last(fences)}
  <2>1. t \in Waiters'
    BY <1>5 DEF Waiters
  <2> QED
    BY <1>5, <1>7, <2>1, OneMoreWaiter
<1>9. ResourcesConserved'
  <2>1. \A u \in Waiters : thr'[u].fd \in Held
    BY <1>7 DEF Held
  <2>2. \A u, v \in Waiters' : thr'[u].fd = thr'[v].fd => u = v
    BY <1>3, <1>5, <1>7, <1>8, <2>1 DEF ExecInv, ResourcesConserved
  <2>3. Job' = Job /\ live' = {execInfo'} \ {0}
    BY <1>1 DEF Job, ExecInv, ResourcesConserved
  <2>4. /\ ToSet(fences') \cup Held' \cup given' \cup closed' = Job'
        /\ ToSet(fences') \cap (Held' \cup given' \cup closed') = {}
        /\ Held' \cap (given' \cup closed') = {}
        /\ given' \cap closed' = {}
    BY <1>1, <1>2, <1>3, <1>8, <2>3 DEF ExecInv, ResourcesConserved
  <2> QED
    BY <1>2, <2>2, <2>3, <2>4 DEF ResourcesConserved
<1>10. LockHeld' /\ AllocAfterFree'
  BY <1>1, <1>5 DEF ExecInv, LockHeld, AllocAfterFree
<1>11. JobsHaveBuffers'
  BY <1>1 DEF ExecInv, JobsHaveBuffers, Job
<1>12. ExecInv'
  BY <1>6, <1>9, <1>10, <1>11 DEF ExecInv
<1> QED
  BY <1>2, <1>8, <1>12

\* poll() ends.
LEMMA PollKeeps ==
  ASSUME ExecInv, NEW t \in Threads, Poll(t), UNCHANGED client
  PROVE  /\ ExecInv'
         /\ Held' = Held
<1>1. /\ thr[t].pc = "poll"
      /\ UNCHANGED <<mtx, dirty, execInfo, live, buffers, fences, closed, given, jobs, alive>>
  BY DEF Poll, At, cmd, fds
<1>2. /\ thr' \in [Threads -> ThreadRecord]
      /\ \A u \in Threads \ {t} : thr'[u] = thr[u]
      /\ thr'[t].pc = "finish" /\ thr'[t].fd = thr[t].fd
  <2>1. thr \in [Threads -> ThreadRecord]
    BY DEF ExecInv, TypeOK
  <2>2. PICK p \in {"signalled", "error"} :
          thr' = [thr EXCEPT ![t].pc = "finish", ![t].polled = p]
    BY DEF Poll
  <2>3. thr'[t] \in ThreadRecord
    BY <2>1, <2>2 DEF ThreadRecord
  <2>4. thr' = [thr EXCEPT ![t] = thr'[t]]
    BY <2>1, <2>2
  <2> QED
    BY <2>1, <2>2, <2>3, <2>4 DEF ThreadRecord
<1>3. TypeOK'
  BY <1>1, <1>2 DEF ExecInv, TypeOK, Job
<1>4. Waiters' = Waiters /\ Held' = Held
  <2>1. \A u \in Threads : (u \in Waiters') <=> (u \in Waiters)
    BY <1>1, <1>2 DEF Waiters
  <2>2. \A u \in Waiters : thr'[u].fd = thr[u].fd
    BY <1>2 DEF Waiters
  <2> QED
    BY <2>1, <2>2, SameWaiters
<1>5. ResourcesConserved'
  <2>1. \A u \in Waiters : thr'[u].fd = thr[u].fd
    BY <1>2 DEF Waiters
  <2> QED
    BY <1>1, <1>4, <2>1 DEF ExecInv, ResourcesConserved, Job
<1>6. LockHeld' /\ AllocAfterFree' /\ JobsHaveBuffers'
  BY <1>1, <1>2 DEF ExecInv, LockHeld, AllocAfterFree, JobsHaveBuffers, Job
<1> QED
  BY <1>3, <1>4, <1>5, <1>6 DEF ExecInv

\* A waiting call reports, closes its fence and returns, or the process dies.
LEMMA FinishKeeps ==
  ASSUME ConstantsAssumption, ExecInv, NEW t \in Threads, Finish(t), UNCHANGED client
  PROVE  /\ ExecInv'
         /\ thr[t].fd \in Held
         /\ \/ /\ alive' = FALSE /\ Held' = Held /\ closed' = closed
            \/ /\ alive' = alive /\ Held' = Held \ {thr[t].fd}
               /\ closed' = closed \cup {thr[t].fd}
<1> DEFINE j == thr[t].fd
<1>1. PICK r \in Outcome(t) :
        /\ jobs' = [jobs EXCEPT ![j].told = r]
        /\ IF r = "fault"
           THEN alive' = FALSE /\ UNCHANGED <<closed, thr>>
           ELSE closed' = closed \cup {j} /\ Return(t) /\ UNCHANGED alive
  BY DEF Finish
<1>2. /\ alive /\ thr[t].pc = "finish"
      /\ UNCHANGED <<mtx, dirty, execInfo, live, buffers, fences, given>>
  BY DEF Finish, At, cmd
<1>3. t \in Waiters /\ j \in Held /\ j \in Job /\ j \notin closed
  BY <1>2 DEF Waiters, Held, ExecInv, ResourcesConserved
<1>4. r \in {"ok", "fail", "errno", "fault"}
  <2>1. \A b \in live : buffers[b] \in {"ok", "fail"}
    BY ElementOfSeq DEF ExecInv, TypeOK
  <2> QED
    BY <1>1, <2>1 DEF Outcome
<1>5. /\ jobs' \in Seq(JobRecord) /\ Len(jobs') = Len(jobs) /\ Job' = Job
      /\ \A k \in Job : jobs'[k].buf = jobs[k].buf
  <2>1. jobs \in Seq(JobRecord) /\ j \in 1 .. Len(jobs) /\ jobs[j] \in JobRecord
    BY <1>3, ElementOfSeq DEF ExecInv, TypeOK, Job
  <2>2. [jobs[j] EXCEPT !.told = r] \in JobRecord
    BY <1>4, <2>1 DEF JobRecord
  <2>3. jobs' = [jobs EXCEPT ![j] = [jobs[j] EXCEPT !.told = r]]
    BY <1>1
  <2>4. jobs' \in Seq(JobRecord) /\ Len(jobs') = Len(jobs)
    BY <2>1, <2>2, <2>3, ExceptSeq
  <2>5. \A k \in 1 .. Len(jobs) : jobs[k] \in JobRecord
    BY <2>1, ElementOfSeq
  <2>6. \A k \in 1 .. Len(jobs) : jobs'[k].buf = jobs[k].buf
    BY <2>1, <2>3, <2>5, LenProperties DEF JobRecord
  <2> QED
    BY <2>4, <2>6 DEF Job
<1>6. JobsHaveBuffers'
  BY <1>2, <1>5 DEF ExecInv, JobsHaveBuffers
<1>7. CASE r = "fault"
  <2>1. alive' = FALSE /\ closed' = closed /\ thr' = thr
    BY <1>1, <1>7
  <2>2. Waiters' = Waiters /\ Held' = Held
    BY <2>1 DEF Waiters, Held
  <2>3. TypeOK'
    BY <1>2, <1>5, <2>1 DEF ExecInv, TypeOK
  <2>4. ResourcesConserved'
    BY <1>2, <1>5, <2>1, <2>2 DEF ExecInv, ResourcesConserved
  <2>5. LockHeld' /\ AllocAfterFree'
    BY <1>2, <2>1 DEF ExecInv, LockHeld, AllocAfterFree
  <2> QED
    BY <1>3, <1>6, <2>1, <2>2, <2>3, <2>4, <2>5 DEF ExecInv
<1>8. CASE r # "fault"
  <2>1. closed' = closed \cup {j} /\ Return(t) /\ alive' = alive
    BY <1>1, <1>8
  <2>2. /\ thr' \in [Threads -> ThreadRecord]
        /\ \A u \in Threads \ {t} : thr'[u] = thr[u]
        /\ thr'[t].pc = "idle"
    BY <2>1, ReturnFacts DEF ExecInv
  <2>3. Waiters' = Waiters \ {t} /\ Held' = Held \ {j}
    <3>1. t \notin Waiters'
      BY <2>2 DEF Waiters
    <3> QED
      BY <1>3, <2>2, <3>1, OneWaiterLess DEF ExecInv, ResourcesConserved
  <2>4. TypeOK'
    <3>1. closed' \subseteq Job' /\ given' \subseteq Job' /\ fences' \in Seq(Job')
      BY <1>2, <1>3, <1>5, <2>1 DEF ExecInv, TypeOK
    <3> QED
      BY <1>2, <1>5, <2>1, <2>2, <3>1 DEF ExecInv, TypeOK
  <2>5. ResourcesConserved'
    <3>1. \A u \in Waiters' : u \in Waiters /\ thr'[u] = thr[u]
      BY <2>2, <2>3 DEF Waiters
    <3>2. \A u, v \in Waiters' : thr'[u].fd = thr'[v].fd => u = v
      BY <3>1 DEF ExecInv, ResourcesConserved
    <3>3. live' = {execInfo'} \ {0} /\ fences' = fences /\ given' = given
      BY <1>2 DEF ExecInv, ResourcesConserved
    <3>4. /\ ToSet(fences) \cup Held' \cup given \cup closed' = Job'
          /\ ToSet(fences) \cap (Held' \cup given \cup closed') = {}
          /\ Held' \cap (given \cup closed') = {}
          /\ given \cap closed' = {}
      BY <1>3, <1>5, <2>1, <2>3 DEF ExecInv, ResourcesConserved
    <3> QED
      BY <3>2, <3>3, <3>4 DEF ExecInv, ResourcesConserved
  <2>6. LockHeld' /\ AllocAfterFree'
    BY <1>2, <2>2 DEF ExecInv, LockHeld, AllocAfterFree
  <2>7. ExecInv'
    BY <1>6, <2>4, <2>5, <2>6 DEF ExecInv
  <2> QED
    BY <1>3, <2>1, <2>3, <2>7
<1> QED
  BY <1>7, <1>8

\* The steps that no thread takes: the caller closes, the driver completes,
\* the command is modified or deleted.
LEMMA CallerCloseKeeps ==
  ASSUME ExecInv, NEW j \in Job, CallerClose(j), UNCHANGED client
  PROVE  ExecInv' /\ Held' = Held
<1>1. /\ UNCHANGED <<mtx, dirty, execInfo, live, buffers, fences, jobs, thr, alive>>
      /\ j \in given /\ given' = given \ {j} /\ closed' = closed \cup {j}
  BY DEF CallerClose, cmd
<1>2. Job' = Job /\ Waiters' = Waiters /\ Held' = Held
  BY <1>1 DEF Job, Waiters, Held
<1>3. TypeOK'
  BY <1>1, <1>2 DEF ExecInv, TypeOK
<1>4. ResourcesConserved'
  <2>1. /\ live' = {execInfo'} \ {0}
        /\ \A t, u \in Waiters' : thr'[t].fd = thr'[u].fd => t = u
    BY <1>1, <1>2 DEF ExecInv, ResourcesConserved
  <2>2. /\ ToSet(fences) \cup Held \cup given' \cup closed' = Job
        /\ ToSet(fences) \cap (Held \cup given' \cup closed') = {}
        /\ Held \cap (given' \cup closed') = {}
        /\ given' \cap closed' = {}
    BY <1>1 DEF ExecInv, ResourcesConserved
  <2> QED
    BY <1>1, <1>2, <2>1, <2>2 DEF ExecInv, ResourcesConserved
<1>5. LockHeld' /\ AllocAfterFree' /\ JobsHaveBuffers'
  BY <1>1, <1>2 DEF ExecInv, LockHeld, AllocAfterFree, JobsHaveBuffers
<1> QED
  BY <1>2, <1>3, <1>4, <1>5 DEF ExecInv

LEMMA CompleteKeeps ==
  ASSUME ExecInv, NEW j \in Job, Complete(j), UNCHANGED client
  PROVE  ExecInv' /\ Held' = Held
<1>1. PICK r \in {"ok", "fail"} :
        /\ jobs' = [jobs EXCEPT ![j].state = "done", ![j].res = r]
        /\ buffers' = IF jobs[j].buf = 0 THEN buffers
                      ELSE [buffers EXCEPT ![jobs[j].buf] = r]
  BY DEF Complete
<1>2. UNCHANGED <<mtx, dirty, execInfo, live, fences, closed, given, thr, alive>>
  BY DEF Complete, cmd, fds
<1>3. /\ jobs \in Seq(JobRecord) /\ j \in 1 .. Len(jobs) /\ jobs[j] \in JobRecord
      /\ buffers \in Seq({"ok", "fail"})
      /\ jobs[j].buf # 0 => jobs[j].buf \in 1 .. Len(buffers)
  <2>1. /\ jobs \in Seq(JobRecord) /\ j \in 1 .. Len(jobs) /\ jobs[j] \in JobRecord
        /\ buffers \in Seq({"ok", "fail"})
    BY ElementOfSeq DEF ExecInv, TypeOK, Job
  <2>2. jobs[j].buf \in 0 .. MaxBuffers /\ jobs[j].buf <= Len(buffers)
    BY <2>1 DEF JobRecord, ExecInv, JobsHaveBuffers
  <2>3. Len(buffers) \in Nat
    BY <2>1, LenProperties
  <2> QED
    BY <2>1, <2>2, <2>3
<1>4. /\ jobs' \in Seq(JobRecord) /\ Len(jobs') = Len(jobs) /\ Job' = Job
      /\ \A k \in Job : jobs'[k].buf = jobs[k].buf
  <2>1. [jobs[j] EXCEPT !.state = "done", !.res = r] \in JobRecord
    BY <1>3 DEF JobRecord
  <2>2. jobs' = [jobs EXCEPT ![j] = [jobs[j] EXCEPT !.state = "done", !.res = r]]
    BY <1>1
  <2>3. jobs' \in Seq(JobRecord) /\ Len(jobs') = Len(jobs)
    BY <1>3, <2>1, <2>2, ExceptSeq
  <2>4. \A k \in 1 .. Len(jobs) : jobs[k] \in JobRecord
    BY <1>3, ElementOfSeq
  <2>5. \A k \in 1 .. Len(jobs) : jobs'[k].buf = jobs[k].buf
    BY <1>3, <2>2, <2>4, LenProperties DEF JobRecord
  <2> QED
    BY <2>3, <2>5 DEF Job
<1>5. buffers' \in Seq({"ok", "fail"}) /\ Len(buffers') = Len(buffers)
  <2>1. CASE jobs[j].buf = 0
    BY <1>1, <1>3, <2>1
  <2>2. CASE jobs[j].buf # 0
    <3>1. jobs[j].buf \in 1 .. Len(buffers) /\ buffers' = [buffers EXCEPT ![jobs[j].buf] = r]
      BY <1>1, <1>3, <2>2
    <3> QED
      BY <1>3, <3>1, ExceptSeq
  <2> QED
    BY <2>1, <2>2
<1>6. Waiters' = Waiters /\ Held' = Held
  BY <1>2 DEF Waiters, Held
<1>7. TypeOK'
  BY <1>2, <1>4, <1>5 DEF ExecInv, TypeOK
<1>8. ResourcesConserved'
  BY <1>2, <1>4, <1>6 DEF ExecInv, ResourcesConserved
<1>9. LockHeld' /\ AllocAfterFree'
  BY <1>2 DEF ExecInv, LockHeld, AllocAfterFree
<1>10. JobsHaveBuffers'
  BY <1>4, <1>5 DEF ExecInv, JobsHaveBuffers
<1> QED
  BY <1>6, <1>7, <1>8, <1>9, <1>10 DEF ExecInv

LEMMA ModifyKeeps ==
  ASSUME ExecInv, Modify, UNCHANGED client
  PROVE  ExecInv' /\ Held' = Held
<1>1. /\ UNCHANGED <<mtx, execInfo, live, buffers, fences, closed, given, jobs, thr, alive>>
      /\ dirty' = TRUE
  BY DEF Modify, fds
<1>2. Job' = Job /\ Waiters' = Waiters /\ Held' = Held
  BY <1>1 DEF Job, Waiters, Held
<1> QED
  BY <1>1, <1>2 DEF ExecInv, TypeOK, ResourcesConserved, LockHeld, AllocAfterFree,
                    JobsHaveBuffers

LEMMA DeleteKeeps ==
  ASSUME ExecInv, Delete, UNCHANGED client
  PROVE  ExecInv' /\ Held' = Held
<1>1. /\ UNCHANGED <<mtx, buffers, fences, closed, given, jobs, thr>>
      /\ live' = live \ {execInfo} /\ execInfo' = 0 /\ dirty' = TRUE /\ alive' = FALSE
  BY DEF Delete, fds
<1>2. Job' = Job /\ Waiters' = Waiters /\ Held' = Held
  BY <1>1 DEF Job, Waiters, Held
<1>3. live' = {} /\ execInfo' \in 0 .. Len(buffers)
  BY <1>1, LenProperties DEF ExecInv, ResourcesConserved, TypeOK
<1> QED
  BY <1>1, <1>2, <1>3 DEF ExecInv, TypeOK, ResourcesConserved, LockHeld, AllocAfterFree,
                          JobsHaveBuffers

-----------------------------------------------------------------------------
\* Every accepted submission has its record.
LEMMA JobsAreRecords ==
  ASSUME ExecInv
  PROVE  \A j \in Job : jobs[j] \in JobRecord
  BY ElementOfSeq DEF ExecInv, TypeOK, Job

\* When every fence is closed none is queued and nobody waits for one.
LEMMA AllClosed ==
  ASSUME ExecInv, \A j \in Job : j \in closed
  PROVE  fences = <<>> /\ Waiters = {}
<1>1. ToSet(fences) = {} /\ Held = {}
  BY DEF ExecInv, ResourcesConserved
<1>2. fences = <<>>
  BY <1>1, ToSetEmpty DEF ExecInv, TypeOK
<1>3. Waiters = {}
  BY <1>1 DEF Held
<1> QED
  BY <1>2, <1>3

\* A queued or held fence belongs to an open job.
LEMMA FencesAreOpen ==
  ASSUME ExecInv
  PROVE  /\ \A t \in Waiters : thr[t].fd \in Job /\ thr[t].fd \notin closed
         /\ fences # <<>> => \E j \in Job : j \notin closed
<1>1. \A t \in Waiters : thr[t].fd \in Job /\ thr[t].fd \notin closed
  BY DEF Held, ExecInv, ResourcesConserved
<1> QED
  BY <1>1, AllClosed

\* A thread moves on, or returns, and nothing else changes.
LEMMA QuietNoOverlap ==
  ASSUME ExecInv, NoOverlap, NEW t \in Threads,
         \A u \in Threads \ {t} : thr'[u] = thr[u],
         UNCHANGED <<dirty, execInfo, buffers, fences, closed, jobs>>,
         \/ thr'[t].pc = "idle"
         \/ /\ thr[t].pc \in {"lock", "free", "alloc", "ioctl"}
            /\ thr'[t].pc \in {"free", "alloc", "ioctl"}
            /\ thr'[t].pc # "ioctl" => thr[t].call = "build"
            /\ thr'[t].call = thr[t].call /\ thr'[t].eInfo = thr[t].eInfo
  PROVE  NoOverlap'
<1>1. Job' = Job /\ \A j \in Job : Settled(j)' <=> Settled(j)
  BY DEF Job, Settled
<1>2. \A u \in Threads : Busy(u)' => Busy(u) /\ thr'[u].call = thr[u].call
                                     /\ thr'[u].eInfo = thr[u].eInfo
  BY DEF Busy
<1>3. \A u \in Threads : thr'[u].pc \in {"lock", "free", "alloc", "ioctl"} =>
                           thr[u].pc \in {"lock", "free", "alloc", "ioctl"} /\ Busy(u)'
  BY DEF Busy
<1>4. OneAtATime'
  BY <1>2 DEF NoOverlap, OneAtATime
<1>5. OthersSettled'
  BY <1>1, <1>2, <1>3 DEF NoOverlap, OthersSettled
<1>6. RunsFindBuilt'
  BY <1>2 DEF NoOverlap, RunsFindBuilt, Runs
<1>7. InfoIsCurrent'
  BY <1>2 DEF NoOverlap, InfoIsCurrent
<1>8. OpenJobHasInfo'
  BY <1>1 DEF NoOverlap, OpenJobHasInfo
<1>9. PolledDone'
  BY DEF NoOverlap, PolledDone
<1> QED
  BY <1>4, <1>5, <1>6, <1>7, <1>8, <1>9 DEF NoOverlap

\* Nothing is under way: a build or a run may be called.
LEMMA CallAlone ==
  ASSUME ConstantsAssumption, ExecInv, NoOverlap, NEW t \in Threads, NEW c \in Calls,
         Call(t, c), c # "wait", ~Outstanding, c \in Runs => ~dirty /\ execInfo # 0
  PROVE  NoOverlap'
<1>1. /\ \A u \in Threads : u # t => thr'[u].pc = "idle"
      /\ \A j \in Job : Settled(j)
  <2>1. \A u \in Threads \ {t} : thr'[u] = thr[u]
    BY DEF Call, ExecInv, TypeOK
  <2>2. \A j \in Job : jobs[j].state \in {"running", "done"}
    BY JobsAreRecords DEF JobRecord
  <2> QED
    BY <2>1, <2>2 DEF Outstanding, InUse, Settled
<1>2. /\ thr'[t].pc = "lock" /\ thr'[t].call = c
      /\ c = "run" => thr'[t].eInfo = execInfo
  BY DEF Call, ExecInv, TypeOK, ThreadRecord
<1>3. UNCHANGED <<dirty, execInfo, buffers, fences, closed, jobs>>
  BY DEF Call, cmd, fds
<1>4. fences = <<>>
  BY <1>1, AllClosed DEF Settled
<1>5. Job' = Job /\ \A j \in Job : Settled(j)'
  BY <1>1, <1>3 DEF Job, Settled
<1>6. OneAtATime'
  BY <1>1, <1>3, <1>4 DEF OneAtATime, Busy
<1>7. OthersSettled' /\ OpenJobHasInfo'
  BY <1>5 DEF OthersSettled, OpenJobHasInfo
<1>8. RunsFindBuilt' /\ InfoIsCurrent' /\ PolledDone'
  BY <1>1, <1>2, <1>3 DEF RunsFindBuilt, InfoIsCurrent, PolledDone, Busy, Runs
<1> QED
  BY <1>6, <1>7, <1>8 DEF NoOverlap

\* A fence is queued: wait() may be called, and nothing but other waits is under way.
LEMMA CallWait ==
  ASSUME ConstantsAssumption, ExecInv, NoOverlap, NEW t \in Threads,
         Call(t, "wait"), fences # <<>>
  PROVE  NoOverlap'
<1>1. /\ \A u \in Threads \ {t} : thr'[u] = thr[u]
      /\ thr'[t].pc = "lock" /\ thr'[t].call = "wait" /\ thr'[t].eInfo = execInfo
  BY DEF Call, ExecInv, TypeOK, ThreadRecord
<1>2. UNCHANGED <<dirty, execInfo, buffers, fences, closed, jobs>>
  BY DEF Call, cmd, fds
<1>3. \A u \in Threads : Busy(u) => thr[u].call = "wait"
  BY DEF NoOverlap, OneAtATime
<1>4. execInfo # 0
  BY FencesAreOpen DEF NoOverlap, OpenJobHasInfo, Settled
<1>5. Job' = Job /\ \A j \in Job : Settled(j)' <=> Settled(j)
  BY <1>2 DEF Job, Settled
<1>6. \A u \in Threads : Busy(u)' => thr'[u].call = "wait"
  BY <1>1, <1>3 DEF Busy
<1>7. OneAtATime' /\ RunsFindBuilt'
  BY <1>6 DEF OneAtATime, RunsFindBuilt, Runs
<1>8. OthersSettled'
  BY <1>2, <1>5, <1>6 DEF NoOverlap, OthersSettled, Busy
<1>9. InfoIsCurrent'
  BY <1>1, <1>2, <1>4 DEF NoOverlap, InfoIsCurrent, Busy
<1>10. OpenJobHasInfo'
  BY <1>2, <1>5 DEF NoOverlap, OpenJobHasInfo
<1>11. PolledDone'
  BY <1>1, <1>2 DEF NoOverlap, PolledDone
<1> QED
  BY <1>7, <1>8, <1>9, <1>10, <1>11 DEF NoOverlap

\* A build has the command for itself, and a run finds no reason to build.
LEMMA ConstructNoOverlap ==
  ASSUME ConstantsAssumption, ExecInv, NoOverlap, NEW t \in Threads,
         ConstructFree(t) \/ ConstructAlloc(t) \/ ConstructFail(t)
  PROVE  NoOverlap'
<1>1. thr[t].pc \in {"free", "alloc"} /\ thr[t].call = "build"
  BY DEF ConstructFree, ConstructAlloc, ConstructFail, At, ExecInv, LockHeld,
         NoOverlap, RunsFindBuilt, Busy
<1>2. /\ fences = <<>>
      /\ \A u \in Threads : Busy(u) => u = t
      /\ \A j \in Job : Settled(j)
  BY <1>1 DEF NoOverlap, OneAtATime, OthersSettled, Busy
<1>3. /\ thr' \in [Threads -> ThreadRecord]
      /\ \A u \in Threads \ {t} : thr'[u] = thr[u]
      /\ thr'[t].pc = "idle" \/ (thr'[t].pc = "alloc" /\ thr'[t].call = "build")
  <2>1. CASE ConstructFree(t)
    BY <1>1, <2>1, GoToFacts DEF ConstructFree, ExecInv
  <2>2. CASE ConstructAlloc(t) \/ ConstructFail(t)
    BY <1>1, <2>2, ReturnFacts DEF ConstructAlloc, ConstructFail, AfterConstruct, ExecInv
  <2> QED
    BY <2>1, <2>2
<1>4. UNCHANGED <<fences, closed, jobs>>
  BY DEF ConstructFree, ConstructAlloc, ConstructFail, fds
<1>5. Job' = Job /\ \A j \in Job : Settled(j)'
  BY <1>2, <1>4 DEF Job, Settled
<1>6. \A u \in Threads : Busy(u)' => u = t /\ thr'[u].call = "build"
                              /\ thr'[u].pc \notin {"poll", "finish"}
  BY <1>2, <1>3 DEF Busy
<1>7. OneAtATime'
  BY <1>2, <1>4, <1>6 DEF OneAtATime
<1>8. OthersSettled' /\ OpenJobHasInfo'
  BY <1>5 DEF OthersSettled, OpenJobHasInfo
<1>9. RunsFindBuilt' /\ InfoIsCurrent'
  BY <1>6 DEF RunsFindBuilt, InfoIsCurrent, Busy, Runs
<1>10. PolledDone'
  BY <1>6 DEF PolledDone, Busy
<1> QED
  BY <1>7, <1>8, <1>9, <1>10 DEF NoOverlap

LEMMA LockNoOverlap ==
  ASSUME ConstantsAssumption, ExecInv, NoOverlap, NEW t \in Threads,
         Lock(t) \/ WaitNothing(t) \/ SubmitFail(t)
  PROVE  NoOverlap'
<1>1. UNCHANGED <<dirty, execInfo, buffers, fences, closed, jobs>>
  BY DEF Lock, WaitNothing, SubmitFail, cmd, fds
<1>2. CASE Lock(t)
  <2>1. PICK pc \in {"free", "ioctl"} :
          GoTo(t, pc) /\ (pc = "free" => thr[t].call = "build" \/ dirty)
    BY <1>2 DEF Lock
  <2>2. thr[t].pc = "lock" /\ thr[t].call \in Runs \cup {"build"}
    BY <1>2 DEF Lock, At, ExecInv, TypeOK, ThreadRecord, Calls, Runs
  <2>3. pc = "free" => thr[t].call = "build"
    BY <2>1, <2>2 DEF NoOverlap, RunsFindBuilt, Busy
  <2>4. /\ \A u \in Threads \ {t} : thr'[u] = thr[u]
        /\ thr'[t].pc = pc /\ thr'[t].call = thr[t].call
        /\ thr'[t].eInfo = thr[t].eInfo
    BY <2>1, GoToFacts DEF ExecInv
  <2> QED
    BY <1>1, <2>2, <2>3, <2>4, QuietNoOverlap
<1>3. CASE WaitNothing(t) \/ SubmitFail(t)
  <2>1. /\ \A u \in Threads \ {t} : thr'[u] = thr[u]
        /\ thr'[t].pc = "idle"
    BY <1>3, ReturnFacts DEF WaitNothing, SubmitFail, ExecInv
  <2> QED
    BY <1>1, <2>1, QuietNoOverlap
<1> QED
  BY <1>2, <1>3

\* The one job that is open is the one just submitted.
LEMMA SubmitNoOverlap ==
  ASSUME ConstantsAssumption, ExecInv, NoOverlap, NEW t \in Threads, Submit(t)
  PROVE  NoOverlap'
<1> DEFINE j == Len(jobs) + 1
           job == [buf |-> execInfo, state |-> "running", res |-> "ok", told |-> "none"]
<1>1. /\ thr[t].pc = "ioctl" /\ thr[t].call \in Runs
      /\ jobs' = Append(jobs, job)
      /\ UNCHANGED <<dirty, execInfo, buffers, closed>>
  BY DEF Submit, At, cmd, ExecInv, LockHeld
<1>2. /\ fences = <<>> /\ execInfo # 0 /\ ~dirty
      /\ thr[t].call = "run" => thr[t].eInfo = execInfo
      /\ \A u \in Threads : u # t => thr[u].pc = "idle"
      /\ \A k \in Job : Settled(k)
  BY <1>1 DEF NoOverlap, OneAtATime, OthersSettled, RunsFindBuilt, InfoIsCurrent, Busy, Runs
<1>3. /\ Len(jobs) \in Nat /\ Len(jobs') = j /\ Job' = Job \cup {j} /\ j \notin Job
      /\ \A k \in Job : jobs'[k] = jobs[k]
      /\ jobs'[j].buf = execInfo /\ jobs'[j].state = "running"
  <2>1. /\ Len(jobs) \in Nat /\ Len(jobs') = j
        /\ \A k \in 1 .. Len(jobs) : jobs'[k] = jobs[k]
        /\ jobs'[j] = job
    BY <1>1, ToSetAppend, AppendProperties, LenProperties DEF ExecInv, TypeOK
  <2> QED
    BY <2>1 DEF Job
<1>4. \A k \in Job : Settled(k)'
  BY <1>1, <1>2, <1>3 DEF Settled
<1>5. CASE thr[t].call = "run"
  <2>1. /\ \A u \in Threads : u # t => thr'[u].pc = "idle"
        /\ thr'[t].pc = "poll" /\ thr'[t].call = "run" /\ thr'[t].eInfo = execInfo
        /\ fences' = <<>>
    <3>1. thr' = [thr EXCEPT ![t] = [thr[t] EXCEPT !.pc = "poll", !.fd = j]] /\ fences' = fences
      BY <1>5 DEF Submit
    <3>2. thr \in [Threads -> ThreadRecord]
      BY DEF ExecInv, TypeOK
    <3> QED
      BY <1>2, <1>5, <3>1, <3>2 DEF ThreadRecord
  <2>2. OneAtATime' /\ RunsFindBuilt' /\ InfoIsCurrent' /\ PolledDone'
    BY <1>1, <1>2, <2>1 DEF OneAtATime, RunsFindBuilt, InfoIsCurrent, PolledDone, Busy, Runs
  <2>3. OthersSettled'
    BY <1>3, <1>4, <2>1 DEF OthersSettled
  <2>4. OpenJobHasInfo'
    BY <1>1, <1>2, <1>3, <1>4 DEF OpenJobHasInfo
  <2> QED
    BY <2>2, <2>3, <2>4 DEF NoOverlap
<1>6. CASE thr[t].call # "run"
  <2>1. \A u \in Threads : thr'[u].pc = "idle"
    <3>1. Return(t)
      BY <1>6 DEF Submit, Return
    <3> QED
      BY <1>2, <3>1, ReturnFacts DEF ExecInv
  <2>2. OneAtATime' /\ RunsFindBuilt' /\ InfoIsCurrent' /\ PolledDone'
    BY <2>1 DEF OneAtATime, RunsFindBuilt, InfoIsCurrent, PolledDone, Busy
  <2>3. OthersSettled'
    BY <1>3, <1>4, <2>1 DEF OthersSettled
  <2>4. OpenJobHasInfo'
    BY <1>1, <1>2, <1>3, <1>4 DEF OpenJobHasInfo
  <2> QED
    BY <2>2, <2>3, <2>4 DEF NoOverlap
<1> QED
  BY <1>5, <1>6

\* Taking a fence and polling it change nothing that others rely on.
LEMMA WaitNoOverlap ==
  ASSUME ExecInv, NoOverlap, NEW t \in Threads, WaitTake(t) \/ Poll(t)
  PROVE  NoOverlap'
<1>1. /\ UNCHANGED <<dirty, execInfo, buffers, closed, jobs>>
      /\ \A u \in Threads \ {t} : thr'[u] = thr[u]
      /\ thr'[t].pc \in {"poll", "finish"} /\ thr[t].pc # "idle"
      /\ thr'[t].call = thr[t].call /\ thr'[t].eInfo = thr[t].eInfo
      /\ fences = <<>> => fences' = <<>>
  BY DEF WaitTake, Poll, At, cmd, fds, ExecInv, TypeOK, ThreadRecord
<1>2. Job' = Job /\ \A j \in Job : Settled(j)' <=> Settled(j)
  BY <1>1 DEF Job, Settled
<1>3. \A u \in Threads : Busy(u)' => Busy(u) /\ thr'[u].call = thr[u].call
                                     /\ thr'[u].eInfo = thr[u].eInfo
  BY <1>1 DEF Busy
<1>4. OneAtATime'
  BY <1>1, <1>3 DEF NoOverlap, OneAtATime
<1>5. OthersSettled'
  BY <1>1, <1>2 DEF NoOverlap, OthersSettled
<1>6. RunsFindBuilt' /\ InfoIsCurrent'
  <2>1. thr[t].call \in {"run", "wait"}
    BY DEF WaitTake, Poll, At, NoOverlap, InfoIsCurrent
  <2> QED
    BY <1>1, <1>3, <2>1 DEF NoOverlap, RunsFindBuilt, InfoIsCurrent, Runs
<1>7. OpenJobHasInfo'
  BY <1>1, <1>2 DEF NoOverlap, OpenJobHasInfo
<1>8. PolledDone'
  <2>1. CASE WaitTake(t)
    <3>1. thr'[t].pc = "poll"
      BY <2>1 DEF WaitTake, ExecInv, TypeOK, ThreadRecord
    <3> QED
      BY <1>1, <3>1 DEF NoOverlap, PolledDone
  <2>2. CASE Poll(t)
    <3>1. /\ thr'[t].fd = thr[t].fd
          /\ thr'[t].polled = "signalled" => jobs[thr[t].fd].state = "done"
      BY <2>2 DEF Poll, ExecInv, TypeOK, ThreadRecord
    <3> QED
      BY <1>1, <3>1 DEF NoOverlap, PolledDone
  <2> QED
    BY <2>1, <2>2
<1> QED
  BY <1>4, <1>5, <1>6, <1>7, <1>8 DEF NoOverlap

\* What run() and wait() report: the result of the open job, out of the buffer
\* they fetched before they locked the command.
LEMMA FinishNoOverlap ==
  ASSUME ConstantsAssumption, ExecInv, NoOverlap, client = "single", ReportsOwnResult,
         NEW t \in Threads, Finish(t), UNCHANGED client
  PROVE  NoOverlap' /\ ReportsOwnResult'
<1> DEFINE j == thr[t].fd
<1>1. /\ thr[t].pc = "finish" /\ thr[t].eInfo = execInfo /\ execInfo # 0
      /\ j \in Job /\ ~Settled(j)
  <2>1. thr[t].pc = "finish" /\ t \in Waiters
    BY DEF Finish, At, Waiters
  <2>2. j \in Job /\ j \notin closed
    BY <2>1, FencesAreOpen
  <2> QED
    BY <2>1, <2>2 DEF NoOverlap, InfoIsCurrent, Busy, Settled
<1>2. /\ thr[t].polled = "signalled" => jobs[j].state = "done"
      /\ jobs[j].state = "done" => buffers[execInfo] = jobs[j].res
  BY <1>1 DEF NoOverlap, PolledDone, OpenJobHasInfo
<1>3. execInfo \in live
  BY <1>1 DEF ExecInv, ResourcesConserved
<1>4. /\ jobs[j] \in JobRecord
      /\ jobs[j].res \in {"ok", "fail"}
  BY <1>1, JobsAreRecords DEF JobRecord
<1>5. PICK r : /\ jobs' = [jobs EXCEPT ![j].told = r]
               /\ r = "errno" \/ (jobs[j].state = "done" /\ r = jobs[j].res)
               /\ closed' = closed \cup {j} /\ Return(t)
  <2>1. PICK r \in Outcome(t) :
          /\ jobs' = [jobs EXCEPT ![j].told = r]
          /\ IF r = "fault"
             THEN alive' = FALSE /\ UNCHANGED <<closed, thr>>
             ELSE closed' = closed \cup {j} /\ Return(t) /\ UNCHANGED alive
    BY DEF Finish
  <2>2. r = "errno" \/ (jobs[j].state = "done" /\ r = jobs[j].res)
    BY <1>1, <1>2, <1>3, <2>1 DEF Outcome
  <2>3. r # "fault"
    BY <1>4, <2>2
  <2> QED
    BY <2>1, <2>2, <2>3
<1>6. UNCHANGED <<dirty, execInfo, buffers, fences, client>>
  BY DEF Finish, cmd
<1>7. /\ Len(jobs') = Len(jobs) /\ Job' = Job
      /\ \A k \in Job : /\ jobs'[k].state = jobs[k].state
                        /\ jobs'[k].res = jobs[k].res
                        /\ jobs'[k].buf = jobs[k].buf
                        /\ jobs'[k].told = IF k = j THEN r ELSE jobs[k].told
  <2>1. jobs \in Seq(JobRecord) /\ j \in 1 .. Len(jobs)
    BY <1>1 DEF ExecInv, TypeOK, Job
  <2>2. Len(jobs') = Len(jobs)
    BY <1>5, <2>1, LenProperties
  <2>3. \A k \in 1 .. Len(jobs) : jobs[k] \in JobRecord
    BY <2>1, ElementOfSeq
  <2>4. jobs' = [k \in 1 .. Len(jobs) |-> IF k = j THEN [jobs[k] EXCEPT !.told = r] ELSE jobs[k]]
    BY <1>5, <2>1, LenProperties
  <2> QED
    BY <2>2, <2>3, <2>4 DEF Job, JobRecord
<1>8. /\ \A u \in Threads \ {t} : thr'[u] = thr[u]
      /\ thr'[t].pc = "idle"
  BY <1>5, ReturnFacts DEF ExecInv
<1>9. \A k \in Job : Settled(k) => Settled(k)'
  BY <1>5, <1>7 DEF Settled
<1>10. \A u \in Threads : Busy(u)' => Busy(u) /\ thr'[u] = thr[u]
  BY <1>8 DEF Busy
<1>11. \A u \in Threads : thr'[u].pc # "idle" => u # t /\ thr'[u] = thr[u] /\ Busy(u)
  BY <1>8 DEF Busy
<1>12. OneAtATime'
  BY <1>6, <1>10 DEF NoOverlap, OneAtATime
<1>13. OthersSettled'
  BY <1>7, <1>9, <1>11 DEF NoOverlap, OthersSettled
<1>14. RunsFindBuilt'
  BY <1>6, <1>10 DEF NoOverlap, RunsFindBuilt
<1>15. InfoIsCurrent'
  BY <1>6, <1>10, <1>11 DEF NoOverlap, InfoIsCurrent
<1>16. OpenJobHasInfo'
  BY <1>6, <1>7, <1>9 DEF NoOverlap, OpenJobHasInfo
<1>17. PolledDone'
  <2>1. \A u \in Waiters : thr[u].fd \in Job
    BY FencesAreOpen
  <2> QED
    BY <1>7, <1>11, <2>1 DEF NoOverlap, PolledDone, Waiters
<1>18. ReportsOwnResult'
  BY <1>4, <1>5, <1>6, <1>7 DEF ReportsOwnResult
<1> QED
  BY <1>12, <1>13, <1>14, <1>15, <1>16, <1>17, <1>18 DEF NoOverlap

\* The driver writes the result to the buffer that is going to be read.
LEMMA CompleteNoOverlap ==
  ASSUME ConstantsAssumption, ExecInv, NoOverlap, client = "single", ReportsOwnResult,
         NEW j \in Job, Complete(j), UNCHANGED client
  PROVE  NoOverlap' /\ ReportsOwnResult'
<1>1. ~Settled(j) /\ jobs[j].state = "running"
  BY DEF Complete, Settled
<1>2. jobs[j].buf = execInfo /\ execInfo # 0
  BY <1>1 DEF NoOverlap, OpenJobHasInfo
<1>3. PICK r \in {"ok", "fail"} :
        /\ jobs' = [jobs EXCEPT ![j].state = "done", ![j].res = r]
        /\ buffers' = [buffers EXCEPT ![execInfo] = r]
  BY <1>2 DEF Complete
<1>4. UNCHANGED <<dirty, execInfo, fences, closed, thr, client>>
  BY DEF Complete, cmd, fds
<1>5. buffers'[execInfo] = r
  BY <1>2, <1>3, LenProperties DEF ExecInv, TypeOK
<1>6. /\ Len(jobs') = Len(jobs) /\ Job' = Job
      /\ \A k \in Job : /\ jobs'[k].state = IF k = j THEN "done" ELSE jobs[k].state
                        /\ jobs'[k].res = IF k = j THEN r ELSE jobs[k].res
                        /\ jobs'[k].buf = jobs[k].buf
                        /\ jobs'[k].told = jobs[k].told
  <2>1. jobs \in Seq(JobRecord) /\ j \in 1 .. Len(jobs)
    BY DEF ExecInv, TypeOK, Job
  <2>2. Len(jobs') = Len(jobs)
    BY <1>3, <2>1, LenProperties
  <2>3. \A k \in 1 .. Len(jobs) : jobs[k] \in JobRecord
    BY <2>1, ElementOfSeq
  <2>4. jobs' = [k \in 1 .. Len(jobs) |->
                   IF k = j THEN [jobs[k] EXCEPT !.state = "done", !.res = r] ELSE jobs[k]]
    BY <1>3, <2>1, LenProperties
  <2> QED
    BY <2>2, <2>3, <2>4 DEF Job, JobRecord
<1>7. \A k \in Job : Settled(k) => Settled(k)'
  BY <1>4, <1>6 DEF Settled
<1>8. \A k \in Job : k # j => Settled(k)
  BY <1>1 DEF NoOverlap, OthersSettled
<1>9. OneAtATime' /\ RunsFindBuilt' /\ InfoIsCurrent'
  BY <1>4 DEF NoOverlap, OneAtATime, RunsFindBuilt, InfoIsCurrent, Busy
<1>10. OthersSettled'
  BY <1>4, <1>6, <1>7 DEF NoOverlap, OthersSettled
<1>11. OpenJobHasInfo'
  BY <1>2, <1>4, <1>5, <1>6, <1>7, <1>8 DEF OpenJobHasInfo
<1>12. PolledDone'
  <2>1. \A u \in Waiters : thr[u].fd \in Job
    BY FencesAreOpen
  <2> QED
    BY <1>4, <1>6, <2>1 DEF NoOverlap, PolledDone, Waiters
<1>13. ReportsOwnResult'
  BY <1>1, <1>4, <1>6 DEF ReportsOwnResult
<1> QED
  BY <1>9, <1>10, <1>11, <1>12, <1>13 DEF NoOverlap

\* A fence the caller closes leaves the other runs as they are.
LEMMA CallerCloseNoOverlap ==
  ASSUME ExecInv, NoOverlap, NEW j \in Job, CallerClose(j)
  PROVE  NoOverlap'
<1>1. /\ UNCHANGED <<dirty, execInfo, buffers, fences, jobs, thr>>
      /\ closed' = closed \cup {j}
  BY DEF CallerClose, cmd
<1>2. Job' = Job /\ \A k \in Job : Settled(k) => Settled(k)'
  BY <1>1 DEF Job, Settled
<1> QED
  BY <1>1, <1>2 DEF NoOverlap, OneAtATime, OthersSettled, RunsFindBuilt, InfoIsCurrent,
                    OpenJobHasInfo, PolledDone, Busy

\* The command is modified only while nothing is under way.
LEMMA ModifyNoOverlap ==
  ASSUME ExecInv, NoOverlap, client = "single", Modify
  PROVE  NoOverlap'
<1>1. UNCHANGED <<execInfo, buffers, fences, closed, jobs, thr>>
  BY DEF Modify, fds
<1>2. \A t \in Threads : ~Busy(t)
  BY DEF Modify, MayModify, Outstanding, InUse, Busy
<1>3. Job' = Job /\ (\A k \in Job : Settled(k)' <=> Settled(k)) /\ \A t \in Threads : ~Busy(t)'
  BY <1>1, <1>2 DEF Job, Settled, Busy
<1>4. RunsFindBuilt'
  BY <1>3 DEF RunsFindBuilt
<1> QED
  BY <1>1, <1>3, <1>4 DEF NoOverlap, OneAtATime, OthersSettled, InfoIsCurrent,
                          OpenJobHasInfo, PolledDone, Busy

-----------------------------------------------------------------------------
\* A step of the command that changes no fence is no step of the tickets.
LEMMA TicketsStutter ==
  ASSUME UNCHANGED <<fences, closed, given, alive>>, Held' = Held
  PROVE  UNCHANGED Tickets!vars
  BY DEF Tickets!vars

\* The invariant and the implementation of the tickets, action by action.
LEMMA ExecStep ==
  ASSUME ConstantsAssumption, ExecInv, [Next]_vars
  PROVE  ExecInv' /\ [Tickets!Next]_(Tickets!vars)
<1>1. ASSUME NEW t \in Threads, NEW c \in Calls, Call(t, c), UNCHANGED client
      PROVE  ExecInv' /\ UNCHANGED Tickets!vars
  BY <1>1, CallKeeps, TicketsStutter DEF Call, fds
<1>2. ASSUME NEW t \in Threads, Lock(t) \/ WaitNothing(t), UNCHANGED client
      PROVE  ExecInv' /\ UNCHANGED Tickets!vars
  BY <1>2, LockKeeps, WaitNothingKeeps, TicketsStutter DEF Lock, WaitNothing, fds
<1>3. ASSUME NEW t \in Threads, UNCHANGED client,
             ConstructFree(t) \/ ConstructAlloc(t) \/ ConstructFail(t)
      PROVE  ExecInv' /\ UNCHANGED Tickets!vars
  BY <1>3, ConstructFreeKeeps, ConstructAllocKeeps, ConstructFailKeeps, TicketsStutter
  DEF ConstructFree, ConstructAlloc, ConstructFail, fds
<1>4. ASSUME NEW t \in Threads, SubmitFail(t) \/ Poll(t), UNCHANGED client
      PROVE  ExecInv' /\ UNCHANGED Tickets!vars
  BY <1>4, SubmitFailKeeps, PollKeeps, TicketsStutter DEF SubmitFail, Poll, fds
<1>5. ASSUME NEW t \in Threads, Submit(t), UNCHANGED client
      PROVE  ExecInv' /\ Tickets!Next
  <2> DEFINE j == Len(jobs) + 1
  <2>1. /\ ExecInv'
        /\ j \in 1 .. MaxJobs /\ j \notin ToSet(fences) \cup Held \cup given \cup closed
        /\ \/ /\ Held' = Held \cup {j} /\ fences' = fences /\ given' = given
           \/ /\ ToSet(fences') = ToSet(fences) \cup {j} /\ Held' = Held /\ given' = given
           \/ /\ given' = given \cup {j} /\ fences' = fences /\ Held' = Held
    BY <1>5, SubmitKeeps
  <2>2. alive /\ alive' = alive /\ closed' = closed
    BY <1>5 DEF Submit, At
  <2>3. Tickets!AcceptAsync(j) \/ Tickets!AcceptSync(j) \/ Tickets!AcceptFence(j)
    BY <2>1, <2>2
    DEF Tickets!AcceptAsync, Tickets!AcceptSync, Tickets!AcceptFence, Tickets!Fresh
  <2> QED
    BY <2>1, <2>3 DEF Tickets!Next
<1>6. ASSUME NEW t \in Threads, WaitTake(t), UNCHANGED client
      PROVE  ExecInv' /\ Tickets!Next
  <2> DEFINE j == Last(fences)
  <2>1. /\ ExecInv'
        /\ j \in ToSet(fences)
        /\ ToSet(fences') = ToSet(fences) \ {j}
        /\ Held' = Held \cup {j}
    BY <1>6, TakeKeeps
  <2>2. alive /\ UNCHANGED <<given, closed, alive>>
    BY <1>6 DEF WaitTake, At
  <2>3. j \in 1 .. MaxJobs
    BY <2>1 DEF ExecInv, ResourcesConserved, TypeOK, Job, ConstantsAssumption
  <2>4. Tickets!Claim(j)
    BY <2>1, <2>2 DEF Tickets!Claim
  <2> QED
    BY <2>1, <2>3, <2>4 DEF Tickets!Next
<1>7. ASSUME NEW t \in Threads, Finish(t), UNCHANGED client
      PROVE  ExecInv' /\ Tickets!Next
  <2> DEFINE j == thr[t].fd
  <2>1. /\ ExecInv' /\ j \in Held
        /\ \/ /\ alive' = FALSE /\ Held' = Held /\ closed' = closed
           \/ /\ alive' = alive /\ Held' = Held \ {j} /\ closed' = closed \cup {j}
    BY <1>7, FinishKeeps
  <2>2. alive /\ fences' = fences /\ given' = given
    BY <1>7 DEF Finish, At
  <2>3. j \in 1 .. MaxJobs /\ given \ {j} = given
    BY <2>1 DEF ExecInv, ResourcesConserved, TypeOK, Job, ConstantsAssumption
  <2>4. Tickets!Stop \/ Tickets!Retire(j)
    BY <2>1, <2>2, <2>3 DEF Tickets!Stop, Tickets!Retire
  <2> QED
    BY <2>1, <2>3, <2>4 DEF Tickets!Next
<1>8. ASSUME NEW j \in Job, CallerClose(j), UNCHANGED client
      PROVE  ExecInv' /\ Tickets!Next
  <2>1. /\ ExecInv' /\ Held' = Held
        /\ alive /\ alive' = alive /\ fences' = fences
        /\ j \in given /\ given' = given \ {j} /\ closed' = closed \cup {j}
    BY <1>8, CallerCloseKeeps DEF CallerClose
  <2>2. j \in 1 .. MaxJobs /\ Held \ {j} = Held
    BY <2>1 DEF ExecInv, ResourcesConserved, TypeOK, Job, ConstantsAssumption
  <2>3. Tickets!Retire(j)
    BY <2>1, <2>2 DEF Tickets!Retire
  <2> QED
    BY <2>1, <2>2, <2>3 DEF Tickets!Next
<1>9. ASSUME NEW j \in Job, Complete(j), UNCHANGED client
      PROVE  ExecInv' /\ UNCHANGED Tickets!vars
  BY <1>9, CompleteKeeps, TicketsStutter DEF Complete, fds
<1>10. ASSUME Modify, UNCHANGED client
       PROVE  ExecInv' /\ UNCHANGED Tickets!vars
  BY <1>10, ModifyKeeps, TicketsStutter DEF Modify, fds
<1>11. ASSUME Delete, UNCHANGED client
       PROVE  ExecInv' /\ Tickets!Next
  <2>1. ExecInv' /\ Held' = Held
    BY <1>11, DeleteKeeps
  <2>2. Tickets!Stop
    BY <1>11, <2>1 DEF Delete, fds, Tickets!Stop
  <2> QED
    BY <2>1, <2>2 DEF Tickets!Next
<1>12. ASSUME UNCHANGED vars \/ (Gone /\ UNCHANGED client)
       PROVE  ExecInv' /\ UNCHANGED Tickets!vars
  <2>1. UNCHANGED <<mtx, dirty, execInfo, live, buffers, fences, closed, given, jobs, thr,
                    alive, client>>
    BY <1>12 DEF vars, Gone, cmd, fds
  <2>2. Job' = Job /\ Waiters' = Waiters /\ Held' = Held
    BY <2>1 DEF Job, Waiters, Held
  <2>3. ExecInv'
    BY <2>1, <2>2 DEF ExecInv, TypeOK, ResourcesConserved, LockHeld, AllocAfterFree,
                      JobsHaveBuffers
  <2> QED
    BY <2>1, <2>2, <2>3, TicketsStutter
<1> QED
  BY <1>1, <1>2, <1>3, <1>4, <1>5, <1>6, <1>7, <1>8, <1>9, <1>10, <1>11, <1>12
  DEF Next, Step, Acquire, Proceed

\* What runs that do not overlap report, action by action.
LEMMA SingleStep ==
  ASSUME ConstantsAssumption, ExecInv, SingleInv, ReportsOwnResult, [Next]_vars
  PROVE  SingleInv' /\ ReportsOwnResult'
<1>1. CASE UNCHANGED vars
  <2>1. UNCHANGED <<mtx, dirty, execInfo, live, buffers, fences, closed, given, jobs, thr,
                    alive, client>>
    BY <1>1 DEF vars, cmd, fds
  <2>2. Job' = Job /\ \A j \in Job : Settled(j)' <=> Settled(j)
    BY <2>1 DEF Job, Settled
  <2> QED
    BY <2>1, <2>2 DEF SingleInv, NoOverlap, OneAtATime, OthersSettled, RunsFindBuilt,
                      InfoIsCurrent, OpenJobHasInfo, PolledDone, Busy, ReportsOwnResult
<1>2. CASE client # "single" /\ client' = client
  BY <1>2 DEF SingleInv, ReportsOwnResult
<1>3. CASE client = "single" /\ client' = client /\ Gone
  BY <1>3 DEF Gone, SingleInv, ReportsOwnResult, Job
<1>4. CASE client = "single" /\ client' = client /\ Delete
  BY <1>4 DEF Delete, SingleInv, ReportsOwnResult, Job
<1>5. ASSUME client = "single", client' = client, Step, ~Delete
      PROVE  NoOverlap' /\ ReportsOwnResult'
  <2>1. NoOverlap
    BY <1>5 DEF Step, SingleInv, Call, Acquire, Lock, WaitTake, WaitNothing, Proceed,
                ConstructFree, ConstructAlloc, ConstructFail, Submit, SubmitFail, Poll, Finish,
                Complete, CallerClose, Modify, At
  <2>2. ASSUME UNCHANGED jobs
        PROVE  ReportsOwnResult'
    BY <1>5, <2>2 DEF ReportsOwnResult, Job
  <2>3. ASSUME NEW t \in Threads, NEW c \in Calls, Call(t, c)
        PROVE  NoOverlap' /\ UNCHANGED jobs
    <3>1. \/ c = "wait" /\ fences # <<>>
          \/ c # "wait" /\ ~Outstanding /\ (c \in Runs => ~dirty /\ execInfo # 0)
      BY <1>5, <2>3 DEF Call, MayCall, Calls, Runs
    <3> QED
      BY <2>1, <2>3, <3>1, CallWait, CallAlone DEF Call
  <2>4. ASSUME NEW t \in Threads, Lock(t) \/ WaitNothing(t) \/ SubmitFail(t)
        PROVE  NoOverlap' /\ UNCHANGED jobs
    BY <2>1, <2>4, LockNoOverlap DEF Lock, WaitNothing, SubmitFail
  <2>5. ASSUME NEW t \in Threads, ConstructFree(t) \/ ConstructAlloc(t) \/ ConstructFail(t)
        PROVE  NoOverlap' /\ UNCHANGED jobs
    BY <2>1, <2>5, ConstructNoOverlap DEF ConstructFree, ConstructAlloc, ConstructFail
  <2>6. ASSUME NEW t \in Threads, WaitTake(t) \/ Poll(t)
        PROVE  NoOverlap' /\ UNCHANGED jobs
    BY <2>1, <2>6, WaitNoOverlap DEF WaitTake, Poll
  <2>7. ASSUME NEW t \in Threads, Submit(t)
        PROVE  NoOverlap' /\ ReportsOwnResult'
    <3>1. NoOverlap'
      BY <2>1, <2>7, SubmitNoOverlap
    <3>2. jobs \in Seq(JobRecord) /\ Len(jobs) \in Nat
      BY LenProperties DEF ExecInv, TypeOK
    <3>3. PICK job : jobs' = Append(jobs, job) /\ job.told = "none"
      BY <2>7 DEF Submit
    <3>4. /\ Job' = Job \cup {Len(jobs) + 1}
          /\ \A j \in Job : jobs'[j] = jobs[j]
          /\ jobs'[Len(jobs) + 1].told = "none"
      BY <3>2, <3>3 DEF Job
    <3>5. ReportsOwnResult'
      BY <1>5, <3>4 DEF ReportsOwnResult
    <3> QED
      BY <3>1, <3>5
  <2>8. ASSUME NEW t \in Threads, Finish(t)
        PROVE  NoOverlap' /\ ReportsOwnResult'
    BY <1>5, <2>1, <2>8, FinishNoOverlap
  <2>9. ASSUME NEW j \in Job, Complete(j)
        PROVE  NoOverlap' /\ ReportsOwnResult'
    BY <1>5, <2>1, <2>9, CompleteNoOverlap
  <2>10. ASSUME NEW j \in Job, CallerClose(j)
         PROVE  NoOverlap' /\ UNCHANGED jobs
    BY <2>1, <2>10, CallerCloseNoOverlap DEF CallerClose
  <2>11. ASSUME Modify
         PROVE  NoOverlap' /\ UNCHANGED jobs
    BY <1>5, <2>1, <2>11, ModifyNoOverlap DEF Modify
  <2> QED
    BY <1>5, <2>2, <2>3, <2>4, <2>5, <2>6, <2>7, <2>8, <2>9, <2>10, <2>11
    DEF Step, Acquire, Proceed
<1> QED
  BY <1>1, <1>2, <1>3, <1>4, <1>5 DEF Next, SingleInv

-----------------------------------------------------------------------------
\* The invariant holds in every state of a command and its runs.
LEMMA ExecInvariant == Spec => [](ExecInv /\ SingleInv /\ ReportsOwnResult)
<1>1. Init => ExecInv /\ SingleInv /\ ReportsOwnResult
  BY ConstantsAssumption, ExecInit
<1>2. ExecInv /\ SingleInv /\ ReportsOwnResult /\ [Next]_vars
        => (ExecInv /\ SingleInv /\ ReportsOwnResult)'
  BY ConstantsAssumption, ExecStep, SingleStep
<1> QED
  BY <1>1, <1>2, PTL DEF Spec

\* The command, its buffers and jobs and the locals of its calls keep their
\* types; no call uses a fence or a buffer number that was never handed out.
THEOREM TypesV2 == Spec => []TypeOK
<1>1. ExecInv => TypeOK
  BY DEF ExecInv
<1> QED
  BY <1>1, ExecInvariant, PTL

\* However many threads build, run, wait for and close runs of one command,
\* every fence the driver returned is in exactly one place, and the session
\* keeps no exec-info buffer but the current one.
THEOREM FencesAndBuffersConserved == Spec => []ResourcesConserved
<1>1. ExecInv => ResourcesConserved
  BY DEF ExecInv
<1> QED
  BY <1>1, ExecInvariant, PTL

\* When runs do not overlap, run() and wait() report the result of the run they
\* waited for, although they fetch the buffer before they lock the command.
THEOREM RunsReportOwnResult == Spec => []ReportsOwnResult
  BY ExecInvariant, PTL

\* Submission, mFenceList, wait() and close() implement tickets claimed once and
\* retired once; that claimed tickets are retired at last needs fairness.
THEOREM ImplementsTicketSteps == Spec => Tickets!Init /\ [][Tickets!Next]_(Tickets!vars)
<1>1. Init => Tickets!Init
  <2>1. ASSUME Init
        PROVE  ToSet(fences) = {} /\ Held = {} /\ given = {} /\ closed = {} /\ alive = TRUE
    BY <2>1 DEF Init, ToSet, Held, Waiters, Idle
  <2> QED
    BY <2>1 DEF Tickets!Init
<1>2. ExecInv /\ [Next]_vars => [Tickets!Next]_(Tickets!vars)
  BY ConstantsAssumption, ExecStep
<1> QED
  BY <1>1, <1>2, ExecInvariant, PTL DEF Spec

=============================================================================
