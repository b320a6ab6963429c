-------------------------- MODULE CmdExecV1Proofs --------------------------
(***************************************************************************)
(* Proofs about CmdExecV1, for any number of threads, host addresses,      *)
(* allocations and jobs, with or without failing allocations.              *)
(*                                                                         *)
(* TypeInv and DirtyMarks are inductive whatever happens.  SoundInv speaks *)
(* of a command no build() of which was refused: after that mCmdMem is the *)
(* address of freed memory.                                                *)
(***************************************************************************)
EXTENDS CmdExecV1, SequenceTheorems, TLAPS

Runs    == {"run", "runAsync", "runFence"}
BuildPC == {"mtx", "free", "clear", "alloc", "construct", "reset"}
RunPC   == {"preExec", "header", "setFence", "copyIn", "submit"}

\* A call past mExecMtx, or past the user's call of build().
Inside(t) == thr[t].pc \notin {"idle", "exec"}

\* The positions each call goes through.
Places(call) ==
  IF call = "build" THEN BuildPC
  ELSE IF call = "wait" THEN {"idle", "exec", "getFence", "poll", "copyOut"}
  ELSE {"exec"} \cup BuildPC \cup RunPC
         \cup (IF call = "run" THEN {"ioctl", "copyOut"} ELSE {})

CallsInPlace == \A t \in Threads : thr[t].pc \in Places(thr[t].call)

\* Whoever executes holds mExecMtx; build() and runFence() are called alone.
OneAtATime ==
  \A t \in Threads :
    /\ Inside(t) /\ thr[t].call # "build" => execMtx = t
    /\ thr[t].call \in {"build", "runFence"} =>
         \A u \in Threads : u # t => thr[u].pc = "idle"

\* A fence in a header, and the job of a call, were handed out by the driver.
JobsExist ==
  /\ \A o \in 1 .. Len(objs) : objs[o].fence <= Len(jobs)
  /\ \A t \in Threads : thr[t].job <= Len(jobs)
  /\ \A t \in Threads :
       /\ thr[t].pc \in {"ioctl", "poll"} => thr[t].job # 0
       /\ thr[t].pc \notin {"ioctl", "poll", "copyOut"} => thr[t].job = 0

TypeInv == TypeOK /\ CallsInPlace /\ OneAtATime /\ JobsExist

-----------------------------------------------------------------------------
\* What the header and the command memory lack is marked in mDirty, and is
\* there when the run gets to its ioctl.  For power save only the mark of a
\* rebuild counts.
DirtyMarks ==
  /\ "LIMITS" \in oldHeader => dirty # {}
  /\ "POWERSAVE" \in oldHeader => "CMDBUF" \in dirty \/ lateSave
  /\ longer => "CMDBUF" \in dirty
  /\ \A t \in Threads :
       /\ thr[t].pc = "reset" => oldHeader = {} /\ ~longer
       /\ thr[t].pc \in {"header", "setFence", "copyIn", "submit"} => "CMDBUF" \notin dirty
       /\ thr[t].pc \in {"setFence", "copyIn", "submit"} => "LIMITS" \notin oldHeader

-----------------------------------------------------------------------------
\* mCmdMem is the command's own memory except between memFree() and the store
\* of nullptr, and mSuBCmdBufPtr points into it except while it is constructed.
CmdMemOwned ==
  /\ cmdMem # NoAddr =>
       /\ (\A t \in Threads : thr[t].pc # "clear") => Own(Lookup(cmdMem))
       /\ (\A t \in Threads : thr[t].pc \notin {"clear", "construct"}) => ptrs = cmdMem
  /\ ptrs # NoAddr => oldPackIds
  /\ \A t \in Threads :
       /\ thr[t].pc = "alloc" => cmdMem = NoAddr
       /\ thr[t].pc \in {"free", "clear", "construct", "reset", "header", "setFence",
                         "copyIn", "submit", "copyOut"} => cmdMem # NoAddr

\* Only the last job can be under way, and a call that builds or prepares a
\* run finds all of them done.
JobsInOrder ==
  /\ \A j \in Job : j # Len(jobs) =>
       jobs[j].state = "done" /\ (jobs[j].call = "runAsync" => j \in closed)
  /\ ~running => \A j \in Job : /\ jobs[j].call # "runFence" => jobs[j].state = "done"
                                /\ jobs[j].call = "runAsync" => j \in closed
  /\ \A t \in Threads :
       /\ thr[t].pc \in BuildPC \cup RunPC =>
            ~running /\ \A j \in Job : jobs[j].state = "done"
       /\ thr[t].pc # "idle" =>
            \A j \in Job : jobs[j].call = "runFence" => jobs[j].state = "done"
  /\ \A j \in given : jobs[j].call = "runFence"
  /\ \A j \in Job : jobs[j].call = "runFence" => j \in given \cup closed

\* mIsRunning stands for the last job, which runs in the command memory.
RunningIsLast ==
  running =>
    /\ Len(jobs) # 0
    /\ jobs[Len(jobs)].call \in {"run", "runAsync"}
    /\ "CMDBUF" \notin dirty
    /\ cmdMem # NoAddr
    /\ jobs[Len(jobs)].mem = Lookup(cmdMem)
    /\ jobs[Len(jobs)].state = "done" => objs[Lookup(cmdMem)].out = Len(jobs)
    /\ jobs[Len(jobs)].call = "runAsync" => objs[Lookup(cmdMem)].fence = Len(jobs)
    /\ (\A t \in Threads : thr[t].pc \notin {"ioctl", "copyOut"}) =>
         jobs[Len(jobs)].call = "runAsync" /\ Len(jobs) \notin closed

\* A call that sleeps, or copies the output back, is there for the last job.
CallsHaveLast ==
  \A t \in Threads :
    /\ thr[t].pc \in {"ioctl", "poll"} => running /\ thr[t].job = Len(jobs)
    /\ thr[t].pc = "ioctl" => jobs[Len(jobs)].call = "run"
    /\ thr[t].pc = "poll" => jobs[Len(jobs)].call = "runAsync"
    /\ thr[t].pc = "copyOut" =>
         IF thr[t].job = 0 THEN ~running
         ELSE /\ running /\ thr[t].job = Len(jobs)
              /\ jobs[Len(jobs)].state = "done"
              /\ jobs[Len(jobs)].call = "runAsync" => Len(jobs) \in closed

Sound == CmdMemOwned /\ JobsInOrder /\ RunningIsLast /\ CallsHaveLast

SoundInv == alive /\ ~refused => Sound

-----------------------------------------------------------------------------
Positions == {"idle", "exec", "getFence", "poll", "copyOut", "ioctl"} \cup BuildPC \cup RunPC

\* What becomes of the threads when one of them goes on.
LEMMA GoToFacts ==
  ASSUME TypeOK, NEW t \in Threads, NEW pc \in Positions, GoTo(t, pc)
  PROVE  /\ thr' \in [Threads -> ThreadRecord]
         /\ \A u \in Threads \ {t} : thr'[u] = thr[u]
         /\ thr'[t].pc = pc /\ thr'[t].call = thr[t].call /\ thr'[t].job = thr[t].job
<1>1. thr \in [Threads -> ThreadRecord]
  BY DEF TypeOK
<1>2. [thr[t] EXCEPT !.pc = pc] \in ThreadRecord
  BY <1>1 DEF ThreadRecord, Positions, BuildPC, RunPC
<1>3. thr' = [thr EXCEPT ![t] = [thr[t] EXCEPT !.pc = pc]]
  BY DEF GoTo
<1> QED
  BY <1>1, <1>2, <1>3 DEF ThreadRecord

\* The same when its call returns.
LEMMA IdleFacts ==
  ASSUME ConstantsAssumption, TypeOK, NEW t \in Threads, thr' = [thr EXCEPT ![t] = Idle]
  PROVE  /\ thr' \in [Threads -> ThreadRecord]
         /\ \A u \in Threads \ {t} : thr'[u] = thr[u]
         /\ thr'[t].pc = "idle" /\ thr'[t].call = "wait" /\ thr'[t].job = 0
<1>1. Idle \in ThreadRecord /\ Idle.pc = "idle" /\ Idle.call = "wait" /\ Idle.job = 0
  BY DEF Idle, ThreadRecord, Calls, ConstantsAssumption
<1> QED
  BY <1>1 DEF TypeOK

\* The end of build(), for the user and for a run.
LEMMA AfterBuildFacts ==
  ASSUME ConstantsAssumption, TypeInv, NEW t \in Threads, thr[t].pc \in BuildPC,
         NEW result, AfterBuild(t, result)
  PROVE  /\ thr' \in [Threads -> ThreadRecord]
         /\ \A u \in Threads \ {t} : thr'[u] = thr[u]
         /\ mtx' = NoThread
         /\ refused' = (refused \/ result = "refused")
         /\ \/ /\ thr'[t].pc = "idle" /\ thr'[t].call = "wait" /\ thr'[t].job = 0
               /\ execMtx' = IF thr[t].call = "build" THEN execMtx ELSE NoThread
            \/ /\ result = "ok" /\ thr'[t].pc = "header" /\ thr'[t].call = thr[t].call
               /\ thr'[t].job = thr[t].job /\ thr[t].call \in Runs /\ execMtx' = execMtx
<1>1. CASE thr[t].call = "build" \/ result # "ok"
  <2>1. /\ thr' = [thr EXCEPT ![t] = Idle]
        /\ execMtx' = IF thr[t].call = "build" THEN execMtx ELSE NoThread
    BY <1>1 DEF AfterBuild, Leave
  <2> QED
    BY <2>1, IdleFacts DEF AfterBuild, TypeInv
<1>2. CASE thr[t].call # "build" /\ result = "ok"
  <2>1. GoTo(t, "header") /\ execMtx' = execMtx
    BY <1>2 DEF AfterBuild
  <2>2. thr[t].call \in Runs
    BY <1>2 DEF TypeInv, CallsInPlace, Places, TypeOK, ThreadRecord, Calls, Runs, BuildPC
  <2> QED
    BY <1>2, <2>1, <2>2, GoToFacts DEF AfterBuild, TypeInv, Positions, RunPC
<1> QED
  BY <1>1, <1>2

\* No two calls are past mExecMtx or build().
LEMMA OneInside ==
  ASSUME TypeInv, NEW t \in Threads, Inside(t)
  PROVE  \A u \in Threads : u # t => thr[u].pc \in {"idle", "exec"}
  BY DEF TypeInv, OneAtATime, Inside

\* A thread goes on, or its call returns.
LEMMA ThreadStep ==
  ASSUME ConstantsAssumption, TypeInv, NEW t \in Threads,
         thr' \in [Threads -> ThreadRecord],
         \A u \in Threads \ {t} : thr'[u] = thr[u],
         thr[t].pc # "idle",
         thr'[t].pc \in Places(thr'[t].call),
         \/ /\ thr'[t].pc = "idle" /\ thr'[t].call = "wait"
            /\ \/ execMtx' = execMtx
               \/ Inside(t) /\ thr[t].call # "build" /\ execMtx' = NoThread
         \/ thr'[t].call = thr[t].call /\ Inside(t) /\ execMtx' = execMtx
         \/ thr'[t].call = thr[t].call /\ execMtx = NoThread /\ execMtx' = t,
         thr'[t].job <= Len(jobs'), Len(jobs) <= Len(jobs'),
         jobs \in Seq(JobRecord), jobs' \in Seq(JobRecord),
         thr'[t].pc \in {"ioctl", "poll"} => thr'[t].job # 0,
         thr'[t].pc \notin {"ioctl", "poll", "copyOut"} => thr'[t].job = 0,
         \A o \in 1 .. Len(objs') : objs'[o].fence <= Len(jobs')
  PROVE  CallsInPlace' /\ OneAtATime' /\ JobsExist'
<1>1. CallsInPlace'
  BY DEF TypeInv, CallsInPlace
<1>2. OneAtATime'
  <2>1. \A u \in Threads : u # t /\ Inside(u)' /\ thr'[u].call # "build" => execMtx' = u
    BY DEF TypeInv, OneAtATime, Inside, ConstantsAssumption
  <2>2. Inside(t)' /\ thr'[t].call # "build" => execMtx' = t
    BY DEF TypeInv, OneAtATime, Inside
  <2>3. \A u, v \in Threads : thr'[u].call \in {"build", "runFence"} /\ v # u => thr'[v].pc = "idle"
    BY DEF TypeInv, OneAtATime
  <2> QED
    BY <2>1, <2>2, <2>3 DEF OneAtATime
<1>3. JobsExist'
  <2>1. Len(jobs) \in Nat /\ Len(jobs') \in Nat
    BY LenProperties
  <2>2. \A u \in Threads : thr[u].job \in Nat /\ thr'[u].job \in Nat
    BY DEF TypeInv, TypeOK, ThreadRecord, ConstantsAssumption
  <2>3. \A u \in Threads : thr'[u].job <= Len(jobs')
    BY <2>1, <2>2 DEF TypeInv, JobsExist
  <2> QED
    BY <2>3 DEF TypeInv, JobsExist
<1> QED
  BY <1>1, <1>2, <1>3

-----------------------------------------------------------------------------
\* The objects after a field of one of them was written.
LEMMA FenceWritten ==
  ASSUME ConstantsAssumption, objs \in Seq(ObjRecord), NEW o \in 1 .. Len(objs),
         NEW f \in 0 .. MaxJobs, objs' = [objs EXCEPT ![o].fence = f]
  PROVE  /\ objs' \in Seq(ObjRecord) /\ Len(objs') = Len(objs)
         /\ \A k \in 1 .. Len(objs) :
              /\ objs'[k].owner = objs[k].owner /\ objs'[k].out = objs[k].out
              /\ objs'[k].fence = IF k = o THEN f ELSE objs[k].fence
<1>1. \A k \in 1 .. Len(objs) : objs[k] \in ObjRecord
  BY ElementOfSeq
<1>2. [objs[o] EXCEPT !.fence = f] \in ObjRecord
  BY <1>1 DEF ObjRecord
<1>3. objs' = [objs EXCEPT ![o] = [objs[o] EXCEPT !.fence = f]]
  OBVIOUS
<1>4. objs' \in Seq(ObjRecord) /\ Len(objs') = Len(objs)
  BY <1>2, <1>3, ExceptSeq
<1> QED
  BY <1>1, <1>3, <1>4, LenProperties DEF ObjRecord

LEMMA OutputWritten ==
  ASSUME ConstantsAssumption, objs \in Seq(ObjRecord), NEW o \in 1 .. Len(objs),
         NEW x \in 0 .. MaxJobs, objs' = [objs EXCEPT ![o].out = x]
  PROVE  /\ objs' \in Seq(ObjRecord) /\ Len(objs') = Len(objs)
         /\ \A k \in 1 .. Len(objs) :
              /\ objs'[k].owner = objs[k].owner /\ objs'[k].fence = objs[k].fence
              /\ objs'[k].out = IF k = o THEN x ELSE objs[k].out
<1>1. \A k \in 1 .. Len(objs) : objs[k] \in ObjRecord
  BY ElementOfSeq
<1>2. [objs[o] EXCEPT !.out = x] \in ObjRecord
  BY <1>1 DEF ObjRecord
<1>3. objs' = [objs EXCEPT ![o] = [objs[o] EXCEPT !.out = x]]
  OBVIOUS
<1>4. objs' \in Seq(ObjRecord) /\ Len(objs') = Len(objs)
  BY <1>2, <1>3, ExceptSeq
<1> QED
  BY <1>1, <1>3, <1>4, LenProperties DEF ObjRecord

\* What the session's table finds is an object.
LEMMA LookupTyped ==
  ASSUME ConstantsAssumption, TypeOK, NEW a \in Addr \cup {NoAddr}
  PROVE  /\ Lookup(a) \in 0 .. Len(objs) /\ Len(objs) \in Nat
         /\ Lookup(a) # 0 => a \in Addr /\ Lookup(a) \in 1 .. Len(objs)
  BY LenProperties DEF Lookup, TypeOK, ConstantsAssumption

\* The objects and the table after an allocation.
LEMMA NewObjectFacts ==
  ASSUME ConstantsAssumption, TypeInv, NEW owner \in {"command", "other"}, NEW a \in Addr,
         NewObject(owner, a)
  PROVE  /\ objs' \in Seq(ObjRecord) /\ Len(objs') = Len(objs) + 1 /\ Len(objs') <= MaxObj
         /\ Len(objs) \in Nat
         /\ \A o \in 1 .. Len(objs) : objs'[o] = objs[o]
         /\ objs'[Len(objs) + 1].owner = owner
         /\ \A o \in 1 .. Len(objs') : objs'[o].fence <= Len(jobs)
         /\ space' \in [Addr -> 0 .. Len(objs')]
         /\ space[a] = 0 /\ space'[a] = Len(objs) + 1
         /\ \A b \in Addr \ {a} : space'[b] = space[b]
<1> DEFINE new == [owner |-> owner, fence |-> 0, out |-> 0]
<1>1. objs \in Seq(ObjRecord) /\ new \in ObjRecord /\ Len(objs) \in Nat /\ Len(jobs) \in Nat
  BY LenProperties DEF TypeInv, TypeOK, ObjRecord, ConstantsAssumption
<1>2. /\ objs' \in Seq(ObjRecord) /\ Len(objs') = Len(objs) + 1
      /\ \A o \in 1 .. Len(objs) : objs'[o] = objs[o]
      /\ objs'[Len(objs) + 1] = new
  BY <1>1, AppendProperties DEF NewObject
<1>3. Len(objs') <= MaxObj
  BY <1>1, <1>2 DEF NewObject, ConstantsAssumption
<1>4. \A o \in 1 .. Len(objs') : objs'[o].fence <= Len(jobs)
  BY <1>1, <1>2 DEF TypeInv, JobsExist
<1>5. /\ space' \in [Addr -> 0 .. Len(objs')]
      /\ space[a] = 0 /\ space'[a] = Len(objs) + 1
      /\ \A b \in Addr \ {a} : space'[b] = space[b]
  BY <1>1, <1>2 DEF NewObject, TypeInv, TypeOK
<1> QED
  BY <1>1, <1>2, <1>3, <1>4, <1>5

-----------------------------------------------------------------------------
\* The steps that keep the objects and the jobs: what is left to show is where
\* the thread goes and that the rest keeps its types.
LEMMA QuietKeepsTypes ==
  ASSUME ConstantsAssumption, TypeInv, NEW t \in Threads,
         UNCHANGED <<objs, jobs, given>>, closed' \subseteq Job,
         thr' \in [Threads -> ThreadRecord],
         \A u \in Threads \ {t} : thr'[u] = thr[u],
         thr[t].pc # "idle",
         thr'[t].pc \in Places(thr'[t].call),
         \/ /\ thr'[t].pc = "idle" /\ thr'[t].call = "wait"
            /\ \/ execMtx' = execMtx
               \/ Inside(t) /\ thr[t].call # "build" /\ execMtx' = NoThread
         \/ thr'[t].call = thr[t].call /\ Inside(t) /\ execMtx' = execMtx
         \/ thr'[t].call = thr[t].call /\ execMtx = NoThread /\ execMtx' = t,
         thr'[t].job <= Len(jobs),
         thr'[t].pc \in {"ioctl", "poll"} => thr'[t].job # 0,
         thr'[t].pc \notin {"ioctl", "poll", "copyOut"} => thr'[t].job = 0,
         mtx' \in Threads \cup {NoThread},
         running' \in BOOLEAN, alive' \in BOOLEAN,
         dirty' \subseteq {"CMDBUF", "PARAMETER"},
         cmdMem' \in Addr \cup {NoAddr}, ptrs' \in Addr \cup {NoAddr},
         longer' \in BOOLEAN, oldPackIds' \in BOOLEAN,
         oldHeader' \subseteq Params, lateSave' \in BOOLEAN,
         space' \in [Addr -> 0 .. Len(objs)],
         refused' \in BOOLEAN,
         harm' \subseteq {"fault", "foreign"}
  PROVE  TypeInv'
<1>1. /\ objs' = objs /\ jobs' = jobs /\ given' = given /\ Job' = Job
      /\ jobs \in Seq(JobRecord) /\ Len(jobs) \in Nat
  BY LenProperties DEF TypeInv, TypeOK, Job
<1>2. execMtx' \in Threads \cup {NoThread}
  BY DEF TypeInv, TypeOK
<1>3. TypeOK'
  BY <1>1, <1>2 DEF TypeInv, TypeOK
<1>4. \A o \in 1 .. Len(objs') : objs'[o].fence <= Len(jobs')
  BY <1>1 DEF TypeInv, JobsExist
<1>5. CallsInPlace' /\ OneAtATime' /\ JobsExist'
  BY <1>1, <1>4, ThreadStep
<1> QED
  BY <1>3, <1>5 DEF TypeInv

\* Calls take mExecMtx, or find the command running.
LEMMA EnterTypes ==
  ASSUME ConstantsAssumption, TypeInv, NEW t \in Threads, LockExec(t) \/ Refuse(t) \/ preExec(t)
  PROVE  TypeInv'
<1>1. thr[t].call \in Calls /\ thr[t].pc \in Places(thr[t].call) /\ thr[t].job <= Len(jobs)
  BY DEF TypeInv, TypeOK, ThreadRecord, CallsInPlace, JobsExist
<1>2. /\ mtx' \in Threads \cup {NoThread} /\ running' \in BOOLEAN /\ alive' \in BOOLEAN
      /\ dirty' \subseteq {"CMDBUF", "PARAMETER"}
      /\ cmdMem' \in Addr \cup {NoAddr} /\ ptrs' \in Addr \cup {NoAddr}
      /\ longer' \in BOOLEAN /\ oldPackIds' \in BOOLEAN /\ oldHeader' \subseteq Params
      /\ lateSave' \in BOOLEAN
      /\ space' \in [Addr -> 0 .. Len(objs)] /\ refused' \in BOOLEAN
      /\ harm' \subseteq {"fault", "foreign"}
      /\ UNCHANGED <<objs, jobs, given>> /\ closed' \subseteq Job
  BY DEF LockExec, Refuse, preExec, locks, command, fences, TypeInv, TypeOK
<1>3. CASE LockExec(t)
  <2>1. PICK pc \in {"getFence", "preExec"} :
          GoTo(t, pc) /\ (pc = "getFence" <=> thr[t].call = "wait")
    BY <1>3 DEF LockExec
  <2>2. thr[t].pc = "exec" /\ execMtx = NoThread /\ execMtx' = t /\ thr[t].job = 0
    BY <1>3 DEF LockExec, At, TypeInv, JobsExist
  <2>3. /\ thr' \in [Threads -> ThreadRecord]
        /\ \A u \in Threads \ {t} : thr'[u] = thr[u]
        /\ thr'[t].pc = pc /\ thr'[t].call = thr[t].call /\ thr'[t].job = thr[t].job
    BY <2>1, GoToFacts DEF TypeInv, Positions, RunPC
  <2>4. thr'[t].pc \in Places(thr'[t].call)
    BY <1>1, <2>1, <2>2, <2>3 DEF Places, BuildPC, RunPC, Calls
  <2> QED
    BY <1>1, <1>2, <2>1, <2>2, <2>3, <2>4, QuietKeepsTypes
<1>4. CASE Refuse(t)
  <2>1. /\ thr' \in [Threads -> ThreadRecord]
        /\ \A u \in Threads \ {t} : thr'[u] = thr[u]
        /\ thr'[t].pc = "idle" /\ thr'[t].call = "wait" /\ thr'[t].job = 0
    BY <1>4, IdleFacts DEF Refuse, TypeInv
  <2>2. thr[t].pc = "exec" /\ execMtx' = execMtx /\ 0 <= Len(jobs)
    BY <1>4, LenProperties DEF Refuse, At, locks, TypeInv, TypeOK
  <2> QED
    BY <1>2, <2>1, <2>2, QuietKeepsTypes DEF Places
<1>5. CASE preExec(t)
  <2>1. PICK pc \in {"mtx", "header"} : GoTo(t, pc)
    BY <1>5 DEF preExec
  <2>2. /\ thr[t].pc = "preExec" /\ Inside(t) /\ execMtx' = execMtx /\ thr[t].job = 0
        /\ thr[t].call \in Runs
    BY <1>1, <1>5 DEF preExec, At, locks, Inside, TypeInv, JobsExist, Places, Calls, Runs, BuildPC
  <2>3. /\ thr' \in [Threads -> ThreadRecord]
        /\ \A u \in Threads \ {t} : thr'[u] = thr[u]
        /\ thr'[t].pc = pc /\ thr'[t].call = thr[t].call /\ thr'[t].job = thr[t].job
    BY <2>1, GoToFacts DEF TypeInv, Positions, RunPC, BuildPC
  <2>4. thr'[t].pc \in Places(thr'[t].call)
    BY <2>1, <2>2, <2>3 DEF Places, BuildPC, RunPC, Runs
  <2> QED
    BY <1>1, <1>2, <2>1, <2>2, <2>3, <2>4, QuietKeepsTypes
<1> QED
  BY <1>3, <1>4, <1>5

\* The steps of build() that go on with the construction.
LEMMA BuildTypes ==
  ASSUME ConstantsAssumption, TypeInv, NEW t \in Threads,
         LockMtx(t) \/ FreeOld(t) \/ ClearOld(t) \/ Construct(t)
  PROVE  TypeInv'
<1>1. /\ thr[t].pc \in {"mtx", "free", "clear", "construct"} /\ thr[t].job = 0
      /\ Inside(t) /\ execMtx' = execMtx /\ UNCHANGED <<objs, jobs, given, closed>>
  BY DEF LockMtx, FreeOld, ClearOld, Construct, At, locks, fences, command, Inside, TypeInv,
         JobsExist
<1>2. PICK pc \in BuildPC \ {"mtx"} : GoTo(t, pc)
  BY DEF LockMtx, FreeOld, ClearOld, Construct, BuildPC
<1>3. /\ thr' \in [Threads -> ThreadRecord]
      /\ \A u \in Threads \ {t} : thr'[u] = thr[u]
      /\ thr'[t].pc = pc /\ thr'[t].call = thr[t].call /\ thr'[t].job = thr[t].job
  BY <1>2, GoToFacts DEF TypeInv, Positions
<1>4. thr'[t].pc \in Places(thr'[t].call)
  BY <1>1, <1>2, <1>3 DEF TypeInv, CallsInPlace, Places, BuildPC
<1>5. /\ mtx' \in Threads \cup {NoThread} /\ running' \in BOOLEAN /\ alive' \in BOOLEAN
      /\ dirty' \subseteq {"CMDBUF", "PARAMETER"}
      /\ cmdMem' \in Addr \cup {NoAddr} /\ ptrs' \in Addr \cup {NoAddr}
      /\ longer' \in BOOLEAN /\ oldPackIds' \in BOOLEAN /\ oldHeader' \subseteq Params
      /\ lateSave' \in BOOLEAN /\ refused' \in BOOLEAN
      /\ harm' \subseteq {"fault", "foreign"}
      /\ closed' \subseteq Job
  BY DEF LockMtx, FreeOld, ClearOld, Construct, locks, command, fences, TypeInv, TypeOK
<1>6. space' \in [Addr -> 0 .. Len(objs)]
  <2>1. Len(objs) \in Nat /\ space \in [Addr -> 0 .. Len(objs)]
    BY LenProperties DEF TypeInv, TypeOK
  <2> QED
    BY <2>1 DEF LockMtx, FreeOld, ClearOld, Construct, command
<1>7. thr'[t].job <= Len(jobs)
  BY <1>1, <1>3, LenProperties DEF TypeInv, TypeOK
<1> QED
  BY <1>1, <1>2, <1>3, <1>4, <1>5, <1>6, <1>7, QuietKeepsTypes DEF BuildPC

\* The ends of build().
LEMMA BuildEndsTypes ==
  ASSUME ConstantsAssumption, TypeInv, NEW t \in Threads,
         FreeUnknown(t) \/ AllocFail(t) \/ ConstructRefuses(t) \/ ResetDirty(t)
  PROVE  TypeInv'
<1>1. /\ thr[t].pc \in BuildPC /\ thr[t].job = 0 /\ Inside(t)
      /\ UNCHANGED <<objs, jobs, given, closed>>
  BY DEF FreeUnknown, AllocFail, ConstructRefuses, ResetDirty, At, fences, Inside, TypeInv,
         JobsExist, BuildPC
<1>2. PICK result \in {"refused", "nomem", "ok"} : AfterBuild(t, result)
  BY DEF FreeUnknown, AllocFail, ConstructRefuses, ResetDirty
<1>3. /\ thr' \in [Threads -> ThreadRecord]
      /\ \A u \in Threads \ {t} : thr'[u] = thr[u]
      /\ mtx' = NoThread
      /\ refused' = (refused \/ result = "refused")
      /\ \/ /\ thr'[t].pc = "idle" /\ thr'[t].call = "wait" /\ thr'[t].job = 0
            /\ execMtx' = IF thr[t].call = "build" THEN execMtx ELSE NoThread
         \/ /\ result = "ok" /\ thr'[t].pc = "header" /\ thr'[t].call = thr[t].call
            /\ thr'[t].job = thr[t].job /\ thr[t].call \in Runs /\ execMtx' = execMtx
  BY <1>1, <1>2, AfterBuildFacts
<1>4. /\ thr'[t].pc \in {"idle", "header"} /\ thr'[t].pc \in Places(thr'[t].call)
      /\ thr'[t].job = 0
      /\ \/ /\ thr'[t].pc = "idle" /\ thr'[t].call = "wait"
            /\ \/ execMtx' = execMtx
               \/ Inside(t) /\ thr[t].call # "build" /\ execMtx' = NoThread
         \/ thr'[t].call = thr[t].call /\ Inside(t) /\ execMtx' = execMtx
  BY <1>1, <1>3 DEF Places, Runs, RunPC
<1>5. /\ running' \in BOOLEAN /\ alive' \in BOOLEAN
      /\ dirty' \subseteq {"CMDBUF", "PARAMETER"}
      /\ cmdMem' \in Addr \cup {NoAddr} /\ ptrs' \in Addr \cup {NoAddr}
      /\ longer' \in BOOLEAN /\ oldPackIds' \in BOOLEAN /\ oldHeader' \subseteq Params
      /\ lateSave' \in BOOLEAN
      /\ harm' \subseteq {"fault", "foreign"} /\ closed' \subseteq Job
  BY <1>1 DEF FreeUnknown, AllocFail, ConstructRefuses, ResetDirty, TypeInv, TypeOK
<1>6. refused' \in BOOLEAN
  BY <1>3 DEF TypeInv, TypeOK
<1>7. space' \in [Addr -> 0 .. Len(objs)] /\ 0 <= Len(jobs)
  <2>1. Len(objs) \in Nat /\ space \in [Addr -> 0 .. Len(objs)] /\ Len(jobs) \in Nat
    BY LenProperties DEF TypeInv, TypeOK
  <2> QED
    BY <2>1 DEF FreeUnknown, AllocFail, ConstructRefuses, ResetDirty
<1>8. /\ mtx' \in Threads \cup {NoThread} /\ thr[t].pc # "idle"
      /\ thr'[t].job <= Len(jobs)
      /\ thr'[t].pc \notin {"ioctl", "poll", "copyOut"}
  BY <1>1, <1>3, <1>4, <1>7 DEF Inside
<1> QED
  BY <1>1, <1>3, <1>4, <1>5, <1>6, <1>7, <1>8, QuietKeepsTypes

\* build() gets its memory.
LEMMA AllocTypes ==
  ASSUME ConstantsAssumption, TypeInv, NEW t \in Threads, NEW a \in Addr, Alloc(t, a)
  PROVE  TypeInv'
<1>1. /\ thr[t].pc = "alloc" /\ thr[t].job = 0 /\ Inside(t) /\ execMtx' = execMtx
      /\ UNCHANGED <<mtx, running, dirty, ptrs, longer, oldPackIds, oldHeader, lateSave, refused,
                     jobs, given, closed, harm, alive>>
      /\ cmdMem' = a
  BY DEF Alloc, At, locks, fences, Inside, TypeInv, JobsExist
<1>2. /\ objs' \in Seq(ObjRecord) /\ Len(objs') <= MaxObj
      /\ space' \in [Addr -> 0 .. Len(objs')]
      /\ \A o \in 1 .. Len(objs') : objs'[o].fence <= Len(jobs)
  BY NewObjectFacts DEF Alloc
<1>3. /\ thr' \in [Threads -> ThreadRecord]
      /\ \A u \in Threads \ {t} : thr'[u] = thr[u]
      /\ thr'[t].pc = "construct" /\ thr'[t].call = thr[t].call /\ thr'[t].job = thr[t].job
  BY GoToFacts DEF Alloc, TypeInv, Positions, BuildPC
<1>4. TypeOK'
  BY <1>1, <1>2, <1>3 DEF TypeInv, TypeOK, Job
<1>5. thr'[t].pc \in Places(thr'[t].call)
  BY <1>1, <1>3 DEF TypeInv, CallsInPlace, Places, BuildPC
<1>6. jobs' = jobs /\ jobs \in Seq(JobRecord) /\ Len(jobs) \in Nat /\ Len(jobs) <= Len(jobs')
  BY <1>1, LenProperties DEF TypeInv, TypeOK
<1>7. /\ thr[t].pc # "idle"
      /\ thr'[t].call = thr[t].call /\ Inside(t) /\ execMtx' = execMtx
      /\ thr'[t].job <= Len(jobs')
      /\ thr'[t].pc \notin {"ioctl", "poll", "copyOut"} /\ thr'[t].job = 0
      /\ \A o \in 1 .. Len(objs') : objs'[o].fence <= Len(jobs')
  BY <1>1, <1>2, <1>3, <1>6
<1>8. CallsInPlace' /\ OneAtATime' /\ JobsExist'
  BY <1>3, <1>5, <1>6, <1>7, ThreadStep
<1> QED
  BY <1>4, <1>8 DEF TypeInv

\* An access through the command's pointers.
LEMMA AccessTyped ==
  ASSUME TypeOK, NEW A, Access(A) \/ NoAccess
  PROVE  harm' \subseteq {"fault", "foreign"} /\ alive' \in BOOLEAN
<1>1. CASE NoAccess
  BY <1>1 DEF NoAccess, TypeOK
<1>2. CASE Access(A)
  <2>1. alive' \in BOOLEAN
    BY <1>2 DEF Access
  <2>2. harm' \subseteq {"fault", "foreign"}
    BY <1>2 DEF Access, TypeOK
  <2> QED
    BY <2>1, <2>2
<1> QED
  BY <1>1, <1>2

\* The header, its fence and the callers' buffers.
LEMMA HeaderTypes ==
  ASSUME ConstantsAssumption, TypeInv, NEW t \in Threads, updateHeader(t)
  PROVE  TypeInv'
<1>1. /\ thr[t].pc = "header" /\ thr[t].job = 0 /\ Inside(t) /\ thr[t].call \in Runs
      /\ UNCHANGED <<mtx, running, cmdMem, ptrs, longer, oldPackIds, refused, objs, space,
                     jobs, given, closed>>
  BY DEF updateHeader, At, fences, Inside, TypeInv, JobsExist, CallsInPlace, Places, TypeOK,
         ThreadRecord, Calls, Runs, BuildPC
<1>2. /\ dirty' \subseteq {"CMDBUF", "PARAMETER"} /\ oldHeader' \subseteq Params
      /\ lateSave' \in BOOLEAN
      /\ harm' \subseteq {"fault", "foreign"} /\ alive' \in BOOLEAN
  <2>1. dirty' \subseteq {"CMDBUF", "PARAMETER"} /\ oldHeader' \subseteq Params
                                                 /\ lateSave' \in BOOLEAN
    BY DEF updateHeader, TypeInv, TypeOK
  <2>2. NoAccess \/ Access({cmdMem, ptrs})
    BY DEF updateHeader
  <2> QED
    BY <2>1, <2>2, AccessTyped DEF TypeInv
<1>3. \/ GoTo(t, "setFence") /\ execMtx' = execMtx
      \/ Leave(t)
  BY DEF updateHeader
<1>4. /\ thr' \in [Threads -> ThreadRecord]
      /\ \A u \in Threads \ {t} : thr'[u] = thr[u]
      /\ thr'[t].job = 0 /\ thr'[t].pc \notin {"ioctl", "poll", "copyOut"}
      /\ thr'[t].pc \in Places(thr'[t].call)
      /\ \/ thr'[t].pc = "idle" /\ thr'[t].call = "wait" /\ execMtx' = NoThread
         \/ thr'[t].call = thr[t].call /\ execMtx' = execMtx
  <2>1. CASE Leave(t)
    BY <2>1, IdleFacts DEF Leave, TypeInv, Places
  <2>2. CASE GoTo(t, "setFence") /\ execMtx' = execMtx
    BY <1>1, <2>2, GoToFacts DEF TypeInv, Positions, RunPC, Places, Runs
  <2> QED
    BY <1>3, <2>1, <2>2
<1>5. thr[t].call # "build"
  BY <1>1 DEF Runs
<1>6. 0 <= Len(jobs) /\ thr[t].pc # "idle"
  BY <1>1, LenProperties DEF TypeInv, TypeOK
<1>7. /\ UNCHANGED <<objs, jobs, given>> /\ closed' \subseteq Job
      /\ mtx' \in Threads \cup {NoThread} /\ running' \in BOOLEAN
      /\ cmdMem' \in Addr \cup {NoAddr} /\ ptrs' \in Addr \cup {NoAddr}
      /\ longer' \in BOOLEAN /\ oldPackIds' \in BOOLEAN /\ refused' \in BOOLEAN
      /\ space' \in [Addr -> 0 .. Len(objs)]
  BY <1>1 DEF TypeInv, TypeOK
<1> QED
  BY <1>1, <1>2, <1>4, <1>5, <1>6, <1>7, QuietKeepsTypes

LEMMA FenceAndInputTypes ==
  ASSUME ConstantsAssumption, TypeInv, NEW t \in Threads, setFence(t) \/ copyIn(t)
  PROVE  TypeInv'
<1>1. /\ thr[t].pc \in {"setFence", "copyIn"} /\ thr[t].job = 0 /\ Inside(t)
      /\ thr[t].call \in Runs
      /\ UNCHANGED <<mtx, running, dirty, cmdMem, ptrs, longer, oldPackIds, oldHeader,
                     lateSave, refused,
                     space, jobs, given, closed>>
  BY DEF setFence, copyIn, At, fences, command, locks, Inside, TypeInv, JobsExist, CallsInPlace,
         Places, TypeOK, ThreadRecord, Calls, Runs, BuildPC
<1>2. harm' \subseteq {"fault", "foreign"} /\ alive' \in BOOLEAN
  <2>1. CASE setFence(t)
    BY <2>1 DEF setFence, TypeInv, TypeOK
  <2>2. CASE copyIn(t)
    <3>1. NoAccess \/ Access({ptrs})
      BY <2>2 DEF copyIn
    <3> QED
      BY <3>1, AccessTyped DEF TypeInv
  <2> QED
    BY <2>1, <2>2
<1>3. /\ thr' \in [Threads -> ThreadRecord]
      /\ \A u \in Threads \ {t} : thr'[u] = thr[u]
      /\ thr'[t].job = 0 /\ thr'[t].pc \notin {"ioctl", "poll", "copyOut"}
      /\ thr'[t].pc \in Places(thr'[t].call)
      /\ \/ thr'[t].pc = "idle" /\ thr'[t].call = "wait" /\ execMtx' = NoThread
         \/ thr'[t].call = thr[t].call /\ execMtx' = execMtx
  <2>1. PICK pc \in {"copyIn", "submit"} : Leave(t) \/ (GoTo(t, pc) /\ execMtx' = execMtx)
    BY DEF setFence, copyIn, locks
  <2>2. CASE Leave(t)
    BY <2>2, IdleFacts DEF Leave, TypeInv, Places
  <2>3. CASE GoTo(t, pc) /\ execMtx' = execMtx
    BY <1>1, <2>1, <2>3, GoToFacts DEF TypeInv, Positions, RunPC, Places, Runs
  <2> QED
    BY <2>1, <2>2, <2>3
<1>4. objs \in Seq(ObjRecord) /\ Len(objs) \in Nat /\ Len(jobs) \in Nat /\ jobs \in Seq(JobRecord)
      /\ \A o \in 1 .. Len(objs) : objs[o].fence <= Len(jobs)
  BY LenProperties DEF TypeInv, TypeOK, JobsExist
<1>5. /\ objs' \in Seq(ObjRecord) /\ Len(objs') = Len(objs)
      /\ \A o \in 1 .. Len(objs') : objs'[o].fence <= Len(jobs)
  <2>1. CASE objs' = objs
    BY <1>4, <2>1
  <2>2. CASE objs' # objs
    <3>1. PICK o \in 1 .. Len(objs) :
            objs' = [objs EXCEPT ![o].fence = 0] \/ objs' = [objs EXCEPT ![o].out = 0]
      <4>1. PICK a \in {cmdMem, ptrs} :
              /\ Lookup(a) # 0
              /\ \/ objs' = [objs EXCEPT ![Lookup(a)].fence = 0]
                 \/ objs' = [objs EXCEPT ![Lookup(a)].out = 0]
        BY <2>2 DEF setFence, copyIn
      <4>2. a \in Addr \cup {NoAddr}
        BY DEF TypeInv, TypeOK
      <4>3. Lookup(a) \in 1 .. Len(objs)
        BY <4>1, <4>2, LookupTyped DEF TypeInv
      <4> QED
        BY <4>1, <4>3
    <3>2. 0 \in 0 .. MaxJobs
      BY DEF ConstantsAssumption
    <3>3. objs \in Seq(ObjRecord)
      BY <1>4
    <3>4. CASE objs' = [objs EXCEPT ![o].fence = 0]
      <4>1. /\ objs' \in Seq(ObjRecord) /\ Len(objs') = Len(objs)
            /\ \A k \in 1 .. Len(objs) :
                 /\ objs'[k].owner = objs[k].owner /\ objs'[k].out = objs[k].out
                 /\ objs'[k].fence = IF k = o THEN 0 ELSE objs[k].fence
        BY <3>2, <3>3, <3>4, FenceWritten
      <4> QED
        BY <1>4, <4>1
    <3>5. CASE objs' = [objs EXCEPT ![o].out = 0]
      <4>1. /\ objs' \in Seq(ObjRecord) /\ Len(objs') = Len(objs)
            /\ \A k \in 1 .. Len(objs) :
                 /\ objs'[k].owner = objs[k].owner /\ objs'[k].fence = objs[k].fence
                 /\ objs'[k].out = IF k = o THEN 0 ELSE objs[k].out
        BY <3>2, <3>3, <3>5, OutputWritten
      <4> QED
        BY <1>4, <4>1
    <3> QED
      BY <3>1, <3>4, <3>5
  <2> QED
    BY <2>1, <2>2
<1>6. TypeOK'
  BY <1>1, <1>2, <1>3, <1>5 DEF TypeInv, TypeOK, Job
<1>7. CallsInPlace' /\ OneAtATime' /\ JobsExist'
  <2>1. thr[t].pc # "idle" /\ thr[t].call # "build" /\ jobs' = jobs
    BY <1>1 DEF Runs
  <2> QED
    BY <1>1, <1>3, <1>4, <1>5, <2>1, ThreadStep
<1> QED
  BY <1>6, <1>7 DEF TypeInv

\* The driver accepts a run.
LEMMA SubmitFacts ==
  ASSUME ConstantsAssumption, TypeInv, NEW t \in Threads, Submit(t)
  PROVE  /\ Len(jobs) \in Nat /\ Len(jobs') = Len(jobs) + 1 /\ Len(jobs') <= MaxJobs
         /\ jobs' \in Seq(JobRecord)
         /\ Job' = Job \cup {Len(jobs) + 1}
         /\ \A j \in Job : jobs'[j] = jobs[j]
         /\ jobs'[Len(jobs)+ 1] =
              [mem |-> Lookup(cmdMem), call |-> thr[t].call, state |-> "running",
               got |-> 0, told |-> FALSE]
         /\ Lookup(cmdMem) \in 1 .. Len(objs)
         /\ thr[t].pc = "submit" /\ thr[t].call \in Runs
         /\ thr' \in [Threads -> ThreadRecord]
         /\ \A u \in Threads \ {t} : thr'[u] = thr[u]
         /\ \/ /\ thr[t].call = "run" /\ thr'[t].pc = "ioctl" /\ thr'[t].call = "run"
               /\ thr'[t].job = Len(jobs) + 1 /\ execMtx' = execMtx
            \/ /\ thr[t].call # "run" /\ thr'[t].pc = "idle" /\ thr'[t].call = "wait"
               /\ thr'[t].job = 0 /\ execMtx' = NoThread
<1> DEFINE job == [mem |-> Lookup(cmdMem), call |-> thr[t].call, state |-> "running",
                   got |-> 0, told |-> FALSE]
<1>1. /\ jobs \in Seq(JobRecord) /\ Len(jobs) \in Nat /\ Len(jobs) < MaxJobs
      /\ jobs' = Append(jobs, job)
  BY LenProperties DEF Submit, TypeInv, TypeOK
<1>2. Lookup(cmdMem) \in 1 .. Len(objs) /\ Lookup(cmdMem) \in 1 .. MaxObj
  <2>1. cmdMem \in Addr \cup {NoAddr} /\ Len(objs) <= MaxObj /\ Lookup(cmdMem) # 0
    BY DEF Submit, TypeInv, TypeOK
  <2>2. Lookup(cmdMem) \in 1 .. Len(objs) /\ Len(objs) \in Nat
    BY <2>1, LookupTyped DEF TypeInv
  <2> QED
    BY <2>1, <2>2 DEF ConstantsAssumption
<1>3. thr[t].pc = "submit" /\ thr[t].call \in Runs
  BY DEF Submit, At, TypeInv, CallsInPlace, Places, TypeOK, ThreadRecord, Calls, Runs, BuildPC
<1>4. job \in JobRecord
  BY <1>2, <1>3 DEF JobRecord, Runs, TypeInv, TypeOK, ConstantsAssumption
<1>5. /\ jobs' \in Seq(JobRecord) /\ Len(jobs') = Len(jobs) + 1
      /\ \A j \in 1 .. Len(jobs) : jobs'[j] = jobs[j]
      /\ jobs'[Len(jobs) + 1] = job
  BY <1>1, <1>4, AppendProperties
<1>6. Job' = Job \cup {Len(jobs) + 1} /\ Len(jobs') <= MaxJobs
  BY <1>1, <1>5 DEF Job, ConstantsAssumption
<1>7. /\ thr' \in [Threads -> ThreadRecord]
      /\ \A u \in Threads \ {t} : thr'[u] = thr[u]
      /\ \/ /\ thr[t].call = "run" /\ thr'[t].pc = "ioctl" /\ thr'[t].call = "run"
            /\ thr'[t].job = Len(jobs) + 1 /\ execMtx' = execMtx
         \/ /\ thr[t].call # "run" /\ thr'[t].pc = "idle" /\ thr'[t].call = "wait"
            /\ thr'[t].job = 0 /\ execMtx' = NoThread
  <2>1. CASE thr[t].call = "run"
    <3>1. thr' = [thr EXCEPT ![t].pc = "ioctl", ![t].job = Len(jobs) + 1] /\ execMtx' = execMtx
      BY <2>1 DEF Submit
    <3>2. thr \in [Threads -> ThreadRecord] /\ Len(jobs) + 1 \in 0 .. MaxJobs
      BY <1>1 DEF TypeInv, TypeOK, ConstantsAssumption
    <3>3. [thr[t] EXCEPT !.pc = "ioctl", !.job = Len(jobs) + 1] \in ThreadRecord
      BY <3>2 DEF ThreadRecord
    <3>4. thr' = [thr EXCEPT ![t] = [thr[t] EXCEPT !.pc = "ioctl", !.job = Len(jobs) + 1]]
      BY <3>1
    <3> QED
      BY <2>1, <3>1, <3>2, <3>3, <3>4 DEF ThreadRecord
  <2>2. CASE thr[t].call # "run"
    <3>1. Leave(t)
      BY <2>2 DEF Submit
    <3> QED
      BY <2>2, <3>1, IdleFacts DEF Leave, TypeInv
  <2> QED
    BY <2>1, <2>2
<1> QED
  BY <1>1, <1>2, <1>3, <1>5, <1>6, <1>7 DEF Job

LEMMA SubmitTypes ==
  ASSUME ConstantsAssumption, TypeInv, NEW t \in Threads, Submit(t)
  PROVE  TypeInv'
<1> DEFINE j == Len(jobs) + 1
<1>1. /\ Len(jobs) \in Nat /\ Len(jobs') = j /\ Len(jobs') <= MaxJobs
      /\ jobs' \in Seq(JobRecord) /\ jobs \in Seq(JobRecord)
      /\ Job' = Job \cup {j}
      /\ Lookup(cmdMem) \in 1 .. Len(objs)
      /\ thr[t].pc = "submit" /\ thr[t].call \in Runs
      /\ thr' \in [Threads -> ThreadRecord]
      /\ \A u \in Threads \ {t} : thr'[u] = thr[u]
      /\ \/ /\ thr[t].call = "run" /\ thr'[t].pc = "ioctl" /\ thr'[t].call = "run"
            /\ thr'[t].job = j /\ execMtx' = execMtx
         \/ /\ thr[t].call # "run" /\ thr'[t].pc = "idle" /\ thr'[t].call = "wait"
            /\ thr'[t].job = 0 /\ execMtx' = NoThread
  BY SubmitFacts DEF TypeInv, TypeOK
<1>2. /\ objs' = objs \/ objs' = [objs EXCEPT ![Lookup(cmdMem)].fence = j]
      /\ given' \subseteq given \cup {j} /\ running' \in BOOLEAN
      /\ UNCHANGED <<mtx, dirty, cmdMem, ptrs, longer, oldPackIds, oldHeader,
                     lateSave, refused, space,
                     closed, harm, alive>>
  BY DEF Submit, command, TypeInv, TypeOK
<1>3. objs \in Seq(ObjRecord) /\ j \in 0 .. MaxJobs
      /\ (\A o \in 1 .. Len(objs) : objs[o].fence \in Nat /\ objs[o].fence <= Len(jobs))
  <2>1. objs \in Seq(ObjRecord)
    BY DEF TypeInv, TypeOK
  <2>2. \A o \in 1 .. Len(objs) : objs[o] \in ObjRecord
    BY <2>1, ElementOfSeq
  <2> QED
    BY <1>1, <2>1, <2>2 DEF TypeInv, JobsExist, ObjRecord, ConstantsAssumption
<1>4. /\ objs' \in Seq(ObjRecord) /\ Len(objs') = Len(objs)
      /\ \A o \in 1 .. Len(objs') : objs'[o].fence <= Len(jobs')
  <2>1. CASE objs' = objs
    BY <1>1, <1>3, <2>1
  <2>2. CASE objs' = [objs EXCEPT ![Lookup(cmdMem)].fence = j]
    <3>1. /\ objs' \in Seq(ObjRecord) /\ Len(objs') = Len(objs)
          /\ \A k \in 1 .. Len(objs) :
               /\ objs'[k].owner = objs[k].owner /\ objs'[k].out = objs[k].out
               /\ objs'[k].fence = IF k = Lookup(cmdMem) THEN j ELSE objs[k].fence
      <4>1. objs \in Seq(ObjRecord) /\ Lookup(cmdMem) \in 1 .. Len(objs) /\ j \in 0 .. MaxJobs
        BY <1>1, <1>3
      <4> HIDE DEF j
      <4> QED
        BY <4>1, <2>2, FenceWritten
    <3>2. Len(jobs) \in Nat /\ Len(jobs') = j
      BY <1>1
    <3> QED
      BY <1>3, <3>1, <3>2
  <2> QED
    BY <1>2, <2>1, <2>2
<1>5. TypeOK'
  <2>1. given' \subseteq Job' /\ closed' \subseteq Job'
    BY <1>1, <1>2 DEF TypeInv, TypeOK
  <2>2. execMtx' \in Threads \cup {NoThread} /\ mtx' \in Threads \cup {NoThread}
    BY <1>1, <1>2 DEF TypeInv, TypeOK
  <2> QED
    BY <1>1, <1>2, <1>4, <2>1, <2>2 DEF TypeInv, TypeOK
<1>6. Inside(t) /\ thr[t].call # "build" /\ thr[t].pc # "idle"
  BY <1>1 DEF Inside, Runs
<1>7. thr'[t].pc \in Places(thr'[t].call)
  BY <1>1 DEF Places
<1>8. /\ thr'[t].job <= Len(jobs') /\ Len(jobs) <= Len(jobs')
      /\ thr'[t].pc \in {"ioctl", "poll"} => thr'[t].job # 0
      /\ thr'[t].pc \notin {"ioctl", "poll", "copyOut"} => thr'[t].job = 0
      /\ \/ /\ thr'[t].pc = "idle" /\ thr'[t].call = "wait" /\ execMtx' = NoThread
         \/ thr'[t].call = thr[t].call /\ execMtx' = execMtx
  BY <1>1
<1>9. CallsInPlace' /\ OneAtATime' /\ JobsExist'
  BY <1>1, <1>4, <1>6, <1>7, <1>8, ThreadStep
<1> QED
  BY <1>5, <1>9 DEF TypeInv

\* The driver refuses, a job ends, or there is nothing to wait for.
LEMMA EndTypes ==
  ASSUME ConstantsAssumption, TypeInv, NEW t \in Threads,
         SubmitFail(t) \/ SyncDone(t) \/ WaitFails(t)
  PROVE  TypeInv'
<1>1. /\ thr[t].pc \in {"submit", "ioctl", "getFence"} /\ Inside(t)
      /\ thr[t].pc # "ioctl" => thr[t].job = 0
      /\ thr[t].job <= Len(jobs)
      /\ thr[t].call # "build"
      /\ UNCHANGED <<mtx, running, dirty, cmdMem, ptrs, longer, oldPackIds, oldHeader,
                     lateSave, refused,
                     objs, space, jobs, given, closed, harm, alive>>
  <2>1. thr[t].pc \in {"submit", "ioctl", "getFence"}
    BY DEF SubmitFail, SyncDone, WaitFails, At
  <2>2. thr[t].job <= Len(jobs) /\ (thr[t].pc # "ioctl" => thr[t].job = 0)
    BY <2>1 DEF TypeInv, JobsExist
  <2>3. thr[t].call # "build"
    BY <2>1 DEF TypeInv, CallsInPlace, Places, BuildPC
  <2>4. Inside(t)
    BY <2>1 DEF Inside
  <2>5. /\ UNCHANGED <<mtx, running, dirty, cmdMem, ptrs, longer, oldPackIds, oldHeader,
                       lateSave, refused,
                       objs, space, jobs, given, closed, harm, alive>>
    BY DEF SubmitFail, SyncDone, WaitFails, locks, command, fences
  <2> QED
    BY <2>1, <2>2, <2>3, <2>4, <2>5
<1>2. \/ Leave(t)
      \/ GoTo(t, "copyOut") /\ execMtx' = execMtx /\ thr[t].call = "run"
  BY DEF SubmitFail, SyncDone, WaitFails, locks, TypeInv, CallsInPlace, Places, BuildPC, RunPC,
     TypeOK, ThreadRecord, Calls, At
<1>3. /\ thr' \in [Threads -> ThreadRecord]
      /\ \A u \in Threads \ {t} : thr'[u] = thr[u]
      /\ \/ /\ thr'[t].pc = "idle" /\ thr'[t].call = "wait" /\ thr'[t].job = 0
            /\ execMtx' = NoThread
         \/ /\ thr'[t].pc = "copyOut" /\ thr'[t].call = "run" /\ thr[t].call = "run"
            /\ thr'[t].job = thr[t].job /\ execMtx' = execMtx
  <2>1. CASE Leave(t)
    BY <2>1, IdleFacts DEF Leave, TypeInv
  <2>2. CASE GoTo(t, "copyOut") /\ execMtx' = execMtx /\ thr[t].call = "run"
    BY <2>2, GoToFacts DEF TypeInv, Positions
  <2> QED
    BY <1>2, <2>1, <2>2
<1>4. thr'[t].pc \in Places(thr'[t].call)
  BY <1>3 DEF Places
<1>5. thr'[t].job <= Len(jobs)
  BY <1>1, <1>3, LenProperties DEF TypeInv, TypeOK
<1> QED
  BY <1>1, <1>3, <1>4, <1>5, QuietKeepsTypes DEF TypeInv, TypeOK

\* wait() finds the fence of a job that the driver accepted.
LEMMA getFenceFacts ==
  ASSUME ConstantsAssumption, TypeInv, NEW t \in Threads, getFence(t)
  PROVE  /\ HeaderFence \in Job /\ Lookup(cmdMem) \in 1 .. Len(objs)
         /\ HeaderFence = objs[Lookup(cmdMem)].fence
         /\ thr' \in [Threads -> ThreadRecord]
         /\ \A u \in Threads \ {t} : thr'[u] = thr[u]
         /\ thr'[t].pc = "poll" /\ thr'[t].call = "wait" /\ thr[t].call = "wait"
         /\ thr'[t].job = HeaderFence
<1>1. Lookup(cmdMem) \in 1 .. Len(objs) /\ HeaderFence = objs[Lookup(cmdMem)].fence
  <2>1. cmdMem \in Addr \cup {NoAddr} /\ Lookup(cmdMem) # 0
    BY DEF getFence, HeaderFence, TypeInv, TypeOK
  <2> QED
    BY <2>1, LookupTyped DEF HeaderFence, TypeInv
<1>2. HeaderFence \in Job /\ HeaderFence \in 0 .. MaxJobs
  <2>1. objs[Lookup(cmdMem)] \in ObjRecord
    BY <1>1, ElementOfSeq DEF TypeInv, TypeOK
  <2>2. HeaderFence <= Len(jobs) /\ Len(jobs) \in Nat
    BY <1>1, LenProperties DEF TypeInv, JobsExist, TypeOK
  <2> QED
    BY <1>1, <2>1, <2>2 DEF ObjRecord, Job, ConstantsAssumption, getFence
<1>3. thr[t].call = "wait"
  BY DEF getFence, At, TypeInv, CallsInPlace, Places, BuildPC, RunPC
<1>4. thr' = [thr EXCEPT ![t] = [thr[t] EXCEPT !.pc = "poll", !.job = HeaderFence]]
  BY DEF getFence
<1>5. thr \in [Threads -> ThreadRecord]
  BY DEF TypeInv, TypeOK
<1>6. [thr[t] EXCEPT !.pc = "poll", !.job = HeaderFence] \in ThreadRecord
  BY <1>2, <1>5 DEF ThreadRecord
<1> QED
  BY <1>1, <1>2, <1>3, <1>4, <1>5, <1>6 DEF ThreadRecord

LEMMA WaitTypes ==
  ASSUME ConstantsAssumption, TypeInv, NEW t \in Threads, getFence(t) \/ Poll(t)
  PROVE  TypeInv'
<1>1. /\ thr[t].pc \in {"getFence", "poll"} /\ Inside(t) /\ thr[t].call = "wait"
      /\ execMtx' = execMtx
      /\ UNCHANGED <<mtx, running, dirty, cmdMem, ptrs, longer, oldPackIds, oldHeader,
                     lateSave, refused,
                     objs, space, jobs, given, harm, alive>>
  BY DEF getFence, Poll, At, locks, command, fences, Inside, TypeInv, CallsInPlace, Places,
     BuildPC, RunPC
<1>2. Len(jobs) \in Nat /\ thr[t].job \in Nat /\ thr[t].job <= Len(jobs)
      /\ (thr[t].pc = "poll" => thr[t].job \in Job)
  BY LenProperties DEF TypeInv, TypeOK, JobsExist, ThreadRecord, ConstantsAssumption, Job
<1>3. closed' \subseteq Job
  BY <1>2 DEF getFence, Poll, fences, TypeInv, TypeOK, At
<1>4. /\ thr' \in [Threads -> ThreadRecord]
      /\ \A u \in Threads \ {t} : thr'[u] = thr[u]
      /\ thr'[t].pc \in {"poll", "copyOut"} /\ thr'[t].call = thr[t].call
      /\ thr'[t].job \in Job
  <2>1. CASE getFence(t)
    BY <2>1, getFenceFacts
  <2>2. CASE Poll(t)
    BY <1>2, <2>2, GoToFacts DEF Poll, At, TypeInv, Positions
  <2> QED
    BY <2>1, <2>2
<1>5. thr'[t].pc \in Places(thr'[t].call)
  BY <1>1, <1>4 DEF Places
<1>6. thr'[t].job <= Len(jobs) /\ thr'[t].job # 0
  BY <1>2, <1>4 DEF Job
<1> QED
  BY <1>1, <1>3, <1>4, <1>5, <1>6, QuietKeepsTypes DEF TypeInv, TypeOK

\* The record of a job after it ended, or after its call returned.
LEMMA JobWritten ==
  ASSUME ConstantsAssumption, NEW s \in Seq(JobRecord), NEW j \in 1 .. Len(s),
         NEW x \in JobRecord, NEW r, r = [s EXCEPT ![j] = x]
  PROVE  /\ r \in Seq(JobRecord) /\ Len(r) = Len(s) /\ r[j] = x
         /\ \A k \in 1 .. Len(s) : k # j => r[k] = s[k]
<1>1. r \in Seq(JobRecord) /\ Len(r) = Len(s)
  BY ExceptSeq
<1> QED
  BY <1>1, LenProperties

\* The command's output is copied to the callers' buffers.
LEMMA copyOutFacts ==
  ASSUME ConstantsAssumption, TypeInv, NEW t \in Threads, copyOut(t)
  PROVE  /\ thr[t].pc = "copyOut" /\ thr[t].job \in 0 .. Len(jobs)
         /\ jobs' \in Seq(JobRecord) /\ Len(jobs') = Len(jobs) /\ Job' = Job
         /\ \A k \in Job : k # thr[t].job => jobs'[k] = jobs[k]
         /\ \A k \in Job : /\ jobs'[k].mem = jobs[k].mem /\ jobs'[k].call = jobs[k].call
                           /\ jobs'[k].state = jobs[k].state
         /\ thr[t].job # 0 => jobs'[thr[t].job].got =
              IF longer \/ ptrs = NoAddr \/ Lookup(ptrs) = 0 THEN 0 ELSE objs[Lookup(ptrs)].out
         /\ thr' \in [Threads -> ThreadRecord]
         /\ \A u \in Threads \ {t} : thr'[u] = thr[u]
         /\ thr'[t].pc = "idle" /\ thr'[t].call = "wait" /\ thr'[t].job = 0
         /\ execMtx' = NoThread /\ running' = FALSE
<1> DEFINE j   == thr[t].job
           got == IF longer \/ ptrs = NoAddr \/ Lookup(ptrs) = 0 THEN 0
                  ELSE objs[Lookup(ptrs)].out
           new == [jobs[j] EXCEPT !.told = TRUE, !.got = got]
<1>1. jobs \in Seq(JobRecord) /\ Len(jobs) \in Nat /\ Job = 1 .. Len(jobs)
      /\ (\A k \in Job : jobs[k] \in JobRecord)
  BY LenProperties, ElementOfSeq DEF TypeInv, TypeOK, Job
<1>2. thr[t].pc = "copyOut" /\ j \in 0 .. Len(jobs)
  BY <1>1 DEF copyOut, At, TypeInv, TypeOK, ThreadRecord, JobsExist, ConstantsAssumption
<1>3. got \in 0 .. MaxJobs
  <2>1. CASE got = 0
    BY <2>1 DEF ConstantsAssumption
  <2>2. CASE got # 0
    <3>1. ptrs \in Addr \cup {NoAddr} /\ Lookup(ptrs) # 0 /\ got = objs[Lookup(ptrs)].out
      BY <2>2 DEF TypeInv, TypeOK
    <3>2. Lookup(ptrs) \in 1 .. Len(objs)
      BY <3>1, LookupTyped DEF TypeInv
    <3>3. objs[Lookup(ptrs)] \in ObjRecord
      BY <3>2, ElementOfSeq DEF TypeInv, TypeOK
    <3> QED
      BY <3>1, <3>3 DEF ObjRecord
  <2> QED
    BY <2>1, <2>2
<1>4. /\ jobs' \in Seq(JobRecord) /\ Len(jobs') = Len(jobs)
      /\ \A k \in Job : k # j => jobs'[k] = jobs[k]
      /\ \A k \in Job : /\ jobs'[k].mem = jobs[k].mem /\ jobs'[k].call = jobs[k].call
                        /\ jobs'[k].state = jobs[k].state
      /\ j # 0 => jobs'[j].got = got
  <2>1. CASE j = 0
    <3>1. jobs' = jobs
      BY <2>1 DEF copyOut
    <3> QED
      BY <1>1, <2>1, <3>1
  <2>2. CASE j # 0
    <3>1. j \in Job
      BY <1>1, <1>2, <2>2
    <3>2. new \in JobRecord
      <4>1. jobs[j] \in JobRecord
        BY <1>1, <3>1
      <4> HIDE DEF got, j
      <4> QED
        BY <1>3, <4>1 DEF JobRecord
    <3>3. jobs' = [jobs EXCEPT ![j] = new]
      BY <2>2 DEF copyOut
    <3>4. /\ jobs' \in Seq(JobRecord) /\ Len(jobs') = Len(jobs) /\ jobs'[j] = new
          /\ \A k \in 1 .. Len(jobs) : k # j => jobs'[k] = jobs[k]
      <4> HIDE DEF new
      <4> QED
        BY <1>1, <3>1, <3>2, <3>3, JobWritten
    <3>5. /\ new.mem = jobs[j].mem /\ new.call = jobs[j].call /\ new.state = jobs[j].state
          /\ new.got = got
      BY <1>1, <3>1 DEF JobRecord
    <3> QED
      BY <1>1, <3>1, <3>4, <3>5
  <2> QED
    BY <2>1, <2>2
<1>5. /\ thr' \in [Threads -> ThreadRecord]
      /\ \A u \in Threads \ {t} : thr'[u] = thr[u]
      /\ thr'[t].pc = "idle" /\ thr'[t].call = "wait" /\ thr'[t].job = 0
  BY IdleFacts DEF copyOut, Leave, TypeInv
<1>6. execMtx' = NoThread /\ running' = FALSE
  BY DEF copyOut, Leave
<1> QED
  BY <1>1, <1>2, <1>4, <1>5, <1>6 DEF Job

LEMMA copyOutTypes ==
  ASSUME ConstantsAssumption, TypeInv, NEW t \in Threads, copyOut(t)
  PROVE  TypeInv'
<1>1. /\ thr[t].pc = "copyOut"
      /\ jobs' \in Seq(JobRecord) /\ Len(jobs') = Len(jobs) /\ Job' = Job
      /\ thr' \in [Threads -> ThreadRecord]
      /\ \A u \in Threads \ {t} : thr'[u] = thr[u]
      /\ thr'[t].pc = "idle" /\ thr'[t].call = "wait" /\ thr'[t].job = 0
      /\ execMtx' = NoThread /\ running' = FALSE
      /\ jobs \in Seq(JobRecord)
  BY copyOutFacts DEF TypeInv, TypeOK
<1>2. /\ thr[t].pc # "idle" /\ Inside(t) /\ thr[t].call # "build"
      /\ thr'[t].pc \in Places(thr'[t].call)
  BY <1>1 DEF Inside, TypeInv, CallsInPlace, Places, BuildPC
<1>3. /\ UNCHANGED <<mtx, dirty, cmdMem, ptrs, longer, oldPackIds, oldHeader, lateSave, refused,
                     objs, space, given, closed>>
      /\ Access({ptrs}) \/ NoAccess
  BY DEF copyOut, command, fences
<1>4. harm' \subseteq {"fault", "foreign"} /\ alive' \in BOOLEAN
  BY <1>3, AccessTyped DEF TypeInv
<1>5. TypeOK'
  BY <1>1, <1>3, <1>4 DEF TypeInv, TypeOK
<1>6. /\ Len(jobs) \in Nat /\ thr'[t].job <= Len(jobs') /\ Len(jobs) <= Len(jobs')
      /\ \A o \in 1 .. Len(objs') : objs'[o].fence <= Len(jobs')
  BY <1>1, <1>3, LenProperties DEF TypeInv, JobsExist
<1>7. CallsInPlace' /\ OneAtATime' /\ JobsExist'
  BY <1>1, <1>2, <1>6, ThreadStep
<1> QED
  BY <1>5, <1>7 DEF TypeInv

\* A thread calls; the user calls build() and runFence() alone.
LEMMA CallFacts ==
  ASSUME ConstantsAssumption, TypeInv, NEW t \in Threads, NEW c \in Calls, Call(t, c)
  PROVE  /\ thr[t].pc = "idle"
         /\ thr' \in [Threads -> ThreadRecord]
         /\ \A u \in Threads \ {t} : thr'[u] = thr[u]
         /\ thr'[t].pc = IF c = "build" THEN "mtx" ELSE "exec"
         /\ thr'[t].call = c /\ thr'[t].job = 0
<1>1. [pc |-> IF c = "build" THEN "mtx" ELSE "exec", call |-> c, job |-> 0] \in ThreadRecord
  BY DEF ThreadRecord, ConstantsAssumption
<1> QED
  BY <1>1 DEF Call, At, TypeInv, TypeOK

LEMMA CallTypes ==
  ASSUME ConstantsAssumption, TypeInv, NEW t \in Threads, NEW c \in Calls, Call(t, c)
  PROVE  TypeInv'
<1>1. /\ thr[t].pc = "idle"
      /\ thr' \in [Threads -> ThreadRecord]
      /\ \A u \in Threads \ {t} : thr'[u] = thr[u]
      /\ thr'[t].pc = IF c = "build" THEN "mtx" ELSE "exec"
      /\ thr'[t].call = c /\ thr'[t].job = 0
  BY CallFacts
<1>2. UNCHANGED <<execMtx, mtx, running, dirty, cmdMem, ptrs, longer, oldPackIds, oldHeader,
                  lateSave,
                  refused, objs, space, jobs, given, closed, harm, alive>>
  BY DEF Call, locks, command, fences
<1>3. TypeOK'
  BY <1>1, <1>2 DEF TypeInv, TypeOK, Job
<1>4. CallsInPlace'
  BY <1>1 DEF TypeInv, CallsInPlace, Places, BuildPC, Calls
<1>5. OneAtATime'
  <2>1. \A u \in Threads : Inside(u)' /\ thr'[u].call # "build" => execMtx' = u
    BY <1>1, <1>2 DEF TypeInv, OneAtATime, Inside
  <2>2. CASE c \in {"build", "runFence"}
    <3>1. \A u \in Threads : thr[u].pc = "idle"
      BY <2>2 DEF Call, MayCall, Quiet
    <3>2. \A u \in Threads : thr[u].call = "wait"
      BY <3>1 DEF TypeInv, CallsInPlace, Places, BuildPC, RunPC, TypeOK, ThreadRecord, Calls
    <3> QED
      BY <1>1, <2>1, <3>1, <3>2 DEF OneAtATime
  <2>3. CASE c \notin {"build", "runFence"}
    <3>1. \A u \in Threads : thr[u].call \notin {"build", "runFence"}
      BY <2>3 DEF Call, MayCall
    <3> QED
      BY <1>1, <2>1, <2>3, <3>1 DEF OneAtATime
  <2> QED
    BY <2>2, <2>3
<1>6. JobsExist'
  <2>1. Len(jobs) \in Nat
    BY LenProperties DEF TypeInv, TypeOK
  <2>2. \A u \in Threads : thr'[u].job <= Len(jobs)
    BY <1>1, <2>1 DEF TypeInv, JobsExist
  <2> QED
    BY <1>1, <1>2, <2>2 DEF TypeInv, JobsExist
<1> QED
  BY <1>3, <1>4, <1>5, <1>6 DEF TypeInv

-----------------------------------------------------------------------------
\* What happens besides: the driver, the other users of the session, the
\* callers between their calls.
LEMMA CompleteFacts ==
  ASSUME ConstantsAssumption, TypeInv, NEW j \in Job, Complete(j)
  PROVE  /\ jobs' \in Seq(JobRecord) /\ Len(jobs') = Len(jobs) /\ Job' = Job
         /\ \A k \in Job : /\ jobs'[k].mem = jobs[k].mem /\ jobs'[k].call = jobs[k].call
                           /\ jobs'[k].state = IF k = j THEN "done" ELSE jobs[k].state
                           /\ jobs'[k].got = jobs[k].got
                           /\ jobs'[k].told = jobs[k].told
         /\ jobs[j].mem \in Nat \ {0}
         /\ Len(objs') = Len(objs) /\ objs' \in Seq(ObjRecord)
         /\ \A o \in 1 .. Len(objs) :
              /\ objs'[o].owner = objs[o].owner /\ objs'[o].fence = objs[o].fence
              /\ objs'[o].out = IF o = jobs[j].mem THEN j ELSE objs[o].out
<1> DEFINE new == [jobs[j] EXCEPT !.state = "done"]
<1>1. jobs \in Seq(JobRecord) /\ Len(jobs) \in Nat /\ Job = 1 .. Len(jobs)
      /\ (\A k \in Job : jobs[k] \in JobRecord)
  BY LenProperties, ElementOfSeq DEF TypeInv, TypeOK, Job
<1>2. new \in JobRecord /\ jobs' = [jobs EXCEPT ![j] = new]
  BY <1>1 DEF JobRecord, Complete
<1>3. /\ jobs' \in Seq(JobRecord) /\ Len(jobs') = Len(jobs) /\ jobs'[j] = new
      /\ \A k \in 1 .. Len(jobs) : k # j => jobs'[k] = jobs[k]
  <2> HIDE DEF new
  <2> QED
    BY <1>1, <1>2, JobWritten
<1>4. /\ new.mem = jobs[j].mem /\ new.call = jobs[j].call /\ new.state = "done"
      /\ new.got = jobs[j].got /\ new.told = jobs[j].told
      /\ jobs[j].mem \in Nat \ {0}
  BY <1>1 DEF JobRecord, ConstantsAssumption
<1>5. objs \in Seq(ObjRecord) /\ j \in 0 .. MaxJobs
      /\ objs' = [objs EXCEPT ![jobs[j].mem].out = j]
  BY <1>1 DEF Complete, TypeInv, TypeOK, ConstantsAssumption
<1>6. /\ Len(objs') = Len(objs) /\ objs' \in Seq(ObjRecord)
      /\ \A o \in 1 .. Len(objs) :
           /\ objs'[o].owner = objs[o].owner /\ objs'[o].fence = objs[o].fence
           /\ objs'[o].out = IF o = jobs[j].mem THEN j ELSE objs[o].out
  <2>1. CASE jobs[j].mem \in 1 .. Len(objs)
    BY <1>5, <2>1, OutputWritten
  <2>2. CASE jobs[j].mem \notin 1 .. Len(objs)
    <3>1. DOMAIN objs = 1 .. Len(objs)
      BY <1>5, LenProperties
    <3>2. objs' = objs
      BY <1>5, <2>2, <3>1
    <3> QED
      BY <1>5, <2>2, <3>2
  <2> QED
    BY <2>1, <2>2
<1> HIDE DEF new
<1> QED
  BY <1>1, <1>3, <1>4, <1>6 DEF Job

LEMMA OutsideTypes ==
  ASSUME ConstantsAssumption, TypeInv,
         \/ addCmdBuf \/ setDependency \/ (\E p \in SetParams : setParam(p)) \/ Delete
         \/ \E j \in Job : Complete(j) \/ CallerClose(j)
         \/ \E a \in Addr : OtherAlloc(a) \/ OtherFree(a)
         \/ UNCHANGED vars
  PROVE  TypeInv'
<1>1. UNCHANGED <<execMtx, mtx, thr>>
  BY DEF addCmdBuf, setDependency, setParam, Delete, Complete, CallerClose, OtherAlloc, OtherFree,
         vars, locks
<1>2. /\ running' \in BOOLEAN /\ alive' \in BOOLEAN /\ harm' \subseteq {"fault", "foreign"}
      /\ dirty' \subseteq {"CMDBUF", "PARAMETER"}
      /\ cmdMem' \in Addr \cup {NoAddr} /\ ptrs' \in Addr \cup {NoAddr}
      /\ longer' \in BOOLEAN /\ oldPackIds' \in BOOLEAN /\ oldHeader' \subseteq Params
      /\ lateSave' \in BOOLEAN /\ refused' \in BOOLEAN
  BY DEF addCmdBuf, setDependency, setParam, Delete, Complete, CallerClose, OtherAlloc, OtherFree,
         vars, locks, command, TypeInv, TypeOK
<1>3. /\ jobs' \in Seq(JobRecord) /\ Len(jobs') = Len(jobs) /\ Job' = Job
      /\ Len(jobs) \in Nat /\ Len(jobs) <= MaxJobs
  <2>1. jobs \in Seq(JobRecord) /\ Len(jobs) \in Nat /\ Len(jobs) <= MaxJobs
    BY LenProperties DEF TypeInv, TypeOK
  <2>2. CASE jobs' = jobs
    BY <2>1, <2>2 DEF Job
  <2>3. CASE jobs' # jobs
    <3>1. PICK j \in Job : Complete(j)
      BY <2>3 DEF addCmdBuf, setDependency, setParam, Delete, CallerClose, OtherAlloc, OtherFree,
                  vars
    <3> QED
      BY <2>1, <3>1, CompleteFacts
  <2> QED
    BY <2>2, <2>3
<1>4. given' \subseteq Job /\ closed' \subseteq Job
  BY DEF addCmdBuf, setDependency, setParam, Delete, Complete, CallerClose, OtherAlloc, OtherFree,
         vars, fences, TypeInv, TypeOK
<1>5. /\ objs' \in Seq(ObjRecord) /\ Len(objs') <= MaxObj
      /\ space' \in [Addr -> 0 .. Len(objs')]
      /\ \A o \in 1 .. Len(objs') : objs'[o].fence <= Len(jobs)
  <2>1. /\ objs \in Seq(ObjRecord) /\ Len(objs) <= MaxObj /\ Len(objs) \in Nat
        /\ space \in [Addr -> 0 .. Len(objs)]
        /\ \A o \in 1 .. Len(objs) : objs[o].fence <= Len(jobs)
    BY LenProperties DEF TypeInv, TypeOK, JobsExist
  <2>2. CASE objs' = objs
    <3>1. space' \in [Addr -> 0 .. Len(objs)]
      <4>1. CASE UNCHANGED space
        BY <2>1, <4>1
      <4>2. CASE \E a \in Addr : OtherAlloc(a)
        BY <2>1, <2>2, <4>2, NewObjectFacts DEF OtherAlloc
      <4>3. CASE \E a \in Addr : OtherFree(a)
        BY <2>1, <4>3 DEF OtherFree
      <4>4. CASE Delete
        BY <2>1, <4>4 DEF Delete
      <4> QED
        BY <4>1, <4>2, <4>3, <4>4 DEF addCmdBuf, setDependency, setParam, Complete, CallerClose,
                                      vars
    <3> QED
      BY <2>1, <2>2, <3>1
  <2>3. CASE \E a \in Addr : OtherAlloc(a)
    BY <2>3, NewObjectFacts DEF OtherAlloc
  <2>4. CASE \E j \in Job : Complete(j)
    <3>1. PICK j \in Job : Complete(j)
      BY <2>4
    <3> QED
      BY <2>1, <3>1, CompleteFacts DEF Complete
  <2> QED
    BY <2>2, <2>3, <2>4 DEF addCmdBuf, setDependency, setParam, Delete, CallerClose, OtherFree, vars
<1>6. TypeOK'
  BY <1>1, <1>2, <1>3, <1>4, <1>5 DEF TypeInv, TypeOK
<1>7. CallsInPlace' /\ OneAtATime'
  BY <1>1 DEF TypeInv, CallsInPlace, OneAtATime, Inside
<1>8. JobsExist'
  BY <1>1, <1>3, <1>5 DEF TypeInv, JobsExist
<1> QED
  BY <1>6, <1>7, <1>8 DEF TypeInv

\* Every step keeps the types and the places of the calls.
LEMMA TypeStep ==
  ASSUME ConstantsAssumption, TypeInv, [Next]_vars
  PROVE  TypeInv'
<1>1. CASE \E t \in Threads : \E c \in Calls : Call(t, c)
  BY <1>1, CallTypes
<1>2. CASE \E t \in Threads : Acquire(t) \/ Proceed(t)
  <2>1. PICK t \in Threads : Acquire(t) \/ Proceed(t)
    BY <1>2
  <2>2. CASE LockExec(t) \/ Refuse(t) \/ preExec(t)
    BY <2>2, EnterTypes
  <2>3. CASE LockMtx(t) \/ FreeOld(t) \/ ClearOld(t) \/ Construct(t)
    BY <2>3, BuildTypes
  <2>4. CASE FreeUnknown(t) \/ AllocFail(t) \/ ConstructRefuses(t) \/ ResetDirty(t)
    BY <2>4, BuildEndsTypes
  <2>5. CASE \E a \in Addr : Alloc(t, a)
    BY <2>5, AllocTypes
  <2>6. CASE updateHeader(t) \/ setFence(t) \/ copyIn(t) \/ Submit(t)
    BY <2>6, HeaderTypes, FenceAndInputTypes, SubmitTypes
  <2>7. CASE SubmitFail(t) \/ SyncDone(t) \/ WaitFails(t)
    BY <2>7, EndTypes
  <2>8. CASE getFence(t) \/ Poll(t) \/ copyOut(t)
    BY <2>8, WaitTypes, copyOutTypes
  <2> QED
    BY <2>1, <2>2, <2>3, <2>4, <2>5, <2>6, <2>7, <2>8 DEF Acquire, Proceed
<1>3. CASE \/ addCmdBuf \/ setDependency \/ (\E p \in SetParams : setParam(p)) \/ Delete \/ Gone
           \/ \E j \in Job : Complete(j) \/ CallerClose(j)
           \/ \E a \in Addr : OtherAlloc(a) \/ OtherFree(a)
           \/ UNCHANGED vars
  BY <1>3, OutsideTypes DEF Gone
<1> QED
  BY <1>1, <1>2, <1>3 DEF Next

LEMMA TypeInit ==
  ASSUME ConstantsAssumption, Init
  PROVE  TypeInv
<1>1. Idle \in ThreadRecord
  BY DEF Idle, ThreadRecord, Calls, ConstantsAssumption
<1>2. TypeOK
  <2>1. <<>> \in Seq(ObjRecord) /\ <<>> \in Seq(JobRecord) /\ Len(<<>>) = 0
    OBVIOUS
  <2>2. /\ objs \in Seq(ObjRecord) /\ Len(objs) <= MaxObj
        /\ jobs \in Seq(JobRecord) /\ Len(jobs) <= MaxJobs
    BY <2>1 DEF Init, ConstantsAssumption
  <2>3. thr \in [Threads -> ThreadRecord] /\ space \in [Addr -> 0 .. Len(objs)]
    BY <1>1, <2>1 DEF Init
  <2> QED
    BY <2>2, <2>3 DEF Init, TypeOK
<1>3. CallsInPlace /\ OneAtATime /\ JobsExist
  BY DEF Init, Idle, CallsInPlace, OneAtATime, JobsExist, Places, Inside
<1> QED
  BY <1>2, <1>3 DEF TypeInv

-----------------------------------------------------------------------------
\* A step of one call: it moves this thread only, and unless it enters or is
\* refused no other call is past mExecMtx or build().
LEMMA OneMoves ==
  ASSUME ConstantsAssumption, TypeInv, NEW t \in Threads, Acquire(t) \/ Proceed(t)
  PROVE  /\ alive /\ thr[t].pc # "idle"
         /\ thr' \in [Threads -> ThreadRecord]
         /\ \A u \in Threads \ {t} : thr'[u] = thr[u]
         /\ Inside(t) => \A u \in Threads \ {t} : thr[u].pc \in {"idle", "exec"}
<1>1. alive /\ thr[t].pc # "idle"
  BY DEF Acquire, Proceed, At, LockExec, Refuse, LockMtx, preExec, FreeOld, FreeUnknown, ClearOld,
         AllocFail, Alloc, Construct, ConstructRefuses, ResetDirty, updateHeader, setFence, copyIn,
         Submit, SubmitFail, SyncDone, WaitFails, getFence, Poll, copyOut
<1>2. TypeInv'
  BY TypeStep DEF Next
<1>3. \A u \in Threads \ {t} : thr'[u] = thr[u]
  <2>1. thr \in [Threads -> ThreadRecord]
    BY DEF TypeInv, TypeOK
  <2>2. CASE Submit(t)
    BY <2>1, <2>2 DEF Submit, Leave
  <2>3. CASE ~Submit(t)
    BY <2>1, <2>3 DEF Acquire, Proceed, LockExec, Refuse, LockMtx, preExec, FreeOld, FreeUnknown,
         ClearOld, AllocFail, Alloc, Construct, ConstructRefuses, ResetDirty, updateHeader, setFence,
         copyIn, SubmitFail, SyncDone, WaitFails, getFence, Poll, copyOut, GoTo, AfterBuild,
         Leave, vars
  <2> QED
    BY <2>2, <2>3
<1> QED
  BY <1>1, <1>2, <1>3, OneInside DEF TypeInv, TypeOK

\* A parameter, or a sub-command's buffer, is in the header and the command
\* memory by the time the run gets to the ioctl.
LEMMA ParamsThread ==
  ASSUME ConstantsAssumption, TypeInv, DirtyMarks, NEW t \in Threads, Acquire(t) \/ Proceed(t)
  PROVE  DirtyMarks'
<1>1. /\ thr' \in [Threads -> ThreadRecord]
      /\ \A u \in Threads \ {t} : thr'[u] = thr[u]
      /\ Inside(t) => \A u \in Threads \ {t} : thr[u].pc \in {"idle", "exec"}
  BY OneMoves
<1>2. CASE UNCHANGED <<dirty, longer, oldHeader, lateSave>>
           /\ \/ thr'[t].pc \notin {"reset", "header", "setFence", "copyIn", "submit"}
              \/ preExec(t)
              \/ setFence(t) \/ copyIn(t)
  <2>1. CASE thr'[t].pc \notin {"reset", "header", "setFence", "copyIn", "submit"}
    BY <1>1, <1>2, <2>1 DEF DirtyMarks
  <2>2. CASE preExec(t)
    <3>1. PICK pc \in {"mtx", "header"} : GoTo(t, pc) /\ (pc = "header" => "CMDBUF" \notin dirty)
      BY <2>2 DEF preExec, needsBuild
    <3>2. thr'[t].pc = pc
      BY <3>1, GoToFacts DEF TypeInv, Positions, BuildPC, RunPC
    <3> QED
      BY <1>1, <1>2, <3>1, <3>2 DEF DirtyMarks
  <2>3. CASE setFence(t) \/ copyIn(t)
    <3>1. thr[t].pc \in {"setFence", "copyIn"}
      BY <2>3 DEF setFence, copyIn, At
    <3>2. thr'[t].pc \in {"idle", "copyIn", "submit"}
      <4>1. PICK pc \in {"copyIn", "submit"} : Leave(t) \/ GoTo(t, pc)
        BY <2>3 DEF setFence, copyIn
      <4> QED
        BY <4>1, IdleFacts, GoToFacts DEF Leave, TypeInv, Positions, RunPC
    <3> QED
      BY <1>1, <1>2, <3>1, <3>2 DEF DirtyMarks
  <2> QED
    BY <1>2, <2>1, <2>2, <2>3
<1>3. CASE Construct(t)
  <2>1. /\ thr[t].pc = "construct" /\ Inside(t) /\ thr'[t].pc = "reset"
        /\ UNCHANGED <<dirty, jobs>> /\ ~longer' /\ oldHeader' = {}
    BY <1>3, GoToFacts DEF Construct, At, Inside, TypeInv, Positions, BuildPC
  <2> QED
    BY <1>1, <2>1 DEF DirtyMarks
<1>4. CASE ResetDirty(t)
  <2>1. /\ thr[t].pc = "reset" /\ Inside(t) /\ thr'[t].pc \in {"idle", "header"}
        /\ UNCHANGED <<longer, oldHeader, lateSave, jobs>> /\ dirty' = {}
    BY <1>4, AfterBuildFacts DEF ResetDirty, At, Inside, BuildPC
  <2> QED
    BY <1>1, <2>1 DEF DirtyMarks
<1>5. CASE updateHeader(t)
  <2>1. thr[t].pc = "header" /\ Inside(t) /\ UNCHANGED <<longer, jobs>>
    BY <1>5 DEF updateHeader, At, Inside
  <2>2. \/ /\ thr'[t].pc = "setFence" /\ "PARAMETER" \notin dirty
           /\ UNCHANGED <<dirty, oldHeader, lateSave>>
        \/ thr'[t].pc = "idle" /\ UNCHANGED <<dirty, oldHeader, lateSave>>
        \/ /\ thr'[t].pc = "setFence" /\ UNCHANGED lateSave
           /\ dirty' = dirty \ {"PARAMETER"} /\ oldHeader' = oldHeader \cap {"POWERSAVE"}
    BY <1>5, IdleFacts, GoToFacts DEF updateHeader, Leave, TypeInv, Positions, RunPC
  <2>3. dirty \subseteq {"CMDBUF", "PARAMETER"} /\ "CMDBUF" \notin dirty
    BY <2>1 DEF TypeInv, TypeOK, DirtyMarks
  <2>4. /\ ~longer /\ ("PARAMETER" \notin dirty => "LIMITS" \notin oldHeader)
        /\ "POWERSAVE" \in oldHeader => lateSave
    BY <2>3 DEF DirtyMarks
  <2>5. DirtyMarks'
    <3>1. /\ ~longer' /\ ("LIMITS" \in oldHeader' => dirty' # {})
          /\ "POWERSAVE" \in oldHeader' => lateSave'
      BY <2>1, <2>2, <2>4 DEF DirtyMarks
    <3>2. "CMDBUF" \notin dirty' /\ (thr'[t].pc = "setFence" => "LIMITS" \notin oldHeader')
      BY <2>2, <2>3, <2>4
    <3>3. thr'[t].pc \in {"setFence", "idle"}
      BY <2>2
    <3> QED
      BY <1>1, <2>1, <3>1, <3>2, <3>3 DEF DirtyMarks
  <2> QED
    BY <2>5
<1>6. CASE Submit(t)
  <2>1. /\ thr[t].pc = "submit" /\ thr'[t].pc \in {"ioctl", "idle"}
        /\ UNCHANGED <<dirty, longer, oldHeader, lateSave>> /\ Inside(t)
    BY <1>6, SubmitFacts DEF Submit, command, Inside
  <2> QED
    BY <1>1, <2>1 DEF DirtyMarks
<1>7. CASE copyOut(t)
  <2>1. /\ thr[t].pc = "copyOut" /\ Inside(t) /\ thr'[t].pc = "idle"
    BY <1>7, copyOutFacts DEF Inside
  <2>2. UNCHANGED <<dirty, longer, oldHeader, lateSave>>
    BY <1>7 DEF copyOut, command
  <2> QED
    BY <1>1, <2>1, <2>2 DEF DirtyMarks
<1>8. CASE LockExec(t) \/ Refuse(t) \/ LockMtx(t) \/ FreeOld(t) \/ ClearOld(t) \/ SubmitFail(t)
           \/ SyncDone(t) \/ WaitFails(t) \/ Poll(t) \/ \E a \in Addr : Alloc(t, a)
  <2>1. PICK pc \in {"getFence", "preExec", "alloc", "free", "clear", "construct", "copyOut"} :
          GoTo(t, pc) \/ thr' = [thr EXCEPT ![t] = Idle]
    BY <1>8 DEF LockExec, Refuse, LockMtx, FreeOld, ClearOld, SubmitFail, SyncDone, WaitFails, Poll,
                Alloc, Leave
  <2>2. thr'[t].pc \in {pc, "idle"}
    BY <2>1, GoToFacts, IdleFacts DEF TypeInv, Positions, BuildPC, RunPC
  <2>3. UNCHANGED <<dirty, longer, oldHeader, lateSave, jobs>>
    BY <1>8 DEF LockExec, Refuse, LockMtx, FreeOld, ClearOld, SubmitFail, SyncDone, WaitFails, Poll,
                Alloc, command, locks
  <2> QED
    BY <1>2, <2>2, <2>3
<1>9. CASE FreeUnknown(t) \/ AllocFail(t) \/ ConstructRefuses(t)
  <2>1. PICK result \in {"refused", "nomem"} : AfterBuild(t, result) /\ thr[t].pc \in BuildPC
    BY <1>9 DEF FreeUnknown, AllocFail, ConstructRefuses, At, BuildPC
  <2>2. thr'[t].pc = "idle"
    BY <2>1, AfterBuildFacts
  <2>3. UNCHANGED <<dirty, longer, oldHeader, lateSave, jobs>>
    BY <1>9 DEF FreeUnknown, AllocFail, ConstructRefuses
  <2> QED
    BY <1>2, <2>2, <2>3
<1>10. CASE getFence(t)
  <2>1. thr'[t].pc = "poll" /\ UNCHANGED <<dirty, longer, oldHeader, lateSave, jobs>>
    BY <1>10, getFenceFacts DEF getFence, command
  <2> QED
    BY <1>2, <2>1
<1>11. CASE preExec(t) \/ setFence(t) \/ copyIn(t)
  BY <1>2, <1>11 DEF preExec, setFence, copyIn, command
<1> QED
  BY <1>3, <1>4, <1>5, <1>6, <1>7, <1>8, <1>9, <1>10, <1>11 DEF Acquire, Proceed

LEMMA ParamsStep ==
  ASSUME ConstantsAssumption, TypeInv, DirtyMarks, [Next]_vars
  PROVE  DirtyMarks'
<1>1. CASE \E t \in Threads : Acquire(t) \/ Proceed(t)
  BY <1>1, ParamsThread
<1>2. CASE \E t \in Threads : \E c \in Calls : Call(t, c)
  <2>1. PICK t \in Threads, c \in Calls : Call(t, c)
    BY <1>2
  <2>2. UNCHANGED <<dirty, longer, oldHeader, lateSave, jobs>>
    BY <2>1 DEF Call, command
  <2>3. \A u \in Threads : thr'[u].pc \in {thr[u].pc, "mtx", "exec"}
    BY <2>1, CallFacts
  <2> QED
    BY <2>2, <2>3 DEF DirtyMarks
<1>3. CASE addCmdBuf \/ setDependency \/ (\E p \in SetParams : setParam(p))
  <2>1. /\ \A t \in Threads : thr[t].pc = "idle"
        /\ UNCHANGED <<thr, jobs>>
    BY <1>3 DEF addCmdBuf, setDependency, setParam, Quiet
  <2>2. /\ "LIMITS" \in oldHeader' => dirty' # {}
        /\ "POWERSAVE" \in oldHeader' => "CMDBUF" \in dirty' \/ lateSave'
        /\ longer' => "CMDBUF" \in dirty'
    <3>1. CASE addCmdBuf \/ setDependency
      BY <3>1 DEF addCmdBuf, setDependency, DirtyMarks
    <3>2. CASE \E p \in SetParams : setParam(p)
      <4>1. PICK p \in SetParams : setParam(p)
        BY <3>2
      <4>2. /\ dirty' = dirty \cup {"PARAMETER"} /\ oldHeader' \subseteq oldHeader \cup {p}
            /\ lateSave' = ("POWERSAVE" \in oldHeader'
                             /\ (lateSave \/ (p = "POWERSAVE" /\ "CMDBUF" \notin dirty)))
            /\ longer' = longer
        BY <4>1 DEF setParam
      <4> QED
        BY <4>2 DEF DirtyMarks
    <3> QED
      BY <1>3, <3>1, <3>2
  <2> QED
    BY <2>1, <2>2 DEF DirtyMarks
<1>4. CASE \E j \in Job : Complete(j)
  <2>1. PICK j \in Job : Complete(j)
    BY <1>4
  <2>2. UNCHANGED <<dirty, longer, oldHeader, lateSave, thr>>
    BY <2>1 DEF Complete, command
  <2> QED
    BY <2>2 DEF DirtyMarks
<1>5. CASE \/ Delete \/ Gone \/ UNCHANGED vars \/ \E j \in Job : CallerClose(j)
           \/ \E a \in Addr : OtherAlloc(a) \/ OtherFree(a)
  <2>1. UNCHANGED <<dirty, longer, oldHeader, lateSave, jobs, thr>>
    BY <1>5 DEF Delete, Gone, CallerClose, OtherAlloc, OtherFree, vars, command
  <2> QED
    BY <2>1 DEF DirtyMarks
<1> QED
  BY <1>1, <1>2, <1>3, <1>4, <1>5 DEF Next

LEMMA TypeAlways == Spec => []TypeInv
<1>1. Init => TypeInv
  BY TypeInit, ConstantsAssumption
<1>2. TypeInv /\ [Next]_vars => TypeInv'
  BY TypeStep, ConstantsAssumption
<1> QED
  BY <1>1, <1>2, PTL DEF Spec

(* The types of the command's state.                                        *)
THEOREM TypesV1 == Spec => []TypeOK
<1>1. TypeInv => TypeOK
  BY DEF TypeInv
<1> QED
  BY <1>1, TypeAlways, PTL

\* Only submit() hands a job to the driver.
LEMMA JobAccepted ==
  ASSUME ConstantsAssumption, TypeInv, [Next]_vars, Len(jobs') > Len(jobs)
  PROVE  \E t \in Threads : Submit(t)
<1>1. Len(jobs) \in Nat /\ jobs' # jobs
  BY LenProperties DEF TypeInv, TypeOK
<1>2. ASSUME NEW t \in Threads, Acquire(t) \/ Proceed(t)
      PROVE  Submit(t)
  <2>1. ASSUME copyOut(t)
        PROVE  FALSE
    <3>1. Len(jobs') = Len(jobs)
      BY <2>1, copyOutFacts
    <3> QED
      BY <1>1, <3>1
  <2> QED
    BY <1>1, <1>2, <2>1 DEF Acquire, Proceed, LockExec, Refuse, LockMtx, FreeOld, ClearOld,
         SubmitFail, SyncDone, WaitFails, Poll, Alloc, FreeUnknown, AllocFail, ConstructRefuses,
         getFence, preExec, setFence, copyIn, Construct, ResetDirty, updateHeader
<1>3. \A j \in Job : ~Complete(j)
  BY <1>1, CompleteFacts
<1>4. \A t \in Threads : \A c \in Calls : ~Call(t, c)
  BY <1>1 DEF Call
<1>5. ~addCmdBuf /\ ~setDependency /\ \A p \in SetParams : ~setParam(p)
  BY <1>1 DEF addCmdBuf, setDependency, setParam
<1>6. /\ ~Delete /\ ~Gone /\ ~UNCHANGED vars /\ \A j \in Job : ~CallerClose(j)
      /\ \A a \in Addr : ~OtherAlloc(a) /\ ~OtherFree(a)
  BY <1>1 DEF Delete, Gone, CallerClose, OtherAlloc, OtherFree, vars
<1> QED
  BY <1>2, <1>3, <1>4, <1>5, <1>6 DEF Next

(* Whenever the driver takes a command, its header has the priority, limits *)
(* and user id that were set before, whether preExec() rebuilds the command *)
(* or only updates the header; power save as well, unless it was set when   *)
(* no build was due and none came since, for updateHeader() does not write  *)
(* it.                                                                      *)
THEOREM ParamsReachDriver == Spec => ParamsApplied
<1>1. Init => DirtyMarks
  BY DEF Init, Idle, DirtyMarks
<1>2. TypeInv /\ DirtyMarks /\ [Next]_vars => DirtyMarks'
  BY ParamsStep, ConstantsAssumption
<1>3. TypeInv /\ DirtyMarks /\ [Next]_vars =>
        [Len(jobs') > Len(jobs) =>
           oldHeader \subseteq (IF lateSave THEN {"POWERSAVE"} ELSE {})]_vars
  <2> SUFFICES ASSUME TypeInv, DirtyMarks, [Next]_vars, Len(jobs') > Len(jobs)
               PROVE  oldHeader \subseteq (IF lateSave THEN {"POWERSAVE"} ELSE {})
    OBVIOUS
  <2>1. PICK t \in Threads : Submit(t)
    BY JobAccepted, ConstantsAssumption
  <2>2. thr[t].pc = "submit"
    BY <2>1 DEF Submit, At
  <2> QED
    BY <2>2 DEF DirtyMarks, TypeInv, TypeOK, Params
<1> QED
  BY <1>1, <1>2, <1>3, TypeAlways, PTL DEF Spec, ParamsApplied

-----------------------------------------------------------------------------
\* No step changes whose memory an object is.
LEMMA setFenceFacts ==
  ASSUME ConstantsAssumption, TypeInv, NEW t \in Threads, setFence(t) \/ copyIn(t)
  PROVE  /\ Len(objs') = Len(objs)
         /\ \A o \in 1 .. Len(objs) : objs'[o].owner = objs[o].owner
<1>1. objs \in Seq(ObjRecord) /\ 0 \in 0 .. MaxJobs
  BY DEF TypeInv, TypeOK, ConstantsAssumption
<1>2. CASE objs' # objs
  <2>1. PICK a \in {cmdMem, ptrs} :
          /\ Lookup(a) # 0
          /\ \/ objs' = [objs EXCEPT ![Lookup(a)].fence = 0]
             \/ objs' = [objs EXCEPT ![Lookup(a)].out = 0]
    BY <1>2 DEF setFence, copyIn
  <2>2. a \in Addr \cup {NoAddr}
    BY DEF TypeInv, TypeOK
  <2>3. PICK o \in 1 .. Len(objs) : o = Lookup(a)
    BY <2>1, <2>2, LookupTyped DEF TypeInv
  <2>4. CASE objs' = [objs EXCEPT ![o].fence = 0]
    BY <1>1, <2>4, FenceWritten
  <2>5. CASE objs' = [objs EXCEPT ![o].out = 0]
    BY <1>1, <2>5, OutputWritten
  <2> QED
    BY <2>1, <2>3, <2>4, <2>5
<1> QED
  BY <1>2

\* The fence of a run that is not run()'s is in the header.
LEMMA SubmitObjects ==
  ASSUME ConstantsAssumption, TypeInv, NEW t \in Threads, Submit(t)
  PROVE  /\ Len(objs') = Len(objs)
         /\ \A o \in 1 .. Len(objs) : objs'[o].owner = objs[o].owner
         /\ thr[t].call # "run" => objs'[Lookup(cmdMem)].fence = Len(jobs) + 1
<1> DEFINE o == Lookup(cmdMem)
           j == Len(jobs) + 1
<1>1. objs \in Seq(ObjRecord) /\ o \in 1 .. Len(objs) /\ j \in 0 .. MaxJobs
  <2>1. /\ Len(jobs) \in Nat /\ Len(jobs') = Len(jobs) + 1 /\ Len(jobs') <= MaxJobs
        /\ Lookup(cmdMem) \in 1 .. Len(objs)
    BY SubmitFacts
  <2> QED
    BY <2>1 DEF TypeInv, TypeOK, ConstantsAssumption
<1>2. objs' = IF thr[t].call = "run" THEN objs ELSE [objs EXCEPT ![o].fence = j]
  BY DEF Submit
<1> HIDE DEF o, j
<1>3. CASE thr[t].call # "run"
  <2>1. /\ objs' \in Seq(ObjRecord) /\ Len(objs') = Len(objs)
        /\ \A k \in 1 .. Len(objs) :
             /\ objs'[k].owner = objs[k].owner /\ objs'[k].out = objs[k].out
             /\ objs'[k].fence = IF k = o THEN j ELSE objs[k].fence
    BY <1>1, <1>2, <1>3, FenceWritten
  <2> QED
    BY <1>1, <2>1 DEF o, j
<1> QED
  BY <1>2, <1>3

\* While it is the command's own, the memory under mCmdMem is found again.
LEMMA OwnKept ==
  ASSUME TypeInv, Own(Lookup(cmdMem)), UNCHANGED cmdMem, ConstantsAssumption,
         cmdMem # NoAddr => space'[cmdMem] = space[cmdMem],
         \A o \in 1 .. Len(objs) : objs'[o].owner = objs[o].owner
  PROVE  Own(Lookup(cmdMem))' /\ Lookup(cmdMem)' = Lookup(cmdMem)
<1>1. cmdMem \in Addr /\ Lookup(cmdMem) \in 1 .. Len(objs)
  BY LookupTyped DEF Own, TypeInv, TypeOK
<1>2. Lookup(cmdMem)' = Lookup(cmdMem)
  BY <1>1 DEF Lookup, ConstantsAssumption
<1> QED
  BY <1>1, <1>2 DEF Own

LEMMA CmdMemKept ==
  ASSUME ConstantsAssumption, TypeInv, CmdMemOwned,
         UNCHANGED <<cmdMem, ptrs>>, oldPackIds => oldPackIds',
         Own(Lookup(cmdMem)) => Own(Lookup(cmdMem))',
         \A t \in Threads : thr[t].pc \in {"clear", "construct"} => thr'[t].pc = thr[t].pc,
         \A t \in Threads : thr'[t].pc = "alloc" => cmdMem = NoAddr,
         \A t \in Threads :
           thr'[t].pc \in {"free", "clear", "construct", "reset", "header", "setFence",
                           "copyIn", "submit", "copyOut"} => cmdMem # NoAddr
  PROVE  CmdMemOwned'
<1>1. (ptrs # NoAddr => oldPackIds)'
  BY DEF CmdMemOwned
<1>2. ASSUME cmdMem' # NoAddr
      PROVE  /\ (\A t \in Threads : thr'[t].pc # "clear") => Own(Lookup(cmdMem))'
             /\ (\A t \in Threads : thr'[t].pc \notin {"clear", "construct"}) => ptrs' = cmdMem'
  BY <1>2 DEF CmdMemOwned
<1> QED
  BY <1>1, <1>2 DEF CmdMemOwned

\* A call that builds or prepares a run and does not submit it yet.
LEMMA PrepareKeepsJobs ==
  ASSUME ConstantsAssumption, TypeInv, Sound, NEW t \in Threads, Acquire(t) \/ Proceed(t),
         thr[t].pc \in BuildPC \cup RunPC,
         UNCHANGED <<running, jobs, given, closed>>,
         thr'[t].pc \in BuildPC \cup RunPC \cup {"idle", "copyOut"},
         thr'[t].pc = "copyOut" => thr'[t].job = 0
  PROVE  JobsInOrder' /\ RunningIsLast' /\ CallsHaveLast'
<1>1. /\ \A u \in Threads \ {t} : thr'[u] = thr[u] /\ thr[u].pc \in {"idle", "exec"}
      /\ Job' = Job
  BY OneMoves DEF Inside, BuildPC, RunPC, Job
<1>2. ~running /\ \A j \in Job : jobs[j].state = "done"
  BY DEF Sound, JobsInOrder
<1>3. JobsInOrder'
  BY <1>1, <1>2 DEF Sound, JobsInOrder
<1>4. RunningIsLast'
  BY <1>2 DEF RunningIsLast
<1>5. CallsHaveLast'
  BY <1>1, <1>2 DEF CallsHaveLast, BuildPC, RunPC
<1> QED
  BY <1>3, <1>4, <1>5

\* Calls enter, are refused, or find out whether they must build.
LEMMA EnterSound ==
  ASSUME ConstantsAssumption, TypeInv, Sound, NEW t \in Threads,
         LockExec(t) \/ Refuse(t) \/ preExec(t)
  PROVE  Sound'
<1>1. /\ UNCHANGED <<running, dirty, cmdMem, ptrs, oldPackIds, objs, space, jobs, given, closed>>
      /\ Job' = Job
  BY DEF LockExec, Refuse, preExec, command, fences, Job
<1>2. \A u \in Threads \ {t} : thr'[u] = thr[u]
  BY OneMoves DEF Acquire, Proceed
<1>3. Own(Lookup(cmdMem))' = Own(Lookup(cmdMem)) /\ Lookup(cmdMem)' = Lookup(cmdMem)
  BY <1>1 DEF Own, Lookup
<1>4. CASE LockExec(t)
  <2>1. PICK pc \in {"getFence", "preExec"} :
          GoTo(t, pc) /\ (pc = "preExec" => thr[t].call # "wait")
    BY <1>4 DEF LockExec
  <2>2. thr'[t].pc = pc /\ thr[t].pc = "exec" /\ execMtx = NoThread
    BY <1>4, <2>1, GoToFacts DEF LockExec, At, TypeInv, Positions, RunPC
  <2>3. CmdMemOwned'
    BY <1>1, <1>2, <1>3, <2>1, <2>2, CmdMemKept DEF Sound, CmdMemOwned
  <2>4. pc = "preExec" => ~running /\ \A j \in Job : jobs[j].state = "done"
    <3>1. pc = "preExec" => ~running
      BY <1>4, <2>1 DEF LockExec, mustRefuse
    <3> QED
      BY <2>2, <3>1 DEF Sound, JobsInOrder
  <2>5. JobsInOrder'
    BY <1>1, <1>2, <2>1, <2>2, <2>4 DEF Sound, JobsInOrder, BuildPC, RunPC
  <2>6. RunningIsLast'
    BY <1>1, <1>2, <1>3, <2>1, <2>2 DEF Sound, RunningIsLast
  <2>7. CallsHaveLast'
    BY <1>1, <1>2, <2>1, <2>2 DEF Sound, CallsHaveLast
  <2> QED
    BY <2>3, <2>5, <2>6, <2>7 DEF Sound
<1>5. CASE Refuse(t)
  <2>1. thr'[t].pc = "idle" /\ thr[t].pc = "exec"
    BY <1>5, IdleFacts DEF Refuse, At, TypeInv
  <2>2. CmdMemOwned'
    BY <1>1, <1>2, <1>3, <2>1, CmdMemKept DEF Sound, CmdMemOwned
  <2>3. JobsInOrder'
    BY <1>1, <1>2, <2>1 DEF Sound, JobsInOrder, BuildPC, RunPC
  <2>4. RunningIsLast'
    BY <1>1, <1>2, <1>3, <2>1 DEF Sound, RunningIsLast
  <2>5. CallsHaveLast'
    BY <1>1, <1>2, <2>1 DEF Sound, CallsHaveLast
  <2> QED
    BY <2>2, <2>3, <2>4, <2>5 DEF Sound
<1>6. CASE preExec(t)
  <2>1. PICK pc \in {"mtx", "header"} : GoTo(t, pc) /\ (pc = "header" => cmdMem # NoAddr)
    BY <1>6 DEF preExec, needsBuild
  <2>2. thr'[t].pc = pc /\ thr[t].pc = "preExec"
    BY <1>6, <2>1, GoToFacts DEF preExec, At, TypeInv, Positions, BuildPC, RunPC
  <2>3. CmdMemOwned'
    BY <1>1, <1>2, <1>3, <2>1, <2>2, CmdMemKept DEF Sound, CmdMemOwned
  <2>4. JobsInOrder' /\ RunningIsLast' /\ CallsHaveLast'
    BY <1>1, <1>6, <2>1, <2>2, PrepareKeepsJobs DEF Proceed, BuildPC, RunPC
  <2> QED
    BY <2>3, <2>4 DEF Sound
<1> QED
  BY <1>4, <1>5, <1>6

\* build(): the memory is the command's own except while it is replaced.
LEMMA BuildSound ==
  ASSUME ConstantsAssumption, TypeInv, Sound, NEW t \in Threads,
         LockMtx(t) \/ FreeOld(t) \/ ClearOld(t) \/ Construct(t)
  PROVE  Sound'
<1>1. /\ thr[t].pc \in {"mtx", "free", "clear", "construct"} /\ Inside(t)
      /\ UNCHANGED <<running, objs, jobs, given, closed>>
  BY DEF LockMtx, FreeOld, ClearOld, Construct, At, command, fences, Inside
<1>2. /\ \A u \in Threads \ {t} : thr'[u] = thr[u] /\ thr[u].pc \in {"idle", "exec"}
      /\ Acquire(t) \/ Proceed(t)
  BY <1>1, OneMoves DEF Acquire, Proceed
<1>3. PICK pc \in BuildPC \ {"mtx"} : GoTo(t, pc)
  BY DEF LockMtx, FreeOld, ClearOld, Construct, BuildPC
<1>4. thr'[t].pc = pc
  BY <1>3, GoToFacts DEF TypeInv, Positions
<1>5. JobsInOrder' /\ RunningIsLast' /\ CallsHaveLast'
  BY <1>1, <1>2, <1>3, <1>4, PrepareKeepsJobs DEF BuildPC
<1>6. CASE LockMtx(t)
  <2>1. UNCHANGED <<cmdMem, ptrs, oldPackIds, space>>
    BY <1>6 DEF LockMtx, command
  <2>2. Own(Lookup(cmdMem))' = Own(Lookup(cmdMem))
    BY <1>1, <2>1 DEF Own, Lookup
  <2>3. thr[t].pc = "mtx" /\ thr'[t].pc = IF cmdMem = NoAddr THEN "alloc" ELSE "free"
    BY <1>6, GoToFacts DEF LockMtx, At, TypeInv, Positions, BuildPC
  <2>4. CmdMemOwned'
    BY <1>2, <2>1, <2>2, <2>3, CmdMemKept DEF Sound
  <2> QED
    BY <1>5, <2>4 DEF Sound
<1>7. CASE FreeOld(t)
  <2>1. /\ thr[t].pc = "free" /\ thr'[t].pc = "clear" /\ UNCHANGED <<cmdMem, ptrs, oldPackIds>>
        /\ cmdMem # NoAddr
    BY <1>7, GoToFacts DEF FreeOld, At, command, TypeInv, Positions, BuildPC, Sound, CmdMemOwned
  <2>2. CmdMemOwned'
    BY <1>2, <2>1 DEF Sound, CmdMemOwned
  <2> QED
    BY <1>5, <2>2 DEF Sound
<1>8. CASE ClearOld(t)
  <2>1. thr'[t].pc = "alloc" /\ cmdMem' = NoAddr /\ UNCHANGED <<ptrs, oldPackIds>>
    BY <1>8, GoToFacts DEF ClearOld, At, TypeInv, Positions, BuildPC
  <2>2. CmdMemOwned'
    BY <1>2, <2>1 DEF Sound, CmdMemOwned
  <2> QED
    BY <1>5, <2>2 DEF Sound
<1>9. CASE Construct(t)
  <2>1. /\ thr[t].pc = "construct" /\ thr'[t].pc = "reset" /\ ptrs' = cmdMem /\ oldPackIds'
        /\ UNCHANGED <<cmdMem, space>> /\ cmdMem # NoAddr
    BY <1>9, GoToFacts DEF Construct, At, TypeInv, Positions, BuildPC, Sound, CmdMemOwned
  <2>2. Own(Lookup(cmdMem))
    BY <1>2, <2>1 DEF Sound, CmdMemOwned
  <2>3. Own(Lookup(cmdMem))'
    BY <1>1, <2>1, <2>2 DEF Own, Lookup
  <2>4. CmdMemOwned'
    BY <1>2, <2>1, <2>3 DEF CmdMemOwned
  <2> QED
    BY <1>5, <2>4 DEF Sound
<1> QED
  BY <1>6, <1>7, <1>8, <1>9

LEMMA AllocSound ==
  ASSUME ConstantsAssumption, TypeInv, Sound, NEW t \in Threads, NEW a \in Addr, Alloc(t, a)
  PROVE  Sound'
<1>1. /\ thr[t].pc = "alloc" /\ Inside(t) /\ thr'[t].pc = "construct" /\ cmdMem' = a
      /\ UNCHANGED <<running, ptrs, oldPackIds, jobs, given, closed>>
  BY GoToFacts DEF Alloc, At, fences, Inside, TypeInv, Positions, BuildPC
<1>2. /\ \A u \in Threads \ {t} : thr'[u] = thr[u] /\ thr[u].pc \in {"idle", "exec"}
      /\ Acquire(t) \/ Proceed(t)
  BY <1>1, OneMoves DEF Acquire, Proceed
<1>3. JobsInOrder' /\ RunningIsLast' /\ CallsHaveLast'
  BY <1>1, <1>2, PrepareKeepsJobs DEF BuildPC
<1>4. space'[a] = Len(objs) + 1 /\ objs'[Len(objs) + 1].owner = "command" /\ Len(objs) \in Nat
  BY NewObjectFacts DEF Alloc
<1>5. Own(Lookup(cmdMem))'
  BY <1>1, <1>4 DEF Own, Lookup, ConstantsAssumption
<1>6. CmdMemOwned'
  BY <1>1, <1>2, <1>5 DEF Sound, CmdMemOwned, ConstantsAssumption
<1> QED
  BY <1>3, <1>6 DEF Sound

\* build() is done, or could not get memory; a refusal is excluded.
LEMMA BuildEndsSound ==
  ASSUME ConstantsAssumption, TypeInv, Sound, NEW t \in Threads, ~refused',
         FreeUnknown(t) \/ AllocFail(t) \/ ConstructRefuses(t) \/ ResetDirty(t)
  PROVE  Sound'
<1>1. /\ AllocFail(t) \/ ResetDirty(t)
  BY DEF FreeUnknown, ConstructRefuses, AfterBuild
<1>2. /\ thr[t].pc \in {"alloc", "reset"} /\ Inside(t)
      /\ UNCHANGED <<running, cmdMem, ptrs, objs, space, jobs, given, closed>>
      /\ oldPackIds => oldPackIds'
      /\ \E result \in {"nomem", "ok"} : AfterBuild(t, result)
                                         /\ (result = "ok" => thr[t].pc = "reset")
  BY <1>1 DEF AllocFail, ResetDirty, At, fences, Inside
<1>3. thr'[t].pc = "idle" \/ (thr'[t].pc = "header" /\ thr[t].pc = "reset")
  BY <1>2, AfterBuildFacts DEF BuildPC
<1>4. /\ \A u \in Threads \ {t} : thr'[u] = thr[u] /\ thr[u].pc \in {"idle", "exec"}
      /\ Acquire(t) \/ Proceed(t)
  BY <1>2, OneMoves DEF Acquire, Proceed
<1>5. JobsInOrder' /\ RunningIsLast' /\ CallsHaveLast'
  BY <1>2, <1>3, <1>4, PrepareKeepsJobs DEF BuildPC, RunPC
<1>6. Own(Lookup(cmdMem))' = Own(Lookup(cmdMem))
  BY <1>2 DEF Own, Lookup
<1>7. CmdMemOwned'
  BY <1>2, <1>3, <1>4, <1>6, CmdMemKept DEF Sound, CmdMemOwned
<1> QED
  BY <1>5, <1>7 DEF Sound

\* The header, its fence, the callers' buffers; a refused submission.
LEMMA PrepareSound ==
  ASSUME ConstantsAssumption, TypeInv, Sound, NEW t \in Threads,
         updateHeader(t) \/ setFence(t) \/ copyIn(t) \/ SubmitFail(t)
  PROVE  Sound'
<1>1. /\ thr[t].pc \in {"header", "setFence", "copyIn", "submit"} /\ Inside(t)
      /\ thr[t].job = 0
      /\ UNCHANGED <<running, cmdMem, ptrs, oldPackIds, space, jobs, given, closed>>
      /\ Acquire(t) \/ Proceed(t)
  BY DEF updateHeader, setFence, copyIn, SubmitFail, At, command, fences, Inside, Proceed,
         TypeInv, JobsExist
<1>2. \A u \in Threads \ {t} : thr'[u] = thr[u] /\ thr[u].pc \in {"idle", "exec"}
  BY <1>1, OneMoves
<1>3. cmdMem # NoAddr
  BY <1>1 DEF Sound, CmdMemOwned
<1>4. PICK pc \in {"setFence", "copyIn", "submit", "copyOut"} : Leave(t) \/ GoTo(t, pc)
  BY DEF updateHeader, setFence, copyIn, SubmitFail
<1>5. thr'[t].pc \in {"setFence", "copyIn", "submit", "copyOut", "idle"} /\ thr'[t].job = 0
  BY <1>1, <1>4, GoToFacts, IdleFacts DEF Leave, TypeInv, Positions, RunPC
<1>6. JobsInOrder' /\ RunningIsLast' /\ CallsHaveLast'
  BY <1>1, <1>5, PrepareKeepsJobs DEF BuildPC, RunPC
<1>7. \A o \in 1 .. Len(objs) : objs'[o].owner = objs[o].owner
  BY setFenceFacts DEF updateHeader, SubmitFail
<1>8. Own(Lookup(cmdMem)) => Own(Lookup(cmdMem))'
  BY <1>1, <1>7, OwnKept
<1>9. CmdMemOwned'
  BY <1>1, <1>2, <1>3, <1>5, <1>8, CmdMemKept DEF Sound
<1> QED
  BY <1>6, <1>9 DEF Sound

\* The driver accepts: the new job is the last, and all before it are done.
LEMMA SubmitSound ==
  ASSUME ConstantsAssumption, TypeInv, DirtyMarks, Sound, NEW t \in Threads, Submit(t)
  PROVE  Sound'
<1> DEFINE j == Len(jobs) + 1
<1>1. /\ Len(jobs) \in Nat /\ Len(jobs') = j /\ Job' = Job \cup {j}
      /\ \A k \in Job : jobs'[k] = jobs[k]
      /\ jobs'[j] = [mem |-> Lookup(cmdMem), call |-> thr[t].call, state |-> "running",
                     got |-> 0, told |-> FALSE]
      /\ thr[t].pc = "submit" /\ thr[t].call \in Runs
      /\ \/ /\ thr[t].call = "run" /\ thr'[t].pc = "ioctl" /\ thr'[t].job = j
         \/ /\ thr[t].call # "run" /\ thr'[t].pc = "idle" /\ thr'[t].job = 0
  BY SubmitFacts
<1>2. /\ jobs'[j].mem = Lookup(cmdMem) /\ jobs'[j].call = thr[t].call
      /\ jobs'[j].state = "running"
  BY <1>1
<1>3. /\ Inside(t) /\ (Acquire(t) \/ Proceed(t))
      /\ UNCHANGED <<dirty, cmdMem, ptrs, oldPackIds, space, closed>>
      /\ given' = IF thr[t].call = "runFence" THEN given \cup {j} ELSE given
      /\ running' = IF thr[t].call = "runFence" THEN running ELSE TRUE
  BY <1>1 DEF Submit, command, Inside, Proceed
<1>4. \A u \in Threads \ {t} : thr'[u] = thr[u] /\ thr[u].pc \in {"idle", "exec"}
  BY <1>3, OneMoves
<1>5. /\ ~running /\ cmdMem # NoAddr /\ "CMDBUF" \notin dirty
      /\ \A k \in Job : jobs[k].state = "done" /\ (jobs[k].call = "runAsync" => k \in closed)
  BY <1>1 DEF Sound, JobsInOrder, CmdMemOwned, DirtyMarks, RunPC
<1>6. /\ \A o \in 1 .. Len(objs) : objs'[o].owner = objs[o].owner
      /\ thr[t].call # "run" => objs'[Lookup(cmdMem)].fence = j
  BY SubmitObjects
<1>7. Lookup(cmdMem)' = Lookup(cmdMem) /\ (Own(Lookup(cmdMem)) => Own(Lookup(cmdMem))')
  BY <1>3, <1>6, OwnKept DEF Lookup
<1>8. CmdMemOwned'
  BY <1>1, <1>3, <1>4, <1>5, <1>7, CmdMemKept DEF Sound
<1>9. j \notin Job /\ j \notin closed
  BY <1>1 DEF Job, TypeInv, TypeOK
<1>10. JobsInOrder'
  <2>1. \A k \in Job' : k # j =>
           k \in Job /\ jobs'[k].state = "done" /\ (jobs'[k].call = "runAsync" => k \in closed')
    BY <1>1, <1>3, <1>5
  <2>2. ~running' => thr[t].call = "runFence"
    BY <1>3
  <2>3. \A u \in Threads : thr'[u].pc \notin BuildPC \cup RunPC
    BY <1>1, <1>4 DEF BuildPC, RunPC
  <2>4. thr[t].call = "runFence" => \A u \in Threads : thr'[u].pc = "idle"
    BY <1>1, <1>4 DEF TypeInv, OneAtATime
  <2>5. /\ \A k \in given' : jobs'[k].call = "runFence"
        /\ \A k \in Job' : jobs'[k].call = "runFence" => k \in given' \cup closed'
    <3>1. given \subseteq Job
      BY DEF TypeInv, TypeOK
    <3> QED
      BY <1>1, <1>2, <1>3, <1>9, <3>1 DEF Sound, JobsInOrder
  <2>6. \A k \in Job' : jobs'[k].call = "runFence" =>
           jobs'[k].state = "done" \/ thr[t].call = "runFence"
    BY <1>2, <2>1
  <2>7. \A k \in Job' : k # Len(jobs') =>
           jobs'[k].state = "done" /\ (jobs'[k].call = "runAsync" => k \in closed')
    BY <1>1, <2>1
  <2>8. ~running' => \A k \in Job' : /\ jobs'[k].call # "runFence" => jobs'[k].state = "done"
                                     /\ jobs'[k].call = "runAsync" => k \in closed'
    BY <1>2, <2>1, <2>2
  <2>9. \A u \in Threads : thr'[u].pc # "idle" =>
           \A k \in Job' : jobs'[k].call = "runFence" => jobs'[k].state = "done"
    BY <2>4, <2>6
  <2> QED
    BY <2>3, <2>5, <2>7, <2>8, <2>9 DEF JobsInOrder
<1>11. RunningIsLast'
  <2>1. running' => thr[t].call \in {"run", "runAsync"}
    BY <1>1, <1>3, <1>5 DEF Runs
  <2>2. thr[t].call = "run" => thr'[t].pc = "ioctl"
    BY <1>1
  <2>3. Len(jobs') = j /\ j # 0 /\ "CMDBUF" \notin dirty' /\ cmdMem' # NoAddr
    BY <1>1, <1>3, <1>5
  <2>4. /\ jobs'[j].mem = Lookup(cmdMem)' /\ jobs'[j].state # "done"
        /\ jobs'[j].call = "runAsync" => objs'[Lookup(cmdMem)'].fence = j
    BY <1>2, <1>6, <1>7
  <2>5. (\A u \in Threads : thr'[u].pc \notin {"ioctl", "copyOut"}) =>
           (thr[t].call # "run" /\ j \notin closed')
    BY <1>3, <1>9, <2>2
  <2> HIDE DEF j
  <2> QED
    BY <1>2, <2>1, <2>3, <2>4, <2>5 DEF RunningIsLast
<1>12. CallsHaveLast'
  <2>1. /\ thr'[t].pc = "ioctl" => /\ running' /\ thr'[t].job = Len(jobs')
                                   /\ jobs'[Len(jobs')].call = "run"
        /\ thr'[t].pc \notin {"poll", "copyOut"}
    BY <1>1, <1>2, <1>3
  <2>2. \A u \in Threads \ {t} : thr'[u].pc \notin {"ioctl", "poll", "copyOut"}
    BY <1>4
  <2> QED
    BY <2>1, <2>2 DEF CallsHaveLast
<1> QED
  BY <1>8, <1>10, <1>11, <1>12 DEF Sound

\* A call waits for the last job, and copies its output.
LEMMA WaitSound ==
  ASSUME ConstantsAssumption, TypeInv, Sound, NEW t \in Threads,
         SyncDone(t) \/ WaitFails(t) \/ getFence(t) \/ Poll(t)
  PROVE  Sound'
<1>1. /\ thr[t].pc \in {"ioctl", "getFence", "poll"} /\ Inside(t)
      /\ Acquire(t) \/ Proceed(t)
      /\ UNCHANGED <<running, dirty, cmdMem, ptrs, oldPackIds, objs, space, jobs, given>>
      /\ Job' = Job
  BY DEF SyncDone, WaitFails, getFence, Poll, At, command, fences, Inside, Proceed, Job
<1>2. \A u \in Threads \ {t} : thr'[u] = thr[u] /\ thr[u].pc \in {"idle", "exec"}
  BY <1>1, OneMoves
<1>3. thr'[t].pc \in {"poll", "copyOut", "idle"}
  <2>1. getFence(t) \/ Leave(t) \/ GoTo(t, "copyOut")
    BY DEF SyncDone, WaitFails, Poll
  <2> QED
    BY <2>1, getFenceFacts, IdleFacts, GoToFacts DEF Leave, TypeInv, Positions
<1>4. closed \subseteq closed' /\ (closed' = closed \/ Poll(t))
  BY DEF SyncDone, WaitFails, getFence, Poll, fences
<1>5. Own(Lookup(cmdMem))' = Own(Lookup(cmdMem)) /\ Lookup(cmdMem)' = Lookup(cmdMem)
  BY <1>1 DEF Own, Lookup
<1>6. JobsInOrder'
  BY <1>1, <1>2, <1>3, <1>4 DEF Sound, JobsInOrder, BuildPC, RunPC
<1>7. CASE SyncDone(t) \/ Poll(t)
  <2>1. /\ thr[t].pc \in {"ioctl", "poll"} /\ thr'[t].pc = "copyOut"
        /\ thr'[t].job = thr[t].job /\ jobs[thr[t].job].state = "done"
        /\ thr[t].pc = "poll" => thr[t].job \in closed'
    BY <1>7, GoToFacts DEF SyncDone, Poll, At, TypeInv, Positions
  <2>2. /\ running /\ thr[t].job = Len(jobs) /\ Len(jobs) # 0
        /\ jobs[Len(jobs)].call = "runAsync" => thr[t].pc = "poll"
    BY <2>1 DEF Sound, CallsHaveLast, RunningIsLast
  <2>3. cmdMem # NoAddr
    BY <2>2 DEF Sound, RunningIsLast
  <2>4. CmdMemOwned'
    BY <1>1, <1>2, <1>5, <2>1, <2>3, CmdMemKept DEF Sound
  <2>5. RunningIsLast'
    BY <1>1, <1>5, <2>1, <2>2 DEF Sound, RunningIsLast
  <2>6. CallsHaveLast'
    BY <1>1, <1>2, <2>1, <2>2 DEF CallsHaveLast
  <2> QED
    BY <1>6, <2>4, <2>5, <2>6 DEF Sound
<1>8. CASE WaitFails(t) \/ getFence(t)
  <2>1. thr[t].pc = "getFence" /\ closed' = closed
    BY <1>8 DEF WaitFails, getFence, At, fences
  <2>2. \/ thr'[t].pc = "idle"
        \/ /\ thr'[t].pc = "poll" /\ running /\ thr'[t].job = HeaderFence
           /\ HeaderFence = objs[Lookup(cmdMem)].fence
    BY <1>8, getFenceFacts, IdleFacts DEF getFence, WaitFails, Leave, TypeInv
  <2>3. running => /\ jobs[Len(jobs)].call = "runAsync"
                   /\ objs[Lookup(cmdMem)].fence = Len(jobs)
    <3>1. \A u \in Threads : thr[u].pc \notin {"ioctl", "copyOut"}
      BY <1>2, <2>1
    <3> QED
      BY <3>1 DEF Sound, RunningIsLast
  <2>4. CmdMemOwned'
    BY <1>1, <1>2, <1>5, <2>1, <2>2, CmdMemKept DEF Sound
  <2>5. RunningIsLast'
    <3>1. \A u \in Threads : thr[u].pc \notin {"ioctl", "copyOut"}
      BY <1>2, <2>1
    <3> QED
      BY <1>1, <1>5, <2>1, <3>1 DEF Sound, RunningIsLast
  <2>6. CallsHaveLast'
    BY <1>1, <1>2, <2>2, <2>3 DEF CallsHaveLast
  <2> QED
    BY <1>6, <2>4, <2>5, <2>6 DEF Sound
<1> QED
  BY <1>7, <1>8

LEMMA copyOutSound ==
  ASSUME ConstantsAssumption, TypeInv, Sound, NEW t \in Threads, copyOut(t)
  PROVE  Sound'
<1>1. /\ thr[t].pc = "copyOut" /\ Inside(t)
      /\ Acquire(t) \/ Proceed(t)
      /\ UNCHANGED <<cmdMem, ptrs, oldPackIds, objs, space, given, closed>>
  BY DEF copyOut, At, command, fences, Inside, Proceed
<1>2. /\ \A u \in Threads \ {t} : thr'[u] = thr[u] /\ thr[u].pc \in {"idle", "exec"}
      /\ thr'[t].pc = "idle" /\ ~running'
  BY <1>1, OneMoves, copyOutFacts
<1>3. /\ Len(jobs') = Len(jobs) /\ Job' = Job
      /\ \A k \in Job : jobs'[k].call = jobs[k].call /\ jobs'[k].state = jobs[k].state
  BY copyOutFacts
<1>4. \A k \in Job : /\ jobs[k].call # "runFence" => jobs[k].state = "done"
                     /\ jobs[k].call = "runAsync" => k \in closed
  BY <1>1 DEF Sound, JobsInOrder, CallsHaveLast
<1>5. JobsInOrder'
  <2>1. /\ \A j \in Job : j # Len(jobs) =>
             jobs[j].state = "done" /\ (jobs[j].call = "runAsync" => j \in closed)
        /\ \A j \in Job : jobs[j].call = "runFence" => jobs[j].state = "done"
        /\ \A j \in given : jobs[j].call = "runFence"
        /\ \A j \in Job : jobs[j].call = "runFence" => j \in given \cup closed
    BY <1>1 DEF Sound, JobsInOrder
  <2>2. \A u \in Threads : thr'[u].pc \notin BuildPC \cup RunPC
    BY <1>2 DEF BuildPC, RunPC
  <2>3. given \subseteq Job
    BY DEF TypeInv, TypeOK
  <2> QED
    BY <1>1, <1>3, <1>4, <2>1, <2>2, <2>3 DEF JobsInOrder
<1>6. RunningIsLast' /\ CallsHaveLast'
  BY <1>2 DEF RunningIsLast, CallsHaveLast
<1>7. Own(Lookup(cmdMem))' = Own(Lookup(cmdMem))
  BY <1>1 DEF Own, Lookup
<1>8. CmdMemOwned'
  BY <1>1, <1>2, <1>7, CmdMemKept DEF Sound
<1> QED
  BY <1>5, <1>6, <1>8 DEF Sound

\* Nobody runs the command while its callers change, build or delete it.
LEMMA QuietNotRunning ==
  ASSUME TypeInv, Sound, Quiet
  PROVE  ~running
<1>1. ASSUME running PROVE FALSE
  <2>1. /\ jobs[Len(jobs)].call = "runAsync" /\ Len(jobs) \notin closed
        /\ Len(jobs) # 0
    BY <1>1 DEF Quiet, Sound, RunningIsLast
  <2>2. Len(jobs) \in Job
    BY <2>1, LenProperties DEF Job, TypeInv, TypeOK
  <2> QED
    BY <2>1, <2>2 DEF Quiet
<1> QED
  BY <1>1

LEMMA CallSound ==
  ASSUME ConstantsAssumption, TypeInv, Sound, NEW t \in Threads, NEW c \in Calls, Call(t, c)
  PROVE  Sound'
<1>1. /\ UNCHANGED <<running, dirty, cmdMem, ptrs, oldPackIds, objs, space, jobs, given, closed>>
      /\ Job' = Job
  BY DEF Call, command, fences, Job
<1>2. /\ thr[t].pc = "idle" /\ thr'[t].pc = (IF c = "build" THEN "mtx" ELSE "exec")
      /\ \A u \in Threads \ {t} : thr'[u] = thr[u]
  BY CallFacts
<1>3. Own(Lookup(cmdMem))' = Own(Lookup(cmdMem)) /\ Lookup(cmdMem)' = Lookup(cmdMem)
  BY <1>1 DEF Own, Lookup
<1>4. CmdMemOwned'
  BY <1>1, <1>2, <1>3, CmdMemKept DEF Sound, CmdMemOwned
<1>5. JobsInOrder'
  <2>1. c = "build" => ~running /\ \A j \in Job : jobs[j].state = "done"
    BY QuietNotRunning DEF Call, MayCall, Quiet
  <2>2. \A j \in Job : jobs[j].call = "runFence" => jobs[j].state = "done"
    BY DEF Call, MayCall, Quiet
  <2> QED
    BY <1>1, <1>2, <2>1, <2>2 DEF Sound, JobsInOrder, BuildPC, RunPC
<1>6. RunningIsLast'
  <2>1. (\A u \in Threads : thr'[u].pc \notin {"ioctl", "copyOut"}) =>
           (\A u \in Threads : thr[u].pc \notin {"ioctl", "copyOut"})
    BY <1>2
  <2> QED
    BY <1>1, <1>3, <2>1 DEF Sound, RunningIsLast
<1>7. CallsHaveLast'
  BY <1>1, <1>2 DEF Sound, CallsHaveLast
<1> QED
  BY <1>4, <1>5, <1>6, <1>7 DEF Sound

\* The callers change the command.
LEMMA SettersSound ==
  ASSUME ConstantsAssumption, TypeInv, Sound, addCmdBuf \/ setDependency \/ (\E p \in SetParams : setParam(p))
  PROVE  Sound'
<1>1. /\ UNCHANGED <<thr, running, cmdMem, ptrs, oldPackIds, objs, space, jobs, given, closed>>
      /\ Job' = Job /\ ~running
  BY QuietNotRunning DEF addCmdBuf, setDependency, setParam, fences, Job
<1>2. Own(Lookup(cmdMem))' = Own(Lookup(cmdMem))
  BY <1>1 DEF Own, Lookup
<1>3. CmdMemOwned'
  BY <1>1, <1>2 DEF Sound, CmdMemOwned
<1>4. JobsInOrder' /\ RunningIsLast' /\ CallsHaveLast'
  BY <1>1 DEF Sound, JobsInOrder, RunningIsLast, CallsHaveLast
<1> QED
  BY <1>3, <1>4 DEF Sound

\* The driver ends the job under way, which is the last.
LEMMA CompleteSound ==
  ASSUME ConstantsAssumption, TypeInv, Sound, NEW j \in Job, Complete(j)
  PROVE  Sound'
<1>1. /\ UNCHANGED <<thr, running, dirty, cmdMem, ptrs, oldPackIds, space, given, closed>>
      /\ jobs[j].state = "running"
  BY DEF Complete, command, fences
<1>2. /\ Len(jobs') = Len(jobs) /\ Job' = Job
      /\ \A k \in Job : /\ jobs'[k].mem = jobs[k].mem /\ jobs'[k].call = jobs[k].call
                        /\ jobs'[k].state = IF k = j THEN "done" ELSE jobs[k].state
      /\ \A o \in 1 .. Len(objs) :
           /\ objs'[o].owner = objs[o].owner /\ objs'[o].fence = objs[o].fence
           /\ objs'[o].out = IF o = jobs[j].mem THEN j ELSE objs[o].out
  BY CompleteFacts
<1>3. j = Len(jobs)
  BY <1>1 DEF Sound, JobsInOrder
<1>4. /\ Own(Lookup(cmdMem)) => Own(Lookup(cmdMem))'
      /\ Lookup(cmdMem)' = Lookup(cmdMem)
  BY <1>1, <1>2, OwnKept DEF Lookup
<1>5. CmdMemOwned'
  <2>1. \A t \in Threads :
          thr[t].pc \in {"free", "clear", "construct", "reset", "header", "setFence",
                         "copyIn", "submit", "copyOut"} => cmdMem # NoAddr
    BY DEF Sound, CmdMemOwned
  <2> QED
    BY <1>1, <1>4, <2>1, CmdMemKept DEF Sound, CmdMemOwned
<1>6. JobsInOrder'
  <2>1. \A k \in Job : /\ jobs'[k].call = jobs[k].call
                       /\ jobs[k].state = "done" => jobs'[k].state = "done"
    BY <1>2
  <2>2. given \subseteq Job
    BY DEF TypeInv, TypeOK
  <2> QED
    BY <1>1, <1>2, <2>1, <2>2 DEF Sound, JobsInOrder
<1>7. RunningIsLast'
  <2>1. running => Lookup(cmdMem) \in 1 .. Len(objs)
    <3>1. running => jobs[Len(jobs)].mem = Lookup(cmdMem)
      BY DEF Sound, RunningIsLast
    <3>2. jobs[Len(jobs)].mem # 0
      BY <1>3, CompleteFacts
    <3>3. cmdMem \in Addr \cup {NoAddr}
      BY DEF TypeInv, TypeOK
    <3> QED
      BY <3>1, <3>2, <3>3, LookupTyped DEF TypeInv
  <2> QED
    BY <1>1, <1>2, <1>3, <1>4, <2>1 DEF Sound, RunningIsLast
<1>8. CallsHaveLast'
  BY <1>1, <1>2, <1>3 DEF Sound, CallsHaveLast
<1> QED
  BY <1>5, <1>6, <1>7, <1>8 DEF Sound

\* The caller of runFence() closes the fence it was given.
LEMMA CloseSound ==
  ASSUME ConstantsAssumption, TypeInv, Sound, NEW j \in Job, CallerClose(j)
  PROVE  Sound'
<1>1. /\ UNCHANGED <<thr, running, dirty, cmdMem, ptrs, oldPackIds, objs, space, jobs>>
      /\ j \in given /\ given' = given \ {j} /\ closed' = closed \cup {j} /\ Job' = Job
  BY DEF CallerClose, command, Job
<1>2. Own(Lookup(cmdMem))' = Own(Lookup(cmdMem)) /\ Lookup(cmdMem)' = Lookup(cmdMem)
  BY <1>1 DEF Own, Lookup
<1>3. CmdMemOwned'
  BY <1>1, <1>2 DEF Sound, CmdMemOwned
<1>4. JobsInOrder'
  BY <1>1 DEF Sound, JobsInOrder
<1>5. RunningIsLast'
  <2>1. jobs[j].call = "runFence"
    BY <1>1 DEF Sound, JobsInOrder
  <2> QED
    BY <1>1, <1>2, <2>1 DEF Sound, RunningIsLast
<1>6. CallsHaveLast'
  BY <1>1 DEF Sound, CallsHaveLast
<1> QED
  BY <1>3, <1>4, <1>5, <1>6 DEF Sound

\* The others allocate where nothing is and free what is theirs.
LEMMA OthersSound ==
  ASSUME ConstantsAssumption, TypeInv, Sound, NEW a \in Addr, OtherAlloc(a) \/ OtherFree(a)
  PROVE  Sound'
<1>1. /\ UNCHANGED <<thr, running, dirty, cmdMem, ptrs, oldPackIds, jobs, given, closed>>
      /\ Job' = Job
  BY DEF OtherAlloc, OtherFree, command, fences, Job
<1>2. \A o \in 1 .. Len(objs) : objs'[o] = objs[o]
  BY NewObjectFacts DEF OtherAlloc, OtherFree
<1>3. Own(Lookup(cmdMem)) => /\ Own(Lookup(cmdMem))'
                             /\ Lookup(cmdMem)' = Lookup(cmdMem)
                             /\ Lookup(cmdMem) \in 1 .. Len(objs)
  <2>1. ASSUME Own(Lookup(cmdMem))
        PROVE  /\ Own(Lookup(cmdMem))'
               /\ Lookup(cmdMem)' = Lookup(cmdMem)
               /\ Lookup(cmdMem) \in 1 .. Len(objs)
    <3>1. /\ cmdMem \in Addr /\ Lookup(cmdMem) \in 1 .. Len(objs)
          /\ Lookup(cmdMem) = space[cmdMem] /\ space[cmdMem] # 0
          /\ objs[space[cmdMem]].owner = "command"
      <4>1. cmdMem \in Addr \cup {NoAddr} /\ Lookup(cmdMem) # 0
        BY <2>1 DEF Own, TypeInv, TypeOK
      <4>2. cmdMem \in Addr /\ Lookup(cmdMem) \in 1 .. Len(objs)
        BY <4>1, LookupTyped DEF TypeInv
      <4> QED
        BY <2>1, <4>2 DEF Own, Lookup, ConstantsAssumption
    <3>2. a # cmdMem
      BY <3>1 DEF OtherAlloc, OtherFree, NewObject
    <3>3. space'[cmdMem] = space[cmdMem]
      BY <3>1, <3>2 DEF OtherAlloc, OtherFree, NewObject, TypeInv, TypeOK
    <3> QED
      BY <1>1, <1>2, <2>1, <3>1, <3>3, OwnKept
  <2> QED
    BY <2>1
<1>4. CmdMemOwned'
  BY <1>1, <1>3 DEF Sound, CmdMemOwned
<1>5. JobsInOrder'
  BY <1>1 DEF Sound, JobsInOrder
<1>6. RunningIsLast'
  <2>1. running => Own(Lookup(cmdMem))
    BY DEF Sound, RunningIsLast, JobsInOrder, CmdMemOwned, BuildPC
  <2> QED
    BY <1>1, <1>2, <1>3, <2>1 DEF Sound, RunningIsLast
<1>7. CallsHaveLast'
  BY <1>1 DEF Sound, CallsHaveLast
<1> QED
  BY <1>4, <1>5, <1>6, <1>7 DEF Sound

\* What went before a state that is alive, and without a refused build().
LEMMA AliveBefore ==
  ASSUME [Next]_vars
  PROVE  /\ refused => refused'
         /\ alive' => alive
         /\ ~alive => UNCHANGED vars
<1>1. alive \/ UNCHANGED vars
  BY DEF Next, Acquire, Proceed, At, LockExec, Refuse, LockMtx, preExec, FreeOld, FreeUnknown,
         ClearOld, AllocFail, Alloc, Construct, ConstructRefuses, ResetDirty, updateHeader,
         setFence, copyIn, Submit, SubmitFail, SyncDone, WaitFails, getFence, Poll, copyOut,
         addCmdBuf, setDependency, setParam, Delete, Complete, CallerClose, OtherAlloc, OtherFree,
         Gone, Call
<1>2. refused => refused'
  <2>1. CASE \E t \in Threads : FreeUnknown(t) \/ AllocFail(t) \/ ConstructRefuses(t) \/ ResetDirty(t)
    BY <2>1 DEF FreeUnknown, AllocFail, ConstructRefuses, ResetDirty, AfterBuild
  <2>2. CASE refused' = refused
    BY <2>2
  <2> QED
    BY <2>1, <2>2 DEF Next, Acquire, Proceed, LockExec, Refuse, LockMtx, preExec, FreeOld,
         ClearOld, Alloc, Construct, updateHeader, setFence, copyIn, Submit, SubmitFail, SyncDone,
         WaitFails, getFence, Poll, copyOut, addCmdBuf, setDependency, setParam, Delete, Complete,
         CallerClose, OtherAlloc, OtherFree, Gone, Call, vars, command
<1> QED
  BY <1>1, <1>2 DEF vars

LEMMA SoundStep ==
  ASSUME ConstantsAssumption, TypeInv, DirtyMarks, SoundInv, [Next]_vars
  PROVE  SoundInv'
<1> SUFFICES ASSUME alive', ~refused' PROVE Sound'
  BY DEF SoundInv
<1>1. alive /\ ~refused /\ Sound
  BY AliveBefore DEF SoundInv
<1>2. CASE \E t \in Threads : Acquire(t) \/ Proceed(t)
  <2>1. PICK t \in Threads : Acquire(t) \/ Proceed(t)
    BY <1>2
  <2>2. CASE LockExec(t) \/ Refuse(t) \/ preExec(t)
    BY <1>1, <2>2, EnterSound
  <2>3. CASE LockMtx(t) \/ FreeOld(t) \/ ClearOld(t) \/ Construct(t)
    BY <1>1, <2>3, BuildSound
  <2>4. CASE FreeUnknown(t) \/ AllocFail(t) \/ ConstructRefuses(t) \/ ResetDirty(t)
    BY <1>1, <2>4, BuildEndsSound
  <2>5. CASE \E a \in Addr : Alloc(t, a)
    BY <1>1, <2>5, AllocSound
  <2>6. CASE updateHeader(t) \/ setFence(t) \/ copyIn(t) \/ SubmitFail(t)
    BY <1>1, <2>6, PrepareSound
  <2>7. CASE Submit(t)
    BY <1>1, <2>7, SubmitSound
  <2>8. CASE SyncDone(t) \/ WaitFails(t) \/ getFence(t) \/ Poll(t)
    BY <1>1, <2>8, WaitSound
  <2>9. CASE copyOut(t)
    BY <1>1, <2>9, copyOutSound
  <2> QED
    BY <2>1, <2>2, <2>3, <2>4, <2>5, <2>6, <2>7, <2>8, <2>9 DEF Acquire, Proceed
<1>3. CASE \E t \in Threads : \E c \in Calls : Call(t, c)
  BY <1>1, <1>3, CallSound
<1>4. CASE addCmdBuf \/ setDependency \/ (\E p \in SetParams : setParam(p))
  BY <1>1, <1>4, SettersSound
<1>5. CASE \E j \in Job : Complete(j) \/ CallerClose(j)
  BY <1>1, <1>5, CompleteSound, CloseSound
<1>6. CASE \E a \in Addr : OtherAlloc(a) \/ OtherFree(a)
  BY <1>1, <1>6, OthersSound
<1>7. CASE Delete
  BY <1>7 DEF Delete
<1>8. CASE Gone \/ UNCHANGED vars
  <2>1. UNCHANGED <<thr, running, dirty, cmdMem, ptrs, oldPackIds, objs, space, jobs, given, closed>>
    BY <1>8 DEF Gone, vars, command, fences
  <2> QED
    BY <1>1, <2>1 DEF Sound, CmdMemOwned, JobsInOrder, RunningIsLast, CallsHaveLast, Own, Lookup, Job
<1> QED
  BY <1>2, <1>3, <1>4, <1>5, <1>6, <1>7, <1>8 DEF Next

-----------------------------------------------------------------------------
LEMMA SoundAlways == Spec => [](TypeInv /\ DirtyMarks /\ SoundInv)
<1>1. Init => DirtyMarks /\ SoundInv
  <2>1. Init => DirtyMarks
    BY DEF Init, Idle, DirtyMarks
  <2>2. Init => Sound
    BY DEF Init, Idle, Sound, CmdMemOwned, JobsInOrder, RunningIsLast, CallsHaveLast, Job, Lookup,
           Own, BuildPC, RunPC
  <2> QED
    BY <2>1, <2>2 DEF SoundInv
<1>2. TypeInv /\ DirtyMarks /\ SoundInv /\ [Next]_vars => DirtyMarks' /\ SoundInv'
  BY ParamsStep, SoundStep, ConstantsAssumption
<1> QED
  BY <1>1, <1>2, TypeAlways, PTL DEF Spec

(* No fence is lost: that of runAsync() stays in the header, with the       *)
(* command marked running, until wait() closes it.                          *)
THEOREM FenceStays == Spec => []FenceKept
<1>1. TypeInv /\ SoundInv => FenceKept
  <2> SUFFICES ASSUME TypeInv, Sound, NEW j \in Job \ (given \cup closed), jobs[j].call # "run"
               PROVE  jobs[j].call = "runAsync" /\ running /\ HeaderFence = j
    BY DEF SoundInv, FenceKept
  <2>1. /\ jobs \in Seq(JobRecord) /\ j \in 1 .. Len(jobs) /\ Len(jobs) \in Nat
        /\ jobs[j] \in JobRecord
    BY LenProperties, ElementOfSeq DEF TypeInv, TypeOK, Job
  <2>2. jobs[j].call = "runAsync"
    BY <2>1 DEF JobRecord, Sound, JobsInOrder
  <2>3. j = Len(jobs) /\ running
    BY <2>2 DEF Sound, JobsInOrder
  <2>4. jobs[j].mem = Lookup(cmdMem) /\ objs[Lookup(cmdMem)].fence = j
    BY <2>2, <2>3 DEF Sound, RunningIsLast
  <2>5. jobs[j].mem # 0
    BY <2>1, ConstantsAssumption DEF JobRecord, ConstantsAssumption
  <2> QED
    BY <2>2, <2>3, <2>4, <2>5 DEF HeaderFence
<1> QED
  BY <1>1, SoundAlways, PTL

\* A thread that is not in build(), or past it, finds the memory owned.
LEMMA MemoryAtHand ==
  ASSUME TypeInv, Sound, NEW t \in Threads, Inside(t), cmdMem # NoAddr
  PROVE  /\ thr[t].pc # "clear" => Own(Lookup(cmdMem))
         /\ thr[t].pc \notin {"clear", "construct"} => ptrs = cmdMem
  BY OneInside DEF Sound, CmdMemOwned

LEMMA MemoryStep ==
  ASSUME ConstantsAssumption, TypeInv, SoundInv, MemoryOwned, [Next]_vars
  PROVE  MemoryOwned'
<1> SUFFICES ASSUME ~refused' PROVE harm' = {}
  BY DEF MemoryOwned
<1>1. ~refused /\ harm = {}
  BY AliveBefore DEF MemoryOwned
<1>2. CASE ~alive
  BY <1>1, <1>2, AliveBefore DEF vars
<1>3. CASE alive
  <2>1. Sound
    BY <1>1, <1>3 DEF SoundInv
  <2>2. CASE \E t \in Threads : FreeOld(t) \/ setFence(t)
    <3>1. PICK t \in Threads : FreeOld(t) \/ setFence(t)
      BY <2>2
    <3>2. thr[t].pc \in {"free", "setFence"} /\ Inside(t)
      BY <3>1 DEF FreeOld, setFence, At, Inside
    <3>3. cmdMem # NoAddr
      BY <2>1, <3>2 DEF Sound, CmdMemOwned
    <3>4. Own(Lookup(cmdMem))
      BY <2>1, <3>2, <3>3, MemoryAtHand
    <3> QED
      BY <1>1, <3>1, <3>4 DEF FreeOld, setFence
  <2>3. CASE \E t \in Threads : updateHeader(t) \/ copyIn(t) \/ copyOut(t)
    <3>1. PICK t \in Threads : updateHeader(t) \/ copyIn(t) \/ copyOut(t)
      BY <2>3
    <3>2. thr[t].pc \in {"header", "copyIn", "copyOut"} /\ Inside(t)
      BY <3>1 DEF updateHeader, copyIn, copyOut, At, Inside
    <3>3. cmdMem # NoAddr
      BY <2>1, <3>2 DEF Sound, CmdMemOwned
    <3>4. Own(Lookup(cmdMem)) /\ ptrs = cmdMem
      BY <2>1, <3>2, <3>3, MemoryAtHand
    <3>5. PICK A \in {{cmdMem, ptrs}, {ptrs}} : Access(A) \/ NoAccess
      BY <3>1 DEF updateHeader, copyIn, copyOut
    <3>6. CASE NoAccess
      BY <1>1, <3>6 DEF NoAccess
    <3>7. CASE Access(A)
      <4>1. {b \in A : ~Own(Lookup(b))} = {}
        BY <3>4, <3>5
      <4> QED
        BY <1>1, <3>7, <4>1 DEF Access
    <3> QED
      BY <3>5, <3>6, <3>7
  <2>4. CASE Delete
    <3>1. \A t \in Threads : thr[t].pc = "idle"
      BY <2>4 DEF Delete
    <3>2. cmdMem # NoAddr => Own(Lookup(cmdMem))
      BY <2>1, <3>1 DEF Sound, CmdMemOwned
    <3> QED
      BY <1>1, <2>4, <3>2 DEF Delete, Lookup
  <2>5. CASE UNCHANGED harm
    BY <1>1, <2>5
  <2> QED
    BY <2>2, <2>3, <2>4, <2>5 DEF Next, Acquire, Proceed, LockExec, Refuse, LockMtx, preExec,
         FreeUnknown, ClearOld, AllocFail, Alloc, Construct, ConstructRefuses, ResetDirty, Submit,
         SubmitFail, SyncDone, WaitFails, getFence, Poll, addCmdBuf, setDependency, setParam,
         Complete, CallerClose, OtherAlloc, OtherFree, Gone, Call, vars
<1> QED
  BY <1>2, <1>3

(* Before a build() is refused the command frees, reads and writes its own  *)
(* memory only: no store goes through mCmdMem or mSuBCmdBufPtr while they   *)
(* are addresses the session may have given to others.                      *)
THEOREM OwnMemoryOnly == Spec => []MemoryOwned
<1>1. Init => MemoryOwned
  BY DEF Init, MemoryOwned
<1>2. TypeInv /\ SoundInv /\ MemoryOwned /\ [Next]_vars => MemoryOwned'
  BY MemoryStep, ConstantsAssumption
<1> QED
  BY <1>1, <1>2, SoundAlways, PTL DEF Spec

LEMMA OutputStep ==
  ASSUME ConstantsAssumption, TypeInv, DirtyMarks, SoundInv, OutputDelivered, [Next]_vars
  PROVE  OutputDelivered'
<1> SUFFICES ASSUME ~refused', NEW j \in Job', jobs'[j].told
             PROVE  jobs'[j].state = "done" /\ jobs'[j].got = j
  BY DEF OutputDelivered
<1>1. ~refused /\ \A k \in Job : jobs[k].told => jobs[k].state = "done" /\ jobs[k].got = k
  BY AliveBefore DEF OutputDelivered
<1>2. CASE ~alive
  BY <1>1, <1>2, AliveBefore DEF vars, Job
<1>3. CASE alive
  <2>1. Sound
    BY <1>1, <1>3 DEF SoundInv
  <2>2. CASE \E t \in Threads : copyOut(t)
    <3>1. PICK t \in Threads : copyOut(t)
      BY <2>2
    <3>2. /\ thr[t].pc = "copyOut" /\ Inside(t) /\ Job' = Job
          /\ \A k \in Job : k # thr[t].job => jobs'[k] = jobs[k]
          /\ \A k \in Job : jobs'[k].state = jobs[k].state
          /\ thr[t].job # 0 => jobs'[thr[t].job].got =
               IF longer \/ ptrs = NoAddr \/ Lookup(ptrs) = 0 THEN 0 ELSE objs[Lookup(ptrs)].out
      BY <3>1, copyOutFacts DEF Inside
    <3>3. CASE j # thr[t].job
      BY <1>1, <3>2, <3>3
    <3>4. CASE j = thr[t].job
      <4>1. /\ j \in 1 .. Len(jobs) /\ Len(jobs) \in Nat /\ j # 0
            /\ jobs[j] \in JobRecord /\ jobs[j].mem # 0
        <5>1. jobs \in Seq(JobRecord) /\ j \in 1 .. Len(jobs) /\ Len(jobs) \in Nat
          BY <3>2, LenProperties DEF TypeInv, TypeOK, Job
        <5>2. jobs[j] \in JobRecord
          BY <5>1, ElementOfSeq
        <5> QED
          BY <5>1, <5>2 DEF JobRecord, ConstantsAssumption
      <4>2. running /\ j = Len(jobs) /\ jobs[j].state = "done"
        BY <2>1, <3>2, <3>4, <4>1 DEF Sound, CallsHaveLast
      <4>3. /\ cmdMem # NoAddr /\ "CMDBUF" \notin dirty
            /\ jobs[j].mem = Lookup(cmdMem) /\ objs[Lookup(cmdMem)].out = j
        BY <2>1, <4>2 DEF Sound, RunningIsLast
      <4>4. ptrs = cmdMem
        BY <2>1, <3>2, <4>3, MemoryAtHand
      <4>5. ~longer
        BY <4>3 DEF DirtyMarks
      <4> QED
        BY <3>2, <3>4, <4>1, <4>2, <4>3, <4>4, <4>5
    <3> QED
      BY <3>3, <3>4
  <2>3. CASE \E t \in Threads : Submit(t)
    <3>1. PICK t \in Threads : Submit(t)
      BY <2>3
    <3>2. /\ Job' = Job \cup {Len(jobs) + 1}
          /\ \A k \in Job : jobs'[k] = jobs[k]
          /\ ~jobs'[Len(jobs) + 1].told
      <4>1. jobs'[Len(jobs) + 1] =
              [mem |-> Lookup(cmdMem), call |-> thr[t].call, state |-> "running",
               got |-> 0, told |-> FALSE]
        BY <3>1, SubmitFacts
      <4>2. ~jobs'[Len(jobs) + 1].told
        BY <4>1
      <4> QED
        BY <3>1, <4>2, SubmitFacts
    <3> QED
      BY <1>1, <3>2
  <2>4. CASE \E k \in Job : Complete(k)
    <3>1. PICK k \in Job : Complete(k)
      BY <2>4
    <3> QED
      BY <1>1, <3>1, CompleteFacts
  <2>5. CASE UNCHANGED jobs
    BY <1>1, <2>5 DEF Job
  <2> QED
    BY <2>2, <2>3, <2>4, <2>5 DEF Next, Acquire, Proceed, LockExec, Refuse, LockMtx, preExec,
         FreeOld, FreeUnknown, ClearOld, AllocFail, Alloc, Construct, ConstructRefuses, ResetDirty,
         updateHeader, setFence, copyIn, SubmitFail, SyncDone, WaitFails, getFence, Poll,
         addCmdBuf, setDependency, setParam, CallerClose, OtherAlloc, OtherFree, Delete, Gone,
         Call, vars
<1> QED
  BY <1>2, <1>3

(* When run() or wait() return, the caller's buffers hold the output of the *)
(* very run they were called for, however many runs came before.            *)
THEOREM OwnOutputDelivered == Spec => []OutputDelivered
<1>1. Init => OutputDelivered
  BY DEF Init, OutputDelivered, Job
<1>2. TypeInv /\ DirtyMarks /\ SoundInv /\ OutputDelivered /\ [Next]_vars => OutputDelivered'
  BY OutputStep, ConstantsAssumption
<1> QED
  BY <1>1, <1>2, SoundAlways, PTL DEF Spec

=============================================================================
