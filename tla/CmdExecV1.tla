----------------------------- MODULE CmdExecV1 -----------------------------
(***************************************************************************)
(* Execution of one apusysCmd_v1, the command of the first driver, by      *)
(* several threads: build, run, runAsync, wait, runFence, the destructor,  *)
(* the setters that mark the command dirty, and other users of the         *)
(* session's memory.                                                       *)
(*                                                                         *)
(* The calls that execute hold mExecMtx from start to end, also while they *)
(* sleep; build() holds mMtx.  The pointers into the command memory        *)
(* (mCmdMem, mSuBCmdBufPtr) are host addresses that another allocation may *)
(* get after the memory was freed.                                         *)
(*                                                                         *)
(* memAlloc(), memFree() and memGetObj() of the session are one step each. *)
(* A job number stands for the fence fd of the job too; the driver stores  *)
(* it in the header of the submitted memory.                               *)
(***************************************************************************)
EXTENDS Naturals, Sequences

\* What setParam() may set and the header has a place for: priority, limits and
\* user id, and whether to save power.
Params == {"LIMITS", "POWERSAVE"}

CONSTANTS Threads,
          Addr,             \* host addresses ion_mmap() chooses from
          MaxObj,           \* bound on allocations
          MaxJobs,          \* bound on accepted submissions
          AllocMayFail,     \* the session may run out of memory
          SetParams,        \* parameters callers set after the command was made
          NoThread, NoAddr

ASSUME ConstantsAssumption == /\ MaxObj \in Nat
                              /\ MaxJobs \in Nat
                              /\ AllocMayFail \in BOOLEAN
                              /\ SetParams \subseteq Params
                              /\ NoThread \notin Threads
                              /\ NoAddr \notin Addr

VARIABLES execMtx, mtx,     \* owners of mExecMtx and mMtx
          running,          \* mIsRunning
          dirty,            \* mDirty
          cmdMem,           \* mCmdMem
          ptrs,             \* address mSuBCmdHdrPtr and mSuBCmdBufPtr point to
          longer,           \* a sub-command has more buffers than pointers
          oldPackIds,       \* mModifiedPackIdList was filled by an earlier build
          oldHeader,        \* parameters whose value the header lacks
          lateSave,         \* history: power save is lacking since no build was due
          objs,             \* memory allocated so far: owner, and what it holds:
                            \* fence fd of the header, job whose output it is
          space,            \* the object at a host address, 0: none; mMemMap too
          jobs,             \* accepted submissions
          given, closed,    \* jobs whose fence the caller of runFence has; closed
          refused,          \* a build() failed although memory was there
          harm,             \* accesses outside the command's own memory
          thr,              \* per thread: position and locals of the current call
          alive             \* neither deleted nor dead of an invalid access

locks   == <<execMtx, mtx>>
command == <<dirty, cmdMem, ptrs, longer, oldPackIds, oldHeader, lateSave, refused>>
fences  == <<given, closed>>
vars    == <<locks, running, command, objs, space, jobs, fences, harm, thr, alive>>

Calls == {"build", "run", "runAsync", "wait", "runFence"}
Job   == 1 .. Len(jobs)
Idle  == [pc |-> "idle", call |-> "wait", job |-> 0]

At(t, pc)   == alive /\ thr[t].pc = pc
GoTo(t, pc) == thr' = [thr EXCEPT ![t].pc = pc]

\* The object memGetObj() finds.
Lookup(a) == IF a = NoAddr THEN 0 ELSE space[a]
Own(o)    == o # 0 /\ objs[o].owner = "command"

\* The fence getFence() reads from the header, 0 when there is none.
HeaderFence == IF Lookup(cmdMem) = 0 THEN 0 ELSE objs[Lookup(cmdMem)].fence

\* Accesses through pointers the code does not check.
Access(A) == /\ harm' = harm \cup {IF Lookup(a) = 0 THEN "fault" ELSE "foreign" :
                                    a \in {b \in A : ~Own(Lookup(b))}}
             /\ alive' = (\A a \in A : Lookup(a) # 0)
NoAccess  == UNCHANGED <<harm, alive>>

-----------------------------------------------------------------------------
\* What the callers refrain from: they modify, parameterise and build the
\* command only while nothing uses it, and run it when a fence they got from
\* runFence() is out only after that job ended.
Quiet == /\ \A t \in Threads : thr[t].pc = "idle"
         /\ \A j \in Job : jobs[j].state = "done" /\ (jobs[j].call = "runAsync" => j \in closed)

MayCall(c) ==
  \/ c \in {"build", "runFence"} /\ Quiet
  \/ /\ c \in {"run", "runAsync", "wait"}
     /\ \A t \in Threads : thr[t].call \notin {"build", "runFence"}
     /\ \A j \in Job : jobs[j].call = "runFence" => jobs[j].state = "done"

addCmdBuf == /\ alive /\ Quiet
             /\ dirty' = dirty \cup {"CMDBUF"}
             /\ longer' = TRUE
             /\ UNCHANGED <<locks, running, cmdMem, ptrs, oldPackIds, oldHeader, lateSave,
                            refused, objs, space, jobs, fences, harm, thr, alive>>

setDependency == /\ alive /\ Quiet /\ mtx = NoThread
                 /\ dirty' = dirty \cup {"CMDBUF"}
                 /\ UNCHANGED <<locks, running, cmdMem, ptrs, longer, oldPackIds, oldHeader,
                                lateSave, refused, objs, space, jobs, fences, harm, thr,
                                alive>>

\* A parameter gets a value the header lacks.  Power save is on or off, so that
\* it may also get back the value of the header, once there is one.
setParam(p) ==
  /\ alive /\ Quiet
  /\ dirty' = dirty \cup {"PARAMETER"}
  /\ \/ oldHeader' = oldHeader \cup {p}
     \/ /\ p = "POWERSAVE" /\ ptrs # NoAddr
        /\ oldHeader' = oldHeader \ {p}
  /\ lateSave' = ("POWERSAVE" \in oldHeader'
                   /\ (lateSave \/ (p = "POWERSAVE" /\ "CMDBUF" \notin dirty)))
  /\ UNCHANGED <<locks, running, cmdMem, ptrs, longer, oldPackIds, refused,
                 objs, space, jobs, fences, harm, thr, alive>>

Call(t, c) ==
  /\ At(t, "idle") /\ MayCall(c)
  /\ thr' = [thr EXCEPT ![t] = [pc |-> IF c = "build" THEN "mtx" ELSE "exec",
                                call |-> c, job |-> 0]]
  /\ UNCHANGED <<locks, running, command, objs, space, jobs, fences, harm, alive>>

\* The end of an executing call: mutexLock is released.
Leave(t) == thr' = [thr EXCEPT ![t] = Idle] /\ execMtx' = NoThread

-----------------------------------------------------------------------------
\* run(), runAsync(), runFence(): refuse a command that is running.
mustRefuseNever(c) == FALSE

mustRefuse(c) == c # "wait" /\ running

LockExecShared(t) == /\ At(t, "exec") /\ ~mustRefuse(thr[t].call)
                     /\ execMtx' = t
                     /\ GoTo(t, IF thr[t].call = "wait" THEN "getFence" ELSE "preExec")
                     /\ UNCHANGED <<mtx, running, command, objs, space, jobs, fences, harm, alive>>

LockExec(t) == /\ At(t, "exec") /\ execMtx = NoThread /\ ~mustRefuse(thr[t].call)
               /\ execMtx' = t
               /\ GoTo(t, IF thr[t].call = "wait" THEN "getFence" ELSE "preExec")
               /\ UNCHANGED <<mtx, running, command, objs, space, jobs, fences, harm, alive>>

RefuseRetries(t) == /\ At(t, "exec") /\ execMtx = NoThread /\ mustRefuse(thr[t].call)
                    /\ UNCHANGED vars

Refuse(t) == /\ At(t, "exec") /\ execMtx = NoThread /\ mustRefuse(thr[t].call)
             /\ thr' = [thr EXCEPT ![t] = Idle]
             /\ UNCHANGED <<locks, running, command, objs, space, jobs, fences, harm, alive>>

needsBuild == cmdMem = NoAddr \/ "CMDBUF" \in dirty

preExec(t) == /\ At(t, "preExec")
              /\ GoTo(t, IF needsBuild THEN "mtx" ELSE "header")
              /\ UNCHANGED <<locks, running, command, objs, space, jobs, fences, harm, alive>>

-----------------------------------------------------------------------------
\* build(), called by the user or by preExec().  updateModifiedInfo() appends
\* the pack ids to a list that nothing ever clears.
LockMtx(t) == /\ At(t, "mtx") /\ mtx = NoThread
              /\ mtx' = t
              /\ GoTo(t, IF cmdMem = NoAddr THEN "alloc" ELSE "free")
              /\ UNCHANGED <<execMtx, running, command, objs, space, jobs, fences, harm, alive>>

\* Where a call goes on after build(), which unlocks mMtx.
AfterBuild(t, result) ==
  /\ refused' = (refused \/ result = "refused")
  /\ mtx' = NoThread
  /\ IF thr[t].call = "build"  THEN thr' = [thr EXCEPT ![t] = Idle] /\ UNCHANGED execMtx
     ELSE IF result # "ok" THEN Leave(t)
     ELSE GoTo(t, "header") /\ UNCHANGED execMtx

\* memFree(mCmdMem): an address the session does not know ends the build;
\* one that somebody else got meanwhile is freed.
FreeOld(t) ==
  /\ At(t, "free") /\ Lookup(cmdMem) # 0
  /\ harm' = IF Own(Lookup(cmdMem)) THEN harm ELSE harm \cup {"foreign"}
  /\ space' = [space EXCEPT ![cmdMem] = 0]
  /\ GoTo(t, "clear")
  /\ UNCHANGED <<locks, running, command, objs, jobs, fences, alive>>

FreeUnknown(t) ==
  /\ At(t, "free") /\ Lookup(cmdMem) = 0
  /\ AfterBuild(t, "refused")
  /\ oldPackIds' = TRUE
  /\ UNCHANGED <<running, dirty, cmdMem, ptrs, longer, oldHeader, lateSave, objs, space, jobs,
                 fences, harm, alive>>

ClearOld(t) ==
  /\ At(t, "clear")
  /\ cmdMem' = NoAddr
  /\ GoTo(t, "alloc")
  /\ UNCHANGED <<locks, running, dirty, ptrs, longer, oldPackIds, oldHeader, lateSave, refused,
                 objs, space, jobs, fences, harm, alive>>

NewObject(owner, a) ==
  /\ Len(objs) < MaxObj /\ space[a] = 0
  /\ objs' = Append(objs, [owner |-> owner, fence |-> 0, out |-> 0])
  /\ space' = [space EXCEPT ![a] = Len(objs) + 1]

Alloc(t, a) ==
  /\ At(t, "alloc")
  /\ NewObject("command", a)
  /\ cmdMem' = a
  /\ GoTo(t, "construct")
  /\ UNCHANGED <<locks, running, dirty, ptrs, longer, oldPackIds, oldHeader, lateSave, refused,
                 jobs, fences, harm, alive>>

AllocFail(t) ==
  /\ At(t, "alloc") /\ (AllocMayFail \/ Len(objs) = MaxObj)
  /\ AfterBuild(t, "nomem")
  /\ oldPackIds' = TRUE
  /\ UNCHANGED <<running, dirty, cmdMem, ptrs, longer, oldHeader, lateSave, objs, space, jobs,
                 fences, harm, alive>>

\* construct(): header, dependency lists, a copy of every command buffer.  The
\* flags are or-ed into the header: ION memory is zero when it is new.
Construct(t) ==
  /\ At(t, "construct") /\ ~oldPackIds
  /\ oldPackIds' = TRUE
  /\ ptrs' = cmdMem
  /\ longer' = FALSE
  /\ oldHeader' = {} /\ lateSave' = FALSE
  /\ GoTo(t, "reset")
  /\ UNCHANGED <<locks, running, dirty, cmdMem, refused, objs, space, jobs, fences, harm,
                 alive>>

\* The list of pack ids does not fit any more: the new memory is freed, and
\* mCmdMem keeps its address.
ConstructRefuses(t) ==
  /\ At(t, "construct") /\ oldPackIds
  /\ space' = [space EXCEPT ![cmdMem] = 0]
  /\ AfterBuild(t, "refused")
  /\ UNCHANGED <<running, dirty, cmdMem, ptrs, longer, oldPackIds, oldHeader, lateSave, objs,
                 jobs, fences, harm, alive>>

ResetDirty(t) ==
  /\ At(t, "reset")
  /\ dirty' = {}
  /\ AfterBuild(t, "ok")
  /\ UNCHANGED <<running, cmdMem, ptrs, longer, oldPackIds, oldHeader, lateSave, objs, space,
                 jobs, fences, harm, alive>>

-----------------------------------------------------------------------------
\* The rest of preExec(): the header follows the parameters, all but power save,
\* which updateHeader() does not write although it clears the mark.
updateHeaderSkips(t) ==
  /\ At(t, "header")
  /\ GoTo(t, "setFence")
  /\ dirty' = dirty \ {"PARAMETER"}
  /\ UNCHANGED <<execMtx, oldHeader, lateSave, harm, alive, mtx, running, cmdMem, ptrs, longer,
                 oldPackIds, refused, objs, space, jobs, fences>>

updateHeader(t) ==
  /\ At(t, "header")
  /\ IF "PARAMETER" \notin dirty
     THEN GoTo(t, "setFence") /\ NoAccess /\ UNCHANGED <<execMtx, dirty, oldHeader>>
     ELSE IF cmdMem = NoAddr \/ ptrs = NoAddr
     THEN Leave(t) /\ NoAccess /\ UNCHANGED <<dirty, oldHeader>>
     ELSE /\ Access({cmdMem, ptrs})
          /\ dirty' = dirty \ {"PARAMETER"}
          /\ oldHeader' = oldHeader \cap {"POWERSAVE"}
          /\ GoTo(t, "setFence")
          /\ UNCHANGED execMtx
  /\ UNCHANGED <<mtx, running, cmdMem, ptrs, longer, oldPackIds, lateSave, refused, objs,
                 space, jobs, fences>>

\* setFence() clears the fence of the header it finds under mCmdMem.
setFence(t) ==
  LET o == Lookup(cmdMem)
  IN  /\ At(t, "setFence")
      /\ IF o = 0
         THEN Leave(t) /\ UNCHANGED <<objs, harm>>
         ELSE /\ objs' = [objs EXCEPT ![o].fence = 0]
              /\ harm' = IF Own(o) THEN harm ELSE harm \cup {"foreign"}
              /\ GoTo(t, "copyIn")
              /\ UNCHANGED execMtx
      /\ UNCHANGED <<mtx, running, command, space, jobs, fences, alive>>

\* updateSubCmdBuf(true): the callers' buffers are copied over the old output.
\* A sub-command whose lists differ in length is skipped without an error.
copyIn(t) ==
  /\ At(t, "copyIn")
  /\ IF longer \/ ptrs = NoAddr
     THEN NoAccess /\ UNCHANGED objs
     ELSE /\ Access({ptrs})
          /\ objs' = IF Lookup(ptrs) = 0 THEN objs
                     ELSE [objs EXCEPT ![Lookup(ptrs)].out = 0]
  /\ GoTo(t, "submit")
  /\ UNCHANGED <<locks, running, command, space, jobs, fences>>

\* The driver accepts.  run() sleeps in the ioctl; runAsync() leaves the fence
\* in the header for wait(); runFence() returns it and leaves mIsRunning alone.
SubmitStaysIdle(t) ==
  LET j == Len(jobs) + 1
      o == Lookup(cmdMem)
      c == thr[t].call
  IN  /\ At(t, "submit") /\ o # 0 /\ Len(jobs) < MaxJobs
      /\ jobs' = Append(jobs, [mem |-> o, call |-> c, state |-> "running",
                               got |-> 0, told |-> FALSE])
      /\ objs' = IF c = "run" THEN objs ELSE [objs EXCEPT ![o].fence = j]
      /\ given' = IF c = "runFence" THEN given \cup {j} ELSE given
      /\ running' = (c = "run")
      /\ IF c = "run"
         THEN thr' = [thr EXCEPT ![t].pc = "ioctl", ![t].job = j] /\ UNCHANGED execMtx
         ELSE Leave(t)
      /\ UNCHANGED <<mtx, command, space, closed, harm, alive>>

Submit(t) ==
  LET j == Len(jobs) + 1
      o == Lookup(cmdMem)
      c == thr[t].call
  IN  /\ At(t, "submit") /\ o # 0 /\ Len(jobs) < MaxJobs
      /\ jobs' = Append(jobs, [mem |-> o, call |-> c, state |-> "running",
                               got |-> 0, told |-> FALSE])
      /\ objs' = IF c = "run" THEN objs ELSE [objs EXCEPT ![o].fence = j]
      /\ given' = IF c = "runFence" THEN given \cup {j} ELSE given
      /\ running' = IF c = "runFence" THEN running ELSE TRUE
      /\ IF c = "run"
         THEN thr' = [thr EXCEPT ![t].pc = "ioctl", ![t].job = j] /\ UNCHANGED execMtx
         ELSE Leave(t)
      /\ UNCHANGED <<mtx, command, space, closed, harm, alive>>

SubmitFailGives(t) ==
  /\ At(t, "submit")
  /\ given' = IF thr[t].call = "runFence" THEN given \cup {Len(jobs) + 1} ELSE given
  /\ Leave(t)
  /\ UNCHANGED <<mtx, running, command, objs, space, jobs, closed, harm, alive>>

\* The memory is not found, or the driver refuses; then run() still copies the
\* output back.
SubmitFail(t) ==
  /\ At(t, "submit")
  /\ IF thr[t].call = "run" /\ Lookup(cmdMem) # 0
     THEN GoTo(t, "copyOut") /\ UNCHANGED execMtx
     ELSE Leave(t)
  /\ UNCHANGED <<mtx, running, command, objs, space, jobs, fences, harm, alive>>

\* APUSYS_IOCTL_RUN_CMD_SYNC returns when the job is done.
SyncDone(t) == /\ At(t, "ioctl") /\ jobs[thr[t].job].state = "done"
               /\ GoTo(t, "copyOut")
               /\ UNCHANGED <<locks, running, command, objs, space, jobs, fences, harm, alive>>

\* wait(): the command is not running, or its header holds no fence.
WaitFails(t) ==
  /\ At(t, "getFence") /\ ~(running /\ HeaderFence # 0)
  /\ Leave(t)
  /\ UNCHANGED <<mtx, running, command, objs, space, jobs, fences, harm, alive>>

getFence(t) ==
  /\ At(t, "getFence") /\ running /\ HeaderFence # 0
  /\ thr' = [thr EXCEPT ![t].pc = "poll", ![t].job = HeaderFence]
  /\ UNCHANGED <<locks, running, command, objs, space, jobs, fences, harm, alive>>

PollNoClose(t) ==
  /\ At(t, "poll") /\ jobs[thr[t].job].state = "done"
  /\ GoTo(t, "copyOut")
  /\ UNCHANGED <<locks, running, command, objs, space, jobs, fences, harm, alive>>

\* poll() without a time limit, holding mExecMtx, then close().
Poll(t) ==
  /\ At(t, "poll") /\ jobs[thr[t].job].state = "done"
  /\ closed' = closed \cup {thr[t].job}
  /\ GoTo(t, "copyOut")
  /\ UNCHANGED <<locks, running, command, objs, space, jobs, given, harm, alive>>

\* updateSubCmdBuf(false), and the command may be run again.
copyOut(t) ==
  LET j   == thr[t].job
      got == IF longer \/ ptrs = NoAddr \/ Lookup(ptrs) = 0 THEN 0 ELSE objs[Lookup(ptrs)].out
  IN  /\ At(t, "copyOut")
      /\ IF longer \/ ptrs = NoAddr THEN NoAccess ELSE Access({ptrs})
      /\ jobs' = IF j = 0 THEN jobs
                 ELSE [jobs EXCEPT ![j].told = TRUE, ![j].got = got]
      /\ running' = FALSE
      /\ Leave(t)
      /\ UNCHANGED <<mtx, command, objs, space, fences>>

-----------------------------------------------------------------------------
\* The driver ends a job and writes its output to the submitted memory, of
\* which it holds a reference.
Complete(j) ==
  /\ alive /\ jobs[j].state = "running"
  /\ jobs' = [jobs EXCEPT ![j].state = "done"]
  /\ objs' = [objs EXCEPT ![jobs[j].mem].out = j]
  /\ UNCHANGED <<locks, running, command, space, fences, harm, thr, alive>>

CallerClose(j) == /\ alive /\ j \in given
                  /\ given' = given \ {j}
                  /\ closed' = closed \cup {j}
                  /\ UNCHANGED <<locks, running, command, objs, space, jobs, harm, thr, alive>>

\* Another user of the session allocates and frees memory.
OtherAlloc(a) == /\ alive /\ NewObject("other", a)
                 /\ UNCHANGED <<locks, running, command, jobs, fences, harm, thr, alive>>

OtherFree(a) == /\ alive /\ space[a] # 0 /\ objs[space[a]].owner = "other"
                /\ space' = [space EXCEPT ![a] = 0]
                /\ UNCHANGED <<locks, running, command, objs, jobs, fences, harm, thr, alive>>

\* The destructor frees mCmdMem whether or not build() did already.
Delete ==
  /\ alive /\ \A t \in Threads : thr[t].pc = "idle"
  /\ harm' = IF Lookup(cmdMem) = 0 \/ Own(Lookup(cmdMem)) THEN harm ELSE harm \cup {"foreign"}
  /\ space' = [a \in Addr |-> IF a = cmdMem THEN 0 ELSE space[a]]
  /\ cmdMem' = NoAddr
  /\ alive' = FALSE
  /\ UNCHANGED <<locks, running, dirty, ptrs, longer, oldPackIds, oldHeader, lateSave, refused,
                 objs, jobs, fences, thr>>

Gone == ~alive /\ UNCHANGED vars

-----------------------------------------------------------------------------
\* A command with sub-commands that was never built.
Init == /\ execMtx = NoThread /\ mtx = NoThread
        /\ running = FALSE
        /\ dirty = {"CMDBUF"}
        /\ cmdMem = NoAddr /\ ptrs = NoAddr
        /\ longer = TRUE /\ oldPackIds = FALSE
        /\ oldHeader = Params /\ lateSave = FALSE
        /\ objs = <<>>
        /\ space = [a \in Addr |-> 0]
        /\ jobs = <<>>
        /\ given = {} /\ closed = {}
        /\ refused = FALSE
        /\ harm = {}
        /\ thr = [t \in Threads |-> Idle]
        /\ alive = TRUE

Acquire(t) == LockExec(t) \/ Refuse(t) \/ LockMtx(t)

Proceed(t) ==
  \/ preExec(t) \/ FreeOld(t) \/ FreeUnknown(t) \/ ClearOld(t)
  \/ AllocFail(t) \/ \E a \in Addr : Alloc(t, a)
  \/ Construct(t) \/ ConstructRefuses(t) \/ ResetDirty(t)
  \/ updateHeader(t) \/ setFence(t) \/ copyIn(t) \/ Submit(t) \/ SubmitFail(t)
  \/ SyncDone(t) \/ WaitFails(t) \/ getFence(t) \/ Poll(t) \/ copyOut(t)

Next == \/ \E t \in Threads : \/ \E c \in Calls : Call(t, c)
                             \/ Acquire(t)
                             \/ Proceed(t)
        \/ \E j \in Job : Complete(j) \/ CallerClose(j)
        \/ \E a \in Addr : OtherAlloc(a) \/ OtherFree(a)
        \/ addCmdBuf \/ setDependency \/ \E p \in SetParams : setParam(p)
        \/ Delete \/ Gone

Spec == Init /\ [][Next]_vars

\* A thread that can go on does, one that keeps finding a mutex free gets it,
\* and the driver ends every job: wait() and run() have no time limit.
FairSpec == /\ Spec
            /\ \A t \in Threads : SF_vars(Acquire(t)) /\ WF_vars(Proceed(t))
            /\ \A j \in 1 .. MaxJobs : WF_vars(j \in Job /\ Complete(j))

-----------------------------------------------------------------------------
ObjRecord == [owner : {"command", "other"}, fence : 0 .. MaxJobs, out : 0 .. MaxJobs]
JobRecord == [mem : 1 .. MaxObj, call : {"run", "runAsync", "runFence"},
              state : {"running", "done"}, got : 0 .. MaxJobs, told : BOOLEAN]
ThreadRecord ==
  [pc : {"idle", "exec", "preExec", "mtx", "free", "clear", "alloc", "construct", "reset",
         "header", "setFence", "copyIn", "submit", "ioctl", "getFence", "poll", "copyOut"},
   call : Calls, job : 0 .. MaxJobs]

TypeOK == /\ execMtx \in Threads \cup {NoThread} /\ mtx \in Threads \cup {NoThread}
          /\ running \in BOOLEAN /\ alive \in BOOLEAN
          /\ dirty \subseteq {"CMDBUF", "PARAMETER"}
          /\ cmdMem \in Addr \cup {NoAddr} /\ ptrs \in Addr \cup {NoAddr}
          /\ longer \in BOOLEAN /\ oldPackIds \in BOOLEAN
          /\ oldHeader \subseteq Params /\ lateSave \in BOOLEAN
          /\ objs \in Seq(ObjRecord) /\ Len(objs) <= MaxObj
          /\ space \in [Addr -> 0 .. Len(objs)]
          /\ jobs \in Seq(JobRecord) /\ Len(jobs) <= MaxJobs
          /\ given \subseteq Job /\ closed \subseteq Job
          /\ refused \in BOOLEAN
          /\ harm \subseteq {"fault", "foreign"}
          /\ thr \in [Threads -> ThreadRecord]

(* The command frees, reads and writes its own memory only, although it     *)
(* keeps addresses that the session gives to others once they are freed.    *)
MemoryOwned == ~refused => harm = {}

(* When run() or wait() return, the caller's buffers hold the output of the *)
(* very run they were called for.                                           *)
OutputDelivered ==
  ~refused => \A j \in Job : jobs[j].told => jobs[j].state = "done" /\ jobs[j].got = j

(* No fence is lost: that of an asynchronous run is in the header for       *)
(* wait() to find, with the command marked running, until it is closed;     *)
(* that of runFence() is the caller's.                                      *)
FenceKept ==
  alive /\ ~refused => \A j \in Job \ (given \cup closed) : jobs[j].call # "run" =>
     /\ jobs[j].call = "runAsync" /\ running
     /\ HeaderFence = j

(* Whenever the driver takes a command, its header has the priority, limits *)
(* and user id that were set before, whether the run rebuilt the command or  *)
(* not; power save as well, unless it was set when no build was due and      *)
(* none came since.                                                          *)
ParamsApplied ==
  [][Len(jobs') > Len(jobs) =>
       oldHeader \subseteq (IF lateSave THEN {"POWERSAVE"} ELSE {})]_vars

(* "cmdbuf modified, should free and rebuild": a command can be built       *)
(* again.                                                                   *)
RebuildWorks == ~refused

(* Every call returns if the driver ends every job, though they sleep with  *)
(* mExecMtx locked.                                                         *)
CallsReturn ==
  \A t \in Threads : thr[t].pc # "idle" ~> (thr[t].pc = "idle" \/ ~alive)
=============================================================================
