----------------------------- MODULE EngineV10 -----------------------------
(***************************************************************************)
(* One apusysCmd of middleware 1.0 and the engine that runs it, called by  *)
(* several threads.  Unlike its successor, the command locks mMtx in each  *)
(* small method and not around a run: runCmd() and runCmdAsync() set the   *)
(* fence flag, construct, fetch the buffer, mark the command executing and *)
(* submit in that order, with other calls in between; waitCmd() fetches    *)
(* the buffer and its fence, polls, closes and takes the mark back.        *)
(*                                                                         *)
(* CmdListsV10 says what addSubCmd() and packSubCmd() do to the lists of   *)
(* the sub-commands.                                                       *)
(*                                                                         *)
(* A section under mMtx is one step.  mMtx is not recursive: getCmdBuf()   *)
(* calls constructCmd() with the lock held when the command is dirty.      *)
(* A job number stands for the fence fd of the job too; 0 is the fd found  *)
(* in a header that never had a fence (a descriptor of somebody else).     *)
(***************************************************************************)
EXTENDS CmdListsV10, Sequences

CONSTANTS Threads,
          MaxRunSubCmds,    \* bound on sub-commands of clients that run
          MaxTunes,         \* bound on setTuneParam() calls
          MaxBufs,          \* bound on command buffers
          MaxJobs,          \* bound on accepted submissions
          Clients,          \* what the callers refrain from, see MayCall
          NoThread

ASSUME EngineAssumption == /\ MaxRunSubCmds \in Nat /\ MaxTunes \in Nat
                           /\ MaxBufs \in Nat /\ MaxJobs \in Nat
                           /\ Clients \subseteq {"serial", "modifying", "builder"}
                           /\ NoThread \notin Threads

VARIABLES mtx,              \* owner of mMtx between steps
          dirty,            \* mDirty
          cmdBuf,           \* mCmdBuf as an index of bufs; 0: nullptr
          bufs,             \* command buffers allocated so far
          tune,             \* per sub-command: mTuneParam, by its age
          entry,            \* per sub-command: buffer of mInfoEntry; 0: none
          fenceFlag,        \* mFenceEnable, and the bit of mFlagBitmap
          executing,        \* mIsExecuting
          jobs,             \* submissions the driver accepted
          harm,             \* accesses to freed buffers and foreign descriptors
          thr,              \* per thread: position and locals of the current call
          alive,            \* not destroyed
          client            \* member of Clients, never changes

subCmds == <<lists, tune, entry>>
command == <<subCmds, dirty, cmdBuf, bufs, fenceFlag, executing>>
vars    == <<mtx, command, jobs, harm, thr, alive, client>>

Runs  == {"runCmd", "runCmdAsync"}
Calls == Runs \cup {"waitCmd", "constructCmd", "getRunInfo"}
Job   == 1 .. Len(jobs)
Idle  == [pc |-> "idle", call |-> "constructCmd", buf |-> 0, job |-> 0]

At(t, pc)   == thr[t].pc = pc
GoTo(t, pc) == thr' = [thr EXCEPT ![t].pc = pc]
Return(t)   == thr' = [thr EXCEPT ![t] = Idle]
Free        == mtx = NoThread

\* Asynchronous jobs whose fence is open.
Unwaited == {j \in Job : jobs[j].call = "runCmdAsync" /\ jobs[j].closed = 0}

-----------------------------------------------------------------------------
\* What callers refrain from: one run call at a time and one waitCmd() for
\* each accepted asynchronous run, sub-commands only between calls, tuning only
\* while nobody constructs.  "serial" callers also add none during an
\* asynchronous run, tune none after a construction that freed the buffer and
\* failed, and ask for run information only when the command is constructed
\* and unmodified.
\* A "builder" adds and packs sub-commands and runs nothing.
In(C) == {t \in Threads : thr[t].pc # "idle" /\ thr[t].call \in C}

MayModify == In(Calls) = {} /\ (client = "serial" => Unwaited = {})

MayAdd(dev) == MayModify /\ (client # "builder" => num < MaxRunSubCmds /\ dev = "VPU")

MayTune == /\ client # "builder" /\ In(Calls \ {"waitCmd"}) = {}
           /\ client = "serial" => cmdBuf # 0 \/ \A i \in Idx : entry[i] = 0

MayCall(c) ==
  /\ client # "builder"
  /\ \/ c = "constructCmd"
     \/ c \in Runs /\ In(Runs) = {}
     \/ c = "waitCmd" /\ Unwaited # {} /\ In({"waitCmd"}) = {}
     \/ c = "getRunInfo" /\ (client = "serial" => ~dirty /\ cmdBuf # 0)

Call(t, c) ==
  /\ alive /\ At(t, "idle") /\ MayCall(c)
  /\ c = "getRunInfo" => num > 0
  /\ thr' = [thr EXCEPT ![t] = [Idle EXCEPT !.call = c,
               !.pc = CASE c \in Runs         -> "setFence"
                        [] c = "constructCmd" -> "construct"
                        [] OTHER              -> "getCmdBuf"]]
  /\ UNCHANGED <<mtx, command, jobs, harm, alive, client>>

\* A new sub-command starts with the tuning t and is in no buffer yet.
Modified(t) == /\ tune' = PushBack(tune, t)
               /\ entry' = PushBack(entry, 0)
               /\ dirty' = TRUE

addSubCmdStaysClean(dev, dependency) ==
  /\ alive /\ Free /\ MayAdd(dev)
  /\ addLinks(dev, dependency)
  /\ tune' = PushBack(tune, 0) /\ entry' = PushBack(entry, 0)
  /\ dirty' = (dirty \/ cmdBuf = 0)
  /\ UNCHANGED <<mtx, cmdBuf, bufs, fenceFlag, executing, jobs, harm, thr, alive, client>>

addSubCmd(dev, dependency) ==
  /\ alive /\ Free /\ MayAdd(dev)
  /\ addLinks(dev, dependency)
  /\ Modified(0)
  /\ UNCHANGED <<mtx, cmdBuf, bufs, fenceFlag, executing, jobs, harm, thr, alive, client>>

packSubCmd(dev, target) ==
  /\ alive /\ Free /\ MayAdd(dev)
  /\ packLinks(dev, target)
  /\ Modified(tune[target])
  /\ UNCHANGED <<mtx, cmdBuf, bufs, fenceFlag, executing, jobs, harm, thr, alive, client>>

touch(b) == harm' = IF bufs[b].live THEN harm ELSE harm \cup {"buffer"}

setTuneParamNotWritten(i) ==
  LET new == CHOOSE n \in 1 .. MaxTunes : \A j \in Idx : tune[j] < n
  IN  /\ alive /\ MayTune
      /\ \A j \in Idx : tune[j] < MaxTunes
      /\ tune' = [tune EXCEPT ![i] = new]
      /\ UNCHANGED <<mtx, lists, entry, dirty, cmdBuf, bufs, fenceFlag, executing>>
      /\ UNCHANGED <<jobs, harm, thr, alive, client>>

\* setTuneParam(), without the lock: the parameters also go to the header of
\* the sub-command, where it was last constructed.
setTuneParam(i) ==
  LET new == CHOOSE n \in 1 .. MaxTunes : \A j \in Idx : tune[j] < n
  IN  /\ alive /\ MayTune
      /\ \A j \in Idx : tune[j] < MaxTunes
      /\ tune' = [tune EXCEPT ![i] = new]
      /\ IF entry[i] = 0
         THEN UNCHANGED <<bufs, harm>>
         ELSE bufs' = [bufs EXCEPT ![entry[i]].tune[i] = new] /\ touch(entry[i])
      /\ UNCHANGED <<mtx, lists, entry, dirty, cmdBuf, fenceFlag, executing>>
      /\ UNCHANGED <<jobs, thr, alive, client>>

\* _setCmdPropertyToBuf(): the flags go to the header, if there is one.
withFlag(f) == IF cmdBuf = 0 THEN bufs ELSE [bufs EXCEPT ![cmdBuf].flag = f]

\* An invalid priority is refused and changes nothing.
setCmdProperty ==
  /\ alive /\ Free
  /\ dirty' = (dirty \/ cmdBuf = 0)
  /\ bufs' = withFlag(fenceFlag)
  /\ UNCHANGED <<mtx, subCmds, cmdBuf, fenceFlag, executing, jobs, harm, thr, alive, client>>

-----------------------------------------------------------------------------
setFenceNotWritten(t) ==
  /\ At(t, "setFence")
  /\ fenceFlag' = (thr[t].call = "runCmdAsync")
  /\ GoTo(t, "construct")
  /\ UNCHANGED <<mtx, subCmds, dirty, cmdBuf, bufs, executing, jobs, harm, alive, client>>

\* Without the lock.
setFence(t) ==
  LET enable == thr[t].call = "runCmdAsync"
  IN  /\ At(t, "setFence")
      /\ fenceFlag' = enable
      /\ bufs' = withFlag(enable)
      /\ GoTo(t, "construct")
      /\ UNCHANGED <<mtx, subCmds, dirty, cmdBuf, executing, jobs, harm, alive, client>>

needsBuffer == dirty

\* constructCmd(): nothing to do, or refused: the command executes, or has
\* no sub-command.
afterConstruct(t, ok) ==
  IF ok /\ thr[t].call \in Runs THEN GoTo(t, "getCmdBuf") ELSE Return(t)

constructRefused == executing \/ (dirty /\ num = 0) \/ (~dirty /\ cmdBuf = 0)

constructWaits(t) ==
  /\ At(t, "construct") /\ Free
  /\ IF executing THEN GoTo(t, "construct") ELSE afterConstruct(t, ~constructRefused)
  /\ constructRefused \/ ~needsBuffer
  /\ UNCHANGED <<mtx, command, jobs, harm, alive, client>>

constructNothing(t) ==
  /\ At(t, "construct") /\ Free
  /\ constructRefused \/ ~needsBuffer
  /\ afterConstruct(t, ~constructRefused)
  /\ UNCHANGED <<mtx, command, jobs, harm, alive, client>>

\* The old buffer is freed before the new one is allocated.
freed == IF cmdBuf = 0 THEN bufs ELSE [bufs EXCEPT ![cmdBuf].live = FALSE]

construct(t) ==
  /\ At(t, "construct") /\ Free /\ ~constructRefused /\ needsBuffer
  /\ Len(bufs) < MaxBufs
  /\ bufs' = Append(freed, [num |-> num, tune |-> tune, flag |-> fenceFlag, fd |-> 0,
                            live |-> TRUE])
  /\ entry' = [i \in Idx |-> Len(bufs) + 1]
  /\ cmdBuf' = Len(bufs) + 1
  /\ dirty' = FALSE
  /\ afterConstruct(t, TRUE)
  /\ UNCHANGED <<mtx, lists, tune, fenceFlag, executing, jobs, harm, alive, client>>

\* memFree() of the old buffer fails, or memAlloc() of the new one.
constructFailsKeepsPointer(t) ==
  /\ At(t, "construct") /\ Free /\ ~constructRefused /\ needsBuffer
  /\ bufs' = freed
  /\ Return(t)
  /\ UNCHANGED <<mtx, subCmds, dirty, cmdBuf, fenceFlag, executing, jobs, harm, alive, client>>

constructFails(t) ==
  /\ At(t, "construct") /\ Free /\ ~constructRefused /\ needsBuffer
  /\ \/ UNCHANGED <<bufs, cmdBuf>>
     \/ bufs' = freed /\ cmdBuf' = 0
  /\ Return(t)
  /\ UNCHANGED <<mtx, subCmds, dirty, fenceFlag, executing, jobs, harm, alive, client>>

\* getCmdBuf() of a dirty command asks for mMtx again; a lookup that finds
\* no buffer ends the call.
getCmdBuf(t) ==
  LET call == thr[t].call
  IN  /\ At(t, "getCmdBuf") /\ Free
      /\ mtx' = IF dirty THEN t ELSE mtx
      /\ IF ~dirty /\ cmdBuf = 0
         THEN Return(t)
         ELSE thr' = [thr EXCEPT ![t].buf = cmdBuf,
                        ![t].pc = IF dirty THEN "locked"
                                  ELSE CASE call = "getRunInfo" -> "readInfo"
                                         [] call = "waitCmd"    -> "getFence"
                                         [] OTHER               -> "mark"]
      /\ UNCHANGED <<command, jobs, harm, alive, client>>

\* The header is read where the sub-command was last constructed, without the
\* lock.
readInfo(t) ==
  /\ At(t, "readInfo")
  /\ \E i \in Idx : IF entry[i] = 0 THEN UNCHANGED harm ELSE touch(entry[i])
  /\ Return(t)
  /\ UNCHANGED <<mtx, command, jobs, alive, client>>

markExecute(t) ==
  /\ At(t, "mark") /\ Free
  /\ IF executing THEN Return(t) ELSE GoTo(t, "submit")
  /\ executing' = TRUE
  /\ UNCHANGED <<mtx, subCmds, dirty, cmdBuf, bufs, fenceFlag, jobs, harm, alive, client>>

\* ioctl(): the driver reads the header, and answers a flag with a fence.
submitted(t) == [buf |-> thr[t].buf, call |-> thr[t].call, state |-> "running",
                 current |-> bufs[thr[t].buf].num = num /\ bufs[thr[t].buf].tune = tune,
                 told |-> FALSE, closed |-> 0]

submitUnmarks(t) ==
  LET b == thr[t].buf
  IN  /\ At(t, "submit") /\ Len(jobs) < MaxJobs
      /\ touch(b)
      /\ jobs' = Append(jobs, submitted(t))
      /\ bufs' = IF bufs[b].flag THEN [bufs EXCEPT ![b].fd = Len(jobs) + 1] ELSE bufs
      /\ executing' = (thr[t].call = "runCmd")
      /\ IF thr[t].call = "runCmd"
         THEN thr' = [thr EXCEPT ![t].pc = "ioctl", ![t].job = Len(jobs) + 1]
         ELSE Return(t)
      /\ UNCHANGED <<mtx, subCmds, dirty, cmdBuf, fenceFlag, alive, client>>

submit(t) ==
  LET b == thr[t].buf
  IN  /\ At(t, "submit") /\ Len(jobs) < MaxJobs
      /\ touch(b)
      /\ jobs' = Append(jobs, submitted(t))
      /\ bufs' = IF bufs[b].flag THEN [bufs EXCEPT ![b].fd = Len(jobs) + 1] ELSE bufs
      /\ IF thr[t].call = "runCmd"
         THEN thr' = [thr EXCEPT ![t].pc = "ioctl", ![t].job = Len(jobs) + 1]
         ELSE Return(t)
      /\ UNCHANGED <<mtx, subCmds, dirty, cmdBuf, fenceFlag, executing, alive, client>>

submitFailsWritesFence(t) ==
  LET b == thr[t].buf
  IN  /\ At(t, "submit")
      /\ touch(b)
      /\ bufs' = IF bufs[b].flag THEN [bufs EXCEPT ![b].fd = Len(jobs) + 1] ELSE bufs
      /\ GoTo(t, "unmark")
      /\ UNCHANGED <<mtx, subCmds, dirty, cmdBuf, fenceFlag, executing, jobs, alive, client>>

submitFailsMarked(t) ==
  /\ At(t, "submit")
  /\ touch(thr[t].buf)
  /\ IF thr[t].call = "runCmd" THEN GoTo(t, "unmark") ELSE Return(t)
  /\ UNCHANGED <<mtx, command, jobs, alive, client>>

submitFails(t) ==
  /\ At(t, "submit")
  /\ touch(thr[t].buf)
  /\ GoTo(t, "unmark")
  /\ UNCHANGED <<mtx, command, jobs, alive, client>>

\* APUSYS_IOCTL_RUN_CMD_SYNC returns when the job is done.
syncDone(t) ==
  /\ At(t, "ioctl") /\ jobs[thr[t].job].state = "done"
  /\ jobs' = [jobs EXCEPT ![thr[t].job].told = TRUE]
  /\ GoTo(t, "unmark")
  /\ UNCHANGED <<mtx, command, harm, alive, client>>

unMarkExecute(t) ==
  /\ At(t, "unmark") /\ Free
  /\ executing' = FALSE
  /\ Return(t)
  /\ UNCHANGED <<mtx, subCmds, dirty, cmdBuf, bufs, fenceFlag, jobs, harm, alive, client>>

-----------------------------------------------------------------------------
\* waitCmd(): the fence is read without the lock.
getFence(t) ==
  /\ At(t, "getFence")
  /\ IF cmdBuf = 0
     THEN Return(t) /\ UNCHANGED harm
     ELSE /\ touch(cmdBuf)
          /\ thr' = [thr EXCEPT ![t].pc = "poll", ![t].job = bufs[cmdBuf].fd]
  /\ UNCHANGED <<mtx, command, jobs, alive, client>>

\* sync_wait() and close().  A descriptor that is closed, or somebody else's,
\* ends poll() in any way, and then close() hits what is there.
poll(t) ==
  LET j       == thr[t].job
      foreign == j = 0 \/ jobs[j].closed > 0
  IN  /\ At(t, "poll")
      /\ foreign \/ jobs[j].state = "done"
      /\ harm' = IF foreign THEN harm \cup {"descriptor"} ELSE harm
      /\ jobs' = IF foreign THEN jobs
                 ELSE [jobs EXCEPT ![j].told = TRUE, ![j].closed = 1]
      /\ GoTo(t, "unmark")
      /\ UNCHANGED <<mtx, command, alive, client>>

\* The driver ends a job and signals its fence.
Complete(j) ==
  /\ jobs[j].state = "running"
  /\ jobs' = [jobs EXCEPT ![j].state = "done"]
  /\ UNCHANGED <<mtx, command, harm, thr, alive, client>>

\* The destructor frees the buffer, and leaves it behind if memFree() fails.
destroyCmd ==
  /\ alive /\ In(Calls) = {} /\ Unwaited = {}
  /\ bufs' \in {freed, bufs} /\ cmdBuf' = 0
  /\ alive' = FALSE
  /\ UNCHANGED <<mtx, subCmds, dirty, fenceFlag, executing, jobs, harm, thr, client>>

Gone == ~alive /\ UNCHANGED vars

-----------------------------------------------------------------------------
Init ==
  /\ mtx = NoThread
  /\ NoLinks /\ tune = [i \in {} |-> 0] /\ entry = [i \in {} |-> 0]
  /\ dirty = FALSE /\ cmdBuf = 0 /\ bufs = << >>
  /\ fenceFlag = FALSE /\ executing = FALSE
  /\ jobs = << >> /\ harm = {}
  /\ thr = [t \in Threads |-> Idle]
  /\ alive = TRUE
  /\ client \in Clients

Step(t) ==
  \/ setFence(t) \/ constructNothing(t) \/ construct(t) \/ constructFails(t)
  \/ getCmdBuf(t) \/ readInfo(t) \/ markExecute(t) \/ submit(t) \/ submitFails(t) \/ syncDone(t)
  \/ unMarkExecute(t) \/ getFence(t) \/ poll(t)

Next ==
  \/ \E t \in Threads : Step(t) \/ (\E c \in Calls : Call(t, c))
  \/ \E dev \in Devices : \/ \E dependency \in SUBSET Idx : addSubCmd(dev, dependency)
                          \/ \E target \in Idx : packSubCmd(dev, target)
  \/ \E i \in Idx : setTuneParam(i)
  \/ setCmdProperty \/ destroyCmd \/ Gone
  \/ \E j \in Job : Complete(j)

Spec == Init /\ [][Next]_vars

\* A thread inside a call runs on, and the driver ends every job: run calls
\* and poll() have no time limit of their own.
FairSpec == /\ Spec
            /\ \A t \in Threads : WF_vars(Step(t))
            /\ \A j \in 1 .. MaxJobs : WF_vars(j \in Job /\ Complete(j))

-----------------------------------------------------------------------------
\* Values the C++ types and the bounds of the model allow.
TypeOK ==
  /\ mtx \in Threads \cup {NoThread}
  /\ ListsTypeOK
  /\ tune \in [Idx -> 0 .. MaxTunes] /\ entry \in [Idx -> 0 .. Len(bufs)]
  /\ cmdBuf \in 0 .. Len(bufs) /\ client \in Clients
  /\ {dirty, fenceFlag, executing, alive} \subseteq BOOLEAN
  /\ Len(bufs) <= MaxBufs /\ Len(jobs) <= MaxJobs
  /\ \A b \in 1 .. Len(bufs) :
       /\ bufs[b].num \in 1 .. num /\ bufs[b].fd \in 0 .. Len(jobs)
       /\ bufs[b].tune \in [0 .. bufs[b].num - 1 -> 0 .. MaxTunes]
       /\ {bufs[b].flag, bufs[b].live} \subseteq BOOLEAN
  /\ \A j \in Job :
       jobs[j] \in [buf : 1 .. Len(bufs), call : Runs, state : {"running", "done"},
                    current : BOOLEAN, told : BOOLEAN, closed : 0 .. 1]
  /\ harm \subseteq {"buffer", "descriptor"}
  /\ \A t \in Threads :
       thr[t] \in [pc : {"idle", "setFence", "construct", "getCmdBuf", "locked", "readInfo", "mark",
                         "submit", "ioctl", "unmark", "getFence", "poll"},
                   call : Calls, buf : 0 .. Len(bufs), job : 0 .. Len(jobs)]

\* A command is in the driver at most once: from markExecute() to
\* unMarkExecute(), across the threads that submit and wait, no second run of
\* it is accepted.  And the mark is taken back on every path: when no call and
\* no asynchronous run is in progress, the command can be constructed again.
MarkFitsRuns ==
  /\ Cardinality({j \in Job : jobs[j].state = "running"}) <= 1
  /\ In(Calls) = {} /\ Unwaited = {} => ~executing

\* The buffer a run fetched is still allocated when the ioctl reads it, and
\* the fence is never read from a freed one, although constructCmd() frees
\* the old buffer and the lock is released between the lookup and the use; no
\* other buffer is allocated than the one the command has.  waitCmd() polls
\* and closes the fence of this command's own run, never the 0 of a header
\* without fence nor one that was closed before; each fence that was waited
\* for is closed.
BufferAndFenceKept ==
  /\ harm = {}
  /\ alive => {b \in 1 .. Len(bufs) : bufs[b].live} = IF cmdBuf = 0 THEN {} ELSE {cmdBuf}
  /\ \A j \in Job : jobs[j].call = "runCmdAsync" /\ jobs[j].told => jobs[j].closed = 1

\* What is submitted describes all sub-commands the command has, with the
\* tuning parameters they were last given.
HeaderCurrent == \A j \in Job : jobs[j].current

\* A thread never waits for the lock it holds.
NoSelfLock == \A t \in Threads : ~At(t, "locked")

\* Every call returns.
CallsReturn == \A t \in Threads : ~At(t, "idle") ~> At(t, "idle")

=============================================================================
