----------------------------- MODULE CmdExecV2 -----------------------------
(***************************************************************************)
(* Execution of one apusysCmd_v2 by several threads: build, run, runAsync, *)
(* wait, runFence and the destructor, with the exec-info buffer they       *)
(* rebuild, the completion fences they hand around, and the kernel driver  *)
(* (external) that completes the submitted jobs in any order.              *)
(*                                                                         *)
(* A step is what a thread does between two points another thread can      *)
(* observe.  The command mutex mMtx protects everything but two accesses:  *)
(* run() and wait() read mExecInfo before they lock it, and addCmdBuf()    *)
(* sets the dirty flag without it.  The freeing and the allocation of the  *)
(* exec-info buffer are therefore steps of their own.                      *)
(*                                                                         *)
(* Buffers and jobs are numbered in the order they are created and never   *)
(* reused; an access to a freed buffer may find anything.  A job number    *)
(* stands for the fence fd of the job too.                                 *)
(***************************************************************************)
EXTENDS Naturals, Sequences, SequencesExt

CONSTANTS Threads,      \* the threads that use the command
          MaxJobs,      \* bound on accepted submissions
          MaxFreeJobs,  \* the same for "free" callers, who can do much more
          MaxBuffers,   \* bound on exec-info allocations
          Clients,      \* kinds of callers to consider, see MayCall
          NoThread

ASSUME ConstantsAssumption == /\ MaxJobs \in Nat
                              /\ MaxFreeJobs \in 0 .. MaxJobs
                              /\ MaxBuffers \in Nat
                              /\ Clients \subseteq {"single", "built", "free"}
                              /\ NoThread \notin Threads

VARIABLES mtx,          \* owner of mMtx
          dirty,        \* mDirty has SUBCMD or CMDBUF
          execInfo,     \* mExecInfo; 0 is nullptr
          live,         \* exec-info buffers in the session's mCmdBufMap
          buffers,      \* results in the buffers allocated so far
          fences,       \* mFenceList
          jobs,         \* accepted submissions: buffer, state, result, and
                        \* what run() or wait() reported for it
          closed,       \* jobs whose fence fd was closed
          given,        \* jobs whose fence fd runFence returned to the caller
          thr,          \* per thread: position and locals of the current call
          alive,        \* neither deleted nor dead of an invalid access
          client        \* the kind of callers; never changes

cmd  == <<dirty, execInfo, live>>
fds  == <<fences, closed, given>>
vars == <<mtx, cmd, buffers, fds, jobs, thr, alive, client>>

Calls == {"build", "run", "runAsync", "runFence", "wait"}
Job   == 1 .. Len(jobs)
Idle  == [pc |-> "idle", call |-> "wait", eInfo |-> 0, fd |-> 0, polled |-> "error"]

Waiters == {t \in Threads : thr[t].pc \in {"poll", "finish"}}
Held    == {thr[t].fd : t \in Waiters}

At(t, pc)    == alive /\ thr[t].pc = pc
GoTo(t, pc)  == thr' = [thr EXCEPT ![t].pc = pc]
Return(t)    == thr' = [thr EXCEPT ![t] = Idle]

-----------------------------------------------------------------------------
\* The callers.  "free" callers do as they like.  The others build and modify
\* the command only while nothing uses it, run it only when it is built and
\* not modified since, and wait only after an asynchronous run.  "built"
\* callers may start a run while another is under way; "single" callers start
\* one only when the previous call returned, its fence is closed and the
\* driver has completed its job.
InUse == \/ \E j \in Job : j \notin closed
         \/ \E t \in Threads : thr[t].pc # "idle"

JobBound == IF client = "free" THEN MaxFreeJobs ELSE MaxJobs

Outstanding == InUse \/ \E j \in Job : jobs[j].state = "running"

MayModify == client = "free" \/ ~Outstanding

MayCall(c) ==
  \/ client = "free"
  \/ c = "build" /\ ~Outstanding
  \/ c = "wait" /\ fences # <<>>
  \/ /\ c \in {"run", "runAsync", "runFence"}
     /\ ~dirty /\ execInfo # 0
     /\ client = "single" => ~Outstanding
     /\ \A t \in Threads : thr[t].call # "build"

\* createSubCmd, setDependency*, addCmdBuf: the last sets the flag without
\* holding mMtx.
Modify == /\ alive /\ ~dirty /\ MayModify
          /\ dirty' = TRUE
          /\ UNCHANGED <<mtx, execInfo, live, buffers, fds, jobs, thr, alive>>

\* run() and wait() fetch mExecInfo before they lock the command.
Call(t, c) ==
  /\ At(t, "idle") /\ MayCall(c)
  /\ thr' = [thr EXCEPT ![t].pc = "lock", ![t].call = c,
                        ![t].eInfo = IF c \in {"run", "wait"} THEN execInfo ELSE 0]
  /\ UNCHANGED <<mtx, cmd, buffers, fds, jobs, alive>>

-----------------------------------------------------------------------------
LockAlwaysBuilds(t) == /\ At(t, "lock") /\ thr[t].call # "wait" /\ mtx = NoThread
                       /\ mtx' = t
                       /\ GoTo(t, "free")
                       /\ UNCHANGED <<cmd, buffers, fds, jobs, alive>>

\* build() always constructs; submit() does when the command is dirty.
Lock(t) == /\ At(t, "lock") /\ thr[t].call # "wait" /\ mtx = NoThread
           /\ mtx' = t
           /\ GoTo(t, IF thr[t].call = "build" \/ dirty THEN "free" ELSE "ioctl")
           /\ UNCHANGED <<cmd, buffers, fds, jobs, alive>>

ConstructFreeLeaks(t) == /\ At(t, "free")
                         /\ execInfo' = 0
                         /\ GoTo(t, "alloc")
                         /\ UNCHANGED <<mtx, dirty, live, buffers, fds, jobs, alive>>

ConstructFree(t) == /\ At(t, "free")
                    /\ live' = live \ {execInfo}
                    /\ execInfo' = 0
                    /\ GoTo(t, "alloc")
                    /\ UNCHANGED <<mtx, dirty, buffers, fds, jobs, alive>>

\* build() is over after this; submit() goes on whether or not it worked.
AfterConstruct(t) == IF thr[t].call = "build"
                     THEN Return(t) /\ mtx' = NoThread
                     ELSE GoTo(t, "ioctl") /\ UNCHANGED mtx

ConstructAlloc(t) == /\ At(t, "alloc") /\ Len(buffers) < MaxBuffers
                     /\ buffers' = Append(buffers, "ok")
                     /\ execInfo' = Len(buffers) + 1
                     /\ live' = live \cup {Len(buffers) + 1}
                     /\ dirty' = FALSE
                     /\ AfterConstruct(t)
                     /\ UNCHANGED <<fds, jobs, alive>>

ConstructFail(t) == /\ At(t, "alloc")
                    /\ AfterConstruct(t)
                    /\ UNCHANGED <<cmd, buffers, fds, jobs, alive>>

\* The driver accepts the submission: run() keeps the fence and polls it,
\* runAsync() queues it, runFence() returns it.
Submit(t) ==
  LET j == Len(jobs) + 1
      c == thr[t].call
  IN  /\ At(t, "ioctl") /\ Len(jobs) < JobBound
      /\ jobs' = Append(jobs, [buf |-> execInfo, state |-> "running", res |-> "ok",
                               told |-> "none"])
      /\ mtx' = NoThread
      /\ fences' = IF c = "runAsync" THEN Append(fences, j) ELSE fences
      /\ given' = IF c = "runFence" THEN given \cup {j} ELSE given
      /\ thr' = [thr EXCEPT ![t] = IF c = "run" THEN [@ EXCEPT !.pc = "poll", !.fd = j]
                                   ELSE Idle]
      /\ UNCHANGED <<cmd, buffers, closed, alive>>

SubmitFailQueues(t) == /\ At(t, "ioctl")
                       /\ mtx' = NoThread
                       /\ fences' = IF thr[t].call = "runAsync"
                                    THEN Append(fences, Len(jobs) + 1) ELSE fences
                       /\ Return(t)
                       /\ UNCHANGED <<cmd, buffers, closed, given, jobs, alive>>

SubmitFailKeepsLock(t) == /\ At(t, "ioctl")
                          /\ Return(t)
                          /\ UNCHANGED <<mtx, cmd, buffers, fds, jobs, alive>>

SubmitFail(t) == /\ At(t, "ioctl")
                 /\ mtx' = NoThread
                 /\ Return(t)
                 /\ UNCHANGED <<cmd, buffers, fds, jobs, alive>>

WaitTakeKeeps(t) == /\ At(t, "lock") /\ thr[t].call = "wait" /\ mtx = NoThread
                    /\ fences # <<>>
                    /\ thr' = [thr EXCEPT ![t].pc = "poll", ![t].fd = Last(fences)]
                    /\ UNCHANGED <<mtx, cmd, buffers, fds, jobs, alive>>

\* wait(): under mMtx, the youngest queued fence leaves the list.
WaitTake(t) == /\ At(t, "lock") /\ thr[t].call = "wait" /\ mtx = NoThread
               /\ fences # <<>>
               /\ thr' = [thr EXCEPT ![t].pc = "poll", ![t].fd = Last(fences)]
               /\ fences' = Front(fences)
               /\ UNCHANGED <<mtx, cmd, buffers, closed, given, jobs, alive>>

WaitNothing(t) == /\ At(t, "lock") /\ thr[t].call = "wait" /\ mtx = NoThread
                  /\ fences = <<>>
                  /\ Return(t)
                  /\ UNCHANGED <<mtx, cmd, buffers, fds, jobs, alive>>

-----------------------------------------------------------------------------
PollTimeoutIsSuccess(t) ==
  /\ At(t, "poll")
  /\ thr' = [thr EXCEPT ![t].pc = "finish", ![t].polled = "signalled"]
  /\ UNCHANGED <<mtx, cmd, buffers, fds, jobs, alive>>

\* waitSyncFile(): the fence is signalled once its job is done; otherwise
\* poll() ends with the time limit or an error.  There is always a limit.
Poll(t) == /\ At(t, "poll")
           /\ thr' = [thr EXCEPT ![t].pc = "finish",
                ![t].polled = IF jobs[thr[t].fd].state = "done" THEN "signalled" ELSE "error"]
           /\ UNCHANGED <<mtx, cmd, buffers, fds, jobs, alive>>

\* What the code after waitSyncFile can end with.  Results are read through
\* eInfo when it is not null; after an error the message reads it always.
Outcome(t) ==
  LET e         == thr[t].eInfo
      signalled == thr[t].polled = "signalled"
  IN  IF e = 0 THEN {IF signalled THEN "ok" ELSE "fault"}
      ELSE IF e \in live THEN {IF signalled THEN buffers[e] ELSE "errno"}
      ELSE {"fault"} \cup (IF signalled THEN {"ok", "fail"} ELSE {"errno"})

FinishNoClose(t) ==
  /\ At(t, "finish")
  /\ \E r \in Outcome(t) :
       /\ jobs' = [jobs EXCEPT ![thr[t].fd].told = r]
       /\ IF r = "fault"
          THEN alive' = FALSE /\ UNCHANGED thr
          ELSE Return(t) /\ UNCHANGED alive
  /\ UNCHANGED <<mtx, cmd, buffers, fds>>

\* Report and close(waitFence), or die.
Finish(t) ==
  /\ At(t, "finish")
  /\ \E r \in Outcome(t) :
       /\ jobs' = [jobs EXCEPT ![thr[t].fd].told = r]
       /\ IF r = "fault"
          THEN alive' = FALSE /\ UNCHANGED <<closed, thr>>
          ELSE closed' = closed \cup {thr[t].fd} /\ Return(t) /\ UNCHANGED alive
  /\ UNCHANGED <<mtx, cmd, buffers, fences, given>>

\* The caller closes a fence it got from runFence().
CallerClose(j) == /\ alive /\ j \in given
                  /\ given' = given \ {j}
                  /\ closed' = closed \cup {j}
                  /\ UNCHANGED <<mtx, cmd, buffers, fences, jobs, thr, alive>>

\* The driver finishes a job and writes its result to the buffer the job was
\* submitted with; it holds a reference of its own to that buffer.
Complete(j) ==
  /\ alive /\ jobs[j].state = "running"
  /\ \E r \in {"ok", "fail"} :
       /\ jobs' = [jobs EXCEPT ![j].state = "done", ![j].res = r]
       /\ buffers' = IF jobs[j].buf = 0 THEN buffers
                     ELSE [buffers EXCEPT ![jobs[j].buf] = r]
  /\ UNCHANGED <<mtx, cmd, fds, thr, alive>>

\* The destructor frees the exec-info buffer and forgets the queued fences.
Delete == /\ alive /\ \A t \in Threads : thr[t].pc = "idle"
          /\ live' = live \ {execInfo}
          /\ execInfo' = 0
          /\ dirty' = TRUE
          /\ alive' = FALSE
          /\ UNCHANGED <<mtx, buffers, fds, jobs, thr>>

\* The command is gone: nothing is expected to happen any more.
Gone == ~alive /\ UNCHANGED <<mtx, cmd, buffers, fds, jobs, thr, alive>>

-----------------------------------------------------------------------------
\* A command with sub-commands that was never built.
Init == /\ mtx = NoThread
        /\ dirty = TRUE
        /\ execInfo = 0
        /\ live = {}
        /\ buffers = <<>>
        /\ fences = <<>>
        /\ jobs = <<>>
        /\ closed = {}
        /\ given = {}
        /\ thr = [t \in Threads |-> Idle]
        /\ alive = TRUE
        /\ client \in Clients

Acquire(t) == Lock(t) \/ WaitTake(t) \/ WaitNothing(t)

Proceed(t) == \/ ConstructFree(t) \/ ConstructAlloc(t) \/ ConstructFail(t)
              \/ Submit(t) \/ SubmitFail(t) \/ Poll(t) \/ Finish(t)

Step == \/ \E t \in Threads : \/ \E c \in Calls : Call(t, c)
                             \/ Acquire(t)
                             \/ Proceed(t)
        \/ \E j \in Job : Complete(j) \/ CallerClose(j)
        \/ Modify \/ Delete

Next == (Step \/ Gone) /\ UNCHANGED client

Spec == Init /\ [][Next]_vars

\* A thread that can go on does; one that keeps finding mMtx free gets it.
\* The driver and the callers owe nothing.
FairSpec == Spec /\ \A t \in Threads : SF_vars(Acquire(t) /\ UNCHANGED client)
                           /\ WF_vars(Proceed(t) /\ UNCHANGED client)

-----------------------------------------------------------------------------
JobRecord == [buf : 0 .. MaxBuffers, state : {"running", "done"}, res : {"ok", "fail"},
              told : {"none", "ok", "fail", "errno", "fault"}]

ThreadRecord ==
  [pc : {"idle", "lock", "free", "alloc", "ioctl", "poll", "finish"}, call : Calls,
   eInfo : 0 .. MaxBuffers, fd : 0 .. MaxJobs, polled : {"signalled", "error"}]

TypeOK ==
  /\ mtx \in Threads \cup {NoThread}
  /\ dirty \in BOOLEAN
  /\ alive \in BOOLEAN
  /\ client \in Clients
  /\ buffers \in Seq({"ok", "fail"}) /\ Len(buffers) <= MaxBuffers
  /\ execInfo \in 0 .. Len(buffers)
  /\ live \subseteq 1 .. Len(buffers)
  /\ jobs \in Seq(JobRecord) /\ Len(jobs) <= MaxJobs
  /\ fences \in Seq(Job)
  /\ closed \subseteq Job
  /\ given \subseteq Job
  /\ thr \in [Threads -> ThreadRecord]

(* Every fence the driver returned is in exactly one place: queued once in  *)
(* mFenceList, held by one waiting call, with the caller of runFence, or    *)
(* closed.  So no fence leaks while the command lives, none is closed       *)
(* twice, and no two calls wait for the same run.  And however often the    *)
(* command is rebuilt, also when an allocation failed, the session keeps no *)
(* exec-info buffer but the current one.                                    *)
ResourcesConserved ==
  /\ live = {execInfo} \ {0}
  /\ ToSet(fences) \cup Held \cup given \cup closed = Job
  /\ \A i, k \in DOMAIN fences : fences[i] = fences[k] => i = k
  /\ \A t, u \in Waiters : thr[t].fd = thr[u].fd => t = u
  /\ ToSet(fences) \cap (Held \cup given \cup closed) = {}
  /\ Held \cap (given \cup closed) = {}
  /\ given \cap closed = {}

(* When runs of a built command do not overlap, run() and wait() report the *)
(* very run they waited for: 0 only after it succeeded, its error only      *)
(* after it failed, and never by way of a null or freed buffer: the one     *)
(* fetched before mMtx was locked is still there when it is read.           *)
ReportsOwnResult ==
  client = "single" =>
    \A j \in Job : /\ jobs[j].told # "fault"
                   /\ jobs[j].told \in {"ok", "fail"} =>
                        jobs[j].state = "done" /\ jobs[j].told = jobs[j].res

(* Waiting ends with a return value, never with an access to a null or      *)
(* freed exec-info buffer.                                                  *)
NoInvalidAccess == \A j \in Job : jobs[j].told # "fault"

(* Every call returns, also when the driver never completes the job: poll() *)
(* always has a time limit and mMtx is always released.                     *)
CallsReturn ==
  \A t \in Threads : thr[t].pc # "idle" ~> (thr[t].pc = "idle" \/ ~alive)

-----------------------------------------------------------------------------
(* Submission, the LIFO list, the hand-over to a waiting call and close()   *)
(* implement tickets that are claimed once and retired once.                *)
Tickets == INSTANCE FenceTickets WITH
             Ticket  <- 1 .. MaxJobs,
             waiting <- ToSet(fences),
             claimed <- Held,
             retired <- closed,
             up      <- alive

ImplementsTickets == Tickets!Spec
=============================================================================
