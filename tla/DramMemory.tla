----------------------------- MODULE DramMemory -----------------------------
(***************************************************************************)
(* Main memory where the driver is the first one: the allocators of        *)
(* middleware 1.0 (MTK ION, AOSP ION, the driver's own DMA memory, VLM)    *)
(* under apusysEngine, and apusysExecutor_v1 under apusysSession.          *)
(*                                                                         *)
(* Memory is up to four things, each taken from the kernel by a call of    *)
(* its own that may fail: an ION handle, a dma-buf descriptor that shares  *)
(* it, a host mapping and a device mapping.  A function of an allocator is *)
(* the order in which it makes these calls, and the failures it passes     *)
(* over; what all of them have in common are the actions.  Each call is a  *)
(* step, so that the threads of one or several owners interleave.          *)
(*                                                                         *)
(* The ION descriptor is shared by all owners of the process: the first    *)
(* constructor opens it, the last destructor closes it, and the kernel     *)
(* takes back the handles that were made through it.                       *)
(*                                                                         *)
(* An owner is an engine or a session.  Callers give back what they have   *)
(* once, by the call that belongs to it, and delete an owner when none of  *)
(* its calls is in progress.  A call that makes no kernel call (a size, a  *)
(* type or an address that is refused) is not an action.                   *)
(***************************************************************************)
EXTENDS Naturals, Sequences, FiniteSets, SequencesExt

CONSTANTS Kinds,            \* the allocators checked, of those below
          Owners, Threads,
          MaxObj,           \* bound on memory objects at a time
          NoThread, NoOwner

AllKinds == {"ion", "aosp", "dma", "vlm", "exec1"}

ASSUME MemoryAssumption == /\ Kinds \subseteq AllKinds
                           /\ IsFiniteSet(Owners)
                           /\ NoThread \notin Threads
                           /\ NoOwner \notin Owners
                           /\ MaxObj \in Nat \ {0}

VARIABLES kind,             \* the allocator of this platform, never changed
          up,               \* owners constructed and not destroyed
          refCnt,           \* mIonFdRefCnt
          ionOpen,          \* kernel: mIonFd is open
          objs,             \* memory objects and what they have from the kernel
          mtx,              \* per owner: who has mMemListMtx or mMemMapMtx
          thr,              \* per thread: position and locals of the current call
          harm,             \* what was released that was not the owner's
          spoiled           \* why a destructor of a session left memory behind

vars == <<kind, up, refCnt, ionOpen, objs, mtx, thr, harm, spoiled>>

-----------------------------------------------------------------------------
\* The kernel calls of each function in their order, and the resources for
\* which a failure is logged and passed over.
Function(steps, ignored) == [steps |-> steps, ignored |-> ignored]

ionAlloc    == Function(<<"handle", "share", "va", "dev">>, {})
ionFree     == Function(<<"dev", "va", "share", "handle">>, {"dev"})
ionImport   == Function(<<"handle", "va", "dev">>, {})
ionUnimportLikeFree == Function(<<"dev", "va", "share", "handle">>, {"dev"})

ionUnimport == Function(<<"dev", "va", "handle">>, {"dev"})

aospAlloc    == Function(<<"share", "va", "dev">>, {})
aospFree     == Function(<<"dev", "va", "share">>, {})
aospImport   == Function(<<"va", "dev">>, {})
aospUnimport == Function(<<"dev", "va">>, {})

dmaAlloc == Function(<<"dev", "va">>, {})
dmaFree  == Function(<<"va", "dev">>, {})

vlmAlloc == Function(<<>>, {})
vlmFree  == Function(<<>>, {})

\* The executor's functions and the session's, which are made of them.
\* memMapDeviceVa() returns 0 whatever the driver says, so that memAlloc() goes
\* on with memory the devices cannot address; memFree() passes over what
\* memUnMapDeviceVa() returns.
exec1MemAlloc      == Function(<<"handle", "share", "va">>, {})
exec1MemFree       == Function(<<"va", "share", "handle">>, {})
exec1MapDeviceVa   == Function(<<"dev">>, {"dev"})
exec1UnMapDeviceVa == Function(<<"dev">>, {})
exec1Import        == Function(<<"handle", "va", "dev">>, {})
exec1Unimport      == Function(<<"dev", "va", "handle">>, {})

Then(f, g)    == Function(f.steps \o g.steps, f.ignored \cup g.ignored)
PassedOver(f) == Function(f.steps, ToSet(f.steps))

memAlloc    == Then(exec1MemAlloc, exec1MapDeviceVa)
memFree     == Then(PassedOver(exec1UnMapDeviceVa), exec1MemFree)
cmdBufAlloc == exec1MemAlloc
cmdBufFree  == exec1MemFree

Functions ==
  [ion   |-> [alloc |-> ionAlloc, free |-> ionFree,
              import |-> ionImport, unimport |-> ionUnimport],
   aosp  |-> [alloc |-> aospAlloc, free |-> aospFree,
              import |-> aospImport, unimport |-> aospUnimport],
   dma   |-> [alloc |-> dmaAlloc, free |-> dmaFree],
   vlm   |-> [alloc |-> vlmAlloc, free |-> vlmFree],
   exec1 |-> [alloc |-> memAlloc, free |-> memFree,
              import |-> exec1Import, unimport |-> exec1Unimport,
              cmdBufAlloc |-> cmdBufAlloc, cmdBufFree |-> cmdBufFree]]

Releases  == [alloc |-> "free", import |-> "unimport", cmdBufAlloc |-> "cmdBufFree"]
Creating  == DOMAIN Releases
Releasing == {Releases[op] : op \in Creating}
Session   == kind = "exec1"
Counts    == kind = "ion" \/ Session     \* owners that share the ION descriptor

\* A call that holds the mutex of its owner from its first step to its last.
UnderLock(op) == \/ kind = "ion"
                 \/ kind = "aosp" /\ op \in {"alloc", "free"}
                 \/ Session /\ op \in Releasing

\* A call that changes the list without a mutex: callers keep others away.
Unguarded(op) == \/ kind \in {"dma", "vlm"}
                 \/ kind = "aosp" /\ op \in {"import", "unimport"}

-----------------------------------------------------------------------------
Nothing == [owner |-> NoOwner, origin |-> "alloc", has |-> {}, entry |-> FALSE,
            held |-> FALSE, refused |-> {}]

Idle == [pc |-> "idle", op |-> "alloc", owner |-> NoOwner, obj |-> 0, todo |-> <<>>,
         stage |-> "none"]

Obj         == 1 .. MaxObj
At(t, pc)   == thr[t].pc = pc
In(w)       == {t \in Threads : thr[t].owner = w}
This(t)     == Functions[kind][thr[t].op]
Free(o)     == objs[o] = Nothing /\ \A t \in Threads : thr[t].obj # o

MayBegin(w, op) ==
  /\ \A t \in In(w) : ~Unguarded(thr[t].op) /\ thr[t].stage = "none"
  /\ Unguarded(op) => In(w) = {}

Begin(t, w, op, o) ==
  /\ At(t, "idle") /\ w \in up /\ MayBegin(w, op)
  /\ thr' = [thr EXCEPT ![t] = [Idle EXCEPT !.pc = "enter", !.op = op, !.owner = w, !.obj = o,
                                           !.todo = Functions[kind][op].steps]]

\* memAlloc(), memImport(), cmdBufAlloc(): the object gets a free place.
BeginCreate(t, w, op) ==
  \E o \in Obj : /\ Free(o) /\ \A p \in 1 .. o - 1 : ~Free(p)
                 /\ Begin(t, w, op, o)
                 /\ objs' = [objs EXCEPT ![o] = [Nothing EXCEPT !.owner = w, !.origin = op]]
                 /\ UNCHANGED <<kind, up, refCnt, ionOpen, mtx, harm, spoiled>>

\* memFree(), memUnImport(), cmdBufFree(): the caller gives up what it has.
BeginRelease(t, o) ==
  /\ objs[o].held
  /\ Begin(t, objs[o].owner, Releases[objs[o].origin], o)
  /\ objs' = [objs EXCEPT ![o].held = FALSE]
  /\ UNCHANGED <<kind, up, refCnt, ionOpen, mtx, harm, spoiled>>

\* Lock, and find the object.  The allocators erase it from their list before
\* they release it, the session only afterwards.
Enter(t) ==
  LET c == thr[t]
  IN  /\ At(t, "enter")
      /\ UnderLock(c.op) => mtx[c.owner] = NoThread
      /\ mtx' = IF UnderLock(c.op) THEN [mtx EXCEPT ![c.owner] = t] ELSE mtx
      /\ objs' = [objs EXCEPT ![c.obj].entry = @ /\ (Session \/ c.op \in Creating)]
      /\ thr' = [thr EXCEPT ![t].pc = "work"]
      /\ UNCHANGED <<kind, up, refCnt, ionOpen, harm, spoiled>>

\* The call is over; in a destructor the loop goes on, or ends when it failed.
AfterFailure == [none |-> "none", cmdBufs |-> "mems", mems |-> "executor"]

Leave(t, failed) ==
  LET c == thr[t]
  IN  /\ mtx' = IF mtx[c.owner] = t THEN [mtx EXCEPT ![c.owner] = NoThread] ELSE mtx
      /\ spoiled' = IF failed /\ c.stage # "none" THEN spoiled \cup {"refusal"} ELSE spoiled
      /\ thr' = [thr EXCEPT ![t] =
                   IF c.stage = "none" THEN Idle
                   ELSE [Idle EXCEPT !.pc = "loop", !.owner = c.owner,
                                     !.stage = IF failed THEN AfterFailure[c.stage] ELSE c.stage]]

\* What is left of an object nobody can reach any more.
Remains(obj) == IF obj.has = {} /\ ~obj.entry /\ ~obj.held THEN Nothing ELSE obj

-----------------------------------------------------------------------------
\* A call that makes memory takes one resource after the other.
Acquire(t) ==
  LET c == thr[t]
  IN  /\ At(t, "work") /\ c.op \in Creating /\ c.todo # <<>>
      /\ objs' = [objs EXCEPT ![c.obj].has = @ \cup {Head(c.todo)}]
      /\ thr' = [thr EXCEPT ![t].todo = Tail(@)]
      /\ UNCHANGED <<kind, up, refCnt, ionOpen, mtx, harm, spoiled>>

\* The error path gives back what was taken so far, in reverse order.
UnwindingSkipsLast(steps, todo) ==
  LET taken == Reverse(SubSeq(steps, 1, Len(steps) - Len(todo)))
  IN IF taken = <<>> THEN taken ELSE Tail(taken)

Unwinding(steps, todo) == Reverse(SubSeq(steps, 1, Len(steps) - Len(todo)))

AcquireFails(t) ==
  LET c == thr[t]
  IN  /\ At(t, "work") /\ c.op \in Creating /\ c.todo # <<>>
      /\ thr' = IF Head(c.todo) \in This(t).ignored
                THEN [thr EXCEPT ![t].todo = Tail(@)]
                ELSE [thr EXCEPT ![t].pc = "unwind",
                                 ![t].todo = Unwinding(This(t).steps, c.todo)]
      /\ UNCHANGED <<kind, up, refCnt, ionOpen, objs, mtx, harm, spoiled>>

\* The resource the kernel will not take back, and the function that offered it.
Refusal(t) == [by |-> thr[t].op, of |-> Head(thr[t].todo)]

\* A failure on the error path is logged, and the next resource is released.
Unwind(t) ==
  LET c == thr[t]
  IN  /\ At(t, "unwind") /\ c.todo # <<>>
      /\ \/ objs' = [objs EXCEPT ![c.obj].has = @ \ {Head(c.todo)}]
         \/ objs' = [objs EXCEPT ![c.obj].refused = @ \cup {Refusal(t)}]
      /\ thr' = [thr EXCEPT ![t].todo = Tail(@)]
      /\ UNCHANGED <<kind, up, refCnt, ionOpen, mtx, harm, spoiled>>

Unwound(t) ==
  /\ At(t, "unwind") /\ thr[t].todo = <<>>
  /\ objs' = [objs EXCEPT ![thr[t].obj] = Remains(@)]
  /\ Leave(t, FALSE)
  /\ UNCHANGED <<kind, up, refCnt, ionOpen, harm>>

\* Enter the object in the list (the session locks for that alone) and return.
Insert(t) ==
  LET c == thr[t]
  IN  /\ At(t, "work") /\ c.op \in Creating /\ c.todo = <<>>
      /\ mtx[c.owner] \in {t, NoThread}
      /\ objs' = [objs EXCEPT ![c.obj].entry = TRUE, ![c.obj].held = TRUE]
      /\ Leave(t, FALSE)
      /\ UNCHANGED <<kind, up, refCnt, ionOpen, harm>>

\* A call that releases.  A session does not ask the driver to unmap what has
\* no device mapping; the descriptor shared in an import is the caller's.
Release(t) ==
  LET c == thr[t]
      r == Head(c.todo)
      o == objs[c.obj]
  IN  /\ At(t, "work") /\ c.op \in Releasing /\ c.todo # <<>>
      /\ objs' = [objs EXCEPT ![c.obj].has = @ \ {r}]
      /\ harm' = CASE r \in o.has -> harm
                   [] r \notin o.has /\ r \in This(t).ignored -> harm
                   [] OTHER -> harm \cup {IF r = "share" THEN "caller" ELSE "stale"}
      /\ thr' = [thr EXCEPT ![t].todo = Tail(@)]
      /\ UNCHANGED <<kind, up, refCnt, ionOpen, mtx, spoiled>>

\* The session erases its entry whatever memFree() of the executor returned,
\* but keeps that of an import it could not give back.
StaysEntered(t, o) == o.entry /\ thr[t].op = "unimport"

Refused(t) ==
  LET c == thr[t]
      o == [objs[c.obj] EXCEPT !.refused = @ \cup {Refusal(t)}]
  IN  /\ At(t, "work") /\ c.op \in Releasing /\ c.todo # <<>>
      /\ IF Head(c.todo) \in This(t).ignored
         THEN /\ objs' = [objs EXCEPT ![c.obj] = o]
              /\ thr' = [thr EXCEPT ![t].todo = Tail(@)]
              /\ UNCHANGED <<mtx, spoiled>>
         ELSE /\ objs' = [objs EXCEPT ![c.obj] =
                            Remains([o EXCEPT !.entry = StaysEntered(t, o)])]
              /\ Leave(t, TRUE)
      /\ UNCHANGED <<kind, up, refCnt, ionOpen, harm>>

Released(t) ==
  LET c == thr[t]
  IN  /\ At(t, "work") /\ c.op \in Releasing /\ c.todo = <<>>
      /\ objs' = [objs EXCEPT ![c.obj] = Remains([@ EXCEPT !.entry = FALSE])]
      /\ Leave(t, FALSE)
      /\ UNCHANGED <<kind, up, refCnt, ionOpen, harm>>

-----------------------------------------------------------------------------
\* Constructor and destructor of an owner, under mIonFdMutex.
ConstructCountsOpens(w) ==
  /\ w \notin up
  /\ up' = up \cup {w}
  /\ ionOpen' = (ionOpen \/ (Counts /\ refCnt <= 0))
  /\ refCnt' = IF Counts /\ refCnt <= 0 THEN refCnt + 1 ELSE refCnt
  /\ UNCHANGED <<kind, objs, mtx, thr, harm, spoiled>>

ConstructCountsTwice(w) ==
  /\ w \notin up
  /\ up' = up \cup {w}
  /\ ionOpen' = (ionOpen \/ (Counts /\ refCnt <= 0))
  /\ refCnt' = IF ~Counts THEN refCnt ELSE IF refCnt <= 0 THEN refCnt + 2 ELSE refCnt + 1
  /\ UNCHANGED <<kind, objs, mtx, thr, harm, spoiled>>

Construct(w) ==
  /\ w \notin up
  /\ up' = up \cup {w}
  /\ ionOpen' = (ionOpen \/ (Counts /\ refCnt <= 0))
  /\ refCnt' = IF Counts THEN refCnt + 1 ELSE refCnt
  /\ UNCHANGED <<kind, objs, mtx, thr, harm, spoiled>>

\* What the owner had is nobody's any more; without descriptor the kernel
\* takes back the handles.
Abandoned(obj, w, closing) ==
  LET left == IF obj.owner = w
              THEN [obj EXCEPT !.owner = NoOwner, !.entry = FALSE, !.held = FALSE]
              ELSE obj
  IN [left EXCEPT !.has = IF closing THEN @ \ {"handle"} ELSE @]

Abandon(w, closing) ==
  [o \in Obj |-> LET left == Abandoned(objs[o], w, closing)
                IN IF \E t \in Threads : thr[t].obj = o THEN left ELSE Remains(left)]

Destruct(w) ==
  LET last == Counts /\ refCnt = 1
  IN  /\ up' = up \ {w}
      /\ refCnt' = IF Counts THEN refCnt - 1 ELSE refCnt
      /\ ionOpen' = (ionOpen /\ ~last)
      /\ objs' = Abandon(w, last)

\* An engine goes, and frees no memory.
destroyEngine(w) ==
  /\ ~Session /\ w \in up /\ In(w) = {}
  /\ Destruct(w)
  /\ UNCHANGED <<kind, mtx, thr, harm, spoiled>>

\* A session goes: it frees the residual command buffers, then the residual
\* memory, each until one fails, and deletes its executor.
deleteInstance(t, w) ==
  /\ Session /\ w \in up /\ In(w) = {} /\ At(t, "idle")
  /\ objs' = [o \in Obj |-> IF objs[o].owner = w THEN [objs[o] EXCEPT !.held = FALSE]
                            ELSE objs[o]]
  /\ thr' = [thr EXCEPT ![t] = [Idle EXCEPT !.pc = "loop", !.owner = w, !.stage = "cmdBufs"]]
  /\ UNCHANGED <<kind, up, refCnt, ionOpen, mtx, harm, spoiled>>

Residual(w, stage) ==
  {o \in Obj : /\ objs[o].owner = w /\ objs[o].entry
               /\ (stage = "cmdBufs") <=> (objs[o].origin = "cmdBufAlloc")}

\* memFree() does not tell an import from memory of the session.
freeResidual(t) ==
  LET c  == thr[t]
      op == IF c.stage = "cmdBufs" THEN "cmdBufFree" ELSE "free"
  IN  /\ At(t, "loop") /\ c.stage \in {"cmdBufs", "mems"}
      /\ \E o \in Residual(c.owner, c.stage) :
            /\ thr' = [thr EXCEPT ![t].pc = "enter", ![t].op = op, ![t].obj = o,
                                  ![t].todo = Functions[kind][op].steps]
            /\ spoiled' = IF objs[o].origin = "import" THEN spoiled \cup {"import"} ELSE spoiled
      /\ UNCHANGED <<kind, up, refCnt, ionOpen, objs, mtx, harm>>

noResidual(t) ==
  /\ At(t, "loop") /\ thr[t].stage \in {"cmdBufs", "mems"}
  /\ Residual(thr[t].owner, thr[t].stage) = {}
  /\ thr' = [thr EXCEPT ![t].stage = AfterFailure[@]]
  /\ UNCHANGED <<kind, up, refCnt, ionOpen, objs, mtx, harm, spoiled>>

deleteExecutor(t) ==
  /\ At(t, "loop") /\ thr[t].stage = "executor"
  /\ Destruct(thr[t].owner)
  /\ thr' = [thr EXCEPT ![t] = Idle]
  /\ UNCHANGED <<kind, mtx, harm, spoiled>>

-----------------------------------------------------------------------------
Init == /\ kind \in Kinds
        /\ up = {} /\ refCnt = 0 /\ ionOpen = FALSE
        /\ objs = [o \in Obj |-> Nothing]
        /\ mtx = [w \in Owners |-> NoThread]
        /\ thr = [t \in Threads |-> Idle]
        /\ harm = {} /\ spoiled = {}

Next ==
  \/ \E w \in Owners : Construct(w) \/ destroyEngine(w)
  \/ \E t \in Threads :
       \/ \E w \in Owners : \/ \E op \in Creating \cap DOMAIN Functions[kind] : BeginCreate(t, w, op)
                            \/ deleteInstance(t, w)
       \/ \E o \in Obj : BeginRelease(t, o)
       \/ Enter(t) \/ Acquire(t) \/ AcquireFails(t) \/ Unwind(t) \/ Unwound(t) \/ Insert(t)
       \/ Release(t) \/ Refused(t) \/ Released(t)
       \/ freeResidual(t) \/ noResidual(t) \/ deleteExecutor(t)

Spec == Init /\ [][Next]_vars

-----------------------------------------------------------------------------
Resources == {"handle", "share", "va", "dev"}

ThreadRecord ==
  [pc : {"idle", "enter", "work", "unwind", "loop"}, op : Creating \cup Releasing,
   owner : Owners \cup {NoOwner}, obj : 0 .. MaxObj, todo : Seq(Resources),
   stage : {"none", "cmdBufs", "mems", "executor"}]

(* Values the C++ types and the bounds of the model allow.                  *)
TypeOK ==
  /\ kind \in Kinds
  /\ up \subseteq Owners
  /\ refCnt \in 0 .. Cardinality(Owners)
  /\ ionOpen \in BOOLEAN
  /\ objs \in [Obj -> [owner : Owners \cup {NoOwner}, origin : Creating, has : SUBSET Resources,
                       entry : BOOLEAN, held : BOOLEAN,
                       refused : SUBSET [by : Creating \cup Releasing, of : Resources]]]
  /\ mtx \in [Owners -> Threads \cup {NoThread}]
  /\ thr \in [Threads -> ThreadRecord]
  /\ harm \subseteq {"caller", "stale"} /\ spoiled \subseteq {"import", "refusal"}

(* Memory a caller has keeps its handle, descriptor and mappings, whatever  *)
(* other threads and owners allocate, fail to allocate, free or delete.     *)
(* Only device mappings may be missing, on the first driver.  And nothing   *)
(* is released that the owner does not have: not the descriptor of an       *)
(* import, which is the caller's, and not a mapping that is gone, as long   *)
(* as callers pair import and unimport ("user should guarentee              *)
(* import/unimport paired").                                                *)
HeldMemoryWhole ==
  /\ \A o \in Obj : objs[o].held =>
       LET f == Functions[kind][objs[o].origin]
       IN ToSet(f.steps) \ f.ignored \subseteq objs[o].has
  /\ "import" \notin spoiled => harm = {}

\* What the kernel refused to take back of an object.  And what was never
\* offered to it: a function that releases returns at the first refusal it does
\* not pass over, and leaves the steps behind it undone.
Denied(obj)  == {x.of : x \in obj.refused}
Behind(f, r) == {f.steps[n] : n \in {m \in DOMAIN f.steps : \E i \in 1 .. m - 1 : f.steps[i] = r}}
Stranded(obj) ==
  UNION {Behind(Functions[kind][x.by], x.of) :
           x \in {y \in obj.refused : /\ y.by \in Releasing
                                      /\ y.of \notin Functions[kind][y.by].ignored}}

Reachable(o) == objs[o].entry \/ \E t \in Threads : thr[t].obj = o

(* Whatever call of the kernel fails: each thing an owner took and did not  *)
(* give back is in its list, or in the hands of a call in progress, or the  *)
(* kernel refused to take that very thing, or it comes behind the refusal   *)
(* at which the function that releases it returns; an error path loses only *)
(* what was refused.  A session that goes frees the rest, unless an import  *)
(* or a refusal ends its loops, and the last owner closes the ION           *)
(* descriptor.                                                              *)
NothingLost ==
  /\ \A o \in Obj : objs[o].owner # NoOwner =>
       Reachable(o) \/ objs[o].has \subseteq Denied(objs[o]) \cup Stranded(objs[o])
  /\ Session /\ spoiled = {} =>
       \A o \in Obj : objs[o].owner = NoOwner =>
         objs[o].has \subseteq Denied(objs[o]) \cup Stranded(objs[o])
  /\ Counts => ionOpen = (up # {})
=============================================================================
