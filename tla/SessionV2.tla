----------------------------- MODULE SessionV2 -----------------------------
(***************************************************************************)
(* One apusysSession on apusysExecutor_v2, used by several threads: data   *)
(* memory, command buffers, imported memory and commands, with the two     *)
(* maps that translate a host address back to its object.                  *)
(*                                                                         *)
(* The executor allocates and maps memory without any lock and the session *)
(* enters it in a map afterwards, under mMemMapMtx; freeing happens inside *)
(* the lock, but gives the address back to the process before the entry is *)
(* erased.  So an address may be reused by one thread while another still  *)
(* works on its old entry, and each of these is a step of its own.         *)
(*                                                                         *)
(* Calls that fail without effect (allocation refused, an unknown address, *)
(* a null or unknown command) are not actions.                             *)
(***************************************************************************)
EXTENDS Naturals, Sequences, FiniteSets

CONSTANTS Threads,
          Addr,             \* host addresses mmap() and malloc() choose from
          WholeAddr,        \* the address that stands for the whole VLM
          Cmds,             \* the commands that may be created
          MaxObj,           \* bound on struct apusysMem objects
          MaxWhole,         \* bound on unfreed "whole VLM" allocations
          NoThread

ASSUME SessionAssumption == /\ WholeAddr \notin Addr
                            /\ MaxObj \in Nat \ {0}
                            /\ MaxWhole \in Nat
                            /\ NoThread \notin Threads

VARIABLES objs,             \* struct apusysMem, in the order of their creation
          fds,              \* objects whose dma-buf handle is open
          dva,              \* objects that are mapped for the device
          pins,             \* kernel: device mappings of each dma-buf
          space,            \* kernel: the object whose memory is at an address
          memMap, cbMap,    \* mMemMap, mCmdBufMap; 0: no entry
          memMtx, listMtx,  \* owners of mMemMapMtx, mCmdListMtx
          cmdList,          \* mCmdList
          cmds,             \* command objects that exist
          exec,             \* mExecInfo of each command; 0: nullptr
          held,             \* objects whose address a caller has, not freed yet
          whole,            \* unfreed allocations of the whole VLM
          refused,          \* objects the driver refused to unmap
          thr,              \* per thread: position and locals of the current call
          unimportFailed,   \* history: a memUnImport() returned an error
          alive             \* the session was not deleted

memory   == <<objs, fds, dva, pins, space>>
maps     == <<memMap, cbMap>>
commands == <<listMtx, cmdList, cmds, exec>>
callers  == <<held, whole>>
driver   == <<refused, unimportFailed>>
vars     == <<memory, maps, memMtx, commands, callers, driver, thr, alive>>

Addrs == Addr \cup {WholeAddr}
Whole == 1                      \* the object of mMemInfos, there from the start
Obj   == 1 .. Len(objs)

Idle == [pc |-> "idle", call |-> "memAlloc", obj |-> 0, addr |-> WholeAddr, cmd |-> {}]

At(t, pc)   == thr[t].pc = pc
GoTo(t, pc) == thr' = [thr EXCEPT ![t].pc = pc]
Return(t)   == thr' = [thr EXCEPT ![t] = Idle]
Busy(c)     == \E t \in Threads : thr[t].cmd = {c}

CanAllocate(a) == Len(objs) < MaxObj /\ space[a] = 0

\* executor memAlloc(): a new dma-buf, and memory at a free address.
NewObject(kind, a) ==
  /\ CanAllocate(a)
  /\ objs' = Append(objs, [kind |-> kind, buf |-> Len(objs) + 1, vaddr |-> a])
  /\ fds' = fds \cup {Len(objs) + 1}
  /\ space' = [space EXCEPT ![a] = Len(objs) + 1]

Begin(t, call, pc, o) ==
  /\ alive /\ At(t, "idle")
  /\ thr' = [thr EXCEPT ![t] = [Idle EXCEPT !.pc = pc, !.call = call, !.obj = o]]

\* A call on an address: the object it finds is looked up later, under the lock.
BeginAt(t, call, o) ==
  /\ alive /\ At(t, "idle")
  /\ thr' = [thr EXCEPT ![t] = [Idle EXCEPT !.pc = "lookup", !.call = call,
                                           !.addr = objs[o].vaddr]]

-----------------------------------------------------------------------------
\* Calls that create.
memAlloc(t, a) ==
  /\ NewObject("mem", a)
  /\ Begin(t, "memAlloc", "map", Len(objs) + 1)
  /\ UNCHANGED <<dva, pins, maps, memMtx, commands, callers, driver, alive>>

\* Size 0: the object of the whole VLM, the same for everybody.
WholeCalls == {u \in Threads : \/ thr[u].obj = Whole
                               \/ thr[u].call = "memFree" /\ thr[u].addr = WholeAddr}

memAllocWhole(t) ==
  /\ whole + Cardinality(WholeCalls) < MaxWhole
  /\ Begin(t, "memAlloc", "insert", Whole)
  /\ UNCHANGED <<memory, maps, memMtx, commands, callers, driver, alive>>

cmdBufAlloc(t, a) ==
  /\ NewObject("cmdbuf", a)
  /\ Begin(t, "cmdBufAlloc", "insert", Len(objs) + 1)
  /\ UNCHANGED <<dva, pins, maps, memMtx, commands, callers, driver, alive>>

\* executor memImport() of the handle of memory the caller has: dup(), the ioctl
\* that maps it for the device, mmap() or malloc().  a is the address that will
\* choose, if it comes to that; the thread's addr is that of the source.
memImport(t, o, a) ==
  /\ o \in held /\ objs[o].kind # "cmdbuf"
  /\ Len(objs) < MaxObj
  /\ alive /\ At(t, "idle")
  /\ objs' = Append(objs, [kind |-> "import", buf |-> objs[o].buf, vaddr |-> a])
  /\ fds' = fds \cup {Len(objs) + 1}
  /\ thr' = [thr EXCEPT ![t] = [Idle EXCEPT !.pc = "import", !.call = "memImport",
                                           !.obj = Len(objs) + 1, !.addr = objs[o].vaddr]]
  /\ UNCHANGED <<dva, pins, space, maps, memMtx, commands, callers, driver, alive>>

\* Refused, mapped without a device address, or mapped.
importMap(t) ==
  LET o == thr[t].obj
  IN  /\ At(t, "import")
      /\ \/ GoTo(t, "close") /\ UNCHANGED <<dva, pins>>
         \/ /\ dva' = dva \cup {o}
            /\ pins' = [pins EXCEPT ![objs[o].buf] = @ + 1]
            /\ GoTo(t, "undo") \/ GoTo(t, "mmap")
      /\ UNCHANGED <<objs, fds, space, maps, memMtx, commands, callers, driver, alive>>

mapImportSkipsUndo(t) ==
  LET o == thr[t].obj
  IN  /\ At(t, "mmap")
      /\ \/ /\ space[objs[o].vaddr] = 0
            /\ space' = [space EXCEPT ![objs[o].vaddr] = o]
            /\ GoTo(t, "insert")
         \/ GoTo(t, "close") /\ UNCHANGED space
      /\ UNCHANGED <<objs, fds, dva, pins, maps, memMtx, commands, callers, driver, alive>>

mapImport(t) ==
  LET o == thr[t].obj
  IN  /\ At(t, "mmap")
      /\ \/ /\ space[objs[o].vaddr] = 0
            /\ space' = [space EXCEPT ![objs[o].vaddr] = o]
            /\ GoTo(t, "insert")
         \/ GoTo(t, "undo") /\ UNCHANGED space
      /\ UNCHANGED <<objs, fds, dva, pins, maps, memMtx, commands, callers, driver, alive>>

\* unimportMem: a refusal is logged only.
undoImport(t) ==
  LET o == thr[t].obj
  IN  /\ At(t, "undo")
      /\ \/ /\ dva' = dva \ {o}
            /\ pins' = [pins EXCEPT ![objs[o].buf] = @ - 1]
            /\ UNCHANGED refused
         \/ refused' = refused \cup {o} /\ UNCHANGED <<dva, pins>>
      /\ GoTo(t, "close")
      /\ UNCHANGED <<objs, fds, space, maps, memMtx, commands, callers, unimportFailed, alive>>

\* closeDupHandle
closeImport(t) ==
  /\ At(t, "close")
  /\ fds' = fds \ {thr[t].obj}
  /\ Return(t)
  /\ UNCHANGED <<objs, dva, pins, space, maps, memMtx, commands, callers, driver, alive>>

mapDeviceVaIgnoresError(t) ==
  LET o == thr[t].obj
  IN  /\ At(t, "map")
      /\ \/ /\ dva' = dva \cup {o}
            /\ pins' = [pins EXCEPT ![objs[o].buf] = @ + 1]
         \/ UNCHANGED <<dva, pins>>
      /\ GoTo(t, "insert")
      /\ UNCHANGED <<objs, fds, space, maps, memMtx, commands, callers, driver, alive>>

\* memMapDeviceVa(); when it fails the memory is freed at once.
mapDeviceVa(t) ==
  LET o == thr[t].obj
  IN  /\ At(t, "map")
      /\ \/ /\ dva' = dva \cup {o}
            /\ pins' = [pins EXCEPT ![objs[o].buf] = @ + 1]
            /\ GoTo(t, "insert")
            /\ UNCHANGED <<fds, space>>
         \/ /\ space' = [space EXCEPT ![objs[o].vaddr] = 0]
            /\ fds' = fds \ {o}
            /\ Return(t)
            /\ UNCHANGED <<dva, pins>>
      /\ UNCHANGED <<objs, maps, memMtx, commands, callers, driver, alive>>

\* std::unordered_map::insert() keeps an entry that is there already.
entered(map, a, o) == IF map[a] = 0 THEN [map EXCEPT ![a] = o] ELSE map

\* lock, insert, unlock; the address goes to the caller, or becomes the
\* exec-info buffer of the command being built.
insert(t) ==
  LET o == thr[t].obj
      a == objs[o].vaddr
  IN  /\ At(t, "insert") /\ memMtx = NoThread
      /\ IF objs[o].kind = "cmdbuf"
         THEN cbMap' = entered(cbMap, a, o) /\ UNCHANGED memMap
         ELSE memMap' = entered(memMap, a, o) /\ UNCHANGED cbMap
      /\ whole' = IF o = Whole THEN whole + 1 ELSE whole
      /\ held' = IF o = Whole \/ thr[t].call = "build" THEN held ELSE held \cup {o}
      /\ exec' = [c \in Cmds |-> IF thr[t].cmd = {c} THEN o ELSE exec[c]]
      /\ Return(t)
      /\ UNCHANGED <<memory, memMtx, listMtx, cmdList, cmds, driver, alive>>

-----------------------------------------------------------------------------
\* Calls that free.  A caller frees what it has, once, keeps an import whose
\* memUnImport() failed, and a handle as long as it is being imported: the UNMAP
\* of an import that fails names that handle, not its duplicate.
Importing(o) == \E t \in Threads : thr[t].call = "memImport" /\ thr[t].addr = objs[o].vaddr

memFree(t, o) ==
  /\ IF o = Whole
     THEN whole > 0 /\ whole' = whole - 1 /\ UNCHANGED held
     ELSE /\ o \in held /\ objs[o].kind = "mem" /\ ~Importing(o)
          /\ held' = held \ {o} /\ UNCHANGED whole
  /\ BeginAt(t, "memFree", o)
  /\ UNCHANGED <<memory, maps, memMtx, commands, driver, alive>>

cmdBufFree(t, o) ==
  /\ o \in held /\ objs[o].kind = "cmdbuf"
  /\ held' = held \ {o}
  /\ BeginAt(t, "cmdBufFree", o)
  /\ UNCHANGED <<memory, maps, memMtx, commands, whole, driver, alive>>

memUnImport(t, o) ==
  /\ o \in held /\ objs[o].kind = "import" /\ ~Importing(o)
  /\ held' = held \ {o}
  /\ BeginAt(t, "memUnImport", o)
  /\ UNCHANGED <<memory, maps, memMtx, commands, whole, driver, alive>>

\* Where a call goes on that could not free the old exec-info buffer, or did.
afterFree(t) == CASE thr[t].call = "build"     -> GoTo(t, "alloc")
                  [] thr[t].call = "deleteCmd" -> GoTo(t, "drop")
                  [] OTHER                     -> Return(t)

lookup(t) ==
  LET c == thr[t].call
      o == IF c \in {"memFree", "memUnImport"} THEN memMap[thr[t].addr]
           ELSE cbMap[thr[t].addr]
  IN  /\ At(t, "lookup") /\ memMtx = NoThread
      /\ IF o = 0
         THEN afterFree(t) /\ UNCHANGED memMtx
         ELSE /\ memMtx' = t
              /\ thr' = [thr EXCEPT ![t].obj = o,
                   ![t].pc = CASE c = "memFree"     -> "unmap"
                               [] c = "memUnImport" -> "munmap"
                               [] OTHER             -> "release"]
      /\ UNCHANGED <<memory, maps, commands, callers, driver, alive>>

\* memUnMapDeviceVa(); memFree() goes on when it fails.
unmapDeviceVa(t) ==
  LET o == thr[t].obj
  IN  /\ At(t, "unmap")
      /\ \/ /\ o # Whole
            /\ dva' = dva \ {o}
            /\ pins' = [pins EXCEPT ![objs[o].buf] = @ - 1]
            /\ UNCHANGED refused
         \/ /\ refused' = refused \cup ({o} \ {Whole})
            /\ UNCHANGED <<dva, pins>>
      /\ GoTo(t, "release")
      /\ UNCHANGED <<objs, fds, space, maps, memMtx, commands, callers, unimportFailed, alive>>

releaseUnlocks(t) ==
  LET o == thr[t].obj
  IN  /\ At(t, "release")
      /\ IF o = Whole
         THEN UNCHANGED <<space, fds>>
         ELSE /\ space' = [space EXCEPT ![objs[o].vaddr] = 0]
              /\ fds' = fds \ {o}
      /\ memMtx' = NoThread
      /\ GoTo(t, "erase")
      /\ UNCHANGED <<objs, dva, pins, maps, commands, callers, driver, alive>>

\* executor memFree(): munmap() frees the address whatever is there by now.
release(t) ==
  LET o == thr[t].obj
  IN  /\ At(t, "release")
      /\ IF o = Whole
         THEN UNCHANGED <<space, fds>>
         ELSE /\ space' = [space EXCEPT ![objs[o].vaddr] = 0]
              /\ fds' = fds \ {o}
      /\ GoTo(t, "erase")
      /\ UNCHANGED <<objs, dva, pins, maps, memMtx, commands, callers, driver, alive>>

\* The entry goes, and with it the lock; a command forgets its buffer.
erase(t) ==
  /\ At(t, "erase")
  /\ IF thr[t].call = "memFree"
     THEN memMap' = [memMap EXCEPT ![thr[t].addr] = 0] /\ UNCHANGED cbMap
     ELSE cbMap' = [cbMap EXCEPT ![thr[t].addr] = 0] /\ UNCHANGED memMap
  /\ exec' = [c \in Cmds |-> IF thr[t].cmd = {c} THEN 0 ELSE exec[c]]
  /\ memMtx' = NoThread
  /\ afterFree(t)
  /\ UNCHANGED <<memory, listMtx, cmdList, cmds, callers, driver, alive>>

\* executor memUnImport(): the host mapping goes first.
munmap(t) ==
  /\ At(t, "munmap")
  /\ space' = [space EXCEPT ![objs[thr[t].obj].vaddr] = 0]
  /\ GoTo(t, "ioctl")
  /\ UNCHANGED <<objs, fds, dva, pins, maps, memMtx, commands, callers, driver, alive>>

unmapImportLeaksHandle(t) ==
  LET o == thr[t].obj
  IN  /\ At(t, "ioctl")
      /\ dva' = dva \ {o}
      /\ pins' = [pins EXCEPT ![objs[o].buf] = @ - 1]
      /\ memMap' = [memMap EXCEPT ![thr[t].addr] = 0]
      /\ memMtx' = NoThread
      /\ Return(t)
      /\ UNCHANGED <<objs, fds, space, cbMap, commands, callers, driver, alive>>

unmapImportKeepsLock(t) ==
  LET o == thr[t].obj
  IN  /\ At(t, "ioctl")
      /\ \/ /\ dva' = dva \ {o}
            /\ pins' = [pins EXCEPT ![objs[o].buf] = @ - 1]
            /\ fds' = fds \ {o}
            /\ memMap' = [memMap EXCEPT ![thr[t].addr] = 0]
            /\ memMtx' = NoThread
            /\ UNCHANGED <<held, driver>>
         \/ /\ held' = held \cup {o}
            /\ refused' = refused \cup {o} /\ unimportFailed' = TRUE
            /\ UNCHANGED <<dva, pins, fds, memMap, memMtx>>
      /\ Return(t)
      /\ UNCHANGED <<objs, space, cbMap, commands, whole, alive>>

\* Object, handle and entry go only if the driver unmaps the device address.
unmapImport(t) ==
  LET o == thr[t].obj
  IN  /\ At(t, "ioctl")
      /\ \/ /\ dva' = dva \ {o}
            /\ pins' = [pins EXCEPT ![objs[o].buf] = @ - 1]
            /\ fds' = fds \ {o}
            /\ memMap' = [memMap EXCEPT ![thr[t].addr] = 0]
            /\ UNCHANGED <<held, driver>>
         \/ /\ held' = held \cup {o}
            /\ refused' = refused \cup {o} /\ unimportFailed' = TRUE
            /\ UNCHANGED <<dva, pins, fds, memMap>>
      /\ memMtx' = NoThread
      /\ Return(t)
      /\ UNCHANGED <<objs, space, cbMap, commands, whole, alive>>

-----------------------------------------------------------------------------
\* Commands; one thread at a time builds or deletes a command.
createCmd(c) ==
  /\ alive /\ c \notin cmds /\ listMtx = NoThread
  /\ cmds' = cmds \cup {c}
  /\ cmdList' = cmdList \cup {c}
  /\ exec' = [exec EXCEPT ![c] = 0]
  /\ UNCHANGED <<memory, maps, memMtx, listMtx, callers, thr, driver, alive>>

BeginCmd(t, call, pc, c) ==
  /\ alive /\ At(t, "idle") /\ c \in cmds /\ ~Busy(c)
  /\ thr' = [thr EXCEPT ![t] = [Idle EXCEPT !.pc = pc, !.call = call, !.cmd = {c},
               !.addr = IF exec[c] = 0 THEN WholeAddr ELSE objs[exec[c]].vaddr]]

\* construct(): the old exec-info buffer is freed before the new one is made.
build(t, c) ==
  /\ BeginCmd(t, "build", IF exec[c] = 0 THEN "alloc" ELSE "lookup", c)
  /\ UNCHANGED <<memory, maps, memMtx, commands, callers, driver, alive>>

allocExec(t, a) ==
  /\ At(t, "alloc")
  /\ NewObject("cmdbuf", a)
  /\ thr' = [thr EXCEPT ![t].pc = "insert", ![t].obj = Len(objs) + 1]
  /\ UNCHANGED <<dva, pins, maps, memMtx, commands, callers, driver, alive>>

allocExecFails(t) ==
  /\ At(t, "alloc")
  /\ Return(t)
  /\ UNCHANGED <<memory, maps, memMtx, commands, callers, driver, alive>>

\* deleteCmd() runs the destructor of the command, and in it cmdBufFree(),
\* while it holds the lock of the command list.
deleteCmd(t, c) ==
  /\ c \in cmdList /\ listMtx = NoThread
  /\ listMtx' = t
  /\ BeginCmd(t, "deleteCmd", IF exec[c] = 0 THEN "drop" ELSE "lookup", c)
  /\ UNCHANGED <<memory, maps, memMtx, cmdList, cmds, exec, callers, driver, alive>>

drop(t) ==
  /\ At(t, "drop")
  /\ cmds' = cmds \ thr[t].cmd
  /\ cmdList' = cmdList \ thr[t].cmd
  /\ listMtx' = NoThread
  /\ Return(t)
  /\ UNCHANGED <<memory, maps, memMtx, exec, callers, driver, alive>>

-----------------------------------------------------------------------------
Entries(map) == {map[a] : a \in Addrs} \ {0}

deleteInstanceKeepsCmdBufs ==
  LET mems == Entries(memMap) \ {Whole}
  IN  /\ alive /\ \A t \in Threads : At(t, "idle")
      /\ cmdList' = {}
      /\ dva' = dva \ mems
      /\ pins' = [b \in DOMAIN pins |->
                    pins[b] - Cardinality({o \in mems : objs[o].buf = b})]
      /\ fds' = fds \ (mems \cup {Whole})
      /\ space' = [a \in Addrs |->
                     IF a = WholeAddr \/ \E o \in mems : objs[o].vaddr = a
                     THEN 0 ELSE space[a]]
      /\ memMap' = [a \in Addrs |-> 0]
      /\ held' = {} /\ whole' = 0
      /\ alive' = FALSE
      /\ UNCHANGED <<objs, cbMap, memMtx, listMtx, cmds, exec, driver, thr>>

\* The destructor, after the last call: deleteCmd() no longer finds the
\* commands it is given, because they were popped from mCmdList; then all
\* entries of both maps are freed and the executor frees its own objects.
deleteInstance ==
  LET mems  == Entries(memMap) \ {Whole}
      freed == mems \cup Entries(cbMap)
  IN  /\ alive /\ \A t \in Threads : At(t, "idle")
      /\ cmdList' = {}
      /\ \E kept \in SUBSET mems :
           /\ dva' = dva \ (mems \ kept)
           /\ refused' = refused \cup kept
           /\ pins' = [b \in DOMAIN pins |->
                         pins[b] - Cardinality({o \in mems \ kept : objs[o].buf = b})]
      /\ fds' = fds \ (freed \cup {Whole})
      /\ space' = [a \in Addrs |->
                     IF a = WholeAddr \/ \E o \in freed : objs[o].vaddr = a
                     THEN 0 ELSE space[a]]
      /\ memMap' = [a \in Addrs |-> 0]
      /\ cbMap' = [a \in Addrs |-> 0]
      /\ held' = {} /\ whole' = 0
      /\ alive' = FALSE
      /\ UNCHANGED <<objs, memMtx, listMtx, cmds, exec, unimportFailed, thr>>

Gone == ~alive /\ UNCHANGED vars

-----------------------------------------------------------------------------
Init == /\ objs = <<[kind |-> "whole", buf |-> Whole, vaddr |-> WholeAddr]>>
        /\ fds = {Whole}
        /\ dva = {}
        /\ pins = [b \in 1 .. MaxObj |-> 0]
        /\ space = [a \in Addrs |-> IF a = WholeAddr THEN Whole ELSE 0]
        /\ memMap = [a \in Addrs |-> 0] /\ cbMap = [a \in Addrs |-> 0]
        /\ memMtx = NoThread /\ listMtx = NoThread
        /\ cmdList = {} /\ cmds = {}
        /\ exec = [c \in Cmds |-> 0]
        /\ held = {} /\ whole = 0
        /\ thr = [t \in Threads |-> Idle]
        /\ refused = {} /\ unimportFailed = FALSE
        /\ alive = TRUE

Start(t) ==
  \/ \E a \in Addr : memAlloc(t, a) \/ cmdBufAlloc(t, a) \/ \E o \in Obj : memImport(t, o, a)
  \/ memAllocWhole(t)
  \/ \E o \in Obj : memFree(t, o) \/ cmdBufFree(t, o) \/ memUnImport(t, o)
  \/ \E c \in Cmds : build(t, c) \/ deleteCmd(t, c)

Acquire(t) == insert(t) \/ lookup(t)

Proceed(t) ==
  \/ importMap(t) \/ mapImport(t) \/ undoImport(t) \/ closeImport(t)
  \/ mapDeviceVa(t) \/ unmapDeviceVa(t) \/ release(t) \/ erase(t)
  \/ munmap(t) \/ unmapImport(t)
  \/ allocExecFails(t) \/ \E a \in Addr : allocExec(t, a)
  \/ drop(t)

Next == \/ \E t \in Threads : Start(t) \/ Acquire(t) \/ Proceed(t)
        \/ \E c \in Cmds : createCmd(c)
        \/ deleteInstance \/ Gone

Spec == Init /\ [][Next]_vars

\* A thread inside a call goes on, and in the end gets mMemMapMtx.
FairSpec == Spec /\ \A t \in Threads : SF_vars(Acquire(t)) /\ WF_vars(Proceed(t))

-----------------------------------------------------------------------------
ObjRecord == [kind : {"whole", "mem", "cmdbuf", "import"}, buf : 1 .. MaxObj, vaddr : Addrs]

ThreadRecord ==
  [pc : {"idle", "map", "import", "mmap", "undo", "close", "insert", "lookup", "unmap",
         "release", "erase", "munmap", "ioctl", "alloc", "drop"},
   call : {"memAlloc", "cmdBufAlloc", "memImport", "memFree", "cmdBufFree",
           "memUnImport", "build", "deleteCmd"},
   obj : 0 .. MaxObj, addr : Addrs, cmd : {{}} \cup {{c} : c \in Cmds}]

TypeOK == /\ objs \in Seq(ObjRecord) /\ Len(objs) \in 1 .. MaxObj
          /\ fds \subseteq Obj /\ dva \subseteq Obj
          /\ pins \in [1 .. MaxObj -> Nat]
          /\ space \in [Addrs -> 0 .. Len(objs)]
          /\ memMap \in [Addrs -> 0 .. Len(objs)]
          /\ cbMap \in [Addrs -> 0 .. Len(objs)]
          /\ memMtx \in Threads \cup {NoThread}
          /\ listMtx \in Threads \cup {NoThread}
          /\ cmds \subseteq Cmds /\ cmdList \subseteq cmds
          /\ exec \in [Cmds -> 0 .. Len(objs)]
          /\ held \subseteq Obj
          /\ whole \in 0 .. MaxWhole
          /\ thr \in [Threads -> ThreadRecord]
          /\ alive \in BOOLEAN /\ refused \subseteq Obj /\ unimportFailed \in BOOLEAN

\* What memGetInfoFromHostPtr() takes an address for.
Resolve(a) == IF memMap[a] # 0 THEN memMap[a] ELSE cbMap[a]

InUse == held \cup {exec[c] : c \in {d \in cmds : exec[d] # 0 /\ ~Busy(d)}}

\* No memUnImport() failed: what one leaves is not specified.
ImportsGone == ~unimportFailed

(* An address stays good until it is freed: it is still mapped, its handle  *)
(* is open, and a lookup finds the very object that was allocated, although *)
(* another thread may have freed and reallocated addresses at any moment.   *)
(* An allocation of the whole VLM is found as long.                         *)
HeldUsable ==
  /\ alive /\ ImportsGone =>
       \A o \in InUse : /\ space[objs[o].vaddr] = o
                         /\ Resolve(objs[o].vaddr) = o
                         /\ o \in fds
  /\ whole > 0 => memMap[WholeAddr] = Whole

(* No handle and no mapping is lost, also by an import that fails half way: *)
(* each open handle is found through a map or belongs to a call in          *)
(* progress, and so does each device mapping that the driver did not refuse *)
(* to take back; an address is mapped for an open handle; and the driver    *)
(* counts one user of a buffer for each device mapping, so that unmapping   *)
(* one never takes it away from the others.  "Also free all session related *)
(* resource include cmdbuf, mem": nothing is left when the session is       *)
(* deleted, whatever the callers did not free, except device mappings the   *)
(* driver refused to take back.                                             *)
NothingLost ==
  /\ alive /\ ImportsGone =>
       /\ \A o \in fds \ {Whole} : \/ o \in Entries(memMap) \cup Entries(cbMap)
                                   \/ \E t \in Threads : thr[t].obj = o
       /\ \A o \in dva \ refused : \/ o \in Entries(memMap)
                                   \/ \E t \in Threads : thr[t].obj = o
  /\ \A a \in Addr : space[a] # 0 => space[a] \in fds
  /\ \A b \in 1 .. MaxObj : pins[b] = Cardinality({o \in dva : objs[o].buf = b})
  /\ ~alive /\ ImportsGone => /\ fds = {} /\ dva \subseteq refused
                              /\ \A a \in Addrs : space[a] = 0

(* "... cmd, subcmd": the same for commands.                                *)
CommandsFreed == ~alive => cmds = {}

(* Every call returns: the locks of the session, of the command list and of *)
(* the commands are taken in one order.                                     *)
CallsReturn == \A t \in Threads : thr[t].pc # "idle" ~> thr[t].pc = "idle"
=============================================================================
