# A TLA+ model of the MediaTek APUSYS user-space library

This directory holds TLA+ modules, TLC configurations and TLAPS proofs about
the APUSYS user-space library of this repository: the library a process uses
to allocate memory shared with the AI processing unit, to build commands out
of sub-commands and dependencies, and to run them on the kernel driver.

## 1. The system

| part | source (below `src/`) | state it keeps | operations |
|---|---|---|---|
| C interface | `midware/2.0/apusysEntry.cpp`, `include/apusys.h` | none; handles are object pointers | every function casts and calls the method |
| session | `midware/2.0/apusysSession.{h,cpp}` | `mMemMap`, `mCmdBufMap` under `mMemMapMtx`; `mCmdList` under `mCmdListMtx` | memAlloc/memFree, memImport/memUnImport, cmdBufAlloc/cmdBufFree, lookups, createCmd/deleteCmd, destructor |
| command graph | `midware/2.0/apusysCmd.{h,cpp}` | sub-command list, adjacency matrix, pack ids, dirty flags, under `mMtx` | createSubCmd, setDependencyEdge, setDependencyPack, addCmdBuf, setParam |
| command on the `apu_mdw` driver | `midware/2.0/v2_0/apusysExecutor_v2.cpp` | `mExecInfo`, `mFenceList` | build, run, runAsync, wait, runFence, destructor |
| executor on `apu_mdw` | same file | device descriptor, `mMemInfos` (the VLM object) | dma-buf allocation, mmap, device mapping, import |
| command on the first driver | `midware/2.0/v1_0/apusysExecutor_v1.cpp` | `mIsRunning`, `mCmdMem`, `mModifiedPackIdList`, `mMtx`, `mExecMtx` | as above, with one run at a time |
| executor on the first driver (ION) | same file | shared ION descriptor with a reference count | as above |
| base executor | `midware/2.0/apusysExecutor.{h,cpp}` | none | picks the version, refuses everything |
| middleware 1.0 | `midware/1.0/apusysEngine.cpp`, `apusysCmd.cpp` | sub-command list, dependency size, `mCmdBuf`, `mDirty`, `mIsExecuting` under `mMtx`; `mAsyncList` | initCmd, addSubCmd, packSubCmd, runCmd, runCmdAsync, waitCmd, memory |
| allocators of 1.0 | `midware/1.0/*Allocator.cpp` | map of buffers | alloc, free, import, sync |
| EDMA engine | `edma/edmaEngine.cpp` | `mRequestList` (commands), under `mListMtx` in part | getCmd, releaseCmd, runSync, querySubCmdInfo, fillDesc |
| EDMA descriptor engine | `edma/edmaDesEngine.cpp`, `edma/include/edmaDesEngine.h` | hardware version, one generator per type of info with `pHeadDesc`; no lock | setHWver, queryTransDescSize, fillDesc |
| EDMA descriptor encoders | `edma/3.0`, `edma/2.0/edma_core_v20.cpp` | none | size and number of descriptors, their fields, the address fields to patch |
| batch helpers | `utils/apusysBatchEntry.cpp` | none | two loops |

**How they interact.** A caller thread calls a method of `apusysSession` or of
a command. The session calls the executor to talk to the driver and keeps two
maps from host addresses back to the objects. A command calls its session for
command buffers (the exec-info buffer of `construct()`) and the driver to
submit. The driver signals a submitted job through a sync-file descriptor and
writes its result to the exec-info buffer the job was submitted with. There
are no callbacks and no threads of the library's own: all concurrency comes
from callers that share a session or a command, and from the driver.

**What is hard about it.**

* *Concurrency with gaps.* The executor maps memory outside `mMemMapMtx` and
  the session enters it later; `run()` and `wait()` read `mExecInfo` before
  they lock the command; `addCmdBuf()` sets a dirty flag without the lock.
* *Address reuse.* `memFree()` returns an address to the process before it
  erases the address from the map.
* *Failure halfway.* `construct()` frees the old buffer before it allocates
  the new one, and `submit()` ignores its outcome; imports duplicate a handle,
  map it and may then fail.
* *Late answers.* A run whose wait ended with the time limit is still running.
* *Two computations that must agree.* The size of an EDMA buffer is computed by
  other functions than those that fill it, and the addresses in it are patched
  by the caller at offsets a third computation reports.
* *Incremental data.* The adjacency matrix is patched row by row and cell by
  cell by two calls that undo and redo parts of each other's work.

**What makes each part correct.**

* graph: packed sub-commands have the same predecessors and successors;
  nothing waits for itself, for its own pack, or mutually; no cycle; the
  exec-info buffer has room for every sub-command;
* execution: each fence is polled and closed once; a call reports the result
  of the run it waited for; every call returns; nothing freed or null is read;
* session: an address a caller holds names its object and stays mapped; no
  handle or mapping is lost; deleting the session frees everything;
* first driver: packs that the driver takes as one are reduced to one without
  losing an order, the layout stays inside its memory, one run at a time, the command memory is neither replaced
  while a run uses it nor freed twice, a modified command can be rebuilt;
* 1.0: the lists of predecessors and successors agree and hold no cycle, what is
  submitted is what was constructed, the dependency section has the size that
  was accounted for, marks are taken back;
* allocators: memory a caller holds keeps all that was taken from the kernel for
  it, an error path gives back exactly what it took, and the shared ION
  descriptor is open as long as somebody uses it;
* EDMA: descriptors fit the buffer of the size that was queried, are as many as
  the device is told of, and have the device move every byte where the info
  asks; reported offsets are from the start of the caller's own buffer; a pooled
  command has one user.

## 2. Modules

| module | models | role |
|---|---|---|
| `PackedOrder` | `apusys.h`: what edges and packs mean | abstract specification: a partition and an order on its blocks |
| `CmdGraph` | `apusysCmd.cpp`; `createSubCmd`, `construct`, `build`, `submit` of `apusysExecutor_v2.cpp` | implements `PackedOrder` |
| `CmdGraphProofs` | - | theorems about `CmdGraph` and about what `CmdLayoutV1` makes of its graph |
| `CmdLayoutV1` | `updateModifiedInfo`, `calcCmdMemSize`, `construct` of `v1_0/apusysExecutor_v1.cpp` | functions of the graph of `CmdGraph`, which it extends |
| `FenceTickets` | `apusys.h`: run, runAsync, wait, runFence | abstract specification: tickets claimed once and retired once |
| `CmdExecV2` | run/wait half of `apusysExecutor_v2.cpp` | implements `FenceTickets` |
| `CmdExecV2Proofs` | - | theorems about `CmdExecV2` |
| `SessionV2` | `apusysSession.cpp` with the memory half of `apusysExecutor_v2.cpp` | session, executor, address space and driver composed |
| `SessionV2Proofs` | - | theorems about `SessionV2` |
| `CmdExecV1` | run/wait half of `v1_0/apusysExecutor_v1.cpp`, with its session as an allocator of addresses | the command of the first driver |
| `CmdExecV1Proofs` | - | theorems about `CmdExecV1` |
| `Sums` | a loop that adds up | used by `CmdLayoutV1`, `CmdListsV10` and `EdmaFill` |
| `SumsProofs` | - | induction, recursion, and lemmas about `Sums` |
| `CmdListsV10` | the sub-command lists of `midware/1.0/apusysCmd.cpp` and their place in the command buffer | the data `EngineV10` works on |
| `EngineV10` | the command of `midware/1.0` and its engine (`apusysCmd.cpp`, `apusysEngine.cpp`) | state machine over `CmdListsV10` |
| `EngineV10Proofs` | - | theorems about `EngineV10` and the lists it works on |
| `DramMemory` | `midware/1.0/*Allocator.cpp` under `apusysEngine`; memory of `v1_0/apusysExecutor_v1.cpp` under `apusysSession` | one state machine, one table of kernel calls per allocator |
| `DramMemoryProofs` | - | theorems about `DramMemory` |
| `EdmaDesc` | `edma_core.cpp`, `edma_core_v20.cpp`, `edma_sdk_core.cpp` and the generators of `edmaDesEngine.cpp` | pure: sizes, numbers, descriptors and bindings of an info |
| `EdmaDevice` | external: the EDMA device | what a list of descriptors does to memory; what an info asks for |
| `EdmaFill` | `EdmaDescEngine` and its use by `EdmaEngine` | state machine over `EdmaDesc` |
| `EdmaFillProofs` | - | theorems about `EdmaFill`: a lemma per type of info, then the steps |
| `MCSessionV2`, `MCDramMemory` | - | symmetry for TLC |
| `MCEdmaFill` | - | the tasks TLC tries |

### CmdGraph

Every call holds `mMtx` from its first access to its last, so a call is an
action. `num` is `mSubCmdList.size()`, `packId` is `mPackIdList` (0: not
packed, else index + 1), `adj` is `mAdjMatrix` as a relation, `dirty` is
`mDirty`, `execNum` is the number of records in `mExecInfo`, and `submitted`
is what the last submission handed the driver. `setDependencyEdge` is split in
the refusals (`edgeAllowed`) and the matrix update (`withEdge`: the row of the
predecessor gains the successor's pack and is copied over the rows packed with
the predecessor); `setDependencyPack` in `newPackId` and `withPack` (the
"horizontal" and then the "vertical" copy). A refused call changes nothing and
is no action. Parameters set by `setParam` are stored and passed on; no
property depends on them.

`Next` has callers that keep the condition `apusys.h:523` puts on a pack call
("appendix subcmd shouldn't be set dependency before this API,"); `FreeNext`
has callers that do not.

### CmdLayoutV1

What `build()` of the first executor makes of the graph depends on nothing but
the graph, the device types and the sizes of the command buffers, so it is a
set of operators, and the properties say of every graph a command can be built
from (`Built`) what they return. `modifiedSubCmdList` are the groups (of packed
MDLA sub-commands one header stands for all), `modifiedAdjMatrix` the matrix
without the rows and columns of the others, taken out from the last to the
first; `calcCmdMemSize` and `subcmdBufOfs` are the two computations that must
agree, and `headers` is what the driver reads. The loops of the code are
recursive functions of their index: `matrixWithout` over the sub-commands taken
out, `groupOrder` over the groups, `endOf` and `ends` over the buffers, `header`
over the sub-commands that fill one header. Sizes are in elements of four
bytes; the alignment is the default one, 16 bytes.

Two cases are excluded from the properties, because the code does not do them:

* with an alignment larger than the default, `LayoutFits` fails: sizes are
  summed up in one order and placed in another, and the padding differs by more
  than the unused part of the matrix;
* `PacksReachDriver` is stated for the packs the headers can express: with three
  packed MDLA sub-commands, with an MDLA behind the head of another type, or
  with a VPU and two MDLA, a header is overwritten or loses its pack id.

The numbers of command buffers are those the device types ask for. With others
`apusysSubCmd_v1::construct()` returns `-EINVAL`, which `apusysCmd_v1::construct()`
adds to the offset of the next buffer (line 816); the build is not refused.

### CmdExecV2

A step ends where another thread can observe a difference. A call first reads
`mExecInfo` (`Call`: `run` and `wait` do so before they lock), then takes
`mMtx` (`Lock`, `WaitTake`, `WaitNothing`), frees and reallocates the exec-info
buffer when it must (`ConstructFree`, `ConstructAlloc`, `ConstructFail`),
submits (`Submit`, `SubmitFail`, both end in the unlock and the return or the
poll), sleeps in `poll()` without the lock (`Poll`) and reports through the
pointer it read at the start (`Outcome`, `Finish`). `Modify` is `addCmdBuf()`
or any other call that sets a dirty flag. `Complete` is the driver: it finishes
jobs in any order and writes the result to the buffer of the submission. A job
number stands for the fence descriptor too. Job and buffer numbers are not
reused; reading a buffer that is no longer in the session's map may find
anything, or kill the process.

The variable `client`, chosen among `Clients` at the start, says what callers
refrain from (`MayCall`): `"free"` callers nothing; `"built"` callers run only a built, unmodified command and
rebuild it only when nothing uses it; `"single"` callers have, besides, one
run at a time and start the next when the driver has finished the last.

### SessionV2

`objs` are the `apusysMem` objects, `space` the process's address space (which
object is mapped at an address), `fds` the open handles, `dva`/`pins` the
device mappings as the library and as the driver count them, `memMap`/`cbMap`
the two maps, `memMtx`/`listMtx` the two locks, `exec` each command's
`mExecInfo`, `held`/`whole` what callers have not freed yet. Creating calls
run in the order of the code: executor (handle and mapping, no lock), device
mapping, then `insert` under the lock, where `unordered_map::insert` keeps an
entry that is already there. An import is a duplicated handle (`memImport`), the
ioctl that maps it (`importMap`: refused, mapped without a device address, or
mapped), a host mapping (`mapImport`) and the same `insert`; what fails goes
through the labels of the code, `undoImport` (`unimportMem`, an `UNMAP` that may be
refused and is only logged) and `closeImport` (`closeDupHandle`), and other
threads run between any two. Freeing calls look up and then hold the lock
through `unmapDeviceVa`, `release` (the address is free from here on) and
`erase`. `deleteCmd` holds `mCmdListMtx` while the command's destructor frees
the exec-info buffer. `deleteInstance` is the destructor, run when no call is
in progress.

Choices: the address an import will get from `mmap()` is chosen when it begins and
taken when it is mapped, if it is still free then; `undoImport` names the handle of
the caller, not its duplicate, so callers keep a handle open while it is imported
(`Importing`); a failing `memMapDeviceVa` frees the memory; a failing unmap is
ignored by `memFree` and returned by `memUnImport`, which by then has already
unmapped the host address. The API names no state that a failed `memUnImport`
leaves, so the invariants that such a call breaks are stated up to the first one
(`ImportsGone`, the history variable `unimportFailed`). `refused` remembers the
objects the driver would not unmap, in `memUnImport`, in `memFree`, on the error path of
an import and in the destructor: their device mappings are what `NothingLost`
lets a session lose, and nothing else of them.
Calls that fail without effect are
no actions. The cleanup the kernel does when the device is closed is not
counted: the model says what the library itself frees. Callers free what they
hold, once; one thread at a time builds or deletes one command.

### CmdExecV1

The command of the first driver has one memory (`mCmdMem`), allocated from the
session, that holds header, inputs, outputs and the fence descriptor. `cmdMem`
and `ptrs` are host addresses (`mCmdMem`, `mSuBCmdHdrPtr`/`mSuBCmdBufPtr`);
`space` says which object is at an address, so an address that was freed may
mean nobody's memory (`"fault"`) or somebody else's (`"foreign"`); `harm`
collects the accesses of that kind. Executing calls hold `mExecMtx` from
`LockExec` to `Leave`, also in `ioctl()` and `poll()`; `build()` holds `mMtx`
(`LockMtx` to `AfterBuild`). Its steps are those of the code: `FreeOld` or
`FreeUnknown`, `ClearOld`, `Alloc` or `AllocFail`, `Construct` or
`ConstructRefuses`, `ResetDirty`. `preExec` builds when there is no memory or a
command buffer is dirty, `updateHeader` copies parameters, `setFence`
clears the old fence, `copyIn` and `copyOut` are `updateSubCmdBuf()`, `Submit`
is the `ioctl` with the `memGetObj()` before it.

`oldPackIds` says that `mModifiedPackIdList` was filled by an earlier build:
`updateModifiedInfo()` only appends, so every later `construct()` compares lists
of different lengths and refuses. `longer` says that a sub-command got a command
buffer since its pointers were collected, in which case `updateCmdBuf()` copies
nothing. `oldHeader` are the parameters whose value the header lacks: `LIMITS` are
priority, hard and soft limit and user id, which `construct()` and `updateHeader()`
both write; `POWERSAVE` is a bit that `construct()` alone writes (lines 757-758, by
`|=`, which is an assignment because ION memory is zero when it is new), while
`updateHeader()` clears the PARAMETER mark as if it had. A power save set when no
build is due is therefore lost: a command that is built, given
`CMD_PARAM_POWERSAVE` and run goes to the driver with the old bit, although "if
parameter dirty, set parameter before run" (line 977), and nothing marks it any
more. `ParamsApplied` excepts that case, as long as the header lacks the value, by
the history variable `lateSave`, and no other. The header has no place for the parameters that
`setParam()` has besides (power policy, delay of power off, application type).
`SetParams` are the parameters callers set after the command was made.
Callers (`Quiet`, `MayCall`) modify and build the command only while
nothing uses it; they run and wait as they like from any thread. The interface
does not say that `build()` may meet a run, and it may not: it frees the memory
the run uses.

### CmdListsV10 and EngineV10

`CmdListsV10` has the two lists each sub-command keeps (`pred`, `succ`), the pack
ids and `mDependencySize`. `addLinks` and `packLinks` are the changes of
`addSubCmd()` and `packSubCmd()`; `ofs_scr_list`, `ofs_pdr_cnt_list` and
`scrListEnd` are the offsets `constructCmd()` uses. A list is a set: callers name
a dependency once, and only sub-commands that exist; for an index out of range
`mSubCmdList.at()` throws with the sub-command half entered.

The command of middleware 1.0 locks `mMtx` in each small method and not around
a run, so one step is one locked section, and everything may happen between
`setFence` (which takes no lock), `construct`, `getCmdBuf`, `markExecute` and
the `ioctl`. `bufs` are the command buffers with what their header says: the
number of sub-commands, the fence flag, and `fd`, the fence the driver wrote.
A job number stands for its fence descriptor; 0 is what a header without fence
holds. `harm` collects accesses to freed buffers and to descriptors that are
not the command's own. `construct`, `constructFails` and `constructNothing` are
the outcomes of `constructCmd()`. `getCmdBuf` of a dirty command takes `mMtx`
and calls `constructCmd()`, which locks it again: the thread is `"locked"` and
`mtx` stays its own for ever. `tune` are the tuning parameters, which go to the
header of the last construction too (`entry`), without the lock; `readInfo` reads
the run information from there.

`"serial"` callers have one run call and one wait call at a time, change
sub-commands only when nothing is in progress and ask for run information only
of a constructed command. `"modifying"` callers also add sub-commands during an
asynchronous run and ask at any time. A `"builder"` adds and packs sub-commands
of several device types and runs nothing: what it builds is as large as
`MaxSubCmds` allows. Nobody tunes while somebody constructs, nor a `"serial"`
caller after a construction that freed the old buffer and failed: `mInfoEntry`
points to freed memory then. Nobody waits twice for one run.

Two run calls at once are left out on purpose: `setFence()` of the one that will
be refused can clear the flag the other is about to submit, which then has no
fence to wait for. The interface does not say that this is allowed.

### DramMemory

The four allocators of 1.0 and the first executor of 2.0 do the same: they take
up to four things from the kernel, an ION handle, a descriptor that shares it, a
host mapping and a device mapping, and give them back. Each differs in which,
in what order, what it does when a call fails, what it locks and when it enters
the object in its list. `Functions` is the table of the orders and of the
failures that are passed over; `UnderLock` and `Unguarded` say which calls hold the
mutex of their owner; the actions are common. `Acquire`, `AcquireFails`, `Unwind`,
`Release` and `Refused` are one kernel call each, so the calls of several threads
and owners interleave between any two. An owner is an engine or a session;
`refCnt` and `ionOpen` are the ION descriptor all of them share. A session that
is deleted frees what is left in its maps (`deleteInstance`, `freeResidual`,
`noResidual`, `deleteExecutor`), each loop until one call fails; an engine frees
nothing (`destroyEngine`). A place of `objs` is used again when nobody refers to
it, so the number of calls is unbounded.

Callers give back once, by the call that belongs to the allocation, and not
again after it was refused; the lists that have no mutex (DMA, VLM, imports of
AOSP) are used by one call at a time; an owner is deleted when none of its calls
is in progress. Addresses are not modelled here: what a reused address does to
the session's maps is the same code as in `SessionV2`. `refused` records of an
object which resource the kernel would not take back and which function offered
it. Three things the code does are in the model and narrow the properties:

* a function that frees or unimports returns at the first refusal it does not
  pass over, and what comes after it is never offered to the kernel: behind a
  refused `APUSYS_IOCTL_MEM_UNMAP` the AOSP allocator leaves the host mapping and the
  descriptor (`ionAospAllocator.cpp:322-345`), behind a refused `ion_munmap()` ION
  leaves the descriptor and the handle (`ionAllocator.cpp:386-400`), and the DMA
  allocator and the first executor do the same. The entry of the list is gone by
  then, so nobody can try again; only an import of the first driver keeps its
  entry in the session. These resources are leaked without having been refused.
  `NothingLost` allows exactly them (`Stranded`) besides what was refused itself
  (`Denied`), and nothing more: not what a refusal that is passed over is followed
  by, and nothing on an error path, which goes on behind every refusal.
  The stronger promise, that freeing loses only what the kernel refuses, the code
  does not keep, although "unmap the buffer properly in the end"
  (`ionAospAllocator.cpp:331`) reads like it;

* `memMapDeviceVa()` of the first driver returns 0 whatever the driver says
  (`apusysExecutor_v1.cpp:1736`): memory may have no device mapping;
* the destructor of a session gives residual imports to `memFree()`, which closes
  the descriptor of the caller (`apusysSession.cpp:138`): `harm`, excluded once it
  happened (`spoiled`).

### EdmaDesc, EdmaDevice and EdmaFill

An EDMA task is a list of *infos* (a copy, a picture to convert or rotate, a
tensor, a padding, a Bayer or UFBC conversion ...). For each, `EdmaDesc` has what
`queryDSize` and `queryDNum` answer and the descriptors and bindings that
`fillDesc` writes. A descriptor is kept as what it moves: up to four sources and
four destinations (`TypedPlane`: address, sizes, strides) and a mode of the
internal pipeline. Sizes are cut to the width of their field, `FieldSize`, and
the other numbers that only set a scale (1024-byte lines, the 960 pixels of an
up-sampling tile, the 64 pixels of a rotation tile) are constants too. Codes of
formats, user bits, quantisation and pixel values are left out.

`EdmaDevice` is external. It gives a descriptor a meaning as the encoders use it:
`Read` is the n-th byte it reads, `Made` the n-th it writes with the source bytes
that is made of, `Executed` memory afterwards, and `executed` memory after each of
a list of descriptors. Independently of the descriptors it defines what an info
asks for (`Requested`). The two are compared by `DataArrives` after a fill.

`EdmaFill` has several threads that use one engine as `EdmaEngine` does:
`queryTransDescSize`, `transTaskInfo`, and for each info `setHeadDesc` (which
stores the start of the buffer in the shared generator) and `fillInfo`. There is
no lock, so these are the steps. `patched` is the caller, who writes addresses to
the fields it was told of.

`DataArrives` speaks of the infos that `honoured` names. Modelling the encoders
met the following cases in which the code does something else; for each the
exclusion is as narrow as the instance can tell:

* a rotation is sized as if the picture were square (`edma_core.cpp:136`): a
  wider one is written past the end of the queried buffer. A YUV rotation takes
  the picture for a square in the fill too;
* an info that is to be rotated and up-sampled at once is counted as a rotation
  (`edma_core.cpp:183`) and written as an up-sampling (`edma_core.cpp:1075`): the
  two differ in number and size;
* a copy of exactly 64 KiB or 64 MiB passes the limits and does not fit the
  16-bit fields (`edma_core.cpp:1199`); the limit of 2.0 is twice what its fields
  hold (`edma_core_v20.cpp:111`);
* a padding in `edge` mode reports the sources of its border copies as input
  fields whose offsets miss the place in the picture;
* an up-sampling in several tiles, a rotation and the rows of a `DEPTHTOSPACE`
  after the first report no address fields; a tile of odd width splits a pair;
* `DEPTHTOSPACE_FAST` handles block size 2 and 4 channels (16 for one byte);
  `S2D_FAST` misses the channel in the second offset and multiplies a line size
  that exceeds its field;
* 10-bit Bayer data are packed in units of four pixels, and a width that is no
  multiple of four loses the rest;
* the 3.0 UFBC decoder computes the payload offset without rounding the frame up
  to blocks (`edma_core.cpp:1714`), as 2.0 and the encoder do;
* 3.0 reports the address fields of an image or of data as if they were for the
  start of the objects (`edma_core.cpp:994`, `:1071`, `:1253`), whatever address the
  info gives; 2.0 reports no field at all;
* 3.0 takes data of a producer or a consumer for a synchronisation that moves
  nothing (`edma_core.cpp:1163`), 2.0 copies them. 2.0 moves one plane of a picture:
  its strides between planes are numbers of lines (`edma_core_v20.cpp:73`);
* a picture from YUV422 to ARGB is read in units of two pixels, and a line that is
  no multiple of four bytes loses the rest;
* a tensor is copied with the sizes of the source's and of the destination's
  elements, and converted only for some pairs of formats: other pairs of different
  sizes are copied as bytes;
* two threads that fill infos of one type get offsets from each other's start;
* a refused info is not reported and leaves its descriptors unwritten, and so
  does an SDK info of any type but the general one: of its descriptor only the
  type is set, the rest is what the buffer held (`edma_sdk_core.cpp:39-60`).

## 3. Runs

| run | question | bounds | result |
|---|---|---|---|
| `graph_run` | does the matrix mean an order of packs, and does the first driver get the same order, the same packs and a layout that fits? | 4 sub-commands; every choice of MDLA and VPU, last buffers of 1 and 4 elements | `TypeOK`, `PackIdsSound`, `PackUniform`, `NoMutualWait`, `ExecInfoFits`, `ReducedOrder`, `LayoutFits`, `PacksReachDriver` hold; every behaviour is one of `PackedOrder` |
| `graph_cycle` | does the "circular" check exclude cycles? | 3 sub-commands | no: `0 -> 1 -> 2 -> 0` is accepted |
| `exec2_run` | are fences, buffers and the lock handled right, do calls report the result of their own run, does every call return, and are fences tickets? | 2 threads, 2 jobs (1 for `"free"` callers), 2 buffers, all three kinds of callers | `TypeOK`, `ResourcesConserved`, `CallsReturn` and the refinement of `FenceTickets` hold for all; `ReportsOwnResult` for `"single"` callers |
| `exec2_timeout` | can the time limit be reported without harm? | 1 thread, 1 job | no: a command that was never built dies in a null access |
| `session2_run` | do addresses keep naming their objects; is anything lost; does every call return? | 2 threads, 2 addresses + VLM, 1 command, 4 objects; each step of an import may fail, and the driver may refuse to unmap | `TypeOK`, `HeldUsable`, `NothingLost`, `CallsReturn` hold |
| `session2_delete` | are commands freed with the session? | 4 objects | no: the destructor pops a command and then deletes it by searching the list |
| `exec1_run` | does a command of the first driver keep run, output, fence and memory together, and do parameters reach the driver? | 2 threads, 1 address, 2 allocations, 2 jobs | `TypeOK`, `MemoryOwned`, `OutputDelivered`, `FenceKept`, `ParamsApplied`, `CallsReturn` hold |
| `exec1_rebuild` | can a command be built twice? | 1 thread, 2 addresses, 3 allocations | no: `mModifiedPackIdList` is never cleared |
| `engine10_run` | do the lists of dependencies stay in step, and do the small locked sections of 1.0 fit together? | 2 threads; 4 sub-commands of 2 types for a `"builder"`, 2 for `"serial"` callers; 1 tuning, 2 buffers, 3 jobs | `TypeOK`, `ListsMatch`, `PacksOrdered`, `ListsFillBuffer`, `MarkFitsRuns`, `BufferAndFenceKept`, `HeaderCurrent`, `CallsReturn` hold |
| `memory1_run` | whatever kernel call fails, is memory whole, is anything lost, and does the shared ION descriptor live as long as it is used? | every allocator; 2 owners, 2 threads, 2 objects at a time (owners and threads symmetric) | `TypeOK`, `HeldMemoryWhole`, `NothingLost` hold |
| `edma_fill` | do descriptors fit, chain and move what was asked? | 2 threads, one task each of about 150; fields of 7 bits, lines of 4 bytes, tiles of 6 and 2 pixels | `TypeOK`, `SlotsHold`, `ChainWhole`, `OffsetsFromStart`, `DataArrives` hold outside the cases listed above |
| `engine10_selflock` | may a modified command be asked for its run information? | 1 thread, 2 sub-commands | no: the thread waits for the lock it holds |

**Why the bounds are enough.** Four sub-commands give two packs of two, a pack
of three with an edge, and an edge set through the second member of both packs;
that is every shape the two update functions distinguish (a pack of the
predecessor, of the successor, of both), and the theorems cover the rest. They also give two
groups of two MDLA sub-commands whose members are not neighbours, which is when
the two orders of `LayoutFits` differ, and of the lists of 1.0 a pack with a
predecessor and a successor of its own. In `DramMemory` two owners are what a
count needs to be wrong by one, two objects at a time let one call run while
another object is held, and places are used again. Two
jobs are enough for a fence to be overtaken in the last-in-first-out list and
for a late answer to meet the next run; two buffers let a rebuild happen between
two runs. Two threads are enough
because every unlocked access is a read paired with one write. In `SessionV2`
two addresses are fewer than the objects, so an address is reused while its old
entry is still there; the four objects are the VLM and three others, so two
that are freed or imported and one that follows them. The whole VLM is
allocated once at a time: all such
allocations share one object and one map entry, which the first free erases
(`apusysSession.cpp:359`), so a second one is not usable. In `CmdExecV1` a
single host address is the worst case, because every allocation, by the command
or by somebody else, gets the address freed last; two jobs let a second run meet
the output, the fence and the flag of the first. In `EdmaFill` the scale
constants are small so that a picture of a few pixels takes one tile, several,
or several and a short one; the sizes in `MCEdmaFill` lie on, below and above
each of them, and every type of info occurs with and without bindings.

**Fairness.** `FairSpec` assumes that a thread inside a call goes on (weak
fairness: the scheduler) and that a thread that wants a mutex which is free
again and again gets it (strong fairness: `std::mutex`). Of the `apu_mdw` driver
nothing is assumed: `poll()` always has a time limit (`waitSyncFile()` is given
`mHardlimit` or its default), so a job that never ends still ends the wait; the
`EINTR` retry is taken to happen finitely often. `CmdExecV1`
assumes besides that the driver ends every job, because `run()` and `wait()`
sleep there without a time limit, and so does `EngineV10` (`sync_wait()` polls
with a limit of -1). There `mMtx` is never held between two steps of a `"serial"`
behaviour, so weak fairness of a thread's steps is enough. Nothing is assumed of
callers.

**What the violated properties say.**

* `Acyclic` (`apusysCmd.cpp:331`): the comment speaks of circular dependencies,
  the test only excludes the reversed edge.
* `NoInvalidAccess` (`apusysExecutor_v2.cpp:628`): `run()` copies `mExecInfo`
  before `submit()` builds the command for the first time; the copy is null, the
  success path tests it, the error message after a failed `poll()` does not.
* `CommandsFreed` (`apusysSession.cpp:122`), as in the table.
* `RebuildWorks` (`apusysExecutor_v1.cpp:702`): the list of pack ids grows with
  every build. From the first refused build on, the command keeps the address of
  memory it freed; `MemoryOwned`, `OutputDelivered` and `FenceKept` are therefore
  stated up to that point. They say that nothing else is wrong.
* `NoSelfLock` (`1.0/apusysCmd.cpp:832`): the messages at lines 90 to 132 are
  for a command that was modified and not constructed, but `getCmdBuf()`, which
  the tests before them call, never returns in that state. `waitCmd()` after an
  `addSubCmd()` that followed `runCmdAsync()` ends the same way.

## 4. Proofs

A `...Proofs` module extends the module it is about. Every theorem holds for
every value of the constants that the named assumptions allow: any number of
sub-commands, threads, jobs, buffers, addresses, objects and owners, any kind of
caller. A state predicate `P` alone in the third column stands for `Spec => []P`.

| module | theorem | states | inductive invariant |
|---|---|---|---|
| `CmdGraphProofs` | `TypeCorrect` | `FreeSpec => []TypeOK` | as it stands |
| | `PackIds` | `FreeSpec => []PackIdsSound` | with `TypeOK`; for callers that break the pack condition too |
| | `ExecInfoMatches` | `FreeSpec => []ExecInfoFits` | `ExecInv`: unless the SUBCMD flag is set, the buffer is absent or has one record per sub-command |
| | `GraphCorrect`, `NobodyWaitsMutually` | `Spec => []` of `PackUniform`, `NoWaitInsidePack`, `NoMutualWait` | the three together with `TypeOK` and `PackIdsSound` |
| | `ImplementsPacks` | `Spec => ImplementsPackedOrder` | the above; each step is a step or a stutter of `PackedOrder` |
| | `GroupsKeepOrder` | `ReducedOrder` | follows from `TypeOK`, `PackUniform`, `NoWaitInsidePack` |
| | `LayoutInMemory`, `PacksStartTogether` | `LayoutFits`, `PacksReachDriver` | follow from `TypeOK`, `NoMutualWait` |
| `CmdExecV2Proofs` | `TypesV2`, `FencesAndBuffersConserved` | `TypeOK`, `ResourcesConserved` | `ExecInv`: with `LockHeld`, `AllocAfterFree`, `JobsHaveBuffers` |
| | `RunsReportOwnResult` | `ReportsOwnResult` | `SingleInv`, relative to `ExecInv`, for callers of `"single"` |
| | `ImplementsTicketSteps` | the safety part of `ImplementsTickets` | each step is a step or a stutter of `FenceTickets` |
| `SessionV2Proofs` | `TypesSession` | `TypeOK` | `TableInv`, whatever happens |
| | `AddressesStayUsable` | `AddressesUsable`: `HeldUsable` without the look-up of the whole VLM | `SoundInv`, as long as the driver refused no `memUnImport()` |
| | `HeldStaysUsable` | `HeldUsable`, if `MaxWhole <= 1` | the same with `WholeFound` |
| | `NothingLostSession` | `NothingLost` | both, and `EmptyAtEnd` |
| `CmdExecV1Proofs` | `TypesV1`, `ParamsReachDriver` | `TypeOK`; `Spec => ParamsApplied` | `TypeInv`; `DirtyMarks`, whatever happens |
| | `OwnMemoryOnly`, `OwnOutputDelivered`, `FenceStays` | `MemoryOwned`, `OutputDelivered`, `FenceKept` | `SoundInv`, until a `build()` is refused |
| `EngineV10Proofs` | `ListsAgree`, `NoCycleInListsV10` | `ListsMatch`, `PacksOrdered` | `ListsInv`: the two and the types of the lists |
| | `ListsFill` | `ListsFillBuffer` | `CountsInv`: the counters are sums over the lists |
| | `TypesV10`, `OneRunAtATime`, `SubmittedIsCurrent` | `TypeOK`, `MarkFitsRuns`, `HeaderCurrent` | `EngineInv`, whatever callers do |
| | `BufferAndFenceSafe` | `BufferAndFenceKept` | `BuffersInv` within it, for callers that are not `"modifying"` |
| `DramMemoryProofs` | `TypesDram`, `HeldWholeDram`, `NothingLostDram` | `TypeOK`, `HeldMemoryWhole`, `NothingLost` | `MemoryInv` |
| `EdmaFillProofs` | `TypeCorrect`, `FillsStayInside`, `ChainsComplete` | `TypeOK`, `SlotsHold`, `ChainWhole` | `SlotsInv`, relative to `FillInv` |
| | `OffsetsOwn` | `OffsetsFromStart` | `FillInv` |
| | `PlainTasksArrive` | what memory holds after a done task is what its infos ask for, for tasks that are `PlainTask` | `ContentInv`, relative to `SlotsInv` |
| | `PlainDataArrives` | `Spec => [](PlainWork => DataArrives)`: `DataArrives` in the states whose honoured tasks are `PlainTask` | `ContentInv` |
| | `PayloadsBehindHeaders` | the part of `DataArrives` about compressed frames, for every frame | `ContentInv` |

Where the predicate speaks of a condition (a kind of caller, no refused
`build()`), it does so itself: the theorems add none, but for two. `HeldStaysUsable`
has `MaxWhole <= 1`, which the module explains (all allocations of the VLM share one
map entry) and which the bound of the run is too. `PlainDataArrives` is about the
kinds of info that `Plain` lists, given below.

**Why the invariants are what they are.**

* *Graph.* That a pack call keeps columns equal needs that nothing waits inside
  its pack, and `NoMutualWait` after an edge between packs needs that the reversed
  edge is missing for *every* pair of members, which `PackUniform` gives from the
  one pair the code tests. In the refinement a pack call merges two blocks and
  moves no edge, an edge call adds one pair of blocks.
* *What the first driver gets.* The matrix after the sub-commands from some index
  on are taken out is the matrix of those that stay, each at its rank
  (`MatrixLeft`): because the last is taken out first, no index that is still
  needed has moved. So the matrix left at the end is that of the heads, and
  uniform packs make a head speak for its group. For the layout, the end of a list of
  buffers is, aligned, the aligned start plus a sum of rooms (`EndsAligned`), and
  the sum is the same in every order that names each sub-command once
  (`SumInAnyOrder`, `GroupOrderEnumerates`); what is left is padding of less than
  one unit. It is covered by the matrix: the size reserves all `n * n` entries
  where the successor lists need one per edge, and three of them are free if
  `n >= 3`, since nobody waits for itself. With two groups 47 or 48 elements are used of 52,
  which needs that the two do not wait for each other (`NoMutualWait`). Offsets
  grow strictly along the order of placement (`OwnOffsets`), so that no two code
  buffers are confused, and a group of an expressible pack is one sub-command or
  the two MDLA of a dual run (`GroupShape`).
* *`CmdExecV2`.* Between `Lock` and the end of the `ioctl` a thread owns `mMtx`
  (`LockHeld`), so no two rebuild at once, and a buffer is allocated only when
  there is none (`AllocAfterFree`). `ReportsOwnResult` is about the pointer read
  before the lock: it needs that nothing replaces the buffer between that
  read and the lock when runs do not overlap (`NoOverlap`).
* *Session.* An entry belongs to one caller, one command or one call in progress
  (`AimsApart`, `HeldInv`, `ExecInv`), and its address is mapped until that call
  has unmapped it (`EntriesLive`), holding the lock that keeps new entries out.
  Memory being imported is in no map yet and belongs to the call that makes it
  (`Making`), mapped for the device from `importMap` until `undoImport` unless that
  is refused, and closed by that call if it fails.
  After a `memUnImport()` that the driver refused this is lost, which the
  properties take into account by `ImportsGone`; `TableInv` holds all the same.
* *`CmdExecV1`.* `SoundInv` says that the one thread inside the two locks owns
  the command memory between free, allocation and construction, and that the run
  marked in the header is the last job. `DirtyMarks` follows the parameters through
  the dirty flags, and holds after a refused `build()` too; for power save only the
  mark of a rebuild counts.
* *`EngineV10`.* Packing needs that the target is not in its own lists, which
  the rank gives, and the rank needs that members of a pack have the same
  predecessors. `depSize` counts predecessors where `scrListEnd` adds up the
  lists of successors: `CountsInv` says that the two sums agree, by the lemmas of
  `SumsProofs`. `RunsInv` says who has the mark, which job and header are its own
  and that calls past `getCmdBuf()` find the command unmodified.
* *`DramMemory`.* `CallInv` says of each call which steps are left to take or to
  give back, `ObjectInv` of each object who can reach it and what it has,
  `CountInv` what the reference count means. What an object may keep for good is
  `GivenUp`, what was refused and what lies behind a refusal; it only grows with a
  refusal (`RefusedMore`), and the rest of a function's steps is behind the first
  of them (`RestBehind`), which is why a call that returns early is excused for
  just these. A kernel call touches one object no other call has. The owners must be a finite set for the count to be a number.
* *`EdmaFill`.* `SharedInv` says that two threads that fill at the same time know
  of each other, and `HeadInv` that the start a generator keeps is the thread's own
  or was taken by one of those whose task has an info of that type.
  `SlotsInv` follows a fill: after the first `k` infos it stands at the sum of
  their queried sizes, each descriptor written is inside the slot of its own info
  (`SlotInv`), and as long as no info was refused or misjudged the descriptors
  are as many as counted and touch each other (`ChainInv`). That a slot is large
  enough is a lemma per kind of info (`ImageFits`, `ResizeFits`, `RotationFits`,
  `TensorFits`, `PadFits`, `SingleFits`), put together in `FillFits`: what the
  generator writes has the number and the size the query answered. Rotations need
  the sum of alternating sizes (`SumPairs`), up-samplings and `DEPTHTOSPACE` that
  of equal ones (`SumUniform`). The assumptions are that tasks are arrays and that
  infos are `wellFormed`: unsigned fields, at least one pixel in an image to
  rotate (without one the number of tiles wraps around), and a type in the
  descriptor of an SDK info.

* *What the device does (`PlainDataArrives`).* The proof joins four facts.
  `Arrived` says that memory has what a request asks for and is otherwise as it
  was, and `Delivers` that running a list of descriptors makes it so, from any
  memory that holds nothing where the request reads. The lemmas `OneDelivers`,
  `UnitDelivers`, `FillDelivers` give it for one descriptor that copies, converts or fills,
  `OverDelivers` for two that write over each other, and `InfosDeliver` for the
  infos of a task, which must be `Apart`: none reads a byte that one writes, no
  byte is written in two ways. `ImageDelivers`, `DataDelivers`, `TensorDelivers`,
  `SliceDelivers` and `PadDelivers` say that what the encoder of a kind writes, with
  the addresses bound, delivers what the info asks for; that is where the widths of
  fields, lines, strides and units of bytes come in (`FieldHolds`, `ShapeFits`).
  `ContentInv` says of the state machine that the buffer has exactly the descriptors
  of the infos filled, in order and in their place (`WrittenInv`), and that what was
  reported are their fields (`ToldInv`). `InFields` says of each kind that the
  fields told and the operands of its descriptors lie inside the slot of the info,
  and since the slots do not overlap (`FieldsApart`), an address the caller writes
  for one info reaches no operand of another: `PatchedRun`, the descriptors
  patched are the ones of which the lemmas speak.
  An info is `Plain` if it is an image that is neither rotated nor up-sampled, data
  to copy or fill, a tensor copied, converted or repacked (`RGB`, `RGBA`, `Y`), a
  slice that is not larger than its source, or a padding with a constant; its
  sizes must fit the fields they go to (`Fits`), which `FieldSize` leaves free. Of
  the tasks of `MCEdmaFill` 35 are plain, with all of these kinds.

**Induction.** The induction theorems of the library are parameterised by an
operator, which the installed provers cannot instantiate. `SumsProofs` states
induction for *sets* of numbers (`SetInduction`, from the well-foundedness of `<`),
which they can: the property becomes the set of the numbers that have it. From
this it derives that a function defined over `0 .. n` by its predecessor exists
and is what its recursion says (`RecursionExists`), and the lemmas about `SumTo`.
Each recursive function of the models has a lemma that instantiates it.

**What proving changed.** Some definitions had `CASE` arms with overlapping
guards (`getCmdBuf` of `EngineV10`, `honoured` of `EdmaFill`, and in `EdmaDesc` and
`EdmaDevice`): the proofs ask for the meaning of each arm, and TLA+
leaves open which of two true guards counts. They are disjoint now, in the order
of the code's tests. Making them so for `edma_queryDSize` showed an info that two
arms name: one rotated and up-sampled at once, which the query takes for a rotation
and the fill for an up-sampling, so that `RotationFits` is false of it. TLC finds
`SlotsHold` violated by such an info once it is among the tasks; `misjudged`
names it now, as it does the rotations of pictures that are not square. The
sizes and numbers of a task, and the tiles of a rotation, are sums and functions
over an interval instead of folds over sequences, about which nothing could be
proved, and so are the loops of `CmdLayoutV1`. `Executed` of `EdmaDevice` was one
definition with a fold; the parts it has now can be named in a proof. The lemmas
about single kinds failed first for infos that `honoured` let through and that the
code does not serve: an image or data with bindings and an address of its own, a
producer's data on 2.0, a line of YUV422 of odd length, and a tensor copied between
elements of different sizes. TLC found each of them once it was among the tasks;
`honoured` excludes them now and the list in section 2 names them. A line must be
shorter than a field is wide (`SizesAssumption`), as 1024 is than 65536: the lemma
about copies of whole lines needs it.

**Only model-checked.** Liveness (`CallsReturn`, and the fairness part of
`ImplementsTickets`), which with `ENABLED` is out of the prover's reach. Of the
safety properties, `DataArrives` of `EdmaFill` for the kinds of info that are not
`Plain`: rotations, up-samplings, `DEPTHTOSPACE` and the fast conversions between
depth and space, Bayer data, ready-made descriptors and paddings with edges. No
module declares a recursive operator.

## 5. Not modelled, and why

* Logging, tracing, the meaning of parameters and metadata, cache maintenance:
  they change no state another operation reads.
* Unlocked reads for messages only (`printInfo()`).
* The base executor, the stubs and the C interface: no state.
* EDMA: the generators compiled only with `MVPU_EN`, the codes of formats and
  pixel values, and what a UFBC codec reads and writes.
* References of sub-commands to command buffers: `addCmdBuf()` keeps a raw
  pointer that `cmdBufFree()` of the session can invalidate; the order is left
  to the caller by the API (listed as a hazard).
* Runs of bare command buffers in 1.0 (`mAsyncList`, `apusysEngine.cpp:511`): an
  entry is keyed by the address of an object, an entry that is there is kept,
  and `waitCmd()` of a command leaves the one its run made; what a later buffer at
  the same address waits for depends on the heap (listed as a hazard). Device
  allocation, firmware and power calls of 1.0 are single `ioctl`s.
* The pool of EDMA commands: `releaseCmd()` erases the command from the list and
  deletes what is behind it (`edmaEngine.cpp:427`), so that releasing the last
  command of the list is undefined already (listed as a hazard).
* `edma/2.0/edma_core.cpp`, a predecessor of the 3.0 encoder, and the two data
  headers (`edma_test_data.h`, `edma_mvpu_desc.cpp`): tables.
* VLM objects of the first executor, a sub-command created after the first build
  on the first driver.
* A handle imported by another process; the driver's own clean-up on close.

## 6. Plan

Done: the graph and its use by both executors, the commands of both drivers and
of 1.0 under several threads, the session, the allocators, the EDMA encoders; the
theorems above, which cover every safety property the passing runs check,
`DataArrives` for the kinds of info that are `Plain`. Left, in order of importance:

1. `DataArrives` for the other kinds, each a lemma like `PadDelivers` and one like
   `PadInFields`: Bayer data first (units of bytes on one plane), then the borders
   of a padding, the tiles of an up-sampling, and rotations through the internal
   buffer.
2. `LayoutFits` for buffers of larger alignment, where it fails: the bound within
   which it holds.
3. A sub-command created after the first build on the first driver.
