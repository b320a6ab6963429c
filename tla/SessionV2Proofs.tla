--------------------------- MODULE SessionV2Proofs ---------------------------
(***************************************************************************)
(* Proofs about SessionV2, for any number of threads, host addresses,      *)
(* commands, memory objects and allocations of the whole VLM.              *)
(*                                                                         *)
(* Two invariants.  TableInv holds whatever happens: what the two maps,    *)
(* the address space and the driver say of an object agree, also after a   *)
(* memUnImport() the driver refused.  SoundInv speaks of a session in      *)
(* which none was refused: each entry belongs to one caller, one command   *)
(* or one call in progress, and its address is mapped until that call has  *)
(* unmapped it, with the lock that keeps new entries out.                  *)
(***************************************************************************)
EXTENDS SessionV2, FiniteSetTheorems, SequenceTheorems, TLAPS

MemCalls == {"memFree", "memUnImport"}      \* the calls that look into mMemMap
CmdCalls == {"build", "deleteCmd"}
Locked   == {"unmap", "release", "erase", "munmap", "ioctl"}
Resting  == {"idle", "lookup", "alloc", "drop"}     \* at work on no object

\* The entry a freeing call finds at its address, and the object a call is for.
EntryAt(t) == IF thr[t].call \in MemCalls THEN memMap[thr[t].addr] ELSE cbMap[thr[t].addr]
Aim(t)     == IF At(t, "lookup") THEN EntryAt(t) ELSE thr[t].obj

\* A call that made an object and has not entered it yet, and where its memory
\* is at its address already.
Making(t)  == thr[t].pc \in {"map", "insert", "import", "mmap", "undo", "close"} /\ thr[t].obj # Whole
Placed(t)  == thr[t].pc \in {"map", "insert"} /\ thr[t].obj # Whole

-----------------------------------------------------------------------------
ObjsInv ==
  /\ objs[Whole].kind = "whole" /\ objs[Whole].vaddr = WholeAddr
  /\ \A o \in Obj \ {Whole} : objs[o].kind # "whole" /\ objs[o].vaddr \in Addr

EntriesInv ==
  \A a \in Addrs :
    /\ memMap[a] # 0 => objs[memMap[a]].vaddr = a /\ objs[memMap[a]].kind # "cmdbuf"
    /\ cbMap[a] # 0 => objs[cbMap[a]].vaddr = a /\ objs[cbMap[a]].kind = "cmdbuf"
    /\ memMap[a] \notin {0, Whole} =>
         \/ memMap[a] \in dva
         \/ \E t \in Threads : thr[t].pc \in {"release", "erase"} /\ thr[t].obj = memMap[a]

SpaceInv == \A a \in Addrs : space[a] # 0 => objs[space[a]].vaddr = a /\ space[a] \in fds

DeviceInv ==
  /\ \A o \in dva : objs[o].kind \in {"mem", "import"} /\ o \in fds \cup refused
  /\ \A b \in 1 .. MaxObj : pins[b] = Cardinality({o \in dva : objs[o].buf = b})

WholeInv == IsFiniteSet(WholeCalls) /\ whole + Cardinality(WholeCalls) <= MaxWhole

\* What a call in progress knows of its object.
CallInv(t) ==
  /\ At(t, "idle") => thr[t] = Idle
  /\ ~At(t, "idle") => alive
  /\ thr[t].obj \in 0 .. Len(objs)
  /\ thr[t].call \in CmdCalls <=> thr[t].cmd # {}
  /\ thr[t].cmd \subseteq cmds
  /\ At(t, "map") => /\ thr[t].call = "memAlloc" /\ thr[t].obj \in Obj \ {Whole}
                     /\ objs[thr[t].obj].kind = "mem" /\ thr[t].obj \in fds \ dva
  /\ thr[t].pc \in {"import", "mmap", "undo", "close"} => /\ thr[t].call = "memImport" /\ thr[t].obj \in fds \ {Whole}
                              /\ objs[thr[t].obj].kind = "import"
                              /\ \A a \in Addrs : space[a] # thr[t].obj
  /\ At(t, "import") => thr[t].obj \notin dva
  /\ thr[t].pc \in {"mmap", "undo"} => thr[t].obj \in dva
  /\ At(t, "close") /\ thr[t].obj \in dva => thr[t].obj \in refused
  /\ At(t, "insert") => /\ thr[t].obj \in Obj
                        /\ thr[t].obj = Whole => thr[t].call = "memAlloc"
                        /\ objs[thr[t].obj].kind \in {"mem", "import"} => thr[t].obj \in dva
                        /\ thr[t].cmd # {} => objs[thr[t].obj].kind = "cmdbuf" /\ thr[t].call = "build"
  /\ Making(t) => \A a \in Addrs : memMap[a] # thr[t].obj /\ cbMap[a] # thr[t].obj
  /\ At(t, "lookup") => /\ thr[t].call \in MemCalls \cup CmdCalls \cup {"cmdBufFree"}
                        /\ thr[t].call = "memUnImport" => thr[t].addr \in Addr
                        /\ thr[t].obj = 0
  /\ thr[t].pc \in Locked => memMtx = t /\ thr[t].obj # 0 /\ EntryAt(t) = thr[t].obj
  /\ At(t, "unmap") => thr[t].call = "memFree" /\ thr[t].obj \in dva \cup {Whole}
  /\ thr[t].pc \in {"munmap", "ioctl"} => thr[t].call = "memUnImport" /\ thr[t].obj \in dva
  /\ thr[t].pc \in {"release", "erase"} =>
       /\ thr[t].call \in {"memFree", "cmdBufFree"} \cup CmdCalls
       /\ thr[t].obj \in dva => thr[t].obj \in refused
  /\ At(t, "erase") /\ thr[t].obj # Whole => thr[t].obj \notin fds
  /\ thr[t].pc = "ioctl" => \A a \in Addrs : space[a] # thr[t].obj
  /\ At(t, "alloc") => thr[t].call = "build"
  /\ At(t, "drop") => thr[t].call = "deleteCmd"

\* A new object belongs to the call that made it; a command is in one call.
OneEach ==
  \A t, u \in Threads :
    /\ Making(t) /\ thr[t].obj = thr[u].obj => t = u
    /\ thr[t].cmd # {} /\ thr[t].cmd = thr[u].cmd => t = u

TableInv ==
  /\ TypeOK /\ ObjsInv /\ EntriesInv /\ SpaceInv /\ DeviceInv /\ WholeInv /\ OneEach
  /\ \A t \in Threads : CallInv(t)

-----------------------------------------------------------------------------
\* An entry's address is mapped until the call that erases it has unmapped it.
Live(o) == \/ space[objs[o].vaddr] = o
           \/ \E t \in Threads : thr[t].pc \in {"erase", "ioctl"} /\ thr[t].obj = o

EntriesLive ==
  \A a \in Addr : /\ memMap[a] # 0 => Live(memMap[a])
                  /\ cbMap[a] # 0 => Live(cbMap[a])
                  /\ memMap[a] = 0 \/ cbMap[a] = 0

Entered(o) == memMap[objs[o].vaddr] = o \/ cbMap[objs[o].vaddr] = o

HandlesKept == \A o \in fds \ {Whole} :
                 Entered(o) \/ \E t \in Threads : Making(t) /\ thr[t].obj = o

\* A call is for one object, which is for no other call, caller or command.
AimInv(t) ==
  /\ Placed(t) => space[objs[thr[t].obj].vaddr] = thr[t].obj
  /\ At(t, "lookup") /\ thr[t].addr \in Addr => Aim(t) # 0
  /\ At(t, "lookup") /\ thr[t].addr \notin Addr => thr[t].call = "memFree"
  /\ thr[t].call = "memUnImport" /\ Aim(t) # 0 => objs[Aim(t)].kind = "import"
  /\ \A c \in thr[t].cmd :
       /\ thr[t].pc \in {"alloc", "insert", "drop"} => exec[c] = 0
       /\ thr[t].pc \in {"lookup", "release", "erase"} => exec[c] = Aim(t) /\ exec[c] # 0

AimsApart == \A t, u \in Threads : Aim(t) = Aim(u) /\ Aim(t) \notin {0, Whole} => t = u

HeldInv(o) == /\ o # Whole /\ Entered(o)
              /\ \A t \in Threads : Aim(t) # o
              /\ \A c \in cmds : exec[c] # o

ExecInv(c) == exec[c] # 0 =>
                /\ cbMap[objs[exec[c]].vaddr] = exec[c]
                /\ \A t \in Threads : Aim(t) = exec[c] => thr[t].cmd = {c}
                /\ \A d \in cmds : exec[d] = exec[c] => d = c

SoundInv ==
  alive /\ ImportsGone =>
    /\ EntriesLive /\ HandlesKept /\ AimsApart
    /\ \A t \in Threads : AimInv(t)
    /\ \A o \in held : HeldInv(o)
    /\ \A c \in cmds : ExecInv(c)

EmptyAtEnd == ~alive /\ ImportsGone => /\ fds = {} /\ dva \subseteq refused
                                       /\ \A a \in Addrs : space[a] = 0

WholeFound == MaxWhole <= 1 /\ whole > 0 => memMap[WholeAddr] = Whole

SessionInv == TableInv /\ SoundInv /\ EmptyAtEnd /\ WholeFound
-----------------------------------------------------------------------------
LEMMA TypeFacts ==
  ASSUME TypeOK
  PROVE  /\ Len(objs) \in Nat /\ Len(objs) >= 1 /\ Len(objs) <= MaxObj /\ Whole \in Obj
         /\ 0 \notin Obj /\ Obj \subseteq 1 .. MaxObj
         /\ \A o \in Obj : objs[o] \in ObjRecord /\ objs[o].vaddr \in Addrs
         /\ \A a \in Addrs : /\ memMap[a] # 0 => memMap[a] \in Obj
                             /\ cbMap[a] # 0 => cbMap[a] \in Obj
                             /\ space[a] # 0 => space[a] \in Obj
         /\ \A c \in Cmds : exec[c] # 0 => exec[c] \in Obj
         /\ Addr \subseteq Addrs /\ WholeAddr \in Addrs /\ WholeAddr \notin Addr
<1>1. Len(objs) \in Nat /\ objs \in Seq(ObjRecord) /\ Len(objs) \in 1 .. MaxObj /\ MaxObj \in Nat
  BY SessionAssumption DEF TypeOK
<1>2. \A o \in Obj : objs[o] \in ObjRecord
  BY <1>1, ElementOfSeq DEF Obj
<1>3. Whole \in Obj /\ 0 \notin Obj /\ Obj \subseteq 1 .. MaxObj
  BY <1>1 DEF Obj, Whole
<1>4. \A o \in Obj : objs[o].vaddr \in Addrs
  BY <1>2 DEF ObjRecord
<1>5. \A a \in Addrs : /\ memMap[a] # 0 => memMap[a] \in Obj
                       /\ cbMap[a] # 0 => cbMap[a] \in Obj
                       /\ space[a] # 0 => space[a] \in Obj
  BY <1>1 DEF TypeOK, Obj
<1>6. \A c \in Cmds : exec[c] # 0 => exec[c] \in Obj
  BY <1>1 DEF TypeOK, Obj
<1>7. Addr \subseteq Addrs /\ WholeAddr \in Addrs /\ WholeAddr \notin Addr
  BY SessionAssumption DEF Addrs
<1> QED
  BY <1>1, <1>2, <1>3, <1>4, <1>5, <1>6, <1>7

\* A call that is making an object knows which.
LEMMA MakingObject ==
  ASSUME TypeOK
  PROVE  \A u \in Threads : CallInv(u) /\ Making(u) => thr[u].obj \in Obj /\ thr[u].obj # 0
<1> SUFFICES ASSUME NEW u \in Threads, CallInv(u), Making(u)
             PROVE  thr[u].obj \in Obj /\ thr[u].obj # 0
  OBVIOUS
<1>1. thr[u].obj \in Obj
  <2>1. fds \subseteq Obj
    BY DEF TypeOK
  <2> QED
    BY <2>1 DEF CallInv, Making, At
<1> QED
  BY <1>1, TypeFacts

LEMMA ThreadMoves ==
  ASSUME TypeOK, NEW t \in Threads, NEW d \in ThreadRecord, thr' = [thr EXCEPT ![t] = d]
  PROVE  /\ thr' \in [Threads -> ThreadRecord] /\ thr'[t] = d
         /\ \A u \in Threads \ {t} : thr'[u] = thr[u]
BY DEF TypeOK

LEMMA IdleRecord ==
  Idle \in ThreadRecord /\ Idle.pc = "idle" /\ Idle.call = "memAlloc" /\ Idle.obj = 0
    /\ Idle.addr = WholeAddr /\ Idle.cmd = {}
BY SessionAssumption DEF Idle, ThreadRecord, Addrs

\* Nobody holds the lock but its owner.
LEMMA LockedAlone ==
  ASSUME TableInv, NEW t \in Threads, memMtx = t \/ memMtx = NoThread,
         NEW u \in Threads \ {t}
  PROVE  thr[u].pc \notin Locked
BY SessionAssumption DEF TableInv, CallInv

\* Records of objects are never changed.
Grows == /\ Len(objs') \in Nat /\ Len(objs) <= Len(objs')
         /\ \A i \in Obj : objs'[i] = objs[i]

LEMMA ImportsKept ==
  ASSUME UNCHANGED unimportFailed
  PROVE  ImportsGone' <=> ImportsGone
BY DEF ImportsGone

\* Another thread's call is not disturbed.
LEMMA OtherCallKept ==
  ASSUME TableInv, NEW u \in Threads, thr'[u] = thr[u], Grows,
         alive' = alive \/ At(u, "idle"), refused \subseteq refused',
         thr[u].cmd \subseteq cmds',
         thr[u].pc \notin Resting => (thr[u].obj \in dva' <=> thr[u].obj \in dva),
         thr[u].obj \in fds' => thr[u].obj \in fds,
         Making(u) => (thr[u].obj \in fds => thr[u].obj \in fds'),
         \A a \in Addrs : space'[a] = thr[u].obj /\ thr[u].obj # 0 => space[a] = thr[u].obj,
         thr[u].pc \in Locked => memMtx' = memMtx /\ EntryAt(u)' = EntryAt(u),
         Making(u) => \A a \in Addrs : memMap'[a] # thr[u].obj /\ cbMap'[a] # thr[u].obj
  PROVE  CallInv(u)'
<1>1. CallInv(u) /\ TypeOK /\ thr[u].obj \in 0 .. Len(objs)
  BY DEF TableInv, CallInv
<1>2. /\ Obj \subseteq Obj' /\ thr[u].obj \in 0 .. Len(objs')
      /\ \A i \in Obj : objs'[i] = objs[i]
  BY <1>1, TypeFacts DEF Grows, Obj
<1>3. Making(u)' <=> Making(u)
  BY DEF Making
<1>8. thr[u].pc \in {"map", "insert"} \cup Locked => (thr[u].obj \in dva' <=> thr[u].obj \in dva)
  BY DEF Resting, Locked
<1>4. At(u, "map") => /\ thr[u].call = "memAlloc" /\ thr[u].obj \in Obj' \ {Whole}
                      /\ objs'[thr[u].obj].kind = "mem" /\ thr[u].obj \in fds' \ dva'
  BY <1>1, <1>2, <1>8 DEF CallInv, At, Making
<1>9. thr[u].pc \in {"import", "mmap", "undo", "close"} =>
        /\ thr[u].call = "memImport" /\ thr[u].obj \in fds' \ {Whole}
        /\ objs'[thr[u].obj].kind = "import"
        /\ \A a \in Addrs : space'[a] # thr[u].obj
        /\ thr[u].obj \in dva' <=> thr[u].obj \in dva
  <2> SUFFICES ASSUME thr[u].pc \in {"import", "mmap", "undo", "close"}
               PROVE  /\ thr[u].call = "memImport" /\ thr[u].obj \in fds' \ {Whole}
                      /\ objs'[thr[u].obj].kind = "import"
                      /\ \A a \in Addrs : space'[a] # thr[u].obj
                      /\ thr[u].obj \in dva' <=> thr[u].obj \in dva
    OBVIOUS
  <2>1. /\ thr[u].call = "memImport" /\ thr[u].obj \in fds \ {Whole}
        /\ objs[thr[u].obj].kind = "import"
        /\ \A a \in Addrs : space[a] # thr[u].obj
    BY <1>1 DEF CallInv
  <2>2. Making(u) /\ thr[u].pc \notin Resting /\ thr[u].obj \in Obj /\ thr[u].obj # 0
    BY <1>1, <2>1, TypeFacts DEF Making, Resting, TypeOK
  <2> QED
    BY <1>2, <2>1, <2>2
<1>10. /\ At(u, "import") => thr[u].obj \notin dva'
       /\ thr[u].pc \in {"mmap", "undo"} => thr[u].obj \in dva'
       /\ At(u, "close") /\ thr[u].obj \in dva' => thr[u].obj \in refused'
  BY <1>1, <1>9 DEF CallInv, At
<1>5. At(u, "insert") => /\ thr[u].obj \in Obj'
                         /\ thr[u].obj = Whole => thr[u].call = "memAlloc"
                         /\ objs'[thr[u].obj].kind \in {"mem", "import"} => thr[u].obj \in dva'
                         /\ thr[u].cmd # {} => objs'[thr[u].obj].kind = "cmdbuf" /\ thr[u].call = "build"
  BY <1>1, <1>2, <1>8 DEF CallInv, At
<1>6. At(u, "ioctl") => thr[u].obj # 0 /\ \A a \in Addrs : space'[a] # thr[u].obj
  BY <1>1 DEF CallInv, At, Locked
<1>7. thr[u].pc \in Locked => memMtx' = u /\ thr[u].obj # 0 /\ EntryAt(u)' = thr[u].obj
  BY <1>1 DEF CallInv
<1> QED
  BY <1>1, <1>2, <1>3, <1>4, <1>5, <1>6, <1>7, <1>8, <1>9, <1>10 DEF CallInv, At, Locked
-----------------------------------------------------------------------------
\* What no step of a call that keeps the objects and the maps can change.
LEMMA EntriesKept ==
  ASSUME TableInv, Grows, UNCHANGED <<memMap, cbMap>>,
         \A a \in Addrs : memMap[a] \notin {0, Whole} =>
           \/ memMap[a] \in dva'
           \/ \E t \in Threads : thr'[t].pc \in {"release", "erase"} /\ thr'[t].obj = memMap[a]
  PROVE  EntriesInv'
<1>1. \A a \in Addrs : /\ memMap[a] # 0 => objs'[memMap[a]] = objs[memMap[a]]
                       /\ cbMap[a] # 0 => objs'[cbMap[a]] = objs[cbMap[a]]
  BY TypeFacts DEF TableInv, Grows
<1> QED
  BY <1>1 DEF TableInv, EntriesInv

\* The same when no object comes or goes: only the calls differ.
LEMMA ObjsKept ==
  ASSUME TypeOK, UNCHANGED objs
  PROVE  Grows /\ Obj' = Obj /\ (ObjsInv => ObjsInv')
BY TypeFacts DEF Grows, Obj, ObjsInv

LEMMA OneEachKept ==
  ASSUME OneEach, NEW t \in Threads, \A u \in Threads \ {t} : thr'[u] = thr[u],
         \A u \in Threads \ {t} : Making(u) => thr[u].obj # thr'[t].obj,
         Making(t)' => \A u \in Threads \ {t} : thr[u].obj # thr'[t].obj,
         thr'[t].cmd # {} => \A u \in Threads \ {t} : thr[u].cmd # thr'[t].cmd
  PROVE  OneEach'
<1> SUFFICES ASSUME NEW v \in Threads, NEW u \in Threads
             PROVE  /\ Making(v)' /\ thr'[v].obj = thr'[u].obj => v = u
                    /\ thr'[v].cmd # {} /\ thr'[v].cmd = thr'[u].cmd => v = u
  BY DEF OneEach
<1>1. CASE v # t /\ u # t
  BY <1>1 DEF OneEach, Making
<1>2. CASE v = t /\ u # t
  BY <1>2
<1>3. CASE v # t /\ u = t
  BY <1>3 DEF Making
<1> QED
  BY <1>1, <1>2, <1>3

\* The calls for the whole VLM, one thread changing its own.
ForWhole(t) == thr[t].obj = Whole \/ (thr[t].call = "memFree" /\ thr[t].addr = WholeAddr)

LEMMA WholeCounted ==
  ASSUME WholeInv, NEW t \in Threads, \A u \in Threads \ {t} : thr'[u] = thr[u]
  PROVE  /\ IsFiniteSet(WholeCalls') /\ Cardinality(WholeCalls) \in Nat
         /\ Cardinality(WholeCalls') \in Nat
         /\ Cardinality(WholeCalls') =
              Cardinality(WholeCalls) + (IF ForWhole(t)' THEN 1 ELSE 0)
                                      - (IF ForWhole(t) THEN 1 ELSE 0)
<1>1. IsFiniteSet(WholeCalls) /\ Cardinality(WholeCalls) \in Nat
  BY FS_CardinalityType DEF WholeInv
<1>2. /\ t \in WholeCalls <=> ForWhole(t)
      /\ WholeCalls' = IF ForWhole(t)' THEN WholeCalls \cup {t} ELSE WholeCalls \ {t}
  BY DEF WholeCalls, ForWhole
<1>3. CASE ForWhole(t)'
  <2>1. WholeCalls' = WholeCalls \cup {t}
    BY <1>2, <1>3
  <2>2. /\ IsFiniteSet(WholeCalls \cup {t})
        /\ Cardinality(WholeCalls \cup {t}) =
             IF t \in WholeCalls THEN Cardinality(WholeCalls) ELSE Cardinality(WholeCalls) + 1
    BY <1>1, FS_AddElement
  <2> QED
    BY <1>1, <1>2, <1>3, <2>1, <2>2
<1>4. CASE ~ForWhole(t)'
  <2>1. WholeCalls' = WholeCalls \ {t}
    BY <1>2, <1>4
  <2>2. /\ IsFiniteSet(WholeCalls \ {t})
        /\ Cardinality(WholeCalls \ {t}) =
             IF t \in WholeCalls THEN Cardinality(WholeCalls) - 1 ELSE Cardinality(WholeCalls)
    BY <1>1, FS_RemoveElement
  <2>3. Cardinality(WholeCalls \ {t}) \in Nat
    BY <2>2, FS_CardinalityType
  <2> QED
    BY <1>1, <1>2, <1>4, <2>1, <2>2, <2>3
<1> QED
  BY <1>3, <1>4

\* A step that counts no allocation of the whole VLM, and is not for one.
LEMMA WholeKept ==
  ASSUME WholeInv, TypeOK, NEW t \in Threads, \A u \in Threads \ {t} : thr'[u] = thr[u],
         whole' = whole, ForWhole(t)' => ForWhole(t)
  PROVE  WholeInv'
<1>1. whole \in Nat /\ MaxWhole \in Nat
  BY SessionAssumption DEF TypeOK
<1>2. whole + Cardinality(WholeCalls) <= MaxWhole
  BY DEF WholeInv
<1> QED
  BY <1>1, <1>2, WholeCounted DEF WholeInv

\* A device mapping comes or goes, and the driver counts it.  X is the buffer
\* of each object.
Mapped(D, X, b) == {i \in D : X[i] = b}

LEMMA PinsCount ==
  ASSUME TypeOK, NEW o \in 1 .. MaxObj, NEW X, NEW b, NEW D,
         NEW m \in Nat, Cardinality(Mapped(dva, X, b)) = m
  PROVE  /\ X[o] = b /\ o \notin dva /\ D = dva \cup {o} => Cardinality(Mapped(D, X, b)) = m + 1
         /\ X[o] = b /\ o \in dva /\ D = dva \ {o} => Cardinality(Mapped(D, X, b)) = m - 1
         /\ X[o] # b /\ (D = dva \cup {o} \/ D = dva \ {o}) => Mapped(D, X, b) = Mapped(dva, X, b)
<1> DEFINE B == Mapped(dva, X, b)
<1>1. IsFiniteSet(B)
  <2>1. IsFiniteSet(1 .. MaxObj)
    BY SessionAssumption, FS_Interval
  <2>2. B \subseteq 1 .. MaxObj
    BY TypeFacts DEF TypeOK, Mapped
  <2> HIDE DEF B
  <2> QED
    BY <2>1, <2>2, FS_Subset
<1>2. /\ o \notin B => Cardinality(B \cup {o}) = m + 1
      /\ o \in B => Cardinality(B \ {o}) = m - 1
  <2>1. /\ Cardinality(B \cup {o}) = IF o \in B THEN Cardinality(B) ELSE Cardinality(B) + 1
        /\ Cardinality(B \ {o}) = IF o \in B THEN Cardinality(B) - 1 ELSE Cardinality(B)
    <3> HIDE DEF B
    <3> QED
      BY <1>1, FS_AddElement, FS_RemoveElement
  <2>2. Cardinality(B) = m
    OBVIOUS
  <2> HIDE DEF B
  <2> QED
    BY <2>1, <2>2
<1>3. CASE X[o] # b
  BY <1>3 DEF Mapped
<1>4. ASSUME X[o] = b, o \notin dva, D = dva \cup {o}
      PROVE  Cardinality(Mapped(D, X, b)) = m + 1
  <2>1. Mapped(D, X, b) = B \cup {o} /\ o \notin B
    BY <1>4 DEF Mapped
  <2> HIDE DEF B
  <2> QED
    BY <1>2, <2>1
<1>5. ASSUME X[o] = b, o \in dva, D = dva \ {o}
      PROVE  Cardinality(Mapped(D, X, b)) = m - 1
  <2>1. Mapped(D, X, b) = B \ {o} /\ o \in B
    BY <1>5 DEF Mapped
  <2> HIDE DEF B
  <2> QED
    BY <1>2, <2>1
<1> QED
  BY <1>3, <1>4, <1>5

LEMMA DeviceMapped ==
  ASSUME TypeOK, DeviceInv, NEW o \in 1 .. MaxObj, o \notin dva, NEW buf \in 1 .. MaxObj,
         dva' = dva \cup {o}, pins' = [pins EXCEPT ![buf] = @ + 1],
         objs'[o].buf = buf, objs'[o].kind \in {"mem", "import"}, o \in fds',
         \A i \in dva : objs'[i] = objs[i], fds \subseteq fds', refused \subseteq refused'
  PROVE  DeviceInv'
<1>1. \A i \in dva' : objs'[i].kind \in {"mem", "import"} /\ i \in fds' \cup refused'
  BY DEF DeviceInv
<1>2. ASSUME NEW b \in 1 .. MaxObj
      PROVE  pins'[b] = Cardinality({i \in dva' : objs'[i].buf = b})
  <2>1. PICK X : X = [i \in 1 .. MaxObj |-> objs'[i].buf]
    OBVIOUS
  <2>2. dva \subseteq 1 .. MaxObj
    BY TypeFacts DEF TypeOK
  <2>3. /\ Mapped(dva, X, b) = {i \in dva : objs[i].buf = b}
        /\ Mapped(dva', X, b) = {i \in dva' : objs'[i].buf = b}
        /\ X[o] = buf
    BY <2>1, <2>2 DEF Mapped
  <2>4. Cardinality(Mapped(dva, X, b)) = pins[b] /\ pins \in [1 .. MaxObj -> Nat]
    BY <2>3 DEF DeviceInv, TypeOK
  <2>7. PICK m \in Nat : m = pins[b] /\ Cardinality(Mapped(dva, X, b)) = m
    BY <2>4
  <2>5. CASE buf = b
    <3>1. pins'[b] = pins[b] + 1
      BY <2>4, <2>5
    <3>2. Cardinality(Mapped(dva', X, b)) = m + 1
      <4>1. X[o] = b
        BY <2>3, <2>5
      <4> QED
        BY <2>7, <4>1, PinsCount
    <3> QED
      BY <2>3, <2>7, <3>1, <3>2
  <2>6. CASE buf # b
    <3>1. pins'[b] = pins[b]
      BY <2>4, <2>6
    <3>2. Mapped(dva', X, b) = Mapped(dva, X, b)
      BY <2>3, <2>6, <2>7, PinsCount
    <3> QED
      BY <2>3, <2>4, <3>1, <3>2
  <2> QED
    BY <2>5, <2>6
<1> QED
  BY <1>1, <1>2 DEF DeviceInv

LEMMA DeviceUnmapped ==
  ASSUME TypeOK, DeviceInv, NEW o \in dva, NEW buf, objs[o].buf = buf,
         dva' = dva \ {o}, pins' = [pins EXCEPT ![buf] = @ - 1],
         \A i \in dva : objs'[i] = objs[i], fds \ {o} \subseteq fds', refused \subseteq refused'
  PROVE  DeviceInv' /\ pins' \in [1 .. MaxObj -> Nat]
<1>1. \A i \in dva' : objs'[i].kind \in {"mem", "import"} /\ i \in fds' \cup refused'
  BY DEF DeviceInv
<1>2. o \in Obj /\ o \in 1 .. MaxObj /\ buf \in 1 .. MaxObj /\ pins \in [1 .. MaxObj -> Nat]
  BY TypeFacts DEF TypeOK, ObjRecord
<1>3. ASSUME NEW b \in 1 .. MaxObj
      PROVE  /\ pins'[b] = Cardinality({i \in dva' : objs'[i].buf = b})
             /\ pins'[b] \in Nat
  <2>1. PICK X : X = [i \in 1 .. MaxObj |-> objs[i].buf]
    OBVIOUS
  <2>2. dva \subseteq 1 .. MaxObj
    BY TypeFacts DEF TypeOK
  <2>3. /\ Mapped(dva, X, b) = {i \in dva : objs[i].buf = b}
        /\ Mapped(dva', X, b) = {i \in dva' : objs'[i].buf = b}
        /\ X[o] = buf
    BY <1>2, <2>1, <2>2 DEF Mapped
  <2>4. Cardinality(Mapped(dva, X, b)) = pins[b]
    BY <2>3 DEF DeviceInv
  <2>7. PICK m \in Nat : m = pins[b] /\ Cardinality(Mapped(dva, X, b)) = m
    BY <1>2, <2>4
  <2>5. CASE buf = b
    <3>1. pins'[b] = pins[b] - 1
      BY <1>2, <2>5
    <3>2. Cardinality(Mapped(dva', X, b)) = m - 1
      <4>1. X[o] = b
        BY <2>3, <2>5
      <4> QED
        BY <1>2, <2>7, <4>1, PinsCount
    <3>3. pins'[b] = Cardinality(Mapped(dva', X, b))
      BY <2>7, <3>1, <3>2
    <3>4. Cardinality(Mapped(dva', X, b)) \in Nat
      <4>1. IsFiniteSet(1 .. MaxObj)
        BY SessionAssumption, FS_Interval
      <4>2. Mapped(dva', X, b) \subseteq 1 .. MaxObj
        BY <2>2 DEF Mapped
      <4> QED
        BY <4>1, <4>2, FS_Subset, FS_CardinalityType
    <3> QED
      BY <2>3, <3>3, <3>4
  <2>6. CASE buf # b
    <3>1. pins'[b] = pins[b] /\ pins[b] \in Nat
      BY <1>2, <2>6
    <3>2. Mapped(dva', X, b) = Mapped(dva, X, b)
      BY <1>2, <2>3, <2>6, <2>7, PinsCount
    <3> QED
      BY <2>3, <2>4, <3>1, <3>2
  <2> QED
    BY <2>5, <2>6
<1>4. pins' \in [1 .. MaxObj -> Nat]
  <2>1. DOMAIN pins' = 1 .. MaxObj /\ pins' = [b \in 1 .. MaxObj |-> pins'[b]]
    BY <1>2
  <2> QED
    BY <1>3, <2>1
<1> QED
  BY <1>1, <1>3, <1>4 DEF DeviceInv

LEMMA DeviceKept ==
  ASSUME TypeOK, DeviceInv, UNCHANGED <<dva, pins>>, \A i \in dva : objs'[i] = objs[i],
         \A i \in dva : i \in fds' \cup refused'
  PROVE  DeviceInv'
<1>1. \A b : {i \in dva' : objs'[i].buf = b} = {i \in dva : objs[i].buf = b}
  OBVIOUS
<1> QED
  BY <1>1 DEF DeviceInv

-----------------------------------------------------------------------------
\* A new object, under a number no object has had.  Only memImport() makes it
\* before it has memory.
NewOne(k, buf, a) ==
  /\ Len(objs) < MaxObj
  /\ objs' = Append(objs, [kind |-> k, buf |-> buf, vaddr |-> a])
  /\ fds' = fds \cup {Len(objs) + 1}
  /\ IF k = "import" THEN space' = space
                     ELSE space[a] = 0 /\ space' = [space EXCEPT ![a] = Len(objs) + 1]

LEMMA NewObjectFacts ==
  ASSUME TypeOK, ObjsInv, NEW k \in {"mem", "cmdbuf", "import"}, NEW buf \in 1 .. MaxObj,
         NEW a \in Addr, NewOne(k, buf, a), NEW n, n = Len(objs) + 1
  PROVE  /\ n \in 1 .. MaxObj /\ n \notin Obj /\ n \notin {0, Whole}
         /\ objs' \in Seq(ObjRecord) /\ Len(objs') = n /\ Len(objs') \in 1 .. MaxObj
         /\ Obj' = Obj \cup {n} /\ Grows /\ ObjsInv'
         /\ objs'[n] = [kind |-> k, buf |-> buf, vaddr |-> a]
         /\ fds' = fds \cup {n} /\ space' \in [Addrs -> 0 .. n]
         /\ \A e \in Addrs : space'[e] = IF e = a /\ k # "import" THEN n ELSE space[e]
         /\ k # "import" => space[a] = 0
<1> DEFINE r == [kind |-> k, buf |-> buf, vaddr |-> a]
<1>1. /\ Len(objs) \in Nat /\ Len(objs) >= 1 /\ Len(objs) < MaxObj /\ MaxObj \in Nat
      /\ objs \in Seq(ObjRecord) /\ objs' = Append(objs, r) /\ fds' = fds \cup {n}
      /\ IF k = "import" THEN space' = space
                         ELSE space[a] = 0 /\ space' = [space EXCEPT ![a] = n]
  BY TypeFacts, SessionAssumption DEF NewOne, TypeOK
<1>2. r \in ObjRecord
  BY DEF ObjRecord, Addrs
<1>3. /\ objs' \in Seq(ObjRecord) /\ Len(objs') = n /\ objs'[n] = r
      /\ \A i \in 1 .. Len(objs) : objs'[i] = objs[i]
  <2> HIDE DEF r
  <2> QED
    BY <1>1, <1>2, AppendProperties
<1>4. n \in 1 .. MaxObj /\ n \notin Obj /\ n \notin {0, Whole} /\ Obj' = Obj \cup {n}
  BY <1>1, <1>3 DEF Obj, Whole
<1>5. Grows
  BY <1>1, <1>3 DEF Grows, Obj
<1>6. Whole \in Obj
  BY TypeFacts
<1>7. ObjsInv'
  <2>1. objs'[Whole] = objs[Whole] /\ \A i \in Obj : objs'[i] = objs[i]
    BY <1>5, <1>6 DEF Grows
  <2>2. objs'[n].kind # "whole" /\ objs'[n].vaddr \in Addr
    BY <1>3
  <2> QED
    BY <1>4, <2>1, <2>2 DEF ObjsInv
<1>8. space \in [Addrs -> 0 .. Len(objs)] /\ a \in Addrs
  BY DEF TypeOK, Addrs
<1>9. space' \in [Addrs -> 0 .. n]
  BY <1>1, <1>8
<1>10. \A e \in Addrs : space'[e] = IF e = a /\ k # "import" THEN n ELSE space[e]
  BY <1>1, <1>8
<1> QED
  BY <1>1, <1>3, <1>4, <1>5, <1>7, <1>9, <1>10

\* Thread t's step makes object n of kind k for the call d it goes on with.
Makes(t, k, buf, a, n, d) ==
  /\ NewOne(k, buf, a) /\ n = Len(objs) + 1 /\ thr' = [thr EXCEPT ![t] = d]
  /\ thr[t].pc \in {"idle", "alloc"} /\ alive
  /\ \/ d.pc = "map" /\ d.call = "memAlloc"
     \/ d.pc = "import" /\ d.call = "memImport"
     \/ d.pc = "insert" /\ d.call \in {"cmdBufAlloc", "build"}
  /\ d.obj = n /\ d.cmd = thr[t].cmd /\ ((d.call = "build") <=> (d.cmd # {}))
  /\ (d.call = "memAlloc") <=> (k = "mem")
  /\ (d.call = "memImport") <=> (k = "import")
  /\ (d.call \in {"cmdBufAlloc", "build"}) <=> (k = "cmdbuf")
  /\ UNCHANGED <<dva, pins, maps, memMtx, commands, callers, refused, unimportFailed, alive>>

\* The call that made it enters it, after a device mapping if it needs one.
LEMMA CreatedTable ==
  ASSUME TableInv, NEW t \in Threads, NEW k \in {"mem", "cmdbuf", "import"},
         NEW buf \in 1 .. MaxObj, NEW a \in Addr, NEW n, NEW d \in ThreadRecord,
         Makes(t, k, buf, a, n, d)
  PROVE  TableInv'
<1>0. /\ NewOne(k, buf, a) /\ n = Len(objs) + 1 /\ thr' = [thr EXCEPT ![t] = d]
      /\ thr[t].pc \in {"idle", "alloc"} /\ alive
      /\ \/ d.pc = "map" /\ d.call = "memAlloc"
         \/ d.pc = "import" /\ d.call = "memImport"
         \/ d.pc = "insert" /\ d.call \in {"cmdBufAlloc", "build"}
      /\ d.obj = n /\ d.cmd = thr[t].cmd /\ ((d.call = "build") <=> (d.cmd # {}))
      /\ (d.call = "memAlloc") <=> (k = "mem")
      /\ (d.call = "memImport") <=> (k = "import")
      /\ (d.call \in {"cmdBufAlloc", "build"}) <=> (k = "cmdbuf")
      /\ UNCHANGED <<dva, pins, maps, memMtx, commands, callers, refused, unimportFailed, alive>>
  BY DEF Makes
<1> USE <1>0
<1>1. /\ TypeOK /\ ObjsInv /\ EntriesInv /\ SpaceInv /\ DeviceInv /\ WholeInv /\ OneEach
      /\ \A u \in Threads : CallInv(u)
  BY DEF TableInv
<1>2. /\ n \in 1 .. MaxObj /\ n \notin Obj /\ n \notin {0, Whole}
      /\ objs' \in Seq(ObjRecord) /\ Len(objs') = n /\ Len(objs') \in 1 .. MaxObj
      /\ Obj' = Obj \cup {n} /\ Grows /\ ObjsInv'
      /\ objs'[n] = [kind |-> k, buf |-> buf, vaddr |-> a]
      /\ fds' = fds \cup {n} /\ space' \in [Addrs -> 0 .. n]
      /\ \A e \in Addrs : space'[e] = IF e = a /\ k # "import" THEN n ELSE space[e]
  BY <1>1, NewObjectFacts
<1>3. /\ thr' \in [Threads -> ThreadRecord] /\ thr'[t] = d
      /\ \A u \in Threads \ {t} : thr'[u] = thr[u]
  BY <1>1, ThreadMoves
<1>4. /\ UNCHANGED <<memMap, cbMap, memMtx, listMtx, cmdList, cmds, exec, held, whole>>
      /\ UNCHANGED <<refused, unimportFailed, alive>>
  BY DEF maps, commands, callers
<1>5. /\ \A o \in Obj : objs'[o] = objs[o] /\ o # n
      /\ dva \subseteq Obj /\ fds \subseteq Obj /\ refused \subseteq Obj /\ held \subseteq Obj
      /\ \A e \in Addrs : /\ memMap[e] # 0 => memMap[e] \in Obj
                          /\ cbMap[e] # 0 => cbMap[e] \in Obj
                          /\ space[e] # 0 => space[e] \in Obj
      /\ 0 \notin Obj
  BY <1>1, <1>2, TypeFacts DEF Grows, TypeOK
<1>6. dva' = dva /\ n \notin dva
  BY <1>5, <1>2
<1>7. \A u \in Threads : thr[u].obj # n
  BY <1>1, <1>2, TypeFacts DEF CallInv, Obj
<1>8. pins' \in [1 .. MaxObj -> Nat]
  BY <1>1 DEF TypeOK
<1>9. TypeOK'
  <2>1. Len(objs) \in Nat /\ Len(objs) <= n
    BY <1>1, TypeFacts
  <2>2. /\ memMap' \in [Addrs -> 0 .. n] /\ cbMap' \in [Addrs -> 0 .. n]
        /\ exec' \in [Cmds -> 0 .. n]
    BY <1>1, <1>2, <1>4, <2>1 DEF TypeOK
  <2> QED
    BY <1>1, <1>2, <1>3, <1>4, <1>5, <1>6, <1>8, <2>2 DEF TypeOK
<1>10. EntriesInv'
  <2>1. \A e \in Addrs : memMap[e] \notin {0, Whole} =>
          \/ memMap[e] \in dva'
          \/ \E u \in Threads : thr'[u].pc \in {"release", "erase"} /\ thr'[u].obj = memMap[e]
    BY <1>1, <1>3, <1>6 DEF EntriesInv
  <2> QED
    BY <1>2, <1>4, <2>1, EntriesKept
<1>11. SpaceInv'
  <2> SUFFICES ASSUME NEW e \in Addrs, space'[e] # 0
               PROVE  objs'[space'[e]].vaddr = e /\ space'[e] \in fds'
    BY DEF SpaceInv
  <2>1. CASE e = a /\ k # "import"
    BY <1>2, <2>1
  <2>2. CASE ~(e = a /\ k # "import")
    <3>1. space'[e] = space[e]
      BY <1>2, <2>2
    <3> QED
      BY <1>1, <1>2, <1>5, <3>1 DEF SpaceInv
  <2> QED
    BY <2>1, <2>2
<1>12. DeviceInv'
  <2>1. \A o \in dva : objs'[o] = objs[o]
    BY <1>5
  <2>2. \A o \in dva : o \in fds' \cup refused'
    BY <1>1, <1>2, <1>4 DEF DeviceInv
  <2> QED
    BY <1>1, <2>1, <2>2, DeviceKept
<1>13. WholeInv'
  <2>1. ~ForWhole(t)'
    BY <1>2, <1>3 DEF ForWhole
  <2> QED
    BY <1>1, <1>3, <1>4, <2>1, WholeKept
<1>14. OneEach'
  <2>1. thr'[t].cmd # {} => \A u \in Threads \ {t} : thr[u].cmd # thr'[t].cmd
    BY <1>1, <1>3 DEF OneEach
  <2> QED
    BY <1>1, <1>3, <1>7, <2>1, OneEachKept
<1>15. ASSUME NEW u \in Threads \ {t}
       PROVE  CallInv(u)'
  <2>1. thr[u].cmd \subseteq cmds' /\ (thr[u].obj \in dva' <=> thr[u].obj \in dva)
        /\ (thr[u].obj \in fds' => thr[u].obj \in fds)
    BY <1>1, <1>2, <1>4, <1>6, <1>7 DEF CallInv
  <2>2. \A e \in Addrs : space'[e] = thr[u].obj /\ thr[u].obj # 0 => space[e] = thr[u].obj
    BY <1>2, <1>7
  <2>3. EntryAt(u)' = EntryAt(u)
    BY <1>3, <1>4 DEF EntryAt
  <2>4. Making(u) => \A e \in Addrs : memMap'[e] # thr[u].obj /\ cbMap'[e] # thr[u].obj
    BY <1>1, <1>4 DEF CallInv
  <2> QED
    BY <1>2, <1>3, <1>4, <2>1, <2>2, <2>3, <2>4, OtherCallKept
<1>16. CallInv(t)'
  <2>1. thr[t].cmd \subseteq cmds'
    BY <1>1, <1>4 DEF CallInv
  <2>2. \A e \in Addrs : memMap'[e] # n /\ cbMap'[e] # n
    BY <1>2, <1>4, <1>5
  <2>3. d.pc = "map" => objs'[n].kind = "mem" /\ n \in fds' \ dva' /\ d.call = "memAlloc"
    BY <1>2, <1>6
  <2>4. d.pc = "insert" => (objs'[n].kind \in {"mem", "import"} => n \in dva')
    BY <1>2, <1>6
  <2>5. d.call \in CmdCalls <=> d.cmd # {}
    BY DEF CmdCalls
  <2>8. d.cmd # {} => k = "cmdbuf" /\ d.call = "build"
    OBVIOUS
  <2>6. n \in Obj' /\ n \in 0 .. Len(objs')
    BY <1>2
  <2>7. d.pc \notin Locked \cup {"idle", "lookup", "alloc", "drop", "mmap", "undo", "close"}
    BY DEF Locked
  <2>9. d.pc = "import" => /\ objs'[n].kind = "import" /\ n \in fds' \ dva' /\ n # Whole
                           /\ d.call = "memImport" /\ \A e \in Addrs : space'[e] # n
    BY <1>2, <1>5, <1>6
  <2> QED
    BY <1>2, <1>3, <1>4, <2>1, <2>2, <2>3, <2>4, <2>5, <2>6, <2>7, <2>8, <2>9
    DEF CallInv, At, Making, Locked
<1> QED
  BY <1>2, <1>9, <1>10, <1>11, <1>12, <1>13, <1>14, <1>15, <1>16 DEF TableInv
\* A step of a call that touches neither the memory nor the maps.
LEMMA TableMoved ==
  ASSUME TableInv, NEW t \in Threads, NEW d \in ThreadRecord, thr' = [thr EXCEPT ![t] = d],
         UNCHANGED <<memory, maps, exec, refused, unimportFailed, alive>>,
         thr[t].pc \notin {"release", "erase"},
         held' \subseteq held, whole' \in 0 .. MaxWhole,
         memMtx' \in Threads \cup {NoThread}, listMtx' \in Threads \cup {NoThread},
         cmds' \subseteq cmds, cmdList' \subseteq cmds',
         \A u \in Threads \ {t} : thr[u].cmd \subseteq cmds',
         memMtx' = memMtx \/ memMtx = NoThread,
         \A u \in Threads \ {t} : Making(u) => thr[u].obj # d.obj,
         d.pc \notin {"map", "insert", "import", "mmap", "undo", "close"} \/ d.obj = Whole,
         d.cmd # {} => \A u \in Threads \ {t} : thr[u].cmd # d.cmd,
         WholeInv', CallInv(t)'
  PROVE  TableInv'
<1>1. /\ TypeOK /\ ObjsInv /\ EntriesInv /\ SpaceInv /\ DeviceInv /\ WholeInv /\ OneEach
      /\ \A u \in Threads : CallInv(u)
  BY DEF TableInv
<1>2. /\ thr' \in [Threads -> ThreadRecord] /\ thr'[t] = d
      /\ \A u \in Threads \ {t} : thr'[u] = thr[u]
  BY <1>1, ThreadMoves
<1>3. UNCHANGED <<objs, fds, dva, pins, space, memMap, cbMap, exec, refused, unimportFailed, alive>>
  BY DEF memory, maps
<1>4. Grows /\ Obj' = Obj /\ ObjsInv'
  BY <1>1, <1>3, ObjsKept
<1>5. TypeOK'
  BY <1>1, <1>2, <1>3, <1>4 DEF TypeOK
<1>6. EntriesInv'
  BY <1>1, <1>2, <1>3, <1>4, EntriesKept DEF EntriesInv
<1>7. SpaceInv'
  BY <1>1, <1>3 DEF SpaceInv
<1>8. DeviceInv'
  BY <1>1, <1>3, DeviceKept DEF DeviceInv
<1>9. OneEach'
  <2>1. ~Making(t)'
    BY <1>2 DEF Making
  <2> QED
    BY <1>1, <1>2, <2>1, OneEachKept
<1>10. ASSUME NEW u \in Threads \ {t}
       PROVE  CallInv(u)'
  <2>1. thr[u].pc \in Locked => memMtx' = memMtx /\ EntryAt(u)' = EntryAt(u)
    BY <1>1, <1>2, <1>3, SessionAssumption DEF CallInv, EntryAt
  <2>2. Making(u) => \A e \in Addrs : memMap'[e] # thr[u].obj /\ cbMap'[e] # thr[u].obj
    BY <1>1, <1>3 DEF CallInv
  <2> QED
    BY <1>2, <1>3, <1>4, <2>1, <2>2, OtherCallKept
<1> QED
  BY <1>4, <1>5, <1>6, <1>7, <1>8, <1>9, <1>10 DEF TableInv

\* A step of a call that leaves the maps alone and takes no memory from others.
LEMMA SoundMoved ==
  ASSUME TableInv, SoundInv, NEW t \in Threads, NEW d \in ThreadRecord,
         thr' = [thr EXCEPT ![t] = d], UNCHANGED <<memMap, cbMap, exec, alive>>,
         Grows, UNCHANGED unimportFailed, held' \subseteq held, cmds' \subseteq cmds,
         thr[t].pc \notin {"erase", "ioctl"},
         alive /\ ImportsGone =>
           \A e \in Addrs : space[e] # 0 =>
             \/ space'[e] = space[e]
             \/ /\ space[e] = thr[t].obj
                /\ Making(t) \/ (d.pc \in {"erase", "ioctl"} /\ d.obj = thr[t].obj),
         Making(t) => (Making(t)' /\ d.obj = thr[t].obj) \/ thr[t].obj \notin fds',
         \A o \in fds' : o \in fds \/ (Making(t)' /\ d.obj = o),
         alive /\ ImportsGone =>
           /\ AimInv(t)'
           /\ \A u \in Threads \ {t} : Aim(u) = Aim(t)' => Aim(u) \in {0, Whole}
           /\ \A o \in held' : o # Aim(t)'
           /\ \A c \in cmds' : exec[c] # 0 /\ exec[c] = Aim(t)' => d.cmd = {c}
  PROVE  SoundInv'
<1> SUFFICES ASSUME alive', ImportsGone'
             PROVE  /\ EntriesLive' /\ HandlesKept' /\ AimsApart'
                    /\ \A u \in Threads : AimInv(u)'
                    /\ \A o \in held' : HeldInv(o)'
                    /\ \A c \in cmds' : ExecInv(c)'
  BY DEF SoundInv
<1>1. /\ TypeOK /\ ObjsInv /\ EntriesInv /\ SpaceInv /\ DeviceInv /\ WholeInv /\ OneEach
      /\ \A u \in Threads : CallInv(u)
  BY DEF TableInv
<1>2. /\ thr' \in [Threads -> ThreadRecord] /\ thr'[t] = d
      /\ \A u \in Threads \ {t} : thr'[u] = thr[u]
  BY <1>1, ThreadMoves
<1>3. alive /\ ImportsGone
  BY <1>1, ImportsKept
<1>4. /\ EntriesLive /\ HandlesKept /\ AimsApart
      /\ \A u \in Threads : AimInv(u)
      /\ \A o \in held : HeldInv(o)
      /\ \A c \in cmds : ExecInv(c)
  BY <1>3 DEF SoundInv
<1>5. /\ AimInv(t)'
      /\ \A u \in Threads \ {t} : Aim(u) = Aim(t)' => Aim(u) \in {0, Whole}
      /\ \A o \in held' : o # Aim(t)'
      /\ \A c \in cmds' : exec[c] # 0 /\ exec[c] = Aim(t)' => d.cmd = {c}
  BY <1>3
<1>15. \A e \in Addrs : space[e] # 0 =>
          \/ space'[e] = space[e]
          \/ /\ space[e] = thr[t].obj
             /\ Making(t) \/ (d.pc \in {"erase", "ioctl"} /\ d.obj = thr[t].obj)
  BY <1>3
<1>6. /\ \A u \in Threads \ {t} : Aim(u)' = Aim(u)
      /\ \A o \in Obj : /\ objs'[o] = objs[o] /\ objs[o].vaddr \in Addrs
                        /\ Entered(o)' <=> Entered(o)
      /\ \A e \in Addrs : /\ memMap[e] # 0 => memMap[e] \in Obj
                          /\ cbMap[e] # 0 => cbMap[e] \in Obj
      /\ \A c \in Cmds : exec[c] # 0 => exec[c] \in Obj
      /\ fds \subseteq Obj /\ held \subseteq Obj /\ cmds \subseteq Cmds
      /\ Addr \subseteq Addrs /\ 0 \notin Obj
  <2>1. \A u \in Threads \ {t} : Aim(u)' = Aim(u)
    BY <1>2 DEF Aim, EntryAt, At
  <2>2. \A o \in Obj : objs'[o] = objs[o]
    BY DEF Grows
  <2>3. \A o \in Obj : Entered(o)' <=> Entered(o)
    BY <2>2 DEF Entered
  <2> QED
    BY <1>1, <2>1, <2>2, <2>3, TypeFacts DEF TypeOK
<1>7. \A e \in Addrs : (memMap[e] # 0 => memMap[e] # thr[t].obj \/ ~Making(t))
                       /\ (cbMap[e] # 0 => cbMap[e] # thr[t].obj \/ ~Making(t))
  BY <1>1 DEF CallInv
<1>8. ASSUME NEW o \in Obj, Live(o), o # thr[t].obj \/ ~Making(t)
      PROVE  Live(o)'
  <2>1. CASE space[objs[o].vaddr] = o
    <3>1. CASE space'[objs[o].vaddr] = o
      BY <1>6, <3>1 DEF Live
    <3>2. CASE o = thr[t].obj /\ d.pc \in {"erase", "ioctl"} /\ d.obj = thr[t].obj
      BY <1>2, <3>2 DEF Live
    <3> QED
      BY <1>6, <1>8, <1>15, <2>1, <3>1, <3>2
  <2>2. CASE \E u \in Threads : thr[u].pc \in {"erase", "ioctl"} /\ thr[u].obj = o
    BY <1>2, <2>2 DEF Live
  <2> QED
    BY <1>8, <2>1, <2>2 DEF Live
<1>9. EntriesLive'
  <2> SUFFICES ASSUME NEW a \in Addr
               PROVE  /\ memMap[a] # 0 => Live(memMap[a])'
                      /\ cbMap[a] # 0 => Live(cbMap[a])'
                      /\ memMap[a] = 0 \/ cbMap[a] = 0
    <3>1. \A i : Live(i)' <=> \/ space'[objs'[i].vaddr] = i
                              \/ \E u \in Threads : thr'[u].pc \in {"erase", "ioctl"} /\ thr'[u].obj = i
      BY DEF Live
    <3> QED
      BY <3>1 DEF EntriesLive, Live
  <2>1. /\ memMap[a] # 0 => Live(memMap[a]) /\ memMap[a] \in Obj
        /\ cbMap[a] # 0 => Live(cbMap[a]) /\ cbMap[a] \in Obj
        /\ memMap[a] = 0 \/ cbMap[a] = 0
    BY <1>4, <1>6 DEF EntriesLive
  <2>2. memMap[a] # 0 => Live(memMap[a])'
    <3>1. PICK m : m = memMap[a]
      OBVIOUS
    <3>2. m # 0 => Live(m)'
      BY <1>6, <1>7, <1>8, <2>1, <3>1
    <3> QED
      BY <3>1, <3>2 DEF Live
  <2>3. cbMap[a] # 0 => Live(cbMap[a])'
    <3>1. PICK m : m = cbMap[a]
      OBVIOUS
    <3>2. m # 0 => Live(m)'
      BY <1>6, <1>7, <1>8, <2>1, <3>1
    <3> QED
      BY <3>1, <3>2 DEF Live
  <2> QED
    BY <2>1, <2>2, <2>3
<1>10. HandlesKept'
  <2> SUFFICES ASSUME NEW o \in fds' \ {Whole}
               PROVE  Entered(o)' \/ \E u \in Threads : Making(u)' /\ thr'[u].obj = o
    BY DEF HandlesKept
  <2>1. CASE Making(t)' /\ d.obj = o
    BY <1>2, <2>1
  <2>2. CASE o \in fds /\ Entered(o)
    BY <1>6, <2>2
  <2>3. CASE o \in fds /\ \E u \in Threads : Making(u) /\ thr[u].obj = o
    <3>1. PICK u \in Threads : Making(u) /\ thr[u].obj = o
      BY <2>3
    <3>2. CASE u = t
      BY <1>2, <3>1, <3>2
    <3>3. CASE u # t
      BY <1>2, <3>1, <3>3 DEF Making
    <3> QED
      BY <3>2, <3>3
  <2> QED
    BY <1>4, <2>1, <2>2, <2>3 DEF HandlesKept
<1>11. AimsApart'
  <2> SUFFICES ASSUME NEW v \in Threads, NEW u \in Threads, Aim(v)' = Aim(u)',
                      Aim(v)' \notin {0, Whole}
               PROVE  v = u
    BY DEF AimsApart
  <2>1. CASE v # t /\ u # t
    BY <1>4, <1>6, <2>1 DEF AimsApart
  <2>2. CASE v = t /\ u # t
    BY <1>5, <1>6, <2>2
  <2>3. CASE v # t /\ u = t
    BY <1>5, <1>6, <2>3
  <2> QED
    BY <2>1, <2>2, <2>3
<1>12. ASSUME NEW u \in Threads \ {t}
       PROVE  AimInv(u)'
  <2>1. AimInv(u) /\ thr'[u] = thr[u] /\ Aim(u)' = Aim(u) /\ CallInv(u)
    BY <1>1, <1>2, <1>4, <1>6
  <2>2. Placed(u)' => space'[objs'[thr'[u].obj].vaddr] = thr'[u].obj
    <3> SUFFICES ASSUME Placed(u)
                 PROVE  space'[objs'[thr[u].obj].vaddr] = thr[u].obj
      BY <2>1 DEF Placed
    <3>1. thr[u].obj \in Obj /\ thr[u].obj # 0 /\ thr[u].obj # thr[t].obj
      BY <1>1, <1>6, <2>1 DEF Placed, Making, CallInv, OneEach, At
    <3>2. space[objs[thr[u].obj].vaddr] = thr[u].obj
      BY <2>1 DEF AimInv
    <3> QED
      BY <1>6, <1>15, <3>1, <3>2
  <2>3. thr[u].call = "memUnImport" /\ Aim(u) # 0 => objs'[Aim(u)].kind = "import"
    <3>1. Aim(u) # 0 => Aim(u) \in Obj
      BY <1>1, <1>6, <2>1 DEF Aim, EntryAt, CallInv, TypeOK, ThreadRecord, Obj
    <3> QED
      BY <1>6, <2>1, <3>1 DEF AimInv
  <2> QED
    BY <2>1, <2>2, <2>3 DEF AimInv, At
<1>13. ASSUME NEW o \in held'
       PROVE  HeldInv(o)'
  BY <1>4, <1>5, <1>6 DEF HeldInv
<1>14. ASSUME NEW c \in cmds'
       PROVE  ExecInv(c)'
  <2> SUFFICES ASSUME exec[c] # 0
               PROVE  /\ cbMap'[objs'[exec[c]].vaddr] = exec[c]
                      /\ \A u \in Threads : Aim(u)' = exec[c] => thr'[u].cmd = {c}
                      /\ \A e \in cmds' : exec[e] = exec[c] => e = c
    BY DEF ExecInv
  <2>1. /\ cbMap[objs[exec[c]].vaddr] = exec[c] /\ exec[c] \in Obj
        /\ \A u \in Threads : Aim(u) = exec[c] => thr[u].cmd = {c}
        /\ \A e \in cmds : exec[e] = exec[c] => e = c
    BY <1>4, <1>6 DEF ExecInv
  <2>2. \A u \in Threads : Aim(u)' = exec[c] => thr'[u].cmd = {c}
    BY <1>2, <1>5, <1>6, <2>1
  <2> QED
    BY <1>6, <2>1, <2>2
<1> QED
  BY <1>5, <1>9, <1>10, <1>11, <1>12, <1>13, <1>14
\* What a call is for is an object.
LEMMA AimIsObject ==
  ASSUME TableInv, NEW t \in Threads
  PROVE  Aim(t) \in 0 .. Len(objs) /\ (Aim(t) # 0 => Aim(t) \in Obj)
<1>1. TypeOK /\ CallInv(t) /\ thr[t] \in ThreadRecord
  BY DEF TableInv, TypeOK
<1>2. Len(objs) \in Nat /\ thr[t].addr \in Addrs /\ thr[t].obj \in 0 .. Len(objs)
  BY <1>1, TypeFacts DEF ThreadRecord, CallInv
<1> QED
  BY <1>1, <1>2 DEF Aim, EntryAt, TypeOK, Obj

\* A step of a running session that leaves the data memory map alone.
LEMMA StaysSession ==
  ASSUME SessionInv, alive, UNCHANGED <<alive, memMap>>, whole' > 0 => whole > 0,
         TableInv', SoundInv'
  PROVE  SessionInv'
BY DEF SessionInv, EmptyAtEnd, WholeFound

LEMMA Created ==
  ASSUME SessionInv, NEW t \in Threads, NEW k \in {"mem", "cmdbuf", "import"},
         NEW buf \in 1 .. MaxObj, NEW a \in Addr, NEW n, NEW d \in ThreadRecord,
         Makes(t, k, buf, a, n, d)
  PROVE  SessionInv'
<1>0. /\ NewOne(k, buf, a) /\ n = Len(objs) + 1 /\ thr' = [thr EXCEPT ![t] = d]
      /\ thr[t].pc \in {"idle", "alloc"} /\ alive
      /\ \/ d.pc = "map" /\ d.call = "memAlloc"
         \/ d.pc = "import" /\ d.call = "memImport"
         \/ d.pc = "insert" /\ d.call \in {"cmdBufAlloc", "build"}
      /\ d.obj = n /\ d.cmd = thr[t].cmd /\ ((d.call = "build") <=> (d.cmd # {}))
      /\ (d.call = "memAlloc") <=> (k = "mem")
      /\ (d.call = "memImport") <=> (k = "import")
      /\ (d.call \in {"cmdBufAlloc", "build"}) <=> (k = "cmdbuf")
      /\ UNCHANGED <<dva, pins, maps, memMtx, commands, callers, refused, unimportFailed, alive>>
  BY DEF Makes
<1> USE <1>0
<1>1. TableInv /\ SoundInv /\ TypeOK /\ ObjsInv /\ CallInv(t)
  BY DEF SessionInv, TableInv
<1>2. TableInv'
  BY <1>1, CreatedTable
<1>3. /\ n \notin Obj /\ n \notin {0, Whole} /\ Grows
      /\ objs'[n] = [kind |-> k, buf |-> buf, vaddr |-> a]
      /\ fds' = fds \cup {n} /\ (k # "import" => space[a] = 0)
      /\ \A e \in Addrs : space'[e] = IF e = a /\ k # "import" THEN n ELSE space[e]
  BY <1>1, NewObjectFacts
<1>4. thr'[t] = d
  BY <1>1, ThreadMoves
<1>5. /\ UNCHANGED <<memMap, cbMap, memMtx, listMtx, cmdList, cmds, exec, held, whole>>
      /\ UNCHANGED <<refused, unimportFailed, alive>>
  BY DEF maps, commands, callers
<1>6. /\ space \in [Addrs -> 0 .. Len(objs)] /\ a \in Addrs /\ held \subseteq Obj
      /\ cmds \subseteq Cmds /\ \A c \in Cmds : exec[c] # 0 => exec[c] \in Obj
  BY <1>1, TypeFacts DEF TypeOK
<1>7. Making(t)' /\ Aim(t)' = n /\ ~At(t, "lookup")' /\ ~Making(t)
  BY <1>3, <1>4 DEF Making, Aim, At
<1>8. \A u \in Threads : Aim(u) # n
  BY <1>1, <1>3, AimIsObject
<1>9. k # "import" => space'[a] = n
  BY <1>3, <1>6
<1>10. alive /\ ImportsGone => AimInv(t)'
  <2> SUFFICES ASSUME alive, ImportsGone
               PROVE  AimInv(t)'
    OBVIOUS
  <2>1. AimInv(t)
    BY <1>1 DEF SoundInv
  <2>2. \A c \in d.cmd : exec'[c] = 0
    <3>1. thr[t].pc = "alloc" \/ d.cmd = {}
      BY <1>1, IdleRecord DEF CallInv, At
    <3> QED
      BY <2>1, <3>1, <1>5 DEF AimInv
  <2>3. d.pc \in {"map", "insert"} => space'[objs'[d.obj].vaddr] = d.obj
    BY <1>3, <1>9
  <2>4. d.call # "memUnImport" \/ objs'[n].kind = "import"
    OBVIOUS
  <2>5. d.pc \notin {"lookup", "release", "erase"}
    OBVIOUS
  <2> QED
    BY <1>4, <1>7, <2>2, <2>3, <2>4, <2>5 DEF AimInv, Placed
<1>11. SoundInv'
  <2>1. \A e \in Addrs : space[e] # 0 => space'[e] = space[e]
    BY <1>3, <1>6
  <2>2. thr[t].pc \notin {"erase", "ioctl"}
    OBVIOUS
  <2>3. \A u \in Threads \ {t} : Aim(u) = Aim(t)' => Aim(u) \in {0, Whole}
    BY <1>7, <1>8
  <2>4. \A o \in held' : o # Aim(t)'
    BY <1>3, <1>5, <1>6, <1>7
  <2>5. \A c \in cmds' : exec[c] # 0 /\ exec[c] = Aim(t)' => d.cmd = {c}
    BY <1>3, <1>5, <1>6, <1>7
  <2>6. \A o \in fds' : o \in fds \/ (Making(t)' /\ d.obj = o)
    BY <1>3, <1>7
  <2>7. alive /\ ImportsGone =>
          /\ AimInv(t)'
          /\ \A u \in Threads \ {t} : Aim(u) = Aim(t)' => Aim(u) \in {0, Whole}
          /\ \A o \in held' : o # Aim(t)'
          /\ \A c \in cmds' : exec[c] # 0 /\ exec[c] = Aim(t)' => d.cmd = {c}
    BY <1>10, <2>3, <2>4, <2>5
  <2>8. UNCHANGED <<memMap, cbMap, exec, alive>> /\ held' \subseteq held /\ cmds' \subseteq cmds
        /\ UNCHANGED unimportFailed
    BY <1>5
  <2>9. \A e \in Addrs : space[e] # 0 =>
          \/ space'[e] = space[e]
          \/ /\ space[e] = thr[t].obj
             /\ Making(t) \/ (d.pc \in {"erase", "ioctl"} /\ d.obj = thr[t].obj)
    BY <2>1
  <2>10. Making(t) => (Making(t)' /\ d.obj = thr[t].obj) \/ thr[t].obj \notin fds'
    BY <1>7
  <2> QED
    BY <1>1, <1>3, <2>2, <2>6, <2>7, <2>8, <2>9, <2>10, SoundMoved
<1> QED
  BY <1>2, <1>5, <1>11, StaysSession

Calls == {"memAlloc", "cmdBufAlloc", "memImport", "memFree", "cmdBufFree", "memUnImport",
          "build", "deleteCmd"}
Places == {"idle", "map", "import", "mmap", "undo", "close", "insert", "lookup", "unmap", "release", "erase", "munmap", "ioctl",
           "alloc", "drop"}

\* The record of a call that starts, of a command's call, and of one that goes on.
Begun(pc, call, o)  == [Idle EXCEPT !.pc = pc, !.call = call, !.obj = o]
GoneOn(t, pc, o)    == [thr[t] EXCEPT !.pc = pc, !.obj = o]

LEMMA BeginRecord ==
  ASSUME NEW pc \in Places, NEW call \in Calls, NEW o \in 0 .. MaxObj
  PROVE  /\ Begun(pc, call, o) \in ThreadRecord
         /\ Begun(pc, call, o).pc = pc /\ Begun(pc, call, o).call = call
         /\ Begun(pc, call, o).obj = o /\ Begun(pc, call, o).addr = WholeAddr
         /\ Begun(pc, call, o).cmd = {}
<1>1. Idle \in ThreadRecord /\ Idle.addr = WholeAddr /\ Idle.cmd = {}
  BY IdleRecord
<1> QED
  BY <1>1 DEF Begun, ThreadRecord, Places, Calls

LEMMA GoesRecord ==
  ASSUME TypeOK, NEW t \in Threads, NEW pc \in Places, NEW o \in 0 .. MaxObj
  PROVE  /\ GoneOn(t, pc, o) \in ThreadRecord
         /\ GoneOn(t, pc, o).pc = pc /\ GoneOn(t, pc, o).call = thr[t].call
         /\ GoneOn(t, pc, o).obj = o /\ GoneOn(t, pc, o).addr = thr[t].addr
         /\ GoneOn(t, pc, o).cmd = thr[t].cmd
<1>1. thr[t] \in ThreadRecord
  BY DEF TypeOK
<1> QED
  BY <1>1 DEF GoneOn, ThreadRecord, Places

LEMMA MemAllocStep ==
  ASSUME SessionInv, NEW t \in Threads, NEW a \in Addr, memAlloc(t, a)
  PROVE  SessionInv'
<1>1. PICK n : n = Len(objs) + 1
  OBVIOUS
<1>2. PICK d : d = Begun("map", "memAlloc", n)
  OBVIOUS
<1>3. TypeOK /\ ObjsInv /\ CallInv(t) /\ thr[t].pc = "idle" /\ alive
  BY DEF SessionInv, TableInv, memAlloc, Begin, At
<1>4. n \in 1 .. MaxObj
  BY <1>1, <1>3, TypeFacts, SessionAssumption DEF memAlloc, NewObject, CanAllocate
<1>5. /\ d \in ThreadRecord /\ d.pc = "map" /\ d.call = "memAlloc" /\ d.obj = n /\ d.cmd = {}
      /\ thr[t].cmd = {}
  <2>1. n \in 0 .. MaxObj /\ "map" \in Places /\ "memAlloc" \in Calls
    BY <1>4 DEF Places, Calls
  <2>2. thr[t].cmd = {}
    BY <1>3, IdleRecord DEF CallInv, At
  <2> QED
    BY <1>2, <2>1, <2>2, BeginRecord
<1>6. /\ NewOne("mem", n, a) /\ thr' = [thr EXCEPT ![t] = d]
      /\ UNCHANGED <<dva, pins, maps, memMtx, commands, callers, refused, unimportFailed, alive>>
  BY <1>1, <1>2 DEF memAlloc, Begin, Begun, driver, NewOne, NewObject, CanAllocate
<1>7. PICK k : k = "mem"
  OBVIOUS
<1>8. k \in {"mem", "cmdbuf", "import"}
  BY <1>7
<1>18. Makes(t, k, n, a, n, d)
  BY <1>1, <1>3, <1>5, <1>6, <1>7 DEF Makes
<1> QED
  BY <1>3, <1>4, <1>5, <1>8, <1>18, Created
LEMMA CmdBufAllocStep ==
  ASSUME SessionInv, NEW t \in Threads, NEW a \in Addr, cmdBufAlloc(t, a)
  PROVE  SessionInv'
<1>1. PICK n : n = Len(objs) + 1
  OBVIOUS
<1>2. PICK d : d = Begun("insert", "cmdBufAlloc", n)
  OBVIOUS
<1>3. TypeOK /\ ObjsInv /\ CallInv(t) /\ thr[t].pc = "idle" /\ alive
  BY DEF SessionInv, TableInv, cmdBufAlloc, Begin, At
<1>4. n \in 1 .. MaxObj
  BY <1>1, <1>3, TypeFacts, SessionAssumption DEF cmdBufAlloc, NewObject, CanAllocate
<1>5. /\ d \in ThreadRecord /\ d.pc = "insert" /\ d.call = "cmdBufAlloc" /\ d.obj = n
      /\ d.cmd = {} /\ thr[t].cmd = {}
  <2>1. n \in 0 .. MaxObj /\ "insert" \in Places /\ "cmdBufAlloc" \in Calls
    BY <1>4 DEF Places, Calls
  <2>2. thr[t].cmd = {}
    BY <1>3, IdleRecord DEF CallInv, At
  <2> QED
    BY <1>2, <2>1, <2>2, BeginRecord
<1>6. /\ NewOne("cmdbuf", n, a) /\ thr' = [thr EXCEPT ![t] = d]
      /\ UNCHANGED <<dva, pins, maps, memMtx, commands, callers, refused, unimportFailed, alive>>
  BY <1>1, <1>2 DEF cmdBufAlloc, Begin, Begun, driver, NewOne, NewObject, CanAllocate
<1>7. PICK k : k = "cmdbuf"
  OBVIOUS
<1>8. k \in {"mem", "cmdbuf", "import"}
  BY <1>7
<1>18. Makes(t, k, n, a, n, d)
  BY <1>1, <1>3, <1>5, <1>6, <1>7 DEF Makes
<1> QED
  BY <1>3, <1>4, <1>5, <1>8, <1>18, Created
LEMMA MemImportStep ==
  ASSUME SessionInv, NEW t \in Threads, NEW a \in Addr, NEW i \in Obj, memImport(t, i, a)
  PROVE  SessionInv'
<1>1. PICK n : n = Len(objs) + 1
  OBVIOUS
<1>2. PICK d : d = [Idle EXCEPT !.pc = "import", !.call = "memImport", !.obj = n,
                                !.addr = objs[i].vaddr]
  OBVIOUS
<1>3. TypeOK /\ ObjsInv /\ CallInv(t) /\ thr[t].pc = "idle" /\ alive
  BY DEF SessionInv, TableInv, memImport, At
<1>4. n \in 1 .. MaxObj /\ objs[i] \in ObjRecord
  BY <1>1, <1>3, TypeFacts, SessionAssumption DEF memImport
<1>5. /\ d \in ThreadRecord /\ d.pc = "import" /\ d.call = "memImport" /\ d.obj = n
      /\ d.cmd = {} /\ thr[t].cmd = {}
  <2>1. n \in 0 .. MaxObj /\ objs[i].vaddr \in Addrs
    BY <1>4 DEF ObjRecord
  <2>2. thr[t].cmd = {}
    BY <1>3, IdleRecord DEF CallInv, At
  <2> QED
    BY <1>2, <2>1, <2>2, IdleRecord DEF ThreadRecord
<1>6. PICK buf : buf = objs[i].buf
  OBVIOUS
<1>7. buf \in 1 .. MaxObj
  BY <1>4, <1>6 DEF ObjRecord
<1>8. PICK k : k = "import"
  OBVIOUS
<1>9. /\ thr' = [thr EXCEPT ![t] = d] /\ NewOne("import", buf, a)
      /\ UNCHANGED <<dva, pins, maps, memMtx, commands, callers, refused, unimportFailed, alive>>
  BY <1>1, <1>2, <1>6 DEF memImport, NewOne, driver
<1>10. k \in {"mem", "cmdbuf", "import"}
  BY <1>8
<1>11. Makes(t, k, buf, a, n, d)
  BY <1>1, <1>3, <1>5, <1>8, <1>9 DEF Makes
<1> QED
  BY <1>3, <1>4, <1>5, <1>7, <1>10, <1>11, Created
LEMMA AllocExecStep ==
  ASSUME SessionInv, NEW t \in Threads, NEW a \in Addr, allocExec(t, a)
  PROVE  SessionInv'
<1>1. PICK n : n = Len(objs) + 1
  OBVIOUS
<1>2. PICK d : d = GoneOn(t, "insert", n)
  OBVIOUS
<1>3. TypeOK /\ ObjsInv /\ CallInv(t) /\ thr[t].pc = "alloc"
  BY DEF SessionInv, TableInv, allocExec, At
<1>4. n \in 1 .. MaxObj
  BY <1>1, <1>3, TypeFacts, SessionAssumption DEF allocExec, NewObject, CanAllocate
<1>5. thr[t] \in ThreadRecord /\ alive /\ thr[t].call = "build" /\ thr[t].cmd # {}
  BY <1>3 DEF TypeOK, CallInv, At, CmdCalls
<1>6. /\ d \in ThreadRecord /\ d.pc = "insert" /\ d.call = "build" /\ d.obj = n
      /\ d.cmd = thr[t].cmd
  <2>1. n \in 0 .. MaxObj /\ "insert" \in Places
    BY <1>4 DEF Places
  <2> QED
    BY <1>2, <1>3, <1>5, <2>1, GoesRecord
<1>7. /\ NewOne("cmdbuf", n, a) /\ thr' = [thr EXCEPT ![t] = d]
      /\ UNCHANGED <<dva, pins, maps, memMtx, commands, callers, refused, unimportFailed, alive>>
  BY <1>1, <1>2, <1>3 DEF allocExec, TypeOK, GoneOn, driver, NewOne, NewObject, CanAllocate
<1>8. PICK k : k = "cmdbuf"
  OBVIOUS
<1>9. k \in {"mem", "cmdbuf", "import"}
  BY <1>8
<1>19. Makes(t, k, n, a, n, d)
  BY <1>1, <1>3, <1>5, <1>6, <1>7, <1>8 DEF Makes
<1> QED
  BY <1>3, <1>4, <1>6, <1>9, <1>19, Created
-----------------------------------------------------------------------------
\* Steps of a call that change neither the memory nor the maps.
LEMMA Moved ==
  ASSUME SessionInv, alive, NEW t \in Threads, NEW d \in ThreadRecord,
         thr' = [thr EXCEPT ![t] = d], UNCHANGED <<memory, maps, exec, refused, unimportFailed, alive>>,
         thr[t].pc \in {"idle", "lookup", "alloc", "drop"},
         held' \subseteq held, whole' \in 0 .. MaxWhole, whole' > 0 => whole > 0,
         memMtx' \in Threads \cup {NoThread}, listMtx' \in Threads \cup {NoThread},
         cmds' \subseteq cmds, cmdList' \subseteq cmds',
         \A u \in Threads \ {t} : thr[u].cmd \subseteq cmds',
         memMtx' = memMtx \/ memMtx = NoThread,
         \A u \in Threads \ {t} : Making(u) => thr[u].obj # d.obj,
         d.pc \notin {"map", "insert", "import", "mmap", "undo", "close"} \/ d.obj = Whole,
         d.cmd # {} => \A u \in Threads \ {t} : thr[u].cmd # d.cmd,
         WholeInv', CallInv(t)',
         alive /\ ImportsGone =>
           /\ AimInv(t)'
           /\ \A u \in Threads \ {t} : Aim(u) = Aim(t)' => Aim(u) \in {0, Whole}
           /\ \A o \in held' : o # Aim(t)'
           /\ \A c \in cmds' : exec[c] # 0 /\ exec[c] = Aim(t)' => d.cmd = {c}
  PROVE  SessionInv'
<1>1. TableInv /\ SoundInv /\ TypeOK
  BY DEF SessionInv, TableInv
<1>2. thr[t].pc \notin {"release", "erase", "ioctl"} /\ ~Making(t)
  BY DEF Making
<1>3. TableInv'
  BY <1>1, <1>2, TableMoved
<1>4. UNCHANGED <<objs, fds, space, memMap, cbMap>>
  BY DEF memory, maps
<1>5. SoundInv'
  <2>1. Grows
    BY <1>1, <1>4, ObjsKept
  <2>2. \A e \in Addrs : space[e] # 0 =>
          \/ space'[e] = space[e]
          \/ /\ space[e] = thr[t].obj
             /\ Making(t) \/ (d.pc \in {"erase", "ioctl"} /\ d.obj = thr[t].obj)
    BY <1>4
  <2>3. \A o \in fds' : o \in fds \/ (Making(t)' /\ d.obj = o)
    BY <1>4
  <2> QED
    BY <1>1, <1>2, <1>4, <2>1, <2>2, <2>3, SoundMoved
<1> QED
  BY <1>3, <1>4, <1>5, StaysSession

\* A call that returned is for nothing.
LEMMA IdleCall ==
  ASSUME NEW t \in Threads, thr'[t] = Idle, Len(objs') \in Nat
  PROVE  /\ CallInv(t)' /\ AimInv(t)' /\ Aim(t)' = 0 /\ ~ForWhole(t)' /\ ~Making(t)'
         /\ thr'[t].pc = "idle"
<1>1. /\ thr'[t].pc = "idle" /\ thr'[t].call = "memAlloc" /\ thr'[t].obj = 0
      /\ thr'[t].cmd = {} /\ thr'[t].addr = WholeAddr
  BY IdleRecord
<1>2. Aim(t)' = 0 /\ ~ForWhole(t)' /\ ~Making(t)'
  BY <1>1 DEF Aim, At, ForWhole, Whole, Making
<1>3. CallInv(t)'
  BY <1>1, <1>2 DEF CallInv, At, CmdCalls, Locked
<1>4. AimInv(t)'
  BY <1>1, <1>2 DEF AimInv, At, Placed
<1> QED
  BY <1>1, <1>2, <1>3, <1>4

LEMMA MemAllocWholeStep ==
  ASSUME SessionInv, NEW t \in Threads, memAllocWhole(t)
  PROVE  SessionInv'
<1>1. PICK d : d = Begun("insert", "memAlloc", Whole)
  OBVIOUS
<1>2. /\ TableInv /\ TypeOK /\ ObjsInv /\ EntriesInv /\ SoundInv /\ WholeInv
      /\ CallInv(t) /\ thr[t] = Idle /\ alive
  BY DEF SessionInv, TableInv, CallInv, memAllocWhole, Begin
<1>3. /\ d \in ThreadRecord /\ d.pc = "insert" /\ d.call = "memAlloc" /\ d.obj = Whole
      /\ d.cmd = {} /\ thr[t].pc = "idle"
  <2>1. Whole \in 0 .. MaxObj /\ "insert" \in Places /\ "memAlloc" \in Calls
    BY SessionAssumption DEF Places, Calls, Whole
  <2> QED
    BY <1>1, <1>2, <2>1, BeginRecord, IdleRecord
<1>4. /\ thr' = [thr EXCEPT ![t] = d]
      /\ UNCHANGED <<memory, maps, memMtx, commands, callers, refused, unimportFailed, alive>>
  BY <1>1 DEF memAllocWhole, Begin, Begun, driver
<1>5. thr'[t] = d /\ \A u \in Threads \ {t} : thr'[u] = thr[u]
  BY <1>2, <1>3, <1>4, ThreadMoves
<1>6. /\ UNCHANGED <<memMtx, listMtx, cmdList, cmds, exec, held, whole, objs, memMap, cbMap>>
  BY <1>4 DEF commands, callers, memory, maps
<1>7. WholeInv'
  <2>1. ForWhole(t)' /\ ~ForWhole(t)
    BY <1>2, <1>3, <1>5, IdleRecord DEF ForWhole, Whole
  <2>2. /\ IsFiniteSet(WholeCalls') /\ Cardinality(WholeCalls) \in Nat
        /\ Cardinality(WholeCalls') = Cardinality(WholeCalls) + 1
    BY <1>2, <1>5, <2>1, WholeCounted
  <2>3. whole + Cardinality(WholeCalls) < MaxWhole /\ whole \in Nat /\ MaxWhole \in Nat
    BY <1>2, SessionAssumption DEF memAllocWhole, TypeOK
  <2> QED
    BY <1>6, <2>2, <2>3 DEF WholeInv
<1>8. CallInv(t)'
  <2>1. Whole \in Obj /\ Whole \in 0 .. Len(objs) /\ objs[Whole].kind = "whole"
    BY <1>2, TypeFacts DEF ObjsInv, Obj
  <2>2. ~Making(t)'
    BY <1>3, <1>5 DEF Making
  <2> QED
    BY <1>2, <1>3, <1>4, <1>5, <1>6, <2>1, <2>2 DEF CallInv, At, Locked, CmdCalls, Whole, Obj
<1>9. Aim(t)' = Whole
  BY <1>3, <1>5 DEF Aim, At
<1>10. alive /\ ImportsGone =>
         /\ AimInv(t)'
         /\ \A u \in Threads \ {t} : Aim(u) = Aim(t)' => Aim(u) \in {0, Whole}
         /\ \A o \in held' : o # Aim(t)'
         /\ \A c \in cmds' : exec[c] # 0 /\ exec[c] = Aim(t)' => d.cmd = {c}
  <2> SUFFICES ASSUME alive, ImportsGone
               PROVE  /\ AimInv(t)' /\ \A o \in held' : o # Whole
                      /\ \A c \in cmds' : exec[c] # 0 => exec[c] # Whole
    BY <1>9
  <2>1. \A o \in held : HeldInv(o)
    BY <1>2 DEF SoundInv
  <2>2. \A c \in cmds : ExecInv(c)
    BY <1>2 DEF SoundInv
  <2>3. ASSUME NEW c \in cmds, exec[c] # 0
        PROVE  exec[c] # Whole
    <3>1. cbMap[objs[exec[c]].vaddr] = exec[c]
      BY <2>2, <2>3 DEF ExecInv
    <3>2. objs[exec[c]].vaddr \in Addrs
      BY <1>2, <2>3, TypeFacts DEF TypeOK
    <3>3. objs[exec[c]].kind = "cmdbuf"
      BY <1>2, <2>3, <3>1, <3>2 DEF EntriesInv
    <3> QED
      BY <1>2, <3>3 DEF ObjsInv
  <2>4. AimInv(t)'
    BY <1>3, <1>5 DEF AimInv, At, Making, Placed
  <2> QED
    BY <1>6, <2>1, <2>3, <2>4 DEF HeldInv
<1>11. /\ whole' \in 0 .. MaxWhole /\ memMtx' \in Threads \cup {NoThread}
       /\ listMtx' \in Threads \cup {NoThread} /\ cmdList' \subseteq cmds'
       /\ (whole' > 0 => whole > 0) /\ held' \subseteq held /\ cmds' \subseteq cmds
       /\ memMtx' = memMtx
       /\ \A u \in Threads \ {t} : thr[u].cmd \subseteq cmds'
       /\ \A u \in Threads \ {t} : Making(u) => thr[u].obj # d.obj
  BY <1>2, <1>3, <1>6 DEF TypeOK, TableInv, CallInv, Making
<1> QED
  BY <1>2, <1>3, <1>4, <1>6, <1>7, <1>8, <1>10, <1>11, Moved

\* A call that starts to free what its caller has.
BegunAt(call, a) == [Idle EXCEPT !.pc = "lookup", !.call = call, !.addr = a]

LEMMA BeginAtRecord ==
  ASSUME NEW call \in Calls, NEW a \in Addrs
  PROVE  /\ BegunAt(call, a) \in ThreadRecord
         /\ BegunAt(call, a).pc = "lookup" /\ BegunAt(call, a).call = call
         /\ BegunAt(call, a).obj = 0 /\ BegunAt(call, a).addr = a
         /\ BegunAt(call, a).cmd = {}
<1>1. Idle \in ThreadRecord /\ Idle.obj = 0 /\ Idle.cmd = {}
  BY IdleRecord
<1> QED
  BY <1>1 DEF BegunAt, ThreadRecord, Calls

LEMMA FreeBegins ==
  ASSUME SessionInv, NEW t \in Threads, NEW o \in Obj,
         NEW call \in {"memFree", "cmdBufFree", "memUnImport"}, BeginAt(t, call, o),
         o = Whole => call = "memFree",
         call = "cmdBufFree" <=> objs[o].kind = "cmdbuf",
         call = "memUnImport" <=> objs[o].kind = "import",
         IF o = Whole THEN whole > 0 /\ whole' = whole - 1 /\ held' = held
                      ELSE o \in held /\ held' = held \ {o} /\ whole' = whole,
         UNCHANGED <<memory, maps, memMtx, commands, refused, unimportFailed, alive>>
  PROVE  SessionInv'
<1>1. PICK a : a = objs[o].vaddr
  OBVIOUS
<1>2. PICK d : d = BegunAt(call, a)
  OBVIOUS
<1>3. /\ TableInv /\ TypeOK /\ ObjsInv /\ EntriesInv /\ SoundInv /\ WholeInv
      /\ CallInv(t) /\ thr[t] = Idle /\ alive
  BY DEF SessionInv, TableInv, CallInv, BeginAt
<1>4. a \in Addrs /\ (o = Whole => a = WholeAddr) /\ (o # Whole => a \in Addr)
  BY <1>1, <1>3, TypeFacts DEF ObjsInv
<1>5. /\ d \in ThreadRecord /\ d.pc = "lookup" /\ d.call = call /\ d.obj = 0 /\ d.addr = a
      /\ d.cmd = {} /\ thr[t].pc = "idle"
  <2>1. call \in Calls
    BY DEF Calls
  <2> QED
    BY <1>2, <1>3, <1>4, <2>1, BeginAtRecord, IdleRecord
<1>6. thr' = [thr EXCEPT ![t] = d]
  BY <1>1, <1>2 DEF BeginAt, BegunAt
<1>7. thr'[t] = d /\ \A u \in Threads \ {t} : thr'[u] = thr[u]
  BY <1>3, <1>5, <1>6, ThreadMoves
<1>8. UNCHANGED <<memMtx, listMtx, cmdList, cmds, exec, objs, memMap, cbMap>>
  BY DEF commands, memory, maps
<1>9. whole' \in 0 .. MaxWhole /\ (whole' > 0 => whole > 0) /\ held' \subseteq held
  <2>1. whole \in 0 .. MaxWhole /\ MaxWhole \in Nat
    BY <1>3, SessionAssumption DEF TypeOK
  <2> QED
    BY <2>1
<1>10. WholeInv'
  <2>1. ~ForWhole(t)
    BY <1>3, IdleRecord DEF ForWhole, Whole
  <2>2. ForWhole(t)' <=> o = Whole
    <3>1. o # Whole => a # WholeAddr
      BY <1>4, SessionAssumption
    <3> QED
      BY <1>4, <1>5, <1>7, <3>1 DEF ForWhole, Whole
  <2>3. /\ IsFiniteSet(WholeCalls') /\ Cardinality(WholeCalls) \in Nat
        /\ Cardinality(WholeCalls') =
             Cardinality(WholeCalls) + (IF o = Whole THEN 1 ELSE 0)
    BY <1>3, <1>7, <2>1, <2>2, WholeCounted
  <2>4. whole + Cardinality(WholeCalls) <= MaxWhole /\ whole \in Nat /\ MaxWhole \in Nat
    BY <1>3, SessionAssumption DEF WholeInv, TypeOK
  <2>5. whole' + (IF o = Whole THEN 1 ELSE 0) = whole /\ whole' \in Nat
    BY <2>4
  <2> QED
    BY <2>3, <2>4, <2>5 DEF WholeInv
<1>11. CallInv(t)'
  <2>1. call = "memUnImport" => a \in Addr
    BY <1>4
  <2>2. 0 \in 0 .. Len(objs)
    BY <1>3, TypeFacts
  <2> QED
    BY <1>3, <1>5, <1>7, <1>8, <2>1, <2>2 DEF CallInv, At, Locked, MemCalls, CmdCalls, Making
<1>12. Aim(t)' = IF call = "cmdBufFree" THEN cbMap[a] ELSE memMap[a]
  BY <1>5, <1>7, <1>8 DEF Aim, At, EntryAt, MemCalls
<1>13. alive /\ ImportsGone =>
         /\ AimInv(t)'
         /\ \A u \in Threads \ {t} : Aim(u) = Aim(t)' => Aim(u) \in {0, Whole}
         /\ \A h \in held' : h # Aim(t)'
         /\ \A c \in cmds' : exec[c] # 0 /\ exec[c] = Aim(t)' => d.cmd = {c}
  <2> SUFFICES ASSUME alive, ImportsGone
               PROVE  /\ AimInv(t)'
                      /\ \A u \in Threads \ {t} : Aim(u) = Aim(t)' => Aim(u) \in {0, Whole}
                      /\ \A h \in held' : h # Aim(t)'
                      /\ \A c \in cmds' : exec[c] # 0 /\ exec[c] = Aim(t)' => d.cmd = {c}
    OBVIOUS
  <2>1. /\ \A h \in held : HeldInv(h)
        /\ \A c \in cmds : ExecInv(c)
    BY <1>3 DEF SoundInv
  <2>2. CASE o = Whole
    <3>1. Aim(t)' \in {0, Whole} /\ call = "memFree"
      <4>1. memMap[a] # 0 => memMap[a] = Whole
        BY <1>3, <1>4, <2>2, TypeFacts DEF EntriesInv, ObjsInv
      <4> QED
        BY <1>12, <2>2, <4>1
    <3>2. \A h \in held : h # Whole /\ h # 0
      BY <1>3, <2>1, TypeFacts DEF HeldInv, TypeOK
    <3>3. \A c \in cmds : exec[c] # 0 => exec[c] # Whole
      <4> SUFFICES ASSUME NEW c \in cmds, exec[c] # 0, exec[c] = Whole
                   PROVE  FALSE
        OBVIOUS
      <4>1. cbMap[WholeAddr] = Whole
        BY <1>3, <2>1 DEF ExecInv, ObjsInv
      <4>2. objs[Whole].kind = "cmdbuf"
        BY <1>3, <4>1 DEF EntriesInv, Addrs, Whole
      <4> QED
        BY <1>3, <4>2 DEF ObjsInv
    <3>4. AimInv(t)'
      <4>1. WholeAddr \notin Addr
        BY SessionAssumption
      <4> QED
        BY <1>4, <1>5, <1>7, <2>2, <3>1, <4>1 DEF AimInv, At, Making, Placed
    <3> QED
      BY <1>8, <1>9, <3>1, <3>2, <3>3, <3>4
  <2>3. CASE o # Whole
    <3>1. HeldInv(o) /\ o \in held /\ held' = held \ {o} /\ o # 0
      BY <1>3, <2>1, <2>3, TypeFacts
    <3>2. Aim(t)' = o
      <4>1. memMap[a] = o => objs[o].kind # "cmdbuf"
        BY <1>3, <1>4, <3>1 DEF EntriesInv
      <4>2. cbMap[a] = o => objs[o].kind = "cmdbuf"
        BY <1>3, <1>4, <3>1 DEF EntriesInv
      <4>3. memMap[a] = o \/ cbMap[a] = o
        BY <1>1, <3>1 DEF HeldInv, Entered
      <4> QED
        BY <1>12, <4>1, <4>2, <4>3
    <3>3. AimInv(t)'
      BY <1>4, <1>5, <1>7, <1>8, <2>3, <3>1, <3>2 DEF AimInv, At, Making, Placed
    <3> QED
      BY <1>8, <3>1, <3>2, <3>3 DEF HeldInv
  <2> QED
    BY <2>2, <2>3
<1>14. /\ memMtx' \in Threads \cup {NoThread} /\ listMtx' \in Threads \cup {NoThread}
       /\ cmdList' \subseteq cmds' /\ cmds' \subseteq cmds /\ memMtx' = memMtx
       /\ \A u \in Threads \ {t} : thr[u].cmd \subseteq cmds'
       /\ \A u \in Threads \ {t} : Making(u) => thr[u].obj # d.obj
  <2>1. \A u \in Threads : Making(u) => thr[u].obj # 0
    BY <1>3, MakingObject DEF TableInv
  <2> QED
    BY <1>3, <1>5, <1>8, <2>1 DEF TypeOK, TableInv, CallInv
<1> QED
  BY <1>3, <1>5, <1>6, <1>8, <1>9, <1>10, <1>11, <1>13, <1>14, Moved

LEMMA MemFreeStep ==
  ASSUME SessionInv, NEW t \in Threads, NEW o \in Obj, memFree(t, o)
  PROVE  SessionInv'
<1>1. ObjsInv
  BY DEF SessionInv, TableInv
<1>2. objs[o].kind \in {"whole", "mem"}
  BY <1>1 DEF memFree, ObjsInv
<1>3. UNCHANGED <<memory, maps, memMtx, commands, refused, unimportFailed, alive>> /\ BeginAt(t, "memFree", o)
  BY DEF memFree, driver
<1>4. IF o = Whole THEN whole > 0 /\ whole' = whole - 1 /\ held' = held
                   ELSE o \in held /\ held' = held \ {o} /\ whole' = whole
  BY DEF memFree
<1> QED
  BY <1>2, <1>3, <1>4, FreeBegins

LEMMA CmdBufFreeStep ==
  ASSUME SessionInv, NEW t \in Threads, NEW o \in Obj, cmdBufFree(t, o)
  PROVE  SessionInv'
<1>1. ObjsInv
  BY DEF SessionInv, TableInv
<1>2. o # Whole /\ objs[o].kind = "cmdbuf"
  BY <1>1 DEF cmdBufFree, ObjsInv
<1>3. UNCHANGED <<memory, maps, memMtx, commands, refused, unimportFailed, alive>>
      /\ BeginAt(t, "cmdBufFree", o)
  BY DEF cmdBufFree, driver
<1>4. o \in held /\ held' = held \ {o} /\ whole' = whole
  BY DEF cmdBufFree
<1> QED
  BY <1>2, <1>3, <1>4, FreeBegins

LEMMA MemUnImportStep ==
  ASSUME SessionInv, NEW t \in Threads, NEW o \in Obj, memUnImport(t, o)
  PROVE  SessionInv'
<1>1. ObjsInv
  BY DEF SessionInv, TableInv
<1>2. o # Whole /\ objs[o].kind = "import"
  BY <1>1 DEF memUnImport, ObjsInv
<1>3. UNCHANGED <<memory, maps, memMtx, commands, refused, unimportFailed, alive>>
      /\ BeginAt(t, "memUnImport", o)
  BY DEF memUnImport, driver
<1>4. o \in held /\ held' = held \ {o} /\ whole' = whole
  BY DEF memUnImport
<1> QED
  BY <1>2, <1>3, <1>4, FreeBegins
\* The object a freeing call finds belongs to it: what its entry says.
LEMMA LookupStep ==
  ASSUME SessionInv, NEW t \in Threads, lookup(t)
  PROVE  SessionInv'
<1>1. /\ TableInv /\ TypeOK /\ ObjsInv /\ EntriesInv /\ DeviceInv /\ SoundInv /\ WholeInv /\ OneEach
      /\ CallInv(t) /\ thr[t].pc = "lookup" /\ alive /\ thr[t].obj = 0
      /\ thr[t].addr \in Addrs /\ memMtx = NoThread
  BY DEF SessionInv, TableInv, CallInv, lookup, At, TypeOK, ThreadRecord
<1>2. PICK o : o = EntryAt(t)
  OBVIOUS
<1>3. /\ thr[t].call \in MemCalls \cup CmdCalls \cup {"cmdBufFree"} /\ Aim(t) = o
      /\ thr[t].call = "memUnImport" => thr[t].addr \in Addr
      /\ thr[t].call \in CmdCalls <=> thr[t].cmd # {}
  BY <1>1, <1>2 DEF CallInv, At, Aim
<1>4. UNCHANGED <<memory, maps, commands, callers, refused, unimportFailed, alive>>
  BY DEF lookup, driver
<1>5. UNCHANGED <<listMtx, cmdList, cmds, exec, objs, memMap, cbMap, held, whole>>
  BY <1>4 DEF commands, memory, maps, callers
<1>6. /\ whole' \in 0 .. MaxWhole /\ (whole' > 0 => whole > 0) /\ held' \subseteq held
      /\ listMtx' \in Threads \cup {NoThread} /\ cmdList' \subseteq cmds' /\ cmds' \subseteq cmds
      /\ \A u \in Threads \ {t} : thr[u].cmd \subseteq cmds'
      /\ thr[t].cmd # {} => \A u \in Threads \ {t} : thr[u].cmd # thr[t].cmd
  BY <1>1, <1>5 DEF TypeOK, TableInv, CallInv, OneEach
<1>7. Len(objs) \in Nat /\ Len(objs') \in Nat /\ Len(objs) <= MaxObj
      /\ \A u \in Threads : Making(u) => thr[u].obj # 0
  <2>1. \A u \in Threads : Making(u) => thr[u].obj \in Obj
    BY <1>1, MakingObject DEF TableInv
  <2> QED
    BY <1>1, <1>5, <2>1, TypeFacts
<1>8. CASE o = 0
  <2>1. afterFree(t) /\ memMtx' = memMtx
    BY <1>2, <1>3, <1>8 DEF lookup, EntryAt, MemCalls, CmdCalls
  <2>2. CASE thr[t].call \in CmdCalls
    <3>1. PICK pc : pc = IF thr[t].call = "build" THEN "alloc" ELSE "drop"
      OBVIOUS
    <3>2. PICK d : d = GoneOn(t, pc, 0)
      OBVIOUS
    <3>3. /\ d \in ThreadRecord /\ d.pc = pc /\ d.call = thr[t].call /\ d.obj = 0
          /\ d.addr = thr[t].addr /\ d.cmd = thr[t].cmd
      <4>1. pc \in Places /\ 0 \in 0 .. MaxObj
        BY <3>1, SessionAssumption DEF Places
      <4> QED
        BY <1>1, <3>2, <4>1, GoesRecord
    <3>4. thr' = [thr EXCEPT ![t] = d]
      <4>1. thr' = [thr EXCEPT ![t].pc = pc]
        BY <2>1, <2>2, <3>1 DEF afterFree, GoTo, CmdCalls
      <4>2. thr[t] \in ThreadRecord /\ thr \in [Threads -> ThreadRecord]
        BY <1>1 DEF TypeOK
      <4>3. [thr[t] EXCEPT !.pc = pc] = [thr[t] EXCEPT !.pc = pc, !.obj = 0]
        BY <1>1, <4>2 DEF ThreadRecord
      <4> QED
        BY <3>2, <4>1, <4>2, <4>3 DEF GoneOn
    <3>5. thr'[t] = d /\ \A u \in Threads \ {t} : thr'[u] = thr[u]
      BY <1>1, <3>3, <3>4, ThreadMoves
    <3>6. WholeInv'
      <4>1. ~ForWhole(t)'
        BY <2>2, <3>3, <3>5 DEF ForWhole, Whole, CmdCalls
      <4> QED
        BY <1>1, <1>5, <3>5, <4>1, WholeKept
    <3>7. CallInv(t)'
      <4>1. pc \in {"alloc", "drop"} /\ (pc = "alloc" => d.call = "build")
            /\ (pc = "drop" => d.call = "deleteCmd")
        BY <2>2, <3>1, <3>3 DEF CmdCalls
      <4>2. thr[t].cmd \subseteq cmds' /\ (d.call \in CmdCalls <=> d.cmd # {})
        BY <1>1, <1>3, <1>5, <3>3 DEF CallInv
      <4>3. 0 \in 0 .. Len(objs') /\ alive'
        BY <1>1, <1>4, <1>7
      <4> QED
        BY <3>3, <3>5, <4>1, <4>2, <4>3 DEF CallInv, At, Locked, Making
    <3>8. ~(alive /\ ImportsGone)
      <4> SUFFICES ASSUME alive, ImportsGone
                   PROVE  FALSE
        OBVIOUS
      <4>1. AimInv(t) /\ thr[t].cmd # {}
        BY <1>1, <1>3, <2>2 DEF SoundInv
      <4> QED
        BY <1>1, <1>3, <1>8, <4>1 DEF AimInv
    <3>9. d.pc \notin {"map", "insert", "import", "mmap", "undo", "close"}
      BY <3>1, <3>3
    <3> QED
      BY <1>1, <1>4, <1>6, <1>7, <2>1, <3>3, <3>4, <3>6, <3>7, <3>8, <3>9, <1>5, Moved
  <2>3. CASE thr[t].call \notin CmdCalls
    <3>1. thr' = [thr EXCEPT ![t] = Idle]
      BY <2>1, <2>3 DEF afterFree, Return, CmdCalls
    <3>2. thr'[t] = Idle /\ \A u \in Threads \ {t} : thr'[u] = thr[u]
      BY <1>1, <3>1, IdleRecord, ThreadMoves
    <3>3. /\ CallInv(t)' /\ AimInv(t)' /\ Aim(t)' = 0 /\ ~ForWhole(t)' /\ ~Making(t)'
      BY <1>7, <3>2, IdleCall
    <3>4. WholeInv'
      BY <1>1, <1>5, <3>2, <3>3, WholeKept
    <3>5. \A u \in Threads \ {t} : Making(u) => thr[u].obj # Idle.obj
      BY <1>7, IdleRecord
    <3>6. /\ \A u \in Threads \ {t} : Aim(u) = Aim(t)' => Aim(u) \in {0, Whole}
          /\ \A h \in held' : h # Aim(t)'
          /\ \A c \in cmds' : exec[c] # 0 /\ exec[c] = Aim(t)' => Idle.cmd = {c}
      BY <1>1, <1>5, <3>3, TypeFacts DEF TypeOK
    <3> QED
      BY <1>1, <1>4, <1>5, <1>6, <2>1, <3>1, <3>3, <3>4, <3>5, <3>6, IdleRecord, Moved
  <2> QED
    BY <2>2, <2>3
<1>9. CASE o # 0
  <2>1. PICK pc : pc = CASE thr[t].call = "memFree"     -> "unmap"
                         [] thr[t].call = "memUnImport" -> "munmap"
                         [] OTHER                       -> "release"
    OBVIOUS
  <2>2. o \in Obj /\ o \in 0 .. Len(objs) /\ o \in 0 .. MaxObj
    BY <1>1, <1>3, <1>9, AimIsObject, TypeFacts DEF Obj
  <2>3. PICK d : d = GoneOn(t, pc, o)
    OBVIOUS
  <2>4. /\ d \in ThreadRecord /\ d.pc = pc /\ d.call = thr[t].call /\ d.obj = o
        /\ d.addr = thr[t].addr /\ d.cmd = thr[t].cmd /\ pc \in {"unmap", "munmap", "release"}
    <3>1. pc \in {"unmap", "munmap", "release"}
      BY <2>1
    <3>2. pc \in Places
      BY <3>1 DEF Places
    <3> QED
      BY <1>1, <2>2, <2>3, <3>1, <3>2, GoesRecord
  <2>5. thr' = [thr EXCEPT ![t] = d] /\ memMtx' = t
    <3>1. /\ memMtx' = t
          /\ thr' = [thr EXCEPT ![t].obj = o, ![t].pc = pc]
      BY <1>2, <1>3, <1>9, <2>1 DEF lookup, EntryAt, MemCalls, CmdCalls
    <3>2. thr[t] \in ThreadRecord /\ thr \in [Threads -> ThreadRecord]
      BY <1>1 DEF TypeOK
    <3>3. [[thr[t] EXCEPT !.obj = o] EXCEPT !.pc = pc] = [thr[t] EXCEPT !.pc = pc, !.obj = o]
      BY <3>2 DEF ThreadRecord
    <3> QED
      BY <2>3, <3>1, <3>2, <3>3 DEF GoneOn
  <2>6. thr'[t] = d /\ \A u \in Threads \ {t} : thr'[u] = thr[u]
    BY <1>1, <2>4, <2>5, ThreadMoves
  <2>7. /\ thr[t].call \in MemCalls => /\ memMap[thr[t].addr] = o /\ objs[o].vaddr = thr[t].addr
                                       /\ objs[o].kind # "cmdbuf"
        /\ thr[t].call \notin MemCalls => /\ cbMap[thr[t].addr] = o
                                          /\ objs[o].vaddr = thr[t].addr
                                          /\ objs[o].kind = "cmdbuf"
    BY <1>1, <1>2, <1>9 DEF EntriesInv, EntryAt
  <2>8. thr[t].call \in MemCalls /\ o # Whole => o \in dva
    <3> SUFFICES ASSUME thr[t].call \in MemCalls, o # Whole, o \notin dva
                 PROVE  FALSE
      OBVIOUS
    <3>1. PICK u \in Threads : thr[u].pc \in {"release", "erase"}
      BY <1>1, <1>9, <2>7 DEF EntriesInv
    <3>2. u # t
      BY <1>1, <3>1
    <3> QED
      BY <1>1, <3>1, <3>2, LockedAlone DEF Locked
  <2>9. o = Whole => thr[t].call = "memFree" /\ thr[t].addr = WholeAddr
    <3>1. o = Whole => thr[t].addr = WholeAddr /\ thr[t].call \in MemCalls
      BY <1>1, <2>7 DEF ObjsInv
    <3>2. thr[t].call \in MemCalls => thr[t].call = "memFree" \/ thr[t].addr \in Addr
      BY <1>3 DEF MemCalls
    <3> QED
      BY <3>1, <3>2, SessionAssumption
  <2>10. WholeInv'
    <3>1. ForWhole(t)' => ForWhole(t)
      BY <2>4, <2>6, <2>9 DEF ForWhole
    <3> QED
      BY <1>1, <1>5, <2>6, <3>1, WholeKept
  <2>11. CallInv(t)'
    <3>1. EntryAt(t)' = o
      BY <1>2, <1>5, <2>4, <2>6 DEF EntryAt
    <3>2. pc = "unmap" => thr[t].call = "memFree" /\ o \in dva' \cup {Whole}
      BY <1>4, <2>1, <2>8 DEF memory, MemCalls
    <3>3. pc = "munmap" => thr[t].call = "memUnImport" /\ o \in dva'
      BY <1>4, <2>1, <2>8, <2>9 DEF memory, MemCalls
    <3>4. pc = "release" => /\ thr[t].call \in {"cmdBufFree"} \cup CmdCalls
                            /\ o \notin dva'
      <4> SUFFICES ASSUME pc = "release"
                   PROVE  thr[t].call \in {"cmdBufFree"} \cup CmdCalls /\ o \notin dva
        BY <1>4 DEF memory
      <4>1. thr[t].call \notin MemCalls
        BY <2>1 DEF MemCalls
      <4> QED
        BY <1>1, <1>3, <2>7, <4>1 DEF DeviceInv
    <3>5. thr[t].cmd \subseteq cmds' /\ (d.call \in CmdCalls <=> d.cmd # {})
      BY <1>1, <1>3, <1>5, <2>4 DEF CallInv
    <3>6. o \in 0 .. Len(objs') /\ alive' /\ o # 0
      BY <1>1, <1>4, <1>5, <1>9, <2>2
    <3> QED
      BY <2>4, <2>5, <2>6, <3>1, <3>2, <3>3, <3>4, <3>5, <3>6 DEF CallInv, At, Locked, Making
  <2>12. Aim(t)' = o
    BY <2>4, <2>6 DEF Aim, At
  <2>13. alive /\ ImportsGone =>
           /\ AimInv(t)'
           /\ \A u \in Threads \ {t} : Aim(u) = Aim(t)' => Aim(u) \in {0, Whole}
           /\ \A h \in held' : h # Aim(t)'
           /\ \A c \in cmds' : exec[c] # 0 /\ exec[c] = Aim(t)' => d.cmd = {c}
    <3> SUFFICES ASSUME alive, ImportsGone
                 PROVE  /\ AimInv(t)'
                        /\ \A u \in Threads \ {t} : Aim(u) = o => o \in {0, Whole}
                        /\ \A h \in held' : h # o
                        /\ \A c \in cmds' : exec[c] # 0 /\ exec[c] = o => d.cmd = {c}
      BY <2>12
    <3>1. /\ AimsApart /\ AimInv(t)
          /\ \A h \in held : HeldInv(h)
          /\ \A c \in cmds : ExecInv(c)
      BY <1>1 DEF SoundInv
    <3>2. AimInv(t)'
      <4>1. \A c \in thr[t].cmd : exec[c] = o /\ exec[c] # 0
        BY <1>1, <1>3, <3>1 DEF AimInv
      <4>2. thr[t].call = "memUnImport" => objs[o].kind = "import"
        BY <1>3, <1>9, <3>1 DEF AimInv
      <4> QED
        BY <1>5, <2>4, <2>6, <2>12, <4>1, <4>2 DEF AimInv, At, Making, Placed
    <3>3. \A u \in Threads \ {t} : Aim(u) = o => o \in {0, Whole}
      BY <1>3, <3>1 DEF AimsApart
    <3>4. \A h \in held : h # o
      BY <1>3, <3>1 DEF HeldInv
    <3>5. \A c \in cmds : exec[c] # 0 /\ exec[c] = o => d.cmd = {c}
      BY <1>3, <2>4, <3>1 DEF ExecInv
    <3> QED
      BY <1>5, <3>2, <3>3, <3>4, <3>5
  <2>14. \A u \in Threads \ {t} : Making(u) => thr[u].obj # d.obj
    BY <1>1, <2>4, <2>7 DEF TableInv, CallInv
  <2>15. memMtx' \in Threads \cup {NoThread} /\ (memMtx' = memMtx \/ memMtx = NoThread)
    BY <1>1, <2>5
  <2>16. d.pc \notin {"map", "insert", "import", "mmap", "undo", "close"} /\ thr[t].pc \in {"idle", "lookup", "alloc", "drop"}
         /\ (d.cmd # {} => \A u \in Threads \ {t} : thr[u].cmd # d.cmd)
    BY <1>1, <1>6, <2>4
  <2> QED
    BY <1>1, <1>4, <1>5, <1>6, <2>4, <2>5, <2>10, <2>11, <2>13, <2>14, <2>15, <2>16, Moved
<1> QED
  BY <1>8, <1>9
\* A call on a command that no other call is on.
CmdBegun(pc, call, c, a) == [Idle EXCEPT !.pc = pc, !.call = call, !.cmd = {c}, !.addr = a]

LEMMA CmdBeginRecord ==
  ASSUME NEW pc \in Places, NEW call \in Calls, NEW c \in Cmds, NEW a \in Addrs
  PROVE  /\ CmdBegun(pc, call, c, a) \in ThreadRecord
         /\ CmdBegun(pc, call, c, a).pc = pc /\ CmdBegun(pc, call, c, a).call = call
         /\ CmdBegun(pc, call, c, a).obj = 0 /\ CmdBegun(pc, call, c, a).addr = a
         /\ CmdBegun(pc, call, c, a).cmd = {c}
<1>1. Idle \in ThreadRecord /\ Idle.obj = 0
  BY IdleRecord
<1>2. {c} \in {{}} \cup {{e} : e \in Cmds}
  OBVIOUS
<1> QED
  BY <1>1, <1>2 DEF CmdBegun, ThreadRecord, Calls, Places

LEMMA CmdBegins ==
  ASSUME SessionInv, NEW t \in Threads, NEW c \in Cmds, NEW call \in CmdCalls, NEW pc,
         pc = IF exec[c] # 0 THEN "lookup" ELSE IF call = "build" THEN "alloc" ELSE "drop",
         BeginCmd(t, call, pc, c), listMtx' \in Threads \cup {NoThread},
         UNCHANGED <<memory, maps, memMtx, cmdList, cmds, exec, callers, refused, unimportFailed, alive>>
  PROVE  SessionInv'
<1>1. PICK a : a = IF exec[c] = 0 THEN WholeAddr ELSE objs[exec[c]].vaddr
  OBVIOUS
<1>2. PICK d : d = CmdBegun(pc, call, c, a)
  OBVIOUS
<1>3. /\ TableInv /\ TypeOK /\ ObjsInv /\ EntriesInv /\ SoundInv /\ WholeInv /\ OneEach
      /\ CallInv(t) /\ thr[t] = Idle /\ alive /\ c \in cmds /\ ~Busy(c)
  BY DEF SessionInv, TableInv, CallInv, BeginCmd
<1>4. a \in Addrs
  BY <1>1, <1>3, TypeFacts
<1>5. /\ d \in ThreadRecord /\ d.pc = pc /\ d.call = call /\ d.obj = 0 /\ d.addr = a
      /\ d.cmd = {c} /\ thr[t].pc = "idle"
  <2>1. call \in Calls /\ pc \in Places
    BY DEF Calls, CmdCalls, Places
  <2> QED
    BY <1>2, <1>3, <1>4, <2>1, CmdBeginRecord, IdleRecord
<1>6. thr' = [thr EXCEPT ![t] = d]
  BY <1>1, <1>2 DEF BeginCmd, CmdBegun
<1>7. thr'[t] = d /\ \A u \in Threads \ {t} : thr'[u] = thr[u]
  BY <1>3, <1>5, <1>6, ThreadMoves
<1>8. UNCHANGED <<memMtx, cmdList, cmds, exec, objs, memMap, cbMap, held, whole>>
  BY DEF callers, memory, maps
<1>9. /\ whole' \in 0 .. MaxWhole /\ (whole' > 0 => whole > 0) /\ held' \subseteq held
      /\ memMtx' \in Threads \cup {NoThread} /\ memMtx' = memMtx
      /\ cmdList' \subseteq cmds' /\ cmds' \subseteq cmds
      /\ \A u \in Threads \ {t} : thr[u].cmd \subseteq cmds'
      /\ \A u \in Threads \ {t} : thr[u].cmd # {c}
  BY <1>3, <1>8 DEF TypeOK, TableInv, CallInv, Busy
<1>10. WholeInv'
  <2>1. ~ForWhole(t)'
    BY <1>5, <1>7 DEF ForWhole, Whole, CmdCalls
  <2> QED
    BY <1>3, <1>7, <1>8, <2>1, WholeKept
<1>11. CallInv(t)'
  <2>1. /\ pc \in {"lookup", "alloc", "drop"}
        /\ pc = "alloc" => call = "build"
        /\ pc = "drop" => call = "deleteCmd"
    BY DEF CmdCalls
  <2>2. 0 \in 0 .. Len(objs') /\ {c} \subseteq cmds' /\ alive' /\ call # "memUnImport"
    BY <1>3, <1>8, TypeFacts DEF CmdCalls
  <2>3. d.call \in CmdCalls /\ d.cmd # {}
    BY <1>5
  <2> QED
    BY <1>5, <1>7, <2>1, <2>2, <2>3 DEF CallInv, At, Locked, Making
<1>12. alive /\ ImportsGone =>
         /\ AimInv(t)'
         /\ \A u \in Threads \ {t} : Aim(u) = Aim(t)' => Aim(u) \in {0, Whole}
         /\ \A h \in held' : h # Aim(t)'
         /\ \A e \in cmds' : exec[e] # 0 /\ exec[e] = Aim(t)' => d.cmd = {e}
  <2> SUFFICES ASSUME alive, ImportsGone
               PROVE  /\ AimInv(t)'
                      /\ \A u \in Threads \ {t} : Aim(u) = Aim(t)' => Aim(u) \in {0, Whole}
                      /\ \A h \in held' : h # Aim(t)'
                      /\ \A e \in cmds' : exec[e] # 0 /\ exec[e] = Aim(t)' => d.cmd = {e}
    OBVIOUS
  <2>1. /\ \A h \in held : HeldInv(h)
        /\ \A e \in cmds : ExecInv(e)
    BY <1>3 DEF SoundInv
  <2>2. CASE exec[c] = 0
    <3>1. Aim(t)' = 0 /\ pc \in {"alloc", "drop"}
      BY <1>5, <1>7, <2>2 DEF Aim, At
    <3>2. \A h \in held : h # 0
      BY <1>3, TypeFacts DEF TypeOK
    <3>3. AimInv(t)'
      BY <1>5, <1>7, <1>8, <2>2, <3>1 DEF AimInv, At, Making, Placed, CmdCalls
    <3> QED
      BY <1>8, <3>1, <3>2, <3>3
  <2>3. CASE exec[c] # 0
    <3>1. PICK o \in Obj : o = exec[c]
      BY <1>3, <2>3, TypeFacts
    <3>2. /\ cbMap[a] = o /\ a = objs[o].vaddr
          /\ \A u \in Threads : Aim(u) = o => thr[u].cmd = {c}
          /\ \A e \in cmds : exec[e] = o => e = c
      BY <1>1, <1>3, <2>1, <2>3, <3>1 DEF ExecInv
    <3>3. objs[o].kind = "cmdbuf" /\ a \in Addr /\ o # 0
      <4>1. objs[o].kind = "cmdbuf" /\ o # 0
        BY <1>3, <1>4, <2>3, <3>1, <3>2 DEF EntriesInv
      <4> QED
        BY <1>3, <3>2, <4>1 DEF ObjsInv
    <3>4. Aim(t)' = o /\ pc = "lookup"
      BY <1>5, <1>7, <1>8, <2>3, <3>2 DEF Aim, At, EntryAt, MemCalls, CmdCalls
    <3>5. \A u \in Threads \ {t} : Aim(u) # o
      BY <1>9, <3>2
    <3>6. \A h \in held : h # o
      BY <1>3, <2>1, <3>1 DEF HeldInv
    <3>7. AimInv(t)'
      BY <1>5, <1>7, <1>8, <3>1, <3>3, <3>4 DEF AimInv, At, Making, Placed, CmdCalls
    <3> QED
      BY <1>5, <1>8, <3>2, <3>4, <3>5, <3>6, <3>7
  <2> QED
    BY <2>2, <2>3
<1>13. \A u \in Threads \ {t} : Making(u) => thr[u].obj # d.obj
  <2>1. \A u \in Threads : Making(u) => thr[u].obj \in Obj
    BY <1>3, MakingObject DEF TableInv
  <2> QED
    BY <1>3, <1>5, <2>1, TypeFacts
<1>14. /\ d.pc \notin {"map", "insert", "import", "mmap", "undo", "close"} \/ d.obj = Whole
       /\ (d.cmd # {} => \A u \in Threads \ {t} : thr[u].cmd # d.cmd)
       /\ thr[t].pc \in {"idle", "lookup", "alloc", "drop"}
  BY <1>5, <1>9
<1> QED
  BY <1>3, <1>5, <1>6, <1>8, <1>9, <1>10, <1>11, <1>12, <1>13, <1>14, Moved

LEMMA BuildStep ==
  ASSUME SessionInv, NEW t \in Threads, NEW c \in Cmds, build(t, c)
  PROVE  SessionInv'
<1>1. PICK pc : pc = IF exec[c] # 0 THEN "lookup" ELSE "alloc"
  OBVIOUS
<1>2. BeginCmd(t, "build", pc, c)
  BY <1>1 DEF build
<1>3. PICK call \in CmdCalls : call = "build"
  BY DEF CmdCalls
<1>4. pc = IF exec[c] # 0 THEN "lookup" ELSE IF call = "build" THEN "alloc" ELSE "drop"
  BY <1>1, <1>3
<1>5. /\ listMtx' \in Threads \cup {NoThread}
      /\ UNCHANGED <<memory, maps, memMtx, cmdList, cmds, exec, callers, refused, unimportFailed, alive>>
  BY DEF build, commands, SessionInv, TableInv, TypeOK, driver
<1> QED
  BY <1>2, <1>3, <1>4, <1>5, CmdBegins

LEMMA DeleteCmdStep ==
  ASSUME SessionInv, NEW t \in Threads, NEW c \in Cmds, deleteCmd(t, c)
  PROVE  SessionInv'
<1>1. PICK pc : pc = IF exec[c] # 0 THEN "lookup" ELSE "drop"
  OBVIOUS
<1>2. BeginCmd(t, "deleteCmd", pc, c)
  BY <1>1 DEF deleteCmd
<1>3. PICK call \in CmdCalls : call = "deleteCmd"
  BY DEF CmdCalls
<1>4. pc = IF exec[c] # 0 THEN "lookup" ELSE IF call = "build" THEN "alloc" ELSE "drop"
  BY <1>1, <1>3
<1>5. /\ listMtx' \in Threads \cup {NoThread}
      /\ UNCHANGED <<memory, maps, memMtx, cmdList, cmds, exec, callers, refused, unimportFailed, alive>>
  BY DEF deleteCmd, driver
<1> QED
  BY <1>2, <1>3, <1>4, <1>5, CmdBegins

\* A call that ends without an effect on memory or maps.
LEMMA Returns ==
  ASSUME SessionInv, NEW t \in Threads, Return(t), thr[t].pc \in {"alloc", "drop"},
         listMtx' \in Threads \cup {NoThread}, cmds' \subseteq cmds, cmdList' \subseteq cmds',
         \A u \in Threads \ {t} : thr[u].cmd \subseteq cmds',
         UNCHANGED <<memory, maps, memMtx, exec, callers, refused, unimportFailed, alive>>
  PROVE  SessionInv'
<1>1. /\ TableInv /\ TypeOK /\ SoundInv /\ WholeInv /\ CallInv(t) /\ alive
  BY DEF SessionInv, TableInv, CallInv, At
<1>2. thr' = [thr EXCEPT ![t] = Idle]
  BY DEF Return
<1>3. thr'[t] = Idle /\ \A u \in Threads \ {t} : thr'[u] = thr[u]
  BY <1>1, <1>2, IdleRecord, ThreadMoves
<1>4. UNCHANGED <<objs, held, whole>>
  BY DEF memory, callers
<1>5. Len(objs') \in Nat /\ 0 \notin Obj /\ held \subseteq Obj
  BY <1>1, <1>4, TypeFacts DEF TypeOK
<1>6. CallInv(t)' /\ AimInv(t)' /\ Aim(t)' = 0 /\ ~ForWhole(t)' /\ ~Making(t)'
  BY <1>3, <1>5, IdleCall
<1>7. WholeInv'
  BY <1>1, <1>3, <1>4, <1>6, WholeKept
<1>8. \A u \in Threads \ {t} : Making(u) => thr[u].obj # Idle.obj
  <2>1. \A u \in Threads : Making(u) => thr[u].obj \in Obj
    BY <1>1, MakingObject DEF TableInv
  <2> QED
    BY <1>5, <2>1, IdleRecord
<1>9. /\ \A u \in Threads \ {t} : Aim(u) = Aim(t)' => Aim(u) \in {0, Whole}
      /\ \A h \in held' : h # Aim(t)'
      /\ \A c \in cmds' : exec[c] # 0 /\ exec[c] = Aim(t)' => Idle.cmd = {c}
  BY <1>4, <1>5, <1>6
<1>10. /\ whole' \in 0 .. MaxWhole /\ (whole' > 0 => whole > 0) /\ held' \subseteq held
       /\ memMtx' \in Threads \cup {NoThread} /\ memMtx' = memMtx
  BY <1>1, <1>4 DEF TypeOK
<1>11. Idle.pc \notin {"map", "insert", "import", "mmap", "undo", "close"} /\ Idle.cmd = {}
       /\ thr[t].pc \in {"idle", "lookup", "alloc", "drop"}
  BY IdleRecord
<1> QED
  BY <1>1, <1>2, <1>6, <1>7, <1>8, <1>9, <1>10, <1>11, IdleRecord, Moved

LEMMA AllocExecFailsStep ==
  ASSUME SessionInv, NEW t \in Threads, allocExecFails(t)
  PROVE  SessionInv'
<1>1. /\ Return(t) /\ thr[t].pc \in {"alloc", "drop"}
      /\ UNCHANGED <<memory, maps, memMtx, exec, callers, refused, unimportFailed, alive>>
      /\ UNCHANGED <<listMtx, cmdList, cmds>>
  BY DEF allocExecFails, At, commands, driver
<1>2. /\ listMtx' \in Threads \cup {NoThread} /\ cmds' \subseteq cmds /\ cmdList' \subseteq cmds'
      /\ \A u \in Threads \ {t} : thr[u].cmd \subseteq cmds'
  BY <1>1 DEF SessionInv, TableInv, TypeOK, CallInv
<1> QED
  BY <1>1, <1>2, Returns

LEMMA DropStep ==
  ASSUME SessionInv, NEW t \in Threads, drop(t)
  PROVE  SessionInv'
<1>1. /\ Return(t) /\ thr[t].pc \in {"alloc", "drop"}
      /\ UNCHANGED <<memory, maps, memMtx, exec, callers, refused, unimportFailed, alive>>
      /\ cmds' = cmds \ thr[t].cmd /\ cmdList' = cmdList \ thr[t].cmd /\ listMtx' = NoThread
  BY DEF drop, At, driver
<1>2. \A u \in Threads \ {t} : thr[u].cmd \subseteq cmds'
  <2> SUFFICES ASSUME NEW u \in Threads \ {t}, NEW c \in thr[u].cmd
               PROVE  c \in cmds'
    OBVIOUS
  <2>1. c \in cmds
    BY DEF SessionInv, TableInv, CallInv
  <2>2. /\ thr[u].cmd \in {{}} \cup {{e} : e \in Cmds}
        /\ thr[t].cmd \in {{}} \cup {{e} : e \in Cmds}
    BY DEF SessionInv, TableInv, TypeOK, ThreadRecord
  <2>3. thr[t].cmd # thr[u].cmd
    BY DEF SessionInv, TableInv, OneEach
  <2> QED
    BY <1>1, <2>1, <2>2, <2>3
<1>3. /\ listMtx' \in Threads \cup {NoThread} /\ cmds' \subseteq cmds /\ cmdList' \subseteq cmds'
  BY <1>1 DEF SessionInv, TableInv, TypeOK
<1> QED
  BY <1>1, <1>2, <1>3, Returns

LEMMA CreateCmdStep ==
  ASSUME SessionInv, NEW c \in Cmds, createCmd(c)
  PROVE  SessionInv'
<1>1. /\ alive /\ c \notin cmds
      /\ cmds' = cmds \cup {c} /\ cmdList' = cmdList \cup {c} /\ exec' = [exec EXCEPT ![c] = 0]
      /\ UNCHANGED <<objs, fds, dva, pins, space, memMap, cbMap, memMtx, listMtx, held, whole>>
      /\ UNCHANGED <<thr, refused, unimportFailed, alive>>
  BY DEF createCmd, memory, maps, callers, driver
<1>2. TableInv /\ SoundInv /\ TypeOK
  BY DEF SessionInv, TableInv
<1>3. TableInv'
  <2>1. TypeOK'
    BY <1>1, <1>2 DEF TypeOK, Obj
  <2>2. ObjsInv' /\ EntriesInv' /\ SpaceInv' /\ DeviceInv' /\ WholeInv'
    BY <1>1, <1>2 DEF TableInv, ObjsInv, EntriesInv, SpaceInv, DeviceInv, WholeInv, WholeCalls, Obj
  <2>3. OneEach'
    BY <1>1, <1>2 DEF TableInv, OneEach, Making
  <2>4. ASSUME NEW u \in Threads
        PROVE  CallInv(u)'
    BY <1>1, <1>2 DEF TableInv, CallInv, At, Making, Obj, EntryAt
  <2> QED
    BY <2>1, <2>2, <2>3, <2>4 DEF TableInv
<1>4. SoundInv'
  <2> SUFFICES ASSUME alive, ImportsGone
               PROVE  /\ EntriesLive' /\ HandlesKept' /\ AimsApart'
                      /\ \A u \in Threads : AimInv(u)'
                      /\ \A o \in held' : HeldInv(o)'
                      /\ \A e \in cmds' : ExecInv(e)'
    BY <1>1 DEF SoundInv, ImportsGone
  <2>1. /\ EntriesLive /\ HandlesKept /\ AimsApart
        /\ \A u \in Threads : AimInv(u)
        /\ \A o \in held : HeldInv(o)
        /\ \A e \in cmds : ExecInv(e)
    BY <1>2 DEF SoundInv
  <2>2. /\ EntriesLive' /\ HandlesKept' /\ AimsApart'
    BY <1>1, <2>1
    DEF EntriesLive, HandlesKept, AimsApart, Live, Entered, Making, Aim, At, EntryAt
  <2>3. \A u \in Threads : Aim(u)' = Aim(u)
    BY <1>1 DEF Aim, At, EntryAt
  <2>4. /\ exec'[c] = 0 /\ \A e \in cmds : e # c /\ exec'[e] = exec[e]
        /\ cmds \subseteq Cmds /\ held \subseteq Obj /\ 0 \notin Obj
    BY <1>1, <1>2, TypeFacts DEF TypeOK
  <2>5. ASSUME NEW u \in Threads
        PROVE  AimInv(u)'
    <3>1. \A e \in thr[u].cmd : exec'[e] = exec[e]
      BY <1>2, <2>4 DEF TableInv, CallInv
    <3> QED
      BY <1>1, <2>1, <2>3, <3>1 DEF AimInv, At, Making, Placed
  <2>6. ASSUME NEW o \in held'
        PROVE  HeldInv(o)'
    BY <1>1, <2>1, <2>3, <2>4 DEF HeldInv, Entered
  <2>7. ASSUME NEW e \in cmds'
        PROVE  ExecInv(e)'
    BY <1>1, <2>1, <2>3, <2>4 DEF ExecInv
  <2> QED
    BY <2>2, <2>5, <2>6, <2>7
<1> QED
  BY <1>1, <1>3, <1>4, StaysSession
-----------------------------------------------------------------------------
\* Steps of a call at work on its object, which leave the maps alone.
LEMMA GoToRecord ==
  ASSUME TypeOK, NEW t \in Threads, thr[t].obj \in 0 .. MaxObj, NEW pc \in Places, GoTo(t, pc),
         NEW d, d = GoneOn(t, pc, thr[t].obj)
  PROVE  /\ d \in ThreadRecord /\ d.pc = pc /\ d.call = thr[t].call /\ d.obj = thr[t].obj
         /\ d.addr = thr[t].addr /\ d.cmd = thr[t].cmd
         /\ thr' = [thr EXCEPT ![t] = d] /\ thr'[t] = d
         /\ \A u \in Threads \ {t} : thr'[u] = thr[u]
<1>1. /\ d \in ThreadRecord /\ d.pc = pc /\ d.call = thr[t].call /\ d.obj = thr[t].obj
      /\ d.addr = thr[t].addr /\ d.cmd = thr[t].cmd
  BY GoesRecord
<1>2. thr[t] \in ThreadRecord /\ thr \in [Threads -> ThreadRecord]
  BY DEF TypeOK
<1>3. [thr[t] EXCEPT !.pc = pc] = [thr[t] EXCEPT !.pc = pc, !.obj = thr[t].obj]
  BY <1>2 DEF ThreadRecord
<1>4. thr' = [thr EXCEPT ![t] = d]
  BY <1>2, <1>3 DEF GoTo, GoneOn
<1> QED
  BY <1>1, <1>4, ThreadMoves

\* While one call is at work on an object, under the lock or because the
\* object is new, no other works on it.
LEMMA OthersApart ==
  ASSUME TableInv, NEW t \in Threads, thr[t].pc \in Locked \/ Making(t),
         NEW u \in Threads \ {t}, thr[u].pc \notin Resting
  PROVE  thr[u].obj # thr[t].obj \/ thr[u].obj = Whole
<1>1. CallInv(t) /\ CallInv(u) /\ OneEach /\ thr[u].pc \in Places
  BY DEF TableInv, TypeOK, ThreadRecord, Places
<1>2. CASE Making(t)
  BY <1>1, <1>2 DEF OneEach
<1>3. CASE thr[t].pc \in Locked
  <2>1. thr[u].pc \notin Locked
    BY <1>1, <1>3, LockedAlone DEF CallInv
  <2>2. Making(u) \/ thr[u].obj = Whole
    BY <1>1, <2>1 DEF Making, Places, Resting, Locked
  <2>3. Making(u) => thr[u].obj # thr[t].obj
    BY <1>1 DEF OneEach
  <2> QED
    BY <2>2, <2>3
<1> QED
  BY <1>2, <1>3

LEMMA Works ==
  ASSUME SessionInv, alive, NEW t \in Threads, NEW d \in ThreadRecord,
         thr' = [thr EXCEPT ![t] = d], thr[t].pc \in Locked \/ Making(t),
         thr[t].pc \notin {"erase", "ioctl"},
         UNCHANGED <<objs, maps, memMtx, commands, callers, unimportFailed, alive>>,
         fds' \subseteq fds, dva' \subseteq Obj, pins' \in [1 .. MaxObj -> Nat],
         space' \in [Addrs -> 0 .. Len(objs)], refused \subseteq refused', refused' \subseteq Obj,
         d = Idle \/ (d.obj = thr[t].obj /\ d.cmd = thr[t].cmd /\ d.call = thr[t].call
                       /\ d.addr = thr[t].addr
                       /\ d.pc \in Locked \cup {"insert", "mmap", "undo", "close"}),
         Making(t)' => Making(t),
         d.pc \in {"release", "erase"} \/ Making(t) \/ (dva \subseteq dva' /\ thr[t].pc # "release"),
         \A i \in Obj \ {thr[t].obj} : i \in dva' <=> i \in dva,
         \A i \in fds \ {thr[t].obj} : i \in fds',
         \A a \in Addrs : space'[a] \in {0, space[a]} \/ (Making(t) /\ space'[a] = thr[t].obj),
         (Making(t) /\ d = Idle) => thr[t].obj \notin fds',
         SpaceInv', DeviceInv', CallInv(t)',
         alive /\ ImportsGone =>
           /\ AimInv(t)'
           /\ \A e \in Addrs : space[e] # 0 =>
                \/ space'[e] = space[e]
                \/ /\ space[e] = thr[t].obj
                   /\ Making(t) \/ (d.pc \in {"erase", "ioctl"} /\ d.obj = thr[t].obj)
  PROVE  SessionInv'
<1>1. /\ TableInv /\ SoundInv
      /\ TypeOK /\ ObjsInv /\ EntriesInv /\ SpaceInv /\ DeviceInv /\ WholeInv /\ OneEach
      /\ \A u \in Threads : CallInv(u)
  BY DEF SessionInv, TableInv
<1>2. /\ thr' \in [Threads -> ThreadRecord] /\ thr'[t] = d
      /\ \A u \in Threads \ {t} : thr'[u] = thr[u]
  BY <1>1, ThreadMoves
<1>3. UNCHANGED <<memMap, cbMap, listMtx, cmdList, cmds, exec, held, whole>>
  BY DEF maps, commands, callers
<1>4. Grows /\ Obj' = Obj /\ ObjsInv' /\ Len(objs') \in Nat
  BY <1>1, ObjsKept, TypeFacts
<1>5. TypeOK'
  BY <1>1, <1>2, <1>3, <1>4 DEF TypeOK
<1>6. EntriesInv'
  <2> SUFFICES ASSUME NEW a \in Addrs, memMap[a] \notin {0, Whole}
               PROVE  \/ memMap[a] \in dva'
                      \/ \E u \in Threads : /\ thr'[u].pc \in {"release", "erase"}
                                            /\ thr'[u].obj = memMap[a]
    BY <1>1, <1>3, <1>4, EntriesKept
  <2>1. memMap[a] \in Obj
    BY <1>1, TypeFacts
  <2>2. CASE memMap[a] = thr[t].obj
    <3>1. CASE d.pc \in {"release", "erase"}
      <4>1. d.obj = thr[t].obj
        BY <3>1, IdleRecord
      <4> QED
        BY <1>2, <2>2, <3>1, <4>1
    <3>2. CASE dva \subseteq dva' /\ thr[t].pc # "release"
      BY <1>1, <1>2, <2>2, <3>2 DEF EntriesInv
    <3>3. CASE Making(t)
      BY <1>1, <2>2, <3>3 DEF CallInv
    <3> QED
      BY <3>1, <3>2, <3>3
  <2>3. CASE memMap[a] # thr[t].obj
    <3>1. CASE memMap[a] \in dva
      BY <2>1, <2>3, <3>1
    <3>2. CASE \E u \in Threads : thr[u].pc \in {"release", "erase"} /\ thr[u].obj = memMap[a]
      BY <1>2, <2>3, <3>2
    <3> QED
      BY <1>1, <3>1, <3>2 DEF EntriesInv
  <2> QED
    BY <2>2, <2>3
<1>7. Aim(t)' \in {0, Aim(t)} /\ Aim(t) = thr[t].obj
  <2>1. thr[t].pc # "lookup"
    BY DEF Locked, Making
  <2>2. d.pc # "lookup" /\ (d = Idle => d.obj = 0)
    BY IdleRecord DEF Locked
  <2> QED
    BY <1>2, <2>1, <2>2 DEF Aim, At
<1>8. WholeInv'
  <2>1. ForWhole(t)' => ForWhole(t)
    BY <1>2, IdleRecord DEF ForWhole, Whole
  <2> QED
    BY <1>1, <1>2, <1>3, <2>1, WholeKept
<1>9. OneEach'
  <2>1. \A u \in Threads \ {t} : Making(u) => thr[u].obj # thr'[t].obj
    <3>1. \A u \in Threads : Making(u) => thr[u].obj # 0
      BY <1>1, MakingObject DEF TableInv
    <3>2. thr'[t].obj \in {0, thr[t].obj}
      BY <1>2, IdleRecord
    <3> QED
      BY <1>1, <3>1, <3>2 DEF OneEach
  <2>2. Making(t)' => \A u \in Threads \ {t} : thr[u].obj # thr'[t].obj
    <3>1. Making(t)' => thr'[t].obj = thr[t].obj
      BY <1>2, IdleRecord DEF Making
    <3> QED
      BY <1>1, <3>1 DEF OneEach
  <2>3. thr'[t].cmd # {} => \A u \in Threads \ {t} : thr[u].cmd # thr'[t].cmd
    BY <1>1, <1>2, IdleRecord DEF OneEach
  <2> QED
    BY <1>1, <1>2, <2>1, <2>2, <2>3, OneEachKept
<1>10. ASSUME NEW u \in Threads \ {t}
       PROVE  CallInv(u)'
  <2>1. thr[u].pc \notin Resting => (thr[u].obj \in dva' <=> thr[u].obj \in dva)
    <3> SUFFICES ASSUME thr[u].pc \notin Resting
                 PROVE  thr[u].obj \in dva' <=> thr[u].obj \in dva
      OBVIOUS
    <3>1. thr[u].obj # thr[t].obj \/ thr[u].obj = Whole
      BY <1>1, OthersApart
    <3>2. CASE thr[u].obj = Whole
      <4>1. Whole \notin dva /\ Whole \notin dva'
        BY <1>1, <1>4 DEF DeviceInv, ObjsInv
      <4> QED
        BY <3>2, <4>1
    <3>3. CASE thr[u].obj # thr[t].obj
      <4>1. thr[u].obj \in Obj \/ thr[u].obj = 0
        BY <1>1, TypeFacts DEF CallInv, Obj
      <4>2. 0 \notin dva /\ 0 \notin dva'
        BY <1>1, TypeFacts DEF TypeOK
      <4> QED
        BY <3>3, <4>1, <4>2
    <3> QED
      BY <3>1, <3>2, <3>3
  <2>2. EntryAt(u)' = EntryAt(u)
    BY <1>2, <1>3 DEF EntryAt
  <2>3. Making(u) => \A e \in Addrs : memMap'[e] # thr[u].obj /\ cbMap'[e] # thr[u].obj
    BY <1>1, <1>3 DEF CallInv
  <2>4. \A a \in Addrs : space'[a] = thr[u].obj /\ thr[u].obj # 0 => space[a] = thr[u].obj
    BY <1>1 DEF OneEach
  <2>5. thr[u].cmd \subseteq cmds'
    BY <1>1, <1>3 DEF CallInv
  <2>6. Making(u) => (thr[u].obj \in fds => thr[u].obj \in fds')
    <3>1. Making(u) => thr[u].obj # thr[t].obj
      BY <1>1, OthersApart DEF Making, Resting
    <3> QED
      BY <1>1, <3>1 DEF TypeOK
  <2> QED
    BY <1>1, <1>2, <1>4, <2>1, <2>2, <2>3, <2>4, <2>5, <2>6, OtherCallKept
<1>11. TableInv'
  BY <1>4, <1>5, <1>6, <1>8, <1>9, <1>10 DEF TableInv
<1>12. SoundInv'
  <2>1. ASSUME alive, ImportsGone
        PROVE  /\ AimInv(t)'
               /\ \A u \in Threads \ {t} : Aim(u) = Aim(t)' => Aim(u) \in {0, Whole}
               /\ \A o \in held' : o # Aim(t)'
               /\ \A c \in cmds' : exec[c] # 0 /\ exec[c] = Aim(t)' => d.cmd = {c}
    <3>1. /\ AimsApart
          /\ \A h \in held : HeldInv(h) /\ h # 0
          /\ \A c \in cmds : ExecInv(c)
      BY <1>1, <2>1, TypeFacts DEF SoundInv, TypeOK
    <3>2. AimInv(t)'
      BY <2>1
    <3>3. CASE Aim(t)' = 0
      BY <1>3, <3>1, <3>2, <3>3
    <3>4. CASE Aim(t)' = Aim(t) /\ Aim(t) # 0
      <4>1. d # Idle
        BY <1>2, <3>4, IdleRecord DEF Aim, At
      <4>2. \A u \in Threads \ {t} : Aim(u) = Aim(t) => Aim(u) \in {0, Whole}
        BY <3>1 DEF AimsApart
      <4>3. \A h \in held : h # Aim(t)
        BY <3>1 DEF HeldInv
      <4>4. \A c \in cmds : exec[c] # 0 /\ exec[c] = Aim(t) => d.cmd = {c}
        BY <3>1, <4>1 DEF ExecInv
      <4> QED
        BY <1>3, <3>2, <3>4, <4>2, <4>3, <4>4
    <3> QED
      BY <1>7, <3>3, <3>4
  <2>2. Making(t) => (Making(t)' /\ d.obj = thr[t].obj) \/ thr[t].obj \notin fds'
    <3> SUFFICES ASSUME Making(t), d # Idle
                 PROVE  Making(t)' /\ d.obj = thr[t].obj
      OBVIOUS
    <3>1. d.pc \in Locked => memMtx = t /\ EntryAt(t)' = d.obj /\ d.obj # 0
      BY <1>2 DEF CallInv
    <3>2. d.pc \notin Locked
      <4> SUFFICES ASSUME d.pc \in Locked
                   PROVE  FALSE
        OBVIOUS
      <4>1. EntryAt(t) = thr[t].obj
        BY <1>2, <1>3, <3>1 DEF EntryAt
      <4>2. thr[t].addr \in Addrs
        BY <1>1 DEF TypeOK, ThreadRecord
      <4>3. \A e \in Addrs : memMap[e] # thr[t].obj /\ cbMap[e] # thr[t].obj
        BY <1>1 DEF CallInv
      <4> QED
        BY <4>1, <4>2, <4>3 DEF EntryAt
    <3> QED
      BY <1>2, <3>2 DEF Making
  <2>3. \A o \in fds' : o \in fds \/ (Making(t)' /\ d.obj = o)
    OBVIOUS
  <2>4. held' \subseteq held /\ cmds' \subseteq cmds /\ UNCHANGED <<memMap, cbMap, exec, alive>>
    BY <1>3
  <2> QED
    BY <1>1, <1>4, <2>1, <2>2, <2>3, <2>4, SoundMoved
<1> QED
  BY <1>3, <1>11, <1>12, StaysSession
LEMMA MapDeviceVaStep ==
  ASSUME SessionInv, NEW t \in Threads, mapDeviceVa(t)
  PROVE  SessionInv'
<1>1. /\ TypeOK /\ ObjsInv /\ SpaceInv /\ DeviceInv /\ SoundInv /\ CallInv(t)
      /\ thr[t].pc = "map" /\ alive
  BY DEF SessionInv, TableInv, CallInv, mapDeviceVa, At
<1>2. PICK o : o = thr[t].obj
  OBVIOUS
<1>3. /\ o \in Obj /\ o # Whole /\ o # 0 /\ o \in 0 .. MaxObj /\ o \in 1 .. MaxObj
      /\ objs[o].kind = "mem" /\ o \notin dva /\ o \in fds
      /\ thr[t].call = "memAlloc" /\ thr[t].cmd = {} /\ Making(t)
  BY <1>1, <1>2, TypeFacts DEF CallInv, At, Making, CmdCalls
<1>4. PICK buf \in 1 .. MaxObj : buf = objs[o].buf
  BY <1>1, <1>3, TypeFacts DEF ObjRecord
<1>5. /\ UNCHANGED <<objs, maps, memMtx, commands, callers, refused, unimportFailed, alive>>
      /\ UNCHANGED <<memMap, cbMap, cmds, exec>>
  BY DEF mapDeviceVa, maps, commands, driver
<1>6. /\ fds \subseteq Obj /\ dva \subseteq Obj /\ refused \subseteq Obj /\ pins \in [1 .. MaxObj -> Nat]
      /\ space \in [Addrs -> 0 .. Len(objs)] /\ 0 \in 0 .. Len(objs)
  BY <1>1, TypeFacts DEF TypeOK
<1>7. CASE /\ dva' = dva \cup {o} /\ pins' = [pins EXCEPT ![buf] = @ + 1]
           /\ GoTo(t, "insert") /\ UNCHANGED <<fds, space>>
  <2>1. PICK d : d = GoneOn(t, "insert", thr[t].obj)
    OBVIOUS
  <2>2. /\ d \in ThreadRecord /\ d.pc = "insert" /\ d.call = thr[t].call /\ d.obj = thr[t].obj
        /\ d.addr = thr[t].addr /\ d.cmd = thr[t].cmd
        /\ thr' = [thr EXCEPT ![t] = d] /\ thr'[t] = d
    <3>1. "insert" \in Places
      BY DEF Places
    <3> QED
      BY <1>1, <1>2, <1>3, <1>7, <2>1, <3>1, GoToRecord
  <2>3. dva' \subseteq Obj /\ dva \subseteq dva' /\ \A i \in Obj \ {o} : i \in dva' <=> i \in dva
    BY <1>3, <1>6, <1>7
  <2>4. pins' \in [1 .. MaxObj -> Nat]
    BY <1>6, <1>7
  <2>5. SpaceInv'
    BY <1>1, <1>5, <1>7 DEF SpaceInv
  <2>6. DeviceInv'
    <3>1. objs'[o].buf = buf /\ objs'[o].kind \in {"mem", "import"} /\ o \in fds'
      BY <1>3, <1>4, <1>5, <1>7
    <3> QED
      BY <1>1, <1>3, <1>5, <1>7, <3>1, DeviceMapped
  <2>7. Making(t)' /\ o \in dva'
    BY <1>2, <1>3, <1>7, <2>2 DEF Making
  <2>8. CallInv(t)'
    <3>1. o \in Obj' /\ o \in 0 .. Len(objs') /\ Obj' = Obj
      BY <1>3, <1>5 DEF Obj
    <3>2. \A a \in Addrs : memMap'[a] # o /\ cbMap'[a] # o
      BY <1>1, <1>2, <1>3, <1>5 DEF CallInv
    <3>3. d.call = "memAlloc" /\ d.cmd = {} /\ d.obj = o /\ d.obj # Whole
      BY <1>2, <1>3, <2>2
    <3> QED
      BY <1>1, <1>5, <2>2, <2>7, <3>1, <3>2, <3>3 DEF CallInv, At, Locked, CmdCalls
  <2>9. alive /\ ImportsGone => AimInv(t)'
    <3> SUFFICES ASSUME alive, ImportsGone
                 PROVE  AimInv(t)'
      OBVIOUS
    <3>1. space'[objs'[o].vaddr] = o
      BY <1>1, <1>2, <1>3, <1>5, <1>7 DEF SoundInv, AimInv, Placed
    <3> QED
      BY <1>2, <1>3, <2>2, <3>1 DEF AimInv, At, Placed
  <2>10. /\ d.pc \in Locked \cup {"insert"} /\ thr[t].pc \notin {"erase", "ioctl", "release"}
         /\ thr[t].pc # "release" /\ d # Idle
    BY <1>1, <2>2, IdleRecord
  <2>11. /\ fds' \subseteq fds /\ space' \in [Addrs -> 0 .. Len(objs)] /\ refused' \subseteq Obj
         /\ refused \subseteq refused' /\ (\A i \in fds \ {thr[t].obj} : i \in fds')
         /\ \A a \in Addrs : space'[a] \in {0, space[a]}
         /\ \A a \in Addrs : space'[a] = space[a]
    BY <1>5, <1>6, <1>7
  <2> QED
    BY <1>1, <1>2, <1>3, <1>5, <2>2, <2>3, <2>4, <2>5, <2>6, <2>8, <2>9, <2>10, <2>11, Works
<1>8. CASE /\ space' = [space EXCEPT ![objs[o].vaddr] = 0] /\ fds' = fds \ {o}
           /\ Return(t) /\ UNCHANGED <<dva, pins>>
  <2>1. PICK a \in Addrs : a = objs[o].vaddr
    BY <1>1, <1>3, TypeFacts
  <2>2. /\ thr' = [thr EXCEPT ![t] = Idle] /\ space' = [space EXCEPT ![a] = 0]
    BY <1>8, <2>1 DEF Return
  <2>3. thr'[t] = Idle /\ Idle \in ThreadRecord
    BY <1>1, <2>2, IdleRecord, ThreadMoves
  <2>4. CallInv(t)' /\ AimInv(t)' /\ ~Making(t)'
    <3>1. Len(objs') \in Nat
      BY <1>1, <1>5, TypeFacts
    <3> QED
      BY <2>3, <3>1, IdleCall
  <2>5. /\ space' \in [Addrs -> 0 .. Len(objs)] /\ space'[a] = 0
        /\ \A e \in Addrs \ {a} : space'[e] = space[e]
    BY <1>6, <2>2
  <2>6. SpaceInv'
    <3> SUFFICES ASSUME NEW e \in Addrs, space'[e] # 0
                 PROVE  objs'[space'[e]].vaddr = e /\ space'[e] \in fds'
      BY DEF SpaceInv
    <3>1. e # a /\ space'[e] = space[e]
      BY <2>5
    <3>2. objs[space[e]].vaddr = e /\ space[e] \in fds
      BY <1>1, <3>1 DEF SpaceInv
    <3> QED
      BY <1>5, <1>8, <2>1, <3>1, <3>2
  <2>7. DeviceInv'
    <3>1. \A i \in dva : i \in fds' \cup refused'
      BY <1>1, <1>3, <1>5, <1>8 DEF DeviceInv
    <3> QED
      BY <1>1, <1>5, <1>8, <3>1, DeviceKept
  <2>8. alive /\ ImportsGone =>
          /\ AimInv(t)'
          /\ \A e \in Addrs : space[e] # 0 =>
                \/ space'[e] = space[e]
                \/ /\ space[e] = thr[t].obj
                   /\ Making(t) \/ (Idle.pc \in {"erase", "ioctl"} /\ Idle.obj = thr[t].obj)
    <3> SUFFICES ASSUME alive, ImportsGone
                 PROVE  space[a] = thr[t].obj
      BY <1>3, <2>4, <2>5
    <3> QED
      BY <1>1, <1>2, <1>3, <2>1 DEF SoundInv, AimInv, Placed
  <2>9. /\ fds' \subseteq fds /\ refused' \subseteq Obj /\ thr[t].pc \notin {"erase", "ioctl"}
        /\ refused \subseteq refused' /\ (\A i \in fds \ {thr[t].obj} : i \in fds')
        /\ dva' \subseteq Obj /\ pins' \in [1 .. MaxObj -> Nat]
        /\ dva \subseteq dva' /\ thr[t].pc # "release" /\ thr[t].obj \notin fds'
        /\ (\A i \in Obj \ {thr[t].obj} : i \in dva' <=> i \in dva)
        /\ \A e \in Addrs : space'[e] \in {0, space[e]}
    BY <1>1, <1>2, <1>5, <1>6, <1>8, <2>5
  <2> QED
    BY <1>1, <1>2, <1>3, <1>5, <2>2, <2>3, <2>4, <2>5, <2>6, <2>7, <2>8, <2>9, Works
<1> QED
  <2>1. objs[o].buf = buf
    BY <1>4
  <2> QED
    BY <1>2, <1>7, <1>8, <2>1 DEF mapDeviceVa
\* An import goes on half way: it has its handle, and no memory at an address
\* before it is entered.
LEMMA ImportWorks ==
  ASSUME SessionInv, NEW t \in Threads, thr[t].pc \in {"import", "mmap", "undo", "close"},
         NEW pc \in {"mmap", "undo", "close", "insert"}, GoTo(t, pc), NEW o, o = thr[t].obj,
         UNCHANGED <<objs, fds, maps, memMtx, commands, callers, unimportFailed, alive>>,
         dva' \subseteq Obj, pins' \in [1 .. MaxObj -> Nat], refused \subseteq refused',
         refused' \subseteq Obj, \A i \in Obj \ {o} : i \in dva' <=> i \in dva, DeviceInv',
         pc = "close" => o \notin dva' \/ o \in refused', pc # "close" => o \in dva',
         IF pc = "insert" THEN /\ space[objs[o].vaddr] = 0
                               /\ space' = [space EXCEPT ![objs[o].vaddr] = o]
                          ELSE space' = space
  PROVE  SessionInv'
<1>1. /\ TypeOK /\ ObjsInv /\ SpaceInv /\ SoundInv /\ CallInv(t) /\ alive
  BY DEF SessionInv, TableInv, CallInv, At
<1>2. /\ o \in fds /\ o # Whole /\ thr[t].call = "memImport" /\ objs[o].kind = "import"
      /\ \A a \in Addrs : memMap[a] # o /\ cbMap[a] # o
      /\ Making(t) /\ thr[t].cmd = {}
  BY <1>1 DEF CallInv, Making, CmdCalls
<1>3. /\ o \in Obj /\ o # 0 /\ o \in 0 .. MaxObj /\ o \in 0 .. Len(objs)
      /\ objs[o].vaddr \in Addrs
  BY <1>1, <1>2, TypeFacts DEF TypeOK, Obj
<1>4. UNCHANGED <<memMap, cbMap, cmds, exec>>
  BY DEF maps, commands
<1>5. PICK d : d = GoneOn(t, pc, thr[t].obj)
  OBVIOUS
<1>6. /\ d \in ThreadRecord /\ d.pc = pc /\ d.call = thr[t].call /\ d.obj = thr[t].obj
      /\ d.addr = thr[t].addr /\ d.cmd = thr[t].cmd
      /\ thr' = [thr EXCEPT ![t] = d] /\ thr'[t] = d
  <2>1. pc \in Places
    BY DEF Places
  <2> QED
    BY <1>1, <1>3, <1>5, <2>1, GoToRecord
<1>7. PICK v \in Addrs : v = objs[o].vaddr
  BY <1>3
<1>8. /\ space' \in [Addrs -> 0 .. Len(objs)]
      /\ \A a \in Addrs : space'[a] = IF pc = "insert" /\ a = v THEN o ELSE space[a]
      /\ pc = "insert" => space[v] = 0
  <2>1. space \in [Addrs -> 0 .. Len(objs)]
    BY <1>1 DEF TypeOK
  <2> QED
    BY <1>3, <1>7, <2>1
<1>9. SpaceInv'
  <2> SUFFICES ASSUME NEW a \in Addrs, space'[a] # 0
               PROVE  objs[space'[a]].vaddr = a /\ space'[a] \in fds
    BY DEF SpaceInv
  <2> QED
    BY <1>1, <1>2, <1>7, <1>8 DEF SpaceInv
<1>10. Making(t)'
  BY <1>2, <1>6 DEF Making
<1>11. CallInv(t)'
  <2>1. o \in Obj' /\ o \in 0 .. Len(objs') /\ Obj' = Obj /\ alive'
    BY <1>1, <1>3 DEF Obj
  <2>2. \A a \in Addrs : memMap'[a] # o /\ cbMap'[a] # o
    BY <1>2, <1>4
  <2>3. /\ d.call = "memImport" /\ d.cmd = {} /\ d.obj = o /\ d.obj # Whole
        /\ o \in fds' /\ objs'[o].kind = "import"
    BY <1>2, <1>6
  <2>4. pc # "insert" => \A a \in Addrs : space'[a] # o
    BY <1>1, <1>8 DEF CallInv
  <2>5. d.pc = pc /\ thr'[t] = d /\ pc \notin Locked /\ pc \notin {"import", "idle", "map"}
    BY <1>6 DEF Locked
  <2> QED
    BY <2>1, <2>2, <2>3, <2>4, <2>5 DEF CallInv, At, Locked, CmdCalls
<1>12. alive /\ ImportsGone => AimInv(t)'
  <2>1. Placed(t)' => space'[objs'[o].vaddr] = o
    BY <1>6, <1>7, <1>8 DEF Placed
  <2> QED
    BY <1>2, <1>6, <2>1 DEF AimInv, At, Placed
<1>13. /\ \A a \in Addrs : space'[a] \in {0, space[a]} \/ (Making(t) /\ space'[a] = thr[t].obj)
       /\ \A a \in Addrs : space[a] # 0 => space'[a] = space[a]
       /\ d # Idle /\ thr[t].pc \notin {"erase", "ioctl"}
       /\ d.pc \in Locked \cup {"insert", "mmap", "undo", "close"}
       /\ fds' \subseteq fds /\ (\A i \in fds \ {thr[t].obj} : i \in fds')
  BY <1>2, <1>6, <1>8, IdleRecord
<1> QED
  BY <1>1, <1>2, <1>6, <1>8, <1>9, <1>10, <1>11, <1>12, <1>13, Works

\* What memImport() knows of its object, and the device mappings.
LEMMA ImportTypes ==
  ASSUME SessionInv, NEW t \in Threads, thr[t].pc \in {"import", "mmap", "undo", "close"},
         NEW o, o = thr[t].obj
  PROVE  /\ TypeOK /\ DeviceInv /\ CallInv(t) /\ o \in Obj /\ o \in 1 .. MaxObj /\ o \in fds
         /\ objs[o].kind = "import" /\ objs[o].buf \in 1 .. MaxObj
         /\ dva \subseteq Obj /\ refused \subseteq Obj /\ pins \in [1 .. MaxObj -> Nat]
<1>1. /\ TypeOK /\ DeviceInv /\ CallInv(t)
      /\ dva \subseteq Obj /\ refused \subseteq Obj /\ pins \in [1 .. MaxObj -> Nat]
  BY DEF SessionInv, TableInv, TypeOK
<1>2. o \in fds /\ objs[o].kind = "import"
  BY <1>1 DEF CallInv
<1>3. o \in Obj /\ o \in 1 .. MaxObj /\ objs[o] \in ObjRecord
  BY <1>1, <1>2, TypeFacts DEF TypeOK
<1> QED
  BY <1>1, <1>2, <1>3 DEF ObjRecord

LEMMA ImportMapStep ==
  ASSUME SessionInv, NEW t \in Threads, importMap(t)
  PROVE  SessionInv'
<1>1. PICK o : o = thr[t].obj
  OBVIOUS
<1>2. /\ thr[t].pc \in {"import", "mmap", "undo", "close"} /\ thr[t].pc = "import"
      /\ UNCHANGED <<objs, fds, maps, memMtx, commands, callers, unimportFailed, alive>>
      /\ space' = space /\ refused' = refused
  BY DEF importMap, At, driver
<1>3. /\ TypeOK /\ DeviceInv /\ CallInv(t) /\ o \in Obj /\ o \in 1 .. MaxObj /\ o \in fds
      /\ objs[o].kind = "import" /\ objs[o].buf \in 1 .. MaxObj
      /\ dva \subseteq Obj /\ refused \subseteq Obj /\ pins \in [1 .. MaxObj -> Nat]
  BY <1>1, <1>2, ImportTypes
<1>4. o \notin dva
  BY <1>1, <1>2, <1>3 DEF CallInv, At
<1>5. CASE GoTo(t, "close") /\ UNCHANGED <<dva, pins>>
  <2>1. DeviceInv'
    <3>1. \A i \in dva : i \in fds' \cup refused' /\ objs'[i] = objs[i]
      BY <1>2, <1>3 DEF DeviceInv
    <3> QED
      BY <1>3, <1>5, <3>1, DeviceKept
  <2> QED
    BY <1>1, <1>2, <1>3, <1>4, <1>5, <2>1, ImportWorks
<1>6. ASSUME NEW pc \in {"mmap", "undo", "close", "insert"}, pc \in {"undo", "mmap"}, GoTo(t, pc),
             dva' = dva \cup {o}, pins' = [pins EXCEPT ![objs[o].buf] = @ + 1]
      PROVE  SessionInv'
  <2>1. DeviceInv'
    <3>1. PICK buf \in 1 .. MaxObj : buf = objs[o].buf
      BY <1>3
    <3>2. /\ objs'[o].buf = buf /\ objs'[o].kind \in {"mem", "import"} /\ o \in fds'
          /\ pins' = [pins EXCEPT ![buf] = @ + 1]
      BY <1>2, <1>3, <1>6, <3>1
    <3> QED
      BY <1>2, <1>3, <1>4, <1>6, <3>2, DeviceMapped
  <2>2. pins' \in [1 .. MaxObj -> Nat] /\ dva' \subseteq Obj
    <3>1. PICK buf \in 1 .. MaxObj : buf = objs[o].buf
      BY <1>3
    <3>2. pins' = [pins EXCEPT ![buf] = @ + 1] /\ pins \in [1 .. MaxObj -> Nat]
      BY <1>2, <1>3, <1>6, <3>1 DEF TypeOK
    <3>3. pins' \in [1 .. MaxObj -> Nat]
      BY <3>2
    <3> QED
      BY <1>2, <1>3, <1>6, <3>3 DEF TypeOK
  <2> QED
    BY <1>1, <1>2, <1>3, <1>6, <2>1, <2>2, ImportWorks
<1> QED
  BY <1>1, <1>5, <1>6 DEF importMap

LEMMA MapImportStep ==
  ASSUME SessionInv, NEW t \in Threads, mapImport(t)
  PROVE  SessionInv'
<1>1. PICK o : o = thr[t].obj
  OBVIOUS
<1>2. /\ thr[t].pc \in {"import", "mmap", "undo", "close"} /\ thr[t].pc = "mmap"
      /\ UNCHANGED <<objs, fds, dva, pins, maps, memMtx, commands, callers, unimportFailed, alive>>
      /\ refused' = refused
  BY DEF mapImport, At, driver
<1>3. /\ TypeOK /\ DeviceInv /\ CallInv(t) /\ o \in Obj /\ o \in fds
      /\ dva \subseteq Obj /\ refused \subseteq Obj /\ pins \in [1 .. MaxObj -> Nat]
  BY <1>1, <1>2, ImportTypes
<1>4. o \in dva
  BY <1>1, <1>2, <1>3 DEF CallInv
<1>5. DeviceInv'
  <2>1. \A i \in dva : i \in fds' \cup refused' /\ objs'[i] = objs[i]
    BY <1>2, <1>3 DEF DeviceInv
  <2> QED
    BY <1>2, <1>3, <2>1, DeviceKept
<1>6. CASE /\ space[objs[o].vaddr] = 0 /\ space' = [space EXCEPT ![objs[o].vaddr] = o]
           /\ GoTo(t, "insert")
  BY <1>1, <1>2, <1>3, <1>4, <1>5, <1>6, ImportWorks
<1>7. CASE GoTo(t, "undo") /\ UNCHANGED space
  BY <1>1, <1>2, <1>3, <1>4, <1>5, <1>7, ImportWorks
<1> QED
  BY <1>1, <1>6, <1>7 DEF mapImport

LEMMA UndoImportStep ==
  ASSUME SessionInv, NEW t \in Threads, undoImport(t)
  PROVE  SessionInv'
<1>1. PICK o : o = thr[t].obj
  OBVIOUS
<1>2. /\ thr[t].pc \in {"import", "mmap", "undo", "close"} /\ thr[t].pc = "undo"
      /\ UNCHANGED <<objs, fds, maps, memMtx, commands, callers, unimportFailed, alive>>
      /\ space' = space /\ GoTo(t, "close")
  BY DEF undoImport, At
<1>3. /\ TypeOK /\ DeviceInv /\ CallInv(t) /\ o \in Obj /\ o \in fds
      /\ dva \subseteq Obj /\ refused \subseteq Obj /\ pins \in [1 .. MaxObj -> Nat]
  BY <1>1, <1>2, ImportTypes
<1>4. o \in dva
  BY <1>1, <1>2, <1>3 DEF CallInv
<1>5. CASE /\ dva' = dva \ {o} /\ pins' = [pins EXCEPT ![objs[o].buf] = @ - 1]
           /\ UNCHANGED refused
  <2>1. DeviceInv' /\ pins' \in [1 .. MaxObj -> Nat]
    <3>1. PICK buf : buf = objs[o].buf
      OBVIOUS
    <3>2. /\ pins' = [pins EXCEPT ![buf] = @ - 1] /\ fds \ {o} \subseteq fds'
          /\ \A i \in dva : objs'[i] = objs[i]
      BY <1>2, <1>5, <3>1
    <3> QED
      BY <1>3, <1>4, <1>5, <3>1, <3>2, DeviceUnmapped
  <2> QED
    BY <1>1, <1>2, <1>3, <1>5, <2>1, ImportWorks
<1>6. CASE refused' = refused \cup {o} /\ UNCHANGED <<dva, pins>>
  <2>1. DeviceInv'
    <3>1. \A i \in dva : i \in fds' \cup refused' /\ objs'[i] = objs[i]
      BY <1>2, <1>3, <1>6 DEF DeviceInv
    <3> QED
      BY <1>3, <1>6, <3>1, DeviceKept
  <2> QED
    BY <1>1, <1>2, <1>3, <1>6, <2>1, ImportWorks
<1> QED
  BY <1>1, <1>5, <1>6 DEF undoImport

LEMMA CloseImportStep ==
  ASSUME SessionInv, NEW t \in Threads, closeImport(t)
  PROVE  SessionInv'
<1>1. PICK o : o = thr[t].obj
  OBVIOUS
<1>2. /\ thr[t].pc \in {"import", "mmap", "undo", "close"} /\ thr[t].pc = "close"
      /\ UNCHANGED <<objs, dva, pins, space, maps, memMtx, commands, callers, unimportFailed, alive>>
      /\ refused' = refused /\ fds' = fds \ {o} /\ thr' = [thr EXCEPT ![t] = Idle]
  BY <1>1 DEF closeImport, At, driver, Return
<1>3. /\ TypeOK /\ DeviceInv /\ CallInv(t) /\ o \in Obj
      /\ dva \subseteq Obj /\ refused \subseteq Obj /\ pins \in [1 .. MaxObj -> Nat]
  BY <1>1, <1>2, ImportTypes
<1>4. /\ alive /\ SpaceInv /\ Making(t) /\ (o \in dva => o \in refused)
      /\ \A a \in Addrs : space[a] # o
      /\ space \in [Addrs -> 0 .. Len(objs)] /\ fds \subseteq Obj
  BY <1>1, <1>2, <1>3 DEF SessionInv, TableInv, CallInv, At, Making, TypeOK
<1>5. thr'[t] = Idle /\ Idle \in ThreadRecord
  BY <1>2, <1>3, IdleRecord, ThreadMoves
<1>6. CallInv(t)' /\ AimInv(t)' /\ ~Making(t)'
  <2>1. Len(objs') \in Nat
    BY <1>2, <1>3, TypeFacts
  <2> QED
    BY <1>5, <2>1, IdleCall
<1>7. SpaceInv'
  BY <1>2, <1>4 DEF SpaceInv
<1>8. DeviceInv'
  <2>1. \A i \in dva : i \in fds' \cup refused' /\ objs'[i] = objs[i]
    BY <1>2, <1>3, <1>4 DEF DeviceInv
  <2> QED
    BY <1>2, <1>3, <2>1, DeviceKept
<1>9. /\ fds' \subseteq fds /\ thr[t].pc \notin {"erase", "ioctl"} /\ o \notin fds'
      /\ (\A i \in fds \ {thr[t].obj} : i \in fds')
      /\ (\A a \in Addrs : space'[a] \in {0, space[a]} \/ (Making(t) /\ space'[a] = thr[t].obj))
      /\ \A a \in Addrs : space'[a] = space[a]
      /\ dva' \subseteq Obj /\ pins' \in [1 .. MaxObj -> Nat] /\ refused' \subseteq Obj
      /\ refused \subseteq refused' /\ (\A i \in Obj \ {thr[t].obj} : i \in dva' <=> i \in dva)
      /\ space' \in [Addrs -> 0 .. Len(objs)]
  BY <1>1, <1>2, <1>3, <1>4
<1> QED
  BY <1>1, <1>2, <1>4, <1>5, <1>6, <1>7, <1>8, <1>9, Works

LEMMA UnmapDeviceVaStep ==
  ASSUME SessionInv, NEW t \in Threads, unmapDeviceVa(t)
  PROVE  SessionInv'
<1>1. /\ TypeOK /\ ObjsInv /\ SpaceInv /\ DeviceInv /\ SoundInv /\ CallInv(t)
      /\ thr[t].pc = "unmap" /\ alive /\ ~Making(t)
  BY DEF SessionInv, TableInv, CallInv, unmapDeviceVa, At, Making
<1>2. PICK o : o = thr[t].obj
  OBVIOUS
<1>3. /\ memMtx = t /\ o # 0 /\ EntryAt(t) = o /\ thr[t].call = "memFree"
      /\ o \in dva \cup {Whole} /\ o \in 0 .. Len(objs)
  BY <1>1, <1>2 DEF CallInv, At, Locked
<1>4. o \in Obj /\ o \in 0 .. MaxObj /\ thr[t].cmd = {}
  BY <1>1, <1>2, <1>3, TypeFacts DEF CallInv, CmdCalls, Obj
<1>5. /\ UNCHANGED <<objs, fds, space, maps, memMtx, commands, callers, unimportFailed, alive>>
      /\ UNCHANGED <<memMap, cbMap, cmds, exec>> /\ GoTo(t, "release")
  BY DEF unmapDeviceVa, maps, commands
<1>6. /\ fds \subseteq Obj /\ dva \subseteq Obj /\ refused \subseteq Obj /\ pins \in [1 .. MaxObj -> Nat]
      /\ space \in [Addrs -> 0 .. Len(objs)]
  BY <1>1 DEF TypeOK
<1>7. PICK d : d = GoneOn(t, "release", thr[t].obj)
  OBVIOUS
<1>8. /\ d \in ThreadRecord /\ d.pc = "release" /\ d.call = thr[t].call /\ d.obj = thr[t].obj
      /\ d.addr = thr[t].addr /\ d.cmd = thr[t].cmd
      /\ thr' = [thr EXCEPT ![t] = d] /\ thr'[t] = d
  <2>1. "release" \in Places
    BY DEF Places
  <2> QED
    BY <1>1, <1>2, <1>4, <1>5, <1>7, <2>1, GoToRecord
<1>9. Whole \notin dva
  BY <1>1 DEF DeviceInv, ObjsInv
<1>10. /\ dva' \subseteq dva /\ pins' \in [1 .. MaxObj -> Nat] /\ DeviceInv'
       /\ refused \subseteq refused' /\ refused' \subseteq Obj
       /\ (\A i \in Obj \ {o} : i \in dva' <=> i \in dva)
       /\ o \in dva' => o \in refused'
  <2>1. CASE /\ o # Whole /\ dva' = dva \ {o}
             /\ pins' = [pins EXCEPT ![objs[o].buf] = @ - 1] /\ UNCHANGED refused
    <3>1. PICK buf : buf = objs[o].buf
      OBVIOUS
    <3>2. pins' = [pins EXCEPT ![buf] = @ - 1] /\ o \in dva /\ fds \ {o} \subseteq fds'
      BY <1>3, <1>5, <2>1, <3>1
    <3>3. DeviceInv' /\ pins' \in [1 .. MaxObj -> Nat]
      BY <1>1, <1>5, <2>1, <3>1, <3>2, DeviceUnmapped
    <3> QED
      BY <1>6, <2>1, <3>3
  <2>2. CASE refused' = refused \cup ({o} \ {Whole}) /\ UNCHANGED <<dva, pins>>
    <3>1. DeviceInv'
      <4>1. \A i \in dva : i \in fds' \cup refused'
        BY <1>1, <1>5, <2>2 DEF DeviceInv
      <4> QED
        BY <1>1, <1>5, <2>2, <4>1, DeviceKept
    <3>2. o \in dva' => o \in refused'
      BY <1>9, <2>2
    <3> QED
      BY <1>4, <1>6, <2>2, <3>1, <3>2
  <2> QED
    BY <1>2, <2>1, <2>2 DEF unmapDeviceVa
<1>11. SpaceInv'
  BY <1>1, <1>5 DEF SpaceInv
<1>12. CallInv(t)' /\ ~Making(t)'
  <2>1. EntryAt(t)' = o
    BY <1>2, <1>3, <1>5, <1>8 DEF EntryAt
  <2>2. o \in 0 .. Len(objs') /\ alive' /\ memMtx' = t
    BY <1>1, <1>3, <1>5
  <2>3. /\ d.call = "memFree" /\ d.cmd = {} /\ d.obj = o
    BY <1>2, <1>3, <1>4, <1>8
  <2> QED
    BY <1>3, <1>8, <1>10, <2>1, <2>2, <2>3 DEF CallInv, At, Locked, CmdCalls, Making
<1>13. alive /\ ImportsGone =>
         /\ AimInv(t)'
         /\ \A e \in Addrs : space[e] # 0 =>
              \/ space'[e] = space[e]
              \/ /\ space[e] = thr[t].obj
                 /\ Making(t) \/ (d.pc \in {"erase", "ioctl"} /\ d.obj = thr[t].obj)
  BY <1>3, <1>4, <1>5, <1>8, <1>12 DEF AimInv, At, Placed
<1>14. /\ d.pc \in Locked \cup {"insert"} /\ thr[t].pc \in Locked
       /\ thr[t].pc \notin {"erase", "ioctl"} /\ d.pc \in {"release", "erase"}
       /\ fds' \subseteq fds /\ space' \in [Addrs -> 0 .. Len(objs)] /\ dva' \subseteq Obj
       /\ (\A i \in fds \ {thr[t].obj} : i \in fds')
       /\ \A a \in Addrs : space'[a] \in {0, space[a]}
  BY <1>1, <1>5, <1>6, <1>8, <1>10 DEF Locked
<1> QED
  BY <1>1, <1>2, <1>5, <1>8, <1>10, <1>11, <1>12, <1>13, <1>14, Works

\* The memory at an entry's address is the entry's, for a call that has not
\* released it yet.
LEMMA EntryMapped ==
  ASSUME SessionInv, alive, ImportsGone, NEW t \in Threads, thr[t].pc \in {"release", "munmap"},
         thr[t].obj # Whole
  PROVE  space[objs[thr[t].obj].vaddr] = thr[t].obj
<1>1. /\ TableInv /\ TypeOK /\ ObjsInv /\ EntriesInv /\ CallInv(t) /\ EntriesLive /\ thr[t] \in ThreadRecord
  BY DEF SessionInv, TableInv, SoundInv, TypeOK
<1>2. PICK o : o = thr[t].obj
  OBVIOUS
<1>3. memMtx = t /\ o # 0 /\ EntryAt(t) = o /\ o # Whole /\ thr[t].addr \in Addrs
  BY <1>1, <1>2 DEF CallInv, Locked, ThreadRecord
<1>4. /\ memMap[thr[t].addr] = o \/ cbMap[thr[t].addr] = o
      /\ objs[o].vaddr = thr[t].addr /\ o \in Obj
  BY <1>1, <1>3, TypeFacts DEF EntryAt, EntriesInv
<1>5. thr[t].addr \in Addr
  BY <1>1, <1>3, <1>4 DEF ObjsInv
<1>6. Live(o)
  <2>1. /\ memMap[thr[t].addr] # 0 => Live(memMap[thr[t].addr])
        /\ cbMap[thr[t].addr] # 0 => Live(cbMap[thr[t].addr])
    BY <1>1, <1>5 DEF EntriesLive
  <2> QED
    BY <1>3, <1>4, <2>1
<1>7. \A u \in Threads : thr[u].pc \notin {"erase", "ioctl"}
  BY <1>1, <1>3, LockedAlone DEF Locked
<1> QED
  BY <1>2, <1>6, <1>7 DEF Live

LEMMA ReleaseStep ==
  ASSUME SessionInv, NEW t \in Threads, release(t)
  PROVE  SessionInv'
<1>1. /\ TypeOK /\ ObjsInv /\ SpaceInv /\ DeviceInv /\ SoundInv /\ CallInv(t)
      /\ thr[t].pc = "release" /\ alive /\ ~Making(t)
  BY DEF SessionInv, TableInv, CallInv, release, At, Making
<1>2. PICK o : o = thr[t].obj
  OBVIOUS
<1>3. /\ memMtx = t /\ o # 0 /\ EntryAt(t) = o /\ o \in 0 .. Len(objs)
      /\ thr[t].call \in {"memFree", "cmdBufFree"} \cup CmdCalls
      /\ o \in dva => o \in refused
  BY <1>1, <1>2 DEF CallInv, Locked
<1>4. o \in Obj /\ o \in 0 .. MaxObj
  BY <1>1, <1>3, TypeFacts DEF Obj
<1>5. /\ UNCHANGED <<objs, dva, pins, maps, memMtx, commands, callers, refused, unimportFailed, alive>>
      /\ UNCHANGED <<memMap, cbMap, cmds, exec>> /\ GoTo(t, "erase")
  BY DEF release, maps, commands, driver
<1>6. /\ fds \subseteq Obj /\ dva \subseteq Obj /\ refused \subseteq Obj /\ pins \in [1 .. MaxObj -> Nat]
      /\ space \in [Addrs -> 0 .. Len(objs)] /\ 0 \in 0 .. Len(objs)
  BY <1>1, TypeFacts DEF TypeOK
<1>7. PICK d : d = GoneOn(t, "erase", thr[t].obj)
  OBVIOUS
<1>8. /\ d \in ThreadRecord /\ d.pc = "erase" /\ d.call = thr[t].call /\ d.obj = thr[t].obj
      /\ d.addr = thr[t].addr /\ d.cmd = thr[t].cmd
      /\ thr' = [thr EXCEPT ![t] = d] /\ thr'[t] = d
  <2>1. "erase" \in Places
    BY DEF Places
  <2> QED
    BY <1>1, <1>2, <1>4, <1>5, <1>7, <2>1, GoToRecord
<1>9. PICK a \in Addrs : a = objs[o].vaddr
  BY <1>1, <1>4, TypeFacts
<1>10. /\ space' \in [Addrs -> 0 .. Len(objs)] /\ fds' \subseteq fds
       /\ \A i \in fds \ {o} : i \in fds'
       /\ \A e \in Addrs : /\ space'[e] \in {0, space[e]}
                           /\ e # a => space'[e] = space[e]
       /\ IF o = Whole THEN UNCHANGED <<space, fds>> ELSE space'[a] = 0 /\ o \notin fds'
  <2>1. CASE o = Whole
    <3>1. UNCHANGED <<space, fds>>
      BY <1>2, <2>1 DEF release
    <3> QED
      BY <1>6, <2>1, <3>1
  <2>2. CASE o # Whole
    <3>1. space' = [space EXCEPT ![a] = 0] /\ fds' = fds \ {o}
      BY <1>2, <1>9, <2>2 DEF release
    <3> QED
      BY <1>6, <2>2, <3>1
  <2> QED
    BY <2>1, <2>2
<1>11. SpaceInv'
  <2> SUFFICES ASSUME NEW e \in Addrs, space'[e] # 0
               PROVE  objs[space'[e]].vaddr = e /\ space'[e] \in fds'
    BY <1>5 DEF SpaceInv
  <2>1. space'[e] = space[e]
    BY <1>10
  <2>2. objs[space[e]].vaddr = e /\ space[e] \in fds
    BY <1>1, <2>1 DEF SpaceInv
  <2>3. space[e] # o \/ o = Whole
    BY <1>9, <1>10, <2>1, <2>2
  <2> QED
    BY <1>10, <2>1, <2>2, <2>3
<1>12. DeviceInv'
  <2>1. \A i \in dva : i \in fds' \cup refused'
    BY <1>1, <1>3, <1>5, <1>10 DEF DeviceInv
  <2> QED
    BY <1>1, <1>5, <2>1, DeviceKept
<1>13. CallInv(t)' /\ ~Making(t)'
  <2>1. EntryAt(t)' = o
    BY <1>2, <1>3, <1>5, <1>8 DEF EntryAt
  <2>2. o \in 0 .. Len(objs') /\ alive' /\ memMtx' = t /\ (o \in dva' => o \in refused')
    BY <1>1, <1>3, <1>5
  <2>3. /\ d.obj = o /\ (d.call \in CmdCalls <=> d.cmd # {}) /\ d.cmd \subseteq cmds'
    BY <1>1, <1>2, <1>5, <1>8 DEF CallInv
  <2>4. d.call \in {"memFree", "cmdBufFree"} \cup CmdCalls
    BY <1>3, <1>8
  <2> QED
    BY <1>3, <1>8, <1>10, <2>1, <2>2, <2>3, <2>4 DEF CallInv, At, Locked, Making
<1>14. alive /\ ImportsGone =>
         /\ AimInv(t)'
         /\ \A e \in Addrs : space[e] # 0 =>
              \/ space'[e] = space[e]
              \/ /\ space[e] = thr[t].obj
                 /\ Making(t) \/ (d.pc \in {"erase", "ioctl"} /\ d.obj = thr[t].obj)
  <2> SUFFICES ASSUME alive, ImportsGone
               PROVE  /\ AimInv(t)'
                      /\ \A e \in Addrs : space[e] # 0 => space'[e] = space[e] \/ space[e] = o
    BY <1>2, <1>8
  <2>1. AimInv(t) /\ (o # Whole => space[a] = o)
    BY <1>1, <1>2, <1>9, EntryMapped DEF SoundInv
  <2>2. AimInv(t)'
    <3>1. Aim(t)' = o /\ Aim(t) = o
      BY <1>1, <1>2, <1>8 DEF Aim, At
    <3>2. \A c \in d.cmd : exec'[c] = o /\ exec'[c] # 0
      BY <1>1, <1>5, <1>8, <2>1, <3>1 DEF AimInv
    <3>3. d.call # "memUnImport"
      BY <1>3, <1>8 DEF CmdCalls
    <3> QED
      BY <1>8, <1>13, <3>1, <3>2, <3>3 DEF AimInv, At, Placed
  <2>3. \A e \in Addrs : space[e] # 0 => space'[e] = space[e] \/ space[e] = o
    BY <1>10, <2>1
  <2> QED
    BY <2>2, <2>3
<1>15. /\ d.pc \in Locked \cup {"insert"} /\ thr[t].pc \in Locked
       /\ thr[t].pc \notin {"erase", "ioctl"} /\ d.pc \in {"release", "erase"}
       /\ dva' \subseteq Obj /\ pins' \in [1 .. MaxObj -> Nat] /\ refused' \subseteq Obj
       /\ refused \subseteq refused' /\ (\A i \in fds \ {thr[t].obj} : i \in fds')
       /\ (\A i \in Obj \ {thr[t].obj} : i \in dva' <=> i \in dva)
       /\ \A e \in Addrs : space'[e] \in {0, space[e]}
  BY <1>1, <1>2, <1>5, <1>6, <1>8, <1>10 DEF Locked
<1> QED
  BY <1>1, <1>5, <1>8, <1>10, <1>11, <1>12, <1>13, <1>14, <1>15, Works

LEMMA MunmapStep ==
  ASSUME SessionInv, NEW t \in Threads, munmap(t)
  PROVE  SessionInv'
<1>1. /\ TypeOK /\ ObjsInv /\ SpaceInv /\ DeviceInv /\ SoundInv /\ CallInv(t)
      /\ thr[t].pc = "munmap" /\ alive /\ ~Making(t)
  BY DEF SessionInv, TableInv, CallInv, munmap, At, Making
<1>2. PICK o : o = thr[t].obj
  OBVIOUS
<1>3. /\ memMtx = t /\ o # 0 /\ EntryAt(t) = o /\ o \in 0 .. Len(objs)
      /\ thr[t].call = "memUnImport" /\ o \in dva
  BY <1>1, <1>2 DEF CallInv, Locked
<1>4. o \in Obj /\ o \in 0 .. MaxObj /\ o # Whole /\ thr[t].cmd = {}
  BY <1>1, <1>2, <1>3, TypeFacts DEF Obj, DeviceInv, ObjsInv, CallInv, CmdCalls
<1>5. /\ UNCHANGED <<objs, fds, dva, pins, maps, memMtx, commands, callers, refused, unimportFailed, alive>>
      /\ UNCHANGED <<memMap, cbMap, cmds, exec>> /\ GoTo(t, "ioctl")
  BY DEF munmap, maps, commands, driver
<1>6. /\ fds \subseteq Obj /\ dva \subseteq Obj /\ refused \subseteq Obj /\ pins \in [1 .. MaxObj -> Nat]
      /\ space \in [Addrs -> 0 .. Len(objs)] /\ 0 \in 0 .. Len(objs)
  BY <1>1, TypeFacts DEF TypeOK
<1>7. PICK d : d = GoneOn(t, "ioctl", thr[t].obj)
  OBVIOUS
<1>8. /\ d \in ThreadRecord /\ d.pc = "ioctl" /\ d.call = thr[t].call /\ d.obj = thr[t].obj
      /\ d.addr = thr[t].addr /\ d.cmd = thr[t].cmd
      /\ thr' = [thr EXCEPT ![t] = d] /\ thr'[t] = d
  <2>1. "ioctl" \in Places
    BY DEF Places
  <2> QED
    BY <1>1, <1>2, <1>4, <1>5, <1>7, <2>1, GoToRecord
<1>9. PICK a \in Addrs : a = objs[o].vaddr
  BY <1>1, <1>4, TypeFacts
<1>10. /\ space' \in [Addrs -> 0 .. Len(objs)] /\ space'[a] = 0
       /\ \A e \in Addrs : /\ space'[e] \in {0, space[e]}
                           /\ e # a => space'[e] = space[e]
  <2>1. space' = [space EXCEPT ![a] = 0]
    BY <1>2, <1>9 DEF munmap
  <2> QED
    BY <1>6, <2>1
<1>11. SpaceInv'
  <2> SUFFICES ASSUME NEW e \in Addrs, space'[e] # 0
               PROVE  objs[space'[e]].vaddr = e /\ space'[e] \in fds
    BY <1>5 DEF SpaceInv
  <2>1. space'[e] = space[e]
    BY <1>10
  <2> QED
    BY <1>1, <2>1 DEF SpaceInv
<1>12. DeviceInv'
  <2>1. \A i \in dva : i \in fds' \cup refused'
    BY <1>1, <1>5 DEF DeviceInv
  <2> QED
    BY <1>1, <1>5, <2>1, DeviceKept
<1>13. CallInv(t)' /\ ~Making(t)'
  <2>1. EntryAt(t)' = o
    BY <1>2, <1>3, <1>5, <1>8 DEF EntryAt
  <2>2. o \in 0 .. Len(objs') /\ alive' /\ memMtx' = t /\ o \in dva'
    BY <1>1, <1>3, <1>5
  <2>3. /\ d.obj = o /\ d.cmd = {} /\ d.call = "memUnImport"
    BY <1>2, <1>3, <1>4, <1>8
  <2>4. \A e \in Addrs : space'[e] # o
    BY <1>1, <1>3, <1>9, <1>10 DEF SpaceInv
  <2> QED
    BY <1>3, <1>8, <1>10, <2>1, <2>2, <2>3, <2>4 DEF CallInv, At, Locked, Making, CmdCalls
<1>14. alive /\ ImportsGone =>
         /\ AimInv(t)'
         /\ \A e \in Addrs : space[e] # 0 =>
              \/ space'[e] = space[e]
              \/ /\ space[e] = thr[t].obj
                 /\ Making(t) \/ (d.pc \in {"erase", "ioctl"} /\ d.obj = thr[t].obj)
  <2> SUFFICES ASSUME alive, ImportsGone
               PROVE  /\ AimInv(t)'
                      /\ \A e \in Addrs : space[e] # 0 => space'[e] = space[e] \/ space[e] = o
    BY <1>2, <1>8
  <2>1. AimInv(t) /\ space[a] = o
    BY <1>1, <1>2, <1>4, <1>9, EntryMapped DEF SoundInv
  <2>2. AimInv(t)'
    <3>1. Aim(t)' = o /\ Aim(t) = o
      BY <1>1, <1>2, <1>8 DEF Aim, At
    <3>2. objs[o].kind = "import"
      BY <1>3, <2>1, <3>1 DEF AimInv
    <3> QED
      BY <1>4, <1>5, <1>8, <1>13, <3>1, <3>2 DEF AimInv, At, Placed
  <2>3. \A e \in Addrs : space[e] # 0 => space'[e] = space[e] \/ space[e] = o
    BY <1>10, <2>1
  <2> QED
    BY <2>2, <2>3
<1>15. /\ d.pc \in Locked \cup {"insert"} /\ thr[t].pc \in Locked
       /\ thr[t].pc \notin {"erase", "ioctl"} /\ thr[t].pc # "release" /\ dva \subseteq dva'
       /\ dva' \subseteq Obj /\ pins' \in [1 .. MaxObj -> Nat] /\ refused' \subseteq Obj
       /\ fds' \subseteq fds
       /\ refused \subseteq refused' /\ (\A i \in fds \ {thr[t].obj} : i \in fds')
       /\ (\A i \in Obj \ {thr[t].obj} : i \in dva' <=> i \in dva)
       /\ \A e \in Addrs : space'[e] \in {0, space[e]}
  BY <1>1, <1>2, <1>5, <1>6, <1>8, <1>10 DEF Locked
<1> QED
  BY <1>1, <1>5, <1>8, <1>10, <1>11, <1>12, <1>13, <1>14, <1>15, Works
-----------------------------------------------------------------------------
\* The entry of a call goes, and with it the lock.
LEMMA Erased ==
  ASSUME SessionInv, alive, NEW t \in Threads, NEW d \in ThreadRecord,
         thr' = [thr EXCEPT ![t] = d], thr[t].pc \in {"erase", "ioctl"},
         NEW o, o = thr[t].obj, NEW a, a = thr[t].addr,
         IF thr[t].call \in MemCalls
         THEN memMap' = [memMap EXCEPT ![a] = 0] /\ cbMap' = cbMap
         ELSE cbMap' = [cbMap EXCEPT ![a] = 0] /\ memMap' = memMap,
         exec' = [c \in Cmds |-> IF thr[t].cmd = {c} THEN 0 ELSE exec[c]],
         memMtx' = NoThread,
         UNCHANGED <<objs, space, listMtx, cmdList, cmds, callers, refused, unimportFailed, alive>>,
         fds' \subseteq fds, fds \ {o} \subseteq fds', o = Whole \/ o \notin fds',
         dva' \subseteq dva, dva \ {o} \subseteq dva', pins' \in [1 .. MaxObj -> Nat],
         SpaceInv', DeviceInv', CallInv(t)',
         \/ d = Idle
         \/ /\ d.obj = o /\ d.cmd = thr[t].cmd /\ d.call = thr[t].call /\ d.addr = a
            /\ d.call \in CmdCalls /\ d.pc \in {"alloc", "drop"}
  PROVE  SessionInv'
<1>1. /\ TableInv /\ SoundInv /\ WholeFound
      /\ TypeOK /\ ObjsInv /\ EntriesInv /\ SpaceInv /\ DeviceInv /\ WholeInv /\ OneEach
      /\ \A u \in Threads : CallInv(u)
  BY DEF SessionInv, TableInv
<1>2. /\ thr' \in [Threads -> ThreadRecord] /\ thr'[t] = d
      /\ \A u \in Threads \ {t} : thr'[u] = thr[u]
  BY <1>1, ThreadMoves
<1>3. UNCHANGED <<held, whole>>
  BY DEF callers
<1>4. Grows /\ Obj' = Obj /\ ObjsInv' /\ Len(objs') \in Nat
  BY <1>1, ObjsKept, TypeFacts
<1>5. /\ memMtx = t /\ o # 0 /\ EntryAt(t) = o /\ a \in Addrs /\ o \in Obj
      /\ ~Making(t) /\ thr[t].pc \in Locked
  <2>1. memMtx = t /\ o # 0 /\ EntryAt(t) = o /\ thr[t].pc \in Locked /\ o \in 0 .. Len(objs)
    BY <1>1 DEF CallInv, Locked
  <2>2. a \in Addrs
    BY <1>1 DEF TypeOK, ThreadRecord
  <2>3. o \in Obj
    BY <1>1, <2>1, TypeFacts DEF Obj
  <2> QED
    BY <2>1, <2>2, <2>3 DEF Making
<1>6. /\ \A e \in Addrs : /\ memMap'[e] = IF memMap[e] = o THEN 0 ELSE memMap[e]
                          /\ cbMap'[e] = IF cbMap[e] = o THEN 0 ELSE cbMap[e]
      /\ memMap' \in [Addrs -> 0 .. Len(objs)] /\ cbMap' \in [Addrs -> 0 .. Len(objs)]
  <2>1. /\ memMap \in [Addrs -> 0 .. Len(objs)] /\ cbMap \in [Addrs -> 0 .. Len(objs)]
        /\ 0 \in 0 .. Len(objs)
    BY <1>1, TypeFacts DEF TypeOK
  <2>2. CASE thr[t].call \in MemCalls
    <3>1. memMap[a] = o /\ objs[o].vaddr = a /\ objs[o].kind # "cmdbuf"
      BY <1>1, <1>5, <2>2 DEF EntryAt, EntriesInv
    <3>2. \A e \in Addrs : (memMap[e] = o => e = a) /\ cbMap[e] # o
      BY <1>1, <1>5, <3>1 DEF EntriesInv
    <3>3. memMap' = [memMap EXCEPT ![a] = 0] /\ cbMap' = cbMap
      BY <2>2
    <3> QED
      BY <1>5, <2>1, <3>1, <3>2, <3>3
  <2>3. CASE thr[t].call \notin MemCalls
    <3>1. cbMap[a] = o /\ objs[o].vaddr = a /\ objs[o].kind = "cmdbuf"
      BY <1>1, <1>5, <2>3 DEF EntryAt, EntriesInv
    <3>2. \A e \in Addrs : (cbMap[e] = o => e = a) /\ memMap[e] # o
      BY <1>1, <1>5, <3>1 DEF EntriesInv
    <3>3. cbMap' = [cbMap EXCEPT ![a] = 0] /\ memMap' = memMap
      BY <2>3
    <3> QED
      BY <1>5, <2>1, <3>1, <3>2, <3>3
  <2> QED
    BY <2>2, <2>3
<1>7. \A u \in Threads \ {t} : thr[u].pc \notin Locked
  BY <1>1, <1>5, LockedAlone
<1>8. TypeOK'
  <2>1. exec' \in [Cmds -> 0 .. Len(objs)]
    BY <1>1, <1>4, TypeFacts DEF TypeOK
  <2> QED
    BY <1>1, <1>2, <1>3, <1>4, <1>6, <2>1 DEF TypeOK
<1>9. EntriesInv'
  <2> SUFFICES ASSUME NEW e \in Addrs
               PROVE  /\ memMap'[e] # 0 => /\ objs[memMap'[e]].vaddr = e
                                           /\ objs[memMap'[e]].kind # "cmdbuf"
                      /\ cbMap'[e] # 0 => /\ objs[cbMap'[e]].vaddr = e
                                          /\ objs[cbMap'[e]].kind = "cmdbuf"
                      /\ memMap'[e] \notin {0, Whole} => memMap'[e] \in dva'
    BY DEF EntriesInv
  <2>1. memMap'[e] \notin {0, Whole} => memMap'[e] \in dva'
    <3> SUFFICES ASSUME memMap'[e] \notin {0, Whole}
                 PROVE  memMap[e] \in dva'
      BY <1>6
    <3>1. memMap[e] # o /\ memMap[e] \notin {0, Whole}
      BY <1>6
    <3>2. \A u \in Threads : thr[u].pc \in {"release", "erase"} => thr[u].obj # memMap[e]
      BY <1>7, <3>1 DEF Locked
    <3>3. memMap[e] \in dva
      BY <1>1, <3>1, <3>2 DEF EntriesInv
    <3> QED
      BY <3>1, <3>3
  <2> QED
    BY <1>1, <1>6, <2>1 DEF EntriesInv
<1>10. WholeInv'
  <2>1. ForWhole(t)' => ForWhole(t)
    BY <1>2, IdleRecord DEF ForWhole, Whole
  <2> QED
    BY <1>1, <1>2, <1>3, <2>1, WholeKept
<1>11. OneEach'
  <2>1. \A u \in Threads \ {t} : Making(u) => thr[u].obj # thr'[t].obj
    <3>1. \A u \in Threads : Making(u) => /\ thr[u].obj # 0 /\ thr[u].obj # o
      <4>1. \A u \in Threads : Making(u) => /\ \A e \in Addrs : /\ memMap[e] # thr[u].obj
                                                                 /\ cbMap[e] # thr[u].obj
                                             /\ thr[u].obj # 0
        BY <1>1, MakingObject DEF TableInv, CallInv
      <4>2. memMap[a] = o \/ cbMap[a] = o
        BY <1>5 DEF EntryAt
      <4> QED
        BY <1>5, <4>1, <4>2
    <3>2. thr'[t].obj \in {0, o}
      BY <1>2, IdleRecord
    <3> QED
      BY <3>1, <3>2
  <2>2. ~Making(t)'
    BY <1>2, IdleRecord DEF Making
  <2>3. thr'[t].cmd # {} => \A u \in Threads \ {t} : thr[u].cmd # thr'[t].cmd
    BY <1>1, <1>2, IdleRecord DEF OneEach
  <2> QED
    BY <1>1, <1>2, <2>1, <2>2, <2>3, OneEachKept
<1>12. ASSUME NEW u \in Threads \ {t}
       PROVE  CallInv(u)'
  <2>1. thr[u].pc \notin Resting => (thr[u].obj \in dva' <=> thr[u].obj \in dva)
    <3>1. thr[u].pc \notin Resting => thr[u].obj # o \/ thr[u].obj = Whole
      BY <1>1, <1>5, OthersApart
    <3>2. Whole \notin dva
      BY <1>1 DEF DeviceInv, ObjsInv
    <3> QED
      BY <3>1, <3>2
  <2>2. thr[u].pc \notin Locked
    BY <1>7
  <2>3. Making(u) => \A e \in Addrs : memMap'[e] # thr[u].obj /\ cbMap'[e] # thr[u].obj
    <3>1. Making(u) => \A e \in Addrs : /\ memMap[e] # thr[u].obj /\ cbMap[e] # thr[u].obj
                                        /\ thr[u].obj # 0
      BY <1>1, MakingObject DEF TableInv, CallInv
    <3> QED
      BY <1>6, <3>1
  <2>4. Making(u) => (thr[u].obj \in fds => thr[u].obj \in fds')
    <3>1. Making(u) => thr[u].obj # o
      BY <1>1, <1>5, OthersApart DEF Making, Resting
    <3> QED
      BY <3>1
  <2>5. thr[u].cmd \subseteq cmds' /\ (thr[u].obj \in fds' => thr[u].obj \in fds)
    BY <1>1 DEF CallInv
  <2> QED
    BY <1>1, <1>2, <1>4, <2>1, <2>2, <2>3, <2>4, <2>5, OtherCallKept
<1>13. TableInv'
  BY <1>4, <1>8, <1>9, <1>10, <1>11, <1>12 DEF TableInv
<1>14. SoundInv'
  <2> SUFFICES ASSUME alive, ImportsGone
               PROVE  /\ EntriesLive' /\ HandlesKept' /\ AimsApart'
                      /\ \A u \in Threads : AimInv(u)'
                      /\ \A h \in held' : HeldInv(h)'
                      /\ \A c \in cmds' : ExecInv(c)'
    BY DEF SoundInv, ImportsGone
  <2>1. /\ EntriesLive /\ HandlesKept /\ AimsApart
        /\ \A u \in Threads : AimInv(u)
        /\ \A h \in held : HeldInv(h)
        /\ \A c \in cmds : ExecInv(c)
    BY <1>1 DEF SoundInv
  <2>2. Aim(t) = o /\ Aim(t)' \in {0, o}
    <3>1. ~At(t, "lookup") /\ ~At(t, "lookup")'
      BY <1>2, IdleRecord DEF At
    <3> QED
      BY <1>2, <3>1, IdleRecord DEF Aim
  <2>3. ASSUME NEW u \in Threads \ {t}
        PROVE  \/ Aim(u)' = Aim(u)
               \/ /\ Aim(u) = Whole /\ Aim(u)' = 0 /\ At(u, "lookup")
                  /\ thr[u].addr \notin Addr /\ thr[u].call = "memFree"
    <3>1. CASE ~At(u, "lookup")
      BY <1>2, <3>1 DEF Aim, At
    <3>2. CASE At(u, "lookup")
      <4>1. thr[u].addr \in Addrs /\ thr'[u] = thr[u]
        BY <1>1, <1>2 DEF TypeOK, ThreadRecord
      <4>2. Aim(u)' = EntryAt(u)' /\ Aim(u) = EntryAt(u)
        BY <3>2, <4>1 DEF Aim, At
      <4>3. EntryAt(u)' = IF EntryAt(u) = o THEN 0 ELSE EntryAt(u)
        BY <1>6, <4>1 DEF EntryAt
      <4>4. CASE EntryAt(u) # o
        BY <4>2, <4>3, <4>4
      <4>5. CASE EntryAt(u) = o
        <5>1. o = Whole
          BY <1>5, <2>1, <2>2, <4>2, <4>5 DEF AimsApart
        <5>2. thr[u].addr = WholeAddr
          BY <1>1, <1>5, <4>1, <4>5, <5>1 DEF EntryAt, EntriesInv, ObjsInv
        <5>3. thr[u].addr \notin Addr
          BY <5>2, SessionAssumption
        <5> QED
          BY <2>1, <3>2, <4>2, <4>3, <4>5, <5>1, <5>3 DEF AimInv
      <4> QED
        BY <4>4, <4>5
    <3> QED
      BY <3>1, <3>2
  <2>4. /\ \A i \in Obj : objs[i].vaddr \in Addrs
        /\ \A e \in Addrs : /\ memMap[e] # 0 => memMap[e] \in Obj
                            /\ cbMap[e] # 0 => cbMap[e] \in Obj
        /\ \A c \in Cmds : exec[c] # 0 => exec[c] \in Obj
        /\ fds \subseteq Obj /\ held \subseteq Obj /\ cmds \subseteq Cmds
        /\ Addr \subseteq Addrs /\ 0 \notin Obj
    BY <1>1, TypeFacts DEF TypeOK
  <2>5. \A i \in Obj : i # o /\ Entered(i) => Entered(i)'
    BY <1>6, <2>4 DEF Entered
  <2>6. \A c \in Cmds : exec'[c] = IF thr[t].cmd = {c} THEN 0 ELSE exec[c]
    OBVIOUS
  <2>7. EntriesLive'
    <3>1. \A i : i # o /\ Live(i) => \/ space'[objs'[i].vaddr] = i
                                     \/ \E u \in Threads : /\ thr'[u].pc \in {"erase", "ioctl"}
                                                           /\ thr'[u].obj = i
      BY <1>2 DEF Live
    <3> SUFFICES ASSUME NEW e \in Addr
                 PROVE  /\ memMap'[e] # 0 => Live(memMap[e]) /\ memMap[e] # o
                                             /\ memMap'[e] = memMap[e]
                        /\ cbMap'[e] # 0 => Live(cbMap[e]) /\ cbMap[e] # o
                                            /\ cbMap'[e] = cbMap[e]
                        /\ memMap'[e] = 0 \/ cbMap'[e] = 0
      BY <3>1 DEF EntriesLive, Live
    <3> QED
      BY <1>6, <2>1, <2>4 DEF EntriesLive
  <2>8. HandlesKept'
    <3> SUFFICES ASSUME NEW i \in fds' \ {Whole}
                 PROVE  Entered(i)' \/ \E u \in Threads : Making(u)' /\ thr'[u].obj = i
      BY DEF HandlesKept
    <3>1. i \in fds /\ i # o /\ i \in Obj
      BY <2>4
    <3>2. CASE Entered(i)
      BY <2>5, <3>1, <3>2
    <3>3. CASE \E u \in Threads : Making(u) /\ thr[u].obj = i
      <4>1. PICK u \in Threads : Making(u) /\ thr[u].obj = i
        BY <3>3
      <4>2. u # t
        BY <1>5, <4>1
      <4> QED
        BY <1>2, <4>1, <4>2 DEF Making
    <3> QED
      BY <2>1, <3>1, <3>2, <3>3 DEF HandlesKept
  <2>9. AimsApart'
    <3> SUFFICES ASSUME NEW v \in Threads, NEW u \in Threads, Aim(v)' = Aim(u)',
                        Aim(v)' \notin {0, Whole}
                 PROVE  v = u
      BY DEF AimsApart
    <3>1. Aim(v)' = Aim(v)
      BY <2>2, <2>3
    <3>2. Aim(u)' = Aim(u)
      BY <2>2, <2>3
    <3> QED
      BY <2>1, <3>1, <3>2 DEF AimsApart
  <2>10. ASSUME NEW u \in Threads \ {t}
         PROVE  AimInv(u)'
    <3>1. AimInv(u) /\ thr'[u] = thr[u] /\ CallInv(u)
      BY <1>1, <1>2, <2>1
    <3>2. \A c \in thr[u].cmd : exec'[c] = exec[c]
      <4>1. /\ thr[u].cmd \in {{}} \cup {{e} : e \in Cmds}
            /\ thr[u].cmd = {} \/ thr[t].cmd # thr[u].cmd
        BY <1>1 DEF TypeOK, ThreadRecord, OneEach
      <4>2. \A c \in thr[u].cmd : c \in Cmds /\ thr[u].cmd = {c}
        BY <4>1
      <4>3. \A c \in thr[u].cmd : c \in Cmds /\ thr[t].cmd # {c}
        BY <4>1, <4>2
      <4> QED
        BY <2>6, <4>3
    <3>3. CASE Aim(u)' = Aim(u)
      BY <3>1, <3>2, <3>3 DEF AimInv, At, Making, Placed
    <3>4. CASE Aim(u)' # Aim(u)
      <4>1. /\ Aim(u)' = 0 /\ At(u, "lookup") /\ thr[u].addr \notin Addr
            /\ thr[u].call = "memFree"
        BY <2>3, <3>4
      <4>2. thr[u].cmd = {}
        BY <3>1, <4>1 DEF CallInv, CmdCalls
      <4> QED
        BY <3>1, <4>1, <4>2 DEF AimInv, At, Making, Placed
    <3> QED
      BY <3>3, <3>4
  <2>11. AimInv(t)'
    <3>1. CASE d = Idle
      BY <1>2, <1>4, <3>1, IdleCall
    <3>2. CASE d # Idle
      <4>1. /\ d.cmd = thr[t].cmd /\ d.call \in CmdCalls /\ d.pc \in {"alloc", "drop"}
        BY <3>2
      <4>2. \A c \in d.cmd : exec'[c] = 0
        <5>1. thr[t].cmd \in {{}} \cup {{e} : e \in Cmds}
          BY <1>1 DEF TypeOK, ThreadRecord
        <5> QED
          BY <2>6, <4>1, <5>1
      <4>3. /\ thr'[t].call # "memUnImport" /\ \A c \in thr'[t].cmd : exec'[c] = 0
            /\ thr'[t].pc \notin {"map", "insert", "import", "mmap", "undo", "close"} \cup {"lookup", "release", "erase"}
        BY <1>2, <4>1, <4>2 DEF CmdCalls
      <4> QED
        BY <4>3 DEF AimInv, At, Making, Placed
    <3> QED
      BY <3>1, <3>2
  <2>12. ASSUME NEW h \in held'
         PROVE  HeldInv(h)'
    <3>1. HeldInv(h) /\ h \in Obj /\ h # o /\ h # 0
      BY <1>3, <2>1, <2>2, <2>4 DEF HeldInv
    <3>2. \A u \in Threads : Aim(u)' # h
      BY <2>2, <2>3, <3>1 DEF HeldInv
    <3>3. \A c \in cmds : exec'[c] # h
      BY <2>4, <2>6, <3>1 DEF HeldInv
    <3> QED
      BY <2>5, <3>1, <3>2, <3>3 DEF HeldInv
  <2>13. ASSUME NEW c \in cmds'
         PROVE  ExecInv(c)'
    <3> SUFFICES ASSUME exec'[c] # 0
                 PROVE  /\ cbMap'[objs[exec'[c]].vaddr] = exec'[c]
                        /\ \A u \in Threads : Aim(u)' = exec'[c] => thr'[u].cmd = {c}
                        /\ \A e \in cmds' : exec'[e] = exec'[c] => e = c
      BY DEF ExecInv
    <3>1. /\ exec'[c] = exec[c] /\ exec[c] \in Obj /\ thr[t].cmd # {c}
      BY <2>4, <2>6
    <3>2. /\ cbMap[objs[exec[c]].vaddr] = exec[c]
          /\ \A u \in Threads : Aim(u) = exec[c] => thr[u].cmd = {c}
          /\ \A e \in cmds : exec[e] = exec[c] => e = c
      BY <2>1, <3>1 DEF ExecInv
    <3>3. exec[c] # o
      BY <2>2, <3>1, <3>2
    <3>4. \A u \in Threads : Aim(u)' = exec[c] => thr'[u].cmd = {c}
      BY <1>2, <2>2, <2>3, <2>4, <3>1, <3>2, <3>3
    <3>5. \A e \in cmds : exec'[e] = exec[c] => e = c
      BY <2>4, <2>6, <3>1, <3>2
    <3> QED
      BY <1>6, <2>4, <3>1, <3>2, <3>3, <3>4, <3>5
  <2> QED
    BY <2>7, <2>8, <2>9, <2>10, <2>11, <2>12, <2>13
<1>15. WholeFound'
  <2> SUFFICES ASSUME MaxWhole <= 1, whole > 0
               PROVE  memMap'[WholeAddr] = Whole
    BY <1>3 DEF WholeFound
  <2>1. memMap[WholeAddr] = Whole /\ WholeAddr \in Addrs
    BY <1>1, TypeFacts DEF WholeFound
  <2>2. o # Whole
    <3> SUFFICES ASSUME o = Whole
                 PROVE  FALSE
      OBVIOUS
    <3>1. t \in WholeCalls
      BY DEF WholeCalls
    <3>2. IsFiniteSet(WholeCalls) /\ whole + Cardinality(WholeCalls) <= MaxWhole
      BY <1>1 DEF WholeInv
    <3>3. Cardinality(WholeCalls) \in Nat /\ Cardinality(WholeCalls) # 0
      BY <3>1, <3>2, FS_CardinalityType, FS_EmptySet
    <3>4. whole \in Nat /\ MaxWhole \in Nat
      BY <1>1, SessionAssumption DEF TypeOK
    <3> QED
      BY <3>2, <3>3, <3>4
  <2> QED
    BY <1>6, <2>1, <2>2
<1> QED
  BY <1>13, <1>14, <1>15 DEF SessionInv, EmptyAtEnd
LEMMA EraseStep ==
  ASSUME SessionInv, NEW t \in Threads, erase(t)
  PROVE  SessionInv'
<1>1. /\ TypeOK /\ ObjsInv /\ SpaceInv /\ DeviceInv /\ CallInv(t) /\ thr[t] \in ThreadRecord
      /\ thr[t].pc = "erase" /\ alive
  BY DEF SessionInv, TableInv, CallInv, erase, At, TypeOK
<1>2. PICK o : o = thr[t].obj
  OBVIOUS
<1>3. PICK a : a = thr[t].addr
  OBVIOUS
<1>4. /\ o \in 0 .. Len(objs) /\ thr[t].call \in {"memFree", "cmdBufFree"} \cup CmdCalls
      /\ o = Whole \/ o \notin fds
  BY <1>1, <1>2 DEF CallInv, At
<1>5. o \in 0 .. MaxObj
  <2>1. Len(objs) \in Nat /\ Len(objs) <= MaxObj /\ MaxObj \in Nat
    BY <1>1, SessionAssumption, TypeFacts
  <2> QED
    BY <1>4, <2>1
<1>6. /\ UNCHANGED <<objs, fds, dva, pins, space, listMtx, cmdList, cmds, callers, refused, unimportFailed, alive>>
      /\ exec' = [c \in Cmds |-> IF thr[t].cmd = {c} THEN 0 ELSE exec[c]]
      /\ memMtx' = NoThread /\ afterFree(t)
  BY DEF erase, memory, driver
<1>7. IF thr[t].call \in MemCalls
      THEN memMap' = [memMap EXCEPT ![a] = 0] /\ cbMap' = cbMap
      ELSE cbMap' = [cbMap EXCEPT ![a] = 0] /\ memMap' = memMap
  <2>1. thr[t].call \in MemCalls <=> thr[t].call = "memFree"
    BY <1>4 DEF MemCalls, CmdCalls
  <2> QED
    BY <1>3, <2>1 DEF erase
<1>8. SpaceInv'
  BY <1>1, <1>6 DEF SpaceInv
<1>9. DeviceInv'
  <2>1. \A i \in dva : i \in fds' \cup refused'
    BY <1>1, <1>6 DEF DeviceInv
  <2> QED
    BY <1>1, <1>6, <2>1, DeviceKept
<1>10. /\ fds' \subseteq fds /\ fds \ {o} \subseteq fds' /\ (o = Whole \/ o \notin fds')
       /\ dva' \subseteq dva /\ dva \ {o} \subseteq dva' /\ pins' \in [1 .. MaxObj -> Nat]
  BY <1>1, <1>4, <1>6 DEF TypeOK
<1>11. CASE thr[t].call \in CmdCalls
  <2>1. PICK pc : pc = IF thr[t].call = "build" THEN "alloc" ELSE "drop"
    OBVIOUS
  <2>2. PICK d : d = GoneOn(t, pc, thr[t].obj)
    OBVIOUS
  <2>3. GoTo(t, pc) /\ pc \in Places /\ pc \in {"alloc", "drop"}
    BY <1>6, <1>11, <2>1 DEF afterFree, CmdCalls, Places
  <2>4. /\ d \in ThreadRecord /\ d.pc = pc /\ d.call = thr[t].call /\ d.obj = o
        /\ d.addr = a /\ d.cmd = thr[t].cmd
        /\ thr' = [thr EXCEPT ![t] = d] /\ thr'[t] = d
    BY <1>1, <1>2, <1>3, <1>5, <2>2, <2>3, GoToRecord
  <2>5. CallInv(t)'
    <3>1. (pc = "alloc" => d.call = "build") /\ (pc = "drop" => d.call = "deleteCmd")
      BY <1>11, <2>1, <2>4 DEF CmdCalls
    <3>2. thr[t].cmd \subseteq cmds' /\ (d.call \in CmdCalls <=> d.cmd # {})
      BY <1>1, <1>6, <2>4 DEF CallInv
    <3>3. o \in 0 .. Len(objs') /\ alive'
      BY <1>1, <1>4, <1>6
    <3> QED
      BY <2>3, <2>4, <3>1, <3>2, <3>3 DEF CallInv, At, Locked, Making
  <2> QED
    BY <1>1, <1>2, <1>3, <1>6, <1>7, <1>8, <1>9, <1>10, <1>11, <2>3, <2>4, <2>5, Erased
<1>12. CASE thr[t].call \notin CmdCalls
  <2>1. thr' = [thr EXCEPT ![t] = Idle]
    BY <1>6, <1>12 DEF afterFree, Return, CmdCalls
  <2>2. thr'[t] = Idle /\ Idle \in ThreadRecord
    BY <1>1, <2>1, IdleRecord, ThreadMoves
  <2>3. CallInv(t)'
    <3>1. Len(objs') \in Nat
      BY <1>1, <1>6, TypeFacts
    <3> QED
      BY <2>2, <3>1, IdleCall
  <2> QED
    BY <1>1, <1>2, <1>3, <1>6, <1>7, <1>8, <1>9, <1>10, <2>1, <2>2, <2>3, Erased
<1> QED
  BY <1>11, <1>12

\* memUnImport(): object and entry go, or the object stays with its caller,
\* without its mapping.
LEMMA UnmapImportStep ==
  ASSUME SessionInv, NEW t \in Threads, unmapImport(t)
  PROVE  SessionInv'
<1>1. /\ TableInv /\ SoundInv /\ WholeFound
      /\ TypeOK /\ ObjsInv /\ EntriesInv /\ SpaceInv /\ DeviceInv /\ WholeInv /\ OneEach
      /\ CallInv(t) /\ thr[t] \in ThreadRecord /\ thr[t].pc = "ioctl" /\ alive
  BY DEF SessionInv, TableInv, CallInv, unmapImport, At, TypeOK
<1>2. PICK o : o = thr[t].obj
  OBVIOUS
<1>3. PICK a : a = thr[t].addr
  OBVIOUS
<1>4. /\ o \in 0 .. Len(objs) /\ thr[t].call = "memUnImport" /\ o \in dva /\ memMtx = t
      /\ EntryAt(t) = o /\ \A e \in Addrs : space[e] # o
      /\ thr[t].cmd = {}
  BY <1>1, <1>2 DEF CallInv, At, Locked, CmdCalls
<1>5. o \in Obj /\ o # Whole /\ o # 0
  BY <1>1, <1>4, TypeFacts DEF DeviceInv, ObjsInv, TypeOK
<1>6. /\ UNCHANGED <<objs, space, cbMap, listMtx, cmdList, cmds, exec, whole, alive>>
      /\ memMtx' = NoThread /\ thr' = [thr EXCEPT ![t] = Idle]
  BY DEF unmapImport, commands, Return
<1>7. /\ thr'[t] = Idle /\ Idle \in ThreadRecord
      /\ thr' \in [Threads -> ThreadRecord] /\ \A u \in Threads \ {t} : thr'[u] = thr[u]
  BY <1>1, <1>6, IdleRecord, ThreadMoves
<1>8. /\ CallInv(t)' /\ ~ForWhole(t)' /\ ~Making(t)' /\ Aim(t)' = 0
  <2>1. Len(objs') \in Nat
    BY <1>1, <1>6, TypeFacts
  <2> QED
    BY <1>7, <2>1, IdleCall
<1>9. CASE /\ dva' = dva \ {o} /\ pins' = [pins EXCEPT ![objs[o].buf] = @ - 1]
           /\ fds' = fds \ {o} /\ memMap' = [memMap EXCEPT ![a] = 0]
           /\ UNCHANGED <<held, refused, unimportFailed>>
  <2>1. PICK buf : buf = objs[o].buf
    OBVIOUS
  <2>2. pins' = [pins EXCEPT ![buf] = @ - 1]
    BY <1>9, <2>1
  <2>3. DeviceInv' /\ pins' \in [1 .. MaxObj -> Nat]
    <3>1. /\ \A i \in dva : objs'[i] = objs[i]
          /\ fds \ {o} \subseteq fds' /\ refused \subseteq refused'
      BY <1>6, <1>9
    <3> QED
      BY <1>1, <1>4, <1>9, <2>1, <2>2, <3>1, DeviceUnmapped
  <2>4. SpaceInv'
    BY <1>1, <1>4, <1>6, <1>9 DEF SpaceInv
  <2>5. exec' = [c \in Cmds |-> IF thr[t].cmd = {c} THEN 0 ELSE exec[c]]
    <3>1. \A c \in Cmds : thr[t].cmd # {c}
      BY <1>4
    <3> QED
      BY <1>1, <1>6, <3>1 DEF TypeOK
  <2>6. IF thr[t].call \in MemCalls
        THEN memMap' = [memMap EXCEPT ![a] = 0] /\ cbMap' = cbMap
        ELSE cbMap' = [cbMap EXCEPT ![a] = 0] /\ memMap' = memMap
    BY <1>4, <1>6, <1>9 DEF MemCalls
  <2>7. /\ fds' \subseteq fds /\ fds \ {o} \subseteq fds' /\ (o = Whole \/ o \notin fds')
        /\ dva' \subseteq dva /\ dva \ {o} \subseteq dva'
        /\ UNCHANGED <<objs, space, listMtx, cmdList, cmds, callers, refused, unimportFailed, alive>>
    BY <1>6, <1>9 DEF callers
  <2>8. thr[t].pc \in {"erase", "ioctl"}
    BY <1>1
  <2> QED
    BY <1>1, <1>2, <1>3, <1>6, <1>7, <1>8, <2>3, <2>4, <2>5, <2>6, <2>7, <2>8, Erased
<1>10. CASE /\ held' = held \cup {o} /\ refused' = refused \cup {o} /\ unimportFailed' = TRUE
            /\ UNCHANGED <<dva, pins, fds, memMap>>
  <2>1. Grows /\ Obj' = Obj /\ ObjsInv'
    BY <1>1, <1>6, ObjsKept
  <2>2. \A u \in Threads \ {t} : thr[u].pc \notin Locked
    BY <1>1, <1>4, LockedAlone
  <2>3. TypeOK'
    BY <1>1, <1>5, <1>6, <1>7, <1>10, <2>1 DEF TypeOK
  <2>4. EntriesInv'
    <3>1. \A e \in Addrs : memMap[e] \notin {0, Whole} => memMap[e] \in dva
      <4>1. \A u \in Threads : thr[u].pc \notin {"release", "erase"}
        BY <1>1, <2>2 DEF Locked
      <4> QED
        BY <1>1, <4>1 DEF EntriesInv
    <3> QED
      BY <1>1, <1>6, <1>10, <2>1, <3>1, EntriesKept
  <2>5. SpaceInv' /\ WholeInv'
    <3>1. SpaceInv'
      BY <1>1, <1>6, <1>10 DEF SpaceInv
    <3>2. WholeInv'
      BY <1>1, <1>6, <1>7, <1>8, WholeKept
    <3> QED
      BY <3>1, <3>2
  <2>6. DeviceInv'
    <3>1. \A i \in dva : i \in fds' \cup refused'
      BY <1>1, <1>10 DEF DeviceInv
    <3> QED
      BY <1>1, <1>6, <1>10, <3>1, DeviceKept
  <2>7. OneEach'
    <3>1. \A u \in Threads \ {t} : Making(u) => thr[u].obj # thr'[t].obj
      <4>1. \A u \in Threads : Making(u) => thr[u].obj # 0
        BY <1>1, MakingObject DEF TableInv
      <4> QED
        BY <1>7, <4>1, IdleRecord
    <3>2. thr'[t].cmd = {}
      BY <1>7, IdleRecord
    <3> QED
      BY <1>1, <1>7, <1>8, <3>1, <3>2, OneEachKept
  <2>8. ASSUME NEW u \in Threads \ {t}
        PROVE  CallInv(u)'
    <3>1. refused \subseteq refused' /\ thr[u].cmd \subseteq cmds'
      BY <1>1, <1>6, <1>10 DEF TableInv, CallInv
    <3>2. Making(u) => \A e \in Addrs : memMap'[e] # thr[u].obj /\ cbMap'[e] # thr[u].obj
      BY <1>1, <1>6, <1>10 DEF TableInv, CallInv
    <3> QED
      BY <1>1, <1>6, <1>7, <1>10, <2>1, <2>2, <3>1, <3>2, OtherCallKept
  <2>9. TableInv'
    BY <1>8, <2>1, <2>3, <2>4, <2>5, <2>6, <2>7, <2>8 DEF TableInv
  <2>10. SoundInv'
    BY <1>10 DEF SoundInv, ImportsGone
  <2> QED
    BY <1>1, <1>6, <1>10, <2>9, <2>10, StaysSession
<1> QED
  BY <1>2, <1>3, <1>9, <1>10 DEF unmapImport, driver
\* Entering an object under its address.
LEMMA Inserts ==
  ASSUME TableInv, NEW t \in Threads, insert(t), NEW o, o = thr[t].obj,
         NEW a, a = objs[o].vaddr
  PROVE  /\ o \in Obj /\ o # 0 /\ a \in Addrs
         /\ memMap' \in [Addrs -> 0 .. Len(objs)] /\ cbMap' \in [Addrs -> 0 .. Len(objs)]
         /\ \A e \in Addrs : /\ e # a => memMap'[e] = memMap[e] /\ cbMap'[e] = cbMap[e]
                             /\ memMap[e] # 0 => memMap'[e] = memMap[e]
                             /\ cbMap[e] # 0 => cbMap'[e] = cbMap[e]
                             /\ memMap'[e] \in {memMap[e], o} /\ cbMap'[e] \in {cbMap[e], o}
         /\ objs[o].kind = "cmdbuf" => cbMap'[a] # 0 /\ memMap' = memMap
         /\ objs[o].kind # "cmdbuf" => memMap'[a] # 0 /\ cbMap' = cbMap
<1>1. TypeOK /\ CallInv(t) /\ thr[t].pc = "insert"
  BY DEF TableInv, insert, At
<1>2. o \in Obj /\ o # 0 /\ a \in Addrs /\ o \in 0 .. Len(objs)
  BY <1>1, TypeFacts DEF CallInv, At
<1>3. memMap \in [Addrs -> 0 .. Len(objs)] /\ cbMap \in [Addrs -> 0 .. Len(objs)]
  BY <1>1 DEF TypeOK
<1>4. CASE objs[o].kind = "cmdbuf"
  <2>1. cbMap' = entered(cbMap, a, o) /\ memMap' = memMap
    BY <1>4 DEF insert
  <2> QED
    BY <1>2, <1>3, <1>4, <2>1 DEF entered
<1>5. CASE objs[o].kind # "cmdbuf"
  <2>1. memMap' = entered(memMap, a, o) /\ cbMap' = cbMap
    BY <1>5 DEF insert
  <2> QED
    BY <1>2, <1>3, <1>5, <2>1 DEF entered
<1> QED
  BY <1>4, <1>5

LEMMA InsertTable ==
  ASSUME TableInv, NEW t \in Threads, insert(t)
  PROVE  TableInv'
<1>1. /\ TypeOK /\ ObjsInv /\ EntriesInv /\ SpaceInv /\ DeviceInv /\ WholeInv /\ OneEach
      /\ \A u \in Threads : CallInv(u)
      /\ thr[t].pc = "insert" /\ memMtx = NoThread
  BY DEF TableInv, insert, At
<1>2. PICK o : o = thr[t].obj
  OBVIOUS
<1>3. PICK a : a = objs[o].vaddr
  OBVIOUS
<1>4. /\ o \in Obj /\ o # 0 /\ a \in Addrs
      /\ memMap' \in [Addrs -> 0 .. Len(objs)] /\ cbMap' \in [Addrs -> 0 .. Len(objs)]
      /\ \A e \in Addrs : /\ e # a => memMap'[e] = memMap[e] /\ cbMap'[e] = cbMap[e]
                          /\ memMap[e] # 0 => memMap'[e] = memMap[e]
                          /\ cbMap[e] # 0 => cbMap'[e] = cbMap[e]
                          /\ memMap'[e] \in {memMap[e], o} /\ cbMap'[e] \in {cbMap[e], o}
      /\ objs[o].kind = "cmdbuf" => cbMap'[a] # 0 /\ memMap' = memMap
      /\ objs[o].kind # "cmdbuf" => memMap'[a] # 0 /\ cbMap' = cbMap
  BY <1>2, <1>3, Inserts
<1>5. /\ UNCHANGED <<objs, fds, dva, pins, space, memMtx, listMtx, cmdList, cmds, refused, unimportFailed, alive>>
      /\ thr' = [thr EXCEPT ![t] = Idle]
      /\ whole' = IF o = Whole THEN whole + 1 ELSE whole
      /\ held' = IF o = Whole \/ thr[t].call = "build" THEN held ELSE held \cup {o}
      /\ exec' = [c \in Cmds |-> IF thr[t].cmd = {c} THEN o ELSE exec[c]]
  BY <1>2 DEF insert, memory, Return, driver
<1>6. /\ thr'[t] = Idle /\ thr' \in [Threads -> ThreadRecord]
      /\ \A u \in Threads \ {t} : thr'[u] = thr[u]
  BY <1>1, <1>5, IdleRecord, ThreadMoves
<1>7. CallInv(t)' /\ ~ForWhole(t)' /\ ~Making(t)'
  <2>1. Len(objs') \in Nat
    BY <1>1, <1>5, TypeFacts
  <2> QED
    BY <1>6, <2>1, IdleCall
<1>8. Grows /\ Obj' = Obj /\ ObjsInv'
  BY <1>1, <1>5, ObjsKept
<1>9. whole' \in 0 .. MaxWhole /\ WholeInv'
  <2>1. o = Whole => ForWhole(t)
    BY <1>2 DEF ForWhole
  <2>2. /\ IsFiniteSet(WholeCalls') /\ Cardinality(WholeCalls) \in Nat
        /\ Cardinality(WholeCalls') \in Nat
        /\ Cardinality(WholeCalls') = Cardinality(WholeCalls) - (IF ForWhole(t) THEN 1 ELSE 0)
    BY <1>1, <1>6, <1>7, WholeCounted
  <2>3. whole + Cardinality(WholeCalls) <= MaxWhole /\ whole \in Nat /\ MaxWhole \in Nat
    BY <1>1, SessionAssumption DEF WholeInv, TypeOK
  <2>4. whole' + Cardinality(WholeCalls') <= MaxWhole /\ whole' \in 0 .. MaxWhole
    BY <1>5, <2>1, <2>2, <2>3
  <2> QED
    BY <2>2, <2>4 DEF WholeInv
<1>10. TypeOK'
  <2>1. o \in 0 .. Len(objs)
    BY <1>1, <1>4, TypeFacts DEF Obj
  <2>2. exec' \in [Cmds -> 0 .. Len(objs)] /\ held' \subseteq Obj
    BY <1>1, <1>4, <1>5, <2>1 DEF TypeOK
  <2> QED
    BY <1>1, <1>4, <1>5, <1>6, <1>8, <1>9, <2>2 DEF TypeOK
<1>11. EntriesInv'
  <2> SUFFICES ASSUME NEW e \in Addrs
               PROVE  /\ memMap'[e] # 0 => /\ objs[memMap'[e]].vaddr = e
                                           /\ objs[memMap'[e]].kind # "cmdbuf"
                      /\ cbMap'[e] # 0 => /\ objs[cbMap'[e]].vaddr = e
                                          /\ objs[cbMap'[e]].kind = "cmdbuf"
                      /\ memMap'[e] \notin {0, Whole} =>
                           \/ memMap'[e] \in dva
                           \/ \E u \in Threads : /\ thr'[u].pc \in {"release", "erase"}
                                                 /\ thr'[u].obj = memMap'[e]
    BY <1>5 DEF EntriesInv
  <2>1. /\ memMap'[e] = memMap[e] \/ (e = a /\ memMap'[e] = o /\ objs[o].kind # "cmdbuf")
        /\ cbMap'[e] = cbMap[e] \/ (e = a /\ cbMap'[e] = o /\ objs[o].kind = "cmdbuf")
    BY <1>4
  <2>2. /\ memMap'[e] # 0 => /\ objs[memMap'[e]].vaddr = e
                             /\ objs[memMap'[e]].kind # "cmdbuf"
        /\ cbMap'[e] # 0 => /\ objs[cbMap'[e]].vaddr = e
                            /\ objs[cbMap'[e]].kind = "cmdbuf"
    BY <1>1, <1>3, <2>1 DEF EntriesInv
  <2>3. ASSUME memMap'[e] \notin {0, Whole}
        PROVE  \/ memMap'[e] \in dva
               \/ \E u \in Threads : /\ thr'[u].pc \in {"release", "erase"}
                                     /\ thr'[u].obj = memMap'[e]
    <3>1. CASE memMap'[e] = memMap[e]
      <4>1. \A u \in Threads : thr[u].pc \in {"release", "erase"} => u # t
        BY <1>1
      <4> QED
        BY <1>1, <1>6, <2>3, <3>1, <4>1 DEF EntriesInv
    <3>2. CASE memMap'[e] = o /\ objs[o].kind # "cmdbuf"
      <4>1. objs[o].kind \in {"mem", "import"}
        BY <1>1, <1>4, <2>3, <3>2, TypeFacts DEF ObjsInv, ObjRecord
      <4> QED
        BY <1>1, <1>2, <3>2, <4>1 DEF CallInv, At
    <3> QED
      BY <2>1, <3>1, <3>2
  <2> QED
    BY <2>2, <2>3
<1>12. SpaceInv'
  BY <1>1, <1>5 DEF SpaceInv
<1>13. DeviceInv'
  <2>1. \A i \in dva : i \in fds' \cup refused'
    BY <1>1, <1>5 DEF DeviceInv
  <2> QED
    BY <1>1, <1>5, <2>1, DeviceKept
<1>14. OneEach'
  <2>1. \A u \in Threads \ {t} : Making(u) => thr[u].obj # thr'[t].obj
    <3>1. \A u \in Threads : Making(u) => thr[u].obj # 0
      BY <1>1, MakingObject DEF TableInv
    <3> QED
      BY <1>6, <3>1, IdleRecord
  <2>2. thr'[t].cmd = {}
    BY <1>6, IdleRecord
  <2> QED
    BY <1>1, <1>6, <1>7, <2>1, <2>2, OneEachKept
<1>15. ASSUME NEW u \in Threads \ {t}
       PROVE  CallInv(u)'
  <2>1. thr[u].pc \notin Locked /\ thr[u].cmd \subseteq cmds'
    BY <1>1, <1>5, LockedAlone DEF CallInv
  <2>2. Making(u) => \A e \in Addrs : memMap'[e] # thr[u].obj /\ cbMap'[e] # thr[u].obj
    <3>1. Making(u) => thr[u].obj # o
      BY <1>1, <1>2 DEF OneEach, Making
    <3>2. Making(u) => \A e \in Addrs : memMap[e] # thr[u].obj /\ cbMap[e] # thr[u].obj
      BY <1>1 DEF CallInv
    <3> QED
      BY <1>4, <3>1, <3>2
  <2> QED
    BY <1>5, <1>6, <1>8, <2>1, <2>2, OtherCallKept
<1> QED
  BY <1>7, <1>8, <1>9, <1>10, <1>11, <1>12, <1>13, <1>14, <1>15 DEF TableInv
\* A new object is entered where nothing was: whoever freed its address
\* before gave it back under the lock that inserting takes.
LEMMA FreshEntry ==
  ASSUME TableInv, SoundInv, alive, ImportsGone, NEW t \in Threads, At(t, "insert"),
         memMtx = NoThread, NEW o, o = thr[t].obj, o # Whole, NEW a, a = objs[o].vaddr
  PROVE  /\ a \in Addr /\ o \in Obj /\ space[a] = o
         /\ memMap[a] = 0 /\ cbMap[a] = 0
         /\ \A e \in Addrs : memMap[e] # o /\ cbMap[e] # o
<1>1. /\ TypeOK /\ ObjsInv /\ EntriesInv /\ CallInv(t) /\ EntriesLive /\ AimInv(t) /\ Making(t)
  BY DEF TableInv, SoundInv, Making, At
<1>2. o \in Obj /\ a \in Addr /\ space[a] = o
  BY <1>1, TypeFacts DEF CallInv, At, ObjsInv, AimInv, Placed
<1>3. \A e \in Addrs : memMap[e] # o /\ cbMap[e] # o
  BY <1>1 DEF CallInv
<1>4. \A u \in Threads : thr[u].pc \notin {"erase", "ioctl"}
  <2>1. thr[t].pc \notin {"erase", "ioctl"}
    BY DEF At
  <2> QED
    BY <2>1, LockedAlone DEF Locked
<1>5. a \in Addrs
  BY <1>1, <1>2, TypeFacts
<1>6. memMap[a] = 0
  <2> SUFFICES ASSUME memMap[a] # 0
               PROVE  FALSE
    OBVIOUS
  <2>1. PICK i : i = memMap[a]
    OBVIOUS
  <2>2. Live(i) /\ objs[i].vaddr = a /\ i # o
    BY <1>1, <1>2, <1>3, <1>5, <2>1 DEF EntriesLive, EntriesInv
  <2> QED
    BY <1>2, <1>4, <2>2 DEF Live
<1>7. cbMap[a] = 0
  <2> SUFFICES ASSUME cbMap[a] # 0
               PROVE  FALSE
    OBVIOUS
  <2>1. PICK i : i = cbMap[a]
    OBVIOUS
  <2>2. Live(i) /\ objs[i].vaddr = a /\ i # o
    BY <1>1, <1>2, <1>3, <1>5, <2>1 DEF EntriesLive, EntriesInv
  <2> QED
    BY <1>2, <1>4, <2>2 DEF Live
<1> QED
  BY <1>2, <1>3, <1>6, <1>7

LEMMA InsertSound ==
  ASSUME TableInv, SoundInv, NEW t \in Threads, insert(t)
  PROVE  SoundInv'
<1> SUFFICES ASSUME alive, ImportsGone
             PROVE  /\ EntriesLive' /\ HandlesKept' /\ AimsApart'
                    /\ \A u \in Threads : AimInv(u)'
                    /\ \A h \in held' : HeldInv(h)'
                    /\ \A c \in cmds' : ExecInv(c)'
  BY DEF SoundInv, ImportsGone, insert, memory, driver
<1>1. /\ TypeOK /\ ObjsInv /\ EntriesInv /\ OneEach
      /\ \A u \in Threads : CallInv(u)
      /\ thr[t].pc = "insert" /\ At(t, "insert") /\ memMtx = NoThread
  BY DEF TableInv, insert, At
<1>2. PICK o : o = thr[t].obj
  OBVIOUS
<1>3. PICK a : a = objs[o].vaddr
  OBVIOUS
<1>4. /\ o \in Obj /\ o # 0 /\ a \in Addrs
      /\ memMap' \in [Addrs -> 0 .. Len(objs)] /\ cbMap' \in [Addrs -> 0 .. Len(objs)]
      /\ \A e \in Addrs : /\ e # a => memMap'[e] = memMap[e] /\ cbMap'[e] = cbMap[e]
                          /\ memMap[e] # 0 => memMap'[e] = memMap[e]
                          /\ cbMap[e] # 0 => cbMap'[e] = cbMap[e]
                          /\ memMap'[e] \in {memMap[e], o} /\ cbMap'[e] \in {cbMap[e], o}
      /\ objs[o].kind = "cmdbuf" => cbMap'[a] # 0 /\ memMap' = memMap
      /\ objs[o].kind # "cmdbuf" => memMap'[a] # 0 /\ cbMap' = cbMap
  BY <1>2, <1>3, Inserts
<1>5. /\ UNCHANGED <<objs, fds, dva, pins, space, memMtx, listMtx, cmdList, cmds, refused, unimportFailed, alive>>
      /\ thr' = [thr EXCEPT ![t] = Idle]
      /\ held' = IF o = Whole \/ thr[t].call = "build" THEN held ELSE held \cup {o}
      /\ exec' = [c \in Cmds |-> IF thr[t].cmd = {c} THEN o ELSE exec[c]]
  BY <1>2 DEF insert, memory, Return, driver
<1>6. /\ thr'[t] = Idle /\ thr' \in [Threads -> ThreadRecord]
      /\ \A u \in Threads \ {t} : thr'[u] = thr[u]
  BY <1>1, <1>5, IdleRecord, ThreadMoves
<1>7. AimInv(t)' /\ Aim(t)' = 0 /\ ~Making(t)'
  <2>1. Len(objs') \in Nat
    BY <1>1, <1>5, TypeFacts
  <2> QED
    BY <1>6, <2>1, IdleCall
<1>8. /\ EntriesLive /\ HandlesKept /\ AimsApart
      /\ \A u \in Threads : AimInv(u)
      /\ \A h \in held : HeldInv(h)
      /\ \A c \in cmds : ExecInv(c)
  BY DEF SoundInv
<1>9. o # Whole => /\ a \in Addr /\ space[a] = o /\ memMap[a] = 0 /\ cbMap[a] = 0
                   /\ \A e \in Addrs : memMap[e] # o /\ cbMap[e] # o
  BY <1>1, <1>2, <1>3, FreshEntry
<1>10. /\ (o = Whole => a = WholeAddr /\ a \notin Addr) /\ Aim(t) = o
       /\ \A i \in Obj : objs[i].vaddr \in Addrs
       /\ \A e \in Addrs : /\ memMap[e] # 0 => memMap[e] \in Obj
                           /\ cbMap[e] # 0 => cbMap[e] \in Obj
       /\ \A c \in Cmds : exec[c] # 0 => exec[c] \in Obj
       /\ fds \subseteq Obj /\ held \subseteq Obj /\ cmds \subseteq Cmds
       /\ Addr \subseteq Addrs /\ 0 \notin Obj
  BY <1>1, <1>2, <1>3, TypeFacts DEF ObjsInv, TypeOK, Aim, At
<1>11. o # Whole => /\ Entered(o)'
                    /\ (objs[o].kind = "cmdbuf" => cbMap'[a] = o)
  BY <1>3, <1>4, <1>5, <1>9 DEF Entered
<1>12. \A i \in Obj : Entered(i) => Entered(i)'
  BY <1>4, <1>5, <1>10 DEF Entered
<1>13. \A c \in Cmds : exec'[c] = IF thr[t].cmd = {c} THEN o ELSE exec[c]
  BY <1>5
<1>14. thr[t].cmd # {} => /\ o # Whole /\ objs[o].kind = "cmdbuf" /\ thr[t].call = "build"
  BY <1>1, <1>2 DEF CallInv, At, ObjsInv
<1>15. ASSUME NEW u \in Threads \ {t}
       PROVE  \/ Aim(u)' = Aim(u)
              \/ /\ Aim(u) = 0 /\ Aim(u)' = Whole /\ At(u, "lookup")
                 /\ thr[u].addr \notin Addr /\ thr[u].call = "memFree"
  <2>1. CASE ~At(u, "lookup")
    BY <1>6, <2>1 DEF Aim, At
  <2>2. CASE At(u, "lookup")
    <3>1. thr[u].addr \in Addrs /\ thr'[u] = thr[u]
      BY <1>1, <1>6 DEF TypeOK, ThreadRecord
    <3>2. Aim(u)' = EntryAt(u)' /\ Aim(u) = EntryAt(u)
      BY <2>2, <3>1 DEF Aim, At
    <3>3. EntryAt(u) # 0 => EntryAt(u)' = EntryAt(u)
      BY <1>4, <3>1 DEF EntryAt
    <3>4. EntryAt(u)' \in {EntryAt(u), o} /\ (thr[u].addr # a => EntryAt(u)' = EntryAt(u))
      BY <1>4, <3>1 DEF EntryAt
    <3>5. CASE thr[u].addr \in Addr
      BY <1>8, <2>2, <3>2, <3>3, <3>5 DEF AimInv
    <3>6. CASE thr[u].addr \notin Addr
      <4>1. thr[u].call = "memFree"
        BY <1>8, <2>2, <3>6 DEF AimInv
      <4>2. thr[u].addr = a => o = Whole
        BY <1>9, <3>6
      <4> QED
        BY <2>2, <3>2, <3>3, <3>4, <3>6, <4>1, <4>2
    <3> QED
      BY <3>5, <3>6
  <2> QED
    BY <2>1, <2>2
<1>16. EntriesLive'
  <2>1. \A i : Live(i) => \/ space'[objs'[i].vaddr] = i
                          \/ \E u \in Threads : /\ thr'[u].pc \in {"erase", "ioctl"}
                                                /\ thr'[u].obj = i
    <3>1. \A u \in Threads : thr[u].pc \in {"erase", "ioctl"} => u # t
      BY <1>1
    <3> QED
      BY <1>5, <1>6, <3>1 DEF Live
  <2> SUFFICES ASSUME NEW e \in Addr
               PROVE  /\ memMap'[e] # 0 => Live(memMap'[e])
                      /\ cbMap'[e] # 0 => Live(cbMap'[e])
                      /\ memMap'[e] = 0 \/ cbMap'[e] = 0
    BY <2>1 DEF EntriesLive, Live
  <2>2. /\ memMap[e] # 0 => Live(memMap[e])
        /\ cbMap[e] # 0 => Live(cbMap[e])
        /\ memMap[e] = 0 \/ cbMap[e] = 0
    BY <1>8 DEF EntriesLive
  <2>3. CASE e # a
    BY <1>4, <1>10, <2>2, <2>3
  <2>4. CASE e = a
    <3>1. o # Whole /\ Live(o)
      BY <1>3, <1>9, <1>10, <2>4 DEF Live
    <3>2. memMap'[a] \in {0, o} /\ cbMap'[a] \in {0, o}
      BY <1>4, <1>9, <3>1
    <3>3. memMap'[a] = 0 \/ cbMap'[a] = 0
      BY <1>4, <1>9, <3>1
    <3> QED
      BY <2>4, <3>1, <3>2, <3>3
  <2> QED
    BY <2>3, <2>4
<1>17. HandlesKept'
  <2> SUFFICES ASSUME NEW i \in fds \ {Whole}
               PROVE  Entered(i)' \/ \E u \in Threads : Making(u)' /\ thr'[u].obj = i
    BY <1>5 DEF HandlesKept
  <2>1. CASE Entered(i)
    BY <1>10, <1>12, <2>1
  <2>2. CASE \E u \in Threads : Making(u) /\ thr[u].obj = i
    <3>1. PICK u \in Threads : Making(u) /\ thr[u].obj = i
      BY <2>2
    <3>2. CASE u = t
      BY <1>2, <1>11, <3>1, <3>2
    <3>3. CASE u # t
      BY <1>6, <3>1, <3>3 DEF Making
    <3> QED
      BY <3>2, <3>3
  <2> QED
    BY <1>8, <2>1, <2>2 DEF HandlesKept
<1>18. AimsApart'
  <2> SUFFICES ASSUME NEW v \in Threads, NEW u \in Threads, Aim(v)' = Aim(u)',
                      Aim(v)' \notin {0, Whole}
               PROVE  v = u
    BY DEF AimsApart
  <2>1. v # t /\ u # t
    BY <1>7
  <2>2. Aim(v)' = Aim(v) /\ Aim(u)' = Aim(u)
    BY <1>15, <2>1
  <2> QED
    BY <1>8, <2>2 DEF AimsApart
<1>19. ASSUME NEW u \in Threads \ {t}
       PROVE  AimInv(u)'
  <2>1. AimInv(u) /\ thr'[u] = thr[u] /\ CallInv(u)
    BY <1>1, <1>6, <1>8
  <2>2. \A c \in thr[u].cmd : exec'[c] = exec[c]
    <3>1. /\ thr[u].cmd \in {{}} \cup {{e} : e \in Cmds}
          /\ thr[u].cmd = {} \/ thr[t].cmd # thr[u].cmd
      BY <1>1 DEF TypeOK, ThreadRecord, OneEach
    <3>2. \A c \in thr[u].cmd : c \in Cmds /\ thr[u].cmd = {c}
      BY <3>1
    <3>3. \A c \in thr[u].cmd : c \in Cmds /\ thr[t].cmd # {c}
      BY <3>1, <3>2
    <3> QED
      BY <1>13, <3>3
  <2>3. CASE Aim(u)' = Aim(u)
    BY <1>5, <2>1, <2>2, <2>3 DEF AimInv, At, Making, Placed
  <2>4. CASE Aim(u)' # Aim(u)
    <3>1. /\ At(u, "lookup") /\ thr[u].addr \notin Addr /\ thr[u].call = "memFree"
      BY <1>15, <2>4
    <3>2. thr[u].cmd = {}
      BY <2>1, <3>1 DEF CallInv, CmdCalls
    <3> QED
      BY <2>1, <3>1, <3>2 DEF AimInv, At, Making, Placed
  <2> QED
    BY <2>3, <2>4
<1>20. \A u \in Threads : /\ Aim(u)' \in {0, Whole, Aim(u)}
                          /\ Aim(u)' = o => o = Whole
  <2>1. Aim(t)' = 0
    BY <1>7
  <2>2. ASSUME NEW u \in Threads \ {t}
        PROVE  /\ Aim(u)' \in {0, Whole, Aim(u)}
               /\ Aim(u)' = o => o = Whole
    <3>1. Aim(u) = o => o = Whole
      BY <1>4, <1>8, <1>10 DEF AimsApart
    <3> QED
      BY <1>15, <3>1
  <2> QED
    BY <1>4, <2>1, <2>2
<1>21. \A c \in cmds : o # Whole => exec[c] # o
  <2> SUFFICES ASSUME NEW c \in cmds, o # Whole, exec[c] = o
               PROVE  FALSE
    OBVIOUS
  <2>1. cbMap[objs[o].vaddr] = o
    BY <1>4, <1>8 DEF ExecInv
  <2> QED
    BY <1>3, <1>4, <1>9, <2>1
<1>22. ASSUME NEW h \in held'
       PROVE  HeldInv(h)'
  <2>1. CASE h \in held
    <3>1. HeldInv(h) /\ h \in Obj /\ h # 0 /\ h # o
      BY <1>8, <1>10, <2>1 DEF HeldInv
    <3>2. \A u \in Threads : Aim(u)' # h
      BY <1>20, <3>1 DEF HeldInv
    <3>3. \A c \in cmds : exec'[c] # h
      BY <1>10, <1>13, <3>1 DEF HeldInv
    <3> QED
      BY <1>5, <1>12, <3>1, <3>2, <3>3 DEF HeldInv
  <2>2. CASE h = o /\ o # Whole /\ thr[t].call # "build"
    <3>1. thr[t].cmd = {}
      BY <1>14, <2>2
    <3>2. \A c \in cmds : exec'[c] # o
      BY <1>10, <1>13, <1>21, <2>2, <3>1
    <3>3. \A u \in Threads : Aim(u)' # o
      BY <1>20, <2>2
    <3> QED
      BY <1>5, <1>11, <2>2, <3>2, <3>3 DEF HeldInv
  <2> QED
    BY <1>5, <2>1, <2>2
<1>23. ASSUME NEW c \in cmds'
       PROVE  ExecInv(c)'
  <2> SUFFICES ASSUME exec'[c] # 0
               PROVE  /\ cbMap'[objs[exec'[c]].vaddr] = exec'[c]
                      /\ \A u \in Threads : Aim(u)' = exec'[c] => thr'[u].cmd = {c}
                      /\ \A e \in cmds : exec'[e] = exec'[c] => e = c
    BY <1>5 DEF ExecInv
  <2>1. c \in cmds /\ c \in Cmds /\ cmds \subseteq Cmds
    BY <1>5, <1>10
  <2>2. CASE thr[t].cmd = {c}
    <3>1. exec'[c] = o /\ o # Whole /\ cbMap'[a] = o
      BY <1>11, <1>13, <1>14, <2>1, <2>2
    <3>2. \A u \in Threads : Aim(u)' # o
      BY <1>20, <3>1
    <3>3. \A e \in cmds : exec'[e] = o => e = c
      BY <1>13, <1>21, <2>1, <2>2, <3>1
    <3> QED
      BY <1>3, <3>1, <3>2, <3>3
  <2>3. CASE thr[t].cmd # {c}
    <3>1. exec'[c] = exec[c] /\ exec[c] \in Obj
      BY <1>10, <1>13, <2>1, <2>3
    <3>2. /\ cbMap[objs[exec[c]].vaddr] = exec[c]
          /\ \A u \in Threads : Aim(u) = exec[c] => thr[u].cmd = {c}
          /\ \A e \in cmds : exec[e] = exec[c] => e = c
      BY <1>8, <1>10, <2>1, <3>1 DEF ExecInv
    <3>3. exec[c] # Whole /\ objs[exec[c]].vaddr \in Addrs
      BY <1>1, <1>10, <3>1, <3>2 DEF EntriesInv, ObjsInv
    <3>4. cbMap'[objs[exec[c]].vaddr] = exec[c]
      BY <1>4, <1>10, <3>1, <3>2, <3>3
    <3>5. \A u \in Threads : Aim(u)' = exec[c] => thr'[u].cmd = {c}
      <4> SUFFICES ASSUME NEW u \in Threads, Aim(u)' = exec[c]
                   PROVE  thr'[u].cmd = {c}
        OBVIOUS
      <4>1. u # t
        BY <1>7, <1>10, <3>1
      <4>2. Aim(u) = exec[c]
        BY <1>10, <1>20, <3>1, <3>3
      <4> QED
        BY <1>6, <3>2, <4>1, <4>2
    <3>6. \A e \in cmds : exec'[e] = exec[c] => e = c
      <4> SUFFICES ASSUME NEW e \in cmds, exec'[e] = exec[c]
                   PROVE  e = c
        OBVIOUS
      <4>1. CASE thr[t].cmd = {e}
        <5>1. exec[c] = o /\ o # Whole
          BY <1>13, <1>14, <2>1, <4>1
        <5> QED
          BY <1>21, <2>1, <5>1
      <4>2. CASE thr[t].cmd # {e}
        BY <1>13, <2>1, <3>2, <4>2
      <4> QED
        BY <4>1, <4>2
    <3> QED
      BY <3>1, <3>4, <3>5, <3>6
  <2> QED
    BY <2>2, <2>3
<1> QED
  BY <1>7, <1>16, <1>17, <1>18, <1>19, <1>22, <1>23

LEMMA InsertStep ==
  ASSUME SessionInv, NEW t \in Threads, insert(t)
  PROVE  SessionInv'
<1>1. /\ TableInv /\ SoundInv /\ WholeFound /\ TypeOK /\ ObjsInv /\ EntriesInv /\ CallInv(t)
      /\ thr[t].pc = "insert"
  BY DEF SessionInv, TableInv, insert, At
<1>2. TableInv' /\ SoundInv'
  BY <1>1, InsertTable, InsertSound
<1>3. EmptyAtEnd'
  <2>1. alive'
    BY <1>1 DEF insert, CallInv, At
  <2> QED
    BY <2>1 DEF EmptyAtEnd
<1>4. WholeFound'
  <2> SUFFICES ASSUME MaxWhole <= 1, whole' > 0
               PROVE  memMap'[WholeAddr] = Whole
    BY DEF WholeFound
  <2>1. PICK o : o = thr[t].obj
    OBVIOUS
  <2>2. PICK a : a = objs[o].vaddr
    OBVIOUS
  <2>3. /\ o \in Obj /\ a \in Addrs
        /\ \A e \in Addrs : /\ memMap[e] # 0 => memMap'[e] = memMap[e]
                            /\ memMap'[e] \in {memMap[e], o}
        /\ objs[o].kind # "cmdbuf" => memMap'[a] # 0
    BY <1>1, <2>1, <2>2, Inserts
  <2>4. memMap[WholeAddr] # 0 => memMap[WholeAddr] = Whole
    BY <1>1, TypeFacts DEF EntriesInv, ObjsInv
  <2>5. CASE whole > 0
    BY <1>1, <2>3, <2>5, TypeFacts DEF WholeFound, Whole
  <2>6. CASE o = Whole
    <3>1. a = WholeAddr /\ objs[o].kind # "cmdbuf"
      BY <1>1, <2>2, <2>6 DEF ObjsInv
    <3> QED
      BY <2>3, <2>4, <2>6, <3>1
  <2>7. whole' = IF o = Whole THEN whole + 1 ELSE whole
    BY <2>1 DEF insert
  <2> QED
    BY <2>5, <2>6, <2>7
<1> QED
  BY <1>2, <1>3, <1>4 DEF SessionInv
-----------------------------------------------------------------------------
\* The destructor takes the mappings in E from the driver's count at once.
LEMMA DeviceReleased ==
  ASSUME TypeOK, DeviceInv, NEW E, E \subseteq dva, UNCHANGED objs, dva' = dva \ E,
         pins' = [b \in DOMAIN pins |->
                    pins[b] - Cardinality({o \in E : objs[o].buf = b})],
         \A i \in dva' : i \in fds' \cup refused'
  PROVE  DeviceInv' /\ pins' \in [1 .. MaxObj -> Nat]
<1>1. pins \in [1 .. MaxObj -> Nat] /\ dva \subseteq 1 .. MaxObj
  BY TypeFacts DEF TypeOK
<1>2. ASSUME NEW b \in 1 .. MaxObj
      PROVE  pins'[b] \in Nat /\ pins'[b] = Cardinality({i \in dva' : objs'[i].buf = b})
  <2>1. PICK S : S = {i \in dva : objs[i].buf = b}
    OBVIOUS
  <2>2. PICK D : D = {i \in E : objs[i].buf = b}
    OBVIOUS
  <2>3. IsFiniteSet(S) /\ S \cap D = D
    <3>1. S \subseteq 1 .. MaxObj /\ S \cap D = D
      BY <1>1, <2>1, <2>2
    <3>2. IsFiniteSet(1 .. MaxObj)
      BY SessionAssumption, FS_Interval
    <3> QED
      BY <3>1, <3>2, FS_Subset
  <2>4. {i \in dva' : objs'[i].buf = b} = S \ D
    BY <2>1, <2>2
  <2>9. IsFiniteSet(S \ D) /\ Cardinality(S \ D) = Cardinality(S) - Cardinality(S \cap D)
    BY <2>3, FS_Difference
  <2>5. IsFiniteSet(S \ D) /\ Cardinality(S \ D) = Cardinality(S) - Cardinality(D)
    BY <2>3, <2>9
  <2>6. Cardinality(S \ D) \in Nat
    BY <2>5, FS_CardinalityType
  <2>7. pins[b] = Cardinality(S) /\ pins'[b] = pins[b] - Cardinality(D)
    BY <1>1, <2>1, <2>2 DEF DeviceInv
  <2>8. pins'[b] = Cardinality(S \ D)
    BY <2>5, <2>7
  <2> QED
    BY <2>4, <2>6, <2>8
<1>3. pins' \in [1 .. MaxObj -> Nat]
  <2>1. DOMAIN pins' = 1 .. MaxObj /\ pins' = [b \in 1 .. MaxObj |-> pins'[b]]
    BY <1>1
  <2> QED
    BY <1>2, <2>1
<1> QED
  BY <1>2, <1>3 DEF DeviceInv

LEMMA DeleteInstanceStep ==
  ASSUME SessionInv, deleteInstance
  PROVE  SessionInv'
<1>1. PICK mems : mems = Entries(memMap) \ {Whole}
  OBVIOUS
<1>2. PICK bufs : bufs = Entries(cbMap)
  OBVIOUS
<1>3. PICK kept \in SUBSET mems :
        /\ dva' = dva \ (mems \ kept)
        /\ refused' = refused \cup kept
        /\ pins' = [b \in DOMAIN pins |->
                      pins[b] - Cardinality({o \in mems \ kept : objs[o].buf = b})]
  BY <1>1 DEF deleteInstance
<1>4. /\ alive /\ \A t \in Threads : At(t, "idle")
      /\ cmdList' = {} /\ held' = {} /\ whole' = 0 /\ alive' = FALSE
      /\ fds' = fds \ (mems \cup bufs \cup {Whole})
      /\ space' = [a \in Addrs |->
                     IF a = WholeAddr \/ \E o \in mems \cup bufs : objs[o].vaddr = a
                     THEN 0 ELSE space[a]]
      /\ memMap' = [a \in Addrs |-> 0] /\ cbMap' = [a \in Addrs |-> 0]
      /\ UNCHANGED <<objs, memMtx, listMtx, cmds, exec, unimportFailed, thr>>
  BY <1>1, <1>2 DEF deleteInstance
<1>5. /\ TypeOK /\ ObjsInv /\ EntriesInv /\ SpaceInv /\ DeviceInv /\ WholeInv /\ OneEach
      /\ \A t \in Threads : CallInv(t) /\ thr[t] = Idle
      /\ SoundInv
  BY <1>4 DEF SessionInv, TableInv, CallInv
<1>6. /\ \A o \in mems : o \in Obj \ {Whole} /\ o \in dva
      /\ \A o \in bufs : o \in Obj /\ objs[o].kind = "cmdbuf"
  <2>1. \A t \in Threads : thr[t].pc \notin {"release", "erase"}
    BY <1>4 DEF At
  <2>2. ASSUME NEW o \in mems
        PROVE  o \in Obj \ {Whole} /\ o \in dva
    <3>1. PICK a \in Addrs : o = memMap[a] /\ o \notin {0, Whole}
      BY <1>1, <2>2 DEF Entries
    <3> QED
      BY <1>5, <2>1, <3>1, TypeFacts DEF EntriesInv
  <2>3. ASSUME NEW o \in bufs
        PROVE  o \in Obj /\ objs[o].kind = "cmdbuf"
    <3>1. PICK a \in Addrs : o = cbMap[a] /\ o # 0
      BY <1>2, <2>3 DEF Entries
    <3> QED
      BY <1>5, <3>1, TypeFacts DEF EntriesInv
  <2> QED
    BY <2>2, <2>3
<1>7. \A i \in dva' : i \in fds' \cup refused'
  <2> SUFFICES ASSUME NEW i \in dva', i \notin refused'
               PROVE  i \in fds'
    OBVIOUS
  <2>1. i \in dva /\ i \notin mems /\ i \in fds
    BY <1>3, <1>5 DEF DeviceInv
  <2>2. objs[i].kind \in {"mem", "import"}
    BY <1>5, <2>1 DEF DeviceInv
  <2>3. i \notin bufs /\ i # Whole
    BY <1>5, <1>6, <2>2 DEF ObjsInv
  <2> QED
    BY <1>4, <2>1, <2>3
<1>8. DeviceInv' /\ pins' \in [1 .. MaxObj -> Nat]
  <2>1. PICK E : E = mems \ kept
    OBVIOUS
  <2>2. E \subseteq dva /\ dva' = dva \ E /\ UNCHANGED objs
    BY <1>3, <1>4, <1>6, <2>1
  <2>3. pins' = [b \in DOMAIN pins |-> pins[b] - Cardinality({o \in E : objs[o].buf = b})]
    BY <1>3, <2>1
  <2> QED
    BY <1>5, <1>7, <2>2, <2>3, DeviceReleased
<1>9. TypeOK'
  <2>1. Obj' = Obj /\ Len(objs') = Len(objs) /\ Len(objs) \in Nat
    BY <1>4, <1>5, TypeFacts DEF Obj
  <2>2. fds' \subseteq Obj /\ dva' \subseteq Obj /\ refused' \subseteq Obj
    BY <1>3, <1>4, <1>5, <1>6 DEF TypeOK
  <2>3. /\ space' \in [Addrs -> 0 .. Len(objs)] /\ memMap' \in [Addrs -> 0 .. Len(objs)]
        /\ cbMap' \in [Addrs -> 0 .. Len(objs)]
    <3>1. 0 \in 0 .. Len(objs) /\ space \in [Addrs -> 0 .. Len(objs)]
      BY <1>5, <2>1 DEF TypeOK
    <3> QED
      BY <1>4, <3>1
  <2>4. whole' \in 0 .. MaxWhole
    BY <1>4, SessionAssumption
  <2> QED
    BY <1>4, <1>5, <1>8, <2>1, <2>2, <2>3, <2>4 DEF TypeOK
<1>10. SpaceInv'
  <2> SUFFICES ASSUME NEW a \in Addrs, space'[a] # 0
               PROVE  objs'[space'[a]].vaddr = a /\ space'[a] \in fds'
    BY DEF SpaceInv
  <2>1. /\ space'[a] = space[a] /\ a # WholeAddr
        /\ \A o \in mems \cup bufs : objs[o].vaddr # a
    BY <1>4
  <2>2. objs[space[a]].vaddr = a /\ space[a] \in fds
    BY <1>5, <2>1 DEF SpaceInv
  <2>3. space[a] # Whole /\ space[a] \notin mems \cup bufs
    BY <1>5, <2>1, <2>2 DEF ObjsInv
  <2> QED
    BY <1>4, <2>1, <2>2, <2>3
<1>11. TableInv'
  <2>1. ObjsInv'
    BY <1>4, <1>5, ObjsKept
  <2>2. EntriesInv'
    BY <1>4 DEF EntriesInv
  <2>3. WholeInv'
    <3>1. WholeCalls' = WholeCalls
      BY <1>4 DEF WholeCalls
    <3>2. /\ whole \in Nat /\ MaxWhole \in Nat /\ Cardinality(WholeCalls) \in Nat
          /\ whole + Cardinality(WholeCalls) <= MaxWhole
      BY <1>5, SessionAssumption, FS_CardinalityType DEF TypeOK, WholeInv
    <3>3. 0 + Cardinality(WholeCalls) <= MaxWhole
      BY <3>2
    <3> QED
      BY <1>4, <1>5, <3>1, <3>3 DEF WholeInv
  <2>4. OneEach'
    BY <1>4, <1>5 DEF OneEach, Making
  <2>5. \A t \in Threads : CallInv(t)'
    BY <1>4, <1>5, <1>9, IdleCall, TypeFacts DEF TypeOK
  <2> QED
    BY <1>8, <1>9, <1>10, <2>1, <2>2, <2>3, <2>4, <2>5 DEF TableInv
<1>12. EmptyAtEnd'
  <2> SUFFICES ASSUME ImportsGone'
               PROVE  fds' = {} /\ dva' \subseteq refused' /\ \A a \in Addrs : space'[a] = 0
    BY DEF EmptyAtEnd
  <2>1. ImportsGone
    BY <1>3, <1>4 DEF ImportsGone
  <2>2. ASSUME NEW o \in fds \ {Whole}
        PROVE  o \in mems \cup bufs
    <3>1. Entered(o)
      <4>1. \A t \in Threads : ~Making(t)
        BY <1>4 DEF Making, At
      <4> QED
        BY <1>4, <1>5, <2>1, <4>1 DEF SoundInv, HandlesKept
    <3>2. o \in Obj /\ objs[o].vaddr \in Addrs /\ o # 0
      BY <1>5, TypeFacts DEF TypeOK
    <3> QED
      BY <1>1, <1>2, <3>1, <3>2 DEF Entered, Entries
  <2>3. fds' = {}
    BY <1>4, <2>2
  <2> QED
    BY <1>7, <1>10, <2>3 DEF SpaceInv
<1> QED
  BY <1>4, <1>11, <1>12 DEF SessionInv, SoundInv, WholeFound
-----------------------------------------------------------------------------
LEMMA InitInv == Init => SessionInv
<1> SUFFICES ASSUME Init
             PROVE  SessionInv
  OBVIOUS
<1>1. MaxObj \in Nat \ {0} /\ MaxWhole \in Nat /\ WholeAddr \notin Addr /\ NoThread \notin Threads
  BY SessionAssumption
<1>2. /\ Len(objs) = 1 /\ Obj = {Whole} /\ objs \in Seq(ObjRecord)
      /\ objs[Whole] = [kind |-> "whole", buf |-> Whole, vaddr |-> WholeAddr]
  <2>1. [kind |-> "whole", buf |-> Whole, vaddr |-> WholeAddr] \in ObjRecord
    BY <1>1 DEF ObjRecord, Whole, Addrs
  <2> QED
    BY <2>1 DEF Init, Obj, Whole
<1>3. \A t \in Threads : /\ thr[t] = Idle /\ thr[t].pc = "idle" /\ thr[t].call = "memAlloc"
                         /\ thr[t].obj = 0 /\ thr[t].addr = WholeAddr /\ thr[t].cmd = {}
  BY IdleRecord DEF Init
<1>4. \A t \in Threads : ~Making(t) /\ ~ForWhole(t) /\ Aim(t) = 0
  BY <1>3 DEF Making, ForWhole, Whole, Aim, At
<1>5. TypeOK
  <2>1. thr \in [Threads -> ThreadRecord]
    BY IdleRecord DEF Init
  <2>2. /\ fds \subseteq Obj /\ dva \subseteq Obj /\ held \subseteq Obj /\ refused \subseteq Obj
        /\ Len(objs) \in 1 .. MaxObj /\ whole \in 0 .. MaxWhole
    BY <1>1, <1>2 DEF Init
  <2>3. /\ pins \in [1 .. MaxObj -> Nat] /\ space \in [Addrs -> 0 .. Len(objs)]
        /\ memMap \in [Addrs -> 0 .. Len(objs)] /\ cbMap \in [Addrs -> 0 .. Len(objs)]
        /\ exec \in [Cmds -> 0 .. Len(objs)]
    BY <1>2 DEF Init, Whole
  <2> QED
    BY <1>2, <2>1, <2>2, <2>3 DEF TypeOK, Init
<1>6. ObjsInv /\ EntriesInv /\ SpaceInv
  BY <1>2 DEF Init, ObjsInv, EntriesInv, SpaceInv, Whole
<1>7. DeviceInv
  <2>1. \A b : {o \in dva : objs[o].buf = b} = {}
    BY DEF Init
  <2> QED
    BY <2>1, FS_EmptySet DEF Init, DeviceInv
<1>8. WholeInv
  <2>1. WholeCalls = {}
    BY <1>4 DEF WholeCalls, ForWhole
  <2> QED
    BY <1>1, <2>1, FS_EmptySet DEF WholeInv, Init
<1>9. OneEach /\ \A t \in Threads : CallInv(t)
  BY <1>2, <1>3, <1>4 DEF OneEach, CallInv, At, CmdCalls, Locked
<1>10. SoundInv
  BY <1>2, <1>3, <1>4
  DEF Init, SoundInv, EntriesLive, HandlesKept, AimsApart, AimInv, HeldInv, ExecInv, At, Addrs,
      Placed
<1> QED
  BY <1>5, <1>6, <1>7, <1>8, <1>9, <1>10
  DEF SessionInv, TableInv, EmptyAtEnd, WholeFound, Init

LEMMA StutterInv == SessionInv /\ UNCHANGED vars => SessionInv'
<1> SUFFICES ASSUME SessionInv, UNCHANGED vars
             PROVE  SessionInv'
  OBVIOUS
<1>1. UNCHANGED <<objs, fds, dva, pins, space, memMap, cbMap, memMtx, listMtx, cmdList, cmds,
                  exec, held, whole, refused, unimportFailed, thr, alive>>
  BY DEF vars, memory, maps, commands, callers, driver
<1>2. TypeOK' /\ ObjsInv' /\ EntriesInv' /\ SpaceInv' /\ DeviceInv' /\ WholeInv' /\ OneEach'
  BY <1>1 DEF SessionInv, TableInv, TypeOK, Obj, ObjsInv, EntriesInv, SpaceInv, DeviceInv,
              WholeInv, WholeCalls, OneEach, Making
<1>3. \A t \in Threads : CallInv(t)'
  BY <1>1 DEF SessionInv, TableInv, CallInv, At, Making, Obj, EntryAt
<1>4. SoundInv'
  <2>1. /\ alive' = alive /\ (ImportsGone' <=> ImportsGone) /\ held' = held /\ cmds' = cmds
    BY <1>1 DEF ImportsGone
  <2>2. EntriesLive => EntriesLive'
    BY <1>1 DEF EntriesLive, Live
  <2>3. \A o : Entered(o)' <=> Entered(o)
    BY <1>1 DEF Entered
  <2>4. HandlesKept => HandlesKept'
    BY <1>1, <2>3 DEF HandlesKept, Making
  <2>5. \A t \in Threads : Aim(t)' = Aim(t)
    BY <1>1 DEF Aim, At, EntryAt
  <2>6. AimsApart => AimsApart'
    BY <2>5 DEF AimsApart
  <2>7. \A t \in Threads : AimInv(t) => AimInv(t)'
    BY <1>1, <2>5 DEF AimInv, At, Making, Placed
  <2>8. \A o : HeldInv(o) => HeldInv(o)'
    BY <1>1, <2>3, <2>5 DEF HeldInv
  <2>9. \A c : ExecInv(c) => ExecInv(c)'
    BY <1>1, <2>5 DEF ExecInv
  <2> QED
    BY <2>1, <2>2, <2>4, <2>6, <2>7, <2>8, <2>9 DEF SessionInv, SoundInv
<1>5. EmptyAtEnd' /\ WholeFound'
  BY <1>1 DEF SessionInv, EmptyAtEnd, WholeFound, ImportsGone
<1> QED
  BY <1>2, <1>3, <1>4, <1>5 DEF SessionInv, TableInv

LEMMA StepInv == SessionInv /\ [Next]_vars => SessionInv'
<1> SUFFICES ASSUME SessionInv, Next
             PROVE  SessionInv'
  BY StutterInv
<1>1. ASSUME NEW t \in Threads, Start(t)
      PROVE  SessionInv'
  <2>1. ASSUME NEW a \in Addr, memAlloc(t, a)
        PROVE  SessionInv'
    BY <2>1, MemAllocStep
  <2>2. ASSUME NEW a \in Addr, cmdBufAlloc(t, a)
        PROVE  SessionInv'
    BY <2>2, CmdBufAllocStep
  <2>3. ASSUME NEW a \in Addr, NEW o \in Obj, memImport(t, o, a)
        PROVE  SessionInv'
    BY <2>3, MemImportStep
  <2>4. CASE memAllocWhole(t)
    BY <2>4, MemAllocWholeStep
  <2>5. ASSUME NEW o \in Obj, memFree(t, o) \/ cmdBufFree(t, o) \/ memUnImport(t, o)
        PROVE  SessionInv'
    BY <2>5, MemFreeStep, CmdBufFreeStep, MemUnImportStep
  <2>6. ASSUME NEW c \in Cmds, build(t, c) \/ deleteCmd(t, c)
        PROVE  SessionInv'
    BY <2>6, BuildStep, DeleteCmdStep
  <2> QED
    BY <1>1, <2>1, <2>2, <2>3, <2>4, <2>5, <2>6 DEF Start
<1>2. ASSUME NEW t \in Threads, Acquire(t)
      PROVE  SessionInv'
  BY <1>2, InsertStep, LookupStep DEF Acquire
<1>3. ASSUME NEW t \in Threads, Proceed(t)
      PROVE  SessionInv'
  <2>1. ASSUME NEW a \in Addr, allocExec(t, a)
        PROVE  SessionInv'
    BY <2>1, AllocExecStep
  <2> QED
    BY <1>3, <2>1, MapDeviceVaStep, UnmapDeviceVaStep, ReleaseStep, EraseStep, MunmapStep,
       UnmapImportStep, AllocExecFailsStep, DropStep, ImportMapStep, MapImportStep,
       UndoImportStep, CloseImportStep DEF Proceed
<1>4. ASSUME NEW c \in Cmds, createCmd(c)
      PROVE  SessionInv'
  BY <1>4, CreateCmdStep
<1>5. CASE deleteInstance
  BY <1>5, DeleteInstanceStep
<1>6. CASE Gone
  BY <1>6, StutterInv DEF Gone
<1> QED
  BY <1>1, <1>2, <1>3, <1>4, <1>5, <1>6 DEF Next

\* Both invariants hold in every state of every session.
LEMMA SessionInvariant == Spec => []SessionInv
BY InitInv, StepInv, PTL DEF Spec
-----------------------------------------------------------------------------
\* What a caller has and what a built command has: mapped, found, and open.
AddressesUsable ==
  alive /\ ImportsGone => \A o \in InUse : /\ space[objs[o].vaddr] = o
                                           /\ Resolve(objs[o].vaddr) = o
                                           /\ o \in fds

LEMMA LiveFound ==
  ASSUME TableInv, SoundInv, alive, ImportsGone, NEW o \in Obj \ {Whole}, Entered(o),
         \A t \in Threads : thr[t].pc \in {"erase", "ioctl"} => thr[t].obj # o
  PROVE  space[objs[o].vaddr] = o /\ Resolve(objs[o].vaddr) = o /\ o \in fds
<1>1. PICK v \in Addr : v = objs[o].vaddr
  BY DEF TableInv, ObjsInv
<1>2. v \in Addrs /\ o # 0
  BY <1>1, TypeFacts DEF TableInv
<1>3. Live(o) /\ (memMap[v] = 0 \/ cbMap[v] = 0)
  BY <1>1, <1>2 DEF SoundInv, EntriesLive, Entered
<1>4. space[v] = o
  BY <1>1, <1>3 DEF Live
<1>5. Resolve(v) = o
  BY <1>1, <1>2, <1>3 DEF Entered, Resolve
<1> QED
  BY <1>1, <1>2, <1>4, <1>5 DEF TableInv, SpaceInv

LEMMA SoundAddresses == SessionInv => AddressesUsable
<1> SUFFICES ASSUME SessionInv, alive, ImportsGone, NEW o \in InUse
             PROVE  space[objs[o].vaddr] = o /\ Resolve(objs[o].vaddr) = o /\ o \in fds
  BY DEF AddressesUsable
<1>1. /\ TableInv /\ SoundInv /\ TypeOK /\ ObjsInv /\ EntriesInv
      /\ \A i \in held : HeldInv(i)
      /\ \A c \in cmds : ExecInv(c)
  BY DEF SessionInv, TableInv, SoundInv
<1>2. \A t \in Threads : thr[t].pc \in {"erase", "ioctl"} => Aim(t) = thr[t].obj
  BY DEF Aim, At
<1>3. CASE o \in held
  <2>1. o \in Obj \ {Whole} /\ Entered(o) /\ \A t \in Threads : Aim(t) # o
    BY <1>1, <1>3 DEF HeldInv, TypeOK
  <2> QED
    BY <1>1, <1>2, <2>1, LiveFound
<1>4. ASSUME NEW c \in cmds, exec[c] # 0, ~Busy(c), o = exec[c]
      PROVE  space[objs[o].vaddr] = o /\ Resolve(objs[o].vaddr) = o /\ o \in fds
  <2>1. /\ o \in Obj /\ objs[o].vaddr \in Addrs /\ o # 0
        /\ cbMap[objs[o].vaddr] = o
        /\ \A t \in Threads : Aim(t) = o => thr[t].cmd = {c}
    BY <1>1, <1>4, TypeFacts DEF ExecInv, TypeOK
  <2>2. o # Whole
    BY <1>1, <2>1 DEF EntriesInv, ObjsInv
  <2>3. \A t \in Threads : Aim(t) # o
    BY <1>4, <2>1 DEF Busy
  <2> QED
    BY <1>1, <1>2, <2>1, <2>2, <2>3, LiveFound DEF Entered
<1> QED
  BY <1>3, <1>4 DEF InUse

LEMMA SoundHandles == SessionInv => NothingLost
<1> SUFFICES ASSUME SessionInv
             PROVE  NothingLost
  OBVIOUS
<1>1. TableInv /\ SoundInv /\ EmptyAtEnd /\ TypeOK /\ SpaceInv /\ DeviceInv
  BY DEF SessionInv, TableInv
<1>2. ASSUME alive, ImportsGone, NEW o \in fds \ {Whole}
      PROVE  \/ o \in Entries(memMap) \cup Entries(cbMap)
             \/ \E t \in Threads : thr[t].obj = o
  <2>1. o # 0 /\ objs[o].vaddr \in Addrs
    BY <1>1, TypeFacts DEF TypeOK
  <2>2. Entered(o) \/ \E t \in Threads : Making(t) /\ thr[t].obj = o
    BY <1>1, <1>2 DEF SoundInv, HandlesKept
  <2> QED
    BY <2>1, <2>2 DEF Entered, Entries
<1>3. ASSUME alive, ImportsGone, NEW o \in dva \ refused
      PROVE  o \in Entries(memMap) \/ \E t \in Threads : thr[t].obj = o
  <2>1. o \in fds /\ objs[o].kind \in {"mem", "import"} /\ o # Whole /\ o # 0
    BY <1>1, <1>3, TypeFacts DEF SessionInv, TableInv, DeviceInv, ObjsInv, TypeOK
  <2>2. \A a \in Addrs : cbMap[a] # 0 => objs[cbMap[a]].kind = "cmdbuf"
    BY <1>1 DEF TableInv, EntriesInv
  <2>3. o \notin Entries(cbMap)
    BY <2>1, <2>2 DEF Entries
  <2> QED
    BY <1>2, <1>3, <2>1, <2>3
<1>4. \A a \in Addr : space[a] # 0 => space[a] \in fds
  BY <1>1 DEF SpaceInv, Addrs
<1> QED
  BY <1>1, <1>2, <1>3, <1>4 DEF NothingLost, DeviceInv, EmptyAtEnd

(* The state of a session stays in its types: every entry, exec-info buffer, *)
(* handle and address names an object that was made, and the driver's count  *)
(* of the mappings of a buffer never falls below zero.                       *)
THEOREM TypesSession == Spec => []TypeOK
<1>1. SessionInv => TypeOK
  BY DEF SessionInv, TableInv
<1> QED
  BY <1>1, SessionInvariant, PTL

(* What a caller allocated and did not free, and the exec-info buffer of a   *)
(* command that is not being built, stay mapped, open and found under their  *)
(* address, while other threads free addresses and get them again.           *)
THEOREM AddressesStayUsable == Spec => []AddressesUsable
BY SessionInvariant, SoundAddresses, PTL

(* The same, and an allocation of the whole VLM is found as long as it is    *)
(* not freed, when there is at most one at a time: all of them share one     *)
(* entry of mMemMap, which the first memFree() erases.                       *)
THEOREM HeldStaysUsable == MaxWhole <= 1 => (Spec => []HeldUsable)
<1> SUFFICES ASSUME MaxWhole <= 1
             PROVE  Spec => []HeldUsable
  OBVIOUS
<1>1. SessionInv => HeldUsable
  BY SoundAddresses DEF SessionInv, WholeFound, AddressesUsable, HeldUsable
<1> QED
  BY <1>1, SessionInvariant, PTL

(* No handle, address or device mapping is lost, and deleteInstance() leaves *)
(* nothing but the mappings the driver refused to take back.                 *)
THEOREM NothingLostSession == Spec => []NothingLost
BY SessionInvariant, SoundHandles, PTL

=============================================================================
