-------------------------- MODULE DramMemoryProofs --------------------------
(***************************************************************************)
(* Proofs about DramMemory, for every set of allocators, owners, threads   *)
(* and any number of memory objects.                                       *)
(*                                                                         *)
(* MemoryInv, the inductive invariant, says of each call in progress which *)
(* resources are left for it to take or to give back (CallInv), of each    *)
(* object who can reach it and what it has (ObjectInv), and what the       *)
(* reference count means (CountInv).  Each kernel call of a thread touches *)
(* one object that no other thread has, so a step is checked against that  *)
(* thread and that object alone (OthersKept).                              *)
(***************************************************************************)
EXTENDS DramMemory, FiniteSetTheorems, SequenceTheorems, TLAPS

StepsOf(op)   == Functions[kind][op].steps
IgnoredBy(op) == Functions[kind][op].ignored
Needed(op)    == ToSet(StepsOf(op)) \ IgnoredBy(op)

Working(t) == thr[t].pc \in {"enter", "work", "unwind"}
Nobody(o)  == \A t \in Threads : thr[t].obj # o

-----------------------------------------------------------------------------
ObjRecord == [owner : Owners \cup {NoOwner}, origin : Creating, has : SUBSET Resources,
              entry : BOOLEAN, held : BOOLEAN,
              refused : SUBSET [by : Creating \cup Releasing, of : Resources]]

StateTyped ==
  /\ kind \in Kinds /\ up \subseteq Owners
  /\ refCnt \in Nat /\ ionOpen \in BOOLEAN
  /\ objs \in [Obj -> ObjRecord]
  /\ mtx \in [Owners -> Threads \cup {NoThread}]
  /\ thr \in [Threads -> ThreadRecord]
  /\ harm \subseteq {"caller", "stale"} /\ spoiled \subseteq {"import", "refusal"}

\* What an object may keep for good: refused, or behind a refusal.
GivenUp(q) == Denied(q) \cup Stranded(q)

\* What is left to do is the end of the function's steps.
TodoLeft(steps, todo) ==
  /\ Len(todo) <= Len(steps)
  /\ \A i \in 1 .. Len(todo) : todo[i] = steps[Len(steps) - Len(todo) + i]

Attempted(steps, todo) == {steps[i] : i \in 1 .. Len(steps) - Len(todo)}

\* A call that takes resources has those it needs and has passed, and no other.
Taking(c, o) ==
  /\ c.stage = "none" /\ o.origin = c.op /\ ~o.entry
  /\ c.pc # "unwind" => /\ TodoLeft(StepsOf(c.op), c.todo)
                        /\ o.has \subseteq Attempted(StepsOf(c.op), c.todo)
                        /\ Needed(c.op) \subseteq o.has \cup ToSet(c.todo)
  /\ c.pc = "unwind" => o.has \subseteq ToSet(c.todo) \cup GivenUp(o)

\* A call that gives resources back has before it what the object has, and the
\* object has what the call needs, except for an import freed as an allocation.
Giving(c, o) ==
  /\ c.pc # "unwind"
  /\ c.op = Releases[o.origin] \/ (c.op = "free" /\ "import" \in spoiled)
  /\ TodoLeft(StepsOf(c.op), c.todo)
  /\ o.has \subseteq ToSet(c.todo) \cup GivenUp(o)
  /\ "import" \notin spoiled => ToSet(c.todo) \ IgnoredBy(c.op) \subseteq o.has

\* A destructor is alone with its owner, whose callers have nothing any more.
Destroying(t) ==
  /\ Session
  /\ thr[t].stage = "executor" => thr[t].pc = "loop"
  /\ \A u \in Threads : thr[u].owner = thr[t].owner => u = t
  /\ \A o \in Obj : objs[o].owner = thr[t].owner => ~objs[o].held

\* Which of the residual objects it has freed.
Freed(t) ==
  \A o \in Obj : objs[o].owner = thr[t].owner /\ objs[o].entry =>
    /\ thr[t].stage = "mems" => objs[o].origin # "cmdBufAlloc"
    /\ thr[t].stage # "executor"

CallInv(t) ==
  /\ thr[t].pc = "idle" => thr[t].owner = NoOwner /\ thr[t].stage = "none"
  /\ thr[t].pc # "idle" => thr[t].owner \in up
  /\ thr[t].pc = "loop" => thr[t].stage # "none"
  /\ ~Working(t) => thr[t].obj = 0
  /\ Working(t) => /\ thr[t].obj \in Obj /\ thr[t].op \in DOMAIN Functions[kind]
                   /\ objs[thr[t].obj].owner = thr[t].owner /\ ~objs[thr[t].obj].held
                   /\ thr[t].op \in Creating  => Taking(thr[t], objs[thr[t].obj])
                   /\ thr[t].op \in Releasing => Giving(thr[t], objs[thr[t].obj])
  /\ thr[t].stage # "none" => Destroying(t) /\ (spoiled = {} => Freed(t))

\* Who can reach an object, and what it has then.
ObjectInv(o) ==
  /\ objs[o].owner # NoOwner => objs[o].owner \in up
  /\ objs[o].entry => objs[o].owner # NoOwner
  /\ objs[o].held => objs[o].entry /\ Nobody(o)
  /\ objs[o].origin \in DOMAIN Functions[kind]
  /\ objs[o].has \subseteq ToSet(StepsOf(objs[o].origin))
  /\ objs[o].entry /\ Nobody(o) /\ (objs[o].held \/ objs[o].origin # "import") =>
       Needed(objs[o].origin) \subseteq objs[o].has
  /\ objs[o].owner # NoOwner =>
       objs[o].entry \/ ~Nobody(o) \/ objs[o].has \subseteq GivenUp(objs[o])
  /\ Session /\ spoiled = {} /\ objs[o].owner = NoOwner =>
       objs[o].has \subseteq GivenUp(objs[o])

\* The reference count counts the owners, the first opens the descriptor and
\* the last closes it.
CountInv ==
  /\ IsFiniteSet(up)
  /\ Counts => refCnt = Cardinality(up) /\ ionOpen = (up # {})
  /\ ~Counts => refCnt = 0

OneEach == \A t, u \in Threads : thr[t].obj = thr[u].obj /\ thr[t].obj # 0 => t = u

MemoryInv ==
  /\ StateTyped /\ OneEach /\ CountInv
  /\ \A t \in Threads : CallInv(t)
  /\ \A o \in Obj : ObjectInv(o)
  /\ "import" \notin spoiled => harm = {}
-----------------------------------------------------------------------------
\* What the functions have in common, whatever allocator they belong to.
FunctionTyped(f) ==
  /\ f.steps \in Seq(Resources) /\ f.ignored \subseteq Resources
  /\ \A i, j \in 1 .. Len(f.steps) : f.steps[i] = f.steps[j] => i = j

\* A releasing function gives back what the creating one takes, and needs no
\* more than the creating one is sure to have.
Undoes(g, f) == /\ ToSet(f.steps) \subseteq ToSet(g.steps)
                /\ ToSet(g.steps) \ g.ignored \subseteq ToSet(f.steps) \ f.ignored

LEMMA memAllocSteps == memAlloc = Function(<<"handle", "share", "va", "dev">>, {"dev"})
<1> DEFINE s == <<"handle", "share", "va">> \o <<"dev">>
           u == <<"handle", "share", "va", "dev">>
<1>1. <<"handle", "share", "va">> \in Seq(Resources) /\ <<"dev">> \in Seq(Resources)
  BY DEF Resources
<1>2. s \in Seq(Resources) /\ Len(s) = 4 /\ s[1] = "handle" /\ s[2] = "share"
      /\ s[3] = "va" /\ s[4] = "dev"
  BY <1>1, ConcatProperties
<1>3. u \in Seq(Resources) /\ Len(u) = 4 /\ \A i \in 1 .. 4 : s[i] = u[i]
  BY <1>2 DEF Resources
<1>4. s = u
  <2> HIDE DEF s, u
  <2> QED
    BY <1>2, <1>3, SeqEqual
<1> QED
  BY <1>4 DEF memAlloc, Then, exec1MemAlloc, exec1MapDeviceVa, Function

LEMMA memFreeSteps == memFree = Function(<<"dev", "va", "share", "handle">>, {"dev"})
<1> DEFINE s == <<"dev">> \o <<"va", "share", "handle">>
           u == <<"dev", "va", "share", "handle">>
<1>1. <<"dev">> \in Seq(Resources) /\ <<"va", "share", "handle">> \in Seq(Resources)
  BY DEF Resources
<1>2. s \in Seq(Resources) /\ Len(s) = 4 /\ s[1] = "dev" /\ s[2] = "va"
      /\ s[3] = "share" /\ s[4] = "handle"
  BY <1>1, ConcatProperties
<1>3. u \in Seq(Resources) /\ Len(u) = 4 /\ \A i \in 1 .. 4 : s[i] = u[i]
  BY <1>2 DEF Resources
<1>4. s = u
  <2> HIDE DEF s, u
  <2> QED
    BY <1>2, <1>3, SeqEqual
<1>5. ToSet(<<"dev">>) = {"dev"}
  BY DEF ToSet
<1> QED
  BY <1>4, <1>5
  DEF memFree, Then, PassedOver, exec1UnMapDeviceVa, exec1MemFree, Function

LEMMA FunctionTable ==
  /\ Releases["alloc"] = "free" /\ Releases["import"] = "unimport"
  /\ Releases["cmdBufAlloc"] = "cmdBufFree"
  /\ Creating = {"alloc", "import", "cmdBufAlloc"}
  /\ Releasing = {"free", "unimport", "cmdBufFree"}
BY DEF Releases, Creating, Releasing

\* The functions of each allocator, as they are looked up.
LEMMA ionFunctions ==
  LET f == Functions["ion"]
  IN  /\ DOMAIN f = {"alloc", "free", "import", "unimport"}
      /\ \A op \in DOMAIN f : FunctionTyped(f[op])
      /\ Undoes(f["free"], f["alloc"]) /\ Undoes(f["unimport"], f["import"])
<1> DEFINE f == Functions["ion"]
<1>1. /\ DOMAIN f = {"alloc", "free", "import", "unimport"}
      /\ f["alloc"] = ionAlloc /\ f["free"] = ionFree
      /\ f["import"] = ionImport /\ f["unimport"] = ionUnimport
  BY DEF Functions
<1>2. FunctionTyped(ionAlloc) /\ FunctionTyped(ionFree)
  BY DEF FunctionTyped, ionAlloc, ionFree, Function, Resources
<1>3. FunctionTyped(ionImport) /\ FunctionTyped(ionUnimport)
  BY DEF FunctionTyped, ionImport, ionUnimport, Function, Resources
<1>4. Undoes(ionFree, ionAlloc)
  BY DEF Undoes, ionFree, ionAlloc, Function, ToSet
<1>5. Undoes(ionUnimport, ionImport)
  BY DEF Undoes, ionUnimport, ionImport, Function, ToSet
<1> QED
  BY <1>1, <1>2, <1>3, <1>4, <1>5

LEMMA aospFunctions ==
  LET f == Functions["aosp"]
  IN  /\ DOMAIN f = {"alloc", "free", "import", "unimport"}
      /\ \A op \in DOMAIN f : FunctionTyped(f[op])
      /\ Undoes(f["free"], f["alloc"]) /\ Undoes(f["unimport"], f["import"])
<1> DEFINE f == Functions["aosp"]
<1>1. /\ DOMAIN f = {"alloc", "free", "import", "unimport"}
      /\ f["alloc"] = aospAlloc /\ f["free"] = aospFree
      /\ f["import"] = aospImport /\ f["unimport"] = aospUnimport
  BY DEF Functions
<1>2. FunctionTyped(aospAlloc) /\ FunctionTyped(aospFree)
  BY DEF FunctionTyped, aospAlloc, aospFree, Function, Resources
<1>3. FunctionTyped(aospImport) /\ FunctionTyped(aospUnimport)
  BY DEF FunctionTyped, aospImport, aospUnimport, Function, Resources
<1>4. Undoes(aospFree, aospAlloc)
  BY DEF Undoes, aospFree, aospAlloc, Function, ToSet
<1>5. Undoes(aospUnimport, aospImport)
  BY DEF Undoes, aospUnimport, aospImport, Function, ToSet
<1> QED
  BY <1>1, <1>2, <1>3, <1>4, <1>5

LEMMA dmaVlmFunctions ==
  \A k \in {"dma", "vlm"} :
    LET f == Functions[k]
    IN  /\ DOMAIN f = {"alloc", "free"}
        /\ \A op \in DOMAIN f : FunctionTyped(f[op])
        /\ Undoes(f["free"], f["alloc"])
<1>1. /\ DOMAIN Functions["dma"] = {"alloc", "free"}
      /\ Functions["dma"]["alloc"] = dmaAlloc /\ Functions["dma"]["free"] = dmaFree
  BY DEF Functions
<1>2. /\ DOMAIN Functions["vlm"] = {"alloc", "free"}
      /\ Functions["vlm"]["alloc"] = vlmAlloc /\ Functions["vlm"]["free"] = vlmFree
  BY DEF Functions
<1>3. FunctionTyped(dmaAlloc) /\ FunctionTyped(dmaFree)
  BY DEF FunctionTyped, dmaAlloc, dmaFree, Function, Resources
<1>4. FunctionTyped(vlmAlloc) /\ FunctionTyped(vlmFree)
  BY DEF FunctionTyped, vlmAlloc, vlmFree, Function, Resources
<1>5. Undoes(dmaFree, dmaAlloc) /\ Undoes(vlmFree, vlmAlloc)
  BY DEF Undoes, dmaFree, dmaAlloc, vlmFree, vlmAlloc, Function, ToSet
<1> QED
  BY <1>1, <1>2, <1>3, <1>4, <1>5

\* Also an import can be freed as an allocation.
LEMMA exec1Functions ==
  LET f == Functions["exec1"]
  IN  /\ DOMAIN f = {"alloc", "free", "import", "unimport", "cmdBufAlloc", "cmdBufFree"}
      /\ \A op \in DOMAIN f : FunctionTyped(f[op])
      /\ Undoes(f["free"], f["alloc"]) /\ Undoes(f["unimport"], f["import"])
      /\ Undoes(f["cmdBufFree"], f["cmdBufAlloc"])
      /\ ToSet(f["import"].steps) \subseteq ToSet(f["free"].steps)
<1> DEFINE f == Functions["exec1"]
<1>1. /\ DOMAIN f = {"alloc", "free", "import", "unimport", "cmdBufAlloc", "cmdBufFree"}
      /\ f["alloc"] = memAlloc /\ f["free"] = memFree
      /\ f["import"] = exec1Import /\ f["unimport"] = exec1Unimport
      /\ f["cmdBufAlloc"] = exec1MemAlloc /\ f["cmdBufFree"] = exec1MemFree
  BY DEF Functions, cmdBufAlloc, cmdBufFree
<1>2. FunctionTyped(memAlloc) /\ FunctionTyped(memFree)
  BY memAllocSteps, memFreeSteps DEF FunctionTyped, Function, Resources
<1>3. FunctionTyped(exec1Import) /\ FunctionTyped(exec1Unimport)
  BY DEF FunctionTyped, exec1Import, exec1Unimport, Function, Resources
<1>4. FunctionTyped(exec1MemAlloc) /\ FunctionTyped(exec1MemFree)
  BY DEF FunctionTyped, exec1MemAlloc, exec1MemFree, Function, Resources
<1>5. Undoes(memFree, memAlloc)
  BY memAllocSteps, memFreeSteps DEF Undoes, Function, ToSet
<1>6. Undoes(exec1Unimport, exec1Import) /\ Undoes(exec1MemFree, exec1MemAlloc)
  BY DEF Undoes, exec1Unimport, exec1Import, exec1MemFree, exec1MemAlloc, Function, ToSet
<1>7. ToSet(exec1Import.steps) \subseteq ToSet(memFree.steps)
  BY memFreeSteps DEF exec1Import, Function, ToSet
<1> QED
  BY <1>1, <1>2, <1>3, <1>4, <1>5, <1>6, <1>7

\* What every proof below uses of them.
LEMMA FunctionFacts ==
  ASSUME NEW k \in AllKinds
  PROVE  /\ DOMAIN Functions[k] \subseteq Creating \cup Releasing
         /\ \A op \in DOMAIN Functions[k] : FunctionTyped(Functions[k][op])
         /\ \A op \in DOMAIN Functions[k] \cap Creating :
              /\ Releases[op] \in DOMAIN Functions[k]
              /\ Undoes(Functions[k][Releases[op]], Functions[k][op])
         /\ "alloc" \in DOMAIN Functions[k] /\ "free" \in DOMAIN Functions[k]
         /\ k = "exec1" => ToSet(Functions[k]["import"].steps) \subseteq ToSet(Functions[k]["free"].steps)
<1>1. CASE k = "ion"
  BY <1>1, ionFunctions, FunctionTable
<1>2. CASE k = "aosp"
  BY <1>2, aospFunctions, FunctionTable
<1>3. CASE k \in {"dma", "vlm"}
  BY <1>3, dmaVlmFunctions, FunctionTable
<1>4. CASE k = "exec1"
  BY <1>4, exec1Functions, FunctionTable
<1> QED
  BY <1>1, <1>2, <1>3, <1>4 DEF AllKinds

-----------------------------------------------------------------------------
\* The elements of a sequence, by its positions.
LEMMA ElementsOf ==
  ASSUME NEW s \in Seq(Resources)
  PROVE  ToSet(s) = {s[i] : i \in 1 .. Len(s)} /\ ToSet(s) \subseteq Resources
<1>1. DOMAIN s = 1 .. Len(s)
  BY LenProperties
<1>2. \A i \in 1 .. Len(s) : s[i] \in Resources
  BY ElementOfSeq
<1> QED
  BY <1>1, <1>2 DEF ToSet

\* The first step and the others.
LEMMA HeadAndRest ==
  ASSUME NEW s \in Seq(Resources), s # << >>
  PROVE  /\ Head(s) \in Resources /\ Tail(s) \in Seq(Resources)
         /\ ToSet(s) \subseteq {Head(s)} \cup ToSet(Tail(s))
<1>1. /\ Head(s) \in Resources /\ Tail(s) \in Seq(Resources)
      /\ Len(Tail(s)) = Len(s) - 1 /\ \A i \in 1 .. Len(Tail(s)) : Tail(s)[i] = s[i + 1]
  BY HeadTailProperties
<1>2. PICK n \in Nat \ {0} : n = Len(s)
  BY EmptySeq
<1>3. ToSet(s) = {s[i] : i \in 1 .. n} /\ ToSet(Tail(s)) = {Tail(s)[i] : i \in 1 .. n - 1}
  BY <1>1, <1>2, ElementsOf
<1>4. \A i \in 1 .. n : i = 1 \/ (i - 1 \in 1 .. n - 1 /\ Tail(s)[i - 1] = s[i])
  <2>1. \A i \in 1 .. n : i = 1 \/ (i - 1 \in 1 .. n - 1 /\ (i - 1) + 1 = i)
    OBVIOUS
  <2> QED
    BY <1>1, <1>2, <2>1
<1>5. Head(s) = s[1]
  OBVIOUS
<1>6. ASSUME NEW x \in ToSet(s), x # Head(s)
      PROVE  x \in ToSet(Tail(s))
  <2>1. PICK i \in 1 .. n : x = s[i]
    BY <1>3, <1>6
  <2>2. i - 1 \in 1 .. n - 1 /\ Tail(s)[i - 1] = x
    BY <1>4, <1>5, <1>6, <2>1
  <2> QED
    BY <1>3, <2>2
<1> QED
  BY <1>1, <1>6

\* A call begins with all steps of its function to do.
LEMMA AllLeft ==
  ASSUME NEW steps \in Seq(Resources)
  PROVE  TodoLeft(steps, steps) /\ Attempted(steps, steps) = {}
<1>1. Len(steps) \in Nat
  BY LenProperties
<1> QED
  BY <1>1 DEF TodoLeft, Attempted

\* A call takes the first of the steps left.
LEMMA StepTaken ==
  ASSUME NEW f, FunctionTyped(f), NEW todo \in Seq(Resources), todo # << >>,
         TodoLeft(f.steps, todo)
  PROVE  /\ Head(todo) \in Resources /\ Tail(todo) \in Seq(Resources)
         /\ Head(todo) \in ToSet(f.steps)
         /\ TodoLeft(f.steps, Tail(todo))
         /\ Attempted(f.steps, Tail(todo)) = Attempted(f.steps, todo) \cup {Head(todo)}
         /\ ToSet(todo) = {Head(todo)} \cup ToSet(Tail(todo))
         /\ Head(todo) \notin ToSet(Tail(todo))
<1> DEFINE steps == f.steps
           rest == Tail(todo)
<1>1. steps \in Seq(Resources) /\ \A i, j \in 1 .. Len(steps) : steps[i] = steps[j] => i = j
  BY DEF FunctionTyped
<1>2. /\ Head(todo) \in Resources /\ rest \in Seq(Resources)
      /\ Len(rest) = Len(todo) - 1 /\ \A i \in 1 .. Len(rest) : rest[i] = todo[i + 1]
  BY HeadTailProperties
<1>3. Head(todo) = todo[1]
  OBVIOUS
<1>4. /\ Len(todo) \in Nat \ {0} /\ Len(steps) \in Nat
      /\ Len(todo) <= Len(steps)
      /\ \A i \in 1 .. Len(todo) : todo[i] = steps[Len(steps) - Len(todo) + i]
  BY <1>1, EmptySeq, LenProperties DEF TodoLeft
<1> HIDE DEF steps, rest
<1>5. PICK a \in Nat : a = Len(steps) - Len(todo)
  BY <1>4
<1>6. PICK n \in Nat \ {0} : n = Len(todo)
  BY <1>4
<1>7. /\ Len(rest) = n - 1 /\ Len(steps) = a + n /\ Len(steps) - Len(rest) = a + 1
  BY <1>2, <1>4, <1>5, <1>6
<1>8. /\ \A i \in 1 .. n : todo[i] = steps[a + i]
      /\ \A i \in 1 .. n - 1 : rest[i] = todo[i + 1]
      /\ \A i \in 1 .. n - 1 : rest[i] = steps[a + 1 + i]
  <2>1. \A i \in 1 .. n : todo[i] = steps[a + i]
    BY <1>4, <1>5, <1>6
  <2>2. \A i \in 1 .. n - 1 : rest[i] = todo[i + 1]
    BY <1>2, <1>7
  <2>3. \A i \in 1 .. n - 1 : i + 1 \in 1 .. n /\ a + (i + 1) = a + 1 + i
    OBVIOUS
  <2> QED
    BY <2>1, <2>2, <2>3
<1>9. TodoLeft(steps, rest)
  BY <1>7, <1>8 DEF TodoLeft
<1>10. Attempted(steps, rest) = Attempted(steps, todo) \cup {Head(todo)}
  <2>1. Attempted(steps, rest) = {steps[i] : i \in 1 .. a + 1}
    BY <1>7 DEF Attempted
  <2>2. Attempted(steps, todo) = {steps[i] : i \in 1 .. a}
    BY <1>5 DEF Attempted
  <2>3. Head(todo) = steps[a + 1]
    BY <1>3, <1>8
  <2>4. \A i \in 1 .. a + 1 : i \in 1 .. a \/ i = a + 1
    OBVIOUS
  <2>5. \A i \in 1 .. a : i \in 1 .. a + 1
    OBVIOUS
  <2> QED
    BY <2>1, <2>2, <2>3, <2>4, <2>5
<1>11. ToSet(todo) = {todo[i] : i \in 1 .. n} /\ ToSet(rest) = {rest[i] : i \in 1 .. n - 1}
  BY <1>2, <1>6, <1>7, ElementsOf
<1>12. ToSet(todo) = {Head(todo)} \cup ToSet(rest)
  <2>1. \A i \in 1 .. n : i = 1 \/ i - 1 \in 1 .. n - 1
    OBVIOUS
  <2>2. \A i \in 1 .. n : i = 1 \/ todo[i] = rest[i - 1]
    BY <1>8, <2>1
  <2>3. \A i \in 1 .. n - 1 : i + 1 \in 1 .. n /\ rest[i] = todo[i + 1]
    BY <1>8
  <2>4. ToSet(todo) \subseteq {Head(todo)} \cup ToSet(rest)
    BY <1>3, <1>11, <2>1, <2>2
  <2>5. ToSet(rest) \subseteq ToSet(todo) /\ Head(todo) \in ToSet(todo)
    BY <1>3, <1>11, <2>3
  <2> QED
    BY <2>4, <2>5
<1>13. Head(todo) \notin ToSet(rest)
  <2>1. \A i \in 1 .. n - 1 : rest[i] = steps[a + 1 + i] /\ a + 1 + i \in 1 .. Len(steps)
    BY <1>7, <1>8
  <2>2. Head(todo) = steps[a + 1] /\ a + 1 \in 1 .. Len(steps)
    BY <1>3, <1>7, <1>8
  <2>3. \A i \in 1 .. n - 1 : rest[i] # Head(todo)
    BY <1>1, <2>1, <2>2 DEF steps
  <2> QED
    BY <1>11, <2>3
<1>14. Head(todo) \in ToSet(steps)
  <2>1. Head(todo) = steps[a + 1] /\ a + 1 \in 1 .. Len(steps)
    BY <1>3, <1>7, <1>8
  <2> QED
    BY <1>1, <2>1, ElementsOf DEF steps
<1> QED
  BY <1>2, <1>9, <1>10, <1>12, <1>13, <1>14 DEF steps, rest

\* What a call has not come to is behind the step it is at.
LEMMA RestBehind ==
  ASSUME NEW f, FunctionTyped(f), NEW todo \in Seq(Resources), todo # << >>,
         TodoLeft(f.steps, todo)
  PROVE  ToSet(Tail(todo)) \subseteq Behind(f, Head(todo))
<1> DEFINE steps == f.steps
           rest == Tail(todo)
<1>1. steps \in Seq(Resources) /\ DOMAIN steps = 1 .. Len(steps)
  BY DEF FunctionTyped
<1>2. /\ rest \in Seq(Resources)
      /\ Len(rest) = Len(todo) - 1 /\ \A i \in 1 .. Len(rest) : rest[i] = todo[i + 1]
  BY HeadTailProperties
<1>3. Head(todo) = todo[1]
  OBVIOUS
<1>4. /\ Len(todo) \in Nat \ {0} /\ Len(steps) \in Nat
      /\ Len(todo) <= Len(steps)
      /\ \A i \in 1 .. Len(todo) : todo[i] = steps[Len(steps) - Len(todo) + i]
  BY <1>1, EmptySeq, LenProperties DEF TodoLeft
<1> HIDE DEF steps, rest
<1>5. PICK a \in Nat : a = Len(steps) - Len(todo)
  BY <1>4
<1>6. PICK n \in Nat \ {0} : n = Len(todo)
  BY <1>4
<1>7. Len(rest) = n - 1 /\ Len(steps) = a + n
  BY <1>2, <1>4, <1>5, <1>6
<1>8. \A i \in 1 .. n : todo[i] = steps[a + i]
  BY <1>4, <1>5, <1>6
<1>9. ASSUME NEW x \in ToSet(rest)
      PROVE  x \in Behind(f, Head(todo))
  <2>1. PICK i \in 1 .. n - 1 : x = rest[i]
    BY <1>2, <1>7, ElementsOf
  <2>2. i + 1 \in 1 .. n /\ x = todo[i + 1]
    BY <1>2, <1>7, <2>1
  <2>3. PICK m \in Nat : m = a + (i + 1)
    OBVIOUS
  <2>4. x = steps[m] /\ m \in DOMAIN steps /\ a + 1 \in 1 .. m - 1
    BY <1>1, <1>7, <1>8, <2>2, <2>3
  <2>5. steps[a + 1] = Head(todo)
    BY <1>3, <1>6, <1>8
  <2>6. m \in {k \in DOMAIN steps : \E j \in 1 .. k - 1 : steps[j] = Head(todo)}
    BY <2>4, <2>5
  <2> QED
    BY <2>4, <2>6 DEF Behind, steps
<1> QED
  BY <1>9 DEF rest

\* What may be lost of an object hangs on its refusals alone.
LEMMA SameGivenUp ==
  ASSUME NEW p, NEW q, p.refused = q.refused
  PROVE  GivenUp(p) = GivenUp(q)
BY DEF GivenUp, Denied, Stranded

LEMMA GivenUpKept ==
  ASSUME UNCHANGED kind
  PROVE  \A q : GivenUp(q)' = GivenUp(q)
BY DEF GivenUp, Denied, Stranded

\* One refusal more.
LEMMA RefusedMore ==
  ASSUME NEW p, NEW q, NEW op, NEW r,
         p.refused = q.refused \cup {[by |-> op, of |-> r]}
  PROVE  /\ GivenUp(q) \subseteq GivenUp(p) /\ r \in GivenUp(p)
         /\ op \in Releasing /\ r \notin IgnoredBy(op) =>
              Behind(Functions[kind][op], r) \subseteq GivenUp(p)
<1>1. PICK x : x = [by |-> op, of |-> r]
  OBVIOUS
<1>2. x.by = op /\ x.of = r /\ x \in p.refused /\ q.refused \subseteq p.refused
  BY <1>1
<1>3. Denied(q) \subseteq Denied(p) /\ r \in Denied(p)
  BY <1>2 DEF Denied
<1>4. Stranded(q) \subseteq Stranded(p)
  BY <1>2 DEF Stranded
<1>5. ASSUME op \in Releasing, r \notin IgnoredBy(op)
      PROVE  Behind(Functions[kind][op], r) \subseteq Stranded(p)
  BY <1>2, <1>5 DEF Stranded, IgnoredBy
<1> QED
  BY <1>3, <1>4, <1>5 DEF GivenUp

\* The error path has all resources before it that were attempted.
LEMMA UnwindingFacts ==
  ASSUME NEW f, FunctionTyped(f), NEW todo \in Seq(Resources), TodoLeft(f.steps, todo)
  PROVE  /\ Unwinding(f.steps, todo) \in Seq(Resources)
         /\ ToSet(Unwinding(f.steps, todo)) = Attempted(f.steps, todo)
<1> DEFINE steps == f.steps
<1>1. steps \in Seq(Resources) /\ Len(steps) \in Nat /\ Len(todo) \in Nat /\ Len(todo) <= Len(steps)
  BY LenProperties DEF FunctionTyped, TodoLeft
<1> HIDE DEF steps
<1>2. PICK n \in Nat : n = Len(steps) - Len(todo) /\ n <= Len(steps)
  <2>1. Len(steps) - Len(todo) \in Nat /\ Len(steps) - Len(todo) <= Len(steps)
    BY <1>1
  <2> QED
    BY <2>1
<1> DEFINE taken == SubSeq(steps, 1, n)
<1>3. taken \in Seq(Resources) /\ Len(taken) = n /\ \A i \in 1 .. n : taken[i] = steps[i]
  BY <1>1, <1>2, SubSeqProperties
<1> HIDE DEF taken
<1>4. PICK r : r = [i \in 1 .. n |-> taken[n - i + 1]]
  OBVIOUS
<1>5. Unwinding(steps, todo) = r
  BY <1>2, <1>3, <1>4 DEF Unwinding, Reverse, taken
<1>6. \A i \in 1 .. n : n - i + 1 \in 1 .. n /\ n - (n - i + 1) + 1 = i
  OBVIOUS
<1>7. \A i \in 1 .. n : r[i] = steps[n - i + 1] /\ r[n - i + 1] = steps[i]
  BY <1>3, <1>4, <1>6
<1>8. \A i \in 1 .. n : steps[i] \in Resources
  BY <1>1, <1>2, ElementOfSeq
<1>9. r \in [1 .. n -> Resources]
  BY <1>4, <1>6, <1>7, <1>8
<1>10. r \in Seq(Resources) /\ DOMAIN r = 1 .. n
  BY <1>9
<1>11. ToSet(r) = {r[i] : i \in 1 .. n}
  BY <1>10 DEF ToSet
<1>12. ToSet(r) = {steps[i] : i \in 1 .. n}
  BY <1>6, <1>7, <1>11
<1> QED
  BY <1>2, <1>5, <1>10, <1>12 DEF Attempted, steps

-----------------------------------------------------------------------------
\* The functions of the allocator in use.
LEMMA KnownFunctions ==
  ASSUME StateTyped
  PROVE  /\ kind \in AllKinds
         /\ \A op \in DOMAIN Functions[kind] :
              op \in Creating \cup Releasing /\ FunctionTyped(Functions[kind][op])
BY MemoryAssumption, FunctionFacts DEF StateTyped

\* A step of a thread on one object leaves the other calls, and the other
\* objects, as they were.
LEMMA OthersKept ==
  ASSUME MemoryInv, NEW t \in Threads, NEW o \in 0 .. MaxObj,
         UNCHANGED <<kind, up>>, spoiled \subseteq spoiled',
         \A u \in Threads \ {t} : thr'[u] = thr[u] /\ (o = 0 \/ thr[u].obj # o),
         \A p \in Obj \ {o} : objs'[p] = objs[p],
         thr[t].obj \in {0, o}, thr'[t].obj \in {0, o},
         \A u \in Threads \ {t} : thr[u].stage # "none" =>
           thr'[t].owner # thr[u].owner /\ (o = 0 \/ objs'[o].owner # thr[u].owner)
  PROVE  /\ \A u \in Threads \ {t} : CallInv(u)'
         /\ \A p \in Obj \ {o} : ObjectInv(p)'
         /\ OneEach'
<1>1. 0 \notin Obj
  BY DEF Obj
<1>2. \A c, q : /\ Taking(c, q)' = Taking(c, q)
                /\ Giving(c, q) => Giving(c, q)'
  BY GivenUpKept DEF Taking, Giving, Needed, StepsOf, IgnoredBy
<1>3. \A p \in Obj \ {o} : Nobody(p)' = Nobody(p)
  BY <1>1 DEF Nobody
<1>4. \A u \in Threads \ {t} : CallInv(u)'
  <2>1. TAKE u \in Threads \ {t}
  <2>2. CallInv(u)
    BY DEF MemoryInv
  <2>3. thr'[u] = thr[u] /\ (o = 0 \/ thr[u].obj # o)
    OBVIOUS
  <2>4. Working(u)' = Working(u)
    BY <2>3 DEF Working
  <2>5. Working(u) => objs'[thr[u].obj] = objs[thr[u].obj]
    BY <1>1, <2>2, <2>3 DEF CallInv
  <2>6. thr[u].stage # "none" => Destroying(u)' /\ (spoiled' = {} => Freed(u)')
    <3>1. HAVE thr[u].stage # "none"
    <3>2. Destroying(u) /\ (spoiled = {} => Freed(u))
      BY <2>2, <3>1 DEF CallInv
    <3>3. thr'[t].owner # thr[u].owner /\ (o = 0 \/ objs'[o].owner # thr[u].owner)
      BY <3>1
    <3>4. Destroying(u)'
      BY <1>1, <2>3, <3>2, <3>3 DEF Destroying, Session
    <3>5. spoiled' = {} => Freed(u)'
      BY <1>1, <2>3, <3>2, <3>3 DEF Freed
    <3> QED
      BY <3>4, <3>5
  <2> QED
    BY <1>2, <2>2, <2>3, <2>4, <2>5, <2>6 DEF CallInv
<1>5. \A p \in Obj \ {o} : ObjectInv(p)'
  <2>1. TAKE p \in Obj \ {o}
  <2>2. ObjectInv(p) /\ objs'[p] = objs[p] /\ Nobody(p)' = Nobody(p)
    BY <1>3 DEF MemoryInv
  <2> QED
    BY <2>2, GivenUpKept DEF ObjectInv, Session, Needed, StepsOf, IgnoredBy
<1>6. OneEach'
  BY <1>1 DEF MemoryInv, OneEach
<1> QED
  BY <1>4, <1>5, <1>6

\* The same for a call on its own object.
LEMMA WorkKept ==
  ASSUME MemoryInv, NEW t \in Threads, NEW o \in Obj, Working(t), o = thr[t].obj,
         UNCHANGED <<kind, up>>, spoiled \subseteq spoiled',
         \A u \in Threads \ {t} : thr'[u] = thr[u],
         \A p \in Obj \ {o} : objs'[p] = objs[p],
         thr'[t].obj \in {0, o}, thr'[t].owner \in {thr[t].owner, NoOwner},
         objs'[o].owner \in {thr[t].owner, NoOwner}
  PROVE  /\ \A u \in Threads \ {t} : CallInv(u)'
         /\ \A p \in Obj \ {o} : ObjectInv(p)'
         /\ OneEach'
<1>1. \A u \in Threads \ {t} : thr[u].obj # o
  BY DEF MemoryInv, OneEach, Obj
<1>2. thr[t].owner \in up /\ NoOwner \notin up
  BY MemoryAssumption DEF MemoryInv, CallInv, Working, StateTyped
<1>3. \A u \in Threads \ {t} : thr[u].stage # "none" =>
        thr[t].owner # thr[u].owner /\ NoOwner # thr[u].owner
  <2>1. TAKE u \in Threads \ {t}
  <2>2. HAVE thr[u].stage # "none"
  <2>3. CallInv(u) /\ Destroying(u)
    BY <2>2 DEF MemoryInv, CallInv
  <2>4. thr[u].pc # "idle"
    BY <2>2, <2>3 DEF CallInv
  <2>5. thr[u].owner \in up
    BY <2>3, <2>4 DEF CallInv
  <2> QED
    BY <1>2, <2>3, <2>5 DEF Destroying
<1>4. o \in 0 .. MaxObj
  BY MemoryAssumption DEF Obj
<1> QED
  BY <1>1, <1>3, <1>4, OthersKept

\* Steps that leave the owners alone.
LEMMA CountKept ==
  ASSUME CountInv, UNCHANGED <<kind, up, refCnt, ionOpen>>
  PROVE  CountInv'
BY DEF CountInv, Counts, Session

-----------------------------------------------------------------------------
\* What a thread and an object become.
LEMMA ThreadChanged ==
  ASSUME StateTyped, NEW t \in Threads, NEW c \in ThreadRecord, thr' = [thr EXCEPT ![t] = c]
  PROVE  /\ thr' \in [Threads -> ThreadRecord] /\ thr'[t] = c
         /\ \A u \in Threads \ {t} : thr'[u] = thr[u]
BY DEF StateTyped

LEMMA ObjectChanged ==
  ASSUME StateTyped, NEW o \in Obj, NEW q \in ObjRecord, objs' = [objs EXCEPT ![o] = q]
  PROVE  /\ objs' \in [Obj -> ObjRecord] /\ objs'[o] = q
         /\ \A p \in Obj \ {o} : objs'[p] = objs[p]
BY DEF StateTyped

LEMMA RecordsTyped == Idle \in ThreadRecord /\ Nothing \in ObjRecord
<1>1. << >> \in Seq(Resources)
  OBVIOUS
<1> QED
  BY <1>1, FunctionTable, MemoryAssumption DEF Idle, ThreadRecord, Nothing, ObjRecord

\* A call that is working, its object and its function.
LEMMA WorkingFacts ==
  ASSUME MemoryInv, NEW t \in Threads, Working(t)
  PROVE  /\ thr[t] \in ThreadRecord /\ thr[t].obj \in Obj /\ objs[thr[t].obj] \in ObjRecord
         /\ thr[t].owner \in up /\ thr[t].owner \in Owners
         /\ objs[thr[t].obj].owner = thr[t].owner /\ ~objs[thr[t].obj].held
         /\ thr[t].op \in DOMAIN Functions[kind]
         /\ FunctionTyped(Functions[kind][thr[t].op])
         /\ thr[t].op \in Creating  => Taking(thr[t], objs[thr[t].obj])
         /\ thr[t].op \in Releasing => Giving(thr[t], objs[thr[t].obj])
         /\ thr[t].stage \in {"none", "cmdBufs", "mems"}
         /\ ObjectInv(thr[t].obj) /\ StateTyped
         /\ thr[t].op \in Creating <=> thr[t].op \notin Releasing
<1>1. CallInv(t) /\ StateTyped
  BY DEF MemoryInv
<1>2. thr[t].pc \in {"enter", "work", "unwind"}
  BY DEF Working
<1>3. thr[t] \in ThreadRecord /\ thr[t].obj \in Obj /\ objs[thr[t].obj] \in ObjRecord
  BY <1>1 DEF CallInv, StateTyped
<1>4. thr[t].owner \in up /\ thr[t].owner \in Owners
  BY <1>1, <1>2 DEF CallInv, StateTyped
<1>5. thr[t].stage \in {"none", "cmdBufs", "mems"}
  BY <1>1, <1>2, <1>3 DEF CallInv, Destroying, ThreadRecord
<1>6. thr[t].op \in DOMAIN Functions[kind] /\ FunctionTyped(Functions[kind][thr[t].op])
      /\ thr[t].op \in Creating \cup Releasing
  BY <1>1, KnownFunctions DEF CallInv
<1>7. thr[t].op \in Creating <=> thr[t].op \notin Releasing
  BY <1>6, FunctionTable
<1> QED
  BY <1>1, <1>3, <1>4, <1>5, <1>6, <1>7 DEF MemoryInv, CallInv

\* After the return of a call.
LEMMA LeaveFacts ==
  ASSUME MemoryInv, NEW t \in Threads, Working(t), NEW failed \in BOOLEAN, Leave(t, failed)
  PROVE  /\ thr' \in [Threads -> ThreadRecord] /\ \A u \in Threads \ {t} : thr'[u] = thr[u]
         /\ mtx' \in [Owners -> Threads \cup {NoThread}]
         /\ spoiled \subseteq spoiled' /\ spoiled' \subseteq {"import", "refusal"}
         /\ "import" \in spoiled' => "import" \in spoiled
         /\ thr'[t].obj = 0
         /\ thr[t].stage = "none" => thr'[t] = Idle
         /\ thr[t].stage # "none" =>
              /\ thr'[t].pc = "loop" /\ thr'[t].owner = thr[t].owner
              /\ ~failed => thr'[t].stage = thr[t].stage
              /\ failed => "refusal" \in spoiled' /\ thr'[t].stage \in {"mems", "executor"}
<1>1. /\ thr[t].stage \in {"none", "cmdBufs", "mems"} /\ thr[t].owner \in Owners
      /\ StateTyped
  BY WorkingFacts
<1> DEFINE stage == IF failed THEN AfterFailure[thr[t].stage] ELSE thr[t].stage
           looping == [Idle EXCEPT !.pc = "loop", !.owner = thr[t].owner, !.stage = stage]
           c == IF thr[t].stage = "none" THEN Idle ELSE looping
<1>2. thr[t].stage # "none" =>
        stage \in {"cmdBufs", "mems", "executor"} /\ (failed => stage \in {"mems", "executor"})
  BY <1>1 DEF AfterFailure
<1>3. thr[t].stage # "none" => looping \in ThreadRecord
  BY <1>1, <1>2, RecordsTyped DEF ThreadRecord
<1>4. c \in ThreadRecord
  BY <1>3, RecordsTyped
<1>5. thr' = [thr EXCEPT ![t] = c]
  BY DEF Leave
<1>6. /\ thr' \in [Threads -> ThreadRecord] /\ thr'[t] = c
      /\ \A u \in Threads \ {t} : thr'[u] = thr[u]
  <2> HIDE DEF c
  <2> QED
    BY <1>1, <1>4, <1>5, ThreadChanged
<1>7. /\ looping.pc = "loop" /\ looping.owner = thr[t].owner /\ looping.stage = stage
      /\ looping.obj = 0 /\ Idle.obj = 0
  BY DEF Idle
<1>8. mtx' \in [Owners -> Threads \cup {NoThread}]
  BY <1>1 DEF Leave, StateTyped
<1>9. /\ spoiled \subseteq spoiled' /\ spoiled' \subseteq {"import", "refusal"}
      /\ "import" \in spoiled' => "import" \in spoiled
      /\ failed /\ thr[t].stage # "none" => "refusal" \in spoiled'
  BY <1>1 DEF Leave, StateTyped
<1> HIDE DEF stage, looping
<1> QED
  BY <1>2, <1>6, <1>7, <1>8, <1>9 DEF stage

\* The thread keeps its part of the invariant when its call returns.
LEMMA Left ==
  ASSUME MemoryInv, NEW t \in Threads, Working(t), NEW failed \in BOOLEAN, Leave(t, failed),
         UNCHANGED <<kind, up>>, NEW o \in Obj, o = thr[t].obj,
         \A p \in Obj \ {o} : objs'[p] = objs[p],
         thr[t].stage # "none" => ~objs'[o].held /\ (failed \/ (objs'[o].entry => objs[o].entry)),
         objs'[o].origin = objs[o].origin \/ ~objs'[o].entry
  PROVE  CallInv(t)'
<1>1. CallInv(t) /\ thr[t].owner \in up /\ objs[o].owner = thr[t].owner /\ ~objs[o].held
      /\ thr[t].stage \in {"none", "cmdBufs", "mems"}
  BY WorkingFacts DEF MemoryInv
<1>2. CASE thr[t].stage = "none"
  <2>1. thr'[t] = Idle /\ thr'[t].obj = 0
    BY <1>2, LeaveFacts
  <2>2. thr'[t].pc = "idle" /\ thr'[t].owner = NoOwner /\ thr'[t].stage = "none"
    BY <2>1 DEF Idle
  <2> QED
    BY <2>1, <2>2 DEF CallInv, Working
<1>3. CASE thr[t].stage # "none"
  <2>1. /\ thr'[t].obj = 0 /\ thr'[t].pc = "loop" /\ thr'[t].owner = thr[t].owner
        /\ ~failed => thr'[t].stage = thr[t].stage
        /\ failed => "refusal" \in spoiled' /\ thr'[t].stage \in {"mems", "executor"}
        /\ \A u \in Threads \ {t} : thr'[u] = thr[u]
        /\ spoiled \subseteq spoiled'
    BY <1>3, LeaveFacts
  <2>2. Destroying(t) /\ (spoiled = {} => Freed(t))
    BY <1>1, <1>3 DEF CallInv
  <2>3. Destroying(t)'
    <3>1. \A p \in Obj : objs'[p].owner = thr[t].owner => ~objs'[p].held
      BY <1>3, <2>2 DEF Destroying
    <3> QED
      BY <2>1, <2>2, <3>1 DEF Destroying, Session
  <2>4. spoiled' = {} => Freed(t)'
    <3>1. HAVE spoiled' = {}
    <3>2. ~failed /\ thr'[t].stage = thr[t].stage /\ Freed(t)
      BY <2>1, <2>2, <3>1
    <3>3. objs'[o].entry => objs[o].entry /\ objs'[o].origin = objs[o].origin
      BY <1>3, <3>2
    <3> QED
      BY <1>1, <2>1, <3>2, <3>3 DEF Freed
  <2> QED
    BY <1>1, <1>3, <2>1, <2>3, <2>4 DEF CallInv, Working
<1> QED
  BY <1>2, <1>3

-----------------------------------------------------------------------------
\* What the invariant says of the state without harm, and how a step keeps it.
LEMMA StepKept ==
  ASSUME MemoryInv, NEW t \in Threads, NEW o \in Obj, Working(t), o = thr[t].obj,
         StateTyped', UNCHANGED <<kind, up, refCnt, ionOpen>>, spoiled \subseteq spoiled',
         \A u \in Threads \ {t} : thr'[u] = thr[u],
         \A p \in Obj \ {o} : objs'[p] = objs[p],
         thr'[t].obj \in {0, o}, thr'[t].owner \in {thr[t].owner, NoOwner},
         objs'[o].owner \in {thr[t].owner, NoOwner},
         CallInv(t)', ObjectInv(o)',
         "import" \notin spoiled' => harm' = {}
  PROVE  MemoryInv'
<1>1. /\ \A u \in Threads \ {t} : CallInv(u)'
      /\ \A p \in Obj \ {o} : ObjectInv(p)'
      /\ OneEach'
  BY WorkKept
<1>2. CountInv'
  BY CountKept DEF MemoryInv
<1> QED
  BY <1>1, <1>2 DEF MemoryInv

\* A call that goes on with its object.
LEMMA WorksOn ==
  ASSUME MemoryInv, NEW t \in Threads, NEW o \in Obj, Working(t), o = thr[t].obj,
         NEW q \in ObjRecord, NEW d \in ThreadRecord,
         objs' = [objs EXCEPT ![o] = q], thr' = [thr EXCEPT ![t] = d],
         UNCHANGED <<kind, up, refCnt, ionOpen, spoiled>>,
         mtx' \in [Owners -> Threads \cup {NoThread}],
         harm' \subseteq {"caller", "stale"}, "import" \notin spoiled => harm' = {},
         q.owner = objs[o].owner, q.origin = objs[o].origin, ~q.held,
         q.entry => objs[o].entry, q.has \subseteq ToSet(StepsOf(q.origin)),
         d.pc \in {"work", "unwind"}, d.op = thr[t].op, d.owner = thr[t].owner, d.obj = o,
         d.stage = thr[t].stage,
         d.op \in Creating  => Taking(d, q),
         d.op \in Releasing => Giving(d, q)
  PROVE  MemoryInv'
<1>1. /\ thr[t].owner \in up /\ thr[t].owner \in Owners /\ objs[o].owner = thr[t].owner
      /\ StateTyped /\ ObjectInv(o) /\ CallInv(t) /\ thr[t].op \in DOMAIN Functions[kind]
      /\ thr[t].stage \in {"none", "cmdBufs", "mems"}
  BY WorkingFacts DEF MemoryInv
<1>2. /\ objs' \in [Obj -> ObjRecord] /\ objs'[o] = q /\ \A p \in Obj \ {o} : objs'[p] = objs[p]
      /\ thr' \in [Threads -> ThreadRecord] /\ thr'[t] = d
      /\ \A u \in Threads \ {t} : thr'[u] = thr[u]
  BY <1>1, ThreadChanged, ObjectChanged
<1>3. StateTyped'
  BY <1>1, <1>2 DEF StateTyped
<1>4. CallInv(t)'
  <2>1. Taking(d, q)' = Taking(d, q) /\ Giving(d, q)' = Giving(d, q)
    BY GivenUpKept DEF Taking, Giving, Needed, StepsOf, IgnoredBy
  <2>2. thr[t].stage # "none" => Destroying(t)' /\ (spoiled' = {} => Freed(t)')
    <3>1. HAVE thr[t].stage # "none"
    <3>2. Destroying(t) /\ (spoiled = {} => Freed(t)) /\ thr[t].stage # "executor"
      BY <1>1, <3>1 DEF CallInv
    <3>3. Destroying(t)'
      BY <1>1, <1>2, <3>2 DEF Destroying, Session
    <3>4. spoiled = {} => Freed(t)'
      BY <1>1, <1>2, <3>2 DEF Freed
    <3> QED
      BY <3>3, <3>4
  <2>3. Working(t)' /\ thr'[t].pc # "idle" /\ thr'[t].pc # "loop"
    BY <1>2 DEF Working
  <2> QED
    BY <1>1, <1>2, <2>1, <2>2, <2>3 DEF CallInv
<1>5. ObjectInv(o)'
  <2>1. ~Nobody(o)'
    BY <1>2 DEF Nobody
  <2>2. q.owner # NoOwner
    BY <1>1, MemoryAssumption
  <2>3. ToSet(StepsOf(q.origin))' = ToSet(StepsOf(q.origin))
    BY DEF StepsOf
  <2> QED
    BY <1>1, <1>2, <2>1, <2>2, <2>3 DEF ObjectInv
<1> QED
  BY <1>1, <1>2, <1>3, <1>4, <1>5, StepKept

LEMMA EnterKept ==
  ASSUME MemoryInv, NEW t \in Threads, Enter(t)
  PROVE  MemoryInv'
<1> DEFINE c == thr[t]
           o == thr[t].obj
<1>1. Working(t) /\ c.pc = "enter"
  BY DEF Enter, At, Working
<1>2. /\ c \in ThreadRecord /\ o \in Obj /\ objs[o] \in ObjRecord
      /\ c.owner \in up /\ c.owner \in Owners /\ objs[o].owner = c.owner /\ ~objs[o].held
      /\ StateTyped /\ ObjectInv(o)
      /\ c.op \in Creating  => Taking(c, objs[o])
      /\ c.op \in Releasing => Giving(c, objs[o])
  BY <1>1, WorkingFacts
<1>3. PICK q \in ObjRecord :
        q = [objs[o] EXCEPT !.entry = objs[o].entry /\ (Session \/ c.op \in Creating)]
  <2>1. (objs[o].entry /\ (Session \/ c.op \in Creating)) \in BOOLEAN
    OBVIOUS
  <2> QED
    BY <1>2, <2>1 DEF ObjRecord
<1>4. PICK d \in ThreadRecord : d = [c EXCEPT !.pc = "work"]
  BY <1>2 DEF ThreadRecord
<1>5. /\ q.owner = objs[o].owner /\ q.origin = objs[o].origin /\ q.has = objs[o].has
      /\ q.held = objs[o].held /\ GivenUp(q) = GivenUp(objs[o])
      /\ q.entry => objs[o].entry
  BY <1>2, <1>3, SameGivenUp DEF ObjRecord
<1>6. /\ d.pc = "work" /\ d.op = c.op /\ d.owner = c.owner /\ d.obj = o /\ d.todo = c.todo
      /\ d.stage = c.stage
  BY <1>2, <1>4 DEF ThreadRecord
<1>7. /\ objs' = [objs EXCEPT ![o] = q] /\ thr' = [thr EXCEPT ![t] = d]
      /\ UNCHANGED <<kind, up, refCnt, ionOpen, harm, spoiled>>
      /\ mtx' \in [Owners -> Threads \cup {NoThread}]
  BY <1>2, <1>3, <1>4 DEF Enter, StateTyped
<1>8. d.op \in Creating => Taking(d, q)
  BY <1>1, <1>2, <1>5, <1>6 DEF Taking
<1>9. d.op \in Releasing => Giving(d, q)
  BY <1>1, <1>2, <1>5, <1>6 DEF Giving
<1>10. q.has \subseteq ToSet(StepsOf(q.origin))
  BY <1>2, <1>5 DEF ObjectInv
<1>11. harm' \subseteq {"caller", "stale"} /\ ("import" \notin spoiled => harm' = {})
  BY <1>7 DEF MemoryInv, StateTyped
<1> QED
  BY <1>1, <1>2, <1>5, <1>6, <1>7, <1>8, <1>9, <1>10, <1>11, WorksOn

LEMMA AcquireKept ==
  ASSUME MemoryInv, NEW t \in Threads, Acquire(t)
  PROVE  MemoryInv'
<1> DEFINE c == thr[t]
           o == thr[t].obj
<1>1. Working(t) /\ c.pc = "work" /\ c.op \in Creating /\ c.todo # << >>
  BY DEF Acquire, At, Working
<1>2. /\ c \in ThreadRecord /\ o \in Obj /\ objs[o] \in ObjRecord
      /\ objs[o].owner = c.owner /\ ~objs[o].held
      /\ StateTyped /\ ObjectInv(o) /\ c.op \notin Releasing
      /\ FunctionTyped(Functions[kind][c.op])
      /\ Taking(c, objs[o])
  BY <1>1, WorkingFacts
<1>3. /\ c.todo \in Seq(Resources) /\ TodoLeft(StepsOf(c.op), c.todo)
      /\ objs[o].has \subseteq Attempted(StepsOf(c.op), c.todo)
      /\ Needed(c.op) \subseteq objs[o].has \cup ToSet(c.todo)
      /\ objs[o].origin = c.op
  BY <1>1, <1>2 DEF Taking, ThreadRecord
<1>4. /\ Head(c.todo) \in Resources /\ Tail(c.todo) \in Seq(Resources)
      /\ Head(c.todo) \in ToSet(StepsOf(c.op))
      /\ TodoLeft(StepsOf(c.op), Tail(c.todo))
      /\ Attempted(StepsOf(c.op), Tail(c.todo)) =
           Attempted(StepsOf(c.op), c.todo) \cup {Head(c.todo)}
      /\ ToSet(c.todo) = {Head(c.todo)} \cup ToSet(Tail(c.todo))
  <2>1. FunctionTyped(Functions[kind][c.op]) /\ c.todo # <<>> /\ c.todo \in Seq(Resources)
    BY <1>1, <1>2, <1>3
  <2>2. TodoLeft(Functions[kind][c.op].steps, c.todo)
    BY <1>3 DEF StepsOf
  <2> HIDE DEF c
  <2> QED
    BY <2>1, <2>2, StepTaken DEF StepsOf
<1>5. PICK q \in ObjRecord : q = [objs[o] EXCEPT !.has = objs[o].has \cup {Head(c.todo)}]
  BY <1>2, <1>4 DEF ObjRecord
<1>6. PICK d \in ThreadRecord : d = [c EXCEPT !.todo = Tail(c.todo)]
  BY <1>2, <1>4 DEF ThreadRecord
<1>7. /\ q.owner = objs[o].owner /\ q.origin = objs[o].origin
      /\ q.has = objs[o].has \cup {Head(c.todo)}
      /\ q.held = objs[o].held /\ GivenUp(q) = GivenUp(objs[o]) /\ q.entry = objs[o].entry
  BY <1>2, <1>5, SameGivenUp DEF ObjRecord
<1>8. /\ d.pc = "work" /\ d.op = c.op /\ d.owner = c.owner /\ d.obj = o /\ d.todo = Tail(c.todo)
      /\ d.stage = c.stage
  BY <1>1, <1>2, <1>6 DEF ThreadRecord
<1>9. /\ objs' = [objs EXCEPT ![o] = q] /\ thr' = [thr EXCEPT ![t] = d]
      /\ UNCHANGED <<kind, up, refCnt, ionOpen, mtx, harm, spoiled>>
  BY <1>2, <1>5, <1>6 DEF Acquire, StateTyped
<1>10. Taking(d, q)
  BY <1>1, <1>2, <1>3, <1>4, <1>7, <1>8 DEF Taking
<1>11. q.has \subseteq ToSet(StepsOf(q.origin))
  BY <1>2, <1>3, <1>4, <1>7 DEF ObjectInv
<1>12. /\ mtx' \in [Owners -> Threads \cup {NoThread}]
       /\ harm' \subseteq {"caller", "stale"} /\ ("import" \notin spoiled => harm' = {})
  BY <1>9 DEF MemoryInv, StateTyped
<1> QED
  BY <1>1, <1>2, <1>7, <1>8, <1>9, <1>10, <1>11, <1>12, WorksOn

LEMMA AcquireFailsKept ==
  ASSUME MemoryInv, NEW t \in Threads, AcquireFails(t)
  PROVE  MemoryInv'
<1> DEFINE c == thr[t]
           o == thr[t].obj
<1>1. Working(t) /\ c.pc = "work" /\ c.op \in Creating /\ c.todo # << >>
  BY DEF AcquireFails, At, Working
<1>2. /\ c \in ThreadRecord /\ o \in Obj /\ objs[o] \in ObjRecord
      /\ objs[o].owner = c.owner /\ ~objs[o].held
      /\ StateTyped /\ ObjectInv(o) /\ c.op \notin Releasing
      /\ FunctionTyped(Functions[kind][c.op])
      /\ Taking(c, objs[o])
  BY <1>1, WorkingFacts
<1>3. /\ c.todo \in Seq(Resources) /\ TodoLeft(StepsOf(c.op), c.todo)
      /\ objs[o].has \subseteq Attempted(StepsOf(c.op), c.todo)
      /\ Needed(c.op) \subseteq objs[o].has \cup ToSet(c.todo)
      /\ objs[o].origin = c.op
  BY <1>1, <1>2 DEF Taking, ThreadRecord
<1>4. /\ Tail(c.todo) \in Seq(Resources)
      /\ TodoLeft(StepsOf(c.op), Tail(c.todo))
      /\ Attempted(StepsOf(c.op), Tail(c.todo)) =
           Attempted(StepsOf(c.op), c.todo) \cup {Head(c.todo)}
      /\ ToSet(c.todo) = {Head(c.todo)} \cup ToSet(Tail(c.todo))
  <2>1. FunctionTyped(Functions[kind][c.op]) /\ c.todo # <<>> /\ c.todo \in Seq(Resources)
    BY <1>1, <1>2, <1>3
  <2>2. TodoLeft(Functions[kind][c.op].steps, c.todo)
    BY <1>3 DEF StepsOf
  <2> HIDE DEF c
  <2> QED
    BY <2>1, <2>2, StepTaken DEF StepsOf
<1>5. /\ Unwinding(StepsOf(c.op), c.todo) \in Seq(Resources)
      /\ ToSet(Unwinding(StepsOf(c.op), c.todo)) = Attempted(StepsOf(c.op), c.todo)
  BY <1>2, <1>3, UnwindingFacts DEF StepsOf
<1>6. PICK d \in ThreadRecord :
        d = IF Head(c.todo) \in IgnoredBy(c.op)
            THEN [c EXCEPT !.todo = Tail(c.todo)]
            ELSE [c EXCEPT !.pc = "unwind", !.todo = Unwinding(StepsOf(c.op), c.todo)]
  BY <1>2, <1>4, <1>5 DEF ThreadRecord
<1>7. /\ d.op = c.op /\ d.owner = c.owner /\ d.obj = o /\ d.stage = c.stage
      /\ \/ Head(c.todo) \in IgnoredBy(c.op) /\ d.pc = "work" /\ d.todo = Tail(c.todo)
         \/ d.pc = "unwind" /\ d.todo = Unwinding(StepsOf(c.op), c.todo)
  <2>1. CASE Head(c.todo) \in IgnoredBy(c.op)
    BY <1>1, <1>2, <1>6, <2>1 DEF ThreadRecord
  <2>2. CASE Head(c.todo) \notin IgnoredBy(c.op)
    BY <1>1, <1>2, <1>6, <2>2 DEF ThreadRecord
  <2> QED
    BY <2>1, <2>2
<1>8. objs' = [objs EXCEPT ![o] = objs[o]] /\ thr' = [thr EXCEPT ![t] = d]
      /\ UNCHANGED <<kind, up, refCnt, ionOpen, mtx, harm, spoiled>>
  <2>1. UNCHANGED <<kind, up, refCnt, ionOpen, objs, mtx, harm, spoiled>>
    BY DEF AcquireFails
  <2>2. thr' = IF Head(c.todo) \in IgnoredBy(c.op)
               THEN [thr EXCEPT ![t].todo = Tail(c.todo)]
               ELSE [thr EXCEPT ![t].pc = "unwind",
                                ![t].todo = Unwinding(StepsOf(c.op), c.todo)]
    BY DEF AcquireFails, This, StepsOf, IgnoredBy
  <2>3. thr' = [thr EXCEPT ![t] = d]
    <3>1. CASE Head(c.todo) \in IgnoredBy(c.op)
      BY <1>2, <1>6, <2>2, <3>1 DEF StateTyped
    <3>2. CASE Head(c.todo) \notin IgnoredBy(c.op)
      BY <1>2, <1>6, <2>2, <3>2 DEF StateTyped
    <3> QED
      BY <3>1, <3>2
  <2> QED
    BY <1>2, <2>1, <2>3 DEF StateTyped
<1>9. Taking(d, objs[o])
  <2>1. CASE Head(c.todo) \in IgnoredBy(c.op) /\ d.pc = "work" /\ d.todo = Tail(c.todo)
    <3>1. Needed(c.op) \subseteq objs[o].has \cup ToSet(Tail(c.todo))
      BY <1>3, <1>4, <2>1 DEF Needed
    <3> QED
      BY <1>2, <1>3, <1>4, <1>7, <2>1, <3>1 DEF Taking
  <2>2. CASE d.pc = "unwind" /\ d.todo = Unwinding(StepsOf(c.op), c.todo)
    BY <1>2, <1>3, <1>5, <1>7, <2>2 DEF Taking
  <2> QED
    BY <1>7, <2>1, <2>2
<1>10. /\ mtx' \in [Owners -> Threads \cup {NoThread}]
       /\ harm' \subseteq {"caller", "stale"} /\ ("import" \notin spoiled => harm' = {})
       /\ objs[o].has \subseteq ToSet(StepsOf(objs[o].origin))
  BY <1>2, <1>8 DEF MemoryInv, StateTyped, ObjectInv
<1> QED
  BY <1>1, <1>2, <1>7, <1>8, <1>9, <1>10, WorksOn

LEMMA UnwindKept ==
  ASSUME MemoryInv, NEW t \in Threads, Unwind(t)
  PROVE  MemoryInv'
<1> DEFINE c == thr[t]
           o == thr[t].obj
<1>1. Working(t) /\ c.pc = "unwind" /\ c.todo # << >>
  BY DEF Unwind, At, Working
<1>2. /\ c \in ThreadRecord /\ o \in Obj /\ objs[o] \in ObjRecord
      /\ objs[o].owner = c.owner /\ ~objs[o].held /\ StateTyped /\ ObjectInv(o)
      /\ c.op \in Creating  => Taking(c, objs[o])
      /\ c.op \in Releasing => Giving(c, objs[o])
      /\ c.op \in Creating <=> c.op \notin Releasing
  BY <1>1, WorkingFacts
<1>3. /\ c.op \in Creating /\ c.op \notin Releasing /\ Taking(c, objs[o])
      /\ c.todo \in Seq(Resources)
  BY <1>1, <1>2 DEF Giving, ThreadRecord
<1>4. /\ Head(c.todo) \in Resources /\ Tail(c.todo) \in Seq(Resources)
      /\ ToSet(c.todo) \subseteq {Head(c.todo)} \cup ToSet(Tail(c.todo))
  BY <1>1, <1>3, HeadAndRest
<1>5. PICK q \in ObjRecord :
        /\ \/ q = [objs[o] EXCEPT !.has = objs[o].has \ {Head(c.todo)}]
           \/ q = [objs[o] EXCEPT !.refused = objs[o].refused \cup {Refusal(t)}]
        /\ objs' = [objs EXCEPT ![o] = q]
  <2>1. CASE objs' = [objs EXCEPT ![o].has = @ \ {Head(c.todo)}]
    <3>1. [objs[o] EXCEPT !.has = objs[o].has \ {Head(c.todo)}] \in ObjRecord
      BY <1>2 DEF ObjRecord
    <3> QED
      BY <1>2, <2>1, <3>1 DEF StateTyped
  <2>2. CASE objs' = [objs EXCEPT ![o].refused = @ \cup {Refusal(t)}]
    <3>1. [objs[o] EXCEPT !.refused = objs[o].refused \cup {Refusal(t)}] \in ObjRecord
      BY <1>2, <1>3, <1>4 DEF ObjRecord, Refusal
    <3> QED
      BY <1>2, <2>2, <3>1 DEF StateTyped
  <2> QED
    BY <2>1, <2>2 DEF Unwind
<1>6. PICK d \in ThreadRecord : d = [c EXCEPT !.todo = Tail(c.todo)]
  BY <1>2, <1>4 DEF ThreadRecord
<1>7. /\ q.owner = objs[o].owner /\ q.origin = objs[o].origin /\ q.has \subseteq objs[o].has
      /\ q.held = objs[o].held /\ q.entry = objs[o].entry
      /\ q.has \subseteq ToSet(Tail(c.todo)) \cup GivenUp(q)
  <2>1. objs[o].has \subseteq {Head(c.todo)} \cup ToSet(Tail(c.todo)) \cup GivenUp(objs[o])
    BY <1>1, <1>3, <1>4 DEF Taking
  <2>2. CASE q = [objs[o] EXCEPT !.has = objs[o].has \ {Head(c.todo)}]
    <3>1. /\ q.owner = objs[o].owner /\ q.origin = objs[o].origin
          /\ q.has = objs[o].has \ {Head(c.todo)}
          /\ q.held = objs[o].held /\ q.entry = objs[o].entry /\ q.refused = objs[o].refused
      BY <1>2, <2>2 DEF ObjRecord
    <3>2. GivenUp(q) = GivenUp(objs[o])
      BY <3>1, SameGivenUp
    <3> QED
      BY <2>1, <3>1, <3>2
  <2>3. CASE q = [objs[o] EXCEPT !.refused = objs[o].refused \cup {Refusal(t)}]
    <3>1. /\ q.owner = objs[o].owner /\ q.origin = objs[o].origin /\ q.has = objs[o].has
          /\ q.held = objs[o].held /\ q.entry = objs[o].entry
          /\ q.refused = objs[o].refused \cup {Refusal(t)}
      BY <1>2, <2>3 DEF ObjRecord
    <3>2. GivenUp(objs[o]) \subseteq GivenUp(q) /\ Head(c.todo) \in GivenUp(q)
      BY <3>1, RefusedMore DEF Refusal
    <3> QED
      BY <2>1, <3>1, <3>2
  <2> QED
    BY <1>5, <2>2, <2>3
<1>8. /\ d.pc = "unwind" /\ d.op = c.op /\ d.owner = c.owner /\ d.obj = o
      /\ d.todo = Tail(c.todo) /\ d.stage = c.stage
  BY <1>1, <1>2, <1>6 DEF ThreadRecord
<1>9. /\ thr' = [thr EXCEPT ![t] = d]
      /\ UNCHANGED <<kind, up, refCnt, ionOpen, mtx, harm, spoiled>>
  BY <1>2, <1>6 DEF Unwind, StateTyped
<1>10. Taking(d, q)
  BY <1>1, <1>3, <1>4, <1>7, <1>8 DEF Taking
<1>11. q.has \subseteq ToSet(StepsOf(q.origin))
  BY <1>2, <1>7 DEF ObjectInv
<1>12. /\ mtx' \in [Owners -> Threads \cup {NoThread}]
       /\ harm' \subseteq {"caller", "stale"} /\ ("import" \notin spoiled => harm' = {})
  BY <1>9 DEF MemoryInv, StateTyped
<1> QED
  BY <1>1, <1>2, <1>3, <1>5, <1>7, <1>8, <1>9, <1>10, <1>11, <1>12, WorksOn

LEMMA ReleaseKept ==
  ASSUME MemoryInv, NEW t \in Threads, Release(t)
  PROVE  MemoryInv'
<1> DEFINE c == thr[t]
           o == thr[t].obj
           r == Head(c.todo)
<1>1. Working(t) /\ c.pc = "work" /\ c.op \in Releasing /\ c.todo # << >>
  BY DEF Release, At, Working
<1>2. /\ c \in ThreadRecord /\ o \in Obj /\ objs[o] \in ObjRecord
      /\ objs[o].owner = c.owner /\ ~objs[o].held
      /\ StateTyped /\ ObjectInv(o) /\ c.op \notin Creating
      /\ FunctionTyped(Functions[kind][c.op])
      /\ Giving(c, objs[o])
  BY <1>1, WorkingFacts
<1>3. c.todo \in Seq(Resources) /\ TodoLeft(StepsOf(c.op), c.todo)
  BY <1>2 DEF Giving, ThreadRecord
<1>4. /\ r \in Resources /\ Tail(c.todo) \in Seq(Resources)
      /\ TodoLeft(StepsOf(c.op), Tail(c.todo))
      /\ ToSet(c.todo) = {r} \cup ToSet(Tail(c.todo)) /\ r \notin ToSet(Tail(c.todo))
  BY <1>1, <1>2, <1>3, StepTaken DEF StepsOf
<1>5. PICK q \in ObjRecord : q = [objs[o] EXCEPT !.has = objs[o].has \ {r}]
  BY <1>2 DEF ObjRecord
<1>6. PICK d \in ThreadRecord : d = [c EXCEPT !.todo = Tail(c.todo)]
  BY <1>2, <1>4 DEF ThreadRecord
<1>7. /\ q.owner = objs[o].owner /\ q.origin = objs[o].origin /\ q.has = objs[o].has \ {r}
      /\ q.held = objs[o].held /\ GivenUp(q) = GivenUp(objs[o]) /\ q.entry = objs[o].entry
  BY <1>2, <1>5, SameGivenUp DEF ObjRecord
<1>8. /\ d.pc = "work" /\ d.op = c.op /\ d.owner = c.owner /\ d.obj = o /\ d.todo = Tail(c.todo)
      /\ d.stage = c.stage
  BY <1>1, <1>2, <1>6 DEF ThreadRecord
<1>9. /\ objs' = [objs EXCEPT ![o] = q] /\ thr' = [thr EXCEPT ![t] = d]
      /\ UNCHANGED <<kind, up, refCnt, ionOpen, mtx, spoiled>>
  BY <1>2, <1>5, <1>6 DEF Release, StateTyped
<1>10. Giving(d, q)
  BY <1>2, <1>4, <1>7, <1>8 DEF Giving
<1>11. q.has \subseteq ToSet(StepsOf(q.origin))
  BY <1>2, <1>7 DEF ObjectInv
<1>12. /\ mtx' \in [Owners -> Threads \cup {NoThread}]
       /\ harm' \subseteq {"caller", "stale"}
  BY <1>2, <1>9 DEF Release, StateTyped
<1>13. "import" \notin spoiled => harm' = {}
  <2>1. HAVE "import" \notin spoiled
  <2>2. r \in objs[o].has \/ r \in IgnoredBy(c.op)
    BY <1>2, <1>4, <2>1 DEF Giving
  <2>3. harm' = harm
    BY <2>2 DEF Release, This, IgnoredBy
  <2> QED
    BY <2>1, <2>3 DEF MemoryInv
<1> QED
  BY <1>1, <1>2, <1>7, <1>8, <1>9, <1>10, <1>11, <1>12, <1>13, WorksOn

\* A call that ends, with what it leaves of its object.
LEMMA WorkEnds ==
  ASSUME MemoryInv, NEW t \in Threads, NEW o \in Obj, Working(t), o = thr[t].obj,
         NEW failed \in BOOLEAN, Leave(t, failed), UNCHANGED <<kind, up, refCnt, ionOpen, harm>>,
         NEW q \in ObjRecord, objs' = [objs EXCEPT ![o] = q],
         q.owner = objs[o].owner \/ (q.owner = NoOwner /\ ~q.entry /\ q.has = {}),
         q.origin = objs[o].origin \/ (q.origin = "alloc" /\ ~q.entry),
         q.has \subseteq ToSet(StepsOf(q.origin)),
         q.held => q.entry /\ thr[t].stage = "none",
         q.entry /\ (q.held \/ q.origin # "import") => Needed(q.origin) \subseteq q.has,
         q.entry \/ q.has \subseteq GivenUp(q),
         failed \/ thr[t].stage = "none" \/ (q.entry => objs[o].entry)
  PROVE  MemoryInv'
<1>1. /\ thr[t].owner \in up /\ thr[t].owner \in Owners /\ objs[o].owner = thr[t].owner
      /\ StateTyped /\ ObjectInv(o)
  BY WorkingFacts
<1>2. objs' \in [Obj -> ObjRecord] /\ objs'[o] = q /\ \A p \in Obj \ {o} : objs'[p] = objs[p]
  BY <1>1, ObjectChanged
<1>3. /\ thr' \in [Threads -> ThreadRecord] /\ \A u \in Threads \ {t} : thr'[u] = thr[u]
      /\ mtx' \in [Owners -> Threads \cup {NoThread}]
      /\ spoiled \subseteq spoiled' /\ spoiled' \subseteq {"import", "refusal"}
      /\ "import" \in spoiled' => "import" \in spoiled
      /\ thr'[t].obj = 0
      /\ thr[t].stage = "none" => thr'[t] = Idle
      /\ thr[t].stage # "none" => thr'[t].owner = thr[t].owner
  BY LeaveFacts
<1>4. StateTyped'
  BY <1>1, <1>2, <1>3 DEF StateTyped
<1>5. CallInv(t)'
  BY <1>2, Left
<1>6. ObjectInv(o)'
  <2>1. thr[t].owner # NoOwner /\ (q.owner # NoOwner => q.owner \in up)
    BY <1>1, MemoryAssumption
  <2>2. q.origin \in DOMAIN Functions[kind]
    BY <1>1, KnownFunctions, FunctionFacts DEF ObjectInv
  <2>3. /\ StepsOf(q.origin)' = StepsOf(q.origin) /\ Needed(q.origin)' = Needed(q.origin)
    BY DEF StepsOf, Needed, IgnoredBy
  <2>4. Nobody(o)'
    BY <1>3 DEF Nobody, MemoryInv, OneEach, Obj
  <2>5. GivenUp(q)' = GivenUp(q)
    BY GivenUpKept
  <2> QED
    BY <1>1, <1>2, <2>1, <2>2, <2>3, <2>4, <2>5 DEF ObjectInv
<1>7. thr'[t].owner \in {thr[t].owner, NoOwner}
  BY <1>3 DEF Idle
<1>8. "import" \notin spoiled' => harm' = {}
  BY <1>3 DEF MemoryInv
<1> QED
  BY <1>1, <1>2, <1>3, <1>4, <1>5, <1>6, <1>7, <1>8, StepKept

LEMMA RemainsFacts ==
  ASSUME NEW q \in ObjRecord
  PROVE  /\ Remains(q) \in ObjRecord
         /\ Remains(q) # q => /\ Remains(q).owner = NoOwner /\ Remains(q).origin = "alloc"
                              /\ Remains(q).has = {} /\ ~Remains(q).entry /\ ~Remains(q).held
                              /\ q.has = {}
BY RecordsTyped DEF Remains, Nothing

LEMMA UnwoundKept ==
  ASSUME MemoryInv, NEW t \in Threads, Unwound(t)
  PROVE  MemoryInv'
<1> DEFINE c == thr[t]
           o == thr[t].obj
<1>1. Working(t) /\ c.pc = "unwind" /\ c.todo = << >> /\ Leave(t, FALSE)
  BY DEF Unwound, At, Working
<1>2. /\ o \in Obj /\ objs[o] \in ObjRecord /\ ~objs[o].held /\ StateTyped /\ ObjectInv(o)
      /\ c.op \in Creating  => Taking(c, objs[o])
      /\ c.op \in Releasing => Giving(c, objs[o])
      /\ c.op \in Creating <=> c.op \notin Releasing
  BY <1>1, WorkingFacts
<1>3. Taking(c, objs[o])
  BY <1>1, <1>2 DEF Giving
<1>4. ~objs[o].entry /\ objs[o].has \subseteq GivenUp(objs[o])
  BY <1>1, <1>3 DEF Taking, ToSet
<1>5. PICK q \in ObjRecord : q = Remains(objs[o])
  BY <1>2, RemainsFacts
<1>6. q = objs[o] \/ (q.owner = NoOwner /\ q.origin = "alloc" /\ q.has = {} /\ ~q.entry /\ ~q.held)
  BY <1>2, <1>5, RemainsFacts
<1>7. objs' = [objs EXCEPT ![o] = q] /\ UNCHANGED <<kind, up, refCnt, ionOpen, harm>>
  BY <1>5 DEF Unwound
<1>8. q.has \subseteq ToSet(StepsOf(q.origin))
  BY <1>2, <1>6 DEF ObjectInv
<1>9. ~q.entry /\ ~q.held /\ q.has \subseteq GivenUp(q)
  BY <1>2, <1>4, <1>6
<1> QED
  BY <1>1, <1>2, <1>6, <1>7, <1>8, <1>9, WorkEnds

LEMMA InsertKept ==
  ASSUME MemoryInv, NEW t \in Threads, Insert(t)
  PROVE  MemoryInv'
<1> DEFINE c == thr[t]
           o == thr[t].obj
<1>1. Working(t) /\ c.pc = "work" /\ c.op \in Creating /\ c.todo = << >> /\ Leave(t, FALSE)
  BY DEF Insert, At, Working
<1>2. /\ o \in Obj /\ objs[o] \in ObjRecord /\ StateTyped /\ ObjectInv(o)
      /\ Taking(c, objs[o])
  BY <1>1, WorkingFacts
<1>3. c.stage = "none" /\ objs[o].origin = c.op /\ Needed(c.op) \subseteq objs[o].has
  BY <1>1, <1>2 DEF Taking, ToSet
<1>4. PICK q \in ObjRecord : q = [[objs[o] EXCEPT !.entry = TRUE] EXCEPT !.held = TRUE]
  BY <1>2 DEF ObjRecord
<1>5. /\ q.owner = objs[o].owner /\ q.origin = objs[o].origin /\ q.has = objs[o].has
      /\ q.held = TRUE /\ q.entry = TRUE
  BY <1>2, <1>4 DEF ObjRecord
<1>6. objs' = [objs EXCEPT ![o] = q] /\ UNCHANGED <<kind, up, refCnt, ionOpen, harm>>
  BY <1>2, <1>4 DEF Insert, StateTyped
<1>7. q.has \subseteq ToSet(StepsOf(q.origin))
  BY <1>2, <1>5 DEF ObjectInv
<1> QED
  BY <1>1, <1>2, <1>3, <1>5, <1>6, <1>7, WorkEnds

LEMMA ReleasedKept ==
  ASSUME MemoryInv, NEW t \in Threads, Released(t)
  PROVE  MemoryInv'
<1> DEFINE c == thr[t]
           o == thr[t].obj
<1>1. Working(t) /\ c.op \in Releasing /\ c.todo = << >> /\ Leave(t, FALSE)
  BY DEF Released, At, Working
<1>2. /\ o \in Obj /\ objs[o] \in ObjRecord /\ ~objs[o].held /\ StateTyped /\ ObjectInv(o)
      /\ Giving(c, objs[o])
  BY <1>1, WorkingFacts
<1>3. objs[o].has \subseteq GivenUp(objs[o])
  BY <1>1, <1>2 DEF Giving, ToSet
<1>4. PICK p \in ObjRecord : p = [objs[o] EXCEPT !.entry = FALSE]
  BY <1>2 DEF ObjRecord
<1>5. /\ p.owner = objs[o].owner /\ p.origin = objs[o].origin /\ p.has = objs[o].has
      /\ p.held = objs[o].held /\ GivenUp(p) = GivenUp(objs[o]) /\ p.entry = FALSE
  BY <1>2, <1>4, SameGivenUp DEF ObjRecord
<1>6. PICK q \in ObjRecord : q = Remains(p)
  BY RemainsFacts
<1>7. q = p \/ (q.owner = NoOwner /\ q.origin = "alloc" /\ q.has = {} /\ ~q.entry /\ ~q.held)
  BY <1>6, RemainsFacts
<1>8. objs' = [objs EXCEPT ![o] = q] /\ UNCHANGED <<kind, up, refCnt, ionOpen, harm>>
  BY <1>2, <1>4, <1>6 DEF Released, StateTyped
<1>9. q.has \subseteq ToSet(StepsOf(q.origin))
  BY <1>2, <1>5, <1>7 DEF ObjectInv
<1>10. ~q.entry /\ ~q.held /\ q.has \subseteq GivenUp(q)
  BY <1>2, <1>3, <1>5, <1>7
<1> QED
  BY <1>1, <1>2, <1>5, <1>7, <1>8, <1>9, <1>10, WorkEnds

LEMMA RefusedKept ==
  ASSUME MemoryInv, NEW t \in Threads, Refused(t)
  PROVE  MemoryInv'
<1> DEFINE c == thr[t]
           o == thr[t].obj
<1>1. Working(t) /\ c.pc = "work" /\ c.op \in Releasing /\ c.todo # << >>
  BY DEF Refused, At, Working
<1>2. /\ c \in ThreadRecord /\ o \in Obj /\ objs[o] \in ObjRecord
      /\ objs[o].owner = c.owner /\ ~objs[o].held
      /\ StateTyped /\ ObjectInv(o) /\ c.op \notin Creating
      /\ FunctionTyped(Functions[kind][c.op])
      /\ Giving(c, objs[o])
  BY <1>1, WorkingFacts
<1>10. /\ c.todo \in Seq(Resources) /\ TodoLeft(StepsOf(c.op), c.todo)
       /\ objs[o].has \subseteq ToSet(c.todo) \cup GivenUp(objs[o])
  BY <1>2 DEF Giving, ThreadRecord
<1>11. /\ Head(c.todo) \in Resources
       /\ Tail(c.todo) \in Seq(Resources) /\ TodoLeft(StepsOf(c.op), Tail(c.todo))
       /\ ToSet(c.todo) = {Head(c.todo)} \cup ToSet(Tail(c.todo))
       /\ ToSet(Tail(c.todo)) \subseteq Behind(Functions[kind][c.op], Head(c.todo))
  BY <1>1, <1>2, <1>10, StepTaken, RestBehind DEF StepsOf
<1>13. Refusal(t) \in [by : Creating \cup Releasing, of : Resources]
  BY <1>1, <1>11 DEF Refusal
<1>3. PICK p \in ObjRecord : p = [objs[o] EXCEPT !.refused = objs[o].refused \cup {Refusal(t)}]
  BY <1>2, <1>13 DEF ObjRecord
<1>4. /\ p.owner = objs[o].owner /\ p.origin = objs[o].origin /\ p.has = objs[o].has
      /\ p.held = objs[o].held /\ p.entry = objs[o].entry
      /\ p.refused = objs[o].refused \cup {[by |-> c.op, of |-> Head(c.todo)]}
  BY <1>2, <1>3 DEF ObjRecord, Refusal
<1>12. /\ p.has \subseteq ToSet(Tail(c.todo)) \cup GivenUp(p)
       /\ Head(c.todo) \notin IgnoredBy(c.op) => p.has \subseteq GivenUp(p)
  <2>1. /\ GivenUp(objs[o]) \subseteq GivenUp(p) /\ Head(c.todo) \in GivenUp(p)
        /\ Head(c.todo) \notin IgnoredBy(c.op) =>
             Behind(Functions[kind][c.op], Head(c.todo)) \subseteq GivenUp(p)
    BY <1>1, <1>4, RefusedMore
  <2> QED
    BY <1>4, <1>10, <1>11, <2>1
<1>5. CASE Head(c.todo) \in IgnoredBy(c.op)
  <2>3. PICK d \in ThreadRecord : d = [c EXCEPT !.todo = Tail(c.todo)]
    BY <1>2, <1>11 DEF ThreadRecord
  <2>4. /\ d.pc = "work" /\ d.op = c.op /\ d.owner = c.owner /\ d.obj = o
        /\ d.todo = Tail(c.todo) /\ d.stage = c.stage
    BY <1>1, <1>2, <2>3 DEF ThreadRecord
  <2>5. /\ objs' = [objs EXCEPT ![o] = p] /\ thr' = [thr EXCEPT ![t] = d]
        /\ UNCHANGED <<kind, up, refCnt, ionOpen, mtx, harm, spoiled>>
    BY <1>2, <1>3, <1>5, <2>3 DEF Refused, This, IgnoredBy, StateTyped
  <2>6. Giving(d, p)
    BY <1>2, <1>4, <1>11, <1>12, <2>4 DEF Giving
  <2>7. /\ mtx' \in [Owners -> Threads \cup {NoThread}]
        /\ harm' \subseteq {"caller", "stale"} /\ ("import" \notin spoiled => harm' = {})
        /\ p.has \subseteq ToSet(StepsOf(p.origin))
    BY <1>2, <1>4, <2>5 DEF MemoryInv, StateTyped, ObjectInv
  <2> QED
    BY <1>1, <1>2, <1>4, <2>4, <2>5, <2>6, <2>7, WorksOn
<1>6. CASE Head(c.todo) \notin IgnoredBy(c.op)
  <2>1. StaysEntered(t, p) \in BOOLEAN
    BY <1>4, <1>2 DEF StaysEntered, ObjRecord
  <2>2. PICK r \in ObjRecord : r = [p EXCEPT !.entry = StaysEntered(t, p)]
    BY <2>1 DEF ObjRecord
  <2>3. /\ r.owner = p.owner /\ r.origin = p.origin /\ r.has = p.has /\ r.held = p.held
        /\ GivenUp(r) = GivenUp(p) /\ (r.entry => p.entry /\ c.op = "unimport")
    BY <1>4, <2>2, SameGivenUp DEF ObjRecord, StaysEntered
  <2>4. PICK q \in ObjRecord : q = Remains(r)
    BY RemainsFacts
  <2>5. q = r \/ (q.owner = NoOwner /\ q.origin = "alloc" /\ q.has = {} /\ ~q.entry /\ ~q.held)
    BY <2>4, RemainsFacts
  <2>6. Leave(t, TRUE) /\ objs' = [objs EXCEPT ![o] = q]
        /\ UNCHANGED <<kind, up, refCnt, ionOpen, harm>>
    BY <1>2, <1>3, <1>6, <2>2, <2>4 DEF Refused, This, IgnoredBy
  <2>7. q.has \subseteq ToSet(StepsOf(q.origin))
    BY <1>2, <1>4, <2>3, <2>5 DEF ObjectInv
  <2>8. q.entry => q.origin = "import"
    <3>1. HAVE q.entry
    <3>2. q = r /\ c.op = "unimport"
      BY <2>3, <2>5, <3>1
    <3>3. Releases[objs[o].origin] = "unimport" /\ objs[o].origin \in Creating
      BY <1>2, <3>2 DEF Giving, ObjRecord
    <3> QED
      BY <1>4, <2>3, <3>2, <3>3, FunctionTable
  <2>9. ~q.held /\ q.has \subseteq GivenUp(q)
    BY <1>2, <1>4, <1>6, <1>12, <2>3, <2>5
  <2>10. /\ q.owner = objs[o].owner \/ (q.owner = NoOwner /\ ~q.entry /\ q.has = {})
         /\ q.origin = objs[o].origin \/ (q.origin = "alloc" /\ ~q.entry)
    BY <1>4, <2>3, <2>5
  <2> QED
    BY <1>1, <1>2, <2>6, <2>7, <2>8, <2>9, <2>10, WorkEnds
<1> QED
  BY <1>5, <1>6

-----------------------------------------------------------------------------
\* A call that begins: what it takes or gives is all before it.
LEMMA Begun ==
  ASSUME MemoryInv, NEW t \in Threads, NEW w, NEW op \in DOMAIN Functions[kind], NEW o \in Obj,
         Begin(t, w, op, o), Nobody(o),
         NEW q \in ObjRecord, objs' = [objs EXCEPT ![o] = q],
         UNCHANGED <<kind, up, refCnt, ionOpen, mtx, harm, spoiled>>,
         q.owner = w, ~q.held, q.origin \in DOMAIN Functions[kind],
         q.has \subseteq ToSet(StepsOf(q.origin)),
         op \in Creating => q.origin = op /\ q.has = {} /\ ~q.entry,
         op \in Releasing => /\ op = Releases[q.origin]
                             /\ q.has \subseteq ToSet(StepsOf(op))
                             /\ Needed(op) \subseteq q.has
  PROVE  MemoryInv'
<1>1. StateTyped /\ CallInv(t) /\ thr[t].pc = "idle" /\ w \in up /\ w \in Owners
  BY DEF MemoryInv, Begin, At, StateTyped
<1>2. thr[t].obj = 0 /\ op \in Creating \cup Releasing /\ FunctionTyped(Functions[kind][op])
      /\ o \in 0 .. MaxObj
  BY <1>1, KnownFunctions, MemoryAssumption DEF CallInv, Working, Obj
<1>3. PICK d \in ThreadRecord :
        d = [Idle EXCEPT !.pc = "enter", !.op = op, !.owner = w, !.obj = o, !.todo = StepsOf(op)]
  BY <1>1, <1>2, RecordsTyped DEF ThreadRecord, StepsOf, FunctionTyped
<1>4. /\ d.pc = "enter" /\ d.op = op /\ d.owner = w /\ d.obj = o /\ d.todo = StepsOf(op)
      /\ d.stage = "none"
  BY <1>3 DEF Idle
<1>5. thr' = [thr EXCEPT ![t] = d]
  BY <1>3 DEF Begin, StepsOf
<1>6. /\ objs' \in [Obj -> ObjRecord] /\ objs'[o] = q /\ \A p \in Obj \ {o} : objs'[p] = objs[p]
      /\ thr' \in [Threads -> ThreadRecord] /\ thr'[t] = d
      /\ \A u \in Threads \ {t} : thr'[u] = thr[u]
  BY <1>1, <1>5, ThreadChanged, ObjectChanged
<1>7. StateTyped' /\ CountInv'
  BY <1>1, <1>6, CountKept DEF StateTyped, MemoryInv
<1>8. /\ \A u \in Threads \ {t} : CallInv(u)'
      /\ \A p \in Obj \ {o} : ObjectInv(p)'
      /\ OneEach'
  <2>1. \A u \in Threads \ {t} : thr'[u] = thr[u] /\ thr[u].obj # o
    BY <1>6 DEF Nobody
  <2>2. \A u \in Threads \ {t} : thr[u].stage # "none" => w # thr[u].owner
    BY DEF Begin, MayBegin, In
  <2> QED
    BY <1>2, <1>4, <1>6, <2>1, <2>2, OthersKept
<1>9. CallInv(t)'
  <2>1. TodoLeft(StepsOf(op), d.todo) /\ Attempted(StepsOf(op), d.todo) = {}
    BY <1>2, <1>4, AllLeft DEF FunctionTyped, StepsOf
  <2>2. op \in Creating => Taking(d, q)
    BY <1>4, <2>1 DEF Taking, Needed
  <2>3. op \in Releasing => Giving(d, q)
    BY <1>4, <2>1 DEF Giving, Needed
  <2>4. Taking(d, q)' = Taking(d, q) /\ Giving(d, q)' = Giving(d, q)
    BY GivenUpKept DEF Taking, Giving, Needed, StepsOf, IgnoredBy
  <2>5. Working(t)'
    BY <1>4, <1>6 DEF Working
  <2> QED
    BY <1>1, <1>4, <1>6, <2>2, <2>3, <2>4, <2>5 DEF CallInv
<1>10. ObjectInv(o)'
  <2>1. ~Nobody(o)'
    BY <1>4, <1>6 DEF Nobody
  <2>2. ToSet(StepsOf(q.origin))' = ToSet(StepsOf(q.origin)) /\ q.owner # NoOwner
    BY <1>1, MemoryAssumption DEF StepsOf
  <2> QED
    BY <1>1, <1>6, <2>1, <2>2 DEF ObjectInv
<1> QED
  BY <1>7, <1>8, <1>9, <1>10 DEF MemoryInv

LEMMA BeginCreateKept ==
  ASSUME MemoryInv, NEW t \in Threads, NEW w \in Owners,
         NEW op \in Creating \cap DOMAIN Functions[kind], BeginCreate(t, w, op)
  PROVE  MemoryInv'
<1>1. PICK o \in Obj :
        /\ Free(o) /\ Begin(t, w, op, o)
        /\ objs' = [objs EXCEPT ![o] = [Nothing EXCEPT !.owner = w, !.origin = op]]
        /\ UNCHANGED <<kind, up, refCnt, ionOpen, mtx, harm, spoiled>>
  BY DEF BeginCreate
<1>2. PICK q \in ObjRecord : q = [Nothing EXCEPT !.owner = w, !.origin = op]
  BY RecordsTyped DEF ObjRecord
<1>3. /\ q.owner = w /\ q.origin = op /\ q.has = {} /\ ~q.entry /\ ~q.held
  BY <1>2 DEF Nothing
<1>4. Nobody(o) /\ op \notin Releasing
  BY <1>1, FunctionTable DEF Free, Nobody
<1> QED
  BY <1>1, <1>2, <1>3, <1>4, Begun

\* What a caller has, the function that belongs to it gives back.
LEMMA Undone ==
  ASSUME StateTyped, NEW o \in Obj, ObjectInv(o), objs[o].origin \in Creating
  PROVE  /\ Releases[objs[o].origin] \in DOMAIN Functions[kind]
         /\ objs[o].has \subseteq ToSet(StepsOf(Releases[objs[o].origin]))
         /\ Needed(Releases[objs[o].origin]) \subseteq Needed(objs[o].origin)
<1>1. /\ Releases[objs[o].origin] \in DOMAIN Functions[kind]
      /\ Undoes(Functions[kind][Releases[objs[o].origin]], Functions[kind][objs[o].origin])
  BY KnownFunctions, FunctionFacts DEF ObjectInv
<1> QED
  BY <1>1 DEF ObjectInv, Undoes, Needed, StepsOf, IgnoredBy

LEMMA BeginReleaseKept ==
  ASSUME MemoryInv, NEW t \in Threads, NEW o \in Obj, BeginRelease(t, o)
  PROVE  MemoryInv'
<1> DEFINE w == objs[o].owner
           op == Releases[objs[o].origin]
<1>1. StateTyped /\ ObjectInv(o) /\ objs[o] \in ObjRecord /\ objs[o].held
  BY DEF BeginRelease, MemoryInv, StateTyped
<1>2. /\ objs[o].origin \in Creating /\ objs[o].origin \in DOMAIN Functions[kind]
      /\ objs[o].entry /\ Nobody(o)
      /\ Needed(objs[o].origin) \subseteq objs[o].has
      /\ objs[o].has \subseteq ToSet(StepsOf(objs[o].origin))
  BY <1>1 DEF ObjectInv, ObjRecord
<1>3. /\ op \in DOMAIN Functions[kind] /\ objs[o].has \subseteq ToSet(StepsOf(op))
      /\ Needed(op) \subseteq objs[o].has
  BY <1>1, <1>2, Undone
<1>4. op \in Releasing /\ op \notin Creating
  BY <1>2, FunctionTable
<1>5. PICK q \in ObjRecord : q = [objs[o] EXCEPT !.held = FALSE]
  BY <1>1 DEF ObjRecord
<1>6. /\ q.owner = w /\ q.origin = objs[o].origin /\ q.has = objs[o].has /\ ~q.held
  BY <1>1, <1>5 DEF ObjRecord
<1>7. /\ Begin(t, w, op, o) /\ objs' = [objs EXCEPT ![o] = q]
      /\ UNCHANGED <<kind, up, refCnt, ionOpen, mtx, harm, spoiled>>
  BY <1>1, <1>5 DEF BeginRelease, StateTyped
<1> QED
  BY <1>2, <1>3, <1>4, <1>6, <1>7, Begun

-----------------------------------------------------------------------------
\* A destructor between two of its calls.
LEMMA LoopFacts ==
  ASSUME MemoryInv, NEW t \in Threads, thr[t].pc = "loop"
  PROVE  /\ thr[t] \in ThreadRecord /\ thr[t].obj = 0 /\ thr[t].stage # "none"
         /\ thr[t].owner \in up /\ thr[t].owner \in Owners
         /\ Destroying(t) /\ (spoiled = {} => Freed(t)) /\ StateTyped
         /\ \A o \in Obj : objs[o].owner = thr[t].owner => Nobody(o)
         /\ \A u \in Threads \ {t} : thr[u].owner # thr[t].owner
<1>1. StateTyped /\ CallInv(t)
  BY DEF MemoryInv
<1>2. /\ thr[t] \in ThreadRecord /\ thr[t].obj = 0 /\ thr[t].stage # "none"
      /\ thr[t].owner \in up /\ thr[t].owner \in Owners
      /\ Destroying(t) /\ (spoiled = {} => Freed(t))
  BY <1>1 DEF CallInv, Working, StateTyped
<1>3. \A o \in Obj : objs[o].owner = thr[t].owner => Nobody(o)
  <2>1. TAKE o \in Obj
  <2>2. HAVE objs[o].owner = thr[t].owner
  <2>3. \A u \in Threads : thr[u].obj = o => thr[u].owner = thr[t].owner
    BY <2>2 DEF MemoryInv, CallInv, Obj
  <2> QED
    BY <1>2, <2>3 DEF Destroying, Nobody, Obj
<1> QED
  BY <1>1, <1>2, <1>3 DEF Destroying

LEMMA noResidualKept ==
  ASSUME MemoryInv, NEW t \in Threads, noResidual(t)
  PROVE  MemoryInv'
<1>1. thr[t].pc = "loop" /\ thr[t].stage \in {"cmdBufs", "mems"}
      /\ Residual(thr[t].owner, thr[t].stage) = {}
      /\ UNCHANGED <<kind, up, refCnt, ionOpen, objs, mtx, harm, spoiled>>
  BY DEF noResidual, At
<1>2. /\ thr[t] \in ThreadRecord /\ thr[t].obj = 0 /\ thr[t].owner \in up
      /\ Destroying(t) /\ (spoiled = {} => Freed(t)) /\ StateTyped
      /\ \A u \in Threads \ {t} : thr[u].owner # thr[t].owner
  BY <1>1, LoopFacts
<1>3. PICK next \in {"mems", "executor"} :
        /\ next = AfterFailure[thr[t].stage]
        /\ thr[t].stage = "cmdBufs" => next = "mems"
        /\ thr[t].stage = "mems" => next = "executor"
  <2>1. AfterFailure["cmdBufs"] = "mems" /\ AfterFailure["mems"] = "executor"
    BY DEF AfterFailure
  <2> QED
    BY <1>1, <2>1
<1>4. PICK d \in ThreadRecord : d = [thr[t] EXCEPT !.stage = next]
  BY <1>2 DEF ThreadRecord
<1>5. /\ d.pc = "loop" /\ d.obj = 0 /\ d.owner = thr[t].owner
      /\ d.stage = next /\ d.op = thr[t].op
  BY <1>1, <1>2, <1>4 DEF ThreadRecord
<1>6. \/ thr[t].stage = "cmdBufs" /\ d.stage = "mems"
      \/ thr[t].stage = "mems" /\ d.stage = "executor"
  BY <1>1, <1>5, <1>3
<1>7. thr' = [thr EXCEPT ![t] = d]
  BY <1>2, <1>3, <1>4 DEF noResidual, StateTyped
<1>8. /\ thr' \in [Threads -> ThreadRecord] /\ thr'[t] = d
      /\ \A u \in Threads \ {t} : thr'[u] = thr[u]
  BY <1>2, <1>7, ThreadChanged
<1>9. StateTyped' /\ CountInv'
  BY <1>1, <1>2, <1>8, CountKept DEF StateTyped, MemoryInv
<1>10. /\ \A u \in Threads \ {t} : CallInv(u)'
       /\ \A p \in Obj : ObjectInv(p)'
       /\ OneEach'
  <2>1. 0 \in 0 .. MaxObj /\ Obj \ {0} = Obj
    BY MemoryAssumption DEF Obj
  <2> QED
    BY <1>1, <1>2, <1>5, <1>8, <2>1, OthersKept
<1>11. CallInv(t)'
  <2>1. Destroying(t)'
    BY <1>1, <1>2, <1>5, <1>8 DEF Destroying, Session
  <2>2. spoiled = {} => Freed(t)'
    BY <1>1, <1>2, <1>5, <1>6, <1>8 DEF Freed, Residual
  <2> QED
    BY <1>1, <1>2, <1>5, <1>6, <1>8, <2>1, <2>2 DEF CallInv, Working
<1>12. "import" \notin spoiled' => harm' = {}
  BY <1>1 DEF MemoryInv
<1> QED
  BY <1>9, <1>10, <1>11, <1>12 DEF MemoryInv

LEMMA freeResidualKept ==
  ASSUME MemoryInv, NEW t \in Threads, freeResidual(t)
  PROVE  MemoryInv'
<1> DEFINE stage == thr[t].stage
           op == IF stage = "cmdBufs" THEN "cmdBufFree" ELSE "free"
<1>1. /\ thr[t].pc = "loop" /\ stage \in {"cmdBufs", "mems"}
      /\ UNCHANGED <<kind, up, refCnt, ionOpen, objs, mtx, harm>>
  BY DEF freeResidual, At
<1>2. /\ thr[t] \in ThreadRecord /\ thr[t].obj = 0 /\ thr[t].owner \in up
      /\ Destroying(t) /\ (spoiled = {} => Freed(t)) /\ StateTyped
      /\ \A u \in Threads \ {t} : thr[u].owner # thr[t].owner
      /\ \A p \in Obj : objs[p].owner = thr[t].owner => Nobody(p)
  BY <1>1, LoopFacts
<1>3. PICK o \in Residual(thr[t].owner, stage) :
        /\ thr' = [thr EXCEPT ![t].pc = "enter", ![t].op = op, ![t].obj = o,
                              ![t].todo = Functions[kind][op].steps]
        /\ spoiled' = IF objs[o].origin = "import" THEN spoiled \cup {"import"} ELSE spoiled
  BY DEF freeResidual
<1>4. /\ o \in Obj /\ o \in 0 .. MaxObj /\ objs[o] \in ObjRecord /\ objs[o].owner = thr[t].owner
      /\ objs[o].entry /\ (stage = "cmdBufs" <=> objs[o].origin = "cmdBufAlloc")
      /\ ObjectInv(o) /\ objs[o].origin \in Creating /\ Nobody(o) /\ ~objs[o].held
  BY <1>2, <1>3, MemoryAssumption
  DEF Residual, MemoryInv, StateTyped, ObjRecord, Obj, Destroying
<1>5. \/ op = Releases[objs[o].origin]
      \/ op = "free" /\ objs[o].origin = "import" /\ "import" \in spoiled'
  BY <1>3, <1>4, FunctionTable
<1>6. /\ kind = "exec1" /\ op \in DOMAIN Functions[kind] /\ op \in Releasing /\ op \notin Creating
      /\ FunctionTyped(Functions[kind][op])
      /\ objs[o].has \subseteq ToSet(StepsOf(op))
  <2>1. kind = "exec1" /\ kind \in AllKinds
    BY <1>2, KnownFunctions DEF Destroying, Session
  <2>2. objs[o].origin # "import" => op = Releases[objs[o].origin]
    BY <1>5
  <2>3. op \in DOMAIN Functions[kind] /\ objs[o].has \subseteq ToSet(StepsOf(op))
    <3>1. CASE op = Releases[objs[o].origin]
      BY <1>2, <1>4, <3>1, Undone
    <3>2. CASE op = "free" /\ objs[o].origin = "import"
      BY <1>4, <2>1, <3>2, FunctionFacts DEF ObjectInv, StepsOf
    <3> QED
      BY <1>5, <3>1, <3>2
  <2> QED
    BY <1>2, <2>1, <2>3, FunctionTable, KnownFunctions
<1>7. "import" \notin spoiled' => Needed(op) \subseteq objs[o].has
  <2>1. HAVE "import" \notin spoiled'
  <2>2. objs[o].origin # "import" /\ op = Releases[objs[o].origin]
    BY <1>3, <1>5, <2>1
  <2>3. Needed(objs[o].origin) \subseteq objs[o].has
    BY <1>4, <2>2 DEF ObjectInv
  <2> QED
    BY <1>2, <1>4, <2>2, <2>3, Undone
<1> HIDE DEF op
<1>8. PICK d \in ThreadRecord :
        d = [[[[thr[t] EXCEPT !.pc = "enter"] EXCEPT !.op = op] EXCEPT !.obj = o]
               EXCEPT !.todo = StepsOf(op)]
  BY <1>2, <1>4, <1>6 DEF ThreadRecord, StepsOf, FunctionTyped
<1>9. /\ d.pc = "enter" /\ d.op = op /\ d.owner = thr[t].owner /\ d.obj = o
      /\ d.todo = StepsOf(op) /\ d.stage = stage
  BY <1>2, <1>8 DEF ThreadRecord
<1>10. thr' = [thr EXCEPT ![t] = d]
  BY <1>2, <1>3, <1>8 DEF StateTyped, StepsOf, op
<1>11. /\ thr' \in [Threads -> ThreadRecord] /\ thr'[t] = d
       /\ \A u \in Threads \ {t} : thr'[u] = thr[u]
  BY <1>2, <1>10, ThreadChanged
<1>12. spoiled \subseteq spoiled' /\ spoiled' \subseteq {"import", "refusal"}
  BY <1>2, <1>3 DEF StateTyped
<1>13. StateTyped' /\ CountInv'
  BY <1>1, <1>2, <1>11, <1>12, CountKept DEF StateTyped, MemoryInv
<1>14. /\ \A u \in Threads \ {t} : CallInv(u)'
       /\ \A p \in Obj \ {o} : ObjectInv(p)'
       /\ OneEach'
  <2>1. \A u \in Threads \ {t} : thr'[u] = thr[u] /\ thr[u].obj # o
    BY <1>4, <1>11 DEF Nobody
  <2> QED
    BY <1>1, <1>2, <1>4, <1>9, <1>11, <1>12, <2>1, OthersKept
<1>15. CallInv(t)'
  <2>1. TodoLeft(StepsOf(op), d.todo)
    BY <1>6, <1>9, AllLeft DEF FunctionTyped, StepsOf
  <2>2. Giving(d, objs[o])'
    BY <1>1, <1>5, <1>6, <1>7, <1>9, <2>1 DEF Giving, Needed, StepsOf, IgnoredBy
  <2>3. Destroying(t)'
    BY <1>1, <1>2, <1>9, <1>11 DEF Destroying, Session
  <2>4. spoiled' = {} => Freed(t)'
    BY <1>1, <1>2, <1>9, <1>11, <1>12 DEF Freed
  <2>5. Working(t)' /\ thr'[t].pc # "idle" /\ thr'[t].pc # "loop"
    BY <1>9, <1>11 DEF Working
  <2> QED
    BY <1>1, <1>2, <1>4, <1>6, <1>9, <1>11, <2>2, <2>3, <2>4, <2>5 DEF CallInv
<1>16. ObjectInv(o)'
  <2>1. ~Nobody(o)'
    BY <1>9, <1>11 DEF Nobody
  <2>2. objs[o].owner # NoOwner /\ objs[o].owner \in up
    BY <1>2, <1>4, MemoryAssumption DEF StateTyped
  <2> QED
    BY <1>1, <1>4, <2>1, <2>2 DEF ObjectInv, StepsOf
<1>17. "import" \notin spoiled' => harm' = {}
  BY <1>1, <1>12 DEF MemoryInv
<1> QED
  BY <1>13, <1>14, <1>15, <1>16, <1>17 DEF MemoryInv

\* The destructor of a session begins: its callers have nothing any more.
LEMMA deleteInstanceKept ==
  ASSUME MemoryInv, NEW t \in Threads, NEW w \in Owners, deleteInstance(t, w)
  PROVE  MemoryInv'
<1>1. /\ Session /\ w \in up /\ In(w) = {} /\ thr[t].pc = "idle" /\ StateTyped /\ CallInv(t)
      /\ UNCHANGED <<kind, up, refCnt, ionOpen, mtx, harm, spoiled>>
  BY DEF deleteInstance, At, MemoryInv
<1>2. PICK d \in ThreadRecord : d = [Idle EXCEPT !.pc = "loop", !.owner = w, !.stage = "cmdBufs"]
  BY RecordsTyped DEF ThreadRecord
<1>3. d.pc = "loop" /\ d.owner = w /\ d.stage = "cmdBufs" /\ d.obj = 0
  BY <1>2 DEF Idle
<1>4. /\ thr' \in [Threads -> ThreadRecord] /\ thr'[t] = d
      /\ \A u \in Threads \ {t} : thr'[u] = thr[u]
  BY <1>1, <1>2, ThreadChanged DEF deleteInstance
<1>5. \A u \in Threads : thr[u].owner # w
  BY <1>1 DEF In
<1>6. thr[t].obj = 0 /\ thr[t].stage = "none"
  BY <1>1 DEF CallInv, Working
<1>7. \A o \in Obj : /\ objs'[o] \in ObjRecord
                     /\ objs[o].owner # w => objs'[o] = objs[o]
                     /\ objs'[o].owner = objs[o].owner /\ objs'[o].origin = objs[o].origin
                     /\ objs'[o].has = objs[o].has /\ objs'[o].entry = objs[o].entry
                     /\ objs'[o].refused = objs[o].refused
                     /\ objs[o].owner = w => ~objs'[o].held
                     /\ objs'[o].held => objs[o].held
  <2>1. TAKE o \in Obj
  <2>2. objs[o] \in ObjRecord
    BY <1>1 DEF StateTyped
  <2>3. objs'[o] = IF objs[o].owner = w THEN [objs[o] EXCEPT !.held = FALSE] ELSE objs[o]
    BY DEF deleteInstance
  <2> QED
    BY <2>2, <2>3 DEF ObjRecord
<1>8. objs' \in [Obj -> ObjRecord]
  <2>1. objs' = [o \in Obj |-> objs'[o]]
    BY DEF deleteInstance
  <2> QED
    BY <1>7, <2>1
<1>9. StateTyped' /\ CountInv'
  BY <1>1, <1>4, <1>8, CountKept DEF StateTyped, MemoryInv
<1>10. \A o \in Obj : Nobody(o)' = Nobody(o)
  BY <1>3, <1>4, <1>6 DEF Nobody, Obj
<1>11. \A o \in Obj : ObjectInv(o)'
  <2>1. TAKE o \in Obj
  <2>2. ObjectInv(o) /\ Nobody(o)' = Nobody(o)
    BY <1>10 DEF MemoryInv
  <2>3. GivenUp(objs[o])' = GivenUp(objs[o])
    <3>1. \A q : GivenUp(q)' = GivenUp(q)
      BY <1>1, GivenUpKept
    <3>2. GivenUp(objs'[o]) = GivenUp(objs[o])
      BY <1>7, SameGivenUp
    <3>3. GivenUp(objs[o])' = GivenUp(objs'[o])
      BY <1>1 DEF GivenUp, Denied, Stranded
    <3> QED
      BY <3>2, <3>3
  <2> QED
    BY <1>1, <1>7, <2>2, <2>3 DEF ObjectInv, Session, Needed, StepsOf, IgnoredBy
<1>12. \A u \in Threads \ {t} : CallInv(u)'
  <2>1. TAKE u \in Threads \ {t}
  <2>2. CallInv(u) /\ thr'[u] = thr[u] /\ thr[u].owner # w
    BY <1>4, <1>5 DEF MemoryInv
  <2>3. Working(u)' = Working(u)
    BY <2>2 DEF Working
  <2>4. Working(u) => objs'[thr[u].obj] = objs[thr[u].obj]
    BY <1>7, <2>2 DEF CallInv
  <2>5. \A c, q : Taking(c, q)' = Taking(c, q) /\ Giving(c, q)' = Giving(c, q)
    BY <1>1, GivenUpKept DEF Taking, Giving, Needed, StepsOf, IgnoredBy
  <2>6. thr[u].stage # "none" => Destroying(u)' /\ (spoiled' = {} => Freed(u)')
    <3>1. HAVE thr[u].stage # "none"
    <3>2. Destroying(u) /\ (spoiled = {} => Freed(u))
      BY <2>2, <3>1 DEF CallInv
    <3>3. Destroying(u)'
      BY <1>1, <1>3, <1>4, <1>7, <2>2, <3>2 DEF Destroying, Session
    <3>4. spoiled' = {} => Freed(u)'
      BY <1>1, <1>7, <2>2, <3>2 DEF Freed
    <3> QED
      BY <3>3, <3>4
  <2> QED
    BY <1>1, <2>2, <2>3, <2>4, <2>5, <2>6 DEF CallInv
<1>13. CallInv(t)'
  <2>1. Destroying(t)'
    BY <1>1, <1>3, <1>4, <1>5, <1>7 DEF Destroying, Session
  <2>2. Freed(t)'
    BY <1>3, <1>4 DEF Freed
  <2> QED
    BY <1>1, <1>3, <1>4, <2>1, <2>2 DEF CallInv, Working
<1>14. OneEach' /\ ("import" \notin spoiled' => harm' = {})
  BY <1>1, <1>3, <1>4 DEF MemoryInv, OneEach
<1> QED
  BY <1>9, <1>11, <1>12, <1>13, <1>14 DEF MemoryInv

LEMMA ConstructKept ==
  ASSUME MemoryInv, NEW w \in Owners, Construct(w)
  PROVE  MemoryInv'
<1>1. /\ w \notin up /\ up' = up \cup {w} /\ UNCHANGED <<kind, objs, mtx, thr, harm, spoiled>>
      /\ StateTyped /\ CountInv
  BY DEF Construct, MemoryInv
<1>2. IsFiniteSet(up') /\ Cardinality(up') = Cardinality(up) + 1 /\ Cardinality(up) \in Nat
  BY <1>1, FS_AddElement, FS_CardinalityType DEF CountInv
<1>3. up = {} <=> Cardinality(up) = 0
  BY <1>1, FS_EmptySet DEF CountInv
<1>4. Counts' = Counts
  BY <1>1 DEF Counts, Session
<1>5. CountInv'
  <2>1. CASE Counts
    <3>1. refCnt = Cardinality(up) /\ refCnt' = refCnt + 1 /\ up' # {}
      BY <1>1, <2>1 DEF CountInv, Construct
    <3>2. ionOpen' = TRUE
      <4>1. CASE up = {}
        <5>1. refCnt <= 0
          BY <1>3, <3>1, <4>1
        <5>2. ionOpen' = (ionOpen \/ (Counts /\ refCnt <= 0))
          BY DEF Construct
        <5> QED
          BY <2>1, <5>1, <5>2
      <4>2. CASE up # {}
        BY <1>1, <2>1, <4>2 DEF Construct, CountInv
      <4> QED
        BY <4>1, <4>2
    <3> QED
      BY <1>2, <1>4, <2>1, <3>1, <3>2 DEF CountInv
  <2>2. CASE ~Counts
    BY <1>1, <1>2, <1>4, <2>2 DEF CountInv, Construct
  <2> QED
    BY <2>1, <2>2
<1>6. StateTyped'
  <2>1. refCnt' \in Nat /\ ionOpen' \in BOOLEAN
    BY <1>1 DEF Construct, StateTyped
  <2> QED
    BY <1>1, <2>1 DEF StateTyped
<1>7. \A t \in Threads : CallInv(t)'
  <2>1. TAKE t \in Threads
  <2>2. CallInv(t)
    BY DEF MemoryInv
  <2>3. \A c, q : Taking(c, q)' = Taking(c, q) /\ Giving(c, q)' = Giving(c, q)
    BY <1>1, GivenUpKept DEF Taking, Giving, Needed, StepsOf, IgnoredBy
  <2>4. Destroying(t)' = Destroying(t) /\ Freed(t)' = Freed(t) /\ Working(t)' = Working(t)
    BY <1>1 DEF Destroying, Freed, Working, Session
  <2> QED
    BY <1>1, <2>2, <2>3, <2>4 DEF CallInv
<1>8. \A o \in Obj : ObjectInv(o)'
  <2>1. TAKE o \in Obj
  <2>2. ObjectInv(o) /\ Nobody(o)' = Nobody(o)
    BY <1>1 DEF MemoryInv, Nobody
  <2>3. GivenUp(objs[o])' = GivenUp(objs[o])
    BY <1>1 DEF GivenUp, Denied, Stranded
  <2> QED
    BY <1>1, <2>2, <2>3 DEF ObjectInv, Session, Needed, StepsOf, IgnoredBy
<1>9. OneEach' /\ ("import" \notin spoiled' => harm' = {})
  BY <1>1 DEF MemoryInv, OneEach
<1> QED
  BY <1>5, <1>6, <1>7, <1>8, <1>9 DEF MemoryInv

-----------------------------------------------------------------------------
\* An owner goes: what it had is nobody's, and what others have stays theirs.
LEMMA DestructFacts ==
  ASSUME MemoryInv, NEW w \in up, Destruct(w), UNCHANGED kind,
         \A u \in Threads : thr[u].owner = w => thr[u].obj = 0
  PROVE  /\ up' \subseteq Owners /\ refCnt' \in Nat /\ ionOpen' \in BOOLEAN
         /\ objs' \in [Obj -> ObjRecord] /\ CountInv'
         /\ \A o \in Obj : /\ objs[o].owner \in up' /\ ~Nobody(o) => objs'[o] = objs[o]
                           /\ objs'[o] = objs[o] \/ objs'[o] = Nothing \/ objs'[o].owner = NoOwner
                           /\ objs'[o].owner = NoOwner =>
                                /\ ~objs'[o].entry /\ ~objs'[o].held
                                /\ objs'[o].has \subseteq objs[o].has
                                /\ objs'[o].origin \in {objs[o].origin, "alloc"}
                                /\ objs'[o].has # {} =>
                                     /\ objs'[o].refused = objs[o].refused
                                     /\ objs'[o].origin = objs[o].origin
                           /\ objs'[o].owner # w
                           /\ objs'[o].owner # NoOwner => objs'[o] = objs[o]
                           /\ objs[o].owner \in up' /\ Nobody(o) =>
                                objs'[o] = objs[o] \/ (objs'[o] = Nothing /\ objs[o].has = {})
<1> DEFINE last == Counts /\ refCnt = 1
<1>1. /\ StateTyped /\ CountInv /\ up' = up \ {w} /\ w \in Owners /\ w # NoOwner
      /\ refCnt' = IF Counts THEN refCnt - 1 ELSE refCnt
      /\ ionOpen' = (ionOpen /\ ~last)
      /\ objs' = Abandon(w, last)
  BY MemoryAssumption DEF Destruct, MemoryInv, StateTyped
<1>2. /\ IsFiniteSet(up') /\ Cardinality(up') = Cardinality(up) - 1
      /\ Cardinality(up) \in Nat /\ Cardinality(up') \in Nat
  BY <1>1, FS_RemoveElement, FS_CardinalityType DEF CountInv
<1>3. Cardinality(up') = 0 <=> up' = {}
  BY <1>2, FS_EmptySet
<1>4. Counts => (last <=> up' = {})
  BY <1>1, <1>2, <1>3 DEF CountInv
<1>5. CountInv' /\ refCnt' \in Nat /\ ionOpen' \in BOOLEAN
  <2>1. Counts' = Counts
    BY DEF Counts, Session
  <2>2. CASE Counts
    <3>1. refCnt' = Cardinality(up')
      BY <1>1, <1>2, <2>2 DEF CountInv
    <3>2. ionOpen' = (up' # {})
      BY <1>1, <1>4, <2>2 DEF CountInv
    <3> QED
      BY <1>2, <2>1, <2>2, <3>1, <3>2 DEF CountInv
  <2>3. CASE ~Counts
    <3>1. refCnt' = 0
      BY <1>1, <2>3 DEF CountInv
    <3>2. ionOpen' \in BOOLEAN
      BY <1>1 DEF StateTyped
    <3> QED
      BY <1>2, <2>1, <2>3, <3>1, <3>2 DEF CountInv
  <2> QED
    BY <2>2, <2>3
<1> HIDE DEF last
<1>6. \A o \in Obj : objs'[o] = IF \E t \in Threads : thr[t].obj = o
                                THEN Abandoned(objs[o], w, last)
                                ELSE Remains(Abandoned(objs[o], w, last))
  BY <1>1 DEF Abandon
<1>7. \A o \in Obj : objs[o].owner \in up' => ~last
  BY <1>1, <1>4 DEF last
<1>8. ASSUME NEW o \in Obj
      PROVE  /\ objs'[o] \in ObjRecord
             /\ objs[o].owner \in up' /\ ~Nobody(o) => objs'[o] = objs[o]
             /\ objs'[o].owner = NoOwner =>
                  /\ ~objs'[o].entry /\ ~objs'[o].held
                  /\ objs'[o].has \subseteq objs[o].has
                  /\ objs'[o].origin \in {objs[o].origin, "alloc"}
                  /\ objs'[o].has # {} => /\ objs'[o].refused = objs[o].refused
                                          /\ objs'[o].origin = objs[o].origin
             /\ objs'[o].owner # w
             /\ objs'[o].owner # NoOwner => objs'[o] = objs[o]
             /\ objs[o].owner \in up' /\ Nobody(o) =>
                  objs'[o] = objs[o] \/ (objs'[o] = Nothing /\ objs[o].has = {})
  <2>1. objs[o] \in ObjRecord /\ ObjectInv(o)
    BY <1>1 DEF StateTyped, MemoryInv
  <2>2. PICK left \in ObjRecord :
          left = IF objs[o].owner = w
                 THEN [objs[o] EXCEPT !.owner = NoOwner, !.entry = FALSE, !.held = FALSE]
                 ELSE objs[o]
    BY <2>1 DEF ObjRecord
  <2>3. /\ objs[o].owner = w => left.owner = NoOwner /\ ~left.entry /\ ~left.held
        /\ objs[o].owner # w => left = objs[o]
        /\ left.has = objs[o].has /\ left.origin = objs[o].origin
        /\ left.refused = objs[o].refused
    BY <2>1, <2>2 DEF ObjRecord
  <2>4. PICK kept \in ObjRecord :
          kept = [left EXCEPT !.has = IF last THEN left.has \ {"handle"} ELSE left.has]
    BY DEF ObjRecord
  <2>5. /\ kept.owner = left.owner /\ kept.entry = left.entry /\ kept.held = left.held
        /\ kept.origin = left.origin /\ kept.refused = left.refused
        /\ kept.has \subseteq left.has
        /\ ~last => kept = left
    BY <2>4 DEF ObjRecord
  <2>6. objs'[o] = IF ~Nobody(o) THEN kept ELSE Remains(kept)
    <3>1. Abandoned(objs[o], w, last) = kept
      BY <2>2, <2>4 DEF Abandoned
    <3>2. ~Nobody(o) <=> \E t \in Threads : thr[t].obj = o
      BY DEF Nobody
    <3> QED
      BY <1>6, <3>1, <3>2
  <2>7. /\ Remains(kept) \in ObjRecord
        /\ Remains(kept) = kept \/ (Remains(kept) = Nothing /\ kept.has = {})
    BY RemainsFacts DEF Remains
  <2>8. Nothing.owner = NoOwner /\ Nothing.has = {} /\ ~Nothing.entry /\ ~Nothing.held
        /\ Nothing.origin = "alloc"
    BY DEF Nothing
  <2>9. left.owner # w
    BY <1>1, <2>3
  <2>10. left.owner = NoOwner => ~left.entry /\ ~left.held
    BY <2>1, <2>3 DEF ObjectInv
  <2>11. left.owner # NoOwner => left.owner \in up' /\ left = objs[o]
    BY <1>1, <2>1, <2>3 DEF ObjectInv
  <2>12. objs[o].owner \in up' => kept = objs[o]
    BY <1>1, <1>7, <2>3, <2>5
  <2>13. objs'[o] = kept \/ (objs'[o] = Nothing /\ kept.has = {} /\ Nobody(o))
    BY <2>6, <2>7
  <2>14. CASE objs'[o] = kept
    BY <1>1, <2>3, <2>5, <2>9, <2>10, <2>11, <2>12, <2>14
  <2>15. CASE objs'[o] = Nothing /\ kept.has = {} /\ Nobody(o)
    BY <1>1, <2>1, <2>7, <2>8, <2>12, <2>15, RecordsTyped
  <2> QED
    BY <2>13, <2>14, <2>15
<1>9. objs' \in [Obj -> ObjRecord]
  <2>1. objs' = [o \in Obj |-> objs'[o]]
    BY <1>1 DEF Abandon
  <2> QED
    BY <1>8, <2>1
<1>10. up' \subseteq Owners
  BY <1>1 DEF StateTyped
<1> QED
  BY <1>5, <1>8, <1>9, <1>10

\* The calls and the objects that are left when an owner goes.
LEMMA Destructed ==
  ASSUME MemoryInv, NEW w \in up, Destruct(w), UNCHANGED <<kind, harm, spoiled>>,
         mtx' \in [Owners -> Threads \cup {NoThread}],
         thr' \in [Threads -> ThreadRecord],
         \A u \in Threads : thr[u].owner = w => thr[u].obj = 0,
         \A u \in Threads : IF thr[u].owner = w THEN thr'[u] = Idle ELSE thr'[u] = thr[u],
         Session /\ spoiled = {} => \A o \in Obj : objs[o].owner = w => ~objs[o].entry
  PROVE  MemoryInv'
<1>1. /\ StateTyped /\ w \in Owners /\ w # NoOwner /\ up' = up \ {w}
      /\ Idle.pc = "idle" /\ Idle.owner = NoOwner /\ Idle.obj = 0 /\ Idle.stage = "none"
  BY MemoryAssumption DEF MemoryInv, StateTyped, Destruct, Idle
<1>2. StateTyped' /\ CountInv'
  BY <1>1, DestructFacts DEF StateTyped
<1>3. \A u \in Threads : thr'[u].obj = thr[u].obj
  BY <1>1
<1>4. \A o \in Obj : Nobody(o)' = Nobody(o)
  BY <1>3 DEF Nobody
<1>5. OneEach'
  BY <1>3 DEF MemoryInv, OneEach
<1>6. \A u \in Threads : CallInv(u)'
  <2>1. TAKE u \in Threads
  <2>2. CallInv(u)
    BY DEF MemoryInv
  <2>3. CASE thr[u].owner = w
    <3>1. thr'[u] = Idle
      BY <2>3
    <3> QED
      BY <1>1, <3>1 DEF CallInv, Working
  <2>4. CASE thr[u].owner # w
    <3>1. thr'[u] = thr[u] /\ (thr[u].pc # "idle" => thr[u].owner \in up')
      BY <1>1, <2>2, <2>4 DEF CallInv
    <3>2. Working(u)' = Working(u) /\ (Working(u) => thr[u].pc # "idle")
      BY <3>1 DEF Working
    <3>3. Working(u) => objs'[thr[u].obj] = objs[thr[u].obj]
      BY <2>2, <3>1, <3>2, DestructFacts DEF CallInv, Nobody
    <3>4. \A c, q : Taking(c, q)' = Taking(c, q) /\ Giving(c, q)' = Giving(c, q)
      BY GivenUpKept DEF Taking, Giving, Needed, StepsOf, IgnoredBy
    <3>5. thr[u].stage # "none" => Destroying(u)' /\ (spoiled' = {} => Freed(u)')
      <4>1. HAVE thr[u].stage # "none"
      <4>2. Destroying(u) /\ (spoiled = {} => Freed(u)) /\ thr[u].pc # "idle"
        BY <2>2, <4>1 DEF CallInv
      <4>3. thr[u].owner # NoOwner
        BY <3>1, <4>2, DestructFacts, MemoryAssumption
      <4>4. \A v \in Threads : thr'[v].owner = thr'[u].owner => v = u
        BY <1>1, <3>1, <4>2, <4>3 DEF Destroying
      <4>5. \A o \in Obj : objs'[o].owner = thr[u].owner => objs'[o] = objs[o]
        BY <4>3, DestructFacts
      <4>6. Destroying(u)'
        BY <3>1, <4>2, <4>4, <4>5 DEF Destroying, Session
      <4>7. spoiled' = {} => Freed(u)'
        BY <3>1, <4>2, <4>5 DEF Freed
      <4> QED
        BY <4>6, <4>7
    <3> QED
      BY <2>2, <3>1, <3>2, <3>3, <3>4, <3>5 DEF CallInv
  <2> QED
    BY <2>3, <2>4
<1>7. \A o \in Obj : ObjectInv(o)'
  <2>1. TAKE o \in Obj
  <2>2. ObjectInv(o) /\ Nobody(o)' = Nobody(o)
    BY <1>4 DEF MemoryInv
  <2>3. \A op : StepsOf(op)' = StepsOf(op) /\ Needed(op)' = Needed(op)
    BY DEF StepsOf, Needed, IgnoredBy
  <2>6. GivenUp(objs[o])' = GivenUp(objs'[o])
    BY DEF GivenUp, Denied, Stranded
  <2>4. CASE objs'[o].owner # NoOwner
    <3>1. objs'[o] = objs[o] /\ objs[o].owner # w
      BY <2>4, DestructFacts
    <3>2. objs[o].owner \in up'
      BY <1>1, <2>2, <2>4, <3>1 DEF ObjectInv
    <3> QED
      BY <2>2, <2>3, <2>4, <2>6, <3>1, <3>2 DEF ObjectInv, Session
  <2>5. CASE objs'[o].owner = NoOwner
    <3>1. /\ ~objs'[o].entry /\ ~objs'[o].held
          /\ objs'[o].has \subseteq objs[o].has
          /\ objs'[o].origin \in {objs[o].origin, "alloc"}
          /\ objs'[o].has # {} => /\ objs'[o].refused = objs[o].refused
                                  /\ objs'[o].origin = objs[o].origin
      BY <2>5, DestructFacts
    <3>2. objs'[o].origin \in DOMAIN Functions[kind]
      BY <1>1, <2>2, <3>1, KnownFunctions, FunctionFacts DEF ObjectInv
    <3>3. objs'[o].has \subseteq ToSet(StepsOf(objs'[o].origin))
      BY <2>2, <3>1 DEF ObjectInv
    <3>4. Session /\ spoiled = {} => objs'[o].has \subseteq GivenUp(objs'[o])
      <4>1. SUFFICES ASSUME Session, spoiled = {}, objs'[o].has # {}
                     PROVE  objs'[o].has \subseteq GivenUp(objs'[o])
        OBVIOUS
      <4>6. SUFFICES objs[o].has \subseteq GivenUp(objs[o])
        <5>1. GivenUp(objs'[o]) = GivenUp(objs[o])
          BY <3>1, <4>1, SameGivenUp
        <5> QED
          BY <3>1, <5>1
      <4>2. objs[o].has # {}
        BY <3>1, <4>1
      <4>3. CASE objs[o].owner = NoOwner
        BY <2>2, <4>1, <4>2, <4>3 DEF ObjectInv
      <4>4. CASE objs[o].owner = w
        <5>1. ~objs[o].entry
          BY <4>1, <4>4
        <5>2. Nobody(o)
          <6>1. \A u \in Threads : thr[u].obj = o => thr[u].owner = w
            BY <4>4 DEF MemoryInv, CallInv, Obj
          <6> QED
            BY <6>1 DEF Nobody, Obj
        <5> QED
          BY <1>1, <2>2, <4>2, <4>4, <5>1, <5>2 DEF ObjectInv
      <4>5. CASE objs[o].owner # NoOwner /\ objs[o].owner # w
        <5>1. objs[o].owner \in up' /\ objs[o].owner # objs'[o].owner
          BY <1>1, <2>2, <2>5, <4>5 DEF ObjectInv
        <5>2. objs'[o] # objs[o]
          BY <5>1
        <5>3. objs[o].has = {}
          BY <5>1, <5>2, DestructFacts
        <5> QED
          BY <4>2, <5>3
      <4> QED
        BY <4>3, <4>4, <4>5
    <3> QED
      BY <2>3, <2>5, <2>6, <3>1, <3>2, <3>3, <3>4 DEF ObjectInv, Session
  <2> QED
    BY <2>4, <2>5
<1>8. "import" \notin spoiled' => harm' = {}
  BY DEF MemoryInv
<1> QED
  BY <1>2, <1>5, <1>6, <1>7, <1>8 DEF MemoryInv

LEMMA destroyEngineKept ==
  ASSUME MemoryInv, NEW w \in Owners, destroyEngine(w)
  PROVE  MemoryInv'
<1>1. /\ ~Session /\ w \in up /\ Destruct(w) /\ UNCHANGED <<kind, mtx, thr, harm, spoiled>>
      /\ \A u \in Threads : thr[u].owner # w
  BY DEF destroyEngine, In
<1>2. thr' \in [Threads -> ThreadRecord] /\ mtx' \in [Owners -> Threads \cup {NoThread}]
  BY <1>1 DEF MemoryInv, StateTyped
<1> QED
  BY <1>1, <1>2, Destructed

LEMMA deleteExecutorKept ==
  ASSUME MemoryInv, NEW t \in Threads, deleteExecutor(t)
  PROVE  MemoryInv'
<1> DEFINE w == thr[t].owner
<1>1. /\ thr[t].pc = "loop" /\ thr[t].stage = "executor" /\ Destruct(w)
      /\ thr' = [thr EXCEPT ![t] = Idle] /\ UNCHANGED <<kind, mtx, harm, spoiled>>
  BY DEF deleteExecutor, At
<1>2. /\ thr[t].obj = 0 /\ w \in up /\ StateTyped /\ (spoiled = {} => Freed(t))
      /\ \A u \in Threads \ {t} : thr[u].owner # w
  BY <1>1, LoopFacts
<1>3. /\ thr' \in [Threads -> ThreadRecord] /\ thr'[t] = Idle
      /\ \A u \in Threads \ {t} : thr'[u] = thr[u]
  BY <1>1, <1>2, ThreadChanged, RecordsTyped
<1>4. spoiled = {} => \A o \in Obj : objs[o].owner = w => ~objs[o].entry
  BY <1>1, <1>2 DEF Freed
<1>5. /\ \A u \in Threads : thr[u].owner = w => thr[u].obj = 0
      /\ \A u \in Threads : IF thr[u].owner = w THEN thr'[u] = Idle ELSE thr'[u] = thr[u]
  BY <1>2, <1>3
<1>6. mtx' \in [Owners -> Threads \cup {NoThread}]
  BY <1>1, <1>2 DEF StateTyped
<1> QED
  BY <1>1, <1>2, <1>3, <1>4, <1>5, <1>6, Destructed
-----------------------------------------------------------------------------
LEMMA MemoryInit == Init => MemoryInv
<1> SUFFICES ASSUME Init PROVE MemoryInv
  OBVIOUS
<1>1. /\ kind \in AllKinds
      /\ kind \in Kinds /\ up = {} /\ refCnt = 0 /\ ionOpen = FALSE
      /\ harm = {} /\ spoiled = {}
  BY MemoryAssumption DEF Init
<1>2. \A o \in Obj : objs[o] = Nothing
  BY DEF Init
<1>3. \A t \in Threads : thr[t] = Idle
  BY DEF Init
<1>4. StateTyped
  <2>1. objs \in [Obj -> ObjRecord]
    BY RecordsTyped DEF Init
  <2>2. thr \in [Threads -> ThreadRecord]
    BY RecordsTyped DEF Init
  <2>3. mtx \in [Owners -> Threads \cup {NoThread}]
    BY DEF Init
  <2> QED
    BY <1>1, <2>1, <2>2, <2>3 DEF StateTyped
<1>5. OneEach
  BY <1>3 DEF OneEach, Idle
<1>6. CountInv
  BY <1>1, FS_EmptySet DEF CountInv
<1>7. ASSUME NEW t \in Threads
      PROVE  CallInv(t)
  BY <1>3 DEF CallInv, Working, Idle
<1>8. ASSUME NEW o \in Obj
      PROVE  ObjectInv(o)
  <2>1. /\ objs[o].owner = NoOwner /\ ~objs[o].entry /\ ~objs[o].held /\ objs[o].has = {}
        /\ objs[o].origin = "alloc"
    BY <1>2 DEF Nothing
  <2>2. "alloc" \in DOMAIN Functions[kind]
    BY <1>1, FunctionFacts
  <2> QED
    BY <2>1, <2>2 DEF ObjectInv
<1> QED
  BY <1>1, <1>4, <1>5, <1>6, <1>7, <1>8 DEF MemoryInv

LEMMA MemoryStutter == MemoryInv /\ UNCHANGED vars => MemoryInv'
<1> SUFFICES ASSUME MemoryInv, UNCHANGED vars PROVE MemoryInv'
  OBVIOUS
<1>1. UNCHANGED <<kind, up, refCnt, ionOpen, objs, mtx, thr, harm, spoiled>>
  BY DEF vars
<1>2. StateTyped' /\ OneEach' /\ CountInv' /\ ("import" \notin spoiled' => harm' = {})
  BY <1>1 DEF MemoryInv, StateTyped, OneEach, CountInv, Counts, Session
<1>3. ASSUME NEW t \in Threads
      PROVE  CallInv(t)'
  BY <1>1 DEF MemoryInv, CallInv, Working, Taking, Giving, Destroying, Freed, StepsOf,
              IgnoredBy, Needed, Session, GivenUp, Denied, Stranded
<1>4. ASSUME NEW o \in Obj
      PROVE  ObjectInv(o)'
  BY <1>1 DEF MemoryInv, ObjectInv, Nobody, StepsOf, IgnoredBy, Needed, Session, GivenUp, Denied, Stranded
<1> QED
  BY <1>2, <1>3, <1>4 DEF MemoryInv

LEMMA MemoryStep == MemoryInv /\ [Next]_vars => MemoryInv'
<1> SUFFICES ASSUME MemoryInv, [Next]_vars PROVE MemoryInv'
  OBVIOUS
<1>1. ASSUME NEW w \in Owners, Construct(w) \/ destroyEngine(w)
      PROVE  MemoryInv'
  BY <1>1, ConstructKept, destroyEngineKept
<1>2. ASSUME NEW t \in Threads, NEW w \in Owners,
             (\E op \in Creating \cap DOMAIN Functions[kind] : BeginCreate(t, w, op))
               \/ deleteInstance(t, w)
      PROVE  MemoryInv'
  BY <1>2, BeginCreateKept, deleteInstanceKept
<1>3. ASSUME NEW t \in Threads, NEW o \in Obj, BeginRelease(t, o)
      PROVE  MemoryInv'
  BY <1>3, BeginReleaseKept
<1>4. ASSUME NEW t \in Threads,
             \/ Enter(t) \/ Acquire(t) \/ AcquireFails(t) \/ Unwind(t) \/ Unwound(t)
             \/ Insert(t) \/ Release(t) \/ Refused(t) \/ Released(t)
      PROVE  MemoryInv'
  BY <1>4, EnterKept, AcquireKept, AcquireFailsKept, UnwindKept, UnwoundKept, InsertKept,
     ReleaseKept, RefusedKept, ReleasedKept
<1>5. ASSUME NEW t \in Threads, freeResidual(t) \/ noResidual(t) \/ deleteExecutor(t)
      PROVE  MemoryInv'
  BY <1>5, freeResidualKept, noResidualKept, deleteExecutorKept
<1>6. CASE Next
  BY <1>1, <1>2, <1>3, <1>4, <1>5, <1>6 DEF Next
<1>7. CASE UNCHANGED vars
  BY <1>7, MemoryStutter
<1> QED
  BY <1>6, <1>7

LEMMA MemoryInvariant == Spec => []MemoryInv
BY MemoryInit, MemoryStep, PTL DEF Spec

\* The values the C++ types allow; the count of the ION descriptor's owners
\* never passes the number of owners and never goes below zero.
THEOREM TypesDram == Spec => []TypeOK
<1>1. ASSUME MemoryInv
      PROVE  TypeOK
  <2>1. /\ IsFiniteSet(Owners) /\ up \subseteq Owners
        /\ Cardinality(up) <= Cardinality(Owners) /\ Cardinality(Owners) \in Nat
    BY <1>1, MemoryAssumption, FS_Subset, FS_CardinalityType DEF MemoryInv, StateTyped
  <2>2. refCnt \in Nat /\ (refCnt = Cardinality(up) \/ refCnt = 0)
    BY <1>1 DEF MemoryInv, CountInv, StateTyped
  <2>3. refCnt \in 0 .. Cardinality(Owners)
    BY <2>1, <2>2
  <2> QED
    BY <1>1, <2>3 DEF MemoryInv, StateTyped, TypeOK, ObjRecord
<1> QED
  BY <1>1, MemoryInvariant, PTL

\* Memory a caller has keeps what its allocator made it of, in every order of
\* the kernel calls of all threads, and nothing is released twice or for
\* somebody else as long as no import is left to a session's destructor.
THEOREM HeldWholeDram == Spec => []HeldMemoryWhole
<1>1. ASSUME MemoryInv
      PROVE  HeldMemoryWhole
  <2>1. ASSUME NEW o \in Obj, objs[o].held
        PROVE  Needed(objs[o].origin) \subseteq objs[o].has
    BY <1>1, <2>1 DEF MemoryInv, ObjectInv
  <2> QED
    BY <1>1, <2>1 DEF MemoryInv, HeldMemoryWhole, Needed, StepsOf, IgnoredBy
<1> QED
  BY <1>1, MemoryInvariant, PTL

\* After any failures of kernel calls each resource an owner has is listed, in
\* the hands of a call, refused itself by the kernel, or behind the refusal at
\* which the function that releases it returns; a session's destructor leaves
\* nothing else behind, and the ION descriptor is open while an owner needs it.
THEOREM NothingLostDram == Spec => []NothingLost
<1>1. ASSUME MemoryInv
      PROVE  NothingLost
  <2>1. ASSUME NEW o \in Obj, objs[o].owner # NoOwner
        PROVE  Reachable(o) \/ objs[o].has \subseteq GivenUp(objs[o])
    BY <1>1, <2>1 DEF MemoryInv, ObjectInv, Nobody, Reachable
  <2>2. ASSUME Session, spoiled = {}, NEW o \in Obj, objs[o].owner = NoOwner
        PROVE  objs[o].has \subseteq GivenUp(objs[o])
    BY <1>1, <2>2 DEF MemoryInv, ObjectInv
  <2>3. Counts => ionOpen = (up # {})
    BY <1>1 DEF MemoryInv, CountInv
  <2> QED
    BY <2>1, <2>2, <2>3 DEF NothingLost, GivenUp
<1> QED
  BY <1>1, MemoryInvariant, PTL

=============================================================================
