--------------------------- MODULE EdmaFillProofs ---------------------------
(***************************************************************************)
(* Proofs about EdmaFill, for any number of threads and any tasks: what    *)
(* the generators that all threads share do to the address fields a thread *)
(* is told of, that a fill stays inside what its task was promised, and    *)
(* that the descriptors of a finished task move the data its infos ask     *)
(* for.  The last part goes in four steps: what a run of descriptors does  *)
(* to memory, that the descriptors of each kind of info do what the info   *)
(* asks, that the two threads' fills leave exactly these descriptors in    *)
(* the buffer (ContentInv), and that binding the addresses to the fields   *)
(* told makes them these descriptors.                                      *)
(***************************************************************************)
EXTENDS EdmaFill, SumsProofs, SequenceTheorems

\* The arrays of this model hold values of many kinds.
IsSeq(s) == \E S : s \in Seq(S)

LEMMA SeqFacts ==
  ASSUME NEW s, IsSeq(s)
  PROVE  Len(s) \in Nat /\ DOMAIN s = 1 .. Len(s)
BY DEF IsSeq

\* every element of c is the one of s in its place, or one of r
From(c, s, r) ==
  \A k \in DOMAIN c : \/ k \in DOMAIN s /\ c[k] = s[k]
                      \/ \E j \in DOMAIN r : c[k] = r[j]

LEMMA ConcatFacts ==
  ASSUME NEW s, NEW r, IsSeq(s), IsSeq(r)
  PROVE  IsSeq(s \o r) /\ From(s \o r, s, r)
<1>1. PICK S : s \in Seq(S)
  BY DEF IsSeq
<1>2. PICK R : r \in Seq(R)
  BY DEF IsSeq
<1>3. PICK T : T = S \cup R
  OBVIOUS
<1>4. s \in Seq(T) /\ r \in Seq(T)
  BY <1>1, <1>2, <1>3
<1>5. s \o r \in Seq(T)
  BY <1>4
<1>6. ASSUME NEW k \in DOMAIN (s \o r)
      PROVE  \/ k \in DOMAIN s /\ (s \o r)[k] = s[k]
             \/ \E j \in DOMAIN r : (s \o r)[k] = r[j]
  <2>1. k \in 1 .. Len(s) + Len(r) /\ Len(s) \in Nat /\ Len(r) \in Nat
    BY <1>4, <1>6
  <2>2. CASE k <= Len(s)
    BY <1>4, <2>1, <2>2
  <2>3. CASE k > Len(s)
    <3>1. k - Len(s) \in DOMAIN r /\ (s \o r)[k] = r[k - Len(s)]
      BY <1>4, <2>1, <2>3
    <3> QED
      BY <3>1
  <2> QED
    BY <2>1, <2>2, <2>3
<1> QED
  BY <1>5, <1>6 DEF IsSeq, From

LEMMA TupleSeqs ==
  /\ IsSeq(<<>>)
  /\ \A a : IsSeq(<<a>>)
  /\ \A a, b : IsSeq(<<a, b>>)
  /\ \A a, b, c : IsSeq(<<a, b, c>>)
<1>1. IsSeq(<<>>)
  BY DEF IsSeq
<1>2. ASSUME NEW a
      PROVE  IsSeq(<<a>>)
  <2>1. <<a>> \in Seq({a})
    OBVIOUS
  <2> QED
    BY <2>1 DEF IsSeq
<1>3. ASSUME NEW a, NEW b
      PROVE  IsSeq(<<a, b>>)
  <2>1. <<a, b>> \in Seq({a, b})
    OBVIOUS
  <2> QED
    BY <2>1 DEF IsSeq
<1>4. ASSUME NEW a, NEW b, NEW c
      PROVE  IsSeq(<<a, b, c>>)
  <2>1. <<a, b, c>> \in Seq({a, b, c})
    OBVIOUS
  <2> QED
    BY <2>1 DEF IsSeq
<1> QED
  BY <1>1, <1>2, <1>3, <1>4
-----------------------------------------------------------------------------
\* Every generator reports an array of address fields, whatever the info.
LEMMA PadBinds ==
  ASSUME NEW i
  PROVE  IsSeq(fillDescPad(i).binds)
<1>1. \A k, d : IsSeq(bindAt(i, k, d))
  <2> SUFFICES ASSUME NEW k, NEW d
               PROVE  IsSeq(bindAt(i, k, d))
    OBVIOUS
  <2>1. PICK base : base = (k - 1) * descSize(0)
    OBVIOUS
  <2>2. PICK s : s = IF d.fill THEN <<>> ELSE <<Bind(base + SrcAddr0, "in", d.src[1].addr)>>
    OBVIOUS
  <2>3. PICK r : r = <<Bind(base + DstAddr0, "out", d.dst[1].addr)>>
    OBVIOUS
  <2>4. IsSeq(s) /\ IsSeq(r)
    BY <2>2, <2>3, TupleSeqs
  <2>5. bindAt(i, k, d) = s \o r
    BY <2>1, <2>2, <2>3 DEF bindAt
  <2> QED
    BY <2>4, <2>5, ConcatFacts
<1>2. \A s, r : IsSeq(s) /\ IsSeq(r) => IsSeq(s \o r)
  BY ConcatFacts
<1>3. IsSeq(bindAt(i, 1, padFill(i)) \o bindAt(i, 2, padCentre(i)))
  BY <1>1, <1>2
<1>4. IsSeq(bindAt(i, 1, padCentre(i)) \o bindAt(i, 2, padLeft(i)) \o bindAt(i, 3, padRight(i))
              \o bindAt(i, 4, padTop(i)) \o bindAt(i, 5, padBottom(i)))
  <2>1. IsSeq(bindAt(i, 1, padCentre(i)) \o bindAt(i, 2, padLeft(i)))
    BY <1>1, <1>2
  <2>2. IsSeq(bindAt(i, 1, padCentre(i)) \o bindAt(i, 2, padLeft(i)) \o bindAt(i, 3, padRight(i)))
    BY <1>1, <1>2, <2>1
  <2>3. IsSeq(bindAt(i, 1, padCentre(i)) \o bindAt(i, 2, padLeft(i)) \o bindAt(i, 3, padRight(i))
                \o bindAt(i, 4, padTop(i)))
    BY <1>1, <1>2, <2>2
  <2> QED
    BY <1>1, <1>2, <2>3
<1>5. CASE i.mode = "constant"
  BY <1>3, <1>5 DEF fillDescPad, Filled
<1>6. CASE i.mode = "edge"
  BY <1>4, <1>6 DEF fillDescPad, Filled
<1>7. CASE i.mode \notin {"constant", "edge"}
  BY <1>7, TupleSeqs DEF fillDescPad, Refused, Filled
<1> QED
  BY <1>5, <1>6, <1>7
LEMMA TensorBinds ==
  ASSUME NEW i, i.info_type = "NN"
  PROVE  IsSeq(fillDescNN(i).binds)
<1>1. IsSeq(InOut(0)) /\ \A x : IsSeq(InOut(0) \o <<x>>)
  BY TupleSeqs, ConcatFacts DEF InOut
<1> DEFINE type == checkDescrpType(i)
<1>6. i.inFormat \in {"DEPTHTOSPACE", "DEPTHTOSPACE_FAST", "S2D_FAST"} => type = 15
  BY DEF checkDescrpType
<1> HIDE DEF type
<1>2. CASE i.inFormat = "DEPTHTOSPACE"
  BY <1>1, <1>2, <1>6 DEF type, fillDescNN, Filled
<1>3. CASE i.inFormat = "DEPTHTOSPACE_FAST"
  <2>1. PICK x : x = Bind(DstAddr1, "out", i.shape_w * (i.shape_c \div i.block_size) * i.dst_type_size)
    OBVIOUS
  <2>2. fillDescNN(i).binds = InOut(0) \o <<x>>
    BY <1>3, <1>6, <2>1 DEF type, fillDescNN, Filled
  <2> QED
    BY <1>1, <2>2
<1>4. CASE i.inFormat = "S2D_FAST"
  <2>1. PICK x : x = Bind(SrcAddr1, "in", i.shape_w * i.src_type_size)
    OBVIOUS
  <2>2. fillDescNN(i).binds = InOut(0) \o <<x>>
    BY <1>4, <1>6, <2>1 DEF type, fillDescNN, Filled
  <2> QED
    BY <1>1, <2>2
<1>5. CASE i.inFormat \notin {"DEPTHTOSPACE", "DEPTHTOSPACE_FAST", "S2D_FAST"}
  <2>1. fillDescNN(i).binds \in {InOut(0), <<Bind(SrcAddr1, "in", 0), Bind(SrcAddr0, "in", 0),
                                             Bind(DstAddr0, "out", 0)>>}
    BY <1>5 DEF type, fillDescNN, Filled
  <2> QED
    BY <1>1, <2>1, TupleSeqs
<1> QED
  BY <1>2, <1>3, <1>4, <1>5

LEMMA BindsSeq ==
  ASSUME NEW v, NEW i, i.info_type \in Supported
  PROVE  IsSeq(fillDesc(v, i).binds)
<1>1. IsSeq(InOut(0)) /\ IsSeq(<<>>)
  BY TupleSeqs DEF InOut
<1>2. CASE i.info_type = "GENERAL"
  <2>1. fillDesc(v, i).binds \in {fillDescV20(i).binds, fillDescV0(i).binds}
    BY <1>2 DEF fillDesc
  <2>2. fillDescV20(i).binds = <<>>
    BY DEF fillDescV20, Filled
  <2>3. fillDescV0(i).binds \in {InOut(0), <<>>}
    BY DEF fillDescV0, Filled
  <2> QED
    BY <1>1, <2>1, <2>2, <2>3
<1>3. CASE i.info_type = "DATA"
  <2>1. fillDesc(v, i).binds \in {fillDescDataV20(i).binds, fillDescData(i).binds}
    BY <1>3 DEF fillDesc
  <2>2. fillDescDataV20(i).binds = <<>>
    BY DEF fillDescDataV20, Filled, Refused
  <2>3. fillDescData(i).binds \in {InOut(0), <<>>}
    BY DEF fillDescData, Filled, Refused
  <2> QED
    BY <1>1, <2>1, <2>2, <2>3
<1>4. CASE i.info_type = "UFBC"
  <2>1. fillDesc(v, i).binds \in {fillDescUFBCV20(i).binds, fillDescUFBC(i).binds}
    BY <1>4 DEF fillDesc
  <2>2. fillDescUFBCV20(i).binds = ufbcBinds(i, 20) /\ fillDescUFBC(i).binds = ufbcBinds(i, 5)
    BY DEF fillDescUFBCV20, fillDescUFBC, Filled
  <2>3. \A type : IsSeq(ufbcBinds(i, type))
    BY TupleSeqs DEF ufbcBinds
  <2> QED
    BY <2>1, <2>2, <2>3
<1>5. CASE i.info_type = "NN"
  <2>1. fillDesc(v, i) = fillDescNN(i)
    BY <1>5 DEF fillDesc
  <2> QED
    BY <1>5, <2>1, TensorBinds
<1>6. CASE i.info_type = "SDK"
  <2>1. fillDesc(v, i).binds = fillDescSDK(i).binds
    BY <1>6 DEF fillDesc
  <2>2. fillDescSDK(i).binds = <<>>
    BY DEF fillDescSDK, Filled, Refused
  <2> QED
    BY <1>1, <2>1, <2>2
<1>7. CASE i.info_type = "SLICE"
  <2>1. fillDesc(v, i).binds = fillDescSlice(i).binds
    BY <1>7 DEF fillDesc
  <2>2. PICK x, y : x = Bind(SrcAddr0, "in", i.src_addr) /\ y = Bind(DstAddr0, "out", i.dst_addr)
    OBVIOUS
  <2>3. fillDescSlice(i).binds = <<x, y>>
    BY <2>2 DEF fillDescSlice, Filled
  <2> QED
    BY <2>1, <2>3, TupleSeqs
<1>8. CASE i.info_type = "PAD"
  <2>1. fillDesc(v, i) = fillDescPad(i)
    BY <1>8 DEF fillDesc
  <2> QED
    BY <2>1, PadBinds
<1>9. CASE i.info_type = "BAYER_TO_RGGB"
  <2>1. fillDesc(v, i).binds = fillDescBayerToRGGB(i).binds
    BY <1>9 DEF fillDesc
  <2>2. PICK x, y, z : x = Bind(SrcAddr0, "in", i.src_addr) /\ y = Bind(SrcAddr1, "in", i.src_addr + i.src_stride_x)
                         /\ z = Bind(DstAddr0, "out", i.dst_addr)
    OBVIOUS
  <2>3. fillDescBayerToRGGB(i).binds \in {<<x, y, z>>, <<>>}
    BY <2>2 DEF fillDescBayerToRGGB, Filled, Refused
  <2> QED
    BY <2>1, <2>3, TupleSeqs
<1>10. CASE i.info_type = "RGGB_TO_BAYER"
  <2>1. fillDesc(v, i).binds = fillDescRGGBToBayer(i).binds
    BY <1>10 DEF fillDesc
  <2>2. PICK x, y, z : x = Bind(SrcAddr0, "in", i.src_addr) /\ y = Bind(DstAddr0, "out", i.dst_addr)
                         /\ z = Bind(DstAddr1, "out", i.dst_addr + i.dst_stride_x)
    OBVIOUS
  <2>3. fillDescRGGBToBayer(i).binds \in {<<x, y, z>>, <<>>}
    BY <2>2 DEF fillDescRGGBToBayer, Filled, Refused
  <2> QED
    BY <2>1, <2>3, TupleSeqs
<1> QED
  BY <1>2, <1>3, <1>4, <1>5, <1>6, <1>7, <1>8, <1>9, <1>10 DEF Supported, V20Types
-----------------------------------------------------------------------------
\* A fill of another thread at the same time may have moved the head of the
\* generator t uses, if its task has an info of the same type.
Taken(t, type) ==
  \E u \in shared[t] : \E j \in DOMAIN task[u] : task[u][j].info_type = type

Fill == {"head", "fill"}

TaskInv(t) ==
  /\ Len(task[t]) \in Nat /\ DOMAIN task[t] = 1 .. Len(task[t]) /\ next[t] \in Nat
  /\ pc[t] \in {"idle", "queried"} => next[t] = 1 /\ offsets[t] = <<>>
  /\ pc[t] \in Fill => next[t] \in 1 .. Len(task[t])
  /\ IsSeq(offsets[t])

HeadInv(t) ==
  pc[t] = "fill" => LET type == task[t][next[t]].info_type
                    IN  type \in Supported /\ (head[type] = t \/ Taken(t, type))

OffsetsOf(t) ==
  \A k \in DOMAIN offsets[t] :
    offsets[t][k].buffer = t \/ Taken(t, task[t][offsets[t][k].info].info_type)

SharedInv ==
  \A t \in Threads : /\ \A u \in shared[t] : pc[u] \notin {"idle", "queried"}
                     /\ \A u \in filling \ {t} : pc[t] \in Fill => u \in shared[t]

FillTypes ==
  /\ hwVer \in Versions
  /\ head \in [Supported -> Threads \cup {NoThread}]
  /\ pc \in [Threads -> {"idle", "queried", "head", "fill", "done"}]
  /\ shared \in [Threads -> SUBSET Threads]
  /\ DOMAIN task = Threads /\ DOMAIN next = Threads /\ DOMAIN offsets = Threads

FillInv ==
  /\ FillTypes /\ SharedInv
  /\ \A t \in Threads : TaskInv(t) /\ HeadInv(t) /\ OffsetsOf(t)
-----------------------------------------------------------------------------
\* A task a thread shares a fill with stays as it is.
LEMMA TakenKept ==
  ASSUME NEW u \in Threads, NEW type, Taken(u, type), shared[u] \subseteq shared'[u],
         \A w \in shared[u] : task'[w] = task[w]
  PROVE  Taken(u, type)'
BY DEF Taken

\* A thread that takes no step and whose generators stay, or are taken by one
\* that fills at the same time.
LEMMA OtherKept ==
  ASSUME FillInv, NEW u \in Threads, pc'[u] = pc[u], task'[u] = task[u], next'[u] = next[u],
         offsets'[u] = offsets[u], shared[u] \subseteq shared'[u],
         \A w \in shared[u] : task'[w] = task[w],
         \A type \in Supported : pc[u] = "fill" /\ type = task[u][next[u]].info_type =>
                                   head'[type] = head[type] \/ Taken(u, type)'
  PROVE  TaskInv(u)' /\ HeadInv(u)' /\ OffsetsOf(u)'
<1>1. TaskInv(u) /\ HeadInv(u) /\ OffsetsOf(u)
  BY DEF FillInv
<1>2. TaskInv(u)'
  BY <1>1 DEF TaskInv
<1>3. \A type : Taken(u, type) => Taken(u, type)'
  BY TakenKept
<1>4. HeadInv(u)'
  <2> SUFFICES ASSUME pc[u] = "fill"
               PROVE  LET type == task[u][next[u]].info_type
                      IN  type \in Supported /\ (head'[type] = u \/ Taken(u, type)')
    BY DEF HeadInv
  <2>1. PICK type : type = task[u][next[u]].info_type
    OBVIOUS
  <2>2. type \in Supported /\ (head[type] = u \/ Taken(u, type))
    BY <1>1, <2>1 DEF HeadInv
  <2>3. type \in Supported /\ (head'[type] = u \/ Taken(u, type)')
    BY <1>3, <2>1, <2>2
  <2> QED
    BY <2>1, <2>3
<1>5. OffsetsOf(u)'
  BY <1>1, <1>3 DEF OffsetsOf
<1> QED
  BY <1>2, <1>4, <1>5

LEMMA QueryStep ==
  ASSUME FillInv, NEW t \in Threads, NEW infos \in Tasks[hwVer][t], queryTransDescSize(t, infos)
  PROVE  FillInv'
<1>1. /\ pc[t] = "idle" /\ task' = [task EXCEPT ![t] = infos]
      /\ pc' = [pc EXCEPT ![t] = "queried"] /\ UNCHANGED <<hwVer, head, next, offsets, shared>>
  BY DEF queryTransDescSize, out
<1>2. FillTypes /\ SharedInv /\ TaskInv(t)
  BY DEF FillInv
<1>3. Len(infos) \in Nat /\ DOMAIN infos = 1 .. Len(infos)
  BY <1>2, TasksAssumption DEF FillTypes
<1>4. pc'[t] = "queried" /\ task'[t] = infos /\ next'[t] = 1 /\ offsets'[t] = <<>>
  BY <1>1, <1>2 DEF FillTypes, TaskInv
<1>5. FillTypes'
  BY <1>1, <1>2 DEF FillTypes
<1>6. filling' = filling /\ t \notin filling
  BY <1>1, <1>2, <1>4 DEF filling, FillTypes
<1>7. \A w \in Threads : t \notin shared[w]
  BY <1>1, <1>2 DEF SharedInv
<1>8. SharedInv'
  BY <1>1, <1>2, <1>4, <1>6, <1>7 DEF SharedInv, FillTypes, filling, Fill
<1>9. TaskInv(t)' /\ HeadInv(t)' /\ OffsetsOf(t)'
  BY <1>3, <1>4, TupleSeqs DEF TaskInv, HeadInv, OffsetsOf, Fill
<1>10. ASSUME NEW u \in Threads \ {t}
       PROVE  TaskInv(u)' /\ HeadInv(u)' /\ OffsetsOf(u)'
  <2>1. \A w \in shared[u] : task'[w] = task[w]
    BY <1>1, <1>2, <1>7 DEF FillTypes
  <2> QED
    BY <1>1, <1>2, <2>1, OtherKept DEF FillTypes
<1> QED
  BY <1>5, <1>8, <1>9, <1>10 DEF FillInv

LEMMA TransStep ==
  ASSUME FillInv, NEW t \in Threads, transTaskInfo(t)
  PROVE  FillInv'
<1>1. /\ pc[t] = "queried" /\ UNCHANGED <<hwVer, head, task, next, offsets>>
      /\ pc' = [pc EXCEPT ![t] = IF task[t] # <<>> /\ supported(task[t][1])
                                 THEN "head" ELSE "done"]
      /\ shared' = [u \in Threads |-> IF u = t THEN filling
                                      ELSE IF u \in filling THEN shared[u] \cup {t}
                                      ELSE shared[u]]
  BY DEF transTaskInfo, mine, out
<1>2. FillTypes /\ SharedInv /\ TaskInv(t)
  BY DEF FillInv
<1>3. /\ pc'[t] \in {"head", "done"} /\ next'[t] = 1 /\ offsets'[t] = <<>>
      /\ pc'[t] = "head" => task[t] # <<>>
      /\ \A u \in Threads \ {t} : pc'[u] = pc[u]
  BY <1>1, <1>2 DEF FillTypes, TaskInv
<1>4. t \notin filling /\ filling' \subseteq filling \cup {t} /\ filling \subseteq Threads
  BY <1>1, <1>3 DEF filling
<1>5. FillTypes'
  BY <1>1, <1>2, <1>4 DEF FillTypes
<1>6. SharedInv'
  <2> SUFFICES ASSUME NEW v \in Threads
               PROVE  /\ \A u \in shared'[v] : pc'[u] \notin {"idle", "queried"}
                      /\ \A u \in filling' \ {v} : pc'[v] \in Fill => u \in shared'[v]
    BY DEF SharedInv
  <2>1. \A u \in shared'[v] : pc'[u] \notin {"idle", "queried"}
    <3> SUFFICES ASSUME NEW u \in shared'[v]
                 PROVE  pc'[u] \notin {"idle", "queried"}
      OBVIOUS
    <3>1. u \in Threads /\ (u = t \/ u \in filling \/ u \in shared[v])
      BY <1>1, <1>2, <1>4 DEF FillTypes
    <3> QED
      BY <1>2, <1>3, <3>1 DEF SharedInv, filling
  <2>2. ASSUME NEW u \in filling' \ {v}, pc'[v] \in Fill
        PROVE  u \in shared'[v]
    <3>1. CASE v = t
      BY <1>1, <1>4, <2>2, <3>1
    <3>2. CASE v # t
      <4>1. v \in filling
        BY <1>3, <2>2, <3>2 DEF filling, Fill
      <4> QED
        BY <1>1, <1>2, <1>3, <1>4, <2>2, <3>2, <4>1 DEF SharedInv, filling, Fill
    <3> QED
      BY <3>1, <3>2
  <2> QED
    BY <2>1, <2>2
<1>7. TaskInv(t)' /\ HeadInv(t)' /\ OffsetsOf(t)'
  <2>1. task[t] # <<>> => Len(task[t]) >= 1
    <3>1. Len(task[t]) \in Nat /\ DOMAIN task[t] = 1 .. Len(task[t])
      BY <1>2 DEF TaskInv
    <3> QED
      BY <3>1
  <2> QED
    BY <1>1, <1>2, <1>3, <2>1, TupleSeqs DEF TaskInv, HeadInv, OffsetsOf, Fill
<1>8. ASSUME NEW u \in Threads \ {t}
      PROVE  TaskInv(u)' /\ HeadInv(u)' /\ OffsetsOf(u)'
  <2>1. shared[u] \subseteq shared'[u]
    BY <1>1
  <2> QED
    BY <1>1, <1>3, <2>1, OtherKept
<1> QED
  BY <1>5, <1>6, <1>7, <1>8 DEF FillInv
\* Steps of a fill leave the tasks and the record of who shares a fill alone.
LEMMA SharedKept ==
  ASSUME FillInv, NEW t \in Threads, pc[t] \in Fill, pc'[t] \in Fill \cup {"done"},
         \A u \in Threads \ {t} : pc'[u] = pc[u], UNCHANGED shared
  PROVE  SharedInv'
<1>1. SharedInv /\ FillTypes
  BY DEF FillInv
<1>2. filling' \subseteq filling /\ (pc[t] \in Fill => t \in filling)
  BY DEF filling, Fill
<1>3. \A u \in Threads : /\ pc'[u] \in Fill => pc[u] \in Fill
                         /\ pc[u] \notin {"idle", "queried"} => pc'[u] \notin {"idle", "queried"}
  BY DEF Fill
<1> QED
  BY <1>1, <1>2, <1>3 DEF SharedInv, FillTypes

LEMMA HeadStep ==
  ASSUME FillInv, NEW t \in Threads, setHeadDesc(t)
  PROVE  FillInv'
<1> DEFINE type == task[t][next[t]].info_type
<1>1. /\ pc[t] = "head" /\ UNCHANGED <<hwVer, task, next, offsets, shared>>
      /\ IF type \in Supported
         THEN head' = [head EXCEPT ![type] = t] /\ pc' = [pc EXCEPT ![t] = "fill"]
         ELSE pc' = [pc EXCEPT ![t] = "done"] /\ UNCHANGED head
  BY DEF setHeadDesc, mine, out
<1>2. FillTypes /\ SharedInv /\ TaskInv(t) /\ OffsetsOf(t)
  BY DEF FillInv
<1>3. /\ pc'[t] = IF type \in Supported THEN "fill" ELSE "done"
      /\ \A u \in Threads \ {t} : pc'[u] = pc[u]
  BY <1>1, <1>2 DEF FillTypes
<1>4. FillTypes'
  BY <1>1, <1>2 DEF FillTypes
<1>5. SharedInv'
  BY <1>1, <1>3, SharedKept DEF Fill
<1>6. TaskInv(t)'
  BY <1>1, <1>2, <1>3 DEF TaskInv, Fill
<1>7. HeadInv(t)'
  BY <1>1, <1>2, <1>3 DEF HeadInv, FillTypes
<1>8. OffsetsOf(t)'
  BY <1>1, <1>2 DEF OffsetsOf, Taken
<1>9. ASSUME NEW u \in Threads \ {t}
      PROVE  TaskInv(u)' /\ HeadInv(u)' /\ OffsetsOf(u)'
  <2>1. ASSUME pc[u] = "fill", NEW g, g = task[u][next[u]].info_type, g \in Supported
        PROVE  head'[g] = head[g] \/ Taken(u, g)'
    <3>1. CASE type = g
      <4>1. t \in shared[u]
        BY <1>1, <1>2, <2>1 DEF SharedInv, filling, Fill
      <4>2. next[t] \in DOMAIN task[t]
        BY <1>1, <1>2 DEF TaskInv, Fill
      <4> QED
        BY <1>1, <3>1, <4>1, <4>2 DEF Taken
    <3>2. CASE type # g
      BY <1>1, <1>2, <2>1, <3>2 DEF FillTypes
    <3> QED
      BY <3>1, <3>2
  <2>2. \A g \in Supported : pc[u] = "fill" /\ g = task[u][next[u]].info_type =>
                               head'[g] = head[g] \/ Taken(u, g)'
    BY <2>1
  <2> HIDE DEF type
  <2> QED
    BY <1>1, <1>3, <2>2, OtherKept
<1> QED
  BY <1>4, <1>5, <1>6, <1>7, <1>8, <1>9 DEF FillInv

LEMMA FillInfoStep ==
  ASSUME FillInv, NEW t \in Threads, fillInfo(t)
  PROVE  FillInv'
<1> DEFINE i == task[t][next[t]]
<1>1. PICK r : r = reported(t, fillDesc(hwVer, i).binds)
  OBVIOUS
<1>2. /\ pc[t] = "fill" /\ UNCHANGED <<hwVer, head, task, shared>>
      /\ offsets' = [offsets EXCEPT ![t] = @ \o r]
      /\ next' = [next EXCEPT ![t] = @ + 1]
      /\ pc' = [pc EXCEPT ![t] = IF next[t] = Len(task[t]) THEN "done" ELSE "head"]
  BY <1>1 DEF fillInfo, mine
<1>3. FillTypes /\ SharedInv /\ TaskInv(t) /\ HeadInv(t) /\ OffsetsOf(t)
  BY DEF FillInv
<1>4. /\ pc'[t] = IF next[t] = Len(task[t]) THEN "done" ELSE "head"
      /\ next'[t] = next[t] + 1 /\ offsets'[t] = offsets[t] \o r
      /\ \A u \in Threads \ {t} : /\ pc'[u] = pc[u] /\ next'[u] = next[u]
                                  /\ offsets'[u] = offsets[u]
  BY <1>2, <1>3 DEF FillTypes
<1>5. FillTypes'
  BY <1>2, <1>3 DEF FillTypes
<1>6. SharedInv'
  BY <1>2, <1>4, SharedKept DEF Fill
<1>7. i.info_type \in Supported
  BY <1>2, <1>3 DEF HeadInv
<1>8. /\ IsSeq(r)
      /\ \A k \in DOMAIN r : r[k].buffer = head[i.info_type] /\ r[k].info = next[t]
  <2>1. PICK b : b = fillDesc(hwVer, i).binds
    OBVIOUS
  <2>2. Len(b) \in Nat /\ DOMAIN b = 1 .. Len(b)
    BY <1>7, <2>1, BindsSeq, SeqFacts
  <2>3. CASE r = <<>>
    BY <2>3, TupleSeqs
  <2>4. CASE r = [k \in DOMAIN b |-> [buffer |-> head[i.info_type], field |-> at[t] + b[k].at,
                                      object |-> b[k].obj, off |-> b[k].off, info |-> next[t]]]
    <3>1. PICK S : S = {r[k] : k \in 1 .. Len(b)}
      OBVIOUS
    <3>2. r \in Seq(S)
      BY <2>2, <2>4, <3>1
    <3> QED
      BY <2>4, <3>2 DEF IsSeq
  <2> QED
    BY <1>1, <2>1, <2>3, <2>4 DEF reported
<1>9. TaskInv(t)'
  <2>1. next[t] \in 1 .. Len(task[t]) /\ Len(task[t]) \in Nat /\ IsSeq(offsets[t])
    BY <1>2, <1>3 DEF TaskInv, Fill
  <2>2. IsSeq(offsets'[t])
    BY <1>4, <1>8, <2>1, ConcatFacts
  <2> QED
    BY <1>2, <1>3, <1>4, <2>1, <2>2 DEF TaskInv, Fill
<1>10. HeadInv(t)'
  BY <1>4 DEF HeadInv
<1>11. OffsetsOf(t)'
  <2> SUFFICES ASSUME NEW k \in DOMAIN offsets'[t]
               PROVE  \/ offsets'[t][k].buffer = t
                      \/ Taken(t, task[t][offsets'[t][k].info].info_type)
    BY <1>2 DEF OffsetsOf, Taken
  <2>1. \/ k \in DOMAIN offsets[t] /\ offsets'[t][k] = offsets[t][k]
        \/ \E j \in DOMAIN r : offsets'[t][k] = r[j]
    <3>1. PICK s : s = offsets[t]
      OBVIOUS
    <3>2. IsSeq(s) /\ offsets'[t] = s \o r
      BY <1>3, <1>4, <3>1 DEF TaskInv
    <3>3. From(s \o r, s, r)
      BY <1>8, <3>2, ConcatFacts
    <3> QED
      BY <3>1, <3>2, <3>3 DEF From
  <2>2. CASE k \in DOMAIN offsets[t] /\ offsets'[t][k] = offsets[t][k]
    BY <1>3, <2>2 DEF OffsetsOf
  <2>3. CASE \E j \in DOMAIN r : offsets'[t][k] = r[j]
    <3>1. /\ offsets'[t][k].buffer = head[i.info_type]
          /\ offsets'[t][k].info = next[t]
      BY <1>8, <2>3
    <3>2. head[i.info_type] = t \/ Taken(t, i.info_type)
      BY <1>2, <1>3 DEF HeadInv
    <3> QED
      BY <3>1, <3>2
  <2> QED
    BY <2>1, <2>2, <2>3
<1>12. ASSUME NEW u \in Threads \ {t}
       PROVE  TaskInv(u)' /\ HeadInv(u)' /\ OffsetsOf(u)'
  BY <1>2, <1>4, OtherKept
<1> QED
  BY <1>5, <1>6, <1>9, <1>10, <1>11, <1>12 DEF FillInv
-----------------------------------------------------------------------------
LEMMA FillInit == Init => FillInv
<1> SUFFICES ASSUME Init
             PROVE  FillInv
  OBVIOUS
<1>1. FillTypes
  BY DEF Init, FillTypes, Versions
<1>2. \A t \in Threads : /\ pc[t] = "idle" /\ task[t] = <<>> /\ next[t] = 1
                         /\ offsets[t] = <<>> /\ shared[t] = {}
  BY DEF Init
<1>3. SharedInv
  BY <1>2 DEF SharedInv, Fill
<1>4. Len(<<>>) \in Nat /\ DOMAIN <<>> = 1 .. Len(<<>>)
  OBVIOUS
<1>5. \A t \in Threads : TaskInv(t) /\ HeadInv(t) /\ OffsetsOf(t)
  BY <1>2, <1>4, TupleSeqs DEF TaskInv, HeadInv, OffsetsOf, Fill
<1> QED
  BY <1>1, <1>3, <1>5 DEF FillInv

LEMMA FillStep == FillInv /\ [Next]_vars => FillInv'
<1> SUFFICES ASSUME FillInv, [Next]_vars
             PROVE  FillInv'
  OBVIOUS
<1>1. ASSUME UNCHANGED <<pc, task, next, offsets, shared, head>>, hwVer' \in Versions
      PROVE  FillInv'
  BY <1>1 DEF FillInv, FillTypes, SharedInv, filling, TaskInv, HeadInv, OffsetsOf, Taken
<1>2. CASE UNCHANGED vars
  BY <1>1, <1>2 DEF vars, mine, out, FillInv, FillTypes
<1>3. ASSUME NEW v \in Versions, setHWver(v)
      PROVE  FillInv'
  BY <1>1, <1>3 DEF setHWver, mine, out
<1>4. ASSUME NEW t \in Threads, NEW infos \in Tasks[hwVer][t], queryTransDescSize(t, infos)
      PROVE  FillInv'
  BY <1>4, QueryStep
<1>5. ASSUME NEW t \in Threads, transTaskInfo(t) \/ setHeadDesc(t) \/ fillInfo(t)
      PROVE  FillInv'
  BY <1>5, TransStep, HeadStep, FillInfoStep
<1> QED
  BY <1>2, <1>3, <1>4, <1>5 DEF Next, Finished

\* The invariant holds in every state of every engine.
LEMMA FillInvariant == Spec => []FillInv
BY FillInit, FillStep, PTL DEF Spec

(* The address fields a thread is told of are offsets from the start of its *)
(* own buffer, unless a thread that filled at the same time has an info of  *)
(* the same type in its task: pHeadDesc of a generator is only ever taken   *)
(* by a fill that overlaps.                                                 *)
THEOREM OffsetsOwn == Spec => []OffsetsFromStart
<1>1. FillInv => OffsetsFromStart
  BY DEF FillInv, OffsetsOf, Taken, OffsetsFromStart
<1> QED
  BY <1>1, FillInvariant, PTL
-----------------------------------------------------------------------------
(***************************************************************************)
(* What the query side counts for an info is what the fill side writes.    *)
(***************************************************************************)
\* n descriptors, all of one type
Uniform(descs, n, type) ==
  IsSeq(descs) /\ n \in Nat /\ Len(descs) = n /\ \A k \in 1 .. n : descs[k].type = type

\* descriptors of known sizes
Sized(descs) ==
  IsSeq(descs) /\ \A k \in 0 .. Len(descs) - 1 : descSizes(descs)[k] \in Nat

\* n descriptors of `whole' bytes in all
Exact(descs, n, whole) ==
  /\ Sized(descs) /\ n \in Nat /\ whole \in Nat
  /\ Len(descs) = n /\ SumTo(descSizes(descs), n) = whole

LEMMA FcnSeq ==
  ASSUME NEW n \in Nat, NEW f, f = [k \in 1 .. n |-> f[k]]
  PROVE  IsSeq(f) /\ Len(f) = n
<1>1. PICK S : S = {f[k] : k \in 1 .. n}
  OBVIOUS
<1>2. f \in Seq(S) /\ Len(f) = n
  BY <1>1
<1> QED
  BY <1>2 DEF IsSeq

LEMMA DescSizes ==
  descSize(0) = 64 /\ descSize(1) = 64 /\ descSize(2) = 64 /\ descSize(5) = 128
    /\ descSize(15) = 256 /\ descSize(20) = 96
BY DEF descSize

LEMMA NoneExact == Exact(<<>>, 0, 0) /\ Sized(<<>>)
<1>1. IsSeq(<<>>) /\ Len(<<>>) = 0
  BY TupleSeqs
<1>2. SumTo(descSizes(<<>>), 0) = 0
  BY SumZero
<1> QED
  BY <1>1, <1>2 DEF Exact, Sized

LEMMA UniformExact ==
  ASSUME NEW descs, NEW n, NEW type \in {0, 1, 2, 5, 15, 20}, Uniform(descs, n, type)
  PROVE  Exact(descs, n, n * descSize(type))
<1>1. n \in Nat /\ IsSeq(descs) /\ Len(descs) = n /\ descSize(type) \in Nat
  BY DescSizes DEF Uniform
<1>2. \A k \in 0 .. n - 1 : k + 1 \in 1 .. n /\ descSizes(descs)[k] = descSize(type)
  BY <1>1 DEF Uniform, descSizes
<1>3. SumTo(descSizes(descs), n) = n * descSize(type)
  BY <1>1, <1>2, SumUniform
<1> QED
  BY <1>1, <1>2, <1>3 DEF Exact, Sized

LEMMA OneDesc ==
  ASSUME NEW d, NEW type \in {0, 1, 2, 5, 15, 20}, d.type = type
  PROVE  Exact(<<d>>, 1, descSize(type))
<1>1. IsSeq(<<d>>) /\ Len(<<d>>) = 1 /\ <<d>>[1] = d
  BY TupleSeqs
<1>2. Uniform(<<d>>, 1, type)
  BY <1>1 DEF Uniform
<1>3. descSize(type) \in Nat /\ 1 * descSize(type) = descSize(type)
  BY DescSizes
<1> QED
  BY <1>2, <1>3, UniformExact
-----------------------------------------------------------------------------
\* The number of tiles of a length.
LEMMA TilesNat ==
  ASSUME NEW l \in Nat, NEW side \in Nat \ {0}
  PROVE  tiles(l, side) \in Nat
BY DEF tiles

LEMMA ImageFits ==
  ASSUME NEW i, i.info_type = "GENERAL", wellFormed(i), ~rotates(i), ~resizes(i)
  PROVE  Exact(fillDescV0(i).descs, edma_queryDNum(i), edma_queryDSize(i))
<1>1. edma_queryDNum(i) = 1 /\ edma_queryDSize(i) = descSize(checkDescrpType(i))
  BY DEF edma_queryDNum, edma_queryDSize
<1>2. checkDescrpType(i) \in {0, 5}
  BY DEF checkDescrpType
<1>3. imageDesc(i, 0, 1).type = 0 /\ imageDesc(i, 5, 2).type = 5
  BY DEF imageDesc, Desc
<1>4. fillDescV0(i).descs = IF checkDescrpType(i) = 0 THEN <<imageDesc(i, 0, 1)>>
                            ELSE <<imageDesc(i, 5, 2)>>
  BY <1>2 DEF fillDescV0, Filled
<1> QED
  BY <1>1, <1>2, <1>3, <1>4, OneDesc

LEMMA ResizeFits ==
  ASSUME NEW i, i.info_type = "GENERAL", wellFormed(i), resizes(i)
  PROVE  /\ Exact(edma_UVRz2X(i), edma_queryTileNum(i), edma_queryTileNum(i) * descSize(15))
         /\ checkDescrpType(i) = 15
         /\ fillDescV0(i).descs = edma_UVRz2X(i)
<1>1. edma_queryTileNum(i) \in Nat
  BY TilesNat, SizesAssumption DEF edma_queryTileNum, wellFormed
<1>2. Uniform(edma_UVRz2X(i), edma_queryTileNum(i), 15)
  <2>1. PICK n \in Nat : n = edma_queryTileNum(i)
    BY <1>1
  <2>2. PICK f : f = edma_UVRz2X(i)
    OBVIOUS
  <2>3. f = [k \in 1 .. n |-> f[k]] /\ \A k \in 1 .. n : f[k].type = 15
    BY <2>1, <2>2 DEF edma_UVRz2X, Desc
  <2> QED
    BY <2>1, <2>2, <2>3, FcnSeq DEF Uniform
<1>3. checkDescrpType(i) = 15
  BY DEF checkDescrpType, resizes
<1> QED
  BY <1>2, <1>3, UniformExact DEF fillDescV0, Filled

\* A rotation writes pairs of a large and a small descriptor, one for every
\* tile, as many as are counted for a square.
LEMMA RotationFits ==
  ASSUME NEW i, i.info_type = "GENERAL", wellFormed(i), rotates(i)
  PROVE  /\ Sized(rotation(i))
         /\ square(i) => Exact(rotation(i), 2 * edma_rotate_descNum(i),
                               edma_rotate_descNum(i) * (descSize(0) + descSize(15)))
<1> DEFINE w  == IF i.inFormat = "ARGB_8" THEN i.size_x \div 4 ELSE i.size_y
           h  == i.size_y
           xn == tiles(w, tileWidth(i))
           yn == tiles(h, TileSide)
<1>1. /\ w \in Nat /\ h \in Nat
      /\ tileWidth(i) \in Nat \ {0} /\ TileSide \in Nat \ {0}
  BY SizesAssumption DEF wellFormed, tileWidth
<1>2. xn \in Nat /\ yn \in Nat
  BY <1>1, TilesNat
<1>3. PICK n \in Nat : n = xn * yn
  BY <1>2
<1> DEFINE r == rotation(i)
<1>4. /\ r = [m \in 1 .. 2 * n |-> r[m]]
      /\ \A m \in 1 .. 2 * n : r[m].type = IF (m - 1) % 2 = 0 THEN 15 ELSE 0
  <2>1. ASSUME NEW angle, NEW src, NEW dst, NEW sp, NEW dp, NEW c, NEW a, NEW b
        PROVE  LET pair == gen_tile_rotation(angle, src, dst, sp, dp, c, a, b)
               IN  pair[1].type = 15 /\ pair[2].type = 0
    <3>1. gen_tile_rotation(angle, src, dst, sp, dp, c, a, b)[1].type = 15
      BY DEF gen_tile_rotation, Desc
    <3>2. gen_tile_rotation(angle, src, dst, sp, dp, c, a, b)[2].type = 0
      BY DEF gen_tile_rotation, Desc
    <3> QED
      BY <3>1, <3>2
  <2>2. \A m \in 1 .. 2 * n : (m - 1) % 2 \in {0, 1}
    OBVIOUS
  <2>3. r = [m \in 1 .. 2 * n |-> r[m]]
    BY <1>3 DEF rotation, edma_gen_rotation
  <2>4. ASSUME NEW m \in 1 .. 2 * n
        PROVE  r[m].type = IF (m - 1) % 2 = 0 THEN 15 ELSE 0
    <3>1. \E angle, src, dst, sp, dp, c, a, b :
            r[m] = gen_tile_rotation(angle, src, dst, sp, dp, c, a, b)[((m - 1) % 2) + 1]
      BY <1>3 DEF rotation, edma_gen_rotation
    <3> HIDE DEF r
    <3> QED
      BY <2>1, <2>2, <3>1
  <2> QED
    BY <2>3, <2>4
<1> HIDE DEF r
<1>5. IsSeq(r) /\ Len(r) = 2 * n
  BY <1>4, FcnSeq
<1>6. PICK c \in Nat, d \in Nat : c = descSize(15) /\ d = descSize(0)
  BY DescSizes
<1>7. \A k \in 0 .. 2 * n - 1 : descSizes(r)[k] = IF k % 2 = 0 THEN c ELSE d
  BY <1>4, <1>5, <1>6 DEF descSizes
<1>8. SumTo(descSizes(r), 2 * n) = n * (c + d)
  <2>1. PICK f : f = descSizes(r)
    OBVIOUS
  <2>2. Alternates(f, n, c, d)
    BY <1>7, <2>1 DEF Alternates
  <2>3. SumTo(f, 2 * n) = n * (c + d)
    BY <2>2, SumPairs
  <2> QED
    BY <2>1, <2>3
<1>9. n * (c + d) \in Nat /\ c + d = d + c
  OBVIOUS
<1>10. Sized(r) /\ Exact(r, 2 * n, n * (d + c))
  BY <1>5, <1>7, <1>8, <1>9 DEF Sized, Exact
<1>11. square(i) => edma_rotate_descNum(i) = n
  <2>1. square(i) => w = h
    BY <1>1 DEF square, pixel, wellFormed
  <2> QED
    BY <1>3, <2>1 DEF edma_rotate_descNum
<1> QED
  BY <1>6, <1>10, <1>11 DEF r

LEMMA TensorFits ==
  ASSUME NEW i, i.info_type = "NN", wellFormed(i)
  PROVE  Exact(fillDescNN(i).descs, edma_queryDNum(i), edma_queryDSize(i))
<1> DEFINE type == checkDescrpType(i)
<1>1. CASE i.inFormat = "DEPTHTOSPACE"
  <2>1. PICK n \in Nat : n = i.shape_h
    BY DEF wellFormed
  <2>2. edma_queryDNum(i) = n /\ edma_queryDSize(i) = n * descSize(15)
    BY <1>1, <2>1 DEF edma_queryDNum, edma_queryDSize
  <2>3. PICK f : f = nnDepthToSpace(i)
    OBVIOUS
  <2>4. f = [k \in 1 .. n |-> f[k]] /\ \A k \in 1 .. n : f[k].type = 15
    BY <2>1, <2>3 DEF nnDepthToSpace, Desc
  <2>5. Uniform(f, n, 15)
    BY <2>4, FcnSeq DEF Uniform
  <2>6. type = 15
    BY <1>1 DEF checkDescrpType
  <2>7. fillDescNN(i).descs = f
    BY <1>1, <2>3, <2>6 DEF fillDescNN, Filled
  <2> QED
    BY <2>2, <2>5, <2>7, UniformExact
<1>2. CASE i.inFormat # "DEPTHTOSPACE"
  <2>1. edma_queryDNum(i) = 1 /\ edma_queryDSize(i) = descSize(type)
    BY <1>2 DEF edma_queryDNum, edma_queryDSize
  <2>2. type \in {0, 1, 5, 15}
    BY DEF checkDescrpType
  <2>3. i.inFormat \in {"DEPTHTOSPACE_FAST", "S2D_FAST"} => type = 15
    BY DEF checkDescrpType
  <2> HIDE DEF type
  <2>4. /\ Desc(15).type = 15 /\ edma_D2SFast(i).type = 15 /\ edma_S2DFast(i).type = 15
        /\ nnCopy(i).type = 0 /\ nnLuma(i).type = 5
    BY DEF Desc, edma_D2SFast, edma_S2DFast, nnCopy, nnLuma
  <2>5. nnRepack(i, 1, 3, 4).type = 1 /\ nnRepack(i, 15, 4, 3).type = 15
    BY DEF Desc, nnRepack
  <2>6. PICK d : d.type = type /\ fillDescNN(i).descs = <<d>>
    <3>1. CASE i.inFormat = "DEPTHTOSPACE_FAST"
      BY <2>3, <2>4, <3>1 DEF type, fillDescNN, Filled
    <3>2. CASE i.inFormat = "S2D_FAST"
      BY <2>3, <2>4, <3>2 DEF type, fillDescNN, Filled
    <3>3. CASE i.inFormat \notin {"DEPTHTOSPACE_FAST", "S2D_FAST"}
      <4>1. fillDescNN(i).descs = IF type = 0 THEN <<nnCopy(i)>>
                                  ELSE IF type = 1 THEN <<nnRepack(i, 1, 3, 4)>>
                                  ELSE IF type = 5 THEN <<nnLuma(i)>>
                                  ELSE <<nnRepack(i, 15, 4, 3)>>
        BY <1>2, <2>2, <3>3 DEF type, fillDescNN, Filled
      <4> QED
        BY <2>2, <2>4, <2>5, <4>1
    <3> QED
      BY <3>1, <3>2, <3>3
  <2> QED
    BY <2>1, <2>2, <2>6, OneDesc
<1> QED
  BY <1>1, <1>2

LEMMA PadFits ==
  ASSUME NEW i
  PROVE  Exact(fillDescPad(i).descs, edma_queryPadDNum(i), edma_queryPadDSize(i))
<1>1. \A times, from, to : padColumns(i, from, to, times).type = 0 /\ padLines(i, from, to, times).type = 0
  BY DEF padColumns, padLines, padCopies, Desc
<1>2. /\ padFill(i).type = 0 /\ padCentre(i).type = 0 /\ padLeft(i).type = 0
      /\ padRight(i).type = 0 /\ padTop(i).type = 0 /\ padBottom(i).type = 0
  BY <1>1 DEF padFill, padCentre, padLeft, padRight, padTop, padBottom, Desc
<1>3. CASE i.mode = "constant"
  <2>1. PICK a, b : a = padFill(i) /\ b = padCentre(i)
    OBVIOUS
  <2>2. fillDescPad(i).descs = <<a, b>>
    BY <1>3, <2>1 DEF fillDescPad, Filled
  <2>3. IsSeq(<<a, b>>) /\ Len(<<a, b>>) = 2
    BY TupleSeqs
  <2>4. Uniform(<<a, b>>, 2, 0)
    BY <1>2, <2>1, <2>3 DEF Uniform
  <2>5. edma_queryPadDNum(i) = 2 /\ edma_queryPadDSize(i) = 2 * descSize(0)
    BY <1>3 DEF edma_queryPadDNum, edma_queryPadDSize
  <2> QED
    BY <2>2, <2>4, <2>5, UniformExact
<1>4. CASE i.mode = "edge"
  <2>1. PICK a, b, c, d, e : a = padCentre(i) /\ b = padLeft(i) /\ c = padRight(i)
                               /\ d = padTop(i) /\ e = padBottom(i)
    OBVIOUS
  <2>2. fillDescPad(i).descs = <<a, b, c, d, e>>
    BY <1>4, <2>1 DEF fillDescPad, Filled
  <2>3. <<a, b, c, d, e>> \in Seq({a, b, c, d, e}) /\ Len(<<a, b, c, d, e>>) = 5
    OBVIOUS
  <2>4. PICK f : f = <<a, b, c, d, e>>
    OBVIOUS
  <2>6. f[1].type = 0 /\ f[2].type = 0 /\ f[3].type = 0 /\ f[4].type = 0 /\ f[5].type = 0
    BY <1>2, <2>1, <2>4
  <2>7. \A k \in 1 .. 5 : k = 1 \/ k = 2 \/ k = 3 \/ k = 4 \/ k = 5
    OBVIOUS
  <2>8. \A k \in 1 .. 5 : f[k].type = 0
    BY <2>6, <2>7
  <2>9. IsSeq(f) /\ Len(f) = 5
    BY <2>3, <2>4 DEF IsSeq
  <2>10. Uniform(f, 5, 0)
    BY <2>8, <2>9 DEF Uniform
  <2>5. edma_queryPadDNum(i) = 5 /\ edma_queryPadDSize(i) = 5 * descSize(0)
    BY <1>4 DEF edma_queryPadDNum, edma_queryPadDSize
  <2> QED
    BY <2>2, <2>4, <2>5, <2>10, UniformExact
<1>5. CASE i.mode \notin {"constant", "edge"}
  <2>1. fillDescPad(i).descs = <<>>
    BY <1>5 DEF fillDescPad, Refused, Filled
  <2>2. edma_queryPadDNum(i) = 0 /\ edma_queryPadDSize(i) = 0
    BY <1>5, DescSizes DEF edma_queryPadDNum, edma_queryPadDSize
  <2> QED
    BY <2>1, <2>2, NoneExact
<1> QED
  BY <1>3, <1>4, <1>5

\* Infos that have one descriptor, unless they are refused.
LEMMA SingleFits ==
  ASSUME NEW v \in Versions, NEW i, wellFormed(i),
         \/ v = 20 /\ i.info_type \in V20Types
         \/ i.info_type \in {"DATA", "UFBC", "SDK", "SLICE", "BAYER_TO_RGGB", "RGGB_TO_BAYER"}
  PROVE  /\ queryDNum(v, i) = 1 /\ queryDSize(v, i) \in {64, 96, 128, 256}
         /\ \/ fillDesc(v, i).descs = <<>>
            \/ Exact(fillDesc(v, i).descs, queryDNum(v, i), queryDSize(v, i))
<1>10. \A type, payload, pitch : ufbcDesc(i, type, payload, pitch).type = type
  BY DEF ufbcDesc, Desc
<1>1. CASE v = 20 /\ i.info_type \in V20Types
  <2>1. queryDNum(v, i) = 1 /\ queryDSize(v, i) = descSize(20)
    BY <1>1 DEF queryDNum, queryDSize, V20Types
  <2>2. fillDesc(v, i).descs \in {fillDescV20(i).descs, fillDescDataV20(i).descs,
                                  fillDescUFBCV20(i).descs}
    BY <1>1 DEF fillDesc, V20Types
  <2>3. \A d : d.type = 20 => Exact(<<d>>, 1, descSize(20))
    BY OneDesc
  <2>4. PICK a : a = fillDescV20(i).descs[1]
    OBVIOUS
  <2>8. a.type = 20
    BY <2>4 DEF fillDescV20, Filled, imageDesc, Desc
  <2>9. fillDescV20(i).descs = <<a>>
    BY <2>4 DEF fillDescV20, Filled
  <2>5. \/ fillDescDataV20(i).descs = <<>>
        \/ \E b : b.type = 20 /\ fillDescDataV20(i).descs = <<b>>
    BY DEF fillDescDataV20, Filled, Refused, dataDesc, Desc
  <2>6. PICK c : c.type = 20 /\ fillDescUFBCV20(i).descs = <<c>>
    BY <1>10 DEF fillDescUFBCV20, Filled
  <2>7. fillDesc(v, i).descs = <<>> \/ \E d : d.type = 20 /\ fillDesc(v, i).descs = <<d>>
    BY <2>2, <2>5, <2>6, <2>8, <2>9
  <2>10. fillDesc(v, i).descs = <<>> \/ Exact(fillDesc(v, i).descs, 1, descSize(20))
    <3>1. SUFFICES ASSUME NEW d, d.type = 20, fillDesc(v, i).descs = <<d>>
                   PROVE  Exact(fillDesc(v, i).descs, 1, descSize(20))
      BY <2>7
    <3> QED
      BY <2>3, <3>1
  <2> QED
    BY <2>1, <2>10, DescSizes
<1>2. CASE v = 30 /\ i.info_type \in {"DATA", "UFBC"}
  <2>1. queryDNum(v, i) = 1 /\ queryDSize(v, i) = descSize(IF i.info_type = "DATA" THEN 0 ELSE 5)
    BY <1>2 DEF queryDNum, queryDSize, edma_queryDSize
  <2>2. CASE i.info_type = "DATA"
    <3>1. \A d : d = Desc(2) => d.type = 2
      BY DEF Desc
    <3>2. dataDesc(i, 0).type = 0
      BY DEF dataDesc, Desc
    <3>3. fillDesc(v, i).descs \in {<<>>, <<Desc(2)>>, <<dataDesc(i, 0)>>}
      BY <1>2, <2>2 DEF fillDesc, fillDescData, Filled, Refused
    <3>4. Exact(<<Desc(2)>>, 1, descSize(2)) /\ Exact(<<dataDesc(i, 0)>>, 1, descSize(0))
      BY <3>1, <3>2, OneDesc
    <3> QED
      BY <2>1, <2>2, <3>3, <3>4, DescSizes
  <2>3. CASE i.info_type = "UFBC"
    <3>1. PICK c : c.type = 5 /\ fillDescUFBC(i).descs = <<c>>
      BY <1>10 DEF fillDescUFBC, Filled
    <3>2. fillDesc(v, i).descs = <<c>>
      BY <1>2, <2>3, <3>1 DEF fillDesc
    <3> QED
      BY <2>1, <2>3, <3>1, <3>2, OneDesc, DescSizes
  <2> QED
    BY <1>2, <2>2, <2>3
<1>3. CASE i.info_type = "SLICE"
  <2>1. queryDNum(v, i) = 1 /\ queryDSize(v, i) = descSize(0)
    BY <1>3 DEF queryDNum, queryDSize, V20Types
  <2>2. PICK d : d.type = 0 /\ fillDescSlice(i).descs = <<d>>
    BY DEF fillDescSlice, Filled, Desc
  <2>3. fillDesc(v, i).descs = <<d>>
    BY <1>3, <2>2 DEF fillDesc
  <2> QED
    BY <2>1, <2>2, <2>3, OneDesc, DescSizes
<1>4. CASE i.info_type \in {"SDK", "BAYER_TO_RGGB", "RGGB_TO_BAYER"}
  <2>1. queryDNum(v, i) = 1 /\ queryDSize(v, i) = descSize(15)
    BY <1>4 DEF queryDNum, queryDSize, V20Types
  <2>2. fillDesc(v, i).descs = <<>> \/ \E d : d.type = 15 /\ fillDesc(v, i).descs = <<d>>
    <3>1. CASE i.info_type = "SDK"
      <4>1. fillDesc(v, i).descs = fillDescSDK(i).descs
        BY <3>1 DEF fillDesc
      <4>2. PICK d : d = [i.sdk[1] EXCEPT !.type = 15]
        OBVIOUS
      <4>3. i.sdk = <<>> \/ d.type = 15
        BY <3>1, <4>2 DEF wellFormed
      <4>4. PICK e : e = [type |-> 15]
        OBVIOUS
      <4>5. e.type = 15
        BY <4>4
      <4> QED
        BY <4>1, <4>2, <4>3, <4>4, <4>5 DEF fillDescSDK, Filled, Refused
    <3>2. CASE i.info_type = "BAYER_TO_RGGB"
      <4>1. fillDesc(v, i).descs = fillDescBayerToRGGB(i).descs
        BY <3>2 DEF fillDesc
      <4> QED
        BY <4>1 DEF fillDescBayerToRGGB, Filled, Refused, Desc
    <3>3. CASE i.info_type = "RGGB_TO_BAYER"
      <4>1. fillDesc(v, i).descs = fillDescRGGBToBayer(i).descs
        BY <3>3 DEF fillDesc
      <4> QED
        BY <4>1 DEF fillDescRGGBToBayer, Filled, Refused, Desc
    <3> QED
      BY <1>4, <3>1, <3>2, <3>3
  <2>3. \A d : d.type = 15 => Exact(<<d>>, 1, descSize(15))
    BY OneDesc
  <2>4. fillDesc(v, i).descs = <<>> \/ Exact(fillDesc(v, i).descs, 1, descSize(15))
    <3>1. SUFFICES ASSUME NEW d, d.type = 15, fillDesc(v, i).descs = <<d>>
                   PROVE  Exact(fillDesc(v, i).descs, 1, descSize(15))
      BY <2>2
    <3> QED
      BY <2>3, <3>1
  <2> QED
    BY <2>1, <2>4, DescSizes
<1> QED
  BY <1>1, <1>2, <1>3, <1>4 DEF V20Types, Versions

(* The fill side writes as many descriptors, of as many bytes, as the query *)
(* side counted, or none, for every info it is not known to misjudge.       *)
LEMMA FillFits ==
  ASSUME NEW v \in Versions, NEW i, i.info_type \in Supported, wellFormed(i)
  PROVE  /\ queryDSize(v, i) \in Nat /\ queryDNum(v, i) \in Nat
         /\ Sized(fillDesc(v, i).descs)
         /\ ~misjudged(i) => \/ queryDNum(v, i) > 0 /\ fillDesc(v, i).descs = <<>>
                             \/ Exact(fillDesc(v, i).descs, queryDNum(v, i), queryDSize(v, i))
<1>1. \A d, n, s : Exact(d, n, s) => Sized(d) /\ n \in Nat /\ s \in Nat
  BY DEF Exact
<1>2. CASE \/ v = 20 /\ i.info_type \in V20Types
           \/ i.info_type \in {"DATA", "UFBC", "SDK", "SLICE", "BAYER_TO_RGGB", "RGGB_TO_BAYER"}
  BY <1>1, <1>2, SingleFits, NoneExact
<1>3. CASE i.info_type = "NN"
  <2>1. /\ queryDSize(v, i) = edma_queryDSize(i) /\ queryDNum(v, i) = edma_queryDNum(i)
        /\ fillDesc(v, i) = fillDescNN(i)
    BY <1>3 DEF queryDSize, queryDNum, fillDesc, V20Types
  <2> QED
    BY <1>1, <1>3, <2>1, TensorFits
<1>4. CASE i.info_type = "PAD"
  <2>1. /\ queryDSize(v, i) = edma_queryPadDSize(i) /\ queryDNum(v, i) = edma_queryPadDNum(i)
        /\ fillDesc(v, i) = fillDescPad(i)
    BY <1>4 DEF queryDSize, queryDNum, fillDesc, V20Types
  <2> QED
    BY <1>1, <2>1, PadFits
<1>5. CASE v = 30 /\ i.info_type = "GENERAL"
  <2>1. /\ queryDSize(v, i) = edma_queryDSize(i) /\ queryDNum(v, i) = edma_queryDNum(i)
        /\ fillDesc(v, i) = fillDescV0(i)
    BY <1>5 DEF queryDSize, queryDNum, fillDesc, V20Types
  <2>2. CASE ~rotates(i) /\ ~resizes(i)
    BY <1>1, <1>5, <2>1, <2>2, ImageFits
  <2>3. CASE ~rotates(i) /\ resizes(i)
    <3>1. /\ edma_queryDSize(i) = edma_queryTileNum(i) * descSize(15)
          /\ edma_queryDNum(i) = edma_queryTileNum(i)
      BY <1>5, <2>3 DEF edma_queryDSize, edma_queryDNum
    <3> QED
      BY <1>1, <1>5, <2>1, <2>3, <3>1, ResizeFits
  <2>4. CASE rotates(i)
    <3>1. /\ edma_queryDSize(i) = edma_rotate_descNum(i) * (descSize(0) + descSize(15))
          /\ edma_queryDNum(i) = 2 * edma_rotate_descNum(i)
      BY <1>5, <2>4 DEF edma_queryDSize, edma_queryDNum
    <3>2. edma_rotate_descNum(i) \in Nat
      <4>1. i.size_y \in Nat /\ tileWidth(i) \in Nat \ {0} /\ TileSide \in Nat \ {0}
        BY <1>5, SizesAssumption DEF wellFormed, tileWidth
      <4>2. tiles(i.size_y, tileWidth(i)) \in Nat /\ tiles(i.size_y, TileSide) \in Nat
        BY <4>1, TilesNat
      <4> QED
        BY <4>2 DEF edma_rotate_descNum
    <3>3. edma_queryDSize(i) \in Nat /\ edma_queryDNum(i) \in Nat
      <4>1. PICK n \in Nat : n = edma_rotate_descNum(i)
        BY <3>2
      <4> QED
        BY <3>1, <4>1, DescSizes
    <3>4. CASE resizes(i)
      BY <1>1, <1>5, <2>1, <2>4, <3>3, <3>4, ResizeFits DEF misjudged
    <3>5. CASE ~resizes(i)
      <4>1. checkDescrpType(i) = 15
        BY <1>5, <2>4, <3>5 DEF checkDescrpType, rotates, Rotations
      <4>2. fillDescV0(i).descs = rotation(i)
        BY <3>5, <4>1 DEF fillDescV0, Filled
      <4> QED
        BY <1>5, <2>1, <2>4, <3>1, <3>3, <4>2, RotationFits DEF misjudged
    <3> QED
      BY <3>4, <3>5
  <2> QED
    BY <2>2, <2>3, <2>4
<1> QED
  BY <1>2, <1>3, <1>4, <1>5 DEF Supported, V20Types, Versions
-----------------------------------------------------------------------------
(***************************************************************************)
(* Where the descriptors of a fill lie.                                    *)
(***************************************************************************)
\* A descriptor lies in the part of the buffer counted for its info.
Slot(t, e) ==
  /\ e.info \in 1 .. next[t] - 1 /\ e.at \in Nat
  /\ ~misjudged(task[t][e.info]) =>
       /\ start(t, e.info - 1) <= e.at
       /\ e.at + descSize(e.desc.type) <= start(t, e.info)

\* One descriptor behind the other, the last up to `end'.
Chained(b, end) ==
  \A k \in DOMAIN b :
    b[k].at + descSize(b[k].desc.type) = IF k = Len(b) THEN end ELSE b[k + 1].at

\* As long as no info was misjudged or refused, what is written is a chain of
\* the number counted so far.
ChainInv(t) ==
  (\A k \in 1 .. next[t] - 1 : ~misjudged(task[t][k]) /\ ~refused(task[t][k]))
  => Len(buf[t]) = SumTo(nums(task[t]), next[t] - 1) /\ Chained(buf[t], at[t])

\* What was counted is for the task, and the fill has come as far as the infos
\* it went through take, all of which have a generator.
CountInv(t) ==
  /\ task[t] = <<>> \/ (pc[t] # "idle" /\ task[t] \in Tasks[hwVer][t])
  /\ IF pc[t] = "idle" THEN size[t] = 0 /\ num[t] = 0
     ELSE size[t] = sizeOf(task[t]) /\ num[t] = numOf(task[t])
  /\ next[t] \in 1 .. Len(task[t]) + 1
  /\ at[t] = start(t, next[t] - 1)
  /\ \A k \in 1 .. next[t] - 1 : supported(task[t][k])
  /\ pc[t] = "done" => next[t] = Len(task[t]) + 1 \/ ~supported(task[t][next[t]])

SlotInv(t) ==
  /\ CountInv(t)
  /\ pc[t] \in {"idle", "queried"} => buf[t] = <<>>
  /\ IsSeq(buf[t]) /\ \A k \in DOMAIN buf[t] : Slot(t, buf[t][k])
  /\ ChainInv(t)

\* The offsets reported refer to the buffer of some thread.
ReportInv(t) ==
  /\ t \notin shared[t]
  /\ pc[t] = "fill" => head[task[t][next[t]].info_type] \in Threads
  /\ \A k \in DOMAIN offsets[t] : offsets[t][k].buffer \in Threads

SlotsInv ==
  /\ DOMAIN size = Threads /\ DOMAIN num = Threads /\ DOMAIN at = Threads /\ DOMAIN buf = Threads
  /\ \A t \in Threads : SlotInv(t) /\ ReportInv(t)
-----------------------------------------------------------------------------
LEMMA ConcatAt ==
  ASSUME NEW s, NEW r, IsSeq(s), IsSeq(r)
  PROVE  /\ Len(s \o r) = Len(s) + Len(r) /\ DOMAIN (s \o r) = 1 .. Len(s) + Len(r)
         /\ \A k \in 1 .. Len(s) : (s \o r)[k] = s[k]
         /\ \A k \in 1 .. Len(r) : (s \o r)[Len(s) + k] = r[k]
<1>1. PICK S : s \in Seq(S)
  BY DEF IsSeq
<1>2. PICK R : r \in Seq(R)
  BY DEF IsSeq
<1>3. PICK T : T = S \cup R
  OBVIOUS
<1>4. s \in Seq(T) /\ r \in Seq(T)
  BY <1>1, <1>2, <1>3
<1>5. Len(s) \in Nat /\ Len(r) \in Nat
  BY <1>4
<1>6. \A k \in 1 .. Len(r) : /\ Len(s) + k \in 1 .. Len(s) + Len(r)
                             /\ Len(s) + k > Len(s) /\ Len(s) + k - Len(s) = k
  BY <1>5
<1> QED
  BY <1>4, <1>5, <1>6

\* Every info of a task has a size and a number.
LEMMA CountsNat ==
  ASSUME NEW t \in Threads, hwVer \in Versions, NEW infos, infos = <<>> \/ infos \in Tasks[hwVer][t]
  PROVE  /\ Len(infos) \in Nat /\ DOMAIN infos = 1 .. Len(infos)
         /\ \A k \in 1 .. Len(infos) : wellFormed(infos[k])
         /\ \A k \in 0 .. Len(infos) - 1 : sizes(infos)[k] \in Nat /\ nums(infos)[k] \in Nat
         /\ \A k \in 0 .. Len(infos) : SumTo(sizes(infos), k) \in Nat /\ SumTo(nums(infos), k) \in Nat
<1>1. Len(infos) \in Nat /\ DOMAIN infos = 1 .. Len(infos)
  BY TasksAssumption, TupleSeqs, SeqFacts
<1>2. \A k \in 1 .. Len(infos) : wellFormed(infos[k])
  <2>1. CASE infos = <<>>
    BY <2>1
  <2>2. CASE infos \in Tasks[hwVer][t]
    BY <1>1, <2>2, TasksAssumption
  <2> QED
    BY <2>1, <2>2
<1>3. ASSUME NEW k \in 0 .. Len(infos) - 1
      PROVE  sizes(infos)[k] \in Nat /\ nums(infos)[k] \in Nat
  <2>1. k + 1 \in 1 .. Len(infos)
    BY <1>1
  <2>2. supported(infos[k + 1]) =>
          queryDSize(hwVer, infos[k + 1]) \in Nat /\ queryDNum(hwVer, infos[k + 1]) \in Nat
    BY <1>2, <2>1, FillFits DEF supported
  <2> QED
    BY <2>2 DEF sizes, nums
<1>4. \A k \in 0 .. Len(infos) : SumTo(sizes(infos), k) \in Nat /\ SumTo(nums(infos), k) \in Nat
  BY <1>1, <1>3, SumNat
<1> QED
  BY <1>1, <1>2, <1>3, <1>4

\* Descriptors are placed one behind the other.
LEMMA PlacedFacts ==
  ASSUME NEW t, NEW descs, Sized(descs), at[t] \in Nat
  PROVE  LET p == placed(t, descs)
             n == Len(descs)
         IN  /\ n \in Nat /\ IsSeq(p) /\ Len(p) = n
             /\ SumTo(descSizes(descs), n) \in Nat
             /\ n = 0 => SumTo(descSizes(descs), n) = 0
             /\ \A k \in 1 .. n :
                  /\ p[k].info = next[t] /\ p[k].at \in Nat /\ at[t] <= p[k].at
                  /\ descSize(p[k].desc.type) \in Nat
                  /\ p[k].at + descSize(p[k].desc.type) <= at[t] + SumTo(descSizes(descs), n)
             /\ n > 0 => p[1].at = at[t]
             /\ Chained(p, at[t] + SumTo(descSizes(descs), n))
<1> DEFINE n == Len(descs)
           f == descSizes(descs)
<1> PICK p : p = placed(t, descs)
  OBVIOUS
<1>1. n \in Nat /\ DOMAIN descs = 1 .. n /\ \A k \in 0 .. n - 1 : f[k] \in Nat
  BY SeqFacts DEF Sized
<1>2. \A k \in 1 .. n : f[k - 1] = descSize(descs[k].type)
  BY <1>1 DEF descSizes
<1> HIDE DEF f
<1>3. /\ p = [k \in 1 .. n |-> p[k]]
      /\ \A k \in 1 .. n : p[k].at = at[t] + SumTo(f, k - 1) /\ p[k].desc = descs[k]
                           /\ p[k].info = next[t]
  BY <1>1 DEF placed, f
<1>4. IsSeq(p) /\ Len(p) = n
  BY <1>1, <1>3, FcnSeq
<1>5. \A k \in 0 .. n : SumTo(f, k) \in Nat /\ SumTo(f, k) <= SumTo(f, n)
  BY <1>1, SumGrows
<1>6. ASSUME NEW k \in 1 .. n
      PROVE  /\ SumTo(f, k) = SumTo(f, k - 1) + descSize(p[k].desc.type)
             /\ descSize(p[k].desc.type) \in Nat
             /\ p[k].at = at[t] + SumTo(f, k - 1)
             /\ p[k].at \in Nat
             /\ p[k].at + descSize(p[k].desc.type) = at[t] + SumTo(f, k)
  <2>1. PICK j \in 0 .. n - 1 : j = k - 1 /\ k = j + 1
    BY <1>1
  <2>2. SumTo(f, j + 1) = SumTo(f, j) + f[j]
    BY <1>1, <2>1, SumNext
  <2>3. f[j] = descSize(p[k].desc.type) /\ f[j] \in Nat
    BY <1>1, <1>2, <1>3, <2>1
  <2>4. SumTo(f, j) \in Nat /\ SumTo(f, k) \in Nat
    BY <1>5, <2>1
  <2> QED
    BY <1>3, <2>1, <2>2, <2>3, <2>4
<1>7. SumTo(f, 0) = 0
  BY SumZero
<1>8. Chained(p, at[t] + SumTo(f, n))
  <2> SUFFICES ASSUME NEW k \in 1 .. n
               PROVE  p[k].at + descSize(p[k].desc.type) =
                        IF k = n THEN at[t] + SumTo(f, n) ELSE p[k + 1].at
    BY <1>3, <1>4 DEF Chained
  <2>1. p[k].at + descSize(p[k].desc.type) = at[t] + SumTo(f, k)
    BY <1>6
  <2>2. k # n => k + 1 \in 1 .. n /\ k + 1 - 1 = k
    <3>1. PICK m \in Nat : m = n
      BY <1>1
    <3>2. \A h \in 1 .. m : h # m => h + 1 \in 1 .. m /\ h + 1 - 1 = h
      OBVIOUS
    <3> QED
      BY <3>1, <3>2
  <2>3. k # n => p[k + 1].at = at[t] + SumTo(f, k)
    BY <1>3, <2>2
  <2> QED
    BY <2>1, <2>3
<1>9. \A k \in 1 .. n : p[k].at + descSize(p[k].desc.type) <= at[t] + SumTo(f, n)
                        /\ at[t] <= p[k].at
  <2> SUFFICES ASSUME NEW k \in 1 .. n
               PROVE  p[k].at + descSize(p[k].desc.type) <= at[t] + SumTo(f, n)
                      /\ at[t] <= p[k].at
    OBVIOUS
  <2>1. SumTo(f, k) <= SumTo(f, n) /\ SumTo(f, k) \in Nat /\ SumTo(f, n) \in Nat
        /\ SumTo(f, k - 1) \in Nat
    BY <1>1, <1>5
  <2> QED
    BY <1>6, <2>1
<1>10. n > 0 => p[1].at = at[t]
  <2>1. n > 0 => 1 \in 1 .. n /\ 1 - 1 = 0
    BY <1>1
  <2> QED
    BY <1>3, <1>7, <2>1
<1> QED
  BY <1>1, <1>3, <1>4, <1>5, <1>6, <1>7, <1>8, <1>9, <1>10 DEF f

\* A chain goes on where it ended.
LEMMA ChainedOn ==
  ASSUME NEW b, NEW p, NEW from, NEW to, IsSeq(b), IsSeq(p), Chained(b, from), Chained(p, to),
         Len(p) > 0 => p[1].at = from, Len(p) = 0 => to = from
  PROVE  Chained(b \o p, to)
<1>1. PICK n \in Nat, m \in Nat : /\ Len(b) = n /\ DOMAIN b = 1 .. n
                                /\ Len(p) = m /\ DOMAIN p = 1 .. m
  BY SeqFacts
<1>2. PICK c : c = b \o p
  OBVIOUS
<1>3. /\ Len(c) = n + m /\ DOMAIN c = 1 .. n + m
      /\ \A k \in 1 .. n : c[k] = b[k]
      /\ \A k \in 1 .. m : c[n + k] = p[k]
  <2>1. /\ Len(c) = Len(b) + Len(p) /\ DOMAIN c = 1 .. Len(b) + Len(p)
        /\ \A k \in 1 .. Len(b) : c[k] = b[k]
        /\ \A k \in 1 .. Len(p) : c[Len(b) + k] = p[k]
    BY <1>2, ConcatAt
  <2> QED
    BY <1>1, <2>1
<1>4. /\ \A k \in 1 .. n : b[k].at + descSize(b[k].desc.type) = IF k = n THEN from ELSE b[k + 1].at
      /\ \A k \in 1 .. m : p[k].at + descSize(p[k].desc.type) = IF k = m THEN to ELSE p[k + 1].at
  BY <1>1 DEF Chained
<1> SUFFICES ASSUME NEW k \in 1 .. n + m
             PROVE  c[k].at + descSize(c[k].desc.type) =
                      IF k = n + m THEN to ELSE c[k + 1].at
  BY <1>2, <1>3 DEF Chained
<1>5. CASE k < n
  <2>1. k \in 1 .. n /\ k + 1 \in 1 .. n /\ k # n /\ k # n + m
    BY <1>5
  <2>2. c[k] = b[k] /\ c[k + 1] = b[k + 1]
    BY <1>3, <2>1
  <2> QED
    BY <1>4, <2>1, <2>2
<1>6. CASE k = n
  <2>1. k \in 1 .. n /\ c[k] = b[k]
    BY <1>3, <1>6
  <2>2. b[k].at + descSize(b[k].desc.type) = from
    BY <1>4, <1>6, <2>1
  <2>3. CASE m = 0
    BY <1>1, <1>6, <2>1, <2>2, <2>3
  <2>4. CASE m > 0
    <3>1. 1 \in 1 .. m /\ k # n + m /\ k + 1 = n + 1
      BY <1>6, <2>4
    <3>2. c[k + 1] = p[1]
      BY <1>3, <3>1
    <3> QED
      BY <1>1, <2>1, <2>2, <2>4, <3>1, <3>2
  <2> QED
    BY <2>3, <2>4
<1>7. CASE k > n
  <2>1. PICK j \in 1 .. m : k = n + j
    <3>1. k - n \in 1 .. m /\ k = n + (k - n)
      BY <1>7
    <3> QED
      BY <3>1
  <2>2. c[k] = p[j] /\ (k = n + m <=> j = m)
    BY <1>3, <2>1
  <2>3. j # m => c[k + 1] = p[j + 1]
    <3>1. j # m => j + 1 \in 1 .. m /\ k + 1 = n + (j + 1)
      BY <2>1
    <3> QED
      BY <1>3, <3>1
  <2> QED
    BY <1>4, <2>2, <2>3
<1> QED
  BY <1>5, <1>6, <1>7
-----------------------------------------------------------------------------
\* A thread that takes no step keeps its slots.
LEMMA SlotsKept ==
  ASSUME NEW u \in Threads, SlotInv(u),
         UNCHANGED <<hwVer, pc[u], task[u], size[u], num[u], next[u], at[u], buf[u]>>
  PROVE  SlotInv(u)'
<1>1. \A infos : sizes(infos)' = sizes(infos) /\ nums(infos)' = nums(infos)
  BY DEF sizes, nums
<1>2. sizes(task[u])' = sizes(task[u]) /\ nums(task[u])' = nums(task[u])
  BY DEF sizes, nums
<1>3. \A k : start(u, k)' = start(u, k)
  BY <1>2 DEF start
<1>4. CountInv(u)'
  <2>1. sizeOf(task[u])' = sizeOf(task[u]) /\ numOf(task[u])' = numOf(task[u])
    BY <1>2 DEF sizeOf, numOf
  <2>2. CountInv(u)
    BY DEF SlotInv
  <2> QED
    BY <1>3, <2>1, <2>2 DEF CountInv
<1>5. \A e : Slot(u, e) => Slot(u, e)'
  BY <1>3 DEF Slot
<1>6. ChainInv(u)'
  <2>1. \A i : refused(i)' = refused(i)
    BY DEF refused
  <2>2. ChainInv(u)
    BY DEF SlotInv
  <2> QED
    BY <1>2, <2>1, <2>2 DEF ChainInv
<1> QED
  BY <1>4, <1>5, <1>6 DEF SlotInv

LEMMA ReportKept ==
  ASSUME NEW u \in Threads, ReportInv(u), HeadInv(u), u \notin shared'[u],
         UNCHANGED <<pc[u], task[u], next[u], offsets[u]>>,
         \A type \in Supported : head'[type] \in Threads \/ head'[type] = head[type]
  PROVE  ReportInv(u)'
BY DEF ReportInv, HeadInv
\* Before the fill nothing is written and all sums are empty.
LEMMA FreshSlots ==
  ASSUME NEW t \in Threads, CountInv(t)', next'[t] = 1, buf'[t] = <<>>
  PROVE  SlotInv(t)'
<1>1. Len(<<>>) = 0 /\ DOMAIN <<>> = {} /\ IsSeq(<<>>)
  BY TupleSeqs
<1>2. SumTo(nums(task[t])', 0) = 0
  BY SumZero
<1>3. ChainInv(t)'
  BY <1>1, <1>2 DEF ChainInv, Chained
<1> QED
  BY <1>1, <1>3 DEF SlotInv

\* In the state before a fill the place is the start of the buffer.
LEMMA FreshCount ==
  ASSUME NEW t \in Threads, FillInv, SlotInv(t), pc[t] \in {"idle", "queried"}
  PROVE  next[t] = 1 /\ at[t] = 0 /\ buf[t] = <<>> /\ (pc[t] = "idle" => task[t] = <<>>)
<1>1. next[t] = 1
  BY DEF FillInv, TaskInv
<1>2. SumTo(sizes(task[t]), 0) = 0
  BY SumZero
<1> QED
  BY <1>1, <1>2 DEF SlotInv, CountInv, start

LEMMA SetVerSlots ==
  ASSUME FillInv, SlotsInv, NEW v \in Versions, setHWver(v)
  PROVE  SlotsInv'
<1>1. /\ \A t \in Threads : pc[t] = "idle"
      /\ UNCHANGED <<head, pc, task, size, num, next, at, buf, offsets, shared>>
  BY DEF setHWver, mine, out
<1>2. ASSUME NEW t \in Threads
      PROVE  SlotInv(t)'
  <2>1. SlotInv(t) /\ CountInv(t)
    BY DEF SlotsInv, SlotInv
  <2>2. next[t] = 1 /\ at[t] = 0 /\ buf[t] = <<>> /\ task[t] = <<>>
    BY <1>1, <2>1, FreshCount
  <2>3. start(t, 0)' = 0
    BY SumZero DEF start
  <2>4. Len(<<>>) = 0
    OBVIOUS
  <2>5. CountInv(t)'
    BY <1>1, <2>1, <2>2, <2>3, <2>4 DEF CountInv
  <2> QED
    BY <1>1, <2>2, <2>5, FreshSlots
<1>3. \A t \in Threads : ReportInv(t)'
  BY <1>1 DEF SlotsInv, ReportInv
<1> QED
  BY <1>1, <1>2, <1>3 DEF SlotsInv

LEMMA QuerySlots ==
  ASSUME FillInv, SlotsInv, NEW t \in Threads, NEW infos \in Tasks[hwVer][t],
         queryTransDescSize(t, infos)
  PROVE  SlotsInv'
<1>1. /\ pc[t] = "idle" /\ task' = [task EXCEPT ![t] = infos]
      /\ size' = [size EXCEPT ![t] = sizeOf(infos)]
      /\ num' = [num EXCEPT ![t] = numOf(infos)]
      /\ pc' = [pc EXCEPT ![t] = "queried"]
      /\ UNCHANGED <<hwVer, head, next, at, buf, offsets, shared>>
  BY DEF queryTransDescSize, out
<1>2. /\ DOMAIN size = Threads /\ DOMAIN num = Threads /\ DOMAIN at = Threads
      /\ DOMAIN buf = Threads /\ DOMAIN task = Threads /\ DOMAIN pc = Threads
      /\ hwVer \in Versions
  BY DEF SlotsInv, FillInv, FillTypes
<1>3. SlotInv(t) /\ ReportInv(t) /\ offsets[t] = <<>>
  BY <1>1 DEF SlotsInv, FillInv, TaskInv
<1>4. next[t] = 1 /\ at[t] = 0 /\ buf[t] = <<>>
  BY <1>1, <1>3, FreshCount
<1>5. Len(infos) \in Nat
  BY <1>2, TasksAssumption
<1>6. /\ pc'[t] = "queried" /\ task'[t] = infos
      /\ size'[t] = sizeOf(infos) /\ num'[t] = numOf(infos)
  BY <1>1, <1>2
<1>7. CountInv(t)'
  <2>1. start(t, 0)' = 0
    BY SumZero DEF start
  <2>2. sizeOf(infos)' = sizeOf(infos) /\ numOf(infos)' = numOf(infos)
    BY <1>1 DEF sizeOf, numOf, sizes, nums
  <2>3. 1 \in 1 .. Len(infos) + 1
    BY <1>5
  <2> QED
    BY <1>1, <1>4, <1>6, <2>1, <2>2, <2>3 DEF CountInv
<1>8. SlotInv(t)'
  BY <1>1, <1>4, <1>7, FreshSlots
<1>9. ReportInv(t)'
  BY <1>1, <1>3, <1>6 DEF ReportInv
<1>10. ASSUME NEW u \in Threads \ {t}
       PROVE  SlotInv(u)' /\ ReportInv(u)'
  <2>1. UNCHANGED <<hwVer, pc[u], task[u], size[u], num[u], next[u], at[u], buf[u], offsets[u]>>
    BY <1>1, <1>2
  <2>2. SlotInv(u) /\ ReportInv(u)
    BY DEF SlotsInv
  <2>3. SlotInv(u)'
    BY <2>1, <2>2, SlotsKept
  <2>4. ReportInv(u)'
    BY <1>1, <2>1, <2>2 DEF ReportInv
  <2> QED
    BY <2>3, <2>4
<1> QED
  BY <1>1, <1>2, <1>8, <1>9, <1>10 DEF SlotsInv

LEMMA TransSlots ==
  ASSUME FillInv, SlotsInv, NEW t \in Threads, transTaskInfo(t)
  PROVE  SlotsInv'
<1>1. /\ pc[t] = "queried" /\ UNCHANGED <<hwVer, head, task, size, num, next, at, buf, offsets>>
      /\ pc' = [pc EXCEPT ![t] = IF task[t] # <<>> /\ supported(task[t][1])
                                 THEN "head" ELSE "done"]
      /\ shared' = [u \in Threads |-> IF u = t THEN filling
                                      ELSE IF u \in filling THEN shared[u] \cup {t}
                                      ELSE shared[u]]
  BY DEF transTaskInfo, mine, out
<1>2. DOMAIN pc = Threads /\ hwVer \in Versions /\ t \notin filling
  BY <1>1 DEF FillInv, FillTypes, filling
<1>3. SlotInv(t) /\ ReportInv(t) /\ offsets[t] = <<>>
  BY <1>1 DEF SlotsInv, FillInv, TaskInv
<1>4. next[t] = 1 /\ at[t] = 0 /\ buf[t] = <<>>
  BY <1>1, <1>3, FreshCount
<1>5. pc'[t] = IF task[t] # <<>> /\ supported(task[t][1]) THEN "head" ELSE "done"
  BY <1>1, <1>2
<1>6. CountInv(t)'
  <2>1. /\ sizeOf(task[t])' = sizeOf(task[t]) /\ numOf(task[t])' = numOf(task[t])
        /\ start(t, next[t] - 1)' = start(t, next[t] - 1)
    BY <1>1 DEF sizeOf, numOf, start, sizes, nums
  <2>2. task[t] = <<>> => Len(task[t]) = 0
    OBVIOUS
  <2>3. CountInv(t)
    BY <1>3 DEF SlotInv
  <2> QED
    BY <1>1, <1>4, <1>5, <2>1, <2>2, <2>3 DEF CountInv
<1>7. SlotInv(t)'
  BY <1>1, <1>4, <1>6, FreshSlots
<1>8. ReportInv(t)'
  BY <1>1, <1>2, <1>3, <1>5 DEF ReportInv
<1>9. ASSUME NEW u \in Threads \ {t}
      PROVE  SlotInv(u)' /\ ReportInv(u)'
  <2>1. UNCHANGED <<hwVer, pc[u], task[u], size[u], num[u], next[u], at[u], buf[u], offsets[u]>>
    BY <1>1, <1>2
  <2>2. SlotInv(u) /\ ReportInv(u) /\ HeadInv(u)
    BY DEF SlotsInv, FillInv
  <2>3. u \notin shared'[u]
    BY <1>1, <2>2 DEF ReportInv
  <2> QED
    BY <1>1, <2>1, <2>2, <2>3, SlotsKept, ReportKept
<1> QED
  BY <1>1, <1>7, <1>8, <1>9 DEF SlotsInv

LEMMA HeadSlots ==
  ASSUME FillInv, SlotsInv, NEW t \in Threads, setHeadDesc(t)
  PROVE  SlotsInv'
<1> DEFINE type == task[t][next[t]].info_type
<1>1. /\ pc[t] = "head" /\ UNCHANGED <<hwVer, task, size, num, next, at, buf, offsets, shared>>
      /\ IF type \in Supported
         THEN head' = [head EXCEPT ![type] = t] /\ pc' = [pc EXCEPT ![t] = "fill"]
         ELSE pc' = [pc EXCEPT ![t] = "done"] /\ UNCHANGED head
  BY DEF setHeadDesc, mine, out
<1>2. DOMAIN pc = Threads /\ DOMAIN head = Supported
  BY DEF FillInv, FillTypes
<1>3. SlotInv(t) /\ ReportInv(t)
  BY DEF SlotsInv
<1>4. /\ pc'[t] = IF type \in Supported THEN "fill" ELSE "done"
      /\ type \in Supported => head'[type] = t
      /\ \A g \in Supported : head'[g] \in Threads \/ head'[g] = head[g]
  BY <1>1, <1>2
<1>5. CountInv(t)'
  <2>1. /\ sizeOf(task[t])' = sizeOf(task[t]) /\ numOf(task[t])' = numOf(task[t])
        /\ start(t, next[t] - 1)' = start(t, next[t] - 1)
    BY <1>1 DEF sizeOf, numOf, start, sizes, nums
  <2>2. CountInv(t)
    BY <1>3 DEF SlotInv
  <2> QED
    BY <1>1, <1>4, <2>1, <2>2 DEF CountInv, supported
<1>6. SlotInv(t)'
  <2>1. ChainInv(t)' /\ \A e : Slot(t, e) => Slot(t, e)'
    BY <1>1, <1>3 DEF SlotInv, ChainInv, Slot, start, sizes, nums, refused
  <2> QED
    BY <1>1, <1>3, <1>4, <1>5, <2>1 DEF SlotInv
<1>7. ReportInv(t)'
  BY <1>1, <1>3, <1>4 DEF ReportInv
<1>8. ASSUME NEW u \in Threads \ {t}
      PROVE  SlotInv(u)' /\ ReportInv(u)'
  <2>1. UNCHANGED <<hwVer, pc[u], task[u], size[u], num[u], next[u], at[u], buf[u], offsets[u]>>
    BY <1>1, <1>2
  <2>2. SlotInv(u) /\ ReportInv(u) /\ HeadInv(u)
    BY DEF SlotsInv, FillInv
  <2>3. u \notin shared'[u]
    BY <1>1, <2>2 DEF ReportInv
  <2> HIDE DEF type
  <2> QED
    BY <1>4, <2>1, <2>2, <2>3, SlotsKept, ReportKept
<1> QED
  BY <1>1, <1>6, <1>7, <1>8 DEF SlotsInv

\* A fill writes into the part of its info, and goes on behind it.
LEMMA FillSlots ==
  ASSUME FillInv, SlotsInv, NEW t \in Threads, fillInfo(t)
  PROVE  SlotsInv'
<1> DEFINE n == next[t]
           i == task[t][n]
           d == fillDesc(hwVer, i).descs
<1>1. /\ pc[t] = "fill" /\ UNCHANGED <<hwVer, head, task, size, num, shared>>
      /\ buf' = [buf EXCEPT ![t] = @ \o placed(t, d)]
      /\ offsets' = [offsets EXCEPT ![t] = @ \o reported(t, fillDesc(hwVer, i).binds)]
      /\ at' = [at EXCEPT ![t] = @ + queryDSize(hwVer, i)]
      /\ next' = [next EXCEPT ![t] = @ + 1]
      /\ pc' = [pc EXCEPT ![t] = IF next[t] = Len(task[t]) THEN "done" ELSE "head"]
  BY DEF fillInfo, mine
<1>2. /\ DOMAIN pc = Threads /\ DOMAIN next = Threads /\ DOMAIN at = Threads
      /\ DOMAIN buf = Threads /\ DOMAIN offsets = Threads /\ hwVer \in Versions
  BY DEF SlotsInv, FillInv, FillTypes
<1>3. SlotInv(t) /\ CountInv(t) /\ ReportInv(t) /\ HeadInv(t) /\ TaskInv(t)
  BY DEF SlotsInv, SlotInv, FillInv
<1>4. task[t] \in Tasks[hwVer][t] \/ task[t] = <<>>
  BY <1>3 DEF CountInv
<1>5. /\ Len(task[t]) \in Nat /\ n \in 1 .. Len(task[t])
      /\ i.info_type \in Supported /\ supported(i)
  BY <1>1, <1>3 DEF TaskInv, Fill, HeadInv, supported
<1>6. wellFormed(i)
  BY <1>2, <1>4, <1>5, CountsNat
<1>7. /\ \A k \in 0 .. Len(task[t]) - 1 : sizes(task[t])[k] \in Nat /\ nums(task[t])[k] \in Nat
      /\ \A k \in 0 .. Len(task[t]) : SumTo(sizes(task[t]), k) \in Nat /\ SumTo(nums(task[t]), k) \in Nat
  BY <1>2, <1>4, CountsNat
<1>8. PICK m \in Nat : m = n - 1 /\ n = m + 1 /\ m \in 0 .. Len(task[t]) - 1
  BY <1>5
<1>9. sizes(task[t])[m] = queryDSize(hwVer, i) /\ nums(task[t])[m] = queryDNum(hwVer, i)
  BY <1>5, <1>8 DEF sizes, nums
<1>10. /\ start(t, n) = start(t, n - 1) + queryDSize(hwVer, i)
       /\ SumTo(nums(task[t]), n) = SumTo(nums(task[t]), n - 1) + queryDNum(hwVer, i)
  <2>1. PICK f, g : f = sizes(task[t]) /\ g = nums(task[t])
    OBVIOUS
  <2>2. \A k \in 0 .. m : k \in 0 .. Len(task[t]) - 1
    BY <1>5, <1>8
  <2>3. \A k \in 0 .. m : f[k] \in Nat /\ g[k] \in Nat
    BY <1>7, <2>1, <2>2
  <2>4. SumTo(f, m + 1) = SumTo(f, m) + f[m] /\ SumTo(g, m + 1) = SumTo(g, m) + g[m]
    BY <2>3, SumNext
  <2> QED
    BY <1>8, <1>9, <2>1, <2>4 DEF start
<1>11. at[t] = start(t, n - 1) /\ at[t] \in Nat /\ at[t] + queryDSize(hwVer, i) = start(t, n)
  <2>1. at[t] = start(t, n - 1)
    BY <1>3 DEF CountInv
  <2>2. at[t] \in Nat
    BY <1>7, <1>8, <2>1 DEF start
  <2> QED
    BY <1>10, <2>1, <2>2
<1>12. /\ Sized(d) /\ queryDSize(hwVer, i) \in Nat /\ queryDNum(hwVer, i) \in Nat
       /\ ~misjudged(i) => \/ queryDNum(hwVer, i) > 0 /\ d = <<>>
                           \/ Exact(d, queryDNum(hwVer, i), queryDSize(hwVer, i))
  BY <1>2, <1>5, <1>6, FillFits
<1>13. PICK p : p = placed(t, d)
  OBVIOUS
<1>14. PICK total, len : total = SumTo(descSizes(d), Len(d)) /\ len = Len(d)
  OBVIOUS
<1> HIDE DEF d
<1>15. /\ len \in Nat /\ IsSeq(p) /\ Len(p) = len /\ total \in Nat /\ (len = 0 => total = 0)
       /\ \A k \in 1 .. len :
            /\ p[k].info = n /\ p[k].at \in Nat /\ at[t] <= p[k].at
            /\ descSize(p[k].desc.type) \in Nat
            /\ p[k].at + descSize(p[k].desc.type) <= at[t] + total
       /\ len > 0 => p[1].at = at[t]
       /\ Chained(p, at[t] + total)
  BY <1>11, <1>12, <1>13, <1>14, PlacedFacts
<1> HIDE DEF i
<1>16. /\ buf'[t] = buf[t] \o p /\ at'[t] = at[t] + queryDSize(hwVer, i) /\ next'[t] = n + 1
       /\ pc'[t] = IF n = Len(task[t]) THEN "done" ELSE "head"
  BY <1>1, <1>2, <1>13
<1>17. \A k : start(t, k)' = start(t, k)
  BY <1>1 DEF start, sizes
<1>18. CountInv(t)'
  <2>1. sizeOf(task[t])' = sizeOf(task[t]) /\ numOf(task[t])' = numOf(task[t])
    BY <1>1 DEF sizeOf, numOf, sizes, nums
  <2>2. next'[t] \in 1 .. Len(task[t]) + 1 /\ next'[t] - 1 = n
    BY <1>5, <1>16
  <2>3. start(t, next[t] - 1)' = start(t, n)
    BY <1>1, <2>2 DEF start, sizes
  <2>5. at'[t] = start(t, n)
    BY <1>11, <1>16
  <2>4. \A k \in 1 .. next'[t] - 1 : supported(task[t][k])
    <3>1. \A k \in 1 .. next'[t] - 1 : k \in 1 .. n - 1 \/ k = n
      BY <1>5, <2>2
    <3> QED
      BY <1>3, <1>5, <3>1 DEF CountInv, i
  <2> QED
    BY <1>1, <1>3, <1>16, <2>1, <2>2, <2>3, <2>4, <2>5 DEF CountInv
<1>19. IsSeq(buf'[t]) /\ DOMAIN buf'[t] = DOMAIN (buf[t] \o p)
  BY <1>3, <1>15, <1>16, ConcatFacts DEF SlotInv
<1>20. ASSUME NEW k \in DOMAIN buf'[t], NEW e, e = buf'[t][k]
       PROVE  Slot(t, e)'
  <2> PICK b : b = buf[t]
    OBVIOUS
  <2>1. (k \in DOMAIN b /\ e = b[k]) \/ \E j \in DOMAIN p : e = p[j]
    <3>1. IsSeq(b)
      BY <1>3 DEF SlotInv
    <3>2. From(b \o p, b, p)
      BY <1>15, <3>1, ConcatFacts
    <3> QED
      BY <1>16, <1>20, <3>2 DEF From
  <2>2. \A h \in 1 .. n - 1 : h \in 1 .. next'[t] - 1
    BY <1>5, <1>16
  <2>3. CASE k \in DOMAIN b /\ e = b[k]
    <3>1. Slot(t, e)
      BY <1>3, <2>3 DEF SlotInv
    <3>2. e.info \in 1 .. next'[t] - 1
      BY <2>2, <3>1 DEF Slot
    <3> QED
      BY <1>1, <1>17, <3>1, <3>2 DEF Slot
  <2>4. ASSUME NEW j \in DOMAIN p, e = p[j]
        PROVE  Slot(t, e)'
    <3>1. j \in 1 .. len
      BY <1>15, SeqFacts
    <3>3. /\ e.info = n /\ e.at \in Nat /\ at[t] <= e.at /\ descSize(e.desc.type) \in Nat
          /\ e.at + descSize(e.desc.type) <= at[t] + total
      BY <1>15, <2>4, <3>1
    <3>4. n \in 1 .. next'[t] - 1
      BY <1>5, <1>16
    <3>5. ASSUME ~misjudged(i)
          PROVE  start(t, n - 1) <= e.at /\ e.at + descSize(e.desc.type) <= start(t, n)
      <4>1. d # <<>>
        BY <1>14, <3>1, TupleSeqs
      <4>2. Exact(d, queryDNum(hwVer, i), queryDSize(hwVer, i))
        BY <1>12, <3>5, <4>1
      <4>3. total = queryDSize(hwVer, i)
        BY <1>14, <4>2 DEF Exact
      <4> QED
        BY <1>11, <3>3, <4>3
    <3> QED
      BY <1>1, <1>17, <3>3, <3>4, <3>5 DEF Slot, i
  <2> QED
    BY <2>1, <2>3, <2>4
<1>21. ChainInv(t)'
  <2> SUFFICES ASSUME \A k \in 1 .. next'[t] - 1 : ~misjudged(task[t][k]) /\ ~refused(task[t][k])
               PROVE  /\ Len(buf'[t]) = SumTo(nums(task[t]), next'[t] - 1)
                      /\ Chained(buf'[t], at'[t])
    BY <1>1 DEF ChainInv, nums, refused
  <2>1. next'[t] - 1 = n /\ n \in 1 .. next'[t] - 1 /\ \A k \in 1 .. n - 1 : k \in 1 .. next'[t] - 1
    BY <1>5, <1>16
  <2>2. Len(buf[t]) = SumTo(nums(task[t]), n - 1) /\ Chained(buf[t], at[t])
    BY <1>3, <2>1 DEF SlotInv, ChainInv
  <2>3. ~misjudged(i) /\ ~refused(i)
    BY <2>1 DEF i
  <2>4. Exact(d, queryDNum(hwVer, i), queryDSize(hwVer, i))
    BY <1>12, <2>3 DEF refused, d
  <2>5. len = queryDNum(hwVer, i) /\ total = queryDSize(hwVer, i)
    BY <1>14, <2>4 DEF Exact
  <2>6. Len(buf'[t]) = Len(buf[t]) + len
    <3>1. PICK b : b = buf[t] /\ IsSeq(b)
      BY <1>3 DEF SlotInv
    <3>2. Len(b \o p) = Len(b) + Len(p)
      BY <1>15, <3>1, ConcatAt
    <3> QED
      BY <1>15, <1>16, <3>1, <3>2
  <2>7. Chained(buf[t] \o p, at[t] + total)
    <3>1. at[t] + 0 = at[t]
      BY <1>11
    <3> QED
      BY <1>3, <1>15, <2>2, <3>1, ChainedOn DEF SlotInv
  <2> QED
    BY <1>10, <1>16, <2>1, <2>2, <2>5, <2>6, <2>7
<1>22. SlotInv(t)'
  BY <1>16, <1>18, <1>19, <1>20, <1>21 DEF SlotInv
<1>23. ReportInv(t)'
  <2>1. PICK b, r : b = fillDesc(hwVer, i).binds /\ r = reported(t, b)
    OBVIOUS
  <2>2. Len(b) \in Nat /\ DOMAIN b = 1 .. Len(b)
    BY <1>5, <2>1, BindsSeq, SeqFacts DEF i
  <2>3. IsSeq(r) /\ \A k \in DOMAIN r : r[k].buffer \in Threads
    <3>1. CASE r = <<>>
      BY <3>1, TupleSeqs
    <3>2. CASE r # <<>>
      <4>1. PICK f : f = [k \in 1 .. Len(b) |->
                            [buffer |-> head[i.info_type], field |-> at[t] + b[k].at,
                             object |-> b[k].obj, off |-> b[k].off, info |-> n]]
        OBVIOUS
      <4>2. r = f
        BY <2>1, <2>2, <3>2, <4>1 DEF reported, i
      <4>3. head[i.info_type] \in Threads
        BY <1>1, <1>3 DEF ReportInv, i
      <4>4. f = [k \in 1 .. Len(b) |-> f[k]] /\ \A k \in 1 .. Len(b) : f[k].buffer = head[i.info_type]
        BY <4>1
      <4> QED
        BY <2>2, <4>2, <4>3, <4>4, FcnSeq
    <3> QED
      BY <3>1, <3>2
  <2>4. PICK s : s = offsets[t]
    OBVIOUS
  <2>5. IsSeq(s) /\ offsets'[t] = s \o r
    BY <1>1, <1>2, <1>3, <2>1, <2>4 DEF TaskInv, i
  <2>6. \A k \in DOMAIN (s \o r) : \/ k \in DOMAIN s /\ (s \o r)[k] = s[k]
                                  \/ \E j \in DOMAIN r : (s \o r)[k] = r[j]
    BY <2>3, <2>5, ConcatFacts
  <2>7. \A k \in DOMAIN s : s[k].buffer \in Threads
    BY <1>3, <2>4 DEF ReportInv
  <2>8. \A k \in DOMAIN offsets'[t] : offsets'[t][k].buffer \in Threads
    BY <2>3, <2>5, <2>6, <2>7
  <2> QED
    BY <1>1, <1>3, <1>16, <2>8 DEF ReportInv
<1>24. ASSUME NEW u \in Threads \ {t}
       PROVE  SlotInv(u)' /\ ReportInv(u)'
  <2>1. UNCHANGED <<hwVer, pc[u], task[u], size[u], num[u], next[u], at[u], buf[u], offsets[u]>>
    BY <1>1, <1>2
  <2>2. SlotInv(u) /\ ReportInv(u) /\ HeadInv(u)
    BY DEF SlotsInv, FillInv
  <2>3. u \notin shared'[u]
    BY <1>1, <2>2 DEF ReportInv
  <2> QED
    BY <1>1, <2>1, <2>2, <2>3, SlotsKept, ReportKept
<1> QED
  BY <1>1, <1>2, <1>22, <1>23, <1>24 DEF SlotsInv
-----------------------------------------------------------------------------
LEMMA SlotsInit == Init => SlotsInv
<1> SUFFICES ASSUME Init
             PROVE  SlotsInv
  OBVIOUS
<1>1. ASSUME NEW t \in Threads
      PROVE  SlotInv(t) /\ ReportInv(t)
  <2>1. /\ pc[t] = "idle" /\ task[t] = <<>> /\ next[t] = 1 /\ at[t] = 0 /\ buf[t] = <<>>
        /\ offsets[t] = <<>> /\ shared[t] = {} /\ size[t] = 0 /\ num[t] = 0
    BY DEF Init
  <2>2. Len(<<>>) = 0 /\ DOMAIN <<>> = {} /\ IsSeq(<<>>)
    BY TupleSeqs
  <2>3. start(t, 0) = 0 /\ SumTo(nums(task[t]), 0) = 0
    BY SumZero DEF start
  <2>4. CountInv(t)
    BY <2>1, <2>2, <2>3 DEF CountInv
  <2>5. ChainInv(t)
    BY <2>1, <2>2, <2>3 DEF ChainInv, Chained
  <2> QED
    BY <2>1, <2>2, <2>4, <2>5 DEF SlotInv, ReportInv
<1>2. DOMAIN size = Threads /\ DOMAIN num = Threads /\ DOMAIN at = Threads /\ DOMAIN buf = Threads
  BY DEF Init
<1> QED
  BY <1>1, <1>2 DEF SlotsInv

LEMMA SlotsStep == FillInv /\ SlotsInv /\ [Next]_vars => SlotsInv'
<1> SUFFICES ASSUME FillInv, SlotsInv, [Next]_vars
             PROVE  SlotsInv'
  OBVIOUS
<1>1. CASE UNCHANGED vars
  <2>1. UNCHANGED <<hwVer, head, pc, task, size, num, next, at, buf, offsets, shared>>
    BY <1>1 DEF vars, mine, out
  <2>2. ASSUME NEW t \in Threads
        PROVE  SlotInv(t)' /\ ReportInv(t)'
    <3>1. SlotInv(t) /\ ReportInv(t)
      BY DEF SlotsInv
    <3>2. SlotInv(t)'
      BY <2>1, <3>1, SlotsKept
    <3> QED
      BY <2>1, <3>1, <3>2 DEF ReportInv
  <2> QED
    BY <2>1, <2>2 DEF SlotsInv
<1>2. ASSUME NEW v \in Versions, setHWver(v)
      PROVE  SlotsInv'
  BY <1>2, SetVerSlots
<1>3. ASSUME NEW t \in Threads, NEW infos \in Tasks[hwVer][t], queryTransDescSize(t, infos)
      PROVE  SlotsInv'
  BY <1>3, QuerySlots
<1>4. ASSUME NEW t \in Threads, transTaskInfo(t) \/ setHeadDesc(t) \/ fillInfo(t)
      PROVE  SlotsInv'
  BY <1>4, TransSlots, HeadSlots, FillSlots
<1> QED
  BY <1>1, <1>2, <1>3, <1>4 DEF Next, Finished

LEMMA SlotsInvariant == Spec => [](FillInv /\ SlotsInv)
BY FillInit, FillStep, SlotsInit, SlotsStep, PTL DEF Spec

(* The variables keep their types; no size or number of descriptors is ever *)
(* negative, and every offset reported refers to the buffer of a thread.    *)
THEOREM TypeCorrect == Spec => []TypeOK
<1>1. FillInv /\ SlotsInv => TypeOK
  <2> SUFFICES ASSUME FillInv, SlotsInv
               PROVE  TypeOK
    OBVIOUS
  <2>1. FillTypes
    BY DEF FillInv
  <2>2. ASSUME NEW t \in Threads
        PROVE  /\ task[t] \in (UNION {Tasks[v][t] : v \in Versions}) \cup {<<>>}
               /\ size[t] \in Nat /\ num[t] \in Nat /\ at[t] \in Nat
               /\ next[t] \in 1 .. Len(task[t]) + 1
               /\ \A k \in DOMAIN buf[t] : buf[t][k].info < next[t] /\ buf[t][k].at \in Nat
               /\ \A k \in DOMAIN offsets[t] : offsets[t][k].buffer \in Threads
               /\ shared[t] \subseteq Threads \ {t}
    <3>1. SlotInv(t) /\ ReportInv(t) /\ CountInv(t)
      BY DEF SlotsInv, SlotInv
    <3>2. task[t] = <<>> \/ task[t] \in Tasks[hwVer][t]
      BY <3>1 DEF CountInv
    <3>3. /\ Len(task[t]) \in Nat
          /\ \A k \in 0 .. Len(task[t]) : SumTo(sizes(task[t]), k) \in Nat
                                          /\ SumTo(nums(task[t]), k) \in Nat
      BY <2>1, <3>2, CountsNat DEF FillTypes
    <3>4. next[t] \in 1 .. Len(task[t]) + 1 /\ next[t] - 1 \in 0 .. Len(task[t])
      BY <3>1, <3>3 DEF CountInv
    <3>5. size[t] \in Nat /\ num[t] \in Nat /\ at[t] \in Nat
      <4>1. Len(task[t]) \in 0 .. Len(task[t])
        BY <3>3
      <4>2. sizeOf(task[t]) \in Nat /\ numOf(task[t]) \in Nat
        BY <3>3, <4>1 DEF sizeOf, numOf
      <4>3. start(t, next[t] - 1) \in Nat
        BY <3>3, <3>4 DEF start
      <4> QED
        BY <3>1, <4>2, <4>3 DEF CountInv
    <3>6. \A k \in DOMAIN buf[t] : buf[t][k].info < next[t] /\ buf[t][k].at \in Nat
      BY <3>1, <3>3, <3>4 DEF SlotInv, Slot
    <3>7. task[t] \in (UNION {Tasks[v][t] : v \in Versions}) \cup {<<>>}
      BY <2>1, <3>2 DEF FillTypes
    <3>8. shared[t] \subseteq Threads \ {t}
      BY <2>1, <3>1 DEF FillTypes, ReportInv
    <3> QED
      BY <3>1, <3>4, <3>5, <3>6, <3>7, <3>8 DEF ReportInv
  <2> QED
    BY <2>1, <2>2 DEF TypeOK, FillTypes
<1> QED
  BY <1>1, SlotsInvariant, PTL

(* No fill writes outside of the part of the buffer the query counted for   *)
(* the info, whatever the infos and their sizes, so none writes over its    *)
(* neighbour's descriptors or past the end of a buffer of the queried size. *)
THEOREM FillsStayInside == Spec => []SlotsHold
<1>1. FillInv /\ SlotsInv => SlotsHold
  <2> SUFFICES ASSUME FillInv, SlotsInv, NEW t \in Threads, NEW e \in written(t),
                      ~misjudged(infoOf(t, e))
               PROVE  /\ start(t, e.info - 1) <= e.at
                      /\ e.at + descSize(e.desc.type) <= start(t, e.info)
                      /\ start(t, e.info) <= size[t]
    BY DEF SlotsHold
  <2>1. SlotInv(t) /\ CountInv(t)
    BY DEF SlotsInv, SlotInv
  <2>2. PICK k \in DOMAIN buf[t] : e = buf[t][k]
    BY DEF written, Range
  <2>3. Slot(t, e)
    BY <2>1, <2>2 DEF SlotInv
  <2>4. pc[t] # "idle"
    <3>1. DOMAIN <<>> = {}
      OBVIOUS
    <3> QED
      BY <2>1, <2>2, <3>1 DEF SlotInv
  <2>5. hwVer \in Versions /\ (task[t] = <<>> \/ task[t] \in Tasks[hwVer][t])
    BY <2>1 DEF CountInv, FillInv, FillTypes
  <2>6. PICK len, f : len \in Nat /\ len = Len(task[t]) /\ f = sizes(task[t])
    BY <2>5, CountsNat
  <2>7. \A j \in 0 .. len - 1 : f[j] \in Nat
    BY <2>5, <2>6, CountsNat
  <2>8. e.info \in 0 .. len
    BY <2>1, <2>3, <2>6 DEF Slot, CountInv
  <2>9. SumTo(f, e.info) <= SumTo(f, len)
    BY <2>6, <2>7, <2>8, SumGrows
  <2>10. size[t] = SumTo(f, len) /\ start(t, e.info) = SumTo(f, e.info)
    BY <2>1, <2>4, <2>6 DEF CountInv, sizeOf, start
  <2> QED
    BY <2>3, <2>9, <2>10 DEF Slot, infoOf
<1> QED
  BY <1>1, SlotsInvariant, PTL

(* When every info of a task has a generator that accepts it, the device    *)
(* meets exactly the descriptors it is told of, one behind the other, and   *)
(* ends where the buffer ends.                                              *)
THEOREM ChainsComplete == Spec => []ChainWhole
<1>1. FillInv /\ SlotsInv => ChainWhole
  <2> SUFFICES ASSUME FillInv, SlotsInv, NEW t \in Threads, pc[t] = "done",
                      \A k \in DOMAIN task[t] :
                        /\ supported(task[t][k]) /\ ~misjudged(task[t][k]) /\ ~refused(task[t][k])
               PROVE  /\ Len(buf[t]) = num[t]
                      /\ \A k \in DOMAIN buf[t] :
                           buf[t][k].at + descSize(buf[t][k].desc.type) =
                             IF k = num[t] THEN size[t] ELSE buf[t][k + 1].at
    BY DEF ChainWhole
  <2>1. SlotInv(t) /\ CountInv(t) /\ ChainInv(t)
    BY DEF SlotsInv, SlotInv
  <2>2. hwVer \in Versions /\ (task[t] = <<>> \/ task[t] \in Tasks[hwVer][t])
    BY <2>1 DEF CountInv, FillInv, FillTypes
  <2>3. PICK len \in Nat : len = Len(task[t]) /\ DOMAIN task[t] = 1 .. len
    BY <2>2, CountsNat
  <2>4. next[t] = len + 1
    <3>1. next[t] \in 1 .. len + 1
      BY <2>1, <2>3 DEF CountInv
    <3>2. next[t] # len + 1 => next[t] \in DOMAIN task[t]
      BY <2>3, <3>1
    <3> QED
      BY <2>1, <2>3, <3>2 DEF CountInv
  <2>5. next[t] - 1 = len
    BY <2>4
  <2>6. Len(buf[t]) = SumTo(nums(task[t]), len) /\ Chained(buf[t], at[t])
    BY <2>1, <2>3, <2>5 DEF ChainInv
  <2>7. num[t] = SumTo(nums(task[t]), len) /\ size[t] = at[t]
    BY <2>1, <2>3, <2>5 DEF CountInv, numOf, sizeOf, start
  <2> QED
    BY <2>6, <2>7 DEF Chained
<1> QED
  BY <1>1, SlotsInvariant, PTL

-----------------------------------------------------------------------------
(***************************************************************************)
(* What running the descriptors does to memory.                            *)
(***************************************************************************)
\* What an info asks for: pairs of an address and its content, never two
\* contents for one address.
Request(R) ==
  /\ \A p \in R : p = <<p[1], p[2]>>
  /\ \A p, q \in R : p[1] = q[1] => p[2] = q[2]

WrittenBy(R) == {p[1] : p \in R}
ReadBy(R) == UNION {{p[2][k] : k \in DOMAIN p[2]} : p \in R}

\* Memory m0 became m1 by writing what R asks for and nothing else.
Arrived(R, m0, m1) ==
  /\ \A p \in R : p[1] \in DOMAIN m1 /\ m1[p[1]] = p[2]
  /\ DOMAIN m1 = DOMAIN m0 \cup WrittenBy(R)
  /\ \A a \in DOMAIN m0 \ WrittenBy(R) : m1[a] = m0[a]

\* A list of descriptors does what R asks for, wherever R's bytes to read were
\* not written before.
Delivers(descs, R) ==
  \A m : (/\ \A k \in 1 .. Len(descs) : m[k] = Executed(m[k - 1], descs[k])
          /\ DOMAIN m[0].mem \cap ReadBy(R) = {})
         => Arrived(R, m[0].mem, m[Len(descs)].mem)

\* the bytes a descriptor writes, with their content
Effect(m, d) ==
  LET writes == Stream(d.dst, d.wu)
  IN {<<writes[n], Made(m, d, n)>> : n \in DOMAIN writes}

LEMMA EffectArrives ==
  ASSUME NEW m, NEW d, d.wtmp = FALSE, Request(Effect(m, d))
  PROVE  Arrived(Effect(m, d), m.mem, Executed(m, d).mem)
<1> PICK writes : writes = Stream(d.dst, d.wu)
  OBVIOUS
<1> DEFINE first(a) == CHOOSE n \in DOMAIN writes : writes[n] = a
           A == {writes[n] : n \in DOMAIN writes}
           R == Effect(m, d)
<1>1. R = {<<writes[n], Made(m, d, n)>> : n \in DOMAIN writes}
  BY DEF Effect
<1>2. WrittenBy(R) = A
  <2>1. A \subseteq WrittenBy(R)
    <3> SUFFICES ASSUME NEW n \in DOMAIN writes
                 PROVE  writes[n] \in WrittenBy(R)
      OBVIOUS
    <3>1. <<writes[n], Made(m, d, n)>> \in R
      BY <1>1
    <3> QED
      BY <3>1 DEF WrittenBy
  <2>2. WrittenBy(R) \subseteq A
    BY <1>1 DEF WrittenBy
  <2> QED
    BY <2>1, <2>2
<1> PICK made : made = [a \in A |-> Made(m, d, first(a))]
  OBVIOUS
<1>3. Executed(m, d).mem = overwritten(m.mem, made)
  BY DEF Executed, Range
<1>4. \A n \in DOMAIN writes : made[writes[n]] = Made(m, d, n)
  <2> TAKE n \in DOMAIN writes
  <2>1. first(writes[n]) \in DOMAIN writes /\ writes[first(writes[n])] = writes[n]
    OBVIOUS
  <2>2. PICK k \in DOMAIN writes : k = first(writes[n]) /\ writes[k] = writes[n]
    BY <2>1
  <2>3. <<writes[n], Made(m, d, n)>> \in R /\ <<writes[k], Made(m, d, k)>> \in R
    BY <1>1
  <2>4. Made(m, d, n) = Made(m, d, k)
    BY <2>2, <2>3 DEF Request
  <2> QED
    BY <2>2, <2>4
<1> PICK m1 : m1 = overwritten(m.mem, made)
  OBVIOUS
<1>5. DOMAIN m1 = DOMAIN m.mem \cup A
  BY DEF overwritten
<1>6. \A p \in R : p[1] \in DOMAIN m1 /\ m1[p[1]] = p[2]
  BY <1>1, <1>4 DEF overwritten
<1>7. \A a \in DOMAIN m.mem \ A : m1[a] = m.mem[a]
  BY DEF overwritten
<1> QED
  BY <1>2, <1>3, <1>5, <1>6, <1>7 DEF Arrived

LEMMA OneDelivers ==
  ASSUME NEW d, d.wtmp = FALSE, NEW R, Request(R),
         \A m : DOMAIN m.mem \cap ReadBy(R) = {} => Effect(m, d) = R
  PROVE  Delivers(<<d>>, R)
<1> SUFFICES ASSUME NEW m, \A k \in 1 .. Len(<<d>>) : m[k] = Executed(m[k - 1], <<d>>[k]),
                    DOMAIN m[0].mem \cap ReadBy(R) = {}
             PROVE  Arrived(R, m[0].mem, m[Len(<<d>>)].mem)
  BY DEF Delivers
<1>1. Len(<<d>>) = 1 /\ m[1] = Executed(m[0], d)
  OBVIOUS
<1>2. Effect(m[0], d) = R
  OBVIOUS
<1> QED
  BY <1>1, <1>2, EffectArrives
-----------------------------------------------------------------------------
LEMMA Quotient ==
  ASSUME NEW a \in Nat \ {0}, NEW u \in Int, NEW k \in 0 .. a - 1
  PROVE  (a * u + k) \div a = u /\ (a * u + k) % a = k
OBVIOUS

LEMMA Remainder ==
  ASSUME NEW a \in Nat \ {0}, NEW n \in Nat
  PROVE  /\ n \div a \in Nat /\ n % a \in 0 .. a - 1
         /\ n = a * (n \div a) + (n % a)
OBVIOUS

LEMMA QuotientTwice ==
  ASSUME NEW a \in Nat \ {0}, NEW b \in Nat \ {0}, NEW n \in Nat
  PROVE  n \div (a * b) = (n \div a) \div b
OBVIOUS

LEMMA PairInside ==
  ASSUME NEW a \in Nat, NEW b \in Nat, NEW x \in 0 .. a - 1, NEW y \in 0 .. b - 1
  PROVE  x + a * y \in 0 .. a * b - 1
OBVIOUS
-----------------------------------------------------------------------------
\* byte x of line y of frame z of an operand
spot(p, x, y, z) == p.addr + x + y * p.xp + z * p.yp

IsPlane(p) ==
  p.xs \in Nat /\ p.ys \in Nat /\ p.zs \in Nat /\ p.addr \in Int /\ p.xp \in Int /\ p.yp \in Int

\* where element x of line y of frame z is in a list of frames of b lines of a
cell(a, b, x, y, z) == x + a * (y + b * z)

InGrid(a, b, c, x, y, z, n) ==
  /\ n \in 0 .. a * b * c - 1
  /\ n % a = x /\ (n \div a) % b = y /\ n \div (a * b) = z

LEMMA GridIndex ==
  ASSUME NEW a \in Nat, NEW b \in Nat, NEW c \in Nat,
         NEW x \in 0 .. a - 1, NEW y \in 0 .. b - 1, NEW z \in 0 .. c - 1,
         NEW n, n = cell(a, b, x, y, z)
  PROVE  InGrid(a, b, c, x, y, z, n)
<1>1. a \in Nat \ {0} /\ b \in Nat \ {0}
  OBVIOUS
<1> PICK m \in Nat : m = y + b * z
  OBVIOUS
<1>2. n = x + a * m
  BY DEF cell
<1> PICK q \in Nat : q = b * c
  OBVIOUS
<1>3. m \in 0 .. q - 1
  BY PairInside
<1>4. n \in 0 .. a * q - 1
  BY <1>2, <1>3, PairInside
<1>5. a * q = a * b * c
  OBVIOUS
<1>6. n = a * m + x /\ m = b * z + y
  BY <1>2
<1>7. n \div a = m /\ n % a = x
  BY <1>1, <1>6, Quotient
<1>8. m \div b = z /\ m % b = y
  BY <1>1, <1>6, Quotient
<1>9. n \in Nat
  BY <1>6
<1>10. n \div (a * b) = (n \div a) \div b
  BY <1>1, <1>9, QuotientTwice
<1> QED
  BY <1>4, <1>5, <1>7, <1>8, <1>10 DEF InGrid

LEMMA GridAll ==
  ASSUME NEW a \in Nat, NEW b \in Nat, NEW c \in Nat, NEW n \in 0 .. a * b * c - 1
  PROVE  \E x \in 0 .. a - 1, y \in 0 .. b - 1, z \in 0 .. c - 1 : n = cell(a, b, x, y, z)
<1>1. a # 0 /\ b # 0 /\ n \in Nat
  OBVIOUS
<1>2. /\ n \div a \in Nat /\ n % a \in 0 .. a - 1
      /\ n = a * (n \div a) + (n % a)
  BY <1>1, Remainder
<1> PICK m \in Nat, x \in 0 .. a - 1 : n = a * m + x
  BY <1>2
<1>3. /\ m \div b \in Nat /\ m % b \in 0 .. b - 1
      /\ m = b * (m \div b) + (m % b)
  BY <1>1, Remainder
<1> PICK z \in Nat, y \in 0 .. b - 1 : m = b * z + y
  BY <1>3
<1>4. z < c
  <2>1. ASSUME z >= c
        PROVE  FALSE
    <3> PICK q \in Nat : q = b * c
      OBVIOUS
    <3>1. b * z >= q
      BY <2>1
    <3>2. m >= q
      BY <3>1
    <3>3. a * m >= a * q
      BY <3>2
    <3>4. a * q = a * b * c
      OBVIOUS
    <3> QED
      BY <3>3, <3>4
  <2> QED
    BY <2>1
<1>5. n = cell(a, b, x, y, z)
  BY DEF cell
<1>6. z \in 0 .. c - 1
  BY <1>4
<1> QED
  BY <1>5, <1>6, Zenon

LEMMA SpotOf ==
  ASSUME NEW p, IsPlane(p), NEW x \in 0 .. p.xs - 1, NEW y \in 0 .. p.ys - 1, NEW z \in 0 .. p.zs - 1,
         NEW n, n = cell(p.xs, p.ys, x, y, z)
  PROVE  n \in 0 .. planeSize(p) - 1 /\ ByteAt(p, n) = spot(p, x, y, z)
<1>1. p.xs \in Nat /\ p.ys \in Nat /\ p.zs \in Nat
  BY DEF IsPlane
<1>2. InGrid(p.xs, p.ys, p.zs, x, y, z, n)
  BY <1>1, GridIndex
<1> QED
  BY <1>2, Zenon DEF InGrid, planeSize, ByteAt, spot

LEMMA SpotsAll ==
  ASSUME NEW p, IsPlane(p), NEW n \in 0 .. planeSize(p) - 1
  PROVE  \E x \in 0 .. p.xs - 1, y \in 0 .. p.ys - 1, z \in 0 .. p.zs - 1 :
           n = cell(p.xs, p.ys, x, y, z)
<1>1. p.xs \in Nat /\ p.ys \in Nat /\ p.zs \in Nat
  BY DEF IsPlane
<1>2. n \in 0 .. p.xs * p.ys * p.zs - 1
  BY DEF planeSize
<1> QED
  BY <1>1, <1>2, GridAll

\* An operand alone is read or written byte by byte.
LEMMA StreamOne ==
  ASSUME NEW p, IsPlane(p)
  PROVE  Stream(<<p>>, 1) = [k \in 0 .. planeSize(p) - 1 |-> ByteAt(p, k)]
<1> PICK total \in Nat : total = planeSize(p)
  BY DEF IsPlane, planeSize
<1>1. Len(<<p>>) = 1 /\ <<p>>[1] = p
  OBVIOUS
<1>2. Stream(<<p>>, 1) = [k \in 0 .. 1 * total - 1 |-> ByteAt(<<p>>[((k \div 1) % 1) + 1], (k \div (1 * 1)) * 1 + (k % 1))]
  BY <1>1 DEF Stream
<1>3. \A k \in 0 .. total - 1 : ((k \div 1) % 1) + 1 = 1 /\ (k \div (1 * 1)) * 1 + (k % 1) = k
  OBVIOUS
<1>4. 0 .. 1 * total - 1 = 0 .. total - 1
  OBVIOUS
<1>5. Stream(<<p>>, 1) = [k \in 0 .. total - 1 |-> ByteAt(<<p>>[((k \div 1) % 1) + 1], (k \div (1 * 1)) * 1 + (k % 1))]
  BY <1>2, <1>4
<1>6. \A k \in 0 .. total - 1 : ByteAt(<<p>>[((k \div 1) % 1) + 1], (k \div (1 * 1)) * 1 + (k % 1)) = ByteAt(p, k)
  BY <1>1, <1>3
<1> QED
  BY <1>5, <1>6

\* Sequences of one element joined.
LEMMA JoinedSingles ==
  ASSUME NEW n \in Nat, NEW f, NEW g, \A j \in 0 .. n - 1 : f[j] = <<g[j]>>
  PROVE  Joined(f, n) = [j \in 1 .. n |-> g[j - 1]]
<1> DEFINE Rec(s)  == s = [k \in 0 .. n |-> IF k = 0 THEN <<>> ELSE s[k - 1] \o f[k - 1]]
           joined  == CHOOSE s : Rec(s)
           part(j) == [k \in 1 .. j |-> g[k - 1]]
<1>1. ASSUME NEW j \in 0 .. n - 1
      PROVE  part(j + 1) = part(j) \o f[j]
  <2>1. f[j] = <<g[j]>>
    OBVIOUS
  <2>2. PICK G : G = {g[k] : k \in 0 .. n - 1}
    OBVIOUS
  <2>3. part(j) \in Seq(G) /\ Len(part(j)) = j /\ <<g[j]>> \in Seq(G)
    <3>1. part(j) \in [1 .. j -> G]
      BY <2>2
    <3> QED
      BY <2>2, <3>1
  <2>4. PICK s : s = part(j) \o <<g[j]>>
    OBVIOUS
  <2>5. DOMAIN s = 1 .. j + 1 /\ s \in Seq(G)
    BY <2>3, <2>4
  <2>6. \A k \in 1 .. j + 1 : s[k] = g[k - 1]
    <3> SUFFICES ASSUME NEW k \in 1 .. j + 1
                 PROVE  s[k] = g[k - 1]
      OBVIOUS
    <3>1. CASE k = j + 1
      BY <2>3, <2>4, <3>1
    <3>2. CASE k # j + 1
      <4>1. k \in 1 .. j
        BY <3>2
      <4>2. s[k] = part(j)[k]
        BY <2>3, <2>4, <4>1
      <4> QED
        BY <4>1, <4>2
    <3> QED
      BY <3>1, <3>2
  <2>7. s = [k \in 1 .. j + 1 |-> s[k]]
    BY <2>5
  <2> QED
    BY <2>1, <2>4, <2>6, <2>7
<1>2. PICK s : s = [j \in 0 .. n |-> part(j)]
  OBVIOUS
<1>3. part(0) = <<>>
  OBVIOUS
<1> HIDE DEF part
<1>4. Rec(s)
  <2>1. \A k \in 0 .. n : s[k] = IF k = 0 THEN <<>> ELSE s[k - 1] \o f[k - 1]
    <3> SUFFICES ASSUME NEW k \in 0 .. n, k # 0
                 PROVE  s[k] = s[k - 1] \o f[k - 1]
      BY <1>2, <1>3
    <3>1. k - 1 \in 0 .. n - 1 /\ (k - 1) + 1 = k /\ k - 1 \in 0 .. n
      OBVIOUS
    <3>2. part((k - 1) + 1) = part(k - 1) \o f[k - 1]
      BY <1>1, <3>1
    <3> QED
      BY <1>2, <3>1, <3>2
  <2> QED
    BY <1>2, <2>1
<1>5. Rec(joined)
  BY <1>4
<1>6. Joined(f, n) = joined[n]
  BY DEF Joined
<1> HIDE DEF joined
<1>7. \A k \in 0 .. n : joined[k] = part(k)
  <2> DEFINE S == {k \in 0 .. n : joined[k] = part(k)}
  <2>1. 0 \in S
    BY <1>3, <1>5
  <2>2. ASSUME NEW k \in 0 .. n - 1, k \in S
        PROVE  k + 1 \in S
    <3>1. k + 1 \in 0 .. n /\ k + 1 # 0 /\ (k + 1) - 1 = k
      OBVIOUS
    <3>2. joined[k + 1] = joined[k] \o f[k]
      BY <1>5, <3>1
    <3> QED
      BY <1>1, <2>2, <3>1, <3>2
  <2> HIDE DEF S
  <2>3. 0 .. n \subseteq S
    BY <2>1, <2>2, BoundedInduction
  <2> QED
    BY <2>3 DEF S
<1> QED
  BY <1>6, <1>7 DEF part

\* What memory becomes, descriptor by descriptor.
Runs(m, descs) ==
  /\ m[0] = [mem |-> <<>>, tmp |-> <<>>]
  /\ \A k \in 1 .. Len(descs) : m[k] = Executed(m[k - 1], descs[k])

LEMMA ExecutedRuns ==
  ASSUME NEW descs, Len(descs) \in Nat
  PROVE  Runs(executed(descs), descs)
<1> PICK n \in Nat : n = Len(descs)
  OBVIOUS
<1> DEFINE first  == [mem |-> <<>>, tmp |-> <<>>]
           Rec(m) == m = [k \in 0 .. n |-> IF k = 0 THEN first ELSE Executed(m[k - 1], descs[k])]
           run    == CHOOSE m : Rec(m)
           Part(m, j) == /\ m = [k \in 0 .. j |-> m[k]] /\ m[0] = first
                         /\ \A k \in 0 .. j - 1 : m[k + 1] = Executed(m[k], descs[k + 1])
           S      == {j \in 0 .. n : \E m : Part(m, j)}
<1>1. executed(descs) = run
  BY DEF executed
<1> HIDE DEF run, first, Part
<1>2. 0 \in S
  <2>1. PICK m : m = [k \in 0 .. 0 |-> first]
    OBVIOUS
  <2>2. Part(m, 0)
    BY <2>1 DEF Part
  <2> QED
    BY <2>2
<1>3. ASSUME NEW j \in 0 .. n - 1, j \in S
      PROVE  j + 1 \in S
  <2>1. PICK m : Part(m, j)
    BY <1>3
  <2>2. PICK w : w = Executed(m[j], descs[j + 1])
    OBVIOUS
  <2>3. PICK r : r = [k \in 0 .. j + 1 |-> IF k = j + 1 THEN w ELSE m[k]]
    OBVIOUS
  <2>4. r = [k \in 0 .. j + 1 |-> r[k]] /\ r[0] = first
    BY <2>1, <2>3 DEF Part
  <2>5. ASSUME NEW k \in 0 .. j
        PROVE  r[k + 1] = Executed(r[k], descs[k + 1])
    BY <2>1, <2>2, <2>3 DEF Part
  <2>6. 0 .. (j + 1) - 1 = 0 .. j
    OBVIOUS
  <2>7. Part(r, j + 1)
    BY <2>4, <2>5, <2>6 DEF Part
  <2> QED
    BY <2>7
<1> HIDE DEF S
<1>4. n \in S
  <2>1. 0 .. n \subseteq S
    BY <1>2, <1>3, BoundedInduction
  <2> QED
    BY <2>1
<1>5. PICK m : Part(m, n)
  BY <1>4 DEF S
<1>6. Rec(m)
  <2>1. \A k \in 0 .. n : m[k] = IF k = 0 THEN first ELSE Executed(m[k - 1], descs[k])
    <3> SUFFICES ASSUME NEW k \in 0 .. n, k # 0
                 PROVE  m[k] = Executed(m[k - 1], descs[k])
      BY <1>5 DEF Part
    <3>1. k - 1 \in 0 .. n - 1 /\ (k - 1) + 1 = k
      OBVIOUS
    <3> QED
      BY <1>5, <3>1 DEF Part
  <2> QED
    BY <1>5, <2>1 DEF Part
<1>7. Rec(run)
  BY <1>6 DEF run
<1>8. run[0] = first
  BY <1>7
<1>9. \A k \in 1 .. n : run[k] = Executed(run[k - 1], descs[k])
  BY <1>7
<1> QED
  BY <1>1, <1>8, <1>9 DEF Runs, first

LEMMA ArrivedBoth ==
  ASSUME NEW R, NEW Q, NEW m0, NEW m1, NEW m2,
         Arrived(R, m0, m1), Arrived(Q, m1, m2), Request(R \cup Q)
  PROVE  Arrived(R \cup Q, m0, m2)
<1>1. WrittenBy(R \cup Q) = WrittenBy(R) \cup WrittenBy(Q)
  BY DEF WrittenBy
<1>2. ASSUME NEW p \in R
      PROVE  p[1] \in DOMAIN m2 /\ m2[p[1]] = p[2]
  <2>1. p[1] \in DOMAIN m1 /\ m1[p[1]] = p[2]
    BY DEF Arrived
  <2>2. CASE p[1] \in WrittenBy(Q)
    <3>1. PICK q \in Q : q[1] = p[1]
      BY <2>2 DEF WrittenBy
    <3>2. q[2] = p[2]
      BY <3>1 DEF Request
    <3> QED
      BY <3>1, <3>2 DEF Arrived
  <2>3. CASE p[1] \notin WrittenBy(Q)
    BY <2>1, <2>3 DEF Arrived
  <2> QED
    BY <2>2, <2>3
<1>3. \A p \in Q : p[1] \in DOMAIN m2 /\ m2[p[1]] = p[2]
  BY DEF Arrived
<1>4. DOMAIN m2 = DOMAIN m0 \cup WrittenBy(R \cup Q)
  BY <1>1 DEF Arrived
<1>5. \A a \in DOMAIN m0 \ WrittenBy(R \cup Q) : m2[a] = m0[a]
  BY <1>1 DEF Arrived
<1> QED
  BY <1>2, <1>3, <1>4, <1>5 DEF Arrived

LEMMA RequestPart ==
  ASSUME NEW R, NEW Q, R \subseteq Q
  PROVE  /\ Request(Q) => Request(R)
         /\ WrittenBy(R) \subseteq WrittenBy(Q) /\ ReadBy(R) \subseteq ReadBy(Q)
<1>1. Request(Q) => Request(R)
  BY DEF Request
<1>2. WrittenBy(R) \subseteq WrittenBy(Q)
  BY DEF WrittenBy
<1>3. ReadBy(R) \subseteq ReadBy(Q)
  BY DEF ReadBy
<1> QED
  BY <1>1, <1>2, <1>3

LEMMA NothingArrives ==
  ASSUME NEW m
  PROVE  Arrived({}, m, m)
BY DEF Arrived, WrittenBy

\* Infos whose descriptors lie behind c[0], c[1] .. and deliver what R asks
\* for deliver it together, as long as none reads what one writes.
LEMMA InfosDeliver ==
  ASSUME NEW n \in Nat, NEW c \in [0 .. n -> Nat], NEW m, NEW D, NEW R, NEW U,
         \A k \in 1 .. n :
           /\ Len(D[k]) \in Nat /\ c[k] = c[k - 1] + Len(D[k])
           /\ \A j \in 1 .. Len(D[k]) :
                m[c[k - 1] + j] = Executed(m[c[k - 1] + j - 1], D[k][j])
           /\ Delivers(D[k], R[k]),
         U = UNION {R[k] : k \in 1 .. n},
         c[0] = 0, DOMAIN m[0].mem \cap ReadBy(U) = {}, Request(U), ReadBy(U) \cap WrittenBy(U) = {}
  PROVE  Arrived(U, m[0].mem, m[c[n]].mem)
<1> DEFINE to(k) == UNION {R[j] : j \in 1 .. k}
           S     == {k \in 0 .. n : Arrived(to(k), m[0].mem, m[c[k]].mem)}
<1>0. \A h, x : x \in to(h) <=> \E j \in 1 .. h : x \in R[j]
  BY Zenon
<1>1. to(0) = {} /\ to(n) = U
  OBVIOUS
<1>2. \A k \in 0 .. n - 1 : to(k + 1) = to(k) \cup R[k + 1]
  <2> TAKE k \in 0 .. n - 1
  <2>1. 1 .. k + 1 = (1 .. k) \cup {k + 1}
    OBVIOUS
  <2>2. \A x : x \in to(k + 1) <=> x \in to(k) \/ x \in R[k + 1]
    <3> HIDE DEF to
    <3> QED
      BY <1>0, <2>1
  <2> QED
    BY <2>2
<1>3. \A k \in 0 .. n : to(k) \subseteq U
  OBVIOUS
<1> HIDE DEF to
<1>4. 0 \in S
  <2>1. Arrived(to(0), m[0].mem, m[c[0]].mem)
    BY <1>1, NothingArrives
  <2> QED
    BY <2>1
<1>5. ASSUME NEW k \in 0 .. n - 1, k \in S
      PROVE  k + 1 \in S
  <2>1. k + 1 \in 1 .. n /\ k + 1 - 1 = k /\ k \in 0 .. n /\ k + 1 \in 0 .. n
    OBVIOUS
  <2> PICK len, d, r, b : len = Len(D[k + 1]) /\ d = D[k + 1] /\ r = R[k + 1] /\ b = c[k]
    OBVIOUS
  <2>2. /\ len \in Nat /\ c[k + 1] = b + len /\ b \in Nat /\ Delivers(d, r) /\ len = Len(d)
        /\ \A j \in 1 .. len : m[b + j] = Executed(m[b + j - 1], d[j])
    <3> HIDE DEF S
    <3>1. len \in Nat /\ b \in Nat /\ Delivers(d, r) /\ len = Len(d)
      BY <2>1
    <3>2. c[k + 1] = b + len
      BY <2>1
    <3>3. \A j \in 1 .. len : m[b + j] = Executed(m[b + j - 1], d[j])
      <4> PICK h : h = k + 1
        OBVIOUS
      <4>1. h \in 1 .. n /\ c[h - 1] = b /\ Len(D[h]) = len /\ D[h] = d
        BY <2>1
      <4>2. \A j \in 1 .. Len(D[h]) :
              m[c[h - 1] + j] = Executed(m[c[h - 1] + j - 1], D[h][j])
        BY <4>1
      <4> QED
        BY ONLY <4>1, <4>2
    <3> QED
      BY <3>1, <3>2, <3>3
  <2>3. PICK g : g = [j \in 0 .. len |-> m[b + j]]
    OBVIOUS
  <2>4. \A j \in 1 .. len : g[j] = Executed(g[j - 1], d[j])
    <3> TAKE j \in 1 .. len
    <3>1. j \in 0 .. len /\ j - 1 \in 0 .. len /\ b + (j - 1) = b + j - 1
      <4>1. len \in Nat /\ b \in Nat
        BY <2>2
      <4> QED
        BY ONLY <4>1, j \in 1 .. len
    <3>2. g[j] = m[b + j] /\ g[j - 1] = m[b + j - 1]
      BY <2>3, <3>1
    <3> QED
      BY <2>2, <3>2
  <2>5. Arrived(to(k), m[0].mem, g[0].mem)
    <3>1. g[0] = m[c[k]]
      BY <2>2, <2>3
    <3> QED
      BY <1>5, <3>1
  <2>6. to(k) \subseteq U /\ r \subseteq U
    BY <1>2, <1>3, <2>1
  <2>7. DOMAIN g[0].mem \cap ReadBy(r) = {}
    <3>1. DOMAIN g[0].mem = DOMAIN m[0].mem \cup WrittenBy(to(k))
      BY <2>5 DEF Arrived
    <3>2. WrittenBy(to(k)) \subseteq WrittenBy(U)
      <4>1. to(k) \subseteq U
        BY <2>6
      <4> HIDE DEF S
      <4> QED
        BY ONLY <4>1, RequestPart
    <3>3. r \subseteq U
      BY <2>6
    <3>4. ReadBy(r) \subseteq ReadBy(U)
      <4> HIDE DEF S
      <4> QED
        BY ONLY <3>3, RequestPart
    <3> QED
      BY <3>1, <3>2, <3>4
  <2>8. Arrived(r, g[0].mem, g[len].mem)
    BY <2>2, <2>4, <2>7 DEF Delivers
  <2>9. Request(to(k) \cup r)
    <3>1. to(k) \cup r \subseteq U
      BY <2>6
    <3> QED
      BY <3>1, RequestPart
  <2>10. Arrived(to(k) \cup r, m[0].mem, g[len].mem)
    BY <2>5, <2>8, <2>9, ArrivedBoth
  <2>11. g[len] = m[c[k + 1]] /\ to(k) \cup r = to(k + 1)
    BY <1>2, <2>2, <2>3
  <2> QED
    BY <2>1, <2>10, <2>11
<1> HIDE DEF S
<1>6. 0 .. n \subseteq S
  BY <1>4, <1>5, BoundedInduction
<1>7. n \in S
  BY <1>6
<1>8. Arrived(to(n), m[0].mem, m[c[n]].mem)
  BY <1>7 DEF S
<1> QED
  BY <1>1, <1>8

\* Memory that was written by one request only is that request.
LEMMA ArrivedAll ==
  ASSUME NEW R, NEW m0, NEW m1, Arrived(R, m0, m1), DOMAIN m0 = {}, Request(R)
  PROVE  {<<a, m1[a]>> : a \in DOMAIN m1} = R
<1>1. DOMAIN m1 = WrittenBy(R)
  BY DEF Arrived
<1>2. ASSUME NEW p \in R
      PROVE  p \in {<<a, m1[a]>> : a \in DOMAIN m1}
  <2>1. p[1] \in DOMAIN m1 /\ m1[p[1]] = p[2]
    BY DEF Arrived
  <2>2. p = <<p[1], p[2]>>
    BY DEF Request
  <2> QED
    BY <2>1, <2>2
<1>3. ASSUME NEW a \in DOMAIN m1
      PROVE  <<a, m1[a]>> \in R
  <2>1. PICK p \in R : p[1] = a
    BY <1>1 DEF WrittenBy
  <2>2. m1[a] = p[2] /\ p = <<p[1], p[2]>>
    BY <2>1 DEF Arrived, Request
  <2> QED
    BY <2>1, <2>2
<1> QED
  BY <1>2, <1>3

\* One operand read and one written, byte by byte.
Single(d, p, q) ==
  /\ d.src = <<p>> /\ d.dst = <<q>> /\ d.ru = 1 /\ d.wu = 1
  /\ ~d.fill /\ ~d.up /\ ~d.rtmp /\ d.wtmp = FALSE /\ IsPlane(p) /\ IsPlane(q)

LEMMA ReadSingle ==
  ASSUME NEW d, NEW p, NEW q, Single(d, p, q), NEW m, NEW k \in 0 .. planeSize(p) - 1,
         ByteAt(p, k) \notin DOMAIN m.mem
  PROVE  Read(m, d, k) = <<ByteAt(p, k)>>
<1> PICK reads : reads = Stream(d.src, d.ru)
  OBVIOUS
<1>1. reads = [j \in 0 .. planeSize(p) - 1 |-> ByteAt(p, j)]
  BY StreamOne DEF Single
<1>2. k \in DOMAIN reads /\ reads[k] = ByteAt(p, k)
  BY <1>1
<1> QED
  BY <1>2 DEF Read, Held, Single

LEMMA ReadElement ==
  ASSUME NEW R, NEW a, NEW s, <<a, s>> \in R, NEW k \in DOMAIN s
  PROVE  s[k] \in ReadBy(R)
<1>1. <<a, s>>[2] = s
  OBVIOUS
<1>2. s[k] \in {<<a, s>>[2][j] : j \in DOMAIN <<a, s>>[2]}
  BY <1>1
<1> QED
  BY <1>2 DEF ReadBy

LEMMA ReadOne ==
  ASSUME NEW R, NEW a, NEW b, <<a, <<b>> >> \in R
  PROVE  b \in ReadBy(R)
<1>1. 1 \in DOMAIN <<b>> /\ <<b>>[1] = b
  OBVIOUS
<1> QED
  BY <1>1, ReadElement

\* Plain copies.
LEMMA CopyDelivers ==
  ASSUME NEW d, NEW p, NEW q, Single(d, p, q), d.su = d.du, planeSize(q) <= planeSize(p),
         NEW R, Request(R),
         R = {<<ByteAt(q, n), <<ByteAt(p, n)>> >> : n \in 0 .. planeSize(q) - 1}
  PROVE  Delivers(<<d>>, R)
<1>1. planeSize(q) \in Int /\ planeSize(p) \in Int
  BY DEF Single, IsPlane, planeSize
<1>2. ASSUME NEW m, DOMAIN m.mem \cap ReadBy(R) = {}
      PROVE  Effect(m, d) = R
  <2>1. \A n \in 0 .. planeSize(q) - 1 : Made(m, d, n) = <<ByteAt(p, n)>>
    <3> TAKE n \in 0 .. planeSize(q) - 1
    <3>1. n \in 0 .. planeSize(p) - 1
      BY <1>1
    <3>2. <<ByteAt(q, n), <<ByteAt(p, n)>> >> \in R
      OBVIOUS
    <3>3. ByteAt(p, n) \in ReadBy(R)
      BY <3>2, ReadOne
    <3>4. Read(m, d, n) = <<ByteAt(p, n)>>
      BY <1>2, <3>1, <3>3, ReadSingle
    <3> QED
      BY <3>4 DEF Made, Single
  <2>2. Stream(d.dst, d.wu) = [n \in 0 .. planeSize(q) - 1 |-> ByteAt(q, n)]
    BY StreamOne DEF Single
  <2>3. PICK writes : writes = Stream(d.dst, d.wu)
    OBVIOUS
  <2>4. Effect(m, d) = {<<writes[n], Made(m, d, n)>> : n \in DOMAIN writes}
    BY <2>3 DEF Effect
  <2> QED
    BY <2>1, <2>2, <2>3, <2>4
<1> QED
  BY <1>2, OneDelivers DEF Single

\* Fills.
Fills(d, q) ==
  d.dst = <<q>> /\ d.wu = 1 /\ d.fill = TRUE /\ d.wtmp = FALSE /\ IsPlane(q)

LEMMA FillDelivers ==
  ASSUME NEW d, NEW q, NEW R, Fills(d, q),
         Request(R), R = {<<ByteAt(q, n), <<>> >> : n \in 0 .. planeSize(q) - 1}
  PROVE  Delivers(<<d>>, R)
<1> USE DEF Fills
<1>1. ASSUME NEW m
      PROVE  Effect(m, d) = R
  <2>1. \A n : Made(m, d, n) = <<>>
    BY DEF Made
  <2>2. Stream(d.dst, d.wu) = [n \in 0 .. planeSize(q) - 1 |-> ByteAt(q, n)]
    BY StreamOne
  <2>3. PICK writes : writes = Stream(d.dst, d.wu)
    OBVIOUS
  <2>4. Effect(m, d) = {<<writes[n], Made(m, d, n)>> : n \in DOMAIN writes}
    BY <2>3 DEF Effect
  <2> QED
    BY <2>1, <2>2, <2>3, <2>4
<1> QED
  BY <1>1, OneDelivers

\* A grid of spots.
LEMMA CopyGrid ==
  ASSUME NEW p, NEW q, IsPlane(p), IsPlane(q), p.xs = q.xs, p.ys = q.ys, p.zs = q.zs
  PROVE  {<<ByteAt(q, n), <<ByteAt(p, n)>> >> : n \in 0 .. planeSize(q) - 1} =
         {<<spot(q, x, y, z), <<spot(p, x, y, z)>> >> :
            x \in upTo(q.xs), y \in upTo(q.ys), z \in upTo(q.zs)}
<1> DEFINE A == {<<ByteAt(q, n), <<ByteAt(p, n)>> >> : n \in 0 .. planeSize(q) - 1}
           B == {<<spot(q, x, y, z), <<spot(p, x, y, z)>> >> :
                   x \in upTo(q.xs), y \in upTo(q.ys), z \in upTo(q.zs)}
<1>1. ASSUME NEW x \in upTo(q.xs), NEW y \in upTo(q.ys), NEW z \in upTo(q.zs),
             NEW n, n = cell(q.xs, q.ys, x, y, z)
      PROVE  /\ n \in 0 .. planeSize(q) - 1
             /\ ByteAt(q, n) = spot(q, x, y, z) /\ ByteAt(p, n) = spot(p, x, y, z)
  <2>1. x \in 0 .. q.xs - 1 /\ y \in 0 .. q.ys - 1 /\ z \in 0 .. q.zs - 1
    BY DEF upTo
  <2>2. n \in 0 .. planeSize(q) - 1 /\ ByteAt(q, n) = spot(q, x, y, z)
    BY <1>1, <2>1, SpotOf
  <2>3. ByteAt(p, n) = spot(p, x, y, z)
    BY <1>1, <2>1, SpotOf
  <2> QED
    BY <2>2, <2>3
<1>2. A \subseteq B
  <2> SUFFICES ASSUME NEW n \in 0 .. planeSize(q) - 1
               PROVE  <<ByteAt(q, n), <<ByteAt(p, n)>> >> \in B
    OBVIOUS
  <2>1. PICK x \in 0 .. q.xs - 1, y \in 0 .. q.ys - 1, z \in 0 .. q.zs - 1 :
               n = cell(q.xs, q.ys, x, y, z)
    BY SpotsAll
  <2>2. x \in upTo(q.xs) /\ y \in upTo(q.ys) /\ z \in upTo(q.zs)
    BY DEF upTo
  <2>3. ByteAt(q, n) = spot(q, x, y, z) /\ ByteAt(p, n) = spot(p, x, y, z)
    BY <1>1, <2>1, <2>2
  <2> QED
    BY <2>2, <2>3
<1>3. B \subseteq A
  <2> SUFFICES ASSUME NEW x \in upTo(q.xs), NEW y \in upTo(q.ys), NEW z \in upTo(q.zs)
               PROVE  <<spot(q, x, y, z), <<spot(p, x, y, z)>> >> \in A
    OBVIOUS
  <2>1. PICK n : n = cell(q.xs, q.ys, x, y, z)
    OBVIOUS
  <2> QED
    BY <1>1, <2>1
<1>4. A = B
  <2> HIDE DEF A, B
  <2> QED
    BY <1>2, <1>3
<1> QED
  BY <1>4

\* byte k of unit u, of t bytes each, and how many bytes w units are
nth(t, u, k) == t * u + k
wide(t, w) == t * w

LEMMA UnitInside ==
  ASSUME NEW t \in Nat \ {0}, NEW w \in Nat, NEW u \in 0 .. w - 1, NEW k \in 0 .. t - 1
  PROVE  nth(t, u, k) \in 0 .. wide(t, w) - 1
<1>1. k + t * u \in 0 .. t * w - 1
  BY PairInside
<1> QED
  BY <1>1 DEF nth, wide

LEMMA UnitSplit ==
  ASSUME NEW t \in Nat \ {0}, NEW w \in Nat, NEW x \in 0 .. wide(t, w) - 1
  PROVE  \E u \in 0 .. w - 1, k \in 0 .. t - 1 : x = nth(t, u, k)
<1>1. x \in Nat
  OBVIOUS
<1>2. x \div t \in Nat /\ x % t \in 0 .. t - 1 /\ x = t * (x \div t) + (x % t)
  BY <1>1, Remainder
<1> PICK u \in Nat, k \in 0 .. t - 1 : x = t * u + k
  BY <1>2
<1>3. u < w
  <2>1. ASSUME u >= w
        PROVE  FALSE
    <3>1. t * u >= t * w
      BY <2>1
    <3> QED
      BY <3>1 DEF wide
  <2> QED
    BY <2>1
<1>4. u \in 0 .. w - 1
  BY <1>3
<1> QED
  BY <1>4 DEF nth

\* Unit u of a line of w units, s bytes each where they are read and t bytes
\* each where they are written.
InUnit(s, t, w, b, u, y, z, k, n) ==
  /\ nth(t, u, k) \in 0 .. wide(t, w) - 1
  /\ \A j \in 0 .. s - 1 : /\ nth(s, u, j) \in 0 .. wide(s, w) - 1
                           /\ (n \div t) * s + j = cell(wide(s, w), b, nth(s, u, j), y, z)

LEMMA UnitIndex ==
  ASSUME NEW s \in Nat \ {0}, NEW t \in Nat \ {0}, NEW w \in Nat, NEW b \in Nat,
         NEW u \in 0 .. w - 1, NEW k \in 0 .. t - 1, NEW y \in Nat, NEW z \in Nat,
         NEW n, n = cell(wide(t, w), b, nth(t, u, k), y, z)
  PROVE  InUnit(s, t, w, b, u, y, z, k, n)
<1> PICK m \in Nat : m = y + b * z
  OBVIOUS
<1> PICK v \in Nat : v = u + w * m
  OBVIOUS
<1>1. n = t * v + k
  <2>1. n = t * u + k + t * w * m
    BY DEF cell, nth, wide
  <2>2. t * v = t * u + t * w * m
    OBVIOUS
  <2> QED
    BY <2>1, <2>2
<1>2. n \div t = v
  <2>1. v \in Int
    OBVIOUS
  <2>2. (t * v + k) \div t = v
    BY <2>1, Quotient
  <2> QED
    BY <1>1, <2>2
<1>3. ASSUME NEW j \in 0 .. s - 1
      PROVE  (n \div t) * s + j = cell(wide(s, w), b, nth(s, u, j), y, z)
  <2>1. v * s = s * u + s * w * m
    OBVIOUS
  <2>2. cell(wide(s, w), b, nth(s, u, j), y, z) = s * u + j + s * w * m
    BY DEF cell, nth, wide
  <2> QED
    BY <1>2, <2>1, <2>2
<1> QED
  BY <1>3, UnitInside DEF InUnit

\* Units of d.su bytes become units of d.du bytes.
UnitsMade(d, p, q, w) ==
  {<<spot(q, nth(d.du, u, k), y, z), [j \in 1 .. d.su |-> spot(p, nth(d.su, u, j - 1), y, z)]>> :
     u \in upTo(w), k \in upTo(d.du), y \in upTo(q.ys), z \in upTo(q.zs)}

LEMMA UnitDelivers ==
  ASSUME NEW d, NEW p, NEW q, Single(d, p, q), d.su # d.du,
         d.su \in Nat \ {0}, d.du \in Nat \ {0}, NEW w \in Nat,
         p.xs = wide(d.su, w), q.xs = wide(d.du, w), p.ys = q.ys, p.zs = q.zs,
         NEW R, Request(R), R = UnitsMade(d, p, q, w)
  PROVE  Delivers(<<d>>, R)
<1> PICK s \in Nat \ {0}, t \in Nat \ {0} : s = d.su /\ t = d.du
  OBVIOUS
<1> PICK b \in Nat, c \in Nat : b = q.ys /\ c = q.zs
  BY DEF Single, IsPlane
<1>3. /\ IsPlane(p) /\ IsPlane(q) /\ p.xs = wide(s, w) /\ q.xs = wide(t, w)
      /\ p.ys = b /\ q.ys = b /\ p.zs = c /\ q.zs = c
  BY DEF Single
<1> DEFINE unit(u, y, z) == [j \in 1 .. s |-> spot(p, nth(s, u, j - 1), y, z)]
<1>1. R = {<<spot(q, nth(t, u, k), y, z), unit(u, y, z)>> :
             u \in upTo(w), k \in upTo(t), y \in upTo(b), z \in upTo(c)}
  BY DEF UnitsMade
<1>2. ASSUME NEW m, DOMAIN m.mem \cap ReadBy(R) = {}
      PROVE  Effect(m, d) = R
  <2>1. ASSUME NEW u \in 0 .. w - 1, NEW k \in 0 .. t - 1, NEW y \in 0 .. b - 1, NEW z \in 0 .. c - 1,
               NEW n, n = cell(wide(t, w), b, nth(t, u, k), y, z)
        PROVE  /\ n \in 0 .. planeSize(q) - 1 /\ ByteAt(q, n) = spot(q, nth(t, u, k), y, z)
               /\ Made(m, d, n) = unit(u, y, z)
    <3>1. y \in Nat /\ z \in Nat
      OBVIOUS
    <3>2. InUnit(s, t, w, b, u, y, z, k, n)
      BY <2>1, <3>1, UnitIndex
    <3>3. n \in 0 .. planeSize(q) - 1 /\ ByteAt(q, n) = spot(q, nth(t, u, k), y, z)
      <4>1. nth(t, u, k) \in 0 .. q.xs - 1 /\ n = cell(q.xs, q.ys, nth(t, u, k), y, z)
        BY <1>3, <2>1, <3>2 DEF InUnit
      <4>2. y \in 0 .. q.ys - 1 /\ z \in 0 .. q.zs - 1
        BY <1>3
      <4> QED
        BY <1>3, <4>1, <4>2, SpotOf
    <3>4. PICK f : f = [j \in 0 .. s - 1 |-> Read(m, d, (n \div t) * s + j)]
      OBVIOUS
    <3>5. Made(m, d, n) = Joined(f, s)
      BY <3>4 DEF Made, Single
    <3>6. PICK g : g = [j \in 0 .. s - 1 |-> spot(p, nth(s, u, j), y, z)]
      OBVIOUS
    <3>7. ASSUME NEW j \in 0 .. s - 1
          PROVE  f[j] = <<g[j]>>
      <4>1. PICK e : e = cell(wide(s, w), b, nth(s, u, j), y, z)
        OBVIOUS
      <4>2. nth(s, u, j) \in 0 .. p.xs - 1 /\ (n \div t) * s + j = e
        BY <1>3, <3>2, <4>1 DEF InUnit
      <4>3. e \in 0 .. planeSize(p) - 1 /\ ByteAt(p, e) = spot(p, nth(s, u, j), y, z)
        <5>1. e = cell(p.xs, p.ys, nth(s, u, j), y, z)
          BY <1>3, <4>1
        <5>2. y \in 0 .. p.ys - 1 /\ z \in 0 .. p.zs - 1
          BY <1>3
        <5> QED
          BY <1>3, <4>2, <5>1, <5>2, SpotOf
      <4>4. spot(p, nth(s, u, j), y, z) \in ReadBy(R)
        <5>1. <<spot(q, nth(t, u, k), y, z), unit(u, y, z)>> \in R
          <6>1. u \in upTo(w) /\ k \in upTo(t) /\ y \in upTo(b) /\ z \in upTo(c)
            BY DEF upTo
          <6> QED
            BY <1>1, <6>1
        <5>2. j + 1 \in DOMAIN unit(u, y, z) /\ (j + 1) - 1 = j
          OBVIOUS
        <5>3. unit(u, y, z)[j + 1] = spot(p, nth(s, u, j), y, z)
          BY <5>2
        <5> QED
          BY <5>1, <5>2, <5>3, ReadElement
      <4>5. Read(m, d, e) = <<ByteAt(p, e)>>
        <5>1. ByteAt(p, e) \notin DOMAIN m.mem
          BY <1>2, <4>3, <4>4
        <5> QED
          BY <4>3, <5>1, ReadSingle
      <4> QED
        BY <3>4, <3>6, <4>2, <4>3, <4>5
    <3>8. Joined(f, s) = [j \in 1 .. s |-> g[j - 1]]
      <4>1. \A j \in 0 .. s - 1 : f[j] = <<g[j]>>
        BY <3>7
      <4>2. s \in Nat
        OBVIOUS
      <4> QED
        BY ONLY <4>1, <4>2, JoinedSingles
    <3>9. [j \in 1 .. s |-> g[j - 1]] = unit(u, y, z)
      <4>1. \A j \in 1 .. s : j - 1 \in 0 .. s - 1
        OBVIOUS
      <4>2. \A j \in 1 .. s : g[j - 1] = spot(p, nth(s, u, j - 1), y, z)
        BY <3>6, <4>1
      <4> QED
        BY <4>2
    <3> QED
      BY <3>3, <3>5, <3>8, <3>9
  <2>2. PICK writes : writes = Stream(d.dst, d.wu)
    OBVIOUS
  <2>3. writes = [n \in 0 .. planeSize(q) - 1 |-> ByteAt(q, n)]
    BY <2>2, StreamOne DEF Single
  <2>4. Effect(m, d) = {<<ByteAt(q, n), Made(m, d, n)>> : n \in 0 .. planeSize(q) - 1}
    BY <2>2, <2>3 DEF Effect
  <2> HIDE DEF unit
  <2>5. R \subseteq Effect(m, d)
    <3> SUFFICES ASSUME NEW u \in upTo(w), NEW k \in upTo(t), NEW y \in upTo(b), NEW z \in upTo(c)
                 PROVE  <<spot(q, nth(t, u, k), y, z), unit(u, y, z)>> \in Effect(m, d)
      BY <1>1
    <3>1. u \in 0 .. w - 1 /\ k \in 0 .. t - 1 /\ y \in 0 .. b - 1 /\ z \in 0 .. c - 1
      BY DEF upTo
    <3>2. PICK n : n = cell(wide(t, w), b, nth(t, u, k), y, z)
      OBVIOUS
    <3>3. /\ n \in 0 .. planeSize(q) - 1 /\ ByteAt(q, n) = spot(q, nth(t, u, k), y, z)
          /\ Made(m, d, n) = unit(u, y, z)
      BY <2>1, <3>1, <3>2
    <3> QED
      BY <2>4, <3>3
  <2>6. Effect(m, d) \subseteq R
    <3> SUFFICES ASSUME NEW n \in 0 .. planeSize(q) - 1
                 PROVE  <<ByteAt(q, n), Made(m, d, n)>> \in R
      BY <2>4
    <3>1. PICK x \in 0 .. q.xs - 1, y \in 0 .. q.ys - 1, z \in 0 .. q.zs - 1 :
                 n = cell(q.xs, q.ys, x, y, z)
      BY SpotsAll DEF Single
    <3>2. x \in 0 .. wide(t, w) - 1
      OBVIOUS
    <3>3. PICK u \in 0 .. w - 1, k \in 0 .. t - 1 : x = nth(t, u, k)
      <4>1. t \in Nat \ {0} /\ w \in Nat
        OBVIOUS
      <4> QED
        BY ONLY <3>2, <4>1, UnitSplit
    <3>4. n = cell(wide(t, w), b, nth(t, u, k), y, z)
      BY <3>1, <3>3
    <3>5. ByteAt(q, n) = spot(q, nth(t, u, k), y, z) /\ Made(m, d, n) = unit(u, y, z)
      BY <2>1, <3>4
    <3>6. u \in upTo(w) /\ k \in upTo(t) /\ y \in upTo(b) /\ z \in upTo(c)
      BY DEF upTo
    <3>7. <<spot(q, nth(t, u, k), y, z), unit(u, y, z)>> \in R
      BY ONLY <1>1, <3>6
    <3> QED
      BY <3>5, <3>7
  <2> QED
    BY <2>5, <2>6
<1> QED
  BY <1>2, OneDelivers DEF Single

-----------------------------------------------------------------------------
(***************************************************************************)
(* The descriptors of an info once the caller wrote the addresses it was   *)
(* told of.                                                                *)
(***************************************************************************)
Addressed(binds, n, base, p) ==
  LET told == {k \in DOMAIN binds : binds[k].at = base + p.at}
      b == binds[CHOOSE k \in told : TRUE]
  IN IF told = {} THEN p ELSE [p EXCEPT !.addr = Base(b.obj, n) + b.off]

AddressedDesc(binds, n, base, d) ==
  [d EXCEPT !.src = [k \in DOMAIN @ |-> Addressed(binds, n, base, @[k])],
            !.dst = [k \in DOMAIN @ |-> Addressed(binds, n, base, @[k])]]

Told(ver, i) ==
  IF i.bind \/ i.info_type \in {"NN", "UFBC"} THEN fillDesc(ver, i).binds ELSE <<>>

RunOf(ver, i, n) ==
  LET descs == fillDesc(ver, i).descs
  IN [j \in DOMAIN descs |->
        AddressedDesc(Told(ver, i), n, SumTo(descSizes(descs), j - 1), descs[j])]

Operand(p) ==
  /\ IsPlane(p) /\ p.at \in Int
  /\ p = [at |-> p.at, addr |-> p.addr, xs |-> p.xs, ys |-> p.ys, zs |-> p.zs,
          xp |-> p.xp, yp |-> p.yp]

IsDesc(d) ==
  d = [type |-> d.type, fill |-> d.fill, su |-> d.su, du |-> d.du, ru |-> d.ru, wu |-> d.wu,
       src |-> d.src, aux |-> d.aux, dst |-> d.dst, rtmp |-> d.rtmp, wtmp |-> d.wtmp,
       up |-> d.up, payload |-> d.payload]

\* What the caller is told for operand p makes a its address.
Leads(binds, n, base, p, a) ==
  /\ \A k \in DOMAIN binds :
       binds[k].at = base + p.at => Base(binds[k].obj, n) + binds[k].off = a
  /\ p.addr = a \/ \E k \in DOMAIN binds : binds[k].at = base + p.at

moved(p, a) == [p EXCEPT !.addr = a]

LEMMA AddressedLeads ==
  ASSUME NEW binds, NEW n, NEW base, NEW p, NEW a, Operand(p), Leads(binds, n, base, p, a)
  PROVE  Addressed(binds, n, base, p) = moved(p, a)
<1> PICK told : told = {k \in DOMAIN binds : binds[k].at = base + p.at}
  OBVIOUS
<1>1. CASE told = {}
  <2>1. p.addr = a
    BY <1>1 DEF Leads
  <2>2. moved(p, a) = p
    BY <2>1 DEF moved, Operand
  <2> QED
    BY <1>1, <2>2 DEF Addressed
<1>2. CASE told # {}
  <2>1. PICK k \in told : k = CHOOSE j \in told : TRUE
    BY <1>2
  <2>2. Base(binds[k].obj, n) + binds[k].off = a
    BY <2>1 DEF Leads
  <2> QED
    BY <1>2, <2>1, <2>2 DEF Addressed, moved
<1> QED
  BY <1>1, <1>2

LEMMA MovedOperand ==
  ASSUME NEW p, Operand(p), NEW a \in Int
  PROVE  /\ IsPlane(moved(p, a)) /\ moved(p, a).addr = a
         /\ moved(p, a).xs = p.xs /\ moved(p, a).ys = p.ys /\ moved(p, a).zs = p.zs
         /\ moved(p, a).xp = p.xp /\ moved(p, a).yp = p.yp
         /\ planeSize(moved(p, a)) = planeSize(p)
BY DEF moved, Operand, IsPlane, planeSize

LEMMA OneRun ==
  ASSUME NEW ver, NEW i, NEW n, NEW d, fillDesc(ver, i).descs = <<d>>
  PROVE  RunOf(ver, i, n) = <<AddressedDesc(Told(ver, i), n, 0, d)>>
<1>1. DOMAIN <<d>> = {1} /\ <<d>>[1] = d /\ 1 - 1 = 0
  OBVIOUS
<1>2. SumTo(descSizes(<<d>>), 1 - 1) = 0
  BY <1>1, SumZero
<1>3. RunOf(ver, i, n) = [j \in {1} |-> AddressedDesc(Told(ver, i), n, SumTo(descSizes(<<d>>), j - 1), <<d>>[j])]
  BY <1>1 DEF RunOf
<1>4. \A e : [j \in {1} |-> e] = <<e>>
  OBVIOUS
<1> QED
  BY <1>1, <1>2, <1>3, <1>4

\* A descriptor as it is encoded, with one operand on each side.
OneToOne(d, p, q) ==
  /\ IsDesc(d) /\ d.src = <<p>> /\ d.dst = <<q>> /\ Operand(p) /\ Operand(q)
  /\ d.ru = 1 /\ d.wu = 1 /\ ~d.fill /\ ~d.up /\ ~d.rtmp /\ d.wtmp = FALSE

LEMMA AddressedOne ==
  ASSUME NEW binds, NEW n, NEW base, NEW d, NEW p, NEW q, NEW a, NEW b, NEW e,
         OneToOne(d, p, q), a \in Int, b \in Int,
         Leads(binds, n, base, p, a), Leads(binds, n, base, q, b),
         e = AddressedDesc(binds, n, base, d)
  PROVE  Single(e, moved(p, a), moved(q, b)) /\ e.su = d.su /\ e.du = d.du
<1>0. /\ IsDesc(d) /\ d.src = <<p>> /\ d.dst = <<q>> /\ Operand(p) /\ Operand(q)
      /\ d.ru = 1 /\ d.wu = 1 /\ ~d.fill /\ ~d.up /\ ~d.rtmp /\ d.wtmp = FALSE
  BY DEF OneToOne
<1>2. \A x : DOMAIN <<x>> = {1} /\ <<x>>[1] = x /\ [k \in {1} |-> x] = <<x>>
  OBVIOUS
<1>3. e.src = <<moved(p, a)>> /\ e.dst = <<moved(q, b)>>
  <2>1. /\ e.src = [k \in DOMAIN d.src |-> Addressed(binds, n, base, d.src[k])]
        /\ e.dst = [k \in DOMAIN d.dst |-> Addressed(binds, n, base, d.dst[k])]
    BY <1>0 DEF AddressedDesc, IsDesc
  <2>2. /\ Addressed(binds, n, base, p) = moved(p, a)
        /\ Addressed(binds, n, base, q) = moved(q, b)
    BY <1>0, AddressedLeads
  <2>3. /\ e.src = [k \in {1} |-> Addressed(binds, n, base, p)]
        /\ e.dst = [k \in {1} |-> Addressed(binds, n, base, q)]
    BY <1>0, <1>2, <2>1
  <2> QED
    BY <1>2, <2>2, <2>3
<1>4. /\ e.ru = 1 /\ e.wu = 1 /\ ~e.fill /\ ~e.up /\ ~e.rtmp /\ e.wtmp = FALSE
      /\ e.su = d.su /\ e.du = d.du
  BY <1>0 DEF AddressedDesc, IsDesc
<1>5. IsPlane(moved(p, a)) /\ IsPlane(moved(q, b))
  BY <1>0, MovedOperand
<1> QED
  BY <1>3, <1>4, <1>5 DEF Single

LEMMA AddressedFill ==
  ASSUME NEW binds, NEW n, NEW base, NEW d, NEW q, NEW b, NEW e,
         IsDesc(d), Fills(d, q), Operand(q), b \in Int, Leads(binds, n, base, q, b),
         e = AddressedDesc(binds, n, base, d)
  PROVE  Fills(e, moved(q, b))
<1>1. \A x : DOMAIN <<x>> = {1} /\ <<x>>[1] = x /\ [k \in {1} |-> x] = <<x>>
  OBVIOUS
<1>2. d.dst = <<q>> /\ d.wu = 1 /\ d.fill = TRUE /\ d.wtmp = FALSE /\ IsPlane(q)
  BY DEF Fills
<1>3. e.dst = <<moved(q, b)>>
  <2>1. e.dst = [k \in DOMAIN d.dst |-> Addressed(binds, n, base, d.dst[k])]
    BY DEF AddressedDesc, IsDesc
  <2>2. Addressed(binds, n, base, q) = moved(q, b)
    BY AddressedLeads
  <2>3. e.dst = [k \in {1} |-> Addressed(binds, n, base, q)]
    BY <1>1, <1>2, <2>1
  <2> QED
    BY <1>1, <2>2, <2>3
<1>4. e.wu = 1 /\ e.fill = TRUE /\ e.wtmp = FALSE
  BY <1>2 DEF AddressedDesc, IsDesc
<1>5. IsPlane(moved(q, b))
  BY MovedOperand
<1> QED
  BY <1>3, <1>4, <1>5 DEF Fills

\* The only descriptor of an info, with one operand on each side.
LEMMA SingleRun ==
  ASSUME NEW ver, NEW i, NEW n, NEW d, NEW p, NEW q, NEW a, NEW b,
         fillDesc(ver, i).descs = <<d>>, OneToOne(d, p, q), a \in Int, b \in Int,
         Leads(Told(ver, i), n, 0, p, a), Leads(Told(ver, i), n, 0, q, b)
  PROVE  \E e : /\ RunOf(ver, i, n) = <<e>> /\ Single(e, moved(p, a), moved(q, b))
                /\ e.su = d.su /\ e.du = d.du
<1> PICK e : e = AddressedDesc(Told(ver, i), n, 0, d)
  OBVIOUS
<1>1. RunOf(ver, i, n) = <<e>>
  BY OneRun
<1>2. Single(e, moved(p, a), moved(q, b)) /\ e.su = d.su /\ e.du = d.du
  <2> PICK told : told = Told(ver, i)
    OBVIOUS
  <2>1. Leads(told, n, 0, p, a) /\ Leads(told, n, 0, q, b) /\ e = AddressedDesc(told, n, 0, d)
    OBVIOUS
  <2> QED
    BY ONLY <2>1, OneToOne(d, p, q), a \in Int, b \in Int, AddressedOne
<1> QED
  BY <1>1, <1>2

\* Sizes that a field of a 3.0 or of a 2.0 descriptor holds.
Fits(type, v) == IF type = 20 THEN v \in 1 .. FieldSize ELSE v \in 0 .. FieldSize - 1

LEMMA FieldHolds ==
  ASSUME NEW type, NEW pos \in Int, NEW addr \in Int, NEW extent, NEW pitch,
         \A k \in 1 .. 3 : Fits(type, extent[k]), pitch[1] \in Int, pitch[2] \in Int,
         NEW p, p = TypedPlane(type, pos, addr, extent, pitch)
  PROVE  /\ Operand(p) /\ p.at = pos /\ p.addr = addr
         /\ p.xs = extent[1] /\ p.ys = extent[2] /\ p.zs = extent[3]
         /\ p.xp = pitch[1] /\ p.yp = pitch[2]
<1> DEFINE field(v) == IF type = 20 THEN ((v - 1) % FieldSize) + 1 ELSE v % FieldSize
<1>1. ASSUME NEW v, Fits(type, v)
      PROVE  field(v) = v /\ v \in Nat
  <2>1. FieldSize \in Nat \ {0}
    BY SizesAssumption
  <2>2. \A w \in 0 .. FieldSize - 1 : w % FieldSize = w
    BY <2>1
  <2>3. CASE type = 20
    <3>1. v \in Nat /\ v - 1 \in 0 .. FieldSize - 1
      BY <1>1, <2>1, <2>3 DEF Fits
    <3>2. (v - 1) % FieldSize = v - 1
      BY <2>2, <3>1
    <3> QED
      BY <2>3, <3>1, <3>2
  <2>4. CASE type # 20
    <3>1. v \in 0 .. FieldSize - 1
      BY <1>1, <2>4 DEF Fits
    <3> QED
      BY <2>2, <2>4, <3>1
  <2> QED
    BY <2>3, <2>4
<1>2. p = [at |-> pos, addr |-> addr, xs |-> field(extent[1]), ys |-> field(extent[2]),
           zs |-> field(extent[3]), xp |-> pitch[1], yp |-> pitch[2]]
  BY DEF TypedPlane
<1> HIDE DEF field
<1>3. /\ field(extent[1]) = extent[1] /\ field(extent[2]) = extent[2] /\ field(extent[3]) = extent[3]
      /\ extent[1] \in Nat /\ extent[2] \in Nat /\ extent[3] \in Nat
  BY <1>1
<1> QED
  BY <1>2, <1>3 DEF Operand, IsPlane

\* An image is copied.
LEMMA ImageCopied ==
  ASSUME NEW d, NEW p, NEW q, Single(d, p, q), d.su = d.du, NEW i,
         p.xs = i.size_x, p.ys = i.size_y, p.zs = i.size_z, q.xs = i.size_x, q.ys = i.size_y,
         q.zs = i.size_z, i.dst_stride_x \in Int, i.dst_stride_y \in Int,
         p.xp = i.size_x, q.xp = i.dst_stride_x,
         i.size_z = 1 \/ (p.yp = i.size_x * i.size_y /\ q.yp = i.dst_stride_x * i.dst_stride_y),
         NEW a \in Int, NEW b \in Int, p.addr = a, q.addr = b,
         Request(CopyImage(i, a, b))
  PROVE  Delivers(<<d>>, CopyImage(i, a, b))
<1> PICK R : R = CopyImage(i, a, b)
  OBVIOUS
<1>1. IsPlane(p) /\ IsPlane(q) /\ planeSize(p) = planeSize(q) /\ planeSize(q) \in Int
  BY DEF Single, IsPlane, planeSize
<1>2. ASSUME NEW x \in upTo(i.size_x), NEW y \in upTo(i.size_y), NEW z \in upTo(i.size_z)
      PROVE  /\ spot(q, x, y, z) = b + x + y * i.dst_stride_x + z * i.dst_stride_x * i.dst_stride_y
             /\ spot(p, x, y, z) = a + x + y * i.size_x + z * i.size_x * i.size_y
  <2>1. PICK w \in Nat, h \in Nat, s \in Int, t \in Int :
              w = i.size_x /\ h = i.size_y /\ s = i.dst_stride_x /\ t = i.dst_stride_y
    BY <1>1 DEF IsPlane
  <2>2. x \in Int /\ y \in Int /\ z \in Int
    BY <1>1 DEF upTo, IsPlane
  <2>3. z * q.yp = z * s * t /\ z * p.yp = z * w * h
    <3>1. CASE i.size_z = 1
      <4>1. z = 0 /\ p.yp \in Int /\ q.yp \in Int
        BY <1>1, <3>1 DEF upTo, IsPlane
      <4> QED
        BY <2>1, <4>1
    <3>2. CASE p.yp = w * h /\ q.yp = s * t
      BY <2>1, <2>2, <3>2
    <3> QED
      BY <2>1, <3>1, <3>2
  <2> QED
    BY <2>1, <2>3 DEF spot
<1>3. R = {<<spot(q, x, y, z), <<spot(p, x, y, z)>> >> :
             x \in upTo(q.xs), y \in upTo(q.ys), z \in upTo(q.zs)}
  <2>1. R = {<<spot(q, x, y, z), <<spot(p, x, y, z)>> >> :
               x \in upTo(i.size_x), y \in upTo(i.size_y), z \in upTo(i.size_z)}
    BY <1>2 DEF CopyImage
  <2> QED
    BY <2>1
<1>4. R = {<<ByteAt(q, n), <<ByteAt(p, n)>> >> : n \in 0 .. planeSize(q) - 1}
  BY <1>1, <1>3, CopyGrid
<1>5. Request(R) /\ planeSize(q) <= planeSize(p)
  BY <1>1
<1> QED
  BY <1>4, <1>5, CopyDelivers

LEMMA LeadsNowhere ==
  ASSUME NEW n, NEW base, NEW p
  PROVE  Leads(<<>>, n, base, p, p.addr)
BY DEF Leads

LEMMA LeadsInOut ==
  ASSUME NEW n \in Nat, NEW p, NEW q, p.at = SrcAddr0, q.at = DstAddr0
  PROVE  /\ Leads(InOut(0), n, 0, p, Base("in", n)) /\ Leads(InOut(0), n, 0, q, Base("out", n))
         /\ Base("in", n) \in Int /\ Base("out", n) \in Int
<1>1. /\ InOut(0) = <<[at |-> 28, obj |-> "in", off |-> 0], [at |-> 32, obj |-> "out", off |-> 0]>>
      /\ p.at = 28 /\ q.at = 32
  BY DEF InOut, Bind, SrcAddr0, DstAddr0
<1>2. Base("in", n) \in Int /\ Base("out", n) \in Int
  BY ObjectAssumption DEF Base
<1>3. Base("in", n) + 0 = Base("in", n) /\ Base("out", n) + 0 = Base("out", n)
  BY <1>2
<1> PICK binds : binds = InOut(0)
  OBVIOUS
<1>4. /\ DOMAIN binds = {1, 2} /\ binds[1].at = 28 /\ binds[2].at = 32
      /\ binds[1].obj = "in" /\ binds[2].obj = "out" /\ binds[1].off = 0 /\ binds[2].off = 0
  BY <1>1
<1>5. Leads(binds, n, 0, p, Base("in", n)) /\ Leads(binds, n, 0, q, Base("out", n))
  BY <1>1, <1>3, <1>4 DEF Leads
<1> QED
  BY <1>2, <1>5

\* An image or data on 3.0, or on 2.0 without bindings, is led to its place.
LEMMA LeadsFromStart ==
  ASSUME NEW ver, NEW i, i.info_type \in {"GENERAL", "DATA"}, NEW n \in Nat,
         i.inBuf_addr \in Int, i.outBuf_addr \in Int,
         i.bind => fillDesc(ver, i).binds = InOut(0) /\ i.inBuf_addr = 0 /\ i.outBuf_addr = 0,
         NEW p, NEW q, p.addr = i.inBuf_addr, q.addr = i.outBuf_addr,
         i.bind => p.at = SrcAddr0 /\ q.at = DstAddr0
  PROVE  /\ Leads(Told(ver, i), n, 0, p, Origin(i, n, "in", i.inBuf_addr))
         /\ Leads(Told(ver, i), n, 0, q, Origin(i, n, "out", i.outBuf_addr))
         /\ Origin(i, n, "in", i.inBuf_addr) \in Int /\ Origin(i, n, "out", i.outBuf_addr) \in Int
<1>1. CASE i.bind
  <2>1. Told(ver, i) = InOut(0)
    BY <1>1 DEF Told
  <2>2. Base("in", n) \in Int /\ Base("out", n) \in Int
    BY ObjectAssumption DEF Base
  <2>3. /\ Origin(i, n, "in", i.inBuf_addr) = Base("in", n)
        /\ Origin(i, n, "out", i.outBuf_addr) = Base("out", n)
    BY <1>1, <2>2 DEF Origin
  <2> QED
    BY <1>1, <2>1, <2>3, LeadsInOut
<1>2. CASE ~i.bind
  <2>1. Told(ver, i) = <<>>
    BY <1>2 DEF Told
  <2>2. /\ Origin(i, n, "in", i.inBuf_addr) = p.addr /\ Origin(i, n, "out", i.outBuf_addr) = q.addr
    BY <1>2 DEF Origin
  <2> QED
    BY <2>1, <2>2, LeadsNowhere
<1> QED
  BY <1>1, <1>2

\* A copy of an image, or one that widens YUV422 to RGBA, on 3.0 or 2.0.
PlainImage(ver, i) ==
  LET type == IF ver = 20 THEN 20 ELSE 0
      widens == i.inFormat = "YUV422_8B" /\ i.outFormat = "ARGB_8"
  IN /\ ~rotates(i) /\ ~resizes(i)
     /\ Fits(type, i.size_x) /\ Fits(type, i.size_y) /\ Fits(0, i.size_z)
     /\ i.dst_stride_x \in Int /\ i.dst_stride_y \in Int
     /\ i.inBuf_addr \in Int /\ i.outBuf_addr \in Int
     /\ ver = 20 => i.size_z = 1
     /\ i.bind => ver = 30 /\ i.inBuf_addr = 0 /\ i.outBuf_addr = 0
     /\ widens => i.size_x % 4 = 0 /\ Fits(type, 2 * i.size_x) /\ i.size_z = 1

\* The operands of an image's descriptor.
ImageOperands(ver, i, d, p, q, widen) ==
  /\ fillDesc(ver, i).descs = <<d>> /\ OneToOne(d, p, q)
  /\ d.su = (IF widen = 2 THEN 4 ELSE 1) /\ d.du = (IF widen = 2 THEN 8 ELSE 1)
  /\ p.addr = i.inBuf_addr /\ p.xs = i.size_x /\ p.ys = i.size_y /\ p.zs = i.size_z
  /\ q.addr = i.outBuf_addr /\ q.xs = widen * i.size_x /\ q.ys = i.size_y /\ q.zs = i.size_z
  /\ p.xp = i.size_x /\ q.xp = i.dst_stride_x
  /\ \/ i.size_z = 1
     \/ p.yp = i.size_x * i.size_y /\ q.yp = i.dst_stride_x * i.dst_stride_y
  /\ ver = 30 => p.at = SrcAddr0 /\ q.at = DstAddr0 /\ fillDesc(ver, i).binds = InOut(0)

LEMMA ImageDescs30 ==
  ASSUME NEW i, i.info_type = "GENERAL", PlainImage(30, i),
         NEW widen, widen = IF i.inFormat = "YUV422_8B" /\ i.outFormat = "ARGB_8" THEN 2 ELSE 1
  PROVE  \E d, p, q : ImageOperands(30, i, d, p, q, widen)
<1> PICK type : type = IF widen = 2 THEN 5 ELSE 0
  OBVIOUS
<1>1. fillDesc(30, i) = Filled(<<imageDesc(i, type, widen)>>, InOut(0))
  <2>1. checkDescrpType(i) = type
    BY DEF checkDescrpType, PlainImage
  <2>2. fillDesc(30, i) = fillDescV0(i)
    BY DEF fillDesc
  <2>5. ~resizes(i)
    BY DEF PlainImage
  <2>3. CASE widen = 2
    <3>1. type = 5 /\ fillDescV0(i) = Filled(<<imageDesc(i, 5, 2)>>, InOut(0))
      BY <2>1, <2>3, <2>5 DEF fillDescV0
    <3> QED
      BY <2>2, <2>3, <3>1
  <2>4. CASE widen # 2
    <3>1. type = 0 /\ widen = 1 /\ fillDescV0(i) = Filled(<<imageDesc(i, 0, 1)>>, InOut(0))
      BY <2>1, <2>4, <2>5 DEF fillDescV0
    <3> QED
      BY <2>2, <2>4, <3>1
  <2> QED
    BY <2>3, <2>4
<1> PICK p : p = TypedPlane(type, SrcAddr0, i.inBuf_addr, <<i.size_x, i.size_y, i.size_z>>,
                            <<i.size_x, i.size_x * i.size_y>>)
  OBVIOUS
<1> PICK q : q = TypedPlane(type, DstAddr0, i.outBuf_addr, <<widen * i.size_x, i.size_y, i.size_z>>,
                            <<i.dst_stride_x, i.dst_stride_x * i.dst_stride_y>>)
  OBVIOUS
<1>2. /\ Fits(type, i.size_x) /\ Fits(type, i.size_y) /\ Fits(type, i.size_z)
      /\ Fits(type, widen * i.size_x) /\ i.size_x \in Nat /\ i.size_y \in Nat
  <2>1. FieldSize \in Nat
    BY SizesAssumption
  <2>2. i.size_x \in Nat /\ i.size_y \in Nat /\ 1 * i.size_x = i.size_x
    BY <2>1 DEF PlainImage, Fits
  <2>3. \A v : Fits(0, v) = Fits(type, v)
    BY DEF Fits
  <2>4. Fits(0, i.size_x) /\ Fits(0, i.size_y) /\ Fits(0, i.size_z)
    BY DEF PlainImage
  <2>5. Fits(0, widen * i.size_x)
    <3>1. CASE widen = 1
      BY <2>2, <2>4, <3>1
    <3>2. CASE widen = 2
      BY <3>2 DEF PlainImage
    <3> QED
      BY <3>1, <3>2
  <2> QED
    BY <2>2, <2>3, <2>4, <2>5
<1>3. /\ i.size_x * i.size_y \in Int /\ i.dst_stride_x * i.dst_stride_y \in Int
      /\ i.dst_stride_x \in Int /\ i.size_x \in Int
  BY <1>2 DEF PlainImage
<1>4. /\ Operand(p) /\ p.at = SrcAddr0 /\ p.addr = i.inBuf_addr
      /\ p.xs = i.size_x /\ p.ys = i.size_y /\ p.zs = i.size_z
      /\ p.xp = i.size_x /\ p.yp = i.size_x * i.size_y
  <2>1. PICK s : s = <<i.size_x, i.size_y, i.size_z>>
    OBVIOUS
  <2>2. \A k \in 1 .. 3 : Fits(type, s[k])
    BY <1>2, <2>1
  <2>3. SrcAddr0 \in Int /\ i.inBuf_addr \in Int
    BY DEF SrcAddr0, PlainImage
  <2> HIDE DEF SrcAddr0
  <2> QED
    BY <1>3, <2>1, <2>2, <2>3, FieldHolds
<1>5. /\ Operand(q) /\ q.at = DstAddr0 /\ q.addr = i.outBuf_addr
      /\ q.xs = widen * i.size_x /\ q.ys = i.size_y /\ q.zs = i.size_z
      /\ q.xp = i.dst_stride_x /\ q.yp = i.dst_stride_x * i.dst_stride_y
  <2>1. PICK s : s = <<widen * i.size_x, i.size_y, i.size_z>>
    OBVIOUS
  <2>2. \A k \in 1 .. 3 : Fits(type, s[k])
    BY <1>2, <2>1
  <2>3. DstAddr0 \in Int /\ i.outBuf_addr \in Int
    BY DEF DstAddr0, PlainImage
  <2> QED
    BY <1>3, <2>1, <2>2, <2>3, FieldHolds
<1> PICK d : d = imageDesc(i, type, widen)
  OBVIOUS
<1>6. /\ IsDesc(d) /\ d.src = <<p>> /\ d.dst = <<q>>
      /\ d.ru = 1 /\ d.wu = 1 /\ ~d.fill /\ ~d.up /\ ~d.rtmp /\ d.wtmp = FALSE
      /\ d.su = (IF widen = 2 THEN 4 ELSE 1) /\ d.du = (IF widen = 2 THEN 8 ELSE 1)
  <2>1. srcField(type) = SrcAddr0 /\ dstField(type) = DstAddr0
    BY DEF srcField, dstField
  <2> QED
    BY <2>1 DEF imageDesc, Desc, IsDesc
<1>7. fillDesc(30, i).descs = <<d>> /\ fillDesc(30, i).binds = InOut(0)
  BY <1>1 DEF Filled
<1>8. ImageOperands(30, i, d, p, q, widen)
  BY <1>4, <1>5, <1>6, <1>7 DEF ImageOperands, OneToOne
<1> QED
  BY <1>8

repitched(p, v, z) == [p EXCEPT !.yp = v, !.zs = z]

LEMMA Repitched ==
  ASSUME NEW p, Operand(p), NEW v \in Int, NEW z \in Nat,
         NEW r, r = repitched(p, v, z)
  PROVE  /\ Operand(r) /\ r.addr = p.addr /\ r.xs = p.xs /\ r.ys = p.ys /\ r.zs = z
         /\ r.xp = p.xp /\ r.yp = v
<1>1. /\ p = [at |-> p.at, addr |-> p.addr, xs |-> p.xs, ys |-> p.ys, zs |-> p.zs,
              xp |-> p.xp, yp |-> p.yp]
      /\ p.at \in Int /\ IsPlane(p)
  BY DEF Operand
<1>2. r = [at |-> p.at, addr |-> p.addr, xs |-> p.xs, ys |-> p.ys, zs |-> z,
           xp |-> p.xp, yp |-> v]
  BY <1>1 DEF repitched
<1> QED
  BY <1>1, <1>2 DEF Operand, IsPlane

Kept(d, e) ==
  /\ d.ru = e.ru /\ d.wu = e.wu /\ d.fill = e.fill /\ d.up = e.up
  /\ d.rtmp = e.rtmp /\ d.wtmp = e.wtmp /\ d.su = e.su /\ d.du = e.du

between(e, r, s) == [e EXCEPT !.src = <<r>>, !.dst = <<s>>]

LEMMA DescChanged ==
  ASSUME NEW e, IsDesc(e), NEW r, NEW s, NEW d, d = between(e, r, s)
  PROVE  d.src = <<r>> /\ d.dst = <<s>> /\ IsDesc(d) /\ Kept(d, e)
<1>1. /\ e = [type |-> e.type, fill |-> e.fill, su |-> e.su, du |-> e.du, ru |-> e.ru, wu |-> e.wu,
              src |-> e.src, aux |-> e.aux, dst |-> e.dst, rtmp |-> e.rtmp, wtmp |-> e.wtmp,
              up |-> e.up, payload |-> e.payload]
  BY DEF IsDesc
<1>2. /\ d = [type |-> e.type, fill |-> e.fill, su |-> e.su, du |-> e.du, ru |-> e.ru, wu |-> e.wu,
              src |-> <<r>>, aux |-> e.aux, dst |-> <<s>>, rtmp |-> e.rtmp, wtmp |-> e.wtmp,
              up |-> e.up, payload |-> e.payload]
  BY <1>1 DEF between
<1> QED
  BY <1>2 DEF IsDesc, Kept

LEMMA ImageDescs20 ==
  ASSUME NEW i, i.info_type = "GENERAL", PlainImage(20, i),
         NEW widen, widen = IF i.inFormat = "YUV422_8B" /\ i.outFormat = "ARGB_8" THEN 2 ELSE 1
  PROVE  \E d, p, q : ImageOperands(20, i, d, p, q, widen)
<1>1. FieldSize \in Nat /\ FieldSize > 1 /\ 1 % FieldSize = 1 /\ Fits(20, 1)
  BY SizesAssumption DEF Fits
<1>2. /\ Fits(20, i.size_x) /\ Fits(20, i.size_y) /\ Fits(20, widen * i.size_x) /\ i.size_z = 1
      /\ i.size_x \in Nat /\ i.size_y \in Nat
  <2>1. i.size_x \in Nat /\ i.size_y \in Nat /\ i.size_z = 1
    BY <1>1 DEF PlainImage, Fits
  <2>2. Fits(20, i.size_x) /\ Fits(20, i.size_y)
    BY DEF PlainImage
  <2>3. Fits(20, widen * i.size_x)
    <3>1. CASE widen = 1
      BY <2>1, <2>2, <3>1
    <3>2. CASE widen = 2
      BY <3>2 DEF PlainImage
    <3> QED
      BY <3>1, <3>2
  <2> QED
    BY <2>1, <2>2, <2>3
<1> PICK p : p = TypedPlane(20, srcField(20), i.inBuf_addr, <<i.size_x, i.size_y, i.size_z>>,
                            <<i.size_x, i.size_x * i.size_y>>)
  OBVIOUS
<1> PICK q : q = TypedPlane(20, dstField(20), i.outBuf_addr, <<widen * i.size_x, i.size_y, i.size_z>>,
                            <<i.dst_stride_x, i.dst_stride_x * i.dst_stride_y>>)
  OBVIOUS
<1>3. /\ i.size_x * i.size_y \in Int /\ i.dst_stride_x * i.dst_stride_y \in Int
      /\ i.dst_stride_x \in Int /\ i.size_x \in Int /\ i.dst_stride_y \in Int
      /\ i.inBuf_addr \in Int /\ i.outBuf_addr \in Int
      /\ srcField(20) \in Int /\ dstField(20) \in Int
  BY <1>2 DEF PlainImage, srcField, dstField
<1>4. /\ Operand(p) /\ p.addr = i.inBuf_addr
      /\ p.xs = i.size_x /\ p.ys = i.size_y /\ p.zs = i.size_z /\ p.xp = i.size_x
  <2>1. PICK s : s = <<i.size_x, i.size_y, i.size_z>>
    OBVIOUS
  <2>2. \A k \in 1 .. 3 : Fits(20, s[k])
    BY <1>1, <1>2, <2>1
  <2> QED
    BY <1>3, <2>1, <2>2, FieldHolds
<1>5. /\ Operand(q) /\ q.addr = i.outBuf_addr
      /\ q.xs = widen * i.size_x /\ q.ys = i.size_y /\ q.zs = i.size_z /\ q.xp = i.dst_stride_x
  <2>1. PICK s : s = <<widen * i.size_x, i.size_y, i.size_z>>
    OBVIOUS
  <2>2. \A k \in 1 .. 3 : Fits(20, s[k])
    BY <1>1, <1>2, <2>1
  <2> QED
    BY <1>3, <2>1, <2>2, FieldHolds
<1> PICK e : e = imageDesc(i, 20, widen)
  OBVIOUS
<1>6. /\ IsDesc(e) /\ e.src = <<p>> /\ e.dst = <<q>>
      /\ e.ru = 1 /\ e.wu = 1 /\ ~e.fill /\ ~e.up /\ ~e.rtmp /\ e.wtmp = FALSE
      /\ e.su = (IF widen = 2 THEN 4 ELSE 1) /\ e.du = (IF widen = 2 THEN 8 ELSE 1)
  BY DEF imageDesc, Desc, IsDesc
<1> PICK r : r = repitched(p, i.size_y, i.size_z % FieldSize)
  OBVIOUS
<1> PICK s : s = repitched(q, i.dst_stride_y, 1)
  OBVIOUS
<1>7. /\ Operand(r) /\ r.addr = p.addr /\ r.xs = p.xs /\ r.ys = p.ys /\ r.zs = 1 /\ r.xp = p.xp
      /\ Operand(s) /\ s.addr = q.addr /\ s.xs = q.xs /\ s.ys = q.ys /\ s.zs = 1 /\ s.xp = q.xp
  <2>1. i.size_y \in Int /\ i.dst_stride_y \in Int /\ 1 \in Nat
    BY <1>2, <1>3
  <2>2. r = repitched(p, i.size_y, 1)
    BY <1>1, <1>2
  <2> QED
    <3>1. /\ Operand(r) /\ r.addr = p.addr /\ r.xs = p.xs /\ r.ys = p.ys /\ r.zs = 1 /\ r.xp = p.xp
      BY ONLY <1>4, <2>1, <2>2, Repitched
    <3>2. /\ Operand(s) /\ s.addr = q.addr /\ s.xs = q.xs /\ s.ys = q.ys /\ s.zs = 1 /\ s.xp = q.xp
      <4>1. s = repitched(q, i.dst_stride_y, 1)
        OBVIOUS
      <4> QED
        BY ONLY <1>5, <2>1, <4>1, Repitched
    <3> QED
      BY <3>1, <3>2
<1> PICK d : d = [e EXCEPT !.src = <<[@[1] EXCEPT !.yp = i.size_y, !.zs = i.size_z % FieldSize]>>,
                           !.dst = <<[@[1] EXCEPT !.yp = i.dst_stride_y, !.zs = 1]>>]
  OBVIOUS
<1>8. /\ IsDesc(d) /\ d.src = <<r>> /\ d.dst = <<s>>
      /\ d.ru = 1 /\ d.wu = 1 /\ ~d.fill /\ ~d.up /\ ~d.rtmp /\ d.wtmp = FALSE
      /\ d.su = e.su /\ d.du = e.du
  <2>1. e.src[1] = p /\ e.dst[1] = q
    BY <1>6
  <2>2. d = between(e, r, s)
    BY <2>1 DEF between, repitched
  <2>3. IsDesc(e)
    BY <1>6
  <2>4. d.src = <<r>> /\ d.dst = <<s>> /\ IsDesc(d) /\ Kept(d, e)
    BY ONLY <2>2, <2>3, DescChanged
  <2> QED
    BY <1>6, <2>4 DEF Kept
<1>9. fillDesc(20, i).descs = <<d>>
  BY DEF fillDesc, fillDescV20, Filled
<1>10. ImageOperands(20, i, d, r, s, widen)
  <2>1. /\ i.size_z = 1 /\ 20 # 30
        /\ d.su = (IF widen = 2 THEN 4 ELSE 1) /\ d.du = (IF widen = 2 THEN 8 ELSE 1)
        /\ r.addr = i.inBuf_addr /\ r.xs = i.size_x /\ r.ys = i.size_y /\ r.zs = i.size_z
        /\ s.addr = i.outBuf_addr /\ s.xs = widen * i.size_x /\ s.ys = i.size_y /\ s.zs = i.size_z
        /\ r.xp = i.size_x /\ s.xp = i.dst_stride_x
    <3>1. i.size_z = 1 /\ 20 # 30
      BY <1>2
    <3>2. d.su = (IF widen = 2 THEN 4 ELSE 1) /\ d.du = (IF widen = 2 THEN 8 ELSE 1)
      BY <1>6, <1>8
    <3>3. /\ r.addr = i.inBuf_addr /\ r.xs = i.size_x /\ r.ys = i.size_y /\ r.zs = i.size_z
          /\ r.xp = i.size_x
      BY <1>4, <1>7, <3>1
    <3>4. /\ s.addr = i.outBuf_addr /\ s.xs = widen * i.size_x /\ s.ys = i.size_y /\ s.zs = i.size_z
          /\ s.xp = i.dst_stride_x
      BY <1>5, <1>7, <3>1
    <3> QED
      BY <3>1, <3>2, <3>3, <3>4
  <2> QED
    BY <1>7, <1>8, <1>9, <2>1, Zenon DEF ImageOperands, OneToOne
<1> QED
  BY <1>10

\* Lines of w units of s bytes become lines of w units of t bytes.
Units(a, b, from, to, s, t, w, h) ==
  {<<b + t * u + k + y * to, bytes(a + s * u + y * from, s)>> :
     u \in upTo(w), k \in upTo(t), y \in upTo(h)}

LEMMA UnitSpot ==
  ASSUME NEW q, IsPlane(q), NEW t \in Nat, NEW u \in Nat, NEW k \in Nat, NEW y \in Nat
  PROVE  spot(q, nth(t, u, k), y, 0) = q.addr + t * u + k + y * q.xp
<1>1. q.addr \in Int /\ q.xp \in Int /\ q.yp \in Int
  BY DEF IsPlane
<1>2. 0 * q.yp = 0
  BY <1>1
<1>3. t * u \in Int /\ y * q.xp \in Int
  BY <1>1
<1> QED
  BY <1>1, <1>2, <1>3 DEF spot, nth

LEMMA UnitLines ==
  ASSUME NEW d, NEW p, NEW q, Single(d, p, q), d.su # d.du,
         NEW s \in Nat \ {0}, NEW t \in Nat \ {0}, d.su = s, d.du = t, NEW w \in Nat,
         p.xs = wide(s, w), q.xs = wide(t, w), p.ys = q.ys, p.zs = 1, q.zs = 1,
         NEW R, Request(R), R = Units(p.addr, q.addr, p.xp, q.xp, s, t, w, q.ys)
  PROVE  Delivers(<<d>>, R)
<1> PICK h \in Nat : h = q.ys
  BY DEF Single, IsPlane
<1> PICK a \in Int, b \in Int, from \in Int, to \in Int :
           a = p.addr /\ b = q.addr /\ from = p.xp /\ to = q.xp
  BY DEF Single, IsPlane
<1> DEFINE got(u, y, z)    == [j \in 1 .. s |-> spot(p, nth(s, u, j - 1), y, z)]
           put(u, k, y, z) == spot(q, nth(t, u, k), y, z)
<1>1. ASSUME NEW u \in upTo(w), NEW k \in upTo(t), NEW y \in upTo(h)
      PROVE  /\ put(u, k, y, 0) = b + t * u + k + y * to
             /\ got(u, y, 0) = bytes(a + s * u + y * from, s)
  <2>1. u \in Nat /\ k \in Nat /\ y \in Nat
    BY DEF upTo
  <2>2. put(u, k, y, 0) = b + t * u + k + y * to
    <3>1. IsPlane(q) /\ t \in Nat
      BY DEF Single
    <3>2. spot(q, nth(t, u, k), y, 0) = q.addr + t * u + k + y * q.xp
      BY ONLY <2>1, <3>1, UnitSpot
    <3> QED
      BY <3>2
  <2>3. ASSUME NEW j \in 1 .. s
        PROVE  spot(p, nth(s, u, j - 1), y, 0) = (a + s * u + y * from) + j - 1
    <3>1. j - 1 \in Nat
      OBVIOUS
    <3>2. spot(p, nth(s, u, j - 1), y, 0) = a + s * u + (j - 1) + y * from
      BY <2>1, <3>1, UnitSpot DEF Single
    <3>3. s * u \in Int /\ y * from \in Int
      BY <2>1
    <3> QED
      BY <3>2, <3>3
  <2>4. got(u, y, 0) = bytes(a + s * u + y * from, s)
    BY <2>3 DEF bytes
  <2> QED
    BY <2>2, <2>4
<1> HIDE DEF got, put
<1>2. upTo(q.zs) = {0}
  BY DEF upTo
<1>3. R = {<<put(u, k, y, z), got(u, y, z)>> :
             u \in upTo(w), k \in upTo(t), y \in upTo(h), z \in upTo(q.zs)}
  <2> DEFINE A == {<<b + t * u + k + y * to, bytes(a + s * u + y * from, s)>> :
                     u \in upTo(w), k \in upTo(t), y \in upTo(h)}
             B == {<<put(u, k, y, z), got(u, y, z)>> :
                     u \in upTo(w), k \in upTo(t), y \in upTo(h), z \in {0}}
  <2>1. A \subseteq B
    BY <1>1
  <2>2. B \subseteq A
    BY <1>1
  <2>3. A = B
    <3> HIDE DEF A, B
    <3> QED
      BY <2>1, <2>2
  <2>4. R = A
    BY DEF Units
  <2> QED
    BY <1>2, <2>3, <2>4
<1>4. R = UnitsMade(d, p, q, w)
  BY <1>3 DEF got, put, UnitsMade
<1> QED
  <2>1. d.su \in Nat \ {0} /\ d.du \in Nat \ {0} /\ p.xs = wide(d.su, w) /\ q.xs = wide(d.du, w)
        /\ p.zs = q.zs /\ d.su # d.du /\ p.ys = q.ys /\ Single(d, p, q) /\ Request(R) /\ w \in Nat
    OBVIOUS
  <2> QED
    BY ONLY <1>4, <2>1, UnitDelivers
-----------------------------------------------------------------------------
LEMMA ImageDelivers ==
  ASSUME NEW ver \in {20, 30}, NEW i, i.info_type = "GENERAL", PlainImage(ver, i),
         NEW n \in Nat, Request(Requested(i, n))
  PROVE  Delivers(RunOf(ver, i, n), Requested(i, n))
<1> PICK widen : widen = IF i.inFormat = "YUV422_8B" /\ i.outFormat = "ARGB_8" THEN 2 ELSE 1
  OBVIOUS
<1>1. PICK d, p, q : ImageOperands(ver, i, d, p, q, widen)
  BY ImageDescs20, ImageDescs30
<1> PICK a, b : a = Origin(i, n, "in", i.inBuf_addr) /\ b = Origin(i, n, "out", i.outBuf_addr)
  OBVIOUS
<1>2. /\ Leads(Told(ver, i), n, 0, p, a) /\ Leads(Told(ver, i), n, 0, q, b)
      /\ a \in Int /\ b \in Int
  <2>1. /\ i.inBuf_addr \in Int /\ i.outBuf_addr \in Int
        /\ i.bind => fillDesc(ver, i).binds = InOut(0) /\ i.inBuf_addr = 0 /\ i.outBuf_addr = 0
        /\ i.bind => p.at = SrcAddr0 /\ q.at = DstAddr0
        /\ p.addr = i.inBuf_addr /\ q.addr = i.outBuf_addr
    BY <1>1 DEF PlainImage, ImageOperands
  <2> QED
    BY <2>1, LeadsFromStart
<1>3. PICK e : /\ RunOf(ver, i, n) = <<e>> /\ Single(e, moved(p, a), moved(q, b))
               /\ e.su = d.su /\ e.du = d.du
  <2>1. fillDesc(ver, i).descs = <<d>> /\ OneToOne(d, p, q)
    BY <1>1 DEF ImageOperands
  <2> QED
    BY <1>2, <2>1, SingleRun
<1> PICK r, s : r = moved(p, a) /\ s = moved(q, b)
  OBVIOUS
<1>4. /\ r.addr = a /\ r.xs = p.xs /\ r.ys = p.ys /\ r.zs = p.zs /\ r.xp = p.xp /\ r.yp = p.yp
      /\ s.addr = b /\ s.xs = q.xs /\ s.ys = q.ys /\ s.zs = q.zs /\ s.xp = q.xp /\ s.yp = q.yp
  BY <1>1, <1>2, MovedOperand DEF ImageOperands, OneToOne
<1>5. Requested(i, n) = IF widen = 2 THEN YUVtoRGBA(i, a, b) ELSE CopyImage(i, a, b)
  <2>1. Requested(i, n) = GeneralRequest(i, a, b)
    BY DEF Requested
  <2>2. ~rotates(i) /\ ~resizes(i)
    BY DEF PlainImage
  <2> QED
    BY <2>1, <2>2 DEF GeneralRequest
<1>6. i.size_x \in Nat /\ i.size_y \in Nat /\ i.dst_stride_x \in Int /\ i.dst_stride_y \in Int
  <2>1. FieldSize \in Nat
    BY SizesAssumption
  <2> QED
    BY <2>1 DEF PlainImage, Fits
<1>7. CASE widen = 1
  <2>1. e.su = e.du /\ Requested(i, n) = CopyImage(i, a, b)
    BY <1>1, <1>3, <1>5, <1>7 DEF ImageOperands
  <2>2. /\ r.xs = i.size_x /\ r.ys = i.size_y /\ r.zs = i.size_z
        /\ s.xs = i.size_x /\ s.ys = i.size_y /\ s.zs = i.size_z
        /\ r.xp = i.size_x /\ s.xp = i.dst_stride_x
        /\ i.size_z = 1 \/ (r.yp = i.size_x * i.size_y /\ s.yp = i.dst_stride_x * i.dst_stride_y)
    BY <1>1, <1>4, <1>6, <1>7 DEF ImageOperands
  <2>3. Delivers(<<e>>, CopyImage(i, a, b))
    BY <1>2, <1>3, <1>4, <1>6, <2>1, <2>2, ImageCopied
  <2> QED
    BY <1>3, <2>1, <2>3
<1>8. CASE widen = 2
  <2>1. i.size_x % 4 = 0 /\ i.size_z = 1 /\ e.su = 4 /\ e.du = 8
    BY <1>1, <1>3, <1>8 DEF ImageOperands, PlainImage
  <2> PICK w \in Nat : w = i.size_x \div 4
    BY <1>6
  <2>2. r.xs = wide(4, w) /\ s.xs = wide(8, w)
    <3>1. i.size_x = 4 * w /\ s.xs = 2 * i.size_x /\ r.xs = i.size_x
      BY <1>1, <1>4, <1>6, <1>8, <2>1 DEF ImageOperands
    <3> QED
      BY <3>1 DEF wide
  <2>3. Requested(i, n) = Units(a, b, i.size_x, i.dst_stride_x, 4, 8, w, i.size_y)
    BY <1>5, <1>8 DEF YUVtoRGBA, Units
  <2>4. /\ s.ys = i.size_y /\ r.ys = s.ys /\ r.zs = 1 /\ s.zs = 1
        /\ r.xp = i.size_x /\ s.xp = i.dst_stride_x /\ r.addr = a /\ s.addr = b
    BY <1>1, <1>4, <2>1 DEF ImageOperands
  <2>5. Requested(i, n) = Units(r.addr, s.addr, r.xp, s.xp, 4, 8, w, s.ys)
    BY <2>3, <2>4
  <2>6. 4 \in Nat \ {0} /\ 8 \in Nat \ {0} /\ e.su # e.du /\ Single(e, r, s)
    BY <1>3, <2>1
  <2>7. Delivers(<<e>>, Requested(i, n))
    BY <2>1, <2>2, <2>4, <2>5, <2>6, UnitLines
  <2> QED
    BY <1>3, <2>7
<1> QED
  BY <1>7, <1>8

\* A grid of spots, told unit by unit.
spotCopies(p, q) ==
  {<<spot(q, x, y, z), <<spot(p, x, y, z)>> >> :
     x \in upTo(q.xs), y \in upTo(q.ys), z \in upTo(q.zs)}

unitCopies(p, q, t, w) ==
  {<<spot(q, nth(t, u, k), y, z), <<spot(p, nth(t, u, k), y, z)>> >> :
     u \in upTo(w), y \in upTo(q.ys), z \in upTo(q.zs), k \in upTo(t)}

LEMMA CopyUnits ==
  ASSUME NEW p, NEW q, NEW t, NEW w, IsPlane(q), t \in Nat \ {0}, w \in Nat, q.xs = wide(t, w)
  PROVE  spotCopies(p, q) = unitCopies(p, q, t, w)
<1> DEFINE f(x, y, z) == <<spot(q, x, y, z), <<spot(p, x, y, z)>> >>
           A == {f(x, y, z) : x \in upTo(q.xs), y \in upTo(q.ys), z \in upTo(q.zs)}
           B == {f(nth(t, u, k), y, z) :
                   u \in upTo(w), y \in upTo(q.ys), z \in upTo(q.zs), k \in upTo(t)}
<1> HIDE DEF f
<1>1. A \subseteq B
  <2> SUFFICES ASSUME NEW x \in upTo(q.xs), NEW y \in upTo(q.ys), NEW z \in upTo(q.zs)
               PROVE  f(x, y, z) \in B
    OBVIOUS
  <2>1. x \in 0 .. wide(t, w) - 1
    BY DEF upTo
  <2>2. PICK u \in 0 .. w - 1, k \in 0 .. t - 1 : x = nth(t, u, k)
    BY <2>1, UnitSplit
  <2>3. u \in upTo(w) /\ k \in upTo(t)
    BY DEF upTo
  <2> QED
    BY <2>2, <2>3
<1>2. B \subseteq A
  <2> SUFFICES ASSUME NEW u \in upTo(w), NEW y \in upTo(q.ys), NEW z \in upTo(q.zs), NEW k \in upTo(t)
               PROVE  f(nth(t, u, k), y, z) \in A
    OBVIOUS
  <2>1. u \in 0 .. w - 1 /\ k \in 0 .. t - 1
    BY DEF upTo
  <2>2. nth(t, u, k) \in 0 .. wide(t, w) - 1
    BY <2>1, UnitInside
  <2>3. nth(t, u, k) \in upTo(q.xs)
    BY <2>2 DEF upTo
  <2> QED
    BY <2>3
<1>3. A = B
  <2> HIDE DEF A, B
  <2> QED
    BY <1>1, <1>2
<1> QED
  BY <1>3 DEF f, spotCopies, unitCopies

\* the spot of byte k of element e, at column x and row y, of elements of t bytes
LEMMA ElementSpot ==
  ASSUME NEW q, NEW t, NEW e, NEW k, NEW x, NEW y, NEW c, NEW w,
         IsPlane(q), t \in Nat, e \in Nat, k \in Nat, x \in Nat, y \in Nat, c \in Int, w \in Int,
         q.xp = c * t, q.yp = w * t
  PROVE  spot(q, nth(t, e, k), x, y) = (q.addr + t * (e + x * c + y * w)) + k
<1>1. q.addr \in Int
  BY DEF IsPlane
<1>2. x * q.xp = t * (x * c)
  OBVIOUS
<1>3. y * q.yp = t * (y * w)
  OBVIOUS
<1>4. x * c \in Int /\ y * w \in Int /\ t * (x * c) \in Int /\ t * (y * w) \in Int /\ t * e \in Int
  OBVIOUS
<1> PICK m \in Int, h \in Int : m = x * c /\ h = y * w
  BY <1>4
<1>5. t * (e + m + h) = t * e + t * m + t * h
  OBVIOUS
<1> QED
  BY <1>1, <1>2, <1>3, <1>4, <1>5 DEF spot, nth

\* A tensor is copied or converted.
TensorOperands(d, p, q, i, s, t, a, b) ==
  /\ Single(d, p, q) /\ s \in Nat \ {0} /\ t \in Nat \ {0}
  /\ s = i.src_type_size /\ t = i.dst_type_size
  /\ s = t => d.su = d.du
  /\ s # t => d.su = s /\ d.du = t
  /\ i.shape_c \in Nat /\ p.xs = wide(s, i.shape_c) /\ q.xs = wide(t, i.shape_c)
  /\ p.ys = i.shape_w /\ q.ys = i.shape_w
  /\ p.zs = i.shape_n * i.shape_h /\ q.zs = i.shape_n * i.shape_h
  /\ i.src_stride_c \in Int /\ i.src_stride_w \in Int
  /\ i.dst_stride_c \in Int /\ i.dst_stride_w \in Int
  /\ p.xp = i.src_stride_c * s /\ p.yp = i.src_stride_w * s
  /\ q.xp = i.dst_stride_c * t /\ q.yp = i.dst_stride_w * t
  /\ p.addr = a /\ q.addr = b

LEMMA TensorCopied ==
  ASSUME NEW d, NEW p, NEW q, NEW i, NEW s, NEW t, NEW a, NEW b,
         TensorOperands(d, p, q, i, s, t, a, b), Request(CopyTensor(i, a, b))
  PROVE  Delivers(<<d>>, CopyTensor(i, a, b))
<1> USE DEF TensorOperands
<1> PICK R : R = CopyTensor(i, a, b)
  OBVIOUS
<1> DEFINE to(e, x, y) == b + t * (e + x * i.dst_stride_c + y * i.dst_stride_w)
           from(e, x, y) == a + s * (e + x * i.src_stride_c + y * i.src_stride_w)
<1>0. /\ IsPlane(p) /\ IsPlane(q) /\ i.shape_w \in Nat /\ i.shape_n * i.shape_h \in Nat
      /\ a \in Int /\ b \in Int
  BY DEF Single, IsPlane
<1>1. R = {<<to(e, x, y) + k, IF s = t THEN <<from(e, x, y) + k>> ELSE bytes(from(e, x, y), s)>> :
             e \in upTo(i.shape_c), x \in upTo(i.shape_w), y \in upTo(i.shape_n * i.shape_h),
             k \in upTo(t)}
  BY DEF CopyTensor
<1>2. ASSUME NEW e \in upTo(i.shape_c), NEW x \in upTo(i.shape_w), NEW y \in upTo(i.shape_n * i.shape_h),
             NEW k \in Nat
      PROVE  /\ spot(q, nth(t, e, k), x, y) = to(e, x, y) + k
             /\ spot(p, nth(s, e, k), x, y) = from(e, x, y) + k
  <2>1. e \in Nat /\ x \in Nat /\ y \in Nat /\ s \in Nat /\ t \in Nat
    BY <1>0 DEF upTo
  <2>2. spot(q, nth(t, e, k), x, y) = to(e, x, y) + k
    BY <1>0, <2>1, ElementSpot
  <2>3. spot(p, nth(s, e, k), x, y) = from(e, x, y) + k
    BY <1>0, <2>1, ElementSpot
  <2> QED
    BY <2>2, <2>3
<1>3. \A k \in upTo(t) : k \in Nat
  BY DEF upTo
<1>4. \A e \in upTo(i.shape_c), x \in upTo(i.shape_w), y \in upTo(i.shape_n * i.shape_h) :
        from(e, x, y) \in Int
  <2> TAKE e \in upTo(i.shape_c), x \in upTo(i.shape_w), y \in upTo(i.shape_n * i.shape_h)
  <2>1. e \in Int /\ x \in Int /\ y \in Int
    BY <1>0 DEF upTo
  <2> QED
    BY <1>0, <2>1
<1> HIDE DEF to, from
<1>5. CASE s = t
  <2>1. R = {<<spot(q, nth(t, u, k), y, z), <<spot(p, nth(t, u, k), y, z)>> >> :
               u \in upTo(i.shape_c), y \in upTo(q.ys), z \in upTo(q.zs), k \in upTo(t)}
    BY <1>1, <1>2, <1>3, <1>5
  <2>2. R = {<<spot(q, x, y, z), <<spot(p, x, y, z)>> >> :
               x \in upTo(q.xs), y \in upTo(q.ys), z \in upTo(q.zs)}
    <3>1. spotCopies(p, q) = unitCopies(p, q, t, i.shape_c)
      BY <1>0, CopyUnits
    <3>2. R = unitCopies(p, q, t, i.shape_c)
      BY <2>1 DEF unitCopies
    <3>3. R = spotCopies(p, q)
      BY <3>1, <3>2
    <3> QED
      BY <3>3 DEF spotCopies
  <2>3. R = {<<ByteAt(q, n), <<ByteAt(p, n)>> >> : n \in 0 .. planeSize(q) - 1}
    BY <1>0, <1>5, <2>2, CopyGrid
  <2>4. planeSize(q) = planeSize(p) /\ planeSize(q) \in Int
    BY <1>0, <1>5 DEF planeSize, IsPlane
  <2> QED
    BY <1>5, <2>3, <2>4, CopyDelivers
<1>6. CASE s # t
  <2> DEFINE got(u, y, z) == [j \in 1 .. s |-> spot(p, nth(s, u, j - 1), y, z)]
             g(u, k, y, z) == <<spot(q, nth(t, u, k), y, z), got(u, y, z)>>
  <2>1. \A e \in upTo(i.shape_c), x \in upTo(i.shape_w), y \in upTo(i.shape_n * i.shape_h) :
          bytes(from(e, x, y), s) = got(e, x, y)
    <3> TAKE e \in upTo(i.shape_c), x \in upTo(i.shape_w), y \in upTo(i.shape_n * i.shape_h)
    <3>1. ASSUME NEW j \in 1 .. s
          PROVE  from(e, x, y) + j - 1 = spot(p, nth(s, e, j - 1), x, y)
      <4>1. j - 1 \in Nat
        OBVIOUS
      <4>2. spot(p, nth(s, e, j - 1), x, y) = from(e, x, y) + (j - 1)
        BY <1>2, <4>1
      <4> QED
        BY <1>4, <4>2
    <3> QED
      BY <3>1 DEF bytes
  <2>5. UnitsMade(d, p, q, i.shape_c) =
          {g(u, k, y, z) : u \in upTo(i.shape_c), k \in upTo(t), y \in upTo(i.shape_w),
                           z \in upTo(i.shape_n * i.shape_h)}
    BY <1>6, SMTT(20) DEF UnitsMade
  <2> HIDE DEF got, g
  <2>2. R = {<<to(e, x, y) + k, got(e, x, y)>> :
               e \in upTo(i.shape_c), x \in upTo(i.shape_w), y \in upTo(i.shape_n * i.shape_h),
               k \in upTo(t)}
    BY <1>1, <1>6, <2>1
  <2>6. R = {g(e, k, x, y) :
               e \in upTo(i.shape_c), x \in upTo(i.shape_w), y \in upTo(i.shape_n * i.shape_h),
               k \in upTo(t)}
    BY <1>2, <1>3, <2>2 DEF g
  <2>3. R = UnitsMade(d, p, q, i.shape_c)
    BY <2>5, <2>6
  <2>4. d.su # d.du /\ d.su \in Nat \ {0} /\ d.du \in Nat \ {0} /\ p.xs = wide(d.su, i.shape_c)
        /\ q.xs = wide(d.du, i.shape_c) /\ p.ys = q.ys /\ p.zs = q.zs
    BY <1>6
  <2> QED
    BY <2>3, <2>4, UnitDelivers
<1> QED
  BY <1>5, <1>6

Held3(p, pos, addr, x, y, z, u, v) ==
  /\ Operand(p) /\ p.at = pos /\ p.addr = addr
  /\ p.xs = x /\ p.ys = y /\ p.zs = z /\ p.xp = u /\ p.yp = v

LEMMA PlaneHolds ==
  ASSUME NEW pos, NEW addr, NEW x, NEW y, NEW z, NEW u, NEW v, NEW p,
         pos \in Int, addr \in Int, u \in Int, v \in Int, Fits(0, x), Fits(0, y), Fits(0, z),
         p = Plane(pos, addr, <<x, y, z>>, <<u, v>>)
  PROVE  Held3(p, pos, addr, x, y, z, u, v)
<1>1. PICK s, t : s = <<x, y, z>> /\ t = <<u, v>>
  OBVIOUS
<1>2. \A k \in 1 .. 3 : Fits(0, s[k])
  BY <1>1
<1>3. t[1] \in Int /\ t[2] \in Int /\ t[1] = u /\ t[2] = v /\ s[1] = x /\ s[2] = y /\ s[3] = z
  BY <1>1
<1>4. p = TypedPlane(0, pos, addr, s, t)
  BY <1>1 DEF Plane
<1>5. /\ Operand(p) /\ p.at = pos /\ p.addr = addr
      /\ p.xs = s[1] /\ p.ys = s[2] /\ p.zs = s[3]
      /\ p.xp = t[1] /\ p.yp = t[2]
  BY ONLY <1>2, <1>3, <1>4, pos \in Int, addr \in Int, FieldHolds
<1> QED
  BY <1>3, <1>5 DEF Held3

FastFormats == {"DEPTHTOSPACE", "DEPTHTOSPACE_FAST", "S2D_FAST"}

\* Lines of pixels of s bytes that become pixels of t bytes.
FitLines(i, s, t) ==
  /\ i.shape_w \in Nat /\ Fits(0, s * i.shape_w) /\ Fits(0, t * i.shape_w)
  /\ Fits(0, i.shape_n * i.shape_h) /\ Fits(0, 1)
  /\ i.src_stride_w \in Int /\ i.dst_stride_w \in Int

\* A tensor that is copied, converted or repacked.
PlainTensor(i) ==
  LET type == checkDescrpType(i)
      s == i.src_type_size
      t == i.dst_type_size
  IN /\ i.inFormat \notin FastFormats
     /\ type = 0 =>
          /\ s \in Nat \ {0} /\ t \in Nat \ {0} /\ (s = t \/ converts(i)) /\ i.shape_c \in Nat
          /\ Fits(0, i.shape_c * s) /\ Fits(0, i.shape_c * t) /\ Fits(0, i.shape_w)
          /\ Fits(0, i.shape_n * i.shape_h)
          /\ i.src_stride_c \in Int /\ i.src_stride_w \in Int
          /\ i.dst_stride_c \in Int /\ i.dst_stride_w \in Int
     /\ type = 1 => FitLines(i, 3, 4)
     /\ type = 5 => FitLines(i, 1, 4)
     /\ type = 15 => FitLines(i, 4, 3)

LEMMA TensorTypes ==
  ASSUME NEW i, i.info_type = "NN", i.inFormat \notin FastFormats
  PROVE  checkDescrpType(i) \in {0, 1, 5, 15}
BY DEF FastFormats, checkDescrpType

LEMMA RepackRun ==
  ASSUME NEW i, NEW ver, NEW n, NEW d, NEW p, NEW q, NEW s, NEW t, NEW w, NEW lines,
         NEW from, NEW to, NEW in, NEW a, NEW b,
         n \in Nat, s \in Nat \ {0}, t \in Nat \ {0}, s # t, w \in Nat,
         a \in Int, b \in Int,
         fillDesc(ver, i).descs = <<d>>, OneToOne(d, p, q), d.su = s, d.du = t,
         Held3(p, in, 0, wide(s, w), lines, 1, from, 0),
         Held3(q, DstAddr0, 0, wide(t, w), lines, 1, to, 0),
         Leads(Told(ver, i), n, 0, p, a), Leads(Told(ver, i), n, 0, q, b),
         Requested(i, n) = Units(a, b, from, to, s, t, w, lines), Request(Requested(i, n))
  PROVE  Delivers(RunOf(ver, i, n), Requested(i, n))
<1>0. /\ fillDesc(ver, i).descs = <<d>> /\ OneToOne(d, p, q) /\ a \in Int /\ b \in Int
      /\ Leads(Told(ver, i), n, 0, p, a) /\ Leads(Told(ver, i), n, 0, q, b)
  OBVIOUS
<1>1. PICK e : /\ RunOf(ver, i, n) = <<e>> /\ Single(e, moved(p, a), moved(q, b))
               /\ e.su = d.su /\ e.du = d.du
  BY ONLY <1>0, SingleRun
<1> PICK r, o : r = moved(p, a) /\ o = moved(q, b)
  OBVIOUS
<1>2. /\ r.addr = a /\ r.xs = p.xs /\ r.ys = p.ys /\ r.zs = p.zs /\ r.xp = p.xp /\ r.yp = p.yp
      /\ o.addr = b /\ o.xs = q.xs /\ o.ys = q.ys /\ o.zs = q.zs /\ o.xp = q.xp /\ o.yp = q.yp
  BY MovedOperand DEF OneToOne
<1>3. /\ r.xs = wide(s, w) /\ o.xs = wide(t, w) /\ r.ys = lines /\ o.ys = lines
      /\ r.zs = 1 /\ o.zs = 1 /\ r.xp = from /\ o.xp = to
  BY <1>2 DEF Held3
<1>4. Requested(i, n) = Units(r.addr, o.addr, r.xp, o.xp, s, t, w, o.ys)
  BY <1>2, <1>3
<1>5. Delivers(<<e>>, Requested(i, n))
  BY <1>1, <1>3, <1>4, UnitLines
<1> QED
  BY <1>1, <1>5

encoded(type, su, du, p, q) ==
  [Desc(type) EXCEPT !.su = su, !.du = du, !.src = <<p>>, !.dst = <<q>>]

LEMMA EncodedOne ==
  ASSUME NEW type, NEW su, NEW du, NEW p, NEW q, NEW d,
         Operand(p), Operand(q), d = encoded(type, su, du, p, q)
  PROVE  OneToOne(d, p, q) /\ d.su = su /\ d.du = du
BY DEF encoded, Desc, OneToOne, IsDesc

LEMMA RepackedUnits ==
  ASSUME NEW i, NEW s, NEW t, NEW a, NEW b
  PROVE  Repacked(i, s, t, a, b) =
           Units(a, b, i.src_stride_w, i.dst_stride_w, s, t, i.shape_w, i.shape_n * i.shape_h)
<1> DEFINE g(u, k, y) == <<b + t * u + k + y * i.dst_stride_w, bytes(a + s * u + y * i.src_stride_w, s)>>
<1>1. Repacked(i, s, t, a, b) =
        {g(x, k, y) : x \in upTo(i.shape_w), y \in upTo(i.shape_n * i.shape_h), k \in upTo(t)}
  BY DEF Repacked
<1>2. Units(a, b, i.src_stride_w, i.dst_stride_w, s, t, i.shape_w, i.shape_n * i.shape_h) =
        {g(u, k, y) : u \in upTo(i.shape_w), k \in upTo(t), y \in upTo(i.shape_n * i.shape_h)}
  BY DEF Units
<1> HIDE DEF g
<1> QED
  BY <1>1, <1>2

LEMMA LumaLeads ==
  ASSUME NEW binds, NEW p, NEW q, NEW n, n \in Nat, p.at = SrcAddr1, q.at = DstAddr0,
         binds = <<Bind(SrcAddr1, "in", 0), Bind(SrcAddr0, "in", 0), Bind(DstAddr0, "out", 0)>>
  PROVE  /\ Leads(binds, n, 0, p, Base("in", n)) /\ Leads(binds, n, 0, q, Base("out", n))
         /\ Base("in", n) \in Int /\ Base("out", n) \in Int
<1>1. /\ DOMAIN binds = {1, 2, 3} /\ binds[1].at = 92 /\ binds[2].at = 28 /\ binds[3].at = 32
      /\ binds[1].obj = "in" /\ binds[2].obj = "in" /\ binds[3].obj = "out"
      /\ binds[1].off = 0 /\ binds[2].off = 0 /\ binds[3].off = 0
      /\ p.at = 92 /\ q.at = 32
  BY DEF Bind, SrcAddr0, SrcAddr1, DstAddr0
<1>2. Base("in", n) \in Int /\ Base("out", n) \in Int
  BY ObjectAssumption DEF Base
<1>3. Base("in", n) + 0 = Base("in", n) /\ Base("out", n) + 0 = Base("out", n)
  BY <1>2
<1>4. Leads(binds, n, 0, p, Base("in", n)) /\ Leads(binds, n, 0, q, Base("out", n))
  BY <1>1, <1>3 DEF Leads
<1> QED
  BY <1>2, <1>4

LEMMA RepackDelivers ==
  ASSUME NEW ver, NEW i, NEW n, NEW type, NEW s, NEW t,
         i.info_type = "NN", n \in Nat, s \in Nat \ {0}, t \in Nat \ {0}, s # t, FitLines(i, s, t),
         fillDesc(ver, i) = Filled(<<nnRepack(i, type, s, t)>>, InOut(0)),
         Requested(i, n) = Repacked(i, s, t, Base("in", n), Base("out", n)),
         Request(Requested(i, n))
  PROVE  Delivers(RunOf(ver, i, n), Requested(i, n))
<1> PICK w, lines, from, to : /\ w = i.shape_w /\ lines = i.shape_n * i.shape_h
                              /\ from = i.src_stride_w /\ to = i.dst_stride_w
  OBVIOUS
<1>1. /\ w \in Nat /\ Fits(0, s * w) /\ Fits(0, t * w) /\ Fits(0, lines) /\ Fits(0, 1)
      /\ from \in Int /\ to \in Int /\ 0 \in Int /\ SrcAddr0 \in Int /\ DstAddr0 \in Int
  BY DEF FitLines, SrcAddr0, DstAddr0
<1> PICK p, q : /\ p = Plane(SrcAddr0, 0, <<s * w, lines, 1>>, <<from, 0>>)
                /\ q = Plane(DstAddr0, 0, <<t * w, lines, 1>>, <<to, 0>>)
  OBVIOUS
<1>2. Held3(p, SrcAddr0, 0, wide(s, w), lines, 1, from, 0)
  BY <1>1, PlaneHolds DEF wide
<1>3. Held3(q, DstAddr0, 0, wide(t, w), lines, 1, to, 0)
  BY <1>1, PlaneHolds DEF wide
<1> PICK d : d = nnRepack(i, type, s, t)
  OBVIOUS
<1>4. d = encoded(type, s, t, p, q)
  BY DEF nnRepack, encoded
<1>5. OneToOne(d, p, q) /\ d.su = s /\ d.du = t
  BY <1>2, <1>3, <1>4, EncodedOne DEF Held3
<1>6. fillDesc(ver, i).descs = <<d>> /\ Told(ver, i) = InOut(0)
  BY DEF Filled, Told
<1>7. /\ Leads(Told(ver, i), n, 0, p, Base("in", n)) /\ Leads(Told(ver, i), n, 0, q, Base("out", n))
      /\ Base("in", n) \in Int /\ Base("out", n) \in Int
  BY <1>2, <1>3, <1>6, LeadsInOut DEF Held3
<1>8. Requested(i, n) = Units(Base("in", n), Base("out", n), from, to, s, t, w, lines)
  BY RepackedUnits
<1> QED
  <2>1. /\ n \in Nat /\ s \in Nat \ {0} /\ t \in Nat \ {0} /\ s # t /\ Request(Requested(i, n))
    OBVIOUS
  <2> QED
    BY ONLY <1>1, <1>2, <1>3, <1>5, <1>6, <1>7, <1>8, <2>1, RepackRun

LEMMA LumaDelivers ==
  ASSUME NEW ver, NEW i, NEW n,
         i.info_type = "NN", n \in Nat, FitLines(i, 1, 4),
         fillDesc(ver, i) = Filled(<<nnLuma(i)>>,
                                   <<Bind(SrcAddr1, "in", 0), Bind(SrcAddr0, "in", 0),
                                     Bind(DstAddr0, "out", 0)>>),
         Requested(i, n) = Repacked(i, 1, 4, Base("in", n), Base("out", n)),
         Request(Requested(i, n))
  PROVE  Delivers(RunOf(ver, i, n), Requested(i, n))
<1> PICK w, lines, from, to : /\ w = i.shape_w /\ lines = i.shape_n * i.shape_h
                              /\ from = i.src_stride_w /\ to = i.dst_stride_w
  OBVIOUS
<1>1. /\ w \in Nat /\ Fits(0, 1 * w) /\ Fits(0, 4 * w) /\ Fits(0, lines) /\ Fits(0, 1)
      /\ from \in Int /\ to \in Int /\ 0 \in Int /\ SrcAddr1 \in Int /\ DstAddr0 \in Int
  BY DEF FitLines, SrcAddr1, DstAddr0
<1> PICK p, q : /\ p = Plane(SrcAddr1, 0, <<w, lines, 1>>, <<from, 0>>)
                /\ q = Plane(DstAddr0, 0, <<4 * w, lines, 1>>, <<to, 0>>)
  OBVIOUS
<1>9. 1 * w = w
  BY <1>1
<1>2. Held3(p, SrcAddr1, 0, wide(1, w), lines, 1, from, 0)
  BY <1>1, <1>9, PlaneHolds DEF wide
<1>3. Held3(q, DstAddr0, 0, wide(4, w), lines, 1, to, 0)
  BY <1>1, PlaneHolds DEF wide
<1> PICK d : d = nnLuma(i)
  OBVIOUS
<1>5. OneToOne(d, p, q) /\ d.su = 1 /\ d.du = 4
  <2>1. Operand(p) /\ Operand(q)
    BY <1>2, <1>3 DEF Held3
  <2> QED
    BY <2>1 DEF nnLuma, OneToOne, IsDesc, Desc
<1> PICK binds : binds = <<Bind(SrcAddr1, "in", 0), Bind(SrcAddr0, "in", 0), Bind(DstAddr0, "out", 0)>>
  OBVIOUS
<1>6. fillDesc(ver, i).descs = <<d>> /\ Told(ver, i) = binds
  BY DEF Filled, Told
<1>7. /\ Leads(Told(ver, i), n, 0, p, Base("in", n)) /\ Leads(Told(ver, i), n, 0, q, Base("out", n))
      /\ Base("in", n) \in Int /\ Base("out", n) \in Int
  BY <1>2, <1>3, <1>6, LumaLeads DEF Held3
<1>8. Requested(i, n) = Units(Base("in", n), Base("out", n), from, to, 1, 4, w, lines)
  BY RepackedUnits
<1> QED
  <2>1. n \in Nat /\ 1 \in Nat \ {0} /\ 4 \in Nat \ {0} /\ 1 # 4 /\ Request(Requested(i, n))
    OBVIOUS
  <2> QED
    BY ONLY <1>1, <1>2, <1>3, <1>5, <1>6, <1>7, <1>8, <2>1, RepackRun

LEMMA NNCopyDelivers ==
  ASSUME NEW ver, NEW i, NEW n,
         i.info_type = "NN", n \in Nat, PlainTensor(i), checkDescrpType(i) = 0,
         fillDesc(ver, i) = Filled(<<nnCopy(i)>>, InOut(0)),
         Requested(i, n) = CopyTensor(i, Base("in", n), Base("out", n)),
         Request(Requested(i, n))
  PROVE  Delivers(RunOf(ver, i, n), Requested(i, n))
<1> PICK s, t, c, w, lines : /\ s = i.src_type_size /\ t = i.dst_type_size /\ c = i.shape_c
                             /\ w = i.shape_w /\ lines = i.shape_n * i.shape_h
  OBVIOUS
<1> PICK fc, fw, tc, tw : /\ fc = i.src_stride_c /\ fw = i.src_stride_w
                          /\ tc = i.dst_stride_c /\ tw = i.dst_stride_w
  OBVIOUS
<1>1. /\ s \in Nat \ {0} /\ t \in Nat \ {0} /\ (s = t \/ converts(i)) /\ c \in Nat
      /\ Fits(0, c * s) /\ Fits(0, c * t) /\ Fits(0, w) /\ Fits(0, lines)
      /\ fc \in Int /\ fw \in Int /\ tc \in Int /\ tw \in Int
      /\ SrcAddr0 \in Int /\ DstAddr0 \in Int /\ 0 \in Int
  BY DEF PlainTensor, SrcAddr0, DstAddr0
<1>2. fc * s \in Int /\ fw * s \in Int /\ tc * t \in Int /\ tw * t \in Int
  BY <1>1
<1> PICK p, q : /\ p = Plane(SrcAddr0, 0, <<c * s, w, lines>>, <<fc * s, fw * s>>)
                /\ q = Plane(DstAddr0, 0, <<c * t, w, lines>>, <<tc * t, tw * t>>)
  OBVIOUS
<1>3. Held3(p, SrcAddr0, 0, c * s, w, lines, fc * s, fw * s)
  BY <1>1, <1>2, PlaneHolds
<1>4. Held3(q, DstAddr0, 0, c * t, w, lines, tc * t, tw * t)
  BY <1>1, <1>2, PlaneHolds
<1> PICK d : d = nnCopy(i)
  OBVIOUS
<1> PICK su, du : su = (IF converts(i) THEN s ELSE 1) /\ du = (IF converts(i) THEN t ELSE 1)
  OBVIOUS
<1>5. d = encoded(0, su, du, p, q)
  BY DEF nnCopy, encoded
<1>6. OneToOne(d, p, q) /\ d.su = su /\ d.du = du
  BY <1>3, <1>4, <1>5, EncodedOne DEF Held3
<1> PICK a, b : a = Base("in", n) /\ b = Base("out", n)
  OBVIOUS
<1>7. fillDesc(ver, i).descs = <<d>> /\ Told(ver, i) = InOut(0)
  BY DEF Filled, Told
<1>8. Leads(Told(ver, i), n, 0, p, a) /\ Leads(Told(ver, i), n, 0, q, b) /\ a \in Int /\ b \in Int
  BY <1>3, <1>4, <1>7, LeadsInOut DEF Held3
<1>9. PICK e : /\ RunOf(ver, i, n) = <<e>> /\ Single(e, moved(p, a), moved(q, b))
               /\ e.su = d.su /\ e.du = d.du
  BY ONLY <1>6, <1>7, <1>8, SingleRun
<1> PICK r, o : r = moved(p, a) /\ o = moved(q, b)
  OBVIOUS
<1>10. /\ r.addr = a /\ r.xs = p.xs /\ r.ys = p.ys /\ r.zs = p.zs /\ r.xp = p.xp /\ r.yp = p.yp
       /\ o.addr = b /\ o.xs = q.xs /\ o.ys = q.ys /\ o.zs = q.zs /\ o.xp = q.xp /\ o.yp = q.yp
  BY <1>6, <1>8, MovedOperand DEF OneToOne
<1>11. /\ r.xs = wide(s, c) /\ o.xs = wide(t, c) /\ r.ys = w /\ o.ys = w /\ r.zs = lines /\ o.zs = lines
       /\ r.xp = fc * s /\ r.yp = fw * s /\ o.xp = tc * t /\ o.yp = tw * t
  BY <1>1, <1>3, <1>4, <1>10 DEF Held3, wide
<1>12. (s = t => e.su = e.du) /\ (s # t => e.su = s /\ e.du = t)
  BY <1>1, <1>6, <1>9
<1>13. Delivers(<<e>>, CopyTensor(i, a, b))
  <2>1. /\ Single(e, r, o) /\ s \in Nat \ {0} /\ t \in Nat \ {0}
        /\ s = i.src_type_size /\ t = i.dst_type_size
    BY <1>1, <1>9
  <2>2. /\ i.shape_c \in Nat /\ r.xs = wide(s, i.shape_c) /\ o.xs = wide(t, i.shape_c)
        /\ r.ys = i.shape_w /\ o.ys = i.shape_w
        /\ r.zs = i.shape_n * i.shape_h /\ o.zs = i.shape_n * i.shape_h
        /\ i.src_stride_c \in Int /\ i.src_stride_w \in Int
        /\ i.dst_stride_c \in Int /\ i.dst_stride_w \in Int
    BY <1>1, <1>11
  <2>3. /\ r.xp = i.src_stride_c * s /\ r.yp = i.src_stride_w * s
        /\ o.xp = i.dst_stride_c * t /\ o.yp = i.dst_stride_w * t
        /\ r.addr = a /\ o.addr = b /\ Request(CopyTensor(i, a, b))
    BY <1>10, <1>11
  <2>4. TensorOperands(e, r, o, i, s, t, a, b)
    <3>1. s = t => e.su = e.du
      BY <1>12
    <3>2. s # t => e.su = s /\ e.du = t
      BY <1>12
    <3> QED
      BY ONLY <3>1, <3>2, <2>1, <2>2, <2>3, Zenon DEF TensorOperands
  <2> QED
    BY <2>3, <2>4, TensorCopied
<1> QED
  BY <1>9, <1>13

LEMMA TensorDelivers ==
  ASSUME NEW ver, NEW i, NEW n, i.info_type = "NN", n \in Nat, PlainTensor(i), Request(Requested(i, n))
  PROVE  Delivers(RunOf(ver, i, n), Requested(i, n))
<1>1. i.inFormat \notin FastFormats
  BY DEF PlainTensor
<1>2. checkDescrpType(i) \in {0, 1, 5, 15}
  BY <1>1, TensorTypes
<1>3. fillDesc(ver, i) = fillDescNN(i) /\ Requested(i, n) = TensorRequest(i, Base("in", n), Base("out", n))
  BY DEF fillDesc, Requested
<1>4. CASE checkDescrpType(i) = 0
  <2>1. /\ fillDescNN(i) = Filled(<<nnCopy(i)>>, InOut(0))
        /\ TensorRequest(i, Base("in", n), Base("out", n)) = CopyTensor(i, Base("in", n), Base("out", n))
    BY <1>1, <1>4 DEF FastFormats, fillDescNN, TensorRequest
  <2> QED
    BY <1>3, <1>4, <2>1, NNCopyDelivers
<1>5. CASE checkDescrpType(i) = 1
  <2>1. /\ fillDescNN(i) = Filled(<<nnRepack(i, 1, 3, 4)>>, InOut(0))
        /\ TensorRequest(i, Base("in", n), Base("out", n)) = Repacked(i, 3, 4, Base("in", n), Base("out", n))
        /\ FitLines(i, 3, 4)
    BY <1>1, <1>5 DEF FastFormats, fillDescNN, TensorRequest, PlainTensor
  <2>2. 3 \in Nat \ {0} /\ 4 \in Nat \ {0} /\ 3 # 4
    OBVIOUS
  <2> QED
    BY <1>3, <2>1, <2>2, RepackDelivers
<1>6. CASE checkDescrpType(i) = 5
  <2>1. /\ fillDescNN(i) = Filled(<<nnLuma(i)>>,
                                  <<Bind(SrcAddr1, "in", 0), Bind(SrcAddr0, "in", 0),
                                    Bind(DstAddr0, "out", 0)>>)
        /\ TensorRequest(i, Base("in", n), Base("out", n)) = Repacked(i, 1, 4, Base("in", n), Base("out", n))
        /\ FitLines(i, 1, 4)
    BY <1>1, <1>6 DEF FastFormats, fillDescNN, TensorRequest, PlainTensor
  <2> QED
    BY <1>3, <2>1, LumaDelivers
<1>7. CASE checkDescrpType(i) = 15
  <2>1. /\ fillDescNN(i) = Filled(<<nnRepack(i, 15, 4, 3)>>, InOut(0))
        /\ TensorRequest(i, Base("in", n), Base("out", n)) = Repacked(i, 4, 3, Base("in", n), Base("out", n))
        /\ FitLines(i, 4, 3)
    BY <1>1, <1>7 DEF FastFormats, fillDescNN, TensorRequest, PlainTensor
  <2>2. 3 \in Nat \ {0} /\ 4 \in Nat \ {0} /\ 3 # 4
    OBVIOUS
  <2> QED
    BY <1>3, <2>1, <2>2, RepackDelivers
<1> QED
  BY <1>2, <1>4, <1>5, <1>6, <1>7

\* Data is a run of bytes.
IsRun(p, extent) ==
  /\ Operand(p) /\ p.zs = 1 /\ p.xp = p.xs /\ planeSize(p) = extent

LEMMA Contiguous ==
  ASSUME NEW p, IsPlane(p), p.zs = 1, p.xp = p.xs, NEW n \in 0 .. planeSize(p) - 1
  PROVE  ByteAt(p, n) = p.addr + n
<1>1. PICK x \in 0 .. p.xs - 1, y \in 0 .. p.ys - 1, z \in 0 .. p.zs - 1 :
             n = cell(p.xs, p.ys, x, y, z)
  BY SpotsAll
<1>2. ByteAt(p, n) = spot(p, x, y, z)
  BY <1>1, SpotOf
<1>3. z = 0 /\ p.xs \in Nat /\ p.ys \in Nat /\ p.addr \in Int /\ p.yp \in Int
  BY DEF IsPlane
<1>4. z * p.yp = 0 /\ p.ys * z = 0 /\ y + 0 = y
  BY <1>3
<1>5. n = x + p.xs * y
  BY <1>1, <1>4 DEF cell
<1>6. ByteAt(p, n) = p.addr + x + y * p.xs
  <2>1. y * p.xs \in Int
    BY <1>3
  <2> QED
    BY <1>2, <1>3, <1>4, <2>1 DEF spot
<1>7. p.xs * y = y * p.xs /\ y * p.xs \in Int
  BY <1>3
<1> QED
  BY <1>3, <1>5, <1>6, <1>7

LEMMA RunMoved ==
  ASSUME NEW p, NEW extent, NEW a, IsRun(p, extent), a \in Int
  PROVE  /\ IsPlane(moved(p, a)) /\ planeSize(moved(p, a)) = extent
         /\ \A n \in 0 .. extent - 1 : ByteAt(moved(p, a), n) = a + n
<1> PICK r : r = moved(p, a)
  OBVIOUS
<1>1. /\ IsPlane(r) /\ r.addr = a /\ r.zs = 1 /\ r.xp = r.xs /\ planeSize(r) = extent
  BY MovedOperand DEF IsRun
<1> QED
  BY <1>1, Contiguous

\* Data that is copied or filled, on 3.0 or 2.0.
PlainData(ver, i) ==
  /\ i.copy_size \in Nat /\ i.inBuf_addr \in Int /\ i.outBuf_addr \in Int
  /\ i.bind => ver = 30 /\ i.inBuf_addr = 0 /\ i.outBuf_addr = 0
  /\ IF ver = 20 THEN i.copy_size \in 1 .. FieldSize * LineSize /\ ~movesNothing(i)
     ELSE i.copy_size \notin {FieldSize, FieldSize * LineSize}
  /\ ~movesNothing(i) => ~copyRefused(i.copy_size, FieldSize * LineSize)

LEMMA ShapeFits ==
  ASSUME NEW ver \in {20, 30}, NEW i, PlainData(ver, i), ~movesNothing(i),
         NEW type, type = IF ver = 20 THEN 20 ELSE 0,
         NEW s, s = copyShape(i.copy_size)
  PROVE  /\ \A k \in 1 .. 3 : Fits(type, s[k])
         /\ s[1] \in Nat /\ s[2] \in Nat /\ s[3] = 1 /\ s[1] * s[2] = i.copy_size
<1> PICK extent \in Nat : extent = i.copy_size
  BY DEF PlainData
<1>1. /\ FieldSize \in Nat /\ FieldSize > 1 /\ LineSize \in 1 .. FieldSize - 1
  BY SizesAssumption
<1>2. Fits(type, 1)
  BY <1>1 DEF Fits
<1>3. CASE extent > FieldSize
  <2>1. s = <<LineSize, extent \div LineSize, 1>>
    BY <1>3 DEF copyShape
  <2>2. extent <= FieldSize * LineSize /\ extent % LineSize = 0
    <3>1. FieldSize * LineSize \in Int
      BY <1>1
    <3> QED
      BY <1>1, <1>3, <3>1 DEF PlainData, copyRefused
  <2>3. extent \div LineSize \in Nat /\ extent = LineSize * (extent \div LineSize)
    <3>1. extent = LineSize * (extent \div LineSize) + (extent % LineSize) /\ extent \div LineSize \in Nat
      <4>1. LineSize \in Nat \ {0} /\ extent \in Nat
        BY <1>1
      <4> QED
        BY ONLY <4>1, Remainder
    <3> QED
      BY <1>1, <2>2, <3>1
  <2> PICK h \in Nat : h = extent \div LineSize
    BY <2>3
  <2>4. extent = LineSize * h
    BY <2>3
  <2>5. h <= FieldSize
    <3> SUFFICES ASSUME h > FieldSize PROVE FALSE
      BY <1>1
    <3>1. LineSize * h > LineSize * FieldSize
      BY <1>1
    <3>2. LineSize * FieldSize = FieldSize * LineSize /\ FieldSize * LineSize \in Int
      BY <1>1
    <3> QED
      BY <2>2, <2>4, <3>1, <3>2
  <2>6. h > 0
    BY <1>1, <1>3, <2>4
  <2>7. type # 20 => h # FieldSize
    <3> SUFFICES ASSUME type # 20, h = FieldSize PROVE FALSE
      OBVIOUS
    <3>1. extent = FieldSize * LineSize
      BY <1>1, <2>4
    <3> QED
      BY <3>1 DEF PlainData
  <2>8. Fits(type, h) /\ Fits(type, LineSize)
    BY <1>1, <2>5, <2>6, <2>7 DEF Fits
  <2>9. s[1] = LineSize /\ s[2] = h /\ s[3] = 1
    BY <2>1
  <2> QED
    BY <1>1, <1>2, <2>4, <2>8, <2>9
<1>4. CASE ~(extent > FieldSize)
  <2>1. s = <<extent, 1, 1>>
    BY <1>4 DEF copyShape
  <2>2. Fits(type, extent)
    <3>1. extent <= FieldSize
      BY <1>1, <1>4
    <3>2. ver = 20 => extent > 0
      BY DEF PlainData
    <3>3. ver # 20 => extent # FieldSize
      BY DEF PlainData
    <3> QED
      BY <1>1, <3>1, <3>2, <3>3 DEF Fits
  <2>3. s[1] = extent /\ s[2] = 1 /\ s[3] = 1 /\ extent * 1 = extent
    BY <2>1
  <2> QED
    BY <1>2, <2>2, <2>3
<1> QED
  BY <1>3, <1>4

DataOperands(ver, i, d, p, q) ==
  /\ fillDesc(ver, i).descs = <<d>> /\ IsDesc(d)
  /\ IsRun(p, i.copy_size) /\ IsRun(q, i.copy_size)
  /\ p.addr = i.inBuf_addr /\ q.addr = i.outBuf_addr
  /\ IF i.outFormat = "FILL" THEN Fills(d, q) ELSE OneToOne(d, p, q) /\ d.su = d.du
  /\ ver = 30 => p.at = SrcAddr0 /\ q.at = DstAddr0 /\ fillDesc(ver, i).binds = InOut(0)

LEMMA DataDescs ==
  ASSUME NEW ver \in {20, 30}, NEW i, i.info_type = "DATA", PlainData(ver, i), ~movesNothing(i)
  PROVE  \E d, p, q : DataOperands(ver, i, d, p, q)
<1> PICK type : type = IF ver = 20 THEN 20 ELSE 0
  OBVIOUS
<1> PICK s : s = copyShape(i.copy_size)
  OBVIOUS
<1>1. /\ \A k \in 1 .. 3 : Fits(type, s[k])
      /\ s[1] \in Nat /\ s[2] \in Nat /\ s[3] = 1 /\ s[1] * s[2] = i.copy_size
  BY ShapeFits
<1> PICK pitch : pitch = <<s[1], s[2]>>
  OBVIOUS
<1>2. pitch[1] \in Int /\ pitch[2] \in Int /\ pitch[1] = s[1]
  BY <1>1
<1> PICK sf, df : sf = srcField(type) /\ df = dstField(type)
  OBVIOUS
<1>3. /\ sf \in Int /\ df \in Int /\ i.inBuf_addr \in Int /\ i.outBuf_addr \in Int
      /\ ver = 30 => sf = SrcAddr0 /\ df = DstAddr0
  BY DEF srcField, dstField, PlainData, SrcAddr0, DstAddr0
<1> PICK p, q : /\ p = TypedPlane(type, sf, i.inBuf_addr, s, pitch)
                /\ q = TypedPlane(type, df, i.outBuf_addr, s, pitch)
  OBVIOUS
<1>4. /\ Operand(p) /\ p.at = sf /\ p.addr = i.inBuf_addr
      /\ p.xs = s[1] /\ p.ys = s[2] /\ p.zs = s[3] /\ p.xp = pitch[1]
  BY <1>1, <1>2, <1>3, FieldHolds
<1>5. /\ Operand(q) /\ q.at = df /\ q.addr = i.outBuf_addr
      /\ q.xs = s[1] /\ q.ys = s[2] /\ q.zs = s[3] /\ q.xp = pitch[1]
  BY <1>1, <1>2, <1>3, FieldHolds
<1>6. \A h, w \in Nat : h * w * 1 = h * w
  OBVIOUS
<1>7. IsRun(p, i.copy_size) /\ IsRun(q, i.copy_size)
  BY <1>1, <1>2, <1>4, <1>5, <1>6 DEF IsRun, planeSize
<1> PICK d : d = dataDesc(i, type)
  OBVIOUS
<1> PICK f : f = (i.outFormat = "FILL")
  OBVIOUS
<1>8. d = [Desc(type) EXCEPT !.fill = f, !.src = <<p>>, !.dst = <<q>>]
  BY DEF dataDesc
<1>9. IsDesc(d) /\ IF i.outFormat = "FILL" THEN Fills(d, q) ELSE OneToOne(d, p, q) /\ d.su = d.du
  <2>1. CASE i.outFormat = "FILL"
    <3>1. f = TRUE
      BY <2>1
    <3>2. d = [Desc(type) EXCEPT !.fill = TRUE, !.src = <<p>>, !.dst = <<q>>]
      BY <1>8, <3>1
    <3>3. IsDesc(d) /\ d.dst = <<q>> /\ d.wu = 1 /\ d.fill = TRUE /\ d.wtmp = FALSE
      BY ONLY <3>2 DEF Desc, IsDesc
    <3> QED
      BY <1>5, <2>1, <3>3 DEF Fills, Operand
  <2>2. CASE i.outFormat # "FILL"
    <3>1. f = FALSE
      BY <2>2
    <3>2. d = [Desc(type) EXCEPT !.fill = FALSE, !.src = <<p>>, !.dst = <<q>>]
      BY <1>8, <3>1
    <3>3. IsDesc(d) /\ OneToOne(d, p, q) /\ d.su = d.du
      <4>1. IsDesc(d) /\ d.fill = FALSE
        BY ONLY <3>2 DEF Desc, IsDesc
      <4>2. d.src = <<p>> /\ d.dst = <<q>> /\ d.ru = 1 /\ d.wu = 1 /\ d.su = 1 /\ d.du = 1
        BY ONLY <3>2 DEF Desc
      <4>3. d.up = FALSE /\ d.rtmp = FALSE /\ d.wtmp = FALSE
        BY ONLY <3>2 DEF Desc
      <4> QED
        BY <1>4, <1>5, <4>1, <4>2, <4>3 DEF OneToOne
    <3> QED
      BY <2>2, <3>3
  <2> QED
    BY <2>1, <2>2
<1>10. /\ fillDesc(ver, i).descs = <<d>>
       /\ ver = 30 => fillDesc(ver, i).binds = InOut(0)
  <2>1. ~copyRefused(i.copy_size, FieldSize * LineSize)
    BY DEF PlainData
  <2>2. CASE ver = 30
    <3>1. fillDesc(ver, i) = fillDescData(i)
      BY <2>2 DEF fillDesc
    <3>2. fillDescData(i) = Filled(<<d>>, InOut(0))
      BY <2>1, <2>2 DEF fillDescData, movesNothing
    <3> QED
      BY <3>1, <3>2 DEF Filled
  <2>3. CASE ver = 20
    <3>1. fillDesc(ver, i) = fillDescDataV20(i)
      BY <2>3 DEF fillDesc
    <3>2. ~copyRefused(i.copy_size, 2 * FieldSize * LineSize)
      <4>1. FieldSize \in Nat /\ LineSize \in Nat
        BY SizesAssumption
      <4> PICK m \in Nat : m = FieldSize * LineSize
        BY <4>1
      <4>2. 2 * FieldSize * LineSize = 2 * m
        BY <4>1
      <4>3. i.copy_size \in Nat
        BY DEF PlainData
      <4> QED
        BY <2>1, <4>2, <4>3 DEF copyRefused
    <3>3. fillDescDataV20(i) = Filled(<<d>>, <<>>)
      BY <2>3, <3>2 DEF fillDescDataV20
    <3> QED
      BY <2>3, <3>1, <3>3 DEF Filled
  <2> QED
    BY <2>2, <2>3
<1>11. DataOperands(ver, i, d, p, q)
  BY <1>3, <1>4, <1>5, <1>7, <1>9, <1>10 DEF DataOperands
<1> QED
  BY <1>11

\* A descriptor without operands writes nothing.
LEMMA NothingDelivers ==
  ASSUME NEW d, d.dst = <<>>, d.wtmp = FALSE
  PROVE  Delivers(<<d>>, {})
<1>1. ASSUME NEW m PROVE Effect(m, d) = {}
  <2> PICK writes : writes = Stream(d.dst, d.wu)
    OBVIOUS
  <2>1. DOMAIN writes = {}
    <3>1. Len(d.dst) = 0
      OBVIOUS
    <3> QED
      BY <3>1 DEF Stream
  <2> QED
    BY <2>1 DEF Effect
<1>2. Request({}) /\ ReadBy({}) = {}
  BY DEF Request, ReadBy
<1> QED
  BY <1>1, <1>2, OneDelivers

LEMMA DataDelivers ==
  ASSUME NEW ver \in {20, 30}, NEW i, i.info_type = "DATA", PlainData(ver, i),
         NEW n \in Nat, Request(Requested(i, n))
  PROVE  Delivers(RunOf(ver, i, n), Requested(i, n))
<1> PICK a, b : a = Origin(i, n, "in", i.inBuf_addr) /\ b = Origin(i, n, "out", i.outBuf_addr)
  OBVIOUS
<1> PICK R : R = Requested(i, n)
  OBVIOUS
<1>1. R = DataRequest(i, a, b)
  BY DEF Requested
<1>2. CASE movesNothing(i)
  <2>1. ver = 30 /\ R = {}
    BY <1>1, <1>2 DEF PlainData, DataRequest
  <2>2. fillDesc(ver, i).descs = <<Desc(2)>>
    BY <1>2, <2>1 DEF fillDesc, fillDescData, movesNothing, Filled
  <2> PICK e : e = AddressedDesc(Told(ver, i), n, 0, Desc(2))
    OBVIOUS
  <2>3. RunOf(ver, i, n) = <<e>>
    BY <2>2, OneRun
  <2>4. e.dst = <<>> /\ e.wtmp = FALSE
    <3>1. e.dst = [k \in DOMAIN <<>> |-> Addressed(Told(ver, i), n, 0, <<>>[k])] /\ e.wtmp = FALSE
      BY DEF AddressedDesc, Desc
    <3>2. DOMAIN <<>> = {}
      OBVIOUS
    <3> QED
      BY <3>1, <3>2
  <2> QED
    BY <2>1, <2>3, <2>4, NothingDelivers
<1>3. CASE ~movesNothing(i)
  <2>1. PICK d, p, q : DataOperands(ver, i, d, p, q)
    BY <1>3, DataDescs
  <2>2. /\ Leads(Told(ver, i), n, 0, p, a) /\ Leads(Told(ver, i), n, 0, q, b)
        /\ a \in Int /\ b \in Int
    <3>1. /\ i.inBuf_addr \in Int /\ i.outBuf_addr \in Int
          /\ i.bind => fillDesc(ver, i).binds = InOut(0) /\ i.inBuf_addr = 0 /\ i.outBuf_addr = 0
          /\ i.bind => p.at = SrcAddr0 /\ q.at = DstAddr0
          /\ p.addr = i.inBuf_addr /\ q.addr = i.outBuf_addr
      BY <2>1 DEF PlainData, DataOperands
    <3> QED
      BY <3>1, LeadsFromStart
  <2> PICK extent \in Nat : extent = i.copy_size
    BY DEF PlainData
  <2> PICK r, s : r = moved(p, a) /\ s = moved(q, b)
    OBVIOUS
  <2>3. /\ planeSize(r) = extent /\ planeSize(s) = extent
        /\ \A k \in 0 .. extent - 1 : ByteAt(r, k) = a + k /\ ByteAt(s, k) = b + k
    BY <2>1, <2>2, RunMoved DEF DataOperands
  <2>4. R = {<<b + k, IF i.outFormat = "FILL" THEN <<>> ELSE <<a + k>> >> : k \in 0 .. extent - 1}
    BY <1>1, <1>3 DEF DataRequest, upTo
  <2>5. CASE i.outFormat = "FILL"
    <3>1. R = {<<ByteAt(s, k), <<>> >> : k \in 0 .. planeSize(s) - 1}
      BY <2>3, <2>4, <2>5
    <3> PICK e : e = AddressedDesc(Told(ver, i), n, 0, d)
      OBVIOUS
    <3>2. RunOf(ver, i, n) = <<e>>
      BY <2>1, OneRun DEF DataOperands
    <3>3. Fills(e, s)
      <4>1. IsDesc(d) /\ Fills(d, q) /\ Operand(q)
        BY <2>1, <2>5 DEF DataOperands, IsRun
      <4> QED
        BY <2>2, <4>1, AddressedFill
    <3>4. Delivers(<<e>>, R)
      BY <3>1, <3>3, FillDelivers
    <3> QED
      BY <3>2, <3>4
  <2>6. CASE i.outFormat # "FILL"
    <3>1. R = {<<ByteAt(s, k), <<ByteAt(r, k)>> >> : k \in 0 .. planeSize(s) - 1}
      BY <2>3, <2>4, <2>6
    <3>2. fillDesc(ver, i).descs = <<d>> /\ OneToOne(d, p, q) /\ d.su = d.du
      BY <2>1, <2>6 DEF DataOperands
    <3>3. PICK e : /\ RunOf(ver, i, n) = <<e>> /\ Single(e, moved(p, a), moved(q, b))
                   /\ e.su = d.su /\ e.du = d.du
      BY ONLY <2>2, <3>2, SingleRun
    <3>4. Single(e, r, s) /\ e.su = e.du /\ planeSize(s) <= planeSize(r)
      BY <2>3, <3>2, <3>3
    <3>5. Delivers(<<e>>, R)
      BY <3>1, <3>4, CopyDelivers
    <3> QED
      BY <3>3, <3>5
  <2> QED
    BY <2>5, <2>6
<1> QED
  BY <1>2, <1>3

\* A slice of an object that fits the fields and is not larger than its source.
PlainSlice(i) ==
  /\ \A k \in 1 .. 3 : Fits(0, i.src_size[k]) /\ Fits(0, i.dst_size[k])
  /\ i.src_pitch[1] \in Int /\ i.src_pitch[2] \in Int
  /\ i.dst_pitch[1] \in Int /\ i.dst_pitch[2] \in Int
  /\ i.src_addr \in Int /\ i.dst_addr \in Int
  /\ i.dst_size[1] * i.dst_size[2] * i.dst_size[3] <= i.src_size[1] * i.src_size[2] * i.src_size[3]

\* The caller is told to put object obj at the address of operand p.
ReportedAt(binds, base, p, obj) ==
  /\ \E k \in DOMAIN binds : binds[k].at = base + p.at
  /\ \A k \in DOMAIN binds :
       binds[k].at = base + p.at => binds[k].obj = obj /\ binds[k].off = p.addr

\* An info without bindings has its addresses in its descriptors, one with
\* bindings has them reported relative to the object.
LEMMA LeadsTo ==
  ASSUME NEW i, NEW n, NEW base, NEW p, NEW obj, NEW binds, NEW told, NEW a,
         n \in Nat, p.addr \in Int, told = (IF i.bind THEN binds ELSE <<>>),
         ReportedAt(binds, base, p, obj), a = Origin(i, n, obj, p.addr)
  PROVE  Leads(told, n, base, p, a) /\ a \in Int
<1> USE DEF ReportedAt
<1>1. CASE i.bind
  <2>1. Base(obj, n) \in Int
    BY ObjectAssumption DEF Base
  <2>2. Origin(i, n, obj, p.addr) = Base(obj, n) + p.addr
    BY <1>1 DEF Origin
  <2>3. told = binds
    BY <1>1
  <2>4. /\ \E k \in DOMAIN told : told[k].at = base + p.at
        /\ \A k \in DOMAIN told :
             told[k].at = base + p.at => told[k].obj = obj /\ told[k].off = p.addr
    BY <1>1, <2>3
  <2> QED
    BY <2>1, <2>2, <2>4 DEF Leads
<1>2. CASE ~i.bind
  <2>1. told = <<>> /\ Origin(i, n, obj, p.addr) = p.addr
    BY <1>2 DEF Origin
  <2> QED
    BY <2>1, LeadsNowhere
<1> QED
  BY <1>1, <1>2

LEMMA SliceOperand ==
  ASSUME NEW p, NEW pos, NEW addr, NEW extent, NEW pitch, NEW a, pos \in Int, addr \in Int, a \in Int,
         \A k \in 1 .. 3 : Fits(0, extent[k]), pitch[1] \in Int, pitch[2] \in Int,
         p = Plane(pos, addr, extent, pitch)
  PROVE  /\ Operand(p) /\ p.at = pos /\ p.addr = addr
         /\ planeSize(moved(p, a)) = extent[1] * extent[2] * extent[3]
         /\ \A n : ByteAt(moved(p, a), n) =
              ByteAt([addr |-> a, xs |-> extent[1], ys |-> extent[2], zs |-> extent[3],
                      xp |-> pitch[1], yp |-> pitch[2]], n)
<1>1. p = TypedPlane(0, pos, addr, extent, pitch)
  BY DEF Plane
<1>2. /\ Operand(p) /\ p.at = pos /\ p.addr = addr
      /\ p.xs = extent[1] /\ p.ys = extent[2] /\ p.zs = extent[3]
      /\ p.xp = pitch[1] /\ p.yp = pitch[2]
  BY <1>1, FieldHolds
<1> PICK r : r = moved(p, a)
  OBVIOUS
<1>3. /\ r.addr = a /\ r.xs = extent[1] /\ r.ys = extent[2] /\ r.zs = extent[3]
      /\ r.xp = pitch[1] /\ r.yp = pitch[2]
  BY <1>2, MovedOperand
<1> PICK s : s = [addr |-> a, xs |-> extent[1], ys |-> extent[2], zs |-> extent[3],
                  xp |-> pitch[1], yp |-> pitch[2]]
  OBVIOUS
<1>4. \A n : ByteAt(r, n) = ByteAt(s, n)
  BY <1>3, Zenon DEF ByteAt
<1> QED
  BY <1>2, <1>3, <1>4 DEF planeSize

LEMMA SliceDelivers ==
  ASSUME NEW ver, NEW i, NEW n, i.info_type = "SLICE", n \in Nat, PlainSlice(i), Request(Requested(i, n))
  PROVE  Delivers(RunOf(ver, i, n), Requested(i, n))
<1> PICK a, b : a = Origin(i, n, "in", i.src_addr) /\ b = Origin(i, n, "out", i.dst_addr)
  OBVIOUS
<1> PICK p, q : /\ p = Plane(SrcAddr0, i.src_addr, i.src_size, i.src_pitch)
                /\ q = Plane(DstAddr0, i.dst_addr, i.dst_size, i.dst_pitch)
  OBVIOUS
<1> PICK binds : binds = <<Bind(SrcAddr0, "in", i.src_addr), Bind(DstAddr0, "out", i.dst_addr)>>
  OBVIOUS
<1> PICK d : d = [Desc(0) EXCEPT !.src = <<p>>, !.dst = <<q>>]
  OBVIOUS
<1>1. fillDesc(ver, i) = Filled(<<d>>, binds)
  BY DEF fillDesc, fillDescSlice
<1>2. fillDesc(ver, i).descs = <<d>> /\ Told(ver, i) = IF i.bind THEN binds ELSE <<>>
  BY <1>1 DEF Filled, Told
<1>3. /\ i.src_addr \in Int /\ i.dst_addr \in Int /\ SrcAddr0 \in Int /\ DstAddr0 \in Int
      /\ \A k \in 1 .. 3 : Fits(0, i.src_size[k]) /\ Fits(0, i.dst_size[k])
      /\ i.src_pitch[1] \in Int /\ i.src_pitch[2] \in Int
      /\ i.dst_pitch[1] \in Int /\ i.dst_pitch[2] \in Int
  BY DEF PlainSlice, SrcAddr0, DstAddr0
<1>4. a \in Int /\ b \in Int
  BY <1>3, ObjectAssumption DEF Origin, Base
<1>5. /\ Operand(p) /\ p.at = SrcAddr0 /\ p.addr = i.src_addr
      /\ planeSize(moved(p, a)) = i.src_size[1] * i.src_size[2] * i.src_size[3]
      /\ \A k : ByteAt(moved(p, a), k) =
           ByteAt([addr |-> a, xs |-> i.src_size[1], ys |-> i.src_size[2], zs |-> i.src_size[3],
                   xp |-> i.src_pitch[1], yp |-> i.src_pitch[2]], k)
  BY <1>3, <1>4, SliceOperand
<1>6. /\ Operand(q) /\ q.at = DstAddr0 /\ q.addr = i.dst_addr
      /\ planeSize(moved(q, b)) = i.dst_size[1] * i.dst_size[2] * i.dst_size[3]
      /\ \A k : ByteAt(moved(q, b), k) =
           ByteAt([addr |-> b, xs |-> i.dst_size[1], ys |-> i.dst_size[2], zs |-> i.dst_size[3],
                   xp |-> i.dst_pitch[1], yp |-> i.dst_pitch[2]], k)
  BY <1>3, <1>4, SliceOperand
<1>7. OneToOne(d, p, q) /\ d.su = 1 /\ d.du = 1
  BY <1>5, <1>6 DEF Desc, OneToOne, IsDesc
<1>8. Leads(Told(ver, i), n, 0, p, a) /\ Leads(Told(ver, i), n, 0, q, b)
  <2>1. /\ DOMAIN binds = {1, 2} /\ binds[1].at = 28 /\ binds[2].at = 32
        /\ binds[1].obj = "in" /\ binds[2].obj = "out"
        /\ binds[1].off = p.addr /\ binds[2].off = q.addr /\ 0 + p.at = 28 /\ 0 + q.at = 32
    BY <1>5, <1>6 DEF Bind, SrcAddr0, DstAddr0
  <2>2. ReportedAt(binds, 0, p, "in") /\ ReportedAt(binds, 0, q, "out")
    BY <2>1 DEF ReportedAt
  <2>3. a = Origin(i, n, "in", p.addr) /\ b = Origin(i, n, "out", q.addr)
        /\ p.addr \in Int /\ q.addr \in Int /\ n \in Nat
    BY <1>3, <1>5, <1>6
  <2> PICK told : told = IF i.bind THEN binds ELSE <<>>
    OBVIOUS
  <2>4. Leads(told, n, 0, p, a) /\ Leads(told, n, 0, q, b)
    BY <2>2, <2>3, LeadsTo
  <2> QED
    BY <1>2, <2>4
<1>9. PICK e : /\ RunOf(ver, i, n) = <<e>> /\ Single(e, moved(p, a), moved(q, b))
               /\ e.su = d.su /\ e.du = d.du
  <2>1. fillDesc(ver, i).descs = <<d>>
    BY <1>2
  <2> QED
    BY ONLY <1>4, <1>7, <1>8, <2>1, SingleRun
<1> PICK r, s : r = moved(p, a) /\ s = moved(q, b)
  OBVIOUS
<1>10. Requested(i, n) = {<<ByteAt(s, k), <<ByteAt(r, k)>> >> : k \in 0 .. planeSize(s) - 1}
  <2> PICK R : R = Requested(i, n)
    OBVIOUS
  <2>1. R = SliceRequest(i, a, b)
    BY DEF Requested
  <2> PICK src, dst :
        /\ src = [addr |-> a, xs |-> i.src_size[1], ys |-> i.src_size[2], zs |-> i.src_size[3],
                  xp |-> i.src_pitch[1], yp |-> i.src_pitch[2]]
        /\ dst = [addr |-> b, xs |-> i.dst_size[1], ys |-> i.dst_size[2], zs |-> i.dst_size[3],
                  xp |-> i.dst_pitch[1], yp |-> i.dst_pitch[2]]
    OBVIOUS
  <2>2. R = {<<ByteAt(dst, k), <<ByteAt(src, k)>> >> : k \in upTo(planeSize(dst))}
    BY <2>1 DEF SliceRequest
  <2>3. planeSize(dst) = planeSize(s)
    BY <1>6 DEF planeSize
  <2>4. \A k : ByteAt(dst, k) = ByteAt(s, k) /\ ByteAt(src, k) = ByteAt(r, k)
    BY <1>5, <1>6
  <2>5. upTo(planeSize(s)) = 0 .. planeSize(s) - 1
    BY DEF upTo
  <2> DEFINE to(k) == ByteAt(dst, k)
             from(k) == ByteAt(src, k)
  <2>6. R = {<<to(k), <<from(k)>> >> : k \in 0 .. planeSize(s) - 1}
    BY <2>2, <2>3, <2>5
  <2>7. \A k : to(k) = ByteAt(s, k) /\ from(k) = ByteAt(r, k)
    BY <2>4
  <2> HIDE DEF to, from
  <2> QED
    BY ONLY <2>6, <2>7, R = Requested(i, n)
<1>11. planeSize(s) <= planeSize(r)
  BY <1>5, <1>6 DEF PlainSlice
<1>12. Single(e, r, s) /\ e.su = e.du
  BY <1>7, <1>9
<1>13. Delivers(<<e>>, Requested(i, n))
  BY <1>10, <1>11, <1>12, CopyDelivers
<1> QED
  BY <1>9, <1>13

Apart(R) == Request(R) /\ ReadBy(R) \cap WrittenBy(R) = {}

\* A second descriptor writes over part of what the first one wrote.
LEMMA OverDelivers ==
  ASSUME NEW d, NEW e, NEW Q, NEW P, NEW R,
         Delivers(<<d>>, Q), Delivers(<<e>>, P), P \subseteq R, ReadBy(Q) \subseteq ReadBy(R),
         WrittenBy(Q) \subseteq WrittenBy(R),
         \A r \in R : r \in P \/ (r \in Q /\ r[1] \notin WrittenBy(P)),
         Apart(R)
  PROVE  Delivers(<<d, e>>, R)
<1> SUFFICES ASSUME NEW m, \A k \in 1 .. Len(<<d, e>>) : m[k] = Executed(m[k - 1], <<d, e>>[k]),
                    DOMAIN m[0].mem \cap ReadBy(R) = {}
             PROVE  Arrived(R, m[0].mem, m[Len(<<d, e>>)].mem)
  BY DEF Delivers
<1>1. Len(<<d, e>>) = 2 /\ m[1] = Executed(m[0], d) /\ m[2] = Executed(m[1], e)
  <2>1. Len(<<d, e>>) = 2 /\ <<d, e>>[1] = d /\ <<d, e>>[2] = e
    OBVIOUS
  <2>2. 1 \in 1 .. 2 /\ 2 \in 1 .. 2 /\ 1 - 1 = 0 /\ 2 - 1 = 1
    OBVIOUS
  <2> QED
    BY <2>1, <2>2
<1>2. /\ WrittenBy(P) \subseteq WrittenBy(R) /\ ReadBy(P) \subseteq ReadBy(R)
  BY RequestPart
<1>3. Arrived(Q, m[0].mem, m[1].mem)
  <2> PICK f : f = [k \in 0 .. 1 |-> m[k]]
    OBVIOUS
  <2>1. Len(<<d>>) = 1 /\ <<d>>[1] = d /\ f[0] = m[0] /\ f[1] = m[1]
    OBVIOUS
  <2>2. \A k \in 1 .. Len(<<d>>) : f[k] = Executed(f[k - 1], <<d>>[k])
    BY <1>1, <2>1
  <2>3. DOMAIN f[0].mem \cap ReadBy(Q) = {}
    BY <2>1
  <2>4. Arrived(Q, f[0].mem, f[Len(<<d>>)].mem)
    BY <2>2, <2>3 DEF Delivers
  <2> QED
    BY <2>1, <2>4
<1>4. Arrived(P, m[1].mem, m[2].mem)
  <2> PICK f : f = [k \in 0 .. 1 |-> m[k + 1]]
    OBVIOUS
  <2>1. Len(<<e>>) = 1 /\ <<e>>[1] = e /\ f[0] = m[1] /\ f[1] = m[2]
    OBVIOUS
  <2>2. \A k \in 1 .. Len(<<e>>) : f[k] = Executed(f[k - 1], <<e>>[k])
    BY <1>1, <2>1
  <2>3. DOMAIN f[0].mem \cap ReadBy(P) = {}
    <3>1. DOMAIN m[1].mem = DOMAIN m[0].mem \cup WrittenBy(Q)
      BY <1>3 DEF Arrived
    <3> QED
      BY <1>2, <2>1, <3>1 DEF Apart
  <2>4. Arrived(P, f[0].mem, f[Len(<<e>>)].mem)
    BY <2>2, <2>3 DEF Delivers
  <2> QED
    BY <2>1, <2>4
<1>5. WrittenBy(R) = WrittenBy(Q) \cup WrittenBy(P)
  <2>1. WrittenBy(R) \subseteq WrittenBy(Q) \cup WrittenBy(P)
    BY DEF WrittenBy
  <2> QED
    BY <1>2, <2>1
<1> PICK m0, m1, m2 : m0 = m[0].mem /\ m1 = m[1].mem /\ m2 = m[2].mem
  OBVIOUS
<1>6. DOMAIN m2 = DOMAIN m0 \cup WrittenBy(R)
  BY <1>3, <1>4, <1>5 DEF Arrived
<1>7. \A x \in DOMAIN m0 \ WrittenBy(R) : m2[x] = m0[x]
  BY <1>3, <1>4, <1>5 DEF Arrived
<1>8. \A r \in R : r[1] \in DOMAIN m2 /\ m2[r[1]] = r[2]
  <2> TAKE r \in R
  <2>1. CASE r \in P
    BY <1>4, <2>1 DEF Arrived
  <2>2. CASE r \in Q /\ r[1] \notin WrittenBy(P)
    BY <1>3, <1>4, <2>2 DEF Arrived
  <2> QED
    BY <2>1, <2>2
<1> QED
  BY <1>1, <1>6, <1>7, <1>8 DEF Arrived

\* The bytes of an operand, told unit by unit.
spotsOf(q) == {ByteAt(q, n) : n \in 0 .. planeSize(q) - 1}
unitSpots(q, t, w) ==
  {spot(q, nth(t, u, k), y, z) :
     u \in upTo(w), k \in upTo(t), y \in upTo(q.ys), z \in upTo(q.zs)}

LEMMA SpotsInUnits ==
  ASSUME NEW q, NEW t, NEW w, IsPlane(q), t \in Nat \ {0}, w \in Nat, q.xs = wide(t, w)
  PROVE  spotsOf(q) = unitSpots(q, t, w)
<1> DEFINE A == {ByteAt(q, n) : n \in 0 .. planeSize(q) - 1}
           B == {spot(q, nth(t, u, k), y, z) :
                   u \in upTo(w), k \in upTo(t), y \in upTo(q.ys), z \in upTo(q.zs)}
<1>1. A \subseteq B
  <2> SUFFICES ASSUME NEW n \in 0 .. planeSize(q) - 1
               PROVE  ByteAt(q, n) \in B
    OBVIOUS
  <2>1. PICK x \in 0 .. q.xs - 1, y \in 0 .. q.ys - 1, z \in 0 .. q.zs - 1 :
               n = cell(q.xs, q.ys, x, y, z)
    BY SpotsAll
  <2>2. ByteAt(q, n) = spot(q, x, y, z)
    BY <2>1, SpotOf
  <2>3. PICK u \in 0 .. w - 1, k \in 0 .. t - 1 : x = nth(t, u, k)
    <3>1. x \in 0 .. wide(t, w) - 1 /\ t \in Nat \ {0} /\ w \in Nat
      OBVIOUS
    <3> QED
      BY ONLY <3>1, UnitSplit
  <2>4. u \in upTo(w) /\ k \in upTo(t) /\ y \in upTo(q.ys) /\ z \in upTo(q.zs)
    BY DEF upTo
  <2> QED
    BY <2>2, <2>3, <2>4
<1>2. B \subseteq A
  <2> SUFFICES ASSUME NEW u \in upTo(w), NEW k \in upTo(t), NEW y \in upTo(q.ys), NEW z \in upTo(q.zs)
               PROVE  spot(q, nth(t, u, k), y, z) \in A
    OBVIOUS
  <2>1. u \in 0 .. w - 1 /\ k \in 0 .. t - 1 /\ y \in 0 .. q.ys - 1 /\ z \in 0 .. q.zs - 1
    BY DEF upTo
  <2> PICK x : x = nth(t, u, k)
    OBVIOUS
  <2>2. x \in 0 .. q.xs - 1
    BY <2>1, UnitInside
  <2> PICK n : n = cell(q.xs, q.ys, x, y, z)
    OBVIOUS
  <2>3. n \in 0 .. planeSize(q) - 1 /\ ByteAt(q, n) = spot(q, x, y, z)
    BY <2>1, <2>2, SpotOf
  <2> QED
    BY <2>3
<1>3. A = B
  <2> HIDE DEF A, B
  <2> QED
    BY <1>1, <1>2
<1> QED
  BY <1>3 DEF spotsOf, unitSpots
-----------------------------------------------------------------------------
\* Byte k of element x of line y, in lines of s elements of c bytes.
element(a, c, s, x, y, k) == a + c * (x + y * s) + k

LEMMA LineSpot ==
  ASSUME NEW q, NEW c, NEW s, NEW x, NEW y, NEW k, IsPlane(q), c \in Nat, s \in Int,
         x \in Nat, y \in Nat, k \in Nat, q.xp = s * c
  PROVE  spot(q, nth(c, x, k), y, 0) = element(q.addr, c, s, x, y, k)
<1>1. spot(q, nth(c, x, k), y, 0) = q.addr + c * x + k + y * q.xp
  <2>1. IsPlane(q) /\ c \in Nat /\ x \in Nat /\ y \in Nat /\ k \in Nat
    OBVIOUS
  <2> QED
    BY ONLY <2>1, UnitSpot
<1>2. y * (s * c) = c * (y * s) /\ y * s \in Int /\ c * x \in Int /\ c * (y * s) \in Int
  OBVIOUS
<1>3. c * (x + y * s) = c * x + c * (y * s)
  OBVIOUS
<1>4. q.addr \in Int
  BY DEF IsPlane
<1> QED
  BY <1>1, <1>2, <1>3, <1>4 DEF element

shifted(b, c, s, bx, by) == b + (by * s + bx) * c

LEMMA ElementShift ==
  ASSUME NEW b, NEW c, NEW s, NEW x, NEW y, NEW k, NEW bx, NEW by, b \in Int, c \in Nat, s \in Int,
         x \in Nat, y \in Nat, k \in Nat, bx \in Nat, by \in Nat,
         NEW o, o = shifted(b, c, s, bx, by)
  PROVE  element(o, c, s, x, y, k) = element(b, c, s, x + bx, y + by, k)
<1>1. (y + by) * s = y * s + by * s /\ y * s \in Int /\ by * s \in Int
  OBVIOUS
<1> PICK u \in Int, v \in Int : u = y * s /\ v = by * s
  BY <1>1
<1>2. c * ((x + bx) + (u + v)) = c * (x + u) + (v + bx) * c
  OBVIOUS
<1>3. c * (x + u) \in Int /\ (v + bx) * c \in Int
  OBVIOUS
<1>4. o = b + (v + bx) * c
  BY DEF shifted
<1> QED
  BY <1>1, <1>2, <1>3, <1>4 DEF element

\* An image of elements, with a border of the fill value.
bordered(a, b, c, ss, ds, sx, sy, bx, by, w, h) ==
  {<<element(b, c, ds, x, y, k),
     IF x - bx \in upTo(sx) /\ y - by \in upTo(sy)
     THEN <<element(a, c, ss, x - bx, y - by, k)>> ELSE <<>> >> :
     x \in upTo(w), y \in upTo(h), k \in upTo(c)}

middle(a, b, c, ss, ds, sx, sy, bx, by) ==
  {<<element(b, c, ds, x + bx, y + by, k), <<element(a, c, ss, x, y, k)>> >> :
     x \in upTo(sx), y \in upTo(sy), k \in upTo(c)}

filled(b, c, ds, w, h) ==
  {<<element(b, c, ds, x, y, k), <<>> >> : x \in upTo(w), y \in upTo(h), k \in upTo(c)}

LEMMA PadParts ==
  ASSUME NEW R, NEW P, NEW Q, NEW a, NEW b, NEW c, NEW ss, NEW ds,
         NEW sx, NEW sy, NEW bx, NEW by, NEW w, NEW h,
         sx \in Nat, sy \in Nat, bx \in Nat, by \in Nat, w \in Nat, h \in Nat,
         w >= sx + bx, h >= sy + by,
         R = bordered(a, b, c, ss, ds, sx, sy, bx, by, w, h),
         P = middle(a, b, c, ss, ds, sx, sy, bx, by), Q = filled(b, c, ds, w, h),
         Request(R)
  PROVE  /\ P \subseteq R /\ ReadBy(Q) \subseteq ReadBy(R) /\ WrittenBy(Q) \subseteq WrittenBy(R)
         /\ \A r \in R : r \in P \/ (r \in Q /\ r[1] \notin WrittenBy(P))
         /\ Request(Q)
<1> DEFINE to(x, y, k) == element(b, c, ds, x, y, k)
           from(x, y, k) == element(a, c, ss, x, y, k)
<1>0. /\ R = {<<to(x, y, k), IF x - bx \in upTo(sx) /\ y - by \in upTo(sy)
                             THEN <<from(x - bx, y - by, k)>> ELSE <<>> >> :
                x \in upTo(w), y \in upTo(h), k \in upTo(c)}
      /\ P = {<<to(x + bx, y + by, k), <<from(x, y, k)>> >> :
                x \in upTo(sx), y \in upTo(sy), k \in upTo(c)}
      /\ Q = {<<to(x, y, k), <<>> >> : x \in upTo(w), y \in upTo(h), k \in upTo(c)}
  BY DEF bordered, middle, filled
<1> HIDE DEF to, from
<1>1. P \subseteq R
  <2> SUFFICES ASSUME NEW r \in P PROVE r \in R
    OBVIOUS
  <2>3. PICK x \in upTo(sx), y \in upTo(sy), k \in upTo(c) :
               r = <<to(x + bx, y + by, k), <<from(x, y, k)>> >>
    BY <1>0
  <2> PICK u, v : u = x + bx /\ v = y + by
    OBVIOUS
  <2>1. u - bx = x /\ v - by = y /\ u \in upTo(w) /\ v \in upTo(h)
    BY DEF upTo
  <2>2. <<to(u, v, k), IF u - bx \in upTo(sx) /\ v - by \in upTo(sy)
                       THEN <<from(u - bx, v - by, k)>> ELSE <<>> >> \in R
    BY <1>0, <2>1
  <2> QED
    BY <2>1, <2>2, <2>3
<1>2. ReadBy(Q) = {}
  <2>1. \A r \in Q : r[2] = <<>>
    BY <1>0
  <2>2. DOMAIN <<>> = {}
    OBVIOUS
  <2> QED
    BY <2>1, <2>2 DEF ReadBy
<1>3. WrittenBy(Q) \subseteq WrittenBy(R)
  <2> SUFFICES ASSUME NEW v \in WrittenBy(Q) PROVE v \in WrittenBy(R)
    OBVIOUS
  <2>1. PICK r \in Q : v = r[1]
    BY DEF WrittenBy
  <2>2. PICK x \in upTo(w), y \in upTo(h), k \in upTo(c) : r = <<to(x, y, k), <<>> >>
    BY <1>0
  <2> PICK e : e = IF x - bx \in upTo(sx) /\ y - by \in upTo(sy)
                   THEN <<from(x - bx, y - by, k)>> ELSE <<>>
    OBVIOUS
  <2>3. <<to(x, y, k), e>> \in R
    BY <1>0
  <2>4. v = to(x, y, k)
    BY <2>1, <2>2
  <2> QED
    BY <2>3, <2>4 DEF WrittenBy
<1>4. ASSUME NEW r \in R
      PROVE  r \in P \/ (r \in Q /\ r[1] \notin WrittenBy(P))
  <2>1. PICK x \in upTo(w), y \in upTo(h), k \in upTo(c) :
          r = <<to(x, y, k), IF x - bx \in upTo(sx) /\ y - by \in upTo(sy)
                             THEN <<from(x - bx, y - by, k)>> ELSE <<>> >>
    BY <1>0
  <2>2. CASE x - bx \in upTo(sx) /\ y - by \in upTo(sy)
    <3> PICK u \in upTo(sx), v \in upTo(sy) : u = x - bx /\ v = y - by
      BY <2>2
    <3>1. u + bx = x /\ v + by = y
      BY DEF upTo
    <3>2. r = <<to(u + bx, v + by, k), <<from(u, v, k)>> >>
      BY <2>1, <2>2, <3>1
    <3>3. r \in P
      BY <1>0, <3>2
    <3> QED
      BY <3>3
  <2>3. CASE ~(x - bx \in upTo(sx) /\ y - by \in upTo(sy))
    <3>1. r = <<to(x, y, k), <<>> >>
      BY <2>1, <2>3
    <3>2. r \in Q
      BY <1>0, <3>1
    <3>3. ASSUME r[1] \in WrittenBy(P) PROVE FALSE
      <4>1. PICK p \in P : p[1] = r[1]
        BY <3>3 DEF WrittenBy
      <4>2. p[2] = r[2]
        BY <1>1, <4>1 DEF Request
      <4>3. PICK f : p[2] = <<f>>
        BY ONLY <1>0, p \in P
      <4>4. r[2] = <<>>
        BY ONLY <3>1
      <4>5. <<f>> # <<>>
        OBVIOUS
      <4> QED
        BY ONLY <4>2, <4>3, <4>4, <4>5
    <3> QED
      BY <3>2, <3>3
  <2> QED
    BY <2>2, <2>3
<1>5. Request(Q)
  <2>1. \A r \in Q : r = <<r[1], r[2]>> /\ r[2] = <<>>
    BY <1>0
  <2> QED
    BY <2>1 DEF Request
<1> QED
  BY <1>1, <1>2, <1>3, <1>4, <1>5

\* Two and three of a kind joined.
LEMMA TwoJoined ==
  ASSUME NEW x, NEW y
  PROVE  <<x>> \o <<y>> = <<x, y>>
<1> PICK c, S : c = <<x>> \o <<y>> /\ S = {x, y}
  OBVIOUS
<1>1. <<x>> \in Seq(S) /\ <<y>> \in Seq(S) /\ <<x, y>> \in Seq(S) /\ c \in Seq(S)
  OBVIOUS
<1>2. Len(c) = 2 /\ c[1] = x /\ c[2] = y
  <2>1. IsSeq(<<x>>) /\ IsSeq(<<y>>) /\ Len(<<x>>) = 1 /\ Len(<<y>>) = 1
    BY <1>1 DEF IsSeq
  <2>2. Len(c) = 1 + 1 /\ c[1] = <<x>>[1] /\ c[1 + 1] = <<y>>[1]
    BY <2>1, ConcatAt
  <2> QED
    BY <2>2
<1>3. Len(<<x, y>>) = 2 /\ \A k \in 1 .. 2 : c[k] = <<x, y>>[k]
  BY <1>2
<1> QED
  BY <1>1, <1>2, <1>3, SeqEqual

LEMMA ThreeJoined ==
  ASSUME NEW x, NEW y, NEW z
  PROVE  <<x>> \o (<<y>> \o <<z>>) = <<x, y, z>>
<1> PICK r : r = <<y, z>>
  OBVIOUS
<1> PICK c, S : c = <<x>> \o r /\ S = {x, y, z}
  OBVIOUS
<1>1. <<x>> \in Seq(S) /\ r \in Seq(S) /\ <<x, y, z>> \in Seq(S) /\ c \in Seq(S)
  OBVIOUS
<1>2. Len(c) = 3 /\ c[1] = x /\ c[2] = y /\ c[3] = z
  <2>1. IsSeq(<<x>>) /\ IsSeq(r) /\ Len(<<x>>) = 1 /\ Len(r) = 2
    BY <1>1 DEF IsSeq
  <2>2. Len(c) = 1 + 2 /\ c[1] = <<x>>[1] /\ c[1 + 1] = r[1] /\ c[1 + 2] = r[2]
    BY <2>1, ConcatAt
  <2> QED
    BY <2>2
<1>3. Len(<<x, y, z>>) = 3 /\ \A k \in 1 .. 3 : c[k] = <<x, y, z>>[k]
  BY <1>2
<1>4. c = <<x, y, z>>
  BY <1>1, <1>2, <1>3, SeqEqual
<1> QED
  BY <1>4, TwoJoined

PadConstantRequest(i, a, b) ==
  {<<element(b, i.elem, i.dst_stride_x, x, y, k),
     IF x - i.before_x \in upTo(i.src_size_x) /\ y - i.before_y \in upTo(i.src_size_y)
     THEN <<element(a, i.elem, i.src_stride_x, x - i.before_x, y - i.before_y, k)>> ELSE <<>> >> :
     x \in upTo(padWidth(i)), y \in upTo(padHeight(i)), k \in upTo(i.elem)}

\* Padding with the fill value, of an image that fits the fields.
PlainPad(i) ==
  /\ i.mode = "constant" /\ i.elem \in Nat \ {0}
  /\ i.src_size_x \in Nat /\ i.src_size_y \in Nat
  /\ i.before_x \in Nat /\ i.before_y \in Nat /\ i.after_x \in Nat /\ i.after_y \in Nat
  /\ i.src_stride_x \in Int /\ i.dst_stride_x \in Int /\ i.src_addr \in Int /\ i.dst_addr \in Int
  /\ Fits(0, padWidth(i) * i.elem) /\ Fits(0, padHeight(i))
  /\ Fits(0, i.src_size_x * i.elem) /\ Fits(0, i.src_size_y)

LEMMA PadConstant ==
  ASSUME NEW i, NEW a, NEW b, PlainPad(i)
  PROVE  PadRequest(i, a, b) = PadConstantRequest(i, a, b)
<1> PICK c, ss, ds, sx, sy, bx, by :
      /\ c = i.elem /\ ss = i.src_stride_x /\ ds = i.dst_stride_x /\ sx = i.src_size_x
      /\ sy = i.src_size_y /\ bx = i.before_x /\ by = i.before_y
  OBVIOUS
<1> DEFINE nearest(v, extent) == IF v < 0 THEN 0 ELSE IF v >= extent THEN extent - 1 ELSE v
           in(x, y) == x - bx \in upTo(sx) /\ y - by \in upTo(sy)
           image(x, y) == a + c * (nearest(x - bx, sx) + nearest(y - by, sy) * ss)
           made(x, y, k) == IF in(x, y) THEN <<image(x, y) + k>> ELSE <<>>
           from(x, y, k) == IF in(x, y) THEN <<element(a, c, ss, x - bx, y - by, k)>> ELSE <<>>
<1>1. PadRequest(i, a, b) =
        {<<element(b, c, ds, x, y, k), made(x, y, k)>> :
           x \in upTo(padWidth(i)), y \in upTo(padHeight(i)), k \in upTo(c)}
  BY DEF PadRequest, PlainPad, element
<1>2. PadConstantRequest(i, a, b) =
        {<<element(b, c, ds, x, y, k), from(x, y, k)>> :
           x \in upTo(padWidth(i)), y \in upTo(padHeight(i)), k \in upTo(c)}
  BY DEF PadConstantRequest
<1>3. \A x \in upTo(padWidth(i)), y \in upTo(padHeight(i)), k \in upTo(c) : made(x, y, k) = from(x, y, k)
  <2> SUFFICES ASSUME NEW x \in upTo(padWidth(i)), NEW y \in upTo(padHeight(i)), NEW k \in upTo(c),
                      in(x, y)
               PROVE  image(x, y) + k = element(a, c, ss, x - bx, y - by, k)
    OBVIOUS
  <2>1. x - bx \in upTo(sx) /\ y - by \in upTo(sy)
    OBVIOUS
  <2>2. sx \in Nat /\ sy \in Nat
    BY DEF PlainPad
  <2>3. nearest(x - bx, sx) = x - bx /\ nearest(y - by, sy) = y - by
    BY ONLY <2>1, <2>2 DEF upTo, nearest
  <2> HIDE DEF nearest
  <2> QED
    BY <2>3 DEF element
<1> HIDE DEF made, from
<1> QED
  BY <1>1, <1>2, <1>3

PadOperands(i, ver, d, e, q, p, r, binds) ==
  /\ fillDesc(ver, i).descs = <<d, e>> /\ fillDesc(ver, i).binds = binds
  /\ d.type = 0 /\ IsDesc(d) /\ Fills(d, q) /\ OneToOne(e, p, r) /\ e.su = e.du
  /\ Held3(q, DstAddr0, i.dst_addr, wide(i.elem, padWidth(i)), padHeight(i), 1, i.dst_stride_x * i.elem, 0)
  /\ Held3(p, SrcAddr0, i.src_addr, wide(i.elem, i.src_size_x), i.src_size_y, 1, i.src_stride_x * i.elem, 0)
  /\ Held3(r, DstAddr0, i.dst_addr + (i.before_y * i.dst_stride_x + i.before_x) * i.elem,
           wide(i.elem, i.src_size_x), i.src_size_y, 1, i.dst_stride_x * i.elem, 0)
  /\ ReportedAt(binds, 0, q, "out") /\ ReportedAt(binds, 64, p, "in") /\ ReportedAt(binds, 64, r, "out")
  /\ binds = <<Bind(32, "out", q.addr), Bind(92, "in", p.addr), Bind(96, "out", r.addr)>>

LEMMA PadDescs ==
  ASSUME NEW ver, NEW i, i.info_type = "PAD", PlainPad(i)
  PROVE  \E d, e, q, p, r, binds : PadOperands(i, ver, d, e, q, p, r, binds)
<1> PICK c, ss, ds, sx, sy, w, h :
      /\ c = i.elem /\ ss = i.src_stride_x /\ ds = i.dst_stride_x /\ sx = i.src_size_x
      /\ sy = i.src_size_y /\ w = padWidth(i) /\ h = padHeight(i)
  OBVIOUS
<1> PICK o : o = i.dst_addr + (i.before_y * ds + i.before_x) * c
  OBVIOUS
<1>0. /\ c \in Nat \ {0} /\ ss \in Int /\ ds \in Int /\ i.before_x \in Nat /\ i.before_y \in Nat
      /\ i.src_addr \in Int /\ i.dst_addr \in Int /\ sx \in Nat /\ sy \in Nat
      /\ i.after_x \in Nat
  BY DEF PlainPad
<1>1. /\ ds * c \in Int /\ ss * c \in Int /\ i.src_addr \in Int /\ i.dst_addr \in Int
      /\ SrcAddr0 \in Int /\ DstAddr0 \in Int /\ 0 \in Int
  BY <1>0 DEF SrcAddr0, DstAddr0
<1>2. o \in Int
  <2>1. i.before_y * ds \in Int
    BY <1>0
  <2> PICK v \in Int : v = i.before_y * ds
    BY <2>1
  <2>2. (v + i.before_x) * c \in Int
    BY <1>0
  <2> QED
    BY <1>0, <2>2
<1>3. w \in Nat
  BY <1>0 DEF padWidth
<1>4. /\ w * c = wide(c, w) /\ sx * c = wide(c, sx)
  BY <1>0, <1>3 DEF wide
<1>5. /\ Fits(0, wide(c, w)) /\ Fits(0, h) /\ Fits(0, wide(c, sx)) /\ Fits(0, sy) /\ Fits(0, 1)
  <2>1. Fits(0, 1)
    BY SizesAssumption DEF Fits
  <2>2. Fits(0, w * c) /\ Fits(0, h) /\ Fits(0, sx * c) /\ Fits(0, sy)
    BY DEF PlainPad
  <2> QED
    BY <1>4, <2>1, <2>2
<1> PICK q, p, r :
      /\ q = Plane(DstAddr0, i.dst_addr, <<wide(c, w), h, 1>>, <<ds * c, 0>>)
      /\ p = Plane(SrcAddr0, i.src_addr, <<wide(c, sx), sy, 1>>, <<ss * c, 0>>)
      /\ r = Plane(DstAddr0, o, <<wide(c, sx), sy, 1>>, <<ds * c, 0>>)
  OBVIOUS
<1>6. Held3(q, DstAddr0, i.dst_addr, wide(c, w), h, 1, ds * c, 0)
  BY <1>1, <1>5, PlaneHolds
<1>7. Held3(p, SrcAddr0, i.src_addr, wide(c, sx), sy, 1, ss * c, 0)
  BY <1>1, <1>5, PlaneHolds
<1>8. Held3(r, DstAddr0, o, wide(c, sx), sy, 1, ds * c, 0)
  BY <1>1, <1>2, <1>5, PlaneHolds
<1> PICK d, e : d = padFill(i) /\ e = padCentre(i)
  OBVIOUS
<1>9. /\ d = [Desc(0) EXCEPT !.fill = TRUE, !.dst = <<q>>]
      /\ e = [Desc(0) EXCEPT !.src = <<p>>, !.dst = <<r>>]
  BY <1>4 DEF padFill, padCentre
<1>10. d.type = 0 /\ IsDesc(d) /\ Fills(d, q)
  <2>1. IsDesc(d) /\ d.dst = <<q>> /\ d.wu = 1 /\ d.fill = TRUE /\ d.wtmp = FALSE /\ d.type = 0
    BY ONLY <1>9 DEF Desc, IsDesc
  <2> QED
    BY <1>6, <2>1 DEF Fills, Held3, Operand
<1>11. OneToOne(e, p, r) /\ e.su = e.du
  <2> PICK f : f = Desc(0)
    OBVIOUS
  <2>1. IsDesc(f) /\ f.ru = 1 /\ f.wu = 1 /\ f.su = f.du
    BY DEF Desc, IsDesc
  <2>2. f.fill = FALSE /\ f.up = FALSE /\ f.rtmp = FALSE /\ f.wtmp = FALSE
    BY DEF Desc
  <2>3. e = between(f, p, r)
    BY <1>9 DEF between
  <2>4. e.src = <<p>> /\ e.dst = <<r>> /\ IsDesc(e) /\ Kept(e, f)
    BY ONLY <2>1, <2>3, DescChanged
  <2>5. Operand(p) /\ Operand(r)
    BY <1>7, <1>8 DEF Held3
  <2>6. e.ru = 1 /\ e.wu = 1 /\ e.su = e.du
    BY ONLY <2>1, <2>4 DEF Kept
  <2>7. ~e.fill /\ ~e.up /\ ~e.rtmp /\ e.wtmp = FALSE
    BY ONLY <2>2, <2>4 DEF Kept
  <2> QED
    BY ONLY <2>4, <2>5, <2>6, <2>7 DEF OneToOne
<1> PICK binds : binds = bindAt(i, 1, d) \o bindAt(i, 2, e)
  OBVIOUS
<1>12. fillDesc(ver, i).descs = <<d, e>> /\ fillDesc(ver, i).binds = binds
  BY DEF fillDesc, fillDescPad, PlainPad, Filled
<1>13. binds = <<Bind(32, "out", q.addr), Bind(92, "in", p.addr), Bind(96, "out", r.addr)>>
  <2>1. bindAt(i, 1, d) = <<Bind(32, "out", q.addr)>>
    <3>1. d.fill
      BY <1>10 DEF Fills
    <3>2. d.dst[1] = q
      BY <1>10 DEF Fills
    <3>3. (1 - 1) * descSize(0) = 0
      BY DEF descSize
    <3>4. bindAt(i, 1, d) = <<>> \o <<Bind(32, "out", q.addr)>>
      BY ONLY <3>1, <3>2, <3>3 DEF bindAt, DstAddr0
    <3>5. \A u : <<>> \o <<u>> = <<u>>
      <4> TAKE u
      <4>1. <<u>> \in Seq({u})
        OBVIOUS
      <4> QED
        BY <4>1, ConcatEmptySeq
    <3> QED
      BY <3>4, <3>5
  <2> PICK x, y, z : x = Bind(32, "out", q.addr) /\ y = Bind(92, "in", p.addr)
                     /\ z = Bind(96, "out", r.addr)
    OBVIOUS
  <2>2. bindAt(i, 2, e) = <<Bind(92, "in", p.addr)>> \o <<Bind(96, "out", r.addr)>>
    <3>1. ~e.fill
      BY <1>11 DEF OneToOne
    <3>2. e.src[1] = p /\ e.dst[1] = r
      BY <1>11 DEF OneToOne
    <3>3. (2 - 1) * descSize(0) = 64
      BY DEF descSize
    <3> QED
      BY ONLY <3>1, <3>2, <3>3 DEF bindAt, DstAddr0, SrcAddr0
  <2>3. <<x>> \o (<<y>> \o <<z>>) = <<x, y, z>>
    BY ThreeJoined
  <2>4. bindAt(i, 1, d) = <<x>> /\ bindAt(i, 2, e) = <<y>> \o <<z>>
    BY <2>1, <2>2
  <2>5. binds = <<x, y, z>>
    BY ONLY <2>3, <2>4, binds = bindAt(i, 1, d) \o bindAt(i, 2, e)
  <2> QED
    BY <2>5
<1>14. ReportedAt(binds, 0, q, "out") /\ ReportedAt(binds, 64, p, "in") /\ ReportedAt(binds, 64, r, "out")
  <2> PICK x, y, z : x = Bind(32, "out", q.addr) /\ y = Bind(92, "in", p.addr)
                     /\ z = Bind(96, "out", r.addr)
    OBVIOUS
  <2>1. /\ binds[1] = x /\ binds[2] = y /\ binds[3] = z /\ DOMAIN binds = {1, 2, 3}
    <3>1. binds = <<x, y, z>>
      BY <1>13
    <3> QED
      BY ONLY <3>1
  <2>3. /\ binds[1].at = 32 /\ binds[2].at = 92 /\ binds[3].at = 96
        /\ binds[1].obj = "out" /\ binds[2].obj = "in" /\ binds[3].obj = "out"
        /\ binds[1].off = q.addr /\ binds[2].off = p.addr /\ binds[3].off = r.addr
    <3>1. x.at = 32 /\ y.at = 92 /\ z.at = 96 /\ x.obj = "out" /\ y.obj = "in" /\ z.obj = "out"
      BY DEF Bind
    <3>2. x.off = q.addr /\ y.off = p.addr /\ z.off = r.addr
      BY DEF Bind
    <3> QED
      BY ONLY <2>1, <3>1, <3>2
  <2>2. 0 + q.at = 32 /\ 64 + p.at = 92 /\ 64 + r.at = 96
    BY <1>6, <1>7, <1>8 DEF Held3, SrcAddr0, DstAddr0
  <2>4. DOMAIN binds = {1, 2, 3}
    BY <2>1
  <2> QED
    BY ONLY <2>2, <2>3, <2>4 DEF ReportedAt
<1>15. PadOperands(i, ver, d, e, q, p, r, binds)
  BY <1>6, <1>7, <1>8, <1>10, <1>11, <1>12, <1>13, <1>14 DEF PadOperands
<1> QED
  BY <1>15

LEMMA TwoBases ==
  ASSUME NEW descs, NEW d, NEW e, descs = <<d, e>>, d.type = 0
  PROVE  SumTo(descSizes(descs), 0) = 0 /\ SumTo(descSizes(descs), 1) = 64
<1>1. /\ DOMAIN descs = 1 .. 2 /\ descs[1] = d /\ descs[2] = e /\ Len(descs) = 2
  OBVIOUS
<1>2. descSizes(descs)[0] = 64
  BY <1>1 DEF descSizes, descSize
<1>3. descSizes(descs)[0] \in Nat
  BY <1>2
<1> PICK f : f = descSizes(descs)
  OBVIOUS
<1>4. SumTo(f, 0) = 0
  BY SumZero
<1>5. \A k \in 0 .. 0 : f[k] \in Nat
  BY <1>3
<1>6. SumTo(f, 0 + 1) = SumTo(f, 0) + f[0]
  BY <1>5, SumNext
<1> QED
  BY <1>2, <1>4, <1>6

LEMMA TwoRun ==
  ASSUME NEW ver, NEW i, NEW n, NEW d, NEW e, NEW told, fillDesc(ver, i).descs = <<d, e>>, d.type = 0,
         told = Told(ver, i)
  PROVE  RunOf(ver, i, n) = <<AddressedDesc(told, n, 0, d), AddressedDesc(told, n, 64, e)>>
<1> PICK descs : descs = <<d, e>>
  OBVIOUS
<1>1. /\ DOMAIN descs = 1 .. 2 /\ descs[1] = d /\ descs[2] = e /\ Len(descs) = 2
  OBVIOUS
<1> PICK sums, f, g : /\ sums = [j \in DOMAIN descs |-> SumTo(descSizes(descs), j - 1)]
                      /\ f = AddressedDesc(told, n, 0, d) /\ g = AddressedDesc(told, n, 64, e)
  OBVIOUS
<1>2. SumTo(descSizes(descs), 0) = 0 /\ SumTo(descSizes(descs), 1) = 64
  BY TwoBases
<1>3. RunOf(ver, i, n) = [j \in 1 .. 2 |->
                            AddressedDesc(told, n, SumTo(descSizes(descs), j - 1), descs[j])]
  BY <1>1 DEF RunOf
<1> PICK s : s = RunOf(ver, i, n)
  OBVIOUS
<1>4. s[1] = f /\ s[2] = g
  <2>1. s[1] = AddressedDesc(told, n, SumTo(descSizes(descs), 1 - 1), descs[1])
    BY <1>3
  <2>2. s[2] = AddressedDesc(told, n, SumTo(descSizes(descs), 2 - 1), descs[2])
    BY <1>3
  <2> QED
    BY <1>1, <1>2, <2>1, <2>2
<1>5. DOMAIN s = 1 .. 2 /\ s = [j \in 1 .. 2 |-> s[j]]
  BY <1>3
<1>6. \A j \in 1 .. 2 : s[j] = <<f, g>>[j]
  BY <1>4
<1>7. s \in Seq({f, g})
  <2>1. \A j \in 1 .. 2 : s[j] \in {f, g}
    BY <1>4
  <2> QED
    BY <1>5, <2>1
<1>8. <<f, g>> \in Seq({f, g}) /\ Len(<<f, g>>) = 2 /\ Len(s) = 2
  BY <1>5
<1>9. s = <<f, g>>
  BY <1>6, <1>7, <1>8, SeqEqual
<1> QED
  BY <1>9

\* The bytes of the lines of an image, by elements.
fillSpots(q) == {<<ByteAt(q, m), <<>> >> : m \in 0 .. planeSize(q) - 1}
copySpots(p, r) == {<<ByteAt(r, m), <<ByteAt(p, m)>> >> : m \in 0 .. planeSize(r) - 1}

LEMMA FillElements ==
  ASSUME NEW q, NEW b, NEW c, NEW ds, NEW w, NEW h,
         IsPlane(q), q.addr = b, c \in Nat \ {0}, ds \in Int, w \in Nat, h \in Nat,
         q.xs = wide(c, w), q.ys = h, q.zs = 1, q.xp = ds * c
  PROVE  fillSpots(q) = filled(b, c, ds, w, h)
<1> DEFINE A == {ByteAt(q, m) : m \in 0 .. planeSize(q) - 1}
           B == {element(b, c, ds, x, y, k) : x \in upTo(w), y \in upTo(h), k \in upTo(c)}
           C == {spot(q, nth(c, u, k), y, z) :
                   u \in upTo(w), k \in upTo(c), y \in upTo(h), z \in upTo(1)}
<1>1. A = C
  <2>1. spotsOf(q) = unitSpots(q, c, w)
    BY SpotsInUnits
  <2>2. A = spotsOf(q)
    BY DEF spotsOf
  <2>3. C = unitSpots(q, c, w)
    BY DEF unitSpots
  <2> HIDE DEF A, C
  <2> QED
    BY <2>1, <2>2, <2>3
<1>2. ASSUME NEW u \in upTo(w), NEW k \in upTo(c), NEW y \in upTo(h)
      PROVE  spot(q, nth(c, u, k), y, 0) = element(b, c, ds, u, y, k)
  <2>1. u \in Nat /\ k \in Nat /\ y \in Nat
    BY DEF upTo
  <2> QED
    BY <2>1, LineSpot
<1>3. upTo(1) = {0}
  BY DEF upTo
<1>4. C = B
  <2> DEFINE f(u, k, y, z) == spot(q, nth(c, u, k), y, z)
             g(u, k, y) == element(b, c, ds, u, y, k)
  <2>1. \A u \in upTo(w), k \in upTo(c), y \in upTo(h) : f(u, k, y, 0) = g(u, k, y)
    BY <1>2
  <2>2. C = {f(u, k, y, z) : u \in upTo(w), k \in upTo(c), y \in upTo(h), z \in upTo(1)}
    OBVIOUS
  <2>3. B = {g(x, k, y) : x \in upTo(w), y \in upTo(h), k \in upTo(c)}
    OBVIOUS
  <2> HIDE DEF f, g, B, C
  <2> QED
    BY ONLY <1>3, <2>1, <2>2, <2>3
<1>5. {<<ByteAt(q, m), <<>> >> : m \in 0 .. planeSize(q) - 1} = {<<x, <<>> >> : x \in A}
  OBVIOUS
<1>6. {<<element(b, c, ds, x, y, k), <<>> >> : x \in upTo(w), y \in upTo(h), k \in upTo(c)}
      = {<<x, <<>> >> : x \in B}
  <2> DEFINE g(x, y, k) == element(b, c, ds, x, y, k)
  <2>1. B = {g(x, y, k) : x \in upTo(w), y \in upTo(h), k \in upTo(c)}
    OBVIOUS
  <2> HIDE DEF g
  <2>2. {<<g(x, y, k), <<>> >> : x \in upTo(w), y \in upTo(h), k \in upTo(c)} = {<<x, <<>> >> : x \in B}
    BY ONLY <2>1
  <2> QED
    BY <2>2 DEF g
<1> HIDE DEF A, B, C
<1>7. {<<x, <<>> >> : x \in A} = {<<x, <<>> >> : x \in B}
  BY <1>1, <1>4
<1> QED
  BY <1>5, <1>6, <1>7 DEF fillSpots, filled

LEMMA CopyElements ==
  ASSUME NEW p, NEW r, NEW a, NEW b, NEW c, NEW ss, NEW ds, NEW sx, NEW sy, NEW bx, NEW by,
         IsPlane(p), IsPlane(r), a = p.addr, r.addr = shifted(b, c, ds, bx, by), b \in Int,
         c \in Nat \ {0}, ss \in Int, ds \in Int, sx \in Nat, sy \in Nat, bx \in Nat, by \in Nat,
         p.xs = wide(c, sx), p.ys = sy, p.zs = 1, p.xp = ss * c,
         r.xs = wide(c, sx), r.ys = sy, r.zs = 1, r.xp = ds * c
  PROVE  copySpots(p, r) = middle(a, b, c, ss, ds, sx, sy, bx, by)
<1> PICK A : A = {<<ByteAt(r, m), <<ByteAt(p, m)>> >> : m \in 0 .. planeSize(r) - 1}
  OBVIOUS
<1>1. A = {<<spot(r, x, y, z), <<spot(p, x, y, z)>> >> :
            x \in upTo(r.xs), y \in upTo(r.ys), z \in upTo(r.zs)}
  BY CopyGrid
<1>7. A = spotCopies(p, r)
  BY <1>1 DEF spotCopies
<1>8. A = unitCopies(p, r, c, sx)
  BY <1>7, CopyUnits
<1>2. A = {<<spot(r, nth(c, u, k), y, z), <<spot(p, nth(c, u, k), y, z)>> >> :
            u \in upTo(sx), y \in upTo(r.ys), z \in upTo(r.zs), k \in upTo(c)}
  BY <1>8 DEF unitCopies
<1>3. upTo(1) = {0}
  BY DEF upTo
<1>4. A = {<<spot(r, nth(c, u, k), y, 0), <<spot(p, nth(c, u, k), y, 0)>> >> :
            u \in upTo(sx), y \in upTo(sy), k \in upTo(c)}
  BY <1>2, <1>3
<1>5. ASSUME NEW u \in upTo(sx), NEW k \in upTo(c), NEW y \in upTo(sy)
      PROVE  /\ spot(r, nth(c, u, k), y, 0) = element(b, c, ds, u + bx, y + by, k)
             /\ spot(p, nth(c, u, k), y, 0) = element(a, c, ss, u, y, k)
  <2>1. u \in Nat /\ k \in Nat /\ y \in Nat
    BY DEF upTo
  <2>2. spot(r, nth(c, u, k), y, 0) = element(r.addr, c, ds, u, y, k)
    BY <2>1, LineSpot
  <2>3. element(r.addr, c, ds, u, y, k) = element(b, c, ds, u + bx, y + by, k)
    BY <2>1, ElementShift
  <2> QED
    BY <2>1, <2>2, <2>3, LineSpot
<1>6. A = {<<element(b, c, ds, x + bx, y + by, k), <<element(a, c, ss, x, y, k)>> >> :
            x \in upTo(sx), y \in upTo(sy), k \in upTo(c)}
  BY <1>4, <1>5
<1> QED
  BY <1>6 DEF copySpots, middle

\* Padding with the fill value fills the padded image and copies the image over
\* the middle of it (edma_desc_v30.cpp: the constant mode).
LEMMA PadDelivers ==
  ASSUME NEW ver, NEW i, NEW n, i.info_type = "PAD", n \in Nat, PlainPad(i), Apart(Requested(i, n))
  PROVE  Delivers(RunOf(ver, i, n), Requested(i, n))
<1> PICK a, b : a = Origin(i, n, "in", i.src_addr) /\ b = Origin(i, n, "out", i.dst_addr)
  OBVIOUS
<1> PICK c, ss, ds, sx, sy, bx, by, w, h :
      /\ c = i.elem /\ ss = i.src_stride_x /\ ds = i.dst_stride_x /\ sx = i.src_size_x
      /\ sy = i.src_size_y /\ bx = i.before_x /\ by = i.before_y
      /\ w = padWidth(i) /\ h = padHeight(i)
  OBVIOUS
<1> PICK R : R = Requested(i, n)
  OBVIOUS
<1>1. R = PadConstantRequest(i, a, b)
  <2>1. R = PadRequest(i, a, b)
    BY DEF Requested
  <2> QED
    BY <2>1, PadConstant
<1>2. /\ c \in Nat \ {0} /\ ss \in Int /\ ds \in Int /\ bx \in Nat /\ by \in Nat
      /\ i.src_addr \in Int /\ i.dst_addr \in Int /\ sx \in Nat /\ sy \in Nat
      /\ w \in Nat /\ h \in Nat /\ w >= sx + bx /\ h >= sy + by
  BY DEF PlainPad, padWidth, padHeight
<1>3. PICK d, e, q, p, r, binds : PadOperands(i, ver, d, e, q, p, r, binds)
  BY PadDescs
<1> PICK told : told = Told(ver, i)
  OBVIOUS
<1>4. /\ told = (IF i.bind THEN binds ELSE <<>>)
      /\ fillDesc(ver, i).descs = <<d, e>> /\ d.type = 0
  <2>1. i.info_type \notin {"NN", "UFBC"}
    OBVIOUS
  <2> QED
    BY <1>3, <2>1 DEF Told, PadOperands
<1>5. /\ Held3(q, DstAddr0, i.dst_addr, wide(c, w), h, 1, ds * c, 0)
      /\ Held3(p, SrcAddr0, i.src_addr, wide(c, sx), sy, 1, ss * c, 0)
      /\ Held3(r, DstAddr0, i.dst_addr + (by * ds + bx) * c, wide(c, sx), sy, 1, ds * c, 0)
  BY <1>3 DEF PadOperands
<1> PICK o : o = Origin(i, n, "out", r.addr)
  OBVIOUS
<1>6. o = shifted(b, c, ds, bx, by)
  <2>1. by * ds \in Int
    BY <1>2
  <2> PICK v \in Int : v = by * ds
    BY <2>1
  <2>2. (v + bx) * c \in Int
    BY <1>2
  <2> PICK u \in Int : u = (v + bx) * c
    BY <2>2
  <2>3. r.addr = i.dst_addr + u
    BY <1>5 DEF Held3
  <2>4. shifted(b, c, ds, bx, by) = b + u
    BY DEF shifted
  <2>5. i.bind => Base("out", n) \in Int
    BY ObjectAssumption DEF Base
  <2> QED
    BY <1>2, <2>3, <2>4, <2>5 DEF Origin
<1>7. /\ Leads(told, n, 0, q, b) /\ b \in Int
      /\ Leads(told, n, 64, p, a) /\ a \in Int
      /\ Leads(told, n, 64, r, o) /\ o \in Int
  <2>1. /\ ReportedAt(binds, 0, q, "out") /\ ReportedAt(binds, 64, p, "in")
        /\ ReportedAt(binds, 64, r, "out")
    BY <1>3 DEF PadOperands
  <2>2. q.addr \in Int /\ p.addr \in Int /\ r.addr \in Int
    BY <1>5 DEF Held3, Operand, IsPlane
  <2>3. b = Origin(i, n, "out", q.addr) /\ a = Origin(i, n, "in", p.addr)
    BY <1>5 DEF Held3
  <2>4. Leads(told, n, 0, q, b) /\ b \in Int
    BY <1>4, <2>1, <2>2, <2>3, LeadsTo
  <2>5. Leads(told, n, 64, p, a) /\ a \in Int
    BY <1>4, <2>1, <2>2, <2>3, LeadsTo
  <2>6. Leads(told, n, 64, r, o) /\ o \in Int
    BY <1>4, <2>1, <2>2, LeadsTo
  <2> QED
    BY <2>4, <2>5, <2>6
<1> PICK f, g : f = AddressedDesc(told, n, 0, d) /\ g = AddressedDesc(told, n, 64, e)
  OBVIOUS
<1>8. RunOf(ver, i, n) = <<f, g>>
  <2>1. fillDesc(ver, i).descs = <<d, e>> /\ d.type = 0
    BY <1>4
  <2> QED
    BY ONLY <2>1, told = Told(ver, i), f = AddressedDesc(told, n, 0, d),
            g = AddressedDesc(told, n, 64, e), TwoRun
<1> PICK q1, p1, r1 : q1 = moved(q, b) /\ p1 = moved(p, a) /\ r1 = moved(r, o)
  OBVIOUS
<1>9. Fills(f, q1)
  <2>1. IsDesc(d) /\ Fills(d, q) /\ Operand(q)
    BY <1>3, <1>5 DEF PadOperands, Held3
  <2> QED
    BY ONLY <1>7, <2>1, f = AddressedDesc(told, n, 0, d), q1 = moved(q, b), AddressedFill
<1>10. Single(g, p1, r1) /\ g.su = g.du
  <2>1. OneToOne(e, p, r) /\ e.su = e.du
    BY <1>3 DEF PadOperands
  <2>2. Single(g, p1, r1) /\ g.su = e.su /\ g.du = e.du
    BY ONLY <1>7, <2>1, g = AddressedDesc(told, n, 64, e), p1 = moved(p, a), r1 = moved(r, o),
            AddressedOne
  <2> QED
    BY <2>1, <2>2
<1>11. /\ IsPlane(q1) /\ q1.addr = b /\ q1.xs = wide(c, w) /\ q1.ys = h /\ q1.zs = 1
       /\ q1.xp = ds * c
  BY <1>5, <1>7, MovedOperand DEF Held3
<1>12. /\ IsPlane(p1) /\ p1.addr = a /\ p1.xs = wide(c, sx) /\ p1.ys = sy /\ p1.zs = 1
       /\ p1.xp = ss * c
  BY <1>5, <1>7, MovedOperand DEF Held3
<1>13. /\ IsPlane(r1) /\ r1.addr = o /\ r1.xs = wide(c, sx) /\ r1.ys = sy /\ r1.zs = 1
       /\ r1.xp = ds * c
  BY <1>5, <1>7, MovedOperand DEF Held3
<1> PICK P, Q : P = middle(a, b, c, ss, ds, sx, sy, bx, by) /\ Q = filled(b, c, ds, w, h)
  OBVIOUS
<1>14. Q = fillSpots(q1)
  BY <1>2, <1>7, <1>11, FillElements
<1>15. P = copySpots(p1, r1)
  BY <1>2, <1>6, <1>7, <1>12, <1>13, CopyElements
<1>16. Request(R) /\ Apart(R)
  BY DEF Apart
<1>17. /\ P \subseteq R /\ ReadBy(Q) \subseteq ReadBy(R) /\ WrittenBy(Q) \subseteq WrittenBy(R)
       /\ \A m \in R : m \in P \/ (m \in Q /\ m[1] \notin WrittenBy(P))
       /\ Request(Q)
  <2>1. R = bordered(a, b, c, ss, ds, sx, sy, bx, by, w, h)
    BY <1>1 DEF PadConstantRequest, bordered
  <2> QED
    BY <1>2, <1>16, <2>1, PadParts
<1>18. Delivers(<<f>>, Q)
  BY <1>9, <1>14, <1>17, FillDelivers DEF fillSpots
<1>19. Delivers(<<g>>, P)
  <2>1. Request(P)
    BY <1>16, <1>17, RequestPart
  <2>2. planeSize(r1) <= planeSize(p1)
    <3>1. planeSize(r1) = planeSize(p1)
      BY <1>12, <1>13 DEF planeSize
    <3>2. planeSize(p1) \in Int
      BY <1>12 DEF planeSize, IsPlane
    <3> QED
      BY <3>1, <3>2
  <2> QED
    BY <1>10, <1>15, <2>1, <2>2, CopyDelivers DEF copySpots
<1>20. Delivers(<<f, g>>, R)
  BY ONLY <1>16, <1>17, <1>18, <1>19, OverDelivers
<1> QED
  BY <1>8, <1>20

-----------------------------------------------------------------------------
(***************************************************************************)
(* What a fill has written and reported.                                   *)
(***************************************************************************)
\* the descriptors of a thread's k-th info, and what is told of them
descsOf(t, k) == fillDesc(hwVer, task[t][k]).descs
toldOf(t, k) == Told(hwVer, task[t][k])

\* the number of descriptors written for the first k infos
lens(t) == [k \in 0 .. Len(task[t]) - 1 |-> Len(descsOf(t, k + 1))]
before(t, k) == SumTo(lens(t), k)

\* e is the j-th descriptor of info k, in its place
WrittenAs(t, e, k, j) ==
  /\ e.info = k /\ e.desc = descsOf(t, k)[j]
  /\ e.at = start(t, k - 1) + SumTo(descSizes(descsOf(t, k)), j - 1)

\* o is the b-th field told of info k
ToldAs(t, o, k, b) ==
  /\ o.info = k /\ o.field = start(t, k - 1) + toldOf(t, k)[b].at
  /\ o.object = toldOf(t, k)[b].obj /\ o.off = toldOf(t, k)[b].off

\* Everything of the infos filled so far is written, in their order.
WrittenInv(t) ==
  /\ Len(buf[t]) = before(t, next[t] - 1)
  /\ \A k \in 1 .. next[t] - 1 : \A j \in 1 .. Len(descsOf(t, k)) :
       WrittenAs(t, buf[t][before(t, k - 1) + j], k, j)

\* What is reported are the fields told of the infos filled so far.
ToldInv(t) ==
  /\ \A m \in DOMAIN offsets[t] :
       \E k \in 1 .. next[t] - 1 : \E b \in DOMAIN toldOf(t, k) : ToldAs(t, offsets[t][m], k, b)
  /\ \A k \in 1 .. next[t] - 1 : \A b \in DOMAIN toldOf(t, k) :
       \E m \in DOMAIN offsets[t] : ToldAs(t, offsets[t][m], k, b)

ContentInv == \A t \in Threads : WrittenInv(t) /\ ToldInv(t)
-----------------------------------------------------------------------------
LEMMA ContentFresh ==
  ASSUME NEW t \in Threads, next'[t] = 1, buf'[t] = <<>>, offsets'[t] = <<>>
  PROVE  WrittenInv(t)' /\ ToldInv(t)'
<1>1. Len(<<>>) = 0 /\ DOMAIN <<>> = {} /\ \A k : k \notin 1 .. 0
  OBVIOUS
<1>2. before(t, 0)' = 0
  BY SumZero DEF before
<1>3. next'[t] - 1 = 0
  OBVIOUS
<1>4. WrittenInv(t)'
  BY <1>1, <1>2, <1>3 DEF WrittenInv
<1>5. ToldInv(t)'
  BY <1>1, <1>3 DEF ToldInv
<1> QED
  BY <1>4, <1>5

LEMMA ContentKept ==
  ASSUME NEW u \in Threads, WrittenInv(u), ToldInv(u),
         UNCHANGED <<hwVer, task[u], next[u], buf[u], offsets[u]>>
  PROVE  WrittenInv(u)' /\ ToldInv(u)'
<1>1. \A k : descsOf(u, k)' = descsOf(u, k) /\ toldOf(u, k)' = toldOf(u, k)
  BY DEF descsOf, toldOf
<1>2. \A k : start(u, k)' = start(u, k) /\ before(u, k)' = before(u, k)
  BY DEF start, sizes, before, lens, descsOf
<1>3. \A e, k, j : /\ WrittenAs(u, e, k, j)' <=> WrittenAs(u, e, k, j)
                   /\ ToldAs(u, e, k, j)' <=> ToldAs(u, e, k, j)
  BY <1>1, <1>2 DEF WrittenAs, ToldAs
<1>4. WrittenInv(u)'
  BY <1>1, <1>2, <1>3 DEF WrittenInv
<1>5. ToldInv(u)'
  BY <1>1, <1>3 DEF ToldInv
<1> QED
  BY <1>4, <1>5

\* The numbers of descriptors add up.
LEMMA BeforeNext ==
  ASSUME NEW t \in Threads, FillInv, SlotsInv, NEW n \in 1 .. Len(task[t]),
         \A k \in 1 .. n : supported(task[t][k])
  PROVE  /\ \A k \in 1 .. n : IsSeq(descsOf(t, k)) /\ Len(descsOf(t, k)) \in Nat
                              /\ Sized(descsOf(t, k))
         /\ \A k \in 1 .. n : before(t, k) = before(t, k - 1) + Len(descsOf(t, k))
         /\ \A k \in 0 .. n : before(t, k) \in Nat
         /\ \A k \in 0 .. n : \A h \in k .. n : before(t, k) <= before(t, h)
<1>1. hwVer \in Versions /\ (task[t] = <<>> \/ task[t] \in Tasks[hwVer][t])
  BY DEF SlotsInv, SlotInv, CountInv, FillInv, FillTypes
<1>2. PICK len \in Nat : len = Len(task[t]) /\ \A k \in 1 .. len : wellFormed(task[t][k])
  BY <1>1, CountsNat
<1>3. ASSUME NEW k \in 1 .. n
      PROVE  IsSeq(descsOf(t, k)) /\ Len(descsOf(t, k)) \in Nat /\ Sized(descsOf(t, k))
  <2>1. wellFormed(task[t][k]) /\ task[t][k].info_type \in Supported
    BY <1>2 DEF supported
  <2>2. Sized(descsOf(t, k))
    BY <1>1, <2>1, FillFits DEF descsOf
  <2> QED
    BY <2>2, SeqFacts DEF Sized
<1> PICK f : f = lens(t)
  OBVIOUS
<1>4. \A k \in 0 .. n - 1 : f[k] = Len(descsOf(t, k + 1)) /\ f[k] \in Nat
  <2> SUFFICES ASSUME NEW k \in 0 .. n - 1
               PROVE  f[k] = Len(descsOf(t, k + 1)) /\ f[k] \in Nat
    OBVIOUS
  <2>1. k \in 0 .. len - 1 /\ k + 1 \in 1 .. n
    BY <1>2
  <2>2. f[k] = Len(descsOf(t, k + 1))
    BY <1>2, <2>1 DEF lens
  <2> QED
    BY <1>3, <2>1, <2>2
<1>5. \A k \in 1 .. n : before(t, k) = before(t, k - 1) + Len(descsOf(t, k))
  <2> SUFFICES ASSUME NEW k \in 1 .. n
               PROVE  before(t, k) = before(t, k - 1) + Len(descsOf(t, k))
    OBVIOUS
  <2> PICK m \in 0 .. n - 1 : m = k - 1 /\ m + 1 = k
    BY <1>2
  <2>1. \A h \in 0 .. m : f[h] \in Nat
    BY <1>2, <1>4
  <2>2. SumTo(f, m + 1) = SumTo(f, m) + f[m]
    BY <1>2, <2>1, SumNext
  <2> QED
    BY <1>4, <2>2 DEF before
<1>6. \A h \in 0 .. n : \A k \in 0 .. h : SumTo(f, k) \in Nat /\ SumTo(f, k) <= SumTo(f, h)
  <2> SUFFICES ASSUME NEW h \in 0 .. n, NEW k \in 0 .. h
               PROVE  SumTo(f, k) \in Nat /\ SumTo(f, k) <= SumTo(f, h)
    OBVIOUS
  <2>1. h \in Nat /\ \A g \in 0 .. h - 1 : f[g] \in Nat
    BY <1>2, <1>4
  <2> QED
    BY <2>1, SumGrows
<1>7. /\ \A k \in 0 .. n : before(t, k) \in Nat
      /\ \A k \in 0 .. n : \A h \in k .. n : before(t, k) <= before(t, h)
  <2>1. \A k \in 0 .. n : k \in 0 .. k /\ \A h \in k .. n : h \in 0 .. n /\ k \in 0 .. h
    BY <1>2
  <2> QED
    BY <1>6, <2>1 DEF before
<1> QED
  BY <1>3, <1>5, <1>7

\* What is told of an info is what is reported for it.
LEMMA ReportedTold ==
  ASSUME NEW t \in Threads, NEW n, n = next[t], NEW r, FillInv,
         r = reported(t, fillDesc(hwVer, task[t][n]).binds),
         task[t][n].info_type \in Supported, at[t] = start(t, n - 1)
  PROVE  /\ IsSeq(r) /\ DOMAIN r = DOMAIN toldOf(t, n)
         /\ \A b \in DOMAIN r : ToldAs(t, r[b], n, b)
<1> PICK i, binds : i = task[t][n] /\ binds = fillDesc(hwVer, task[t][n]).binds
  OBVIOUS
<1>1. IsSeq(binds)
  BY BindsSeq
<1>2. CASE ~(i.bind \/ i.info_type \in {"NN", "UFBC"})
  <2>1. r = <<>> /\ toldOf(t, n) = <<>>
    BY <1>2 DEF reported, toldOf, Told
  <2>2. DOMAIN <<>> = {}
    OBVIOUS
  <2> QED
    BY <2>1, <2>2, TupleSeqs
<1>3. CASE i.bind \/ i.info_type \in {"NN", "UFBC"}
  <2>1. r = [k \in DOMAIN binds |->
               [buffer |-> head[i.info_type], field |-> at[t] + binds[k].at,
                object |-> binds[k].obj, off |-> binds[k].off, info |-> n]]
    BY <1>3 DEF reported
  <2>2. toldOf(t, n) = binds
    BY <1>3 DEF toldOf, Told
  <2>3. DOMAIN binds = 1 .. Len(binds) /\ Len(binds) \in Nat
    BY <1>1, SeqFacts
  <2>4. DOMAIN r = DOMAIN binds /\ r = [k \in 1 .. Len(binds) |-> r[k]]
    BY <2>1, <2>3
  <2>5. IsSeq(r)
    BY <2>3, <2>4, FcnSeq
  <2>6. \A b \in DOMAIN r : ToldAs(t, r[b], n, b)
    <3> SUFFICES ASSUME NEW b \in DOMAIN binds
                 PROVE  ToldAs(t, r[b], n, b)
      BY <2>4
    <3>1. /\ r[b].info = n /\ r[b].field = at[t] + binds[b].at
          /\ r[b].object = binds[b].obj /\ r[b].off = binds[b].off
      <4> PICK g : g = head[i.info_type]
        OBVIOUS
      <4>1. r[b] = [buffer |-> g, field |-> at[t] + binds[b].at,
                    object |-> binds[b].obj, off |-> binds[b].off, info |-> n]
        BY <2>1
      <4> QED
        BY ONLY <4>1
    <3> QED
      BY <2>2, <3>1 DEF ToldAs
  <2> QED
    BY <2>2, <2>4, <2>5, <2>6
<1> QED
  BY <1>2, <1>3

LEMMA FillContent ==
  ASSUME FillInv, SlotsInv, ContentInv, NEW t \in Threads, fillInfo(t)
  PROVE  ContentInv'
<1> PICK n, d : n = next[t] /\ d = descsOf(t, next[t])
  OBVIOUS
<1>1. /\ pc[t] = "fill" /\ UNCHANGED <<hwVer, head, task, size, num, shared>>
      /\ buf' = [buf EXCEPT ![t] = @ \o placed(t, d)]
      /\ offsets' = [offsets EXCEPT ![t] = @ \o reported(t, fillDesc(hwVer, task[t][n]).binds)]
      /\ next' = [next EXCEPT ![t] = @ + 1]
  BY DEF fillInfo, mine, descsOf
<1>2. /\ DOMAIN next = Threads /\ DOMAIN buf = Threads /\ DOMAIN offsets = Threads
  BY DEF SlotsInv, FillInv, FillTypes
<1>3. SlotInv(t) /\ CountInv(t) /\ HeadInv(t) /\ TaskInv(t) /\ WrittenInv(t) /\ ToldInv(t)
  BY DEF SlotsInv, SlotInv, FillInv, ContentInv
<1>4. /\ Len(task[t]) \in Nat /\ n \in 1 .. Len(task[t])
      /\ task[t][n].info_type \in Supported /\ supported(task[t][n])
  BY <1>1, <1>3 DEF TaskInv, Fill, HeadInv, supported
<1>5. \A k \in 1 .. n : supported(task[t][k])
  <2>1. \A k \in 1 .. n : k \in 1 .. n - 1 \/ k = n
    BY <1>4
  <2> QED
    BY <1>3, <1>4, <2>1 DEF CountInv
<1>6. /\ \A k \in 1 .. n : IsSeq(descsOf(t, k)) /\ Len(descsOf(t, k)) \in Nat /\ Sized(descsOf(t, k))
      /\ \A k \in 1 .. n : before(t, k) = before(t, k - 1) + Len(descsOf(t, k))
      /\ \A k \in 0 .. n : before(t, k) \in Nat
      /\ \A k \in 0 .. n : \A h \in k .. n : before(t, k) <= before(t, h)
  BY <1>4, <1>5, BeforeNext
<1> PICK p, r, b, s : /\ p = placed(t, d) /\ b = buf[t] /\ s = offsets[t]
                      /\ r = reported(t, fillDesc(hwVer, task[t][n]).binds)
  OBVIOUS
<1>7. buf'[t] = b \o p /\ offsets'[t] = s \o r /\ next'[t] - 1 = n
  <2>1. buf'[t] = b \o p
    BY <1>1, <1>2
  <2>2. offsets'[t] = s \o r
    BY <1>1, <1>2
  <2>3. next'[t] - 1 = n
    BY <1>1, <1>2, <1>4
  <2> QED
    BY <2>1, <2>2, <2>3
<1>8. at[t] = start(t, n - 1) /\ at[t] \in Nat
  <2>1. hwVer \in Versions /\ (task[t] = <<>> \/ task[t] \in Tasks[hwVer][t])
    BY <1>3 DEF CountInv, FillInv, FillTypes
  <2>2. \A k \in 0 .. Len(task[t]) : SumTo(sizes(task[t]), k) \in Nat
    BY <2>1, CountsNat
  <2>3. n - 1 \in 0 .. Len(task[t])
    BY <1>4
  <2> QED
    BY <1>3, <2>2, <2>3 DEF CountInv, start
<1>9. IsSeq(b) /\ IsSeq(s) /\ IsSeq(p) /\ Len(p) = Len(d) /\ Len(d) \in Nat
  <2>1. Sized(d) /\ Len(d) \in Nat
    BY <1>4, <1>6
  <2>2. IsSeq(p) /\ Len(p) = Len(d)
    BY <1>8, <2>1, PlacedFacts
  <2> QED
    BY <1>3, <2>1, <2>2 DEF SlotInv, TaskInv
<1>10. /\ \A k : descsOf(t, k)' = descsOf(t, k) /\ toldOf(t, k)' = toldOf(t, k)
       /\ \A k : start(t, k)' = start(t, k) /\ before(t, k)' = before(t, k)
  BY <1>1 DEF descsOf, toldOf, start, sizes, before, lens
<1>11. \A e, k, j : /\ WrittenAs(t, e, k, j)' <=> WrittenAs(t, e, k, j)
                    /\ ToldAs(t, e, k, j)' <=> ToldAs(t, e, k, j)
  BY <1>10 DEF WrittenAs, ToldAs
<1>12. Len(b) = before(t, n - 1) /\ before(t, n) = Len(b) + Len(d) /\ Len(b) \in Nat
  <2>1. Len(b) = before(t, n - 1)
    BY <1>3 DEF WrittenInv
  <2>2. n - 1 \in 0 .. n /\ n \in 1 .. n
    BY <1>4
  <2> QED
    BY <1>6, <2>1, <2>2
<1>13. ASSUME NEW k \in 1 .. n, NEW j \in 1 .. Len(descsOf(t, k))
       PROVE  WrittenAs(t, (b \o p)[before(t, k - 1) + j], k, j)
  <2>1. CASE k = n
    <3>1. j \in 1 .. Len(p) /\ before(t, k - 1) = Len(b)
      BY <1>9, <1>12, <2>1
    <3>2. (b \o p)[Len(b) + j] = p[j]
      <4>1. \A h \in 1 .. Len(p) : (b \o p)[Len(b) + h] = p[h]
        BY ONLY <1>9, ConcatAt
      <4> QED
        BY ONLY <3>1, <4>1
    <3>3. DOMAIN d = 1 .. Len(d)
      <4>1. IsSeq(d)
        BY <1>4, <1>6
      <4> QED
        BY <4>1, SeqFacts
    <3>4. p[j] = [at |-> at[t] + SumTo(descSizes(d), j - 1), desc |-> d[j], info |-> n]
      BY <2>1, <3>3 DEF placed
    <3>5. WrittenAs(t, p[j], n, j)
      BY <1>8, <3>4 DEF WrittenAs
    <3> QED
      BY <2>1, <3>1, <3>2, <3>5
  <2>2. CASE k # n
    <3>1. k \in 1 .. n - 1 /\ k \in 0 .. n /\ n - 1 \in k .. n
      BY <1>4, <2>2
    <3>2. before(t, k - 1) + j \in 1 .. Len(b)
      <4>1. before(t, k) = before(t, k - 1) + Len(descsOf(t, k)) /\ before(t, k) <= before(t, n - 1)
        BY <1>6, <3>1
      <4>2. before(t, k - 1) \in Nat /\ Len(descsOf(t, k)) \in Nat
        <5>1. k - 1 \in 0 .. n /\ k \in 1 .. n
          BY <1>4
        <5> QED
          BY <1>6, <5>1
      <4> QED
        BY <1>12, <4>1, <4>2
    <3>3. (b \o p)[before(t, k - 1) + j] = b[before(t, k - 1) + j]
      BY <1>9, <3>2, ConcatAt
    <3>4. WrittenAs(t, b[before(t, k - 1) + j], k, j)
      BY <1>3, <3>1 DEF WrittenInv
    <3> QED
      BY <3>3, <3>4
  <2> QED
    BY <2>1, <2>2
<1>14. WrittenInv(t)'
  <2>1. Len(buf'[t]) = before(t, n)
    <3>1. Len(b \o p) = Len(b) + Len(p)
      BY <1>9, ConcatAt
    <3> QED
      BY <1>7, <1>9, <1>12, <3>1
  <2>2. \A k \in 1 .. n : \A j \in 1 .. Len(descsOf(t, k)) :
          WrittenAs(t, buf'[t][before(t, k - 1) + j], k, j)
    BY <1>7, <1>13
  <2> QED
    BY <1>7, <1>10, <1>11, <2>1, <2>2 DEF WrittenInv
<1>15. /\ IsSeq(r) /\ DOMAIN r = DOMAIN toldOf(t, n)
       /\ \A m \in DOMAIN r : ToldAs(t, r[m], n, m)
  BY <1>4, <1>8, ReportedTold
<1>16. \A m \in DOMAIN (s \o r) :
         \E k \in 1 .. n : \E h \in DOMAIN toldOf(t, k) : ToldAs(t, (s \o r)[m], k, h)
  <2> SUFFICES ASSUME NEW m \in DOMAIN (s \o r)
               PROVE  \E k \in 1 .. n : \E h \in DOMAIN toldOf(t, k) : ToldAs(t, (s \o r)[m], k, h)
    OBVIOUS
  <2>1. \/ m \in DOMAIN s /\ (s \o r)[m] = s[m]
        \/ \E j \in DOMAIN r : (s \o r)[m] = r[j]
    <3>1. IsSeq(s) /\ IsSeq(r)
      BY <1>9, <1>15
    <3>2. From(s \o r, s, r)
      BY ONLY <3>1, ConcatFacts
    <3> QED
      BY ONLY <3>2, m \in DOMAIN (s \o r) DEF From
  <2>2. CASE m \in DOMAIN s /\ (s \o r)[m] = s[m]
    <3>1. PICK k \in 1 .. n - 1 : \E h \in DOMAIN toldOf(t, k) : ToldAs(t, s[m], k, h)
      BY <1>3, <2>2 DEF ToldInv
    <3>2. k \in 1 .. n
      BY <1>4
    <3> QED
      BY <2>2, <3>1, <3>2
  <2>3. CASE \E j \in DOMAIN r : (s \o r)[m] = r[j]
    <3>1. n \in 1 .. n
      BY <1>4
    <3> QED
      BY <1>15, <2>3, <3>1
  <2> QED
    BY <2>1, <2>2, <2>3
<1>17. \A k \in 1 .. n : \A h \in DOMAIN toldOf(t, k) :
         \E m \in DOMAIN (s \o r) : ToldAs(t, (s \o r)[m], k, h)
  <2> SUFFICES ASSUME NEW k \in 1 .. n, NEW h \in DOMAIN toldOf(t, k)
               PROVE  \E m \in DOMAIN (s \o r) : ToldAs(t, (s \o r)[m], k, h)
    OBVIOUS
  <2>1. /\ DOMAIN (s \o r) = 1 .. Len(s) + Len(r)
        /\ \A m \in 1 .. Len(s) : (s \o r)[m] = s[m]
        /\ \A m \in 1 .. Len(r) : (s \o r)[Len(s) + m] = r[m]
    <3>1. IsSeq(s) /\ IsSeq(r)
      BY <1>9, <1>15
    <3> QED
      BY ONLY <3>1, ConcatAt
  <2>2. /\ Len(s) \in Nat /\ Len(r) \in Nat /\ DOMAIN s = 1 .. Len(s) /\ DOMAIN r = 1 .. Len(r)
    BY <1>9, <1>15, SeqFacts
  <2>3. CASE k = n
    <3>0. h \in 1 .. Len(r)
      BY <1>15, <2>2, <2>3
    <3>1. h \in 1 .. Len(r) /\ Len(s) + h \in 1 .. Len(s) + Len(r)
      BY ONLY <2>2, <3>0
    <3> QED
      BY <1>15, <2>1, <2>2, <2>3, <3>1
  <2>4. CASE k # n
    <3>1. k \in 1 .. n - 1
      BY <1>4, <2>4
    <3>2. PICK m \in DOMAIN s : ToldAs(t, s[m], k, h)
      BY <1>3, <3>1 DEF ToldInv
    <3>3. m \in 1 .. Len(s) /\ m \in 1 .. Len(s) + Len(r)
      <4>1. m \in 1 .. Len(s)
        BY <2>2
      <4> QED
        BY ONLY <2>2, <4>1
    <3> QED
      BY <2>1, <3>2, <3>3
  <2> QED
    BY <2>3, <2>4
<1>18. ToldInv(t)'
  BY <1>7, <1>10, <1>11, <1>16, <1>17 DEF ToldInv
<1>19. ASSUME NEW u \in Threads \ {t}
       PROVE  WrittenInv(u)' /\ ToldInv(u)'
  <2>1. UNCHANGED <<hwVer, task[u], next[u], buf[u], offsets[u]>>
    BY <1>1, <1>2
  <2> QED
    BY <2>1, ContentKept DEF ContentInv
<1> QED
  BY <1>14, <1>18, <1>19 DEF ContentInv
-----------------------------------------------------------------------------
LEMMA ContentInit == Init => ContentInv
<1> SUFFICES ASSUME Init, NEW t \in Threads
             PROVE  WrittenInv(t) /\ ToldInv(t)
  BY DEF ContentInv
<1>1. next[t] = 1 /\ buf[t] = <<>> /\ offsets[t] = <<>>
  BY DEF Init
<1>2. Len(<<>>) = 0 /\ DOMAIN <<>> = {} /\ \A k : k \notin 1 .. 0
  OBVIOUS
<1>3. before(t, 0) = 0 /\ next[t] - 1 = 0
  BY <1>1, SumZero DEF before
<1> QED
  BY <1>1, <1>2, <1>3 DEF WrittenInv, ToldInv

LEMMA ContentStep == FillInv /\ SlotsInv /\ ContentInv /\ [Next]_vars => ContentInv'
<1> SUFFICES ASSUME FillInv, SlotsInv, ContentInv, [Next]_vars
             PROVE  ContentInv'
  OBVIOUS
<1>1. ASSUME NEW v \in Versions, setHWver(v), NEW t \in Threads
      PROVE  WrittenInv(t)' /\ ToldInv(t)'
  <2>1. pc[t] = "idle" /\ UNCHANGED <<next, buf, offsets>>
    BY <1>1 DEF setHWver, out
  <2>2. SlotInv(t) /\ TaskInv(t)
    BY DEF SlotsInv, FillInv
  <2>3. next[t] = 1 /\ buf[t] = <<>> /\ offsets[t] = <<>>
    BY <2>1, <2>2, FreshCount DEF TaskInv
  <2> QED
    BY <2>1, <2>3, ContentFresh
<1>2. ASSUME NEW t \in Threads, NEW infos \in Tasks[hwVer][t], queryTransDescSize(t, infos)
      PROVE  ContentInv'
  <2>1. /\ pc[t] = "idle" /\ task' = [task EXCEPT ![t] = infos]
        /\ UNCHANGED <<hwVer, next, buf, offsets>>
    BY <1>2 DEF queryTransDescSize, out
  <2>2. SlotInv(t) /\ TaskInv(t) /\ DOMAIN task = Threads
    BY DEF SlotsInv, FillInv, FillTypes
  <2>3. next[t] = 1 /\ buf[t] = <<>> /\ offsets[t] = <<>>
    BY <2>1, <2>2, FreshCount DEF TaskInv
  <2>4. WrittenInv(t)' /\ ToldInv(t)'
    BY <2>1, <2>3, ContentFresh
  <2>5. ASSUME NEW u \in Threads \ {t}
        PROVE  WrittenInv(u)' /\ ToldInv(u)'
    <3>1. UNCHANGED <<hwVer, task[u], next[u], buf[u], offsets[u]>>
      BY <2>1, <2>2
    <3> QED
      BY <3>1, ContentKept DEF ContentInv
  <2> QED
    BY <2>4, <2>5 DEF ContentInv
<1>3. ASSUME UNCHANGED <<hwVer, task, next, buf, offsets>>
      PROVE  ContentInv'
  BY <1>3, ContentKept DEF ContentInv
<1>4. ASSUME NEW t \in Threads, transTaskInfo(t) \/ setHeadDesc(t)
      PROVE  ContentInv'
  <2>1. UNCHANGED <<hwVer, task, next, buf, offsets>>
    BY <1>4 DEF transTaskInfo, setHeadDesc, mine, out
  <2> QED
    BY <1>3, <2>1
<1>5. ASSUME UNCHANGED vars
      PROVE  ContentInv'
  <2>1. UNCHANGED <<hwVer, task, next, buf, offsets>>
    BY <1>5 DEF vars, mine, out
  <2> QED
    BY <1>3, <2>1
<1>6. ASSUME NEW t \in Threads, fillInfo(t)
      PROVE  ContentInv'
  BY <1>6, FillContent
<1>7. (\E v \in Versions : setHWver(v)) => ContentInv'
  BY <1>1 DEF ContentInv
<1> QED
  BY <1>2, <1>4, <1>5, <1>6, <1>7 DEF Next, Finished

LEMMA ContentInvariant == Spec => [](FillInv /\ SlotsInv /\ ContentInv)
<1>1. Init => FillInv /\ SlotsInv /\ ContentInv
  BY FillInit, SlotsInit, ContentInit
<1>2. FillInv /\ SlotsInv /\ ContentInv /\ [Next]_vars => (FillInv /\ SlotsInv /\ ContentInv)'
  BY FillStep, SlotsStep, ContentStep
<1> QED
  BY <1>1, <1>2, PTL DEF Spec

-----------------------------------------------------------------------------
(***************************************************************************)
(* What the caller writes to the fields it is told of.                     *)
(***************************************************************************)
Operands(d) == {d.src[k] : k \in DOMAIN d.src} \cup {d.dst[k] : k \in DOMAIN d.dst}

\* The fields the caller is told of lie in the info's part of the buffer, as
\* those of its operands do, and a field is told of once.
InFields(ver, i) ==
  LET descs == fillDesc(ver, i).descs
      told == Told(ver, i)
      extent == queryDSize(ver, i)
  IN /\ \A b \in DOMAIN told : told[b].at \in 0 .. extent - 1
     /\ \A b, c \in DOMAIN told : told[b].at = told[c].at =>
          told[b].obj = told[c].obj /\ told[b].off = told[c].off
     /\ \A j \in 1 .. Len(descs) : \A p \in Operands(descs[j]) :
          p.at \in Nat /\ SumTo(descSizes(descs), j - 1) + p.at \in 0 .. extent - 1

\* the operand of descriptor e that p becomes
planeOf(t, e, p) ==
  LET told == {k \in DOMAIN offsets[t] : offsets[t][k].field = e.at + p.at}
      o == offsets[t][CHOOSE k \in told : TRUE]
  IN IF told = {} THEN p ELSE [p EXCEPT !.addr = Base(o.object, o.info) + o.off]

\* Fields of two infos are never at one place.
LEMMA FieldsApart ==
  ASSUME NEW t \in Threads, FillInv, SlotsInv,
         NEW k \in 1 .. next[t] - 1, NEW h \in 1 .. next[t] - 1,
         NEW x, NEW y, x \in 0 .. queryDSize(hwVer, task[t][k]) - 1,
         y \in 0 .. queryDSize(hwVer, task[t][h]) - 1,
         start(t, k - 1) + x = start(t, h - 1) + y
  PROVE  k = h /\ x = y
<1>1. hwVer \in Versions /\ (task[t] = <<>> \/ task[t] \in Tasks[hwVer][t]) /\ CountInv(t)
  BY DEF SlotsInv, SlotInv, CountInv, FillInv, FillTypes
<1>2. PICK len, f :
        /\ len \in Nat /\ len = Len(task[t]) /\ f = sizes(task[t]) /\ \A g \in 0 .. len - 1 : f[g] \in Nat
        /\ \A g \in 0 .. len : SumTo(f, g) \in Nat
  BY <1>1, CountsNat
<1>3. next[t] \in 1 .. len + 1 /\ \A g \in 1 .. next[t] - 1 : supported(task[t][g])
  BY <1>1, <1>2 DEF CountInv
<1>4. ASSUME NEW g \in 1 .. next[t] - 1
      PROVE  /\ g \in 1 .. len
             /\ SumTo(f, g) = SumTo(f, g - 1) + queryDSize(hwVer, task[t][g])
             /\ SumTo(f, g) \in Nat /\ SumTo(f, g - 1) \in Nat
             /\ queryDSize(hwVer, task[t][g]) \in Nat
  <2>1. PICK m \in 0 .. len - 1 : m = g - 1 /\ m + 1 = g /\ m \in Nat
    BY <1>2, <1>3
  <2>2. \A r \in 0 .. m : f[r] \in Nat
    BY <1>2, <2>1
  <2>3. SumTo(f, m + 1) = SumTo(f, m) + f[m]
    BY <2>1, <2>2, SumNext
  <2>4. f[m] = queryDSize(hwVer, task[t][g])
    BY <1>2, <1>3, <2>1 DEF sizes
  <2>5. f[m] \in Nat /\ SumTo(f, m) \in Nat /\ SumTo(f, g) \in Nat
    BY <1>2, <2>1
  <2> QED
    BY <1>2, <1>3, <2>1, <2>3, <2>4, <2>5
<1>5. ASSUME NEW g \in 1 .. next[t] - 1, NEW r \in 1 .. next[t] - 1, g < r
      PROVE  SumTo(f, g) <= SumTo(f, r - 1)
  <2>1. g \in 0 .. r - 1 /\ r - 1 \in Nat /\ 0 .. (r - 1) - 1 \subseteq 0 .. len - 1
    <3>1. g \in Nat /\ r \in Nat /\ r <= len /\ len \in Nat
      BY <1>2, <1>3
    <3> QED
      BY ONLY <1>5, <3>1
  <2>2. \A q \in 0 .. (r - 1) - 1 : f[q] \in Nat
    BY <1>2, <2>1
  <2> QED
    BY <2>1, <2>2, SumGrows
<1>6. start(t, k - 1) = SumTo(f, k - 1) /\ start(t, h - 1) = SumTo(f, h - 1)
  BY <1>2 DEF start
<1>7. ~(k < h)
  <2> SUFFICES ASSUME k < h
               PROVE  FALSE
    OBVIOUS
  <2>1. SumTo(f, k) <= SumTo(f, h - 1)
    BY <1>5
  <2> QED
    BY <1>4, <1>6, <2>1
<1>8. ~(h < k)
  <2> SUFFICES ASSUME h < k
               PROVE  FALSE
    OBVIOUS
  <2>1. SumTo(f, h) <= SumTo(f, k - 1)
    BY <1>5
  <2> QED
    BY <1>4, <1>6, <2>1
<1>9. k = h
  <2>1. k \in Int /\ h \in Int
    OBVIOUS
  <2> QED
    BY <1>7, <1>8, <2>1
<1> QED
  BY <1>4, <1>6, <1>9

LEMMA PlanePatched ==
  ASSUME NEW t \in Threads, FillInv, SlotsInv, ContentInv,
         \A k \in 1 .. next[t] - 1 : InFields(hwVer, task[t][k]),
         NEW k \in 1 .. next[t] - 1, NEW j \in 1 .. Len(descsOf(t, k)), NEW e, WrittenAs(t, e, k, j),
         NEW base, base = SumTo(descSizes(descsOf(t, k)), j - 1),
         NEW p \in Operands(descsOf(t, k)[j])
  PROVE  planeOf(t, e, p) = Addressed(toldOf(t, k), k, base, p)
<1> PICK told, offs : told = toldOf(t, k) /\ offs = offsets[t]
  OBVIOUS
<1> DEFINE T == {m \in DOMAIN offs : offs[m].field = e.at + p.at}
           B == {b \in DOMAIN told : told[b].at = base + p.at}
<1>0. /\ \A m \in T : m \in DOMAIN offs /\ offs[m].field = e.at + p.at
      /\ \A m \in DOMAIN offs : offs[m].field = e.at + p.at => m \in T
      /\ \A b \in B : b \in DOMAIN told /\ told[b].at = base + p.at
      /\ \A b \in DOMAIN told : told[b].at = base + p.at => b \in B
  OBVIOUS
<1>1. base + p.at \in 0 .. queryDSize(hwVer, task[t][k]) - 1
  BY DEF InFields, descsOf
<1>2. e.at = start(t, k - 1) + base
  BY DEF WrittenAs
<1>3. start(t, k - 1) \in Nat /\ base \in Nat
  <2>1. hwVer \in Versions /\ (task[t] = <<>> \/ task[t] \in Tasks[hwVer][t]) /\ CountInv(t)
    BY DEF SlotsInv, SlotInv, CountInv, FillInv, FillTypes
  <2>2. PICK len \in Nat : /\ len = Len(task[t])
                           /\ \A g \in 0 .. len : SumTo(sizes(task[t]), g) \in Nat
                           /\ \A g \in 1 .. len : wellFormed(task[t][g])
    BY <2>1, CountsNat
  <2>3. k \in 1 .. len /\ k - 1 \in 0 .. len /\ supported(task[t][k])
    BY <2>1, <2>2 DEF CountInv
  <2>4. Sized(descsOf(t, k))
    BY <2>1, <2>2, <2>3, FillFits DEF descsOf, supported
  <2>5. Len(descsOf(t, k)) \in Nat
    BY <2>4, SeqFacts DEF Sized
  <2> PICK f, m : f = descSizes(descsOf(t, k)) /\ m = j - 1
    OBVIOUS
  <2>6. m \in Nat /\ \A g \in 0 .. m - 1 : f[g] \in Nat
    BY <2>4, <2>5 DEF Sized
  <2>7. SumTo(f, m) \in Nat
    BY <2>6, SumNat
  <2> QED
    BY <2>2, <2>3, <2>7 DEF start
<1>4. p.at \in Int /\ e.at + p.at = start(t, k - 1) + (base + p.at)
  <2>1. p.at \in Nat
    BY DEF InFields, descsOf
  <2> QED
    BY <1>2, <1>3, <2>1
<1>5. ASSUME NEW m \in T
      PROVE  \E b \in B : ToldAs(t, offs[m], k, b)
  <2>1. m \in DOMAIN offs /\ offs[m].field = e.at + p.at
    BY <1>0
  <2>0. PICK h \in 1 .. next[t] - 1 : \E b \in DOMAIN toldOf(t, h) : ToldAs(t, offs[m], h, b)
    BY <2>1 DEF ContentInv, ToldInv
  <2>2. PICK b \in DOMAIN toldOf(t, h) : ToldAs(t, offs[m], h, b)
    BY <2>0
  <2> PICK y : y = toldOf(t, h)[b].at
    OBVIOUS
  <2>3. y \in 0 .. queryDSize(hwVer, task[t][h]) - 1
    BY DEF InFields, toldOf
  <2>4. start(t, k - 1) + (base + p.at) = start(t, h - 1) + y
    BY <1>4, <2>1, <2>2 DEF ToldAs
  <2>5. k = h /\ base + p.at = y
    BY <1>1, <2>3, <2>4, FieldsApart
  <2> QED
    BY <1>0, <2>2, <2>5
<1>6. ASSUME NEW b \in B
      PROVE  \E m \in T : ToldAs(t, offs[m], k, b)
  <2>1. b \in DOMAIN toldOf(t, k) /\ told[b].at = base + p.at
    BY <1>0
  <2>2. PICK m \in DOMAIN offs : ToldAs(t, offs[m], k, b)
    BY <2>1 DEF ContentInv, ToldInv
  <2>3. offs[m].field = e.at + p.at
    BY <1>4, <2>1, <2>2 DEF ToldAs
  <2> QED
    BY <1>0, <2>2, <2>3
<1>7. \A b, c \in B : told[b].obj = told[c].obj /\ told[b].off = told[c].off
  <2>1. told = Told(hwVer, task[t][k]) /\ InFields(hwVer, task[t][k])
    BY DEF toldOf
  <2>2. \A b, c \in DOMAIN told : told[b].at = told[c].at =>
          told[b].obj = told[c].obj /\ told[b].off = told[c].off
    BY <2>1 DEF InFields
  <2>3. \A b \in B : b \in DOMAIN told /\ told[b].at = base + p.at
    BY <1>0
  <2> HIDE DEF B
  <2> QED
    BY <2>2, <2>3
<1> PICK m, c : m = (CHOOSE g \in T : TRUE) /\ c = (CHOOSE g \in B : TRUE)
  OBVIOUS
<1>8. planeOf(t, e, p) =
        IF T = {} THEN p ELSE [p EXCEPT !.addr = Base(offs[m].object, offs[m].info) + offs[m].off]
  BY DEF planeOf
<1>9. Addressed(toldOf(t, k), k, base, p) =
        IF B = {} THEN p ELSE [p EXCEPT !.addr = Base(told[c].obj, k) + told[c].off]
  BY DEF Addressed
<1>10. T # {} => m \in T
  OBVIOUS
<1>11. B # {} => c \in B
  OBVIOUS
<1> HIDE DEF T, B
<1>12. CASE T = {}
  <2>1. B = {}
    BY <1>6, <1>12
  <2> QED
    BY <1>8, <1>9, <1>12, <2>1
<1>13. CASE T # {}
  <2>1. PICK b \in B : ToldAs(t, offs[m], k, b)
    BY <1>5, <1>10, <1>13
  <2>2. told[b].obj = told[c].obj /\ told[b].off = told[c].off /\ B # {}
    BY <1>7, <1>11, <2>1
  <2>3. offs[m].info = k /\ offs[m].object = told[b].obj /\ offs[m].off = told[b].off
    BY <2>1 DEF ToldAs
  <2> QED
    BY <1>8, <1>9, <1>13, <2>2, <2>3
<1> QED
  BY <1>12, <1>13

LEMMA PatchedRun ==
  ASSUME NEW t \in Threads, FillInv, SlotsInv, ContentInv,
         \A k \in 1 .. next[t] - 1 : InFields(hwVer, task[t][k]),
         NEW k \in 1 .. next[t] - 1, NEW j \in 1 .. Len(descsOf(t, k)), NEW e, WrittenAs(t, e, k, j)
  PROVE  patched(t, e) = AddressedDesc(toldOf(t, k), k, SumTo(descSizes(descsOf(t, k)), j - 1),
                                       descsOf(t, k)[j])
<1> PICK told, base, d : /\ told = toldOf(t, k) /\ base = SumTo(descSizes(descsOf(t, k)), j - 1)
                         /\ d = descsOf(t, k)[j]
  OBVIOUS
<1>1. e.desc = d
  BY DEF WrittenAs
<1>2. patched(t, e) = [d EXCEPT !.src = [h \in DOMAIN @ |-> planeOf(t, e, @[h])],
                                !.dst = [h \in DOMAIN @ |-> planeOf(t, e, @[h])]]
  BY <1>1 DEF patched, planeOf
<1>3. \A p \in Operands(d) : planeOf(t, e, p) = Addressed(told, k, base, p)
  BY PlanePatched
<1>4. /\ \A h \in DOMAIN d.src : planeOf(t, e, d.src[h]) = Addressed(told, k, base, d.src[h])
      /\ \A h \in DOMAIN d.dst : planeOf(t, e, d.dst[h]) = Addressed(told, k, base, d.dst[h])
  BY <1>3 DEF Operands
<1> PICK s, r : /\ s = [h \in DOMAIN d.src |-> planeOf(t, e, d.src[h])]
                /\ r = [h \in DOMAIN d.dst |-> planeOf(t, e, d.dst[h])]
  OBVIOUS
<1>5. /\ s = [h \in DOMAIN d.src |-> Addressed(told, k, base, d.src[h])]
      /\ r = [h \in DOMAIN d.dst |-> Addressed(told, k, base, d.dst[h])]
  BY <1>4
<1>6. patched(t, e) = [d EXCEPT !.src = s, !.dst = r]
  BY <1>2
<1>7. AddressedDesc(told, k, base, d) = [d EXCEPT !.src = s, !.dst = r]
  BY <1>5 DEF AddressedDesc
<1> QED
  BY <1>6, <1>7

\* The descriptors of the n-th info move what it asks for.
Sound(ver, i, n) == InFields(ver, i) /\ Delivers(RunOf(ver, i, n), Requested(i, n))

\* what a thread's task asks for, and what the device runs for it
wanted(t) == UNION {Requested(task[t][k], k) : k \in DOMAIN task[t]}
running(t) == [k \in DOMAIN buf[t] |-> patched(t, buf[t][k])]

Done(t) == pc[t] = "done" /\ \A k \in DOMAIN task[t] : supported(task[t][k])

LEMMA AllFilled ==
  ASSUME FillInv, SlotsInv, NEW t \in Threads, Done(t)
  PROVE  /\ Len(task[t]) \in Nat /\ DOMAIN task[t] = 1 .. Len(task[t])
         /\ next[t] = Len(task[t]) + 1
         /\ \A k \in 1 .. Len(task[t]) : supported(task[t][k]) /\ wellFormed(task[t][k])
         /\ hwVer \in Versions
<1>1. SlotInv(t) /\ CountInv(t)
  BY DEF SlotsInv, SlotInv
<1>2. hwVer \in Versions /\ (task[t] = <<>> \/ task[t] \in Tasks[hwVer][t])
  BY <1>1 DEF CountInv, FillInv, FillTypes
<1>3. PICK len \in Nat : /\ len = Len(task[t]) /\ DOMAIN task[t] = 1 .. len
                         /\ \A k \in 1 .. len : wellFormed(task[t][k])
  BY <1>2, CountsNat
<1>4. next[t] = len + 1
  <2>1. next[t] \in 1 .. len + 1
    BY <1>1, <1>3 DEF CountInv
  <2>2. next[t] # len + 1 => next[t] \in DOMAIN task[t]
    BY <1>3, <2>1
  <2> QED
    BY <1>1, <1>3, <2>2 DEF CountInv, Done
<1> QED
  BY <1>2, <1>3, <1>4 DEF Done

\* Where the descriptors of an info stand among those that run.
LEMMA RunPlaced ==
  ASSUME FillInv, SlotsInv, ContentInv, NEW t \in Threads, Done(t),
         \A k \in DOMAIN task[t] : InFields(hwVer, task[t][k]),
         NEW k \in 1 .. Len(task[t]), NEW D, D = RunOf(hwVer, task[t][k], k)
  PROVE  /\ Len(D) \in Nat /\ before(t, k) = before(t, k - 1) + Len(D)
         /\ before(t, k) \in Nat /\ before(t, k - 1) \in Nat
         /\ Len(buf[t]) = before(t, Len(task[t])) /\ before(t, k) <= Len(buf[t])
         /\ \A j \in 1 .. Len(D) : running(t)[before(t, k - 1) + j] = D[j]
<1> PICK len \in Nat : /\ len = Len(task[t]) /\ DOMAIN task[t] = 1 .. len /\ next[t] = len + 1
                       /\ \A g \in 1 .. len : supported(task[t][g])
  BY AllFilled
<1>1. next[t] - 1 = len /\ len \in 1 .. len /\ k \in 1 .. len
  OBVIOUS
<1>2. /\ \A g \in 1 .. len : IsSeq(descsOf(t, g)) /\ Len(descsOf(t, g)) \in Nat
      /\ \A g \in 1 .. len : before(t, g) = before(t, g - 1) + Len(descsOf(t, g))
      /\ \A g \in 0 .. len : before(t, g) \in Nat
      /\ \A g \in 0 .. len : \A h \in g .. len : before(t, g) <= before(t, h)
  BY <1>1, BeforeNext
<1> PICK d : d = descsOf(t, k)
  OBVIOUS
<1>3. IsSeq(d) /\ Len(d) \in Nat /\ DOMAIN d = 1 .. Len(d)
  BY <1>1, <1>2, SeqFacts
<1>4. D = [j \in DOMAIN d |-> AddressedDesc(toldOf(t, k), k, SumTo(descSizes(d), j - 1), d[j])]
  BY DEF RunOf, toldOf, descsOf
<1>5. Len(D) = Len(d)
  <2>1. D = [j \in 1 .. Len(d) |-> D[j]]
    BY <1>3, <1>4
  <2> QED
    BY <1>3, <2>1, FcnSeq
<1>6. /\ before(t, k) = before(t, k - 1) + Len(d) /\ before(t, k) \in Nat /\ before(t, k - 1) \in Nat
      /\ before(t, k) <= before(t, len)
  <2>1. k \in 0 .. len /\ k - 1 \in 0 .. len /\ len \in k .. len
    BY <1>1
  <2> QED
    BY <1>1, <1>2, <2>1
<1>7. Len(buf[t]) = before(t, len) /\ DOMAIN buf[t] = 1 .. Len(buf[t])
  <2>1. WrittenInv(t) /\ IsSeq(buf[t])
    BY DEF ContentInv, SlotsInv, SlotInv
  <2> QED
    BY <1>1, <2>1, SeqFacts DEF WrittenInv
<1>8. ASSUME NEW j \in 1 .. Len(d)
      PROVE  running(t)[before(t, k - 1) + j] = D[j]
  <2>1. before(t, k - 1) + j \in DOMAIN buf[t]
    <3>1. \A a, b, c, e \in Nat : a = b + c /\ a <= e => \A g \in 1 .. c : b + g \in 1 .. e
      OBVIOUS
    <3>2. before(t, len) \in Nat
      BY <1>1, <1>2
    <3> QED
      BY <1>3, <1>6, <1>7, <3>1, <3>2
  <2> PICK e : e = buf[t][before(t, k - 1) + j]
    OBVIOUS
  <2>2. WrittenAs(t, e, k, j)
    BY <1>1 DEF ContentInv, WrittenInv
  <2>3. \A g \in 1 .. next[t] - 1 : InFields(hwVer, task[t][g])
    BY <1>1
  <2>4. patched(t, e) = AddressedDesc(toldOf(t, k), k, SumTo(descSizes(d), j - 1), d[j])
    BY <1>1, <2>2, <2>3, PatchedRun
  <2> QED
    BY <1>3, <1>4, <2>1, <2>4 DEF running
<1> QED
  BY <1>3, <1>5, <1>6, <1>7, <1>8

\* Infos whose descriptors are sound alone are together.
LEMMA RunArrives ==
  ASSUME FillInv, SlotsInv, ContentInv, NEW t \in Threads, Done(t),
         \A k \in DOMAIN task[t] : Sound(hwVer, task[t][k], k), Apart(wanted(t)),
         NEW result, result = ExecutedAll(running(t))
  PROVE  {<<a, result[a]>> : a \in DOMAIN result} = wanted(t)
<1> PICK len \in Nat : len = Len(task[t]) /\ DOMAIN task[t] = 1 .. len
  BY AllFilled
<1>1. \A k \in DOMAIN task[t] : InFields(hwVer, task[t][k])
  BY DEF Sound
<1> PICK r : r = running(t)
  OBVIOUS
<1> PICK m : m = executed(r)
  OBVIOUS
<1> PICK c, D, R, U : /\ c = [k \in 0 .. len |-> before(t, k)]
                      /\ D = [k \in 1 .. len |-> RunOf(hwVer, task[t][k], k)]
                      /\ R = [k \in 1 .. len |-> Requested(task[t][k], k)]
                      /\ U = wanted(t)
  OBVIOUS
<1>2. before(t, 0) = 0
  BY SumZero DEF before
<1>3. ASSUME NEW k \in 1 .. len
      PROVE  /\ Len(D[k]) \in Nat /\ before(t, k) = before(t, k - 1) + Len(D[k])
             /\ before(t, k) \in Nat /\ before(t, k - 1) \in Nat
             /\ Len(buf[t]) = before(t, len) /\ before(t, k) <= Len(buf[t])
             /\ \A j \in 1 .. Len(D[k]) : r[before(t, k - 1) + j] = D[k][j]
             /\ Delivers(D[k], R[k])
  <2>1. Delivers(D[k], R[k])
    BY DEF Sound
  <2> PICK d : d = D[k]
    OBVIOUS
  <2>2. d = RunOf(hwVer, task[t][k], k) /\ k \in 1 .. Len(task[t])
    OBVIOUS
  <2>3. /\ Len(d) \in Nat /\ before(t, k) = before(t, k - 1) + Len(d)
        /\ before(t, k) \in Nat /\ before(t, k - 1) \in Nat
        /\ Len(buf[t]) = before(t, Len(task[t])) /\ before(t, k) <= Len(buf[t])
        /\ \A j \in 1 .. Len(d) : running(t)[before(t, k - 1) + j] = d[j]
    BY ONLY FillInv, SlotsInv, ContentInv, t \in Threads, Done(t), <1>1, <2>2, RunPlaced
  <2> QED
    BY <2>1, <2>3
<1>4. c \in [0 .. len -> Nat] /\ c[0] = 0 /\ c[len] = before(t, len)
  <2>1. \A k \in 0 .. len : before(t, k) \in Nat
    <3> SUFFICES ASSUME NEW k \in 0 .. len
                 PROVE  before(t, k) \in Nat
      OBVIOUS
    <3>1. CASE k = 0
      BY <1>2, <3>1
    <3>2. CASE k # 0
      <4>1. k \in 1 .. len
        BY <3>2
      <4> QED
        BY ONLY <1>3, <4>1
    <3> QED
      BY <3>1, <3>2
  <2> QED
    BY <1>2, <2>1
<1>5. Len(r) = before(t, len) /\ Len(r) \in Nat
  <2>1. IsSeq(buf[t]) /\ Len(buf[t]) = before(t, len)
    <3>1. WrittenInv(t) /\ IsSeq(buf[t]) /\ next[t] = len + 1
      BY AllFilled DEF ContentInv, SlotsInv, SlotInv
    <3>2. next[t] - 1 = len
      BY <3>1
    <3> QED
      BY <3>1, <3>2 DEF WrittenInv
  <2>2. DOMAIN buf[t] = 1 .. Len(buf[t]) /\ Len(buf[t]) \in Nat
    BY <2>1, SeqFacts
  <2>3. r = [k \in 1 .. Len(buf[t]) |-> r[k]]
    BY <2>2 DEF running
  <2> QED
    BY <2>1, <2>2, <2>3, FcnSeq
<1>6. Runs(m, r)
  BY <1>5, ExecutedRuns
<1>7. m[0].mem = <<>> /\ DOMAIN m[0].mem = {}
  BY <1>6 DEF Runs
<1>8. ASSUME NEW k \in 1 .. len
      PROVE  /\ Len(D[k]) \in Nat /\ c[k] = c[k - 1] + Len(D[k])
             /\ \A j \in 1 .. Len(D[k]) :
                  m[c[k - 1] + j] = Executed(m[c[k - 1] + j - 1], D[k][j])
             /\ Delivers(D[k], R[k])
  <2>1. c[k] = before(t, k) /\ c[k - 1] = before(t, k - 1)
    <3>1. k \in 0 .. len /\ k - 1 \in 0 .. len
      OBVIOUS
    <3> QED
      BY <3>1
  <2>2. ASSUME NEW j \in 1 .. Len(D[k])
        PROVE  m[c[k - 1] + j] = Executed(m[c[k - 1] + j - 1], D[k][j])
    <3>1. c[k - 1] + j \in 1 .. Len(r)
      <4>1. \A a, b, g, e \in Nat : a = b + g /\ a <= e => \A h \in 1 .. g : b + h \in 1 .. e
        OBVIOUS
      <4>2. /\ Len(D[k]) \in Nat /\ before(t, k) = before(t, k - 1) + Len(D[k])
            /\ before(t, k) \in Nat /\ before(t, k - 1) \in Nat /\ before(t, k) <= Len(r)
        BY <1>3, <1>5
      <4> QED
        BY ONLY <1>5, <2>1, <4>1, <4>2, j \in 1 .. Len(D[k])
    <3>2. r[before(t, k - 1) + j] = D[k][j]
      BY ONLY <1>3, k \in 1 .. len, j \in 1 .. Len(D[k])
    <3> PICK h : h = c[k - 1] + j
      OBVIOUS
    <3>3. h \in 1 .. Len(r) /\ r[h] = D[k][j]
      BY <2>1, <3>1, <3>2
    <3>4. m[h] = Executed(m[h - 1], r[h])
      BY <1>6, <3>3 DEF Runs
    <3>5. h - 1 = c[k - 1] + j - 1
      <4>1. before(t, k - 1) \in Nat /\ Len(D[k]) \in Nat
        BY <1>3
      <4> QED
        BY <2>1, <4>1
    <3> QED
      BY <3>3, <3>4, <3>5
  <2> QED
    BY <1>3, <2>1, <2>2
<1>9. U = UNION {R[k] : k \in 1 .. len}
  BY DEF wanted
<1>10. DOMAIN m[0].mem \cap ReadBy(U) = {} /\ Request(U) /\ ReadBy(U) \cap WrittenBy(U) = {}
  BY <1>7 DEF Apart
<1>11. Arrived(U, m[0].mem, m[c[len]].mem)
  BY ONLY len \in Nat, <1>4, <1>8, <1>9, <1>10, InfosDeliver
<1>12. result = m[c[len]].mem
  BY <1>4, <1>5 DEF ExecutedAll
<1> QED
  BY <1>7, <1>10, <1>11, <1>12, ArrivedAll

\* Fields told of lie in size bytes, none is told of as two things.
ToldIn(told, extent) ==
  /\ \A b \in DOMAIN told : told[b].at \in 0 .. extent - 1
  /\ \A b, c \in DOMAIN told : told[b].at = told[c].at =>
       told[b].obj = told[c].obj /\ told[b].off = told[c].off

FieldsIn(d, base, extent) ==
  \A p \in Operands(d) : p.at \in Nat /\ base + p.at \in 0 .. extent - 1

LEMMA OneInFields ==
  ASSUME NEW ver, NEW i, NEW d, NEW extent, fillDesc(ver, i).descs = <<d>>,
         extent = queryDSize(ver, i), ToldIn(Told(ver, i), extent), FieldsIn(d, 0, extent)
  PROVE  InFields(ver, i)
<1> PICK descs, told : descs = fillDesc(ver, i).descs /\ told = Told(ver, i)
  OBVIOUS
<1>1. \A j \in 1 .. Len(descs) : \A p \in Operands(descs[j]) :
        p.at \in Nat /\ SumTo(descSizes(descs), j - 1) + p.at \in 0 .. extent - 1
  <2> SUFFICES ASSUME NEW j \in 1 .. Len(descs), NEW p \in Operands(descs[j])
               PROVE  p.at \in Nat /\ SumTo(descSizes(descs), j - 1) + p.at \in 0 .. extent - 1
    OBVIOUS
  <2>1. j = 1 /\ descs[1] = d /\ j - 1 = 0
    OBVIOUS
  <2>2. SumTo(descSizes(descs), 0) = 0
    BY SumZero
  <2> QED
    BY <2>1, <2>2 DEF FieldsIn
<1> QED
  BY <1>1 DEF InFields, ToldIn

LEMMA FieldsAt ==
  ASSUME NEW d, NEW p, NEW q, NEW extent, d.src = <<p>> \/ d.src = <<>>, d.dst = <<q>>,
         extent \in Nat, p.at \in 0 .. extent - 1, q.at \in 0 .. extent - 1
  PROVE  FieldsIn(d, 0, extent)
<1>1. \A r \in Operands(d) : r = p \/ r = q
  BY DEF Operands
<1> QED
  BY <1>1 DEF FieldsIn

LEMMA ToldNothing ==
  ASSUME NEW extent
  PROVE  ToldIn(<<>>, extent)
BY DEF ToldIn

\* The source and the destination at their usual fields.
LEMMA ToldBoth ==
  ASSUME NEW extent \in Nat, extent >= 64, NEW x, NEW y
  PROVE  ToldIn(<<Bind(SrcAddr0, "in", x), Bind(DstAddr0, "out", y)>>, extent)
<1> PICK told : told = <<Bind(SrcAddr0, "in", x), Bind(DstAddr0, "out", y)>>
  OBVIOUS
<1>1. DOMAIN told = {1, 2} /\ told[1].at = 28 /\ told[2].at = 32
  BY DEF Bind, SrcAddr0, DstAddr0
<1> QED
  BY <1>1 DEF ToldIn

LEMMA ToldInOut ==
  ASSUME NEW extent \in Nat, extent >= 64
  PROVE  ToldIn(InOut(0), extent)
<1>1. InOut(0) = <<Bind(SrcAddr0, "in", 0), Bind(DstAddr0, "out", 0)>>
  BY DEF InOut, Bind, SrcAddr0, DstAddr0
<1> QED
  BY <1>1, ToldBoth

LEMMA PlaneField ==
  ASSUME NEW type, NEW pos, NEW addr, NEW s, NEW t
  PROVE  TypedPlane(type, pos, addr, s, t).at = pos /\ Plane(pos, addr, s, t).at = pos
BY DEF TypedPlane, Plane
-----------------------------------------------------------------------------
LEMMA ImageInFields ==
  ASSUME NEW ver \in {20, 30}, NEW i, i.info_type = "GENERAL", PlainImage(ver, i)
  PROVE  InFields(ver, i)
<1>0. ~rotates(i) /\ ~resizes(i)
  BY DEF PlainImage
<1>1. CASE ver = 20
  <2> PICK d : fillDesc(ver, i).descs = <<d>> /\ d = fillDescV20(i).descs[1]
    BY <1>1 DEF fillDesc, fillDescV20, Filled
  <2> PICK widen : widen = IF i.inFormat = "YUV422_8B" /\ i.outFormat = "ARGB_8" THEN 2 ELSE 1
    OBVIOUS
  <2> PICK e : e = imageDesc(i, 20, widen)
    OBVIOUS
  <2> PICK a, b :
        /\ a = TypedPlane(20, srcField(20), i.inBuf_addr, <<i.size_x, i.size_y, i.size_z>>,
                          <<i.size_x, i.size_x * i.size_y>>)
        /\ b = TypedPlane(20, dstField(20), i.outBuf_addr, <<widen * i.size_x, i.size_y, i.size_z>>,
                          <<i.dst_stride_x, i.dst_stride_x * i.dst_stride_y>>)
    OBVIOUS
  <2> PICK p, q : /\ p = [a EXCEPT !.yp = i.size_y, !.zs = i.size_z % FieldSize]
                  /\ q = [b EXCEPT !.yp = i.dst_stride_y, !.zs = 1]
    OBVIOUS
  <2>5. e.src[1] = a /\ e.dst[1] = b
    BY DEF imageDesc, Desc
  <2>6. d = [e EXCEPT !.src = <<[@[1] EXCEPT !.yp = i.size_y, !.zs = i.size_z % FieldSize]>>,
                      !.dst = <<[@[1] EXCEPT !.yp = i.dst_stride_y, !.zs = 1]>>]
    BY DEF fillDescV20, Filled
  <2>7. d = between(e, p, q)
    BY <2>5, <2>6 DEF between
  <2>8. d.src = <<p>> /\ d.dst = <<q>>
    BY <2>7 DEF between, imageDesc, Desc
  <2>1. p.at = 44 /\ q.at = 52
    BY DEF TypedPlane, srcField, dstField
  <2>2. queryDSize(ver, i) = 96
    BY <1>1 DEF queryDSize, V20Types, descSize
  <2>3. FieldsIn(d, 0, 96)
    <3>1. \A r \in Operands(d) : r = p \/ r = q
      BY <2>8 DEF Operands
    <3> QED
      BY ONLY <2>1, <3>1 DEF FieldsIn
  <2>4. Told(ver, i) = <<>>
    <3>1. ~i.bind
      BY <1>1 DEF PlainImage
    <3> QED
      BY <3>1 DEF Told
  <2> QED
    BY <2>2, <2>3, <2>4, OneInFields, ToldNothing
<1>2. CASE ver = 30
  <2>0. fillDesc(ver, i) = fillDescV0(i) /\ queryDSize(ver, i) = descSize(checkDescrpType(i))
    BY <1>0, <1>2 DEF fillDesc, queryDSize, edma_queryDSize, V20Types
  <2>1. PICK type, widen : /\ type \in {0, 5} /\ fillDescV0(i) = Filled(<<imageDesc(i, type, widen)>>, InOut(0))
                         /\ checkDescrpType(i) = type
    <3>1. CASE i.inFormat = "YUV422_8B" /\ i.outFormat = "ARGB_8"
      <4>1. checkDescrpType(i) = 5
        BY <1>0, <3>1 DEF checkDescrpType
      <4>2. fillDescV0(i) = Filled(<<imageDesc(i, 5, 2)>>, InOut(0))
        BY <1>0, <4>1 DEF fillDescV0
      <4> QED
        BY <4>1, <4>2
    <3>2. CASE ~(i.inFormat = "YUV422_8B" /\ i.outFormat = "ARGB_8")
      <4>1. checkDescrpType(i) = 0
        BY <1>0, <3>2 DEF checkDescrpType
      <4>2. fillDescV0(i) = Filled(<<imageDesc(i, 0, 1)>>, InOut(0))
        BY <1>0, <4>1 DEF fillDescV0
      <4> QED
        BY <4>1, <4>2
    <3> QED
      BY <3>1, <3>2
  <2> PICK d : d = imageDesc(i, type, widen)
    OBVIOUS
  <2>2. fillDesc(ver, i).descs = <<d>> /\ (Told(ver, i) = <<>> \/ Told(ver, i) = InOut(0))
    BY <2>0, <2>1 DEF Filled, Told
  <2>3. queryDSize(ver, i) \in Nat /\ queryDSize(ver, i) >= 64
    BY <2>0, <2>1 DEF descSize
  <2>4. PICK p, q : d.src = <<p>> /\ d.dst = <<q>> /\ p.at = 28 /\ q.at = 32
    BY <2>1 DEF imageDesc, TypedPlane, srcField, dstField, Desc, SrcAddr0, DstAddr0
  <2>5. FieldsIn(d, 0, queryDSize(ver, i))
    <3> PICK extent : extent = queryDSize(ver, i)
      OBVIOUS
    <3>1. extent \in Nat /\ p.at \in 0 .. extent - 1 /\ q.at \in 0 .. extent - 1
      BY <2>3, <2>4
    <3> QED
      BY ONLY <2>4, <3>1, FieldsAt, extent = queryDSize(ver, i)
  <2> QED
    BY <2>2, <2>3, <2>5, OneInFields, ToldNothing, ToldInOut
<1> QED
  BY <1>1, <1>2

LEMMA DataInFields ==
  ASSUME NEW ver \in {20, 30}, NEW i, i.info_type = "DATA", PlainData(ver, i)
  PROVE  InFields(ver, i)
<1>0. PICK extent : extent = queryDSize(ver, i) /\ extent = (IF ver = 20 THEN 96 ELSE 64)
  BY DEF queryDSize, V20Types, edma_queryDSize, descSize
<1>1. CASE movesNothing(i)
  <2>1. ver = 30
    BY <1>1 DEF PlainData
  <2>2. fillDesc(ver, i).descs = <<Desc(2)>> /\ fillDesc(ver, i).binds = <<>>
    BY <1>1, <2>1 DEF fillDesc, fillDescData, movesNothing, Filled
  <2>3. Operands(Desc(2)) = {}
    BY DEF Operands, Desc
  <2>4. FieldsIn(Desc(2), 0, extent) /\ Told(ver, i) = <<>>
    BY <2>2, <2>3 DEF FieldsIn, Told
  <2>5. ToldIn(Told(ver, i), extent)
    BY <2>4, ToldNothing
  <2> QED
    BY <1>0, <2>2, <2>4, <2>5, OneInFields
<1>2. CASE ~movesNothing(i)
  <2>1. PICK d, p, q : DataOperands(ver, i, d, p, q)
    BY <1>2, DataDescs
  <2> PICK type : type = IF ver = 20 THEN 20 ELSE 0
    OBVIOUS
  <2>2. d = dataDesc(i, type)
    <3>1. fillDesc(ver, i).descs = <<>> \/ fillDesc(ver, i).descs = <<dataDesc(i, type)>>
      BY <1>2 DEF fillDesc, fillDescData, fillDescDataV20, movesNothing, Filled, Refused
    <3> QED
      BY <2>1, <3>1 DEF DataOperands
  <2>3. PICK r, s : d.src = <<r>> /\ d.dst = <<s>> /\ r.at = srcField(type) /\ s.at = dstField(type)
    BY <2>2 DEF dataDesc, TypedPlane, Desc
  <2>4. extent \in Nat /\ extent >= 64 /\ r.at \in 0 .. extent - 1 /\ s.at \in 0 .. extent - 1
    BY <1>0, <2>3 DEF srcField, dstField, SrcAddr0, DstAddr0
  <2>5. FieldsIn(d, 0, extent)
    BY <2>3, <2>4, FieldsAt
  <2>6. Told(ver, i) = <<>> \/ Told(ver, i) = InOut(0)
    <3>1. i.bind => ver = 30
      BY DEF PlainData
    <3>2. ver = 30 => fillDesc(ver, i).binds = InOut(0)
      BY <2>1 DEF DataOperands
    <3> QED
      BY <3>1, <3>2 DEF Told
  <2>7. fillDesc(ver, i).descs = <<d>>
    BY <2>1 DEF DataOperands
  <2>8. ToldIn(Told(ver, i), extent)
    BY <2>4, <2>6, ToldNothing, ToldInOut
  <2> QED
    BY <1>0, <2>5, <2>7, <2>8, OneInFields
<1> QED
  BY <1>1, <1>2

LEMMA TensorInFields ==
  ASSUME NEW ver \in {20, 30}, NEW i, i.info_type = "NN", PlainTensor(i)
  PROVE  InFields(ver, i)
<1>1. i.inFormat \notin FastFormats
  BY DEF PlainTensor
<1> PICK type : type = checkDescrpType(i)
  OBVIOUS
<1>2. type \in {0, 1, 5, 15}
  BY <1>1, TensorTypes
<1>3. fillDesc(ver, i) = fillDescNN(i) /\ queryDSize(ver, i) = descSize(type)
  BY <1>1 DEF fillDesc, queryDSize, edma_queryDSize, V20Types, FastFormats
<1> PICK extent : extent = descSize(type)
  OBVIOUS
<1>4. extent \in Nat /\ extent >= 64 /\ (type = 5 => extent = 128)
  BY <1>2 DEF descSize
<1>5. CASE type # 5
  <2>1. PICK d : fillDescNN(i) = Filled(<<d>>, InOut(0)) /\ (d = nnCopy(i) \/ \E s, t : d = nnRepack(i, type, s, t))
    <3>1. /\ i.inFormat # "DEPTHTOSPACE" /\ i.inFormat # "DEPTHTOSPACE_FAST" /\ i.inFormat # "S2D_FAST"
          /\ type \in {0, 1, 15}
      BY <1>1, <1>2, <1>5 DEF FastFormats
    <3>2. CASE type = 0
      <4>1. fillDescNN(i) = Filled(<<nnCopy(i)>>, InOut(0))
        BY <3>1, <3>2 DEF fillDescNN
      <4> QED
        BY <4>1
    <3>3. CASE type = 1
      <4>1. fillDescNN(i) = Filled(<<nnRepack(i, 1, 3, 4)>>, InOut(0))
        BY <3>1, <3>3 DEF fillDescNN
      <4> QED
        BY <3>3, <4>1
    <3>4. CASE type = 15
      <4>1. fillDescNN(i) = Filled(<<nnRepack(i, 15, 4, 3)>>, InOut(0))
        BY <3>1, <3>4 DEF fillDescNN
      <4> QED
        BY <3>4, <4>1
    <3> QED
      BY <3>1, <3>2, <3>3, <3>4
  <2>2. PICK p, q : d.src = <<p>> /\ d.dst = <<q>> /\ p.at = 28 /\ q.at = 32
    <3>1. CASE d = nnCopy(i)
      BY <3>1 DEF nnCopy, Plane, TypedPlane, Desc, SrcAddr0, DstAddr0
    <3>2. CASE \E s, t : d = nnRepack(i, type, s, t)
      BY <3>2 DEF nnRepack, Plane, TypedPlane, Desc, SrcAddr0, DstAddr0
    <3> QED
      BY <2>1, <3>1, <3>2
  <2>3. FieldsIn(d, 0, extent)
    BY <1>4, <2>2, FieldsAt
  <2>4. fillDesc(ver, i).descs = <<d>> /\ Told(ver, i) = InOut(0)
    BY <1>3, <2>1 DEF Filled, Told
  <2> QED
    BY <1>3, <1>4, <2>3, <2>4, OneInFields, ToldInOut
<1>6. CASE type = 5
  <2> PICK d, told : d = nnLuma(i) /\ told = Told(ver, i)
    OBVIOUS
  <2>1. /\ fillDesc(ver, i).descs = <<d>>
        /\ told = <<Bind(SrcAddr1, "in", 0), Bind(SrcAddr0, "in", 0), Bind(DstAddr0, "out", 0)>>
    <3>1. fillDescNN(i) = Filled(<<d>>, <<Bind(SrcAddr1, "in", 0), Bind(SrcAddr0, "in", 0),
                                         Bind(DstAddr0, "out", 0)>>)
      BY <1>1, <1>6 DEF fillDescNN, FastFormats
    <3> QED
      BY <1>3, <3>1 DEF Filled, Told
  <2>2. PICK p, q : d.src = <<p>> /\ d.dst = <<q>> /\ p.at = 92 /\ q.at = 32
    BY DEF nnLuma, Plane, TypedPlane, Desc, SrcAddr1, DstAddr0
  <2>3. FieldsIn(d, 0, extent)
    <3>1. extent \in Nat /\ p.at \in 0 .. extent - 1 /\ q.at \in 0 .. extent - 1
      BY <1>4, <1>6, <2>2
    <3> QED
      BY ONLY <2>2, <3>1, FieldsAt
  <2>4. DOMAIN told = {1, 2, 3} /\ told[1].at = 92 /\ told[2].at = 28 /\ told[3].at = 32
    BY <2>1 DEF Bind, SrcAddr0, SrcAddr1, DstAddr0
  <2>5. ToldIn(told, extent)
    BY <1>4, <1>6, <2>4 DEF ToldIn
  <2> QED
    BY <1>3, <2>1, <2>3, <2>5, OneInFields
<1> QED
  BY <1>5, <1>6

LEMMA SliceInFields ==
  ASSUME NEW ver \in {20, 30}, NEW i, i.info_type = "SLICE"
  PROVE  InFields(ver, i)
<1> PICK d : fillDesc(ver, i).descs = <<d>> /\ d = fillDescSlice(i).descs[1]
  BY DEF fillDesc, fillDescSlice, Filled
<1> PICK p, q : /\ p = Plane(SrcAddr0, i.src_addr, i.src_size, i.src_pitch)
                /\ q = Plane(DstAddr0, i.dst_addr, i.dst_size, i.dst_pitch)
  OBVIOUS
<1>1. d.src = <<p>> /\ d.dst = <<q>> /\ p.at = 28 /\ q.at = 32
  <2>1. p.at = 28 /\ q.at = 32
    BY PlaneField DEF SrcAddr0, DstAddr0
  <2> QED
    BY <2>1 DEF fillDescSlice, Filled, Desc
<1>2. queryDSize(ver, i) = 64
  BY DEF queryDSize, V20Types, descSize
<1>3. FieldsIn(d, 0, 64)
  <2>1. p.at \in 0 .. 64 - 1 /\ q.at \in 0 .. 64 - 1
    BY <1>1
  <2> QED
    BY ONLY <1>1, <2>1, FieldsAt
<1>4. \/ Told(ver, i) = <<>>
      \/ Told(ver, i) = <<Bind(SrcAddr0, "in", i.src_addr), Bind(DstAddr0, "out", i.dst_addr)>>
  BY DEF Told, fillDesc, fillDescSlice, Filled
<1> QED
  BY <1>2, <1>3, <1>4, OneInFields, ToldNothing, ToldBoth

LEMMA PadInFields ==
  ASSUME NEW ver \in {20, 30}, NEW i, i.info_type = "PAD", PlainPad(i)
  PROVE  InFields(ver, i)
<1>1. PICK d, e, q, p, r, binds : PadOperands(i, ver, d, e, q, p, r, binds)
  BY PadDescs
<1> PICK descs, told : descs = fillDesc(ver, i).descs /\ told = Told(ver, i)
  OBVIOUS
<1>2. /\ descs = <<d, e>> /\ d.type = 0 /\ d.src = <<>> /\ d.dst = <<q>> /\ e.src = <<p>> /\ e.dst = <<r>>
      /\ q.at = 32 /\ p.at = 28 /\ r.at = 32
      /\ told = <<>> \/ told = binds
      /\ binds = <<Bind(32, "out", q.addr), Bind(92, "in", p.addr), Bind(96, "out", r.addr)>>
  <2>1. d.src = <<>>
    <3>1. fillDesc(ver, i).descs = <<padFill(i), padCentre(i)>>
      BY DEF fillDesc, fillDescPad, PlainPad, Filled
    <3>2. d = padFill(i)
      BY <1>1, <3>1 DEF PadOperands
    <3> QED
      BY <3>2 DEF padFill, Desc
  <2>2. d.dst = <<q>> /\ e.src = <<p>> /\ e.dst = <<r>>
    BY <1>1 DEF PadOperands, Fills, OneToOne
  <2>3. q.at = 32 /\ p.at = 28 /\ r.at = 32
    BY <1>1 DEF PadOperands, Held3, SrcAddr0, DstAddr0
  <2>4. told = <<>> \/ told = binds
    BY <1>1 DEF PadOperands, Told
  <2>5. /\ descs = <<d, e>> /\ d.type = 0
        /\ binds = <<Bind(32, "out", q.addr), Bind(92, "in", p.addr), Bind(96, "out", r.addr)>>
    BY <1>1 DEF PadOperands
  <2> QED
    BY <2>1, <2>2, <2>3, <2>4, <2>5
<1>3. queryDSize(ver, i) = 128
  BY DEF queryDSize, V20Types, edma_queryPadDSize, edma_queryPadDNum, PlainPad, descSize
<1>4. \A b \in DOMAIN told : told[b].at \in 0 .. 128 - 1
  <2>1. CASE told = <<>>
    BY <2>1
  <2>2. CASE told = binds
    <3>1. DOMAIN told = {1, 2, 3} /\ told[1].at = 32 /\ told[2].at = 92 /\ told[3].at = 96
      BY <1>2, <2>2 DEF Bind
    <3> QED
      BY <3>1
  <2> QED
    BY <1>2, <2>1, <2>2
<1>5. \A b, c \in DOMAIN told : told[b].at = told[c].at => b = c
  <2>1. CASE told = <<>>
    BY <2>1
  <2>2. CASE told = binds
    <3>1. DOMAIN told = {1, 2, 3} /\ told[1].at = 32 /\ told[2].at = 92 /\ told[3].at = 96
      BY <1>2, <2>2 DEF Bind
    <3> QED
      BY <3>1
  <2> QED
    BY <1>2, <2>1, <2>2
<1>6. SumTo(descSizes(descs), 0) = 0 /\ SumTo(descSizes(descs), 1) = 64
  BY <1>2, TwoBases
<1>7. /\ \A o \in Operands(d) : o.at = 32
      /\ \A o \in Operands(e) : o.at = 28 \/ o.at = 32
  <2>1. \A o \in Operands(d) : o = q
    BY <1>2 DEF Operands
  <2>2. \A o \in Operands(e) : o = p \/ o = r
    BY <1>2 DEF Operands
  <2> QED
    BY <1>2, <2>1, <2>2
<1>8. \A j \in 1 .. Len(descs) : \A o \in Operands(descs[j]) :
        o.at \in Nat /\ SumTo(descSizes(descs), j - 1) + o.at \in 0 .. 128 - 1
  <2> SUFFICES ASSUME NEW j \in 1 .. Len(descs), NEW o \in Operands(descs[j])
               PROVE  o.at \in Nat /\ SumTo(descSizes(descs), j - 1) + o.at \in 0 .. 128 - 1
    OBVIOUS
  <2>1. j = 1 \/ j = 2
    BY <1>2
  <2>2. CASE j = 1
    <3>1. descs[j] = d /\ SumTo(descSizes(descs), j - 1) = 0
      <4>1. descs[1] = d /\ j - 1 = 0
        BY <1>2, <2>2
      <4> QED
        BY <1>6, <2>2, <4>1
    <3>2. o.at = 32
      BY <1>7, <3>1
    <3> QED
      BY <3>1, <3>2
  <2>3. CASE j = 2
    <3>1. descs[j] = e /\ SumTo(descSizes(descs), j - 1) = 64
      <4>1. descs[2] = e /\ j - 1 = 1
        BY <1>2, <2>3
      <4> QED
        BY <1>6, <2>3, <4>1
    <3>2. o.at = 28 \/ o.at = 32
      BY <1>7, <3>1
    <3>3. 28 + 64 \in 0 .. 127 /\ 64 + 28 \in 0 .. 127 /\ 64 + 32 \in 0 .. 127
      OBVIOUS
    <3>4. 128 - 1 = 127 /\ 28 \in Nat /\ 32 \in Nat
      OBVIOUS
    <3> QED
      BY ONLY <3>1, <3>2, <3>3, <3>4
  <2> QED
    BY <2>1, <2>2, <2>3
<1> QED
  BY <1>3, <1>4, <1>5, <1>8 DEF InFields
-----------------------------------------------------------------------------
\* The infos that the proofs cover: sizes fit the fields of a descriptor.
Plain(ver, i) ==
  \/ i.info_type = "GENERAL" /\ PlainImage(ver, i)
  \/ i.info_type = "DATA" /\ PlainData(ver, i)
  \/ i.info_type = "NN" /\ PlainTensor(i)
  \/ i.info_type = "SLICE" /\ PlainSlice(i)
  \/ i.info_type = "PAD" /\ PlainPad(i)

LEMMA PlainSound ==
  ASSUME NEW ver \in {20, 30}, NEW i, NEW n \in Nat, Plain(ver, i), Apart(Requested(i, n))
  PROVE  Sound(ver, i, n)
<1>1. Request(Requested(i, n))
  BY DEF Apart
<1>2. InFields(ver, i)
  BY ImageInFields, DataInFields, TensorInFields, SliceInFields, PadInFields DEF Plain
<1>3. Delivers(RunOf(ver, i, n), Requested(i, n))
  BY <1>1, ImageDelivers, DataDelivers, TensorDelivers, SliceDelivers, PadDelivers DEF Plain
<1> QED
  BY <1>2, <1>3 DEF Sound

LEMMA ApartPart ==
  ASSUME NEW R, NEW Q, R \subseteq Q, Apart(Q)
  PROVE  Apart(R)
BY RequestPart DEF Apart

\* Each descriptor written is one of an info.
LEMMA EveryPlace ==
  ASSUME FillInv, SlotsInv, ContentInv, NEW t \in Threads, NEW x \in DOMAIN buf[t]
  PROVE  \E k \in 1 .. next[t] - 1 : \E j \in 1 .. Len(descsOf(t, k)) : WrittenAs(t, buf[t][x], k, j)
<1>1. hwVer \in Versions /\ (task[t] = <<>> \/ task[t] \in Tasks[hwVer][t]) /\ CountInv(t) /\ SlotInv(t)
  BY DEF SlotsInv, SlotInv, CountInv, FillInv, FillTypes
<1>2. PICK len \in Nat : len = Len(task[t])
  BY <1>1, CountsNat
<1>3. PICK n \in Nat : n = next[t] - 1 /\ n <= len /\ \A k \in 1 .. n : supported(task[t][k])
  BY <1>1, <1>2 DEF CountInv
<1>4. WrittenInv(t)
  BY DEF ContentInv
<1>5. x \in 1 .. before(t, n)
  <2>1. DOMAIN buf[t] = 1 .. Len(buf[t])
    BY <1>1, SeqFacts DEF SlotInv
  <2> QED
    BY <1>3, <1>4, <2>1 DEF WrittenInv
<1> DEFINE Place(m) == \E k \in 1 .. m : \E j \in 1 .. Len(descsOf(t, k)) : x = before(t, k - 1) + j
           S == {m \in 0 .. n : x \in 1 .. before(t, m) => Place(m)}
<1>6. 0 \in S
  <2>1. before(t, 0) = 0
    BY SumZero DEF before
  <2> QED
    BY <2>1
<1>7. ASSUME NEW m \in 0 .. n - 1, m \in S
      PROVE  m + 1 \in S
  <2> SUFFICES ASSUME x \in 1 .. before(t, m + 1)
               PROVE  Place(m + 1)
    OBVIOUS
  <2>1. n \in 1 .. Len(task[t]) /\ m + 1 \in 1 .. n /\ (m + 1) - 1 = m
    BY <1>2, <1>3
  <2>2. /\ before(t, m + 1) = before(t, m) + Len(descsOf(t, m + 1))
        /\ Len(descsOf(t, m + 1)) \in Nat /\ before(t, m) \in Nat
    <3>1. m \in 0 .. n
      OBVIOUS
    <3> QED
      BY <1>3, <2>1, <3>1, BeforeNext
  <2>3. CASE x \in 1 .. before(t, m)
    <3>1. Place(m)
      BY <1>7, <2>3
    <3>2. \A k \in 1 .. m : k \in 1 .. m + 1
      OBVIOUS
    <3> QED
      BY <3>1, <3>2
  <2>4. CASE x \notin 1 .. before(t, m)
    <3> PICK j : j = x - before(t, m)
      OBVIOUS
    <3>1. j \in 1 .. Len(descsOf(t, m + 1)) /\ x = before(t, (m + 1) - 1) + j
      BY <2>1, <2>2, <2>4
    <3>2. m + 1 \in 1 .. m + 1
      OBVIOUS
    <3> QED
      BY <3>1, <3>2
  <2> QED
    BY <2>3, <2>4
<1>8. Place(n)
  <2> HIDE DEF S
  <2>1. 0 .. n \subseteq S
    BY <1>6, <1>7, BoundedInduction
  <2>2. n \in S
    BY <2>1
  <2> USE DEF S
  <2> QED
    BY <1>5, <2>2
<1>9. PICK k \in 1 .. n : \E j \in 1 .. Len(descsOf(t, k)) : x = before(t, k - 1) + j
  BY <1>8
<1>10. PICK j \in 1 .. Len(descsOf(t, k)) : x = before(t, k - 1) + j
  BY <1>9
<1>11. WrittenAs(t, buf[t][x], k, j)
  BY <1>3, <1>4, <1>10 DEF WrittenInv
<1> QED
  BY <1>3, <1>11
-----------------------------------------------------------------------------
\* A sixteenth of the pixels of whole blocks of 32 by 8.
LEMMA HeaderBytes ==
  ASSUME NEW w \in Nat, NEW h \in Nat
  PROVE  /\ ufbcPayload(alignUp(w, 32), alignUp(h, 8)) = 16 * tiles(w, 32) * tiles(h, 8)
         /\ w % 32 = 0 /\ h % 8 = 0 => ufbcPayload(w, h) = 16 * tiles(w, 32) * tiles(h, 8)
<1>1. tiles(w, 32) \in Int /\ tiles(h, 8) \in Int
  BY DEF tiles
<1> PICK u \in Int, v \in Int : u = tiles(w, 32) /\ v = tiles(h, 8)
  BY <1>1
<1>2. (u * 32) * (v * 8) = 256 * (u * v) /\ u * v \in Int
  OBVIOUS
<1>3. (256 * (u * v)) \div 16 = 16 * (u * v)
  <2> PICK z \in Int : z = u * v
    BY <1>2
  <2>1. (256 * z) \div 16 = 16 * z
    OBVIOUS
  <2> QED
    BY <2>1
<1>4. 16 * tiles(w, 32) * tiles(h, 8) = 16 * (u * v)
  OBVIOUS
<1>5. ufbcPayload(u * 32, v * 8) = 16 * (u * v)
  BY <1>2, <1>3 DEF ufbcPayload
<1>6. ASSUME w % 32 = 0, h % 8 = 0
      PROVE  w = u * 32 /\ h = v * 8
  BY <1>6 DEF tiles
<1> QED
  BY <1>4, <1>5, <1>6 DEF alignUp

LEMMA PayloadHolds ==
  ASSUME FillInv, SlotsInv, ContentInv, NEW t \in Threads, NEW e \in written(t)
  PROVE  PayloadBehindHeaders(infoOf(t, e), e)
<1>1. hwVer \in Versions /\ (task[t] = <<>> \/ task[t] \in Tasks[hwVer][t]) /\ CountInv(t)
  BY DEF SlotsInv, SlotInv, CountInv, FillInv, FillTypes
<1>2. PICK x \in DOMAIN buf[t] : e = buf[t][x]
  BY DEF written, Range
<1>3. PICK k \in 1 .. next[t] - 1 : \E j \in 1 .. Len(descsOf(t, k)) : WrittenAs(t, e, k, j)
  BY <1>2, EveryPlace
<1>4. PICK j \in 1 .. Len(descsOf(t, k)) : WrittenAs(t, e, k, j)
  BY <1>3
<1> PICK i : i = task[t][k]
  OBVIOUS
<1>5. e.desc = fillDesc(hwVer, i).descs[j] /\ infoOf(t, e) = i
  BY <1>4 DEF WrittenAs, infoOf, descsOf
<1>6. wellFormed(i)
  <2>1. k \in 1 .. Len(task[t])
    <3>1. Len(task[t]) \in Nat
      BY <1>1, CountsNat
    <3> QED
      BY <1>1, <3>1 DEF CountInv
  <2> QED
    BY <1>1, <2>1, CountsNat
<1> SUFFICES ASSUME i.info_type = "UFBC",
                    hwVer = 20 \/ i.encode \/ (i.size_x % 32 = 0 /\ i.size_y % 8 = 0)
             PROVE  e.desc.payload = 16 * tiles(i.size_x, 32) * tiles(i.size_y, 8)
  BY <1>5 DEF PayloadBehindHeaders
<1>7. i.size_x \in Nat /\ i.size_y \in Nat
  BY <1>6 DEF wellFormed
<1>8. PICK type, payload, pitch :
        /\ fillDesc(hwVer, i).descs = <<ufbcDesc(i, type, payload, pitch)>>
        /\ payload = 16 * tiles(i.size_x, 32) * tiles(i.size_y, 8)
  <2>1. CASE hwVer = 20
    <3>1. fillDesc(hwVer, i).descs = <<ufbcDesc(i, 20, ufbcAligned(i), 4 * i.crop.x_size)>>
      BY <2>1 DEF fillDesc, fillDescUFBCV20, Filled
    <3> QED
      BY <1>7, <3>1, HeaderBytes DEF ufbcAligned
  <2>2. CASE hwVer # 20
    <3> PICK payload : payload = IF i.encode THEN ufbcAligned(i) ELSE ufbcPayload(i.size_x, i.size_y)
      OBVIOUS
    <3>1. fillDesc(hwVer, i).descs = <<ufbcDesc(i, 5, payload, 4 * i.dst_stride_x)>>
      BY <2>2 DEF fillDesc, fillDescUFBC, Filled
    <3>2. payload = 16 * tiles(i.size_x, 32) * tiles(i.size_y, 8)
      BY <1>7, <2>2, HeaderBytes DEF ufbcAligned
    <3> QED
      BY <3>1, <3>2
  <2> QED
    BY <2>1, <2>2
<1>9. e.desc = ufbcDesc(i, type, payload, pitch)
  <2>1. j = 1
    BY <1>5, <1>8 DEF descsOf
  <2> QED
    BY <1>5, <1>8, <2>1
<1>10. ufbcDesc(i, type, payload, pitch).payload = payload
  BY DEF ufbcDesc, Desc
<1> QED
  BY <1>8, <1>9, <1>10

\* A task of which the proofs cover every info, and whose infos write no byte
\* that they read, nor one byte in two ways.
PlainTask(t) == (\A k \in DOMAIN task[t] : Plain(hwVer, task[t][k])) /\ Apart(wanted(t))

\* what memory holds after the device ran a thread's descriptors
Result(t) ==
  LET result == ExecutedAll([k \in DOMAIN buf[t] |-> patched(t, buf[t][k])])
  IN {<<a, result[a]>> : a \in DOMAIN result}

LEMMA PlainRuns ==
  ASSUME FillInv, SlotsInv, ContentInv, NEW t \in Threads, Done(t), PlainTask(t)
  PROVE  Result(t) = wanted(t)
<1> PICK result : result = ExecutedAll(running(t))
  OBVIOUS
<1>1. hwVer \in {20, 30} /\ DOMAIN task[t] = 1 .. Len(task[t])
  BY AllFilled DEF Versions
<1>2. \A k \in DOMAIN task[t] : Sound(hwVer, task[t][k], k)
  <2> SUFFICES ASSUME NEW k \in DOMAIN task[t]
               PROVE  Sound(hwVer, task[t][k], k)
    OBVIOUS
  <2>1. k \in Nat
    BY <1>1, AllFilled
  <2>2. Requested(task[t][k], k) \subseteq wanted(t)
    BY DEF wanted
  <2>3. Apart(Requested(task[t][k], k))
    BY <2>2, ApartPart DEF PlainTask
  <2> QED
    BY <1>1, <2>1, <2>3, PlainSound DEF PlainTask
<1>3. Apart(wanted(t))
  BY DEF PlainTask
<1>4. {<<a, result[a]>> : a \in DOMAIN result} = wanted(t)
  BY <1>2, <1>3, RunArrives
<1>5. Result(t) = {<<a, result[a]>> : a \in DOMAIN result}
  BY DEF Result, running
<1> QED
  BY <1>4, <1>5

(* Running the descriptors of a task of plain infos writes every byte the   *)
(* infos ask for, made of the bytes they ask for, and nothing else: what    *)
(* the device finds in a buffer that fillDesc() filled, with the addresses  *)
(* the caller writes to the fields reported to him, does what the infos     *)
(* say, whatever their sizes, strides and number.                           *)
THEOREM PlainTasksArrive ==
  Spec => [](\A t \in Threads : Done(t) /\ PlainTask(t) => Result(t) = wanted(t))
<1>1. FillInv /\ SlotsInv /\ ContentInv =>
        (\A t \in Threads : Done(t) /\ PlainTask(t) => Result(t) = wanted(t))
  BY PlainRuns
<1> QED
  BY <1>1, ContentInvariant, PTL

(* The payload of a compressed frame starts behind its headers, 16 bytes    *)
(* for each block of 32 by 8 pixels, in each UFBC descriptor written        *)
(* (edma_desc: the payload offset of the aligned size), frames of any size. *)
THEOREM PayloadsBehindHeaders ==
  Spec => [](\A t \in Threads : \A e \in written(t) : PayloadBehindHeaders(infoOf(t, e), e))
<1>1. FillInv /\ SlotsInv /\ ContentInv =>
        (\A t \in Threads : \A e \in written(t) : PayloadBehindHeaders(infoOf(t, e), e))
  BY PayloadHolds
<1> QED
  BY <1>1, ContentInvariant, PTL

\* What is honoured of the tasks that are done is plain.
PlainWork ==
  \A t \in Threads :
    Done(t) /\ (\A k \in DOMAIN task[t] : honoured(task[t][k])) => PlainTask(t)

(* The data arrives wherever what the library honours of the tasks done is  *)
(* plain: the bytes of the payloads and the bytes that copies, fills,       *)
(* conversions, repackings, slices and paddings move.                       *)
THEOREM PlainDataArrives == Spec => [](PlainWork => DataArrives)
<1>1. FillInv /\ SlotsInv /\ ContentInv /\ PlainWork => DataArrives
  <2> SUFFICES ASSUME FillInv, SlotsInv, ContentInv, PlainWork, NEW t \in Threads
               PROVE  /\ \A e \in written(t) : PayloadBehindHeaders(infoOf(t, e), e)
                      /\ /\ pc[t] = "done"
                         /\ \A k \in DOMAIN task[t] : supported(task[t][k]) /\ honoured(task[t][k])
                         => Result(t) = wanted(t)
    BY Zenon DEF DataArrives, Result, wanted
  <2>1. \A e \in written(t) : PayloadBehindHeaders(infoOf(t, e), e)
    BY PayloadHolds
  <2>2. ASSUME pc[t] = "done",
               \A k \in DOMAIN task[t] : supported(task[t][k]) /\ honoured(task[t][k])
        PROVE  Result(t) = wanted(t)
    <3>1. Done(t) /\ PlainTask(t)
      BY <2>2 DEF Done, PlainWork
    <3> QED
      BY <3>1, PlainRuns
  <2> QED
    BY <2>1, <2>2
<1> QED
  BY <1>1, ContentInvariant, PTL

=============================================================================
