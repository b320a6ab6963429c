-------------------------- MODULE EngineV10Proofs --------------------------
(***************************************************************************)
(* Proofs about EngineV10, for any number of sub-commands, device types,   *)
(* threads, buffers and runs.                                              *)
(*                                                                         *)
(* ListsMatch is inductive with the types.  PacksOrdered is inductive with *)
(* the two: the order of the sub-commands is carried from state to state,  *)
(* a new sub-command at the end of it, a packed one beside its target.     *)
(*                                                                         *)
(* StateInv (types) and RunsInv (who has the mark, which buffer and fence  *)
(* belong to it) are inductive whatever the callers do; BuffersInv is what *)
(* they owe to callers that do not tune a command without a buffer.        *)
(***************************************************************************)
EXTENDS EngineV10, SumsProofs, SequenceTheorems

\* The inductive invariant of the lists.
ListsInv == ListsTypeOK /\ ListsMatch /\ PacksOrdered

-----------------------------------------------------------------------------
\* A list of sub-commands has a size.
LEMMA ListFinite ==
  ASSUME num \in Nat, NEW S \in SUBSET Idx
  PROVE  Cardinality(S) \in Nat
<1>1. IsFiniteSet(0 .. num - 1)
  BY FS_Interval
<1>2. IsFiniteSet(S)
  BY <1>1, FS_Subset DEF Idx
<1> QED
  BY <1>2, FS_CardinalityType

\* A command without sub-commands.
LEMMA ListsInit ==
  ASSUME ListsAssumption, NoLinks
  PROVE  ListsInv
<1>1. Idx = {}
  BY DEF NoLinks, Idx
<1>2. ListsTypeOK
  BY <1>1 DEF NoLinks, ListsTypeOK, ListsAssumption
<1>3. ListsMatch
  BY <1>1 DEF ListsMatch
<1>4. PacksOrdered
  <2>1. pred \in [Idx -> 1 .. num]
    BY <1>1 DEF NoLinks
  <2>2. Ordered(pred)
    BY <1>1 DEF Ordered
  <2> QED
    BY <1>1, <2>1, <2>2 DEF PacksOrdered
<1> QED
  BY <1>2, <1>3, <1>4 DEF ListsInv

\* Adding a sub-command that waits for existing ones.
LEMMA AddKeepsLists ==
  ASSUME ListsAssumption, ListsInv, NEW dev \in Devices,
         NEW dependency \in SUBSET Idx, addLinks(dev, dependency)
  PROVE  ListsInv'
<1> USE DEF addLinks, Pushed
<1>1. /\ num \in Nat /\ num' = num + 1 /\ num' \in 0 .. MaxSubCmds
      /\ Idx = 0 .. num - 1 /\ Idx' = 0 .. num /\ Idx' = Idx \cup {num} /\ num \notin Idx
  BY DEF ListsInv, ListsTypeOK, ListsAssumption, Idx
<1>2. ListsTypeOK'
  <2>1. packNum' \in Nat /\ mdlaNum' \in Nat
    BY DEF ListsInv, ListsTypeOK
  <2>2. depSize' \in Nat
    BY <1>1, ListFinite DEF ListsInv, ListsTypeOK
  <2>3. device' \in [Idx' -> Devices] /\ packId' \in [Idx' -> 0 .. packNum']
    BY <1>1 DEF ListsInv, ListsTypeOK, PushBack
  <2>4. pred' \in [Idx' -> SUBSET Idx'] /\ succ' \in [Idx' -> SUBSET Idx']
    BY <1>1 DEF ListsInv, ListsTypeOK, PushBack, Joined
  <2> QED
    BY <1>1, <2>1, <2>2, <2>3, <2>4 DEF ListsTypeOK
<1>3. ListsMatch'
  BY <1>1 DEF ListsInv, ListsTypeOK, ListsMatch, PushBack, Joined
<1>4. PacksOrdered'
  <2>1. PICK rank \in [Idx -> 1 .. num] : Ordered(rank)
    BY DEF ListsInv, PacksOrdered
  <2>2. PICK new \in [Idx' -> 1 .. num'] :
          new = [i \in Idx' |-> IF i = num THEN num + 1 ELSE rank[i]]
    <3>1. [i \in Idx' |-> IF i = num THEN num + 1 ELSE rank[i]] \in [Idx' -> 1 .. num']
      BY <1>1, <2>1
    <3> QED
      BY <3>1
  <2>3. \A i, j \in Idx' : j \in succ'[i] => new[i] < new[j]
    <3>1. SUFFICES ASSUME NEW i \in Idx', NEW j \in Idx', j \in succ'[i]
                   PROVE  new[i] < new[j]
      OBVIOUS
    <3>2. /\ succ \in [Idx -> SUBSET Idx]
          /\ \A k \in Idx : rank[k] \in 1 .. num
          /\ \A k, l \in Idx : l \in succ[k] => rank[k] < rank[l]
      BY <2>1 DEF ListsInv, ListsTypeOK, Ordered
    <3>3. i \in Idx
      BY <1>1, <3>1 DEF PushBack
    <3>4. j = num \/ j \in succ[i]
      BY <1>1, <3>1, <3>3 DEF PushBack, Joined
    <3>5. CASE j = num
      BY <1>1, <2>2, <3>2, <3>3, <3>5
    <3>6. CASE j \in succ[i]
      <4>1. j \in Idx /\ j # num /\ i # num
        BY <1>1, <3>2, <3>3, <3>6
      <4> QED
        BY <1>1, <2>2, <3>2, <3>3, <3>6, <4>1
    <3> QED
      BY <3>4, <3>5, <3>6
  <2>4. \A i, j \in Idx' : packId'[i] = packId'[j] /\ packId'[i] # 0
                             => new[i] = new[j] /\ pred'[i] = pred'[j]
    BY <1>1, <2>1, <2>2 DEF ListsInv, PacksOrdered, Ordered, PushBack
  <2>5. Ordered(new)'
    BY <2>3, <2>4 DEF Ordered
  <2> QED
    BY <2>2, <2>4, <2>5 DEF PacksOrdered
<1> QED
  BY <1>2, <1>3, <1>4 DEF ListsInv

\* Packing a sub-command onto another.
LEMMA PackKeepsLists ==
  ASSUME ListsAssumption, ListsInv, NEW dev \in Devices,
         NEW target \in Idx, packLinks(dev, target)
  PROVE  ListsInv'
<1> USE DEF packLinks, Pushed
<1> DEFINE p == packOfTarget(target)
<1>1. /\ num \in Nat /\ num' = num + 1 /\ num' \in 0 .. MaxSubCmds
      /\ Idx = 0 .. num - 1 /\ Idx' = 0 .. num /\ Idx' = Idx \cup {num} /\ num \notin Idx
  BY DEF ListsInv, ListsTypeOK, ListsAssumption, Idx
<1>2. /\ packNum \in Nat /\ packNum' \in Nat /\ packNum <= packNum'
      /\ packId \in [Idx -> 0 .. packNum] /\ p \in 1 .. packNum'
  BY DEF ListsInv, ListsTypeOK, packOfTarget
<1>3. /\ pred \in [Idx -> SUBSET Idx] /\ succ \in [Idx -> SUBSET Idx]
      /\ \A i, j \in Idx : j \in succ[i] <=> i \in pred[j]
  BY DEF ListsInv, ListsTypeOK, ListsMatch
<1>4. ListsTypeOK'
  <2>1. mdlaNum' \in Nat
    BY DEF ListsInv, ListsTypeOK
  <2>2. depSize' \in Nat
    <3>1. pred[target] \in SUBSET Idx /\ succ[target] \in SUBSET Idx
      BY <1>3
    <3>2. Cardinality(pred[target]) \in Nat /\ Cardinality(succ[target]) \in Nat
      BY <1>1, <3>1, ListFinite
    <3> QED
      BY <3>2 DEF ListsInv, ListsTypeOK
  <2>3. device' \in [Idx' -> Devices] /\ packId' \in [Idx' -> 0 .. packNum']
    BY <1>1, <1>2 DEF ListsInv, ListsTypeOK, PushBack
  <2>4. pred' \in [Idx' -> SUBSET Idx'] /\ succ' \in [Idx' -> SUBSET Idx']
    BY <1>1, <1>3 DEF PushBack, Joined
  <2> QED
    BY <1>1, <1>2, <2>1, <2>2, <2>3, <2>4 DEF ListsTypeOK
<1>5. PICK rank \in [Idx -> 1 .. num] : Ordered(rank)
  BY DEF ListsInv, PacksOrdered
<1>6. target \notin pred[target] /\ target \notin succ[target]
  BY <1>1, <1>3, <1>5 DEF Ordered
<1>7. ListsMatch'
  BY <1>1, <1>3, <1>6 DEF ListsMatch, PushBack, Joined
<1>8. PacksOrdered'
  <2>1. PICK new \in [Idx' -> 1 .. num'] :
          new = [i \in Idx' |-> IF i = num THEN rank[target] ELSE rank[i]]
    <3>1. [i \in Idx' |-> IF i = num THEN rank[target] ELSE rank[i]] \in [Idx' -> 1 .. num']
      BY <1>1, <1>5
    <3> QED
      BY <3>1
  <2>2. \A i, j \in Idx' : j \in succ'[i] => new[i] < new[j]
    BY <1>1, <1>3, <1>5, <2>1 DEF Ordered, PushBack, Joined
  <2>3. \A i \in Idx : packId'[i] = p => i = target \/ packId[i] = packId[target]
    BY <1>1, <1>2 DEF packOfTarget, PushBack
  <2>4. \A i \in Idx : packId'[i] = p => pred[i] = pred[target] /\ rank[i] = rank[target]
    <3>1. SUFFICES ASSUME NEW i \in Idx, packId'[i] = p, i # target
                   PROVE  pred[i] = pred[target] /\ rank[i] = rank[target]
      OBVIOUS
    <3>2. packId[i] = packId[target] /\ packId[target] # 0
      <4>1. packId[i] = p /\ packId[i] \in 0 .. packNum
        BY <1>1, <1>2, <3>1 DEF PushBack
      <4>2. p = packId[target] \/ (packId[target] = 0 /\ p = packNum + 1)
        BY DEF packOfTarget
      <4> QED
        BY <1>2, <4>1, <4>2
    <3>3. \A j, k \in Idx : packId[j] = packId[k] /\ packId[j] # 0
                            => rank[j] = rank[k] /\ pred[j] = pred[k]
      BY <1>5 DEF Ordered, ListsInv, PacksOrdered
    <3> QED
      BY <3>2, <3>3
  <2>5. \A i \in Idx : packId'[i] = p => pred'[i] = pred[target]
    BY <1>1, <1>3, <1>6, <2>4 DEF PushBack, Joined
  <2>6. packId'[num] = p /\ pred'[num] = pred[target] /\ new[num] = rank[target]
    BY <1>1, <2>1 DEF PushBack
  <2>7. ASSUME NEW i \in Idx, NEW j \in Idx, packId'[i] = packId'[j],
               packId'[i] # 0, packId'[i] # p
        PROVE  new[i] = new[j] /\ pred'[i] = pred'[j]
    <3>1. packId[i] = packId[j] /\ packId[i] # 0
      BY <1>1, <1>2, <2>7 DEF PushBack
    <3>2. rank[i] = rank[j] /\ pred[i] = pred[j]
      BY <1>5, <3>1 DEF ListsInv, PacksOrdered, Ordered
    <3> QED
      BY <1>1, <1>3, <2>1, <3>2 DEF PushBack, Joined
  <2>8. \A i, j \in Idx' : packId'[i] = packId'[j] /\ packId'[i] # 0
                             => new[i] = new[j] /\ pred'[i] = pred'[j]
    <3>1. \A i \in Idx' : packId'[i] = p => new[i] = rank[target] /\ pred'[i] = pred[target]
      BY <1>1, <2>1, <2>4, <2>5, <2>6
    <3>2. \A i \in Idx' : packId'[i] # p => i \in Idx
      BY <1>1, <2>6
    <3>3. SUFFICES ASSUME NEW i \in Idx', NEW j \in Idx', packId'[i] = packId'[j],
                          packId'[i] # 0
                   PROVE  new[i] = new[j] /\ pred'[i] = pred'[j]
      OBVIOUS
    <3>4. CASE packId'[i] = p
      <4>1. packId'[j] = p
        BY <3>3, <3>4
      <4>2. new[i] = rank[target] /\ pred'[i] = pred[target]
        BY <3>1, <3>4
      <4>3. new[j] = rank[target] /\ pred'[j] = pred[target]
        BY <3>1, <4>1
      <4> QED
        BY <4>2, <4>3
    <3>5. CASE packId'[i] # p
      <4>1. i \in Idx /\ j \in Idx
        BY <3>2, <3>3, <3>5
      <4> QED
        BY <2>7, <3>3, <3>5, <4>1
    <3> QED
      BY <3>4, <3>5
  <2>9. Ordered(new)'
    BY <2>2, <2>8 DEF Ordered
  <2> QED
    BY <2>1, <2>8, <2>9 DEF PacksOrdered
<1> QED
  BY <1>4, <1>7, <1>8 DEF ListsInv

-----------------------------------------------------------------------------
\* Only addSubCmd() and packSubCmd() change the lists.
LEMMA ListSteps ==
  ASSUME [Next]_vars
  PROVE  \/ UNCHANGED lists
         \/ \E dev \in Devices, dependency \in SUBSET Idx : addLinks(dev, dependency)
         \/ \E dev \in Devices, target \in Idx : packLinks(dev, target)
<1>1. ASSUME NEW dev \in Devices, NEW dependency \in SUBSET Idx, addSubCmd(dev, dependency)
      PROVE  addLinks(dev, dependency)
  BY <1>1 DEF addSubCmd
<1>2. ASSUME NEW dev \in Devices, NEW target \in Idx, packSubCmd(dev, target)
      PROVE  packLinks(dev, target)
  BY <1>2 DEF packSubCmd
<1>3. ASSUME NEW t \in Threads, Step(t)
      PROVE  UNCHANGED lists
  BY <1>3 DEF Step, setFence, constructNothing, construct, constructFails, getCmdBuf,
              readInfo, markExecute, submit, submitFails, syncDone, unMarkExecute,
              getFence, poll, command, subCmds
<1>4. ASSUME NEW t \in Threads, NEW c \in Calls, Call(t, c)
      PROVE  UNCHANGED lists
  BY <1>4 DEF Call, command, subCmds
<1>5. ASSUME NEW i \in Idx, setTuneParam(i)
      PROVE  UNCHANGED lists
  BY <1>5 DEF setTuneParam
<1>6. ASSUME setCmdProperty \/ destroyCmd \/ Gone \/ (\E j \in Job : Complete(j))
      PROVE  UNCHANGED lists
  BY <1>6 DEF setCmdProperty, destroyCmd, Gone, Complete, vars, command, subCmds
<1>7. ASSUME UNCHANGED vars
      PROVE  UNCHANGED lists
  BY <1>7 DEF vars, command, subCmds
<1> QED
  BY <1>1, <1>2, <1>3, <1>4, <1>5, <1>6, <1>7 DEF Next

LEMMA StepKeepsLists ==
  ASSUME ListsAssumption, ListsInv, [Next]_vars
  PROVE  ListsInv'
<1>1. ASSUME UNCHANGED lists
      PROVE  ListsInv'
  <2>1. Idx' = Idx /\ num' = num
    BY <1>1 DEF lists, Idx
  <2>2. ListsTypeOK' /\ ListsMatch'
    BY <1>1, <2>1 DEF lists, ListsInv, ListsTypeOK, ListsMatch
  <2>3. \A rank : Ordered(rank) => Ordered(rank)'
    BY <1>1, <2>1 DEF lists, Ordered
  <2>4. PacksOrdered'
    BY <1>1, <2>1, <2>3 DEF lists, ListsInv, PacksOrdered
  <2> QED
    BY <2>2, <2>4 DEF ListsInv
<1> QED
  BY <1>1, ListSteps, AddKeepsLists, PackKeepsLists

\* The invariant holds in every state of a command and its runs.
LEMMA ListsInvariant == Spec => []ListsInv
<1>1. Init => ListsInv
  BY ListsAssumption, ListsInit DEF Init
<1>2. ListsInv /\ [Next]_vars => ListsInv'
  BY ListsAssumption, StepKeepsLists
<1> QED
  BY <1>1, <1>2, PTL DEF Spec

\* The lists of predecessors and of successors, which addSubCmd() and
\* packSubCmd() change one by one, always agree.
THEOREM ListsAgree == Spec => []ListsMatch
<1>1. ListsInv => ListsMatch
  BY DEF ListsInv
<1> QED
  BY <1>1, ListsInvariant, PTL

\* However sub-commands were added and packed, the packs can be put in order:
\* the API of middleware 1.0 cannot express a cycle.
THEOREM NoCycleInListsV10 == Spec => []PacksOrdered
<1>1. ListsInv => PacksOrdered
  BY DEF ListsInv
<1> QED
  BY <1>1, ListsInvariant, PTL
-----------------------------------------------------------------------------
\* What the lists of successors take in the buffer, one by one.
Lengths == [i \in Idx |-> 1 + Cardinality(succ[i] \ {i})]

Mdla == {i \in Idx : device[i] = "MDLA"}

CountsInv == depSize = SumTo(Lengths, num) /\ mdlaNum = Cardinality(Mdla)

LEMMA LengthsNat ==
  ASSUME ListsTypeOK
  PROVE  num \in Nat /\ \A i \in 0 .. num - 1 : Lengths[i] \in Nat
<1>1. num \in Nat
  BY DEF ListsTypeOK
<1>2. ASSUME NEW i \in Idx
      PROVE  Cardinality(succ[i] \ {i}) \in Nat
  <2>1. succ[i] \ {i} \in SUBSET Idx
    BY DEF ListsTypeOK
  <2> QED
    BY <1>1, <2>1, ListFinite
<1> QED
  BY <1>1, <1>2 DEF Lengths, Idx

\* The new sub-command joins the lists of S and has the list R.
LEMMA ListsGrow ==
  ASSUME ListsTypeOK, ListsTypeOK', num' = num + 1, NEW S \in SUBSET Idx, NEW R \in SUBSET Idx,
         succ' = PushBack(Joined(succ, S), R)
  PROVE  SumTo(Lengths', num') = SumTo(Lengths, num) + 1 + Cardinality(S) + Cardinality(R)
<1>1. /\ num \in Nat /\ Idx = 0 .. num - 1 /\ Idx' = 0 .. num
      /\ \A i \in 0 .. num - 1 : Lengths[i] \in Nat
      /\ num \in Idx'
  BY LengthsNat DEF Idx
<1>2. ASSUME NEW i \in 0 .. num - 1
      PROVE  Lengths'[i] = IF i \in S THEN Lengths[i] + 1 ELSE Lengths[i]
  <2>1. succ[i] \in SUBSET Idx /\ IsFiniteSet(succ[i] \ {i}) /\ num \notin Idx
    <3>1. succ[i] \in SUBSET Idx /\ num \notin Idx
      BY <1>1 DEF ListsTypeOK
    <3>2. IsFiniteSet(0 .. num - 1)
      BY <1>1, FS_Interval
    <3> QED
      BY <1>1, <3>1, <3>2, FS_Subset
  <2>2. succ'[i] = IF i \in S THEN succ[i] \cup {num} ELSE succ[i]
    BY <1>1 DEF PushBack, Joined
  <2>3. Lengths'[i] = 1 + Cardinality(succ'[i] \ {i}) /\ Lengths[i] = 1 + Cardinality(succ[i] \ {i})
    BY <1>1 DEF Lengths
  <2>4. CASE i \in S
    <3>1. succ'[i] \ {i} = (succ[i] \ {i}) \cup {num} /\ num \notin succ[i] \ {i}
      BY <1>1, <2>1, <2>2, <2>4
    <3>2. Cardinality(succ'[i] \ {i}) = Cardinality(succ[i] \ {i}) + 1
      BY <2>1, <3>1, FS_AddElement
    <3>3. Cardinality(succ[i] \ {i}) \in Nat
      BY <2>1, FS_CardinalityType
    <3> QED
      BY <2>3, <2>4, <3>2, <3>3
  <2>5. CASE i \notin S
    BY <2>2, <2>3, <2>5
  <2> QED
    BY <2>4, <2>5
<1>3. Lengths'[num] = 1 + Cardinality(R)
  <2>1. num \notin R /\ succ'[num] = R
    BY <1>1 DEF PushBack
  <2>2. succ'[num] \ {num} = R
    BY <2>1
  <2>3. Lengths'[num] = 1 + Cardinality(succ'[num] \ {num})
    BY <1>1 DEF Lengths
  <2> QED
    BY <2>2, <2>3
<1>4. SumTo(Lengths', num) = SumTo(Lengths, num) + Cardinality(S)
  BY <1>1, <1>2, SumJoined
<1>5. SumTo(Lengths', num + 1) = SumTo(Lengths', num) + Lengths'[num]
  <2>1. \A i \in 0 .. num - 1 : Lengths'[i] \in Nat
    BY <1>1, <1>2
  <2>2. Lengths'[num] \in Nat
    BY <1>1, <1>3, ListFinite
  <2>3. \A i \in 0 .. num : Lengths'[i] \in Nat
    BY <1>1, <2>1, <2>2
  <2> QED
    BY <1>1, <2>3, SumNext
<1>6. SumTo(Lengths, num) \in Nat /\ Cardinality(S) \in Nat /\ Cardinality(R) \in Nat
  BY <1>1, SumNat, ListFinite
<1> QED
  BY <1>3, <1>4, <1>5, <1>6

LEMMA MdlaGrows ==
  ASSUME ListsTypeOK, NEW dev, Pushed(dev), device' = PushBack(device, dev),
         mdlaNum = Cardinality(Mdla)
  PROVE  mdlaNum' = Cardinality(Mdla')
<1>1. num \in Nat /\ Idx = 0 .. num - 1 /\ Idx' = 0 .. num /\ num' = num + 1
  BY DEF ListsTypeOK, Pushed, Idx
<1>2. IsFiniteSet(Mdla)
  <2>1. IsFiniteSet(0 .. num - 1) /\ Mdla \subseteq 0 .. num - 1
    BY <1>1, FS_Interval DEF Mdla
  <2> QED
    BY <2>1, FS_Subset
<1>3. num \notin Mdla /\ Mdla' = IF dev = "MDLA" THEN Mdla \cup {num} ELSE Mdla
  BY <1>1 DEF Mdla, PushBack
<1>4. Cardinality(Mdla \cup {num}) = Cardinality(Mdla) + 1
  BY <1>2, <1>3, FS_AddElement
<1> QED
  BY <1>3, <1>4 DEF Pushed

LEMMA AddKeepsCounts ==
  ASSUME ListsTypeOK, ListsTypeOK', CountsInv, NEW dev, NEW dependency \in SUBSET Idx,
         addLinks(dev, dependency)
  PROVE  CountsInv'
<1>1. SumTo(Lengths', num') = SumTo(Lengths, num) + 1 + Cardinality(dependency) + Cardinality({})
  BY ListsGrow DEF addLinks, Pushed
<1>2. mdlaNum' = Cardinality(Mdla')
  BY MdlaGrows DEF CountsInv, addLinks, Pushed
<1>3. Cardinality({}) = 0 /\ Cardinality(dependency) \in Nat /\ SumTo(Lengths, num) \in Nat
  BY FS_EmptySet, LengthsNat, ListFinite, SumNat
<1> QED
  BY <1>1, <1>2, <1>3 DEF CountsInv, addLinks

LEMMA PackKeepsCounts ==
  ASSUME ListsTypeOK, ListsTypeOK', CountsInv, NEW dev, NEW target \in Idx,
         packLinks(dev, target)
  PROVE  CountsInv'
<1>1. PICK S, R \in SUBSET Idx : S = pred[target] /\ R = succ[target]
  BY DEF ListsTypeOK
<1>2. SumTo(Lengths', num') = SumTo(Lengths, num) + 1 + Cardinality(S) + Cardinality(R)
  BY <1>1, ListsGrow DEF packLinks, Pushed
<1>3. mdlaNum' = Cardinality(Mdla')
  BY MdlaGrows DEF CountsInv, packLinks, Pushed
<1> QED
  BY <1>1, <1>2, <1>3 DEF CountsInv, packLinks

\* The counters that only addSubCmd() and packSubCmd() advance are the sums
\* over the lists at any time.
LEMMA CountsInvariant == Spec => []CountsInv
<1>1. Init => CountsInv
  <2> SUFFICES ASSUME Init
               PROVE  CountsInv
    OBVIOUS
  <2>1. num = 0 /\ depSize = 0 /\ mdlaNum = 0
    BY DEF Init, NoLinks
  <2>2. Mdla = {}
    BY <2>1 DEF Mdla, Idx
  <2> QED
    BY <2>1, <2>2, SumZero, FS_EmptySet DEF CountsInv
<1>2. ListsInv /\ ListsInv' /\ CountsInv /\ [Next]_vars => CountsInv'
  <2> SUFFICES ASSUME ListsInv, ListsInv', CountsInv, [Next]_vars
               PROVE  CountsInv'
    OBVIOUS
  <2>1. ListsTypeOK /\ ListsTypeOK'
    BY DEF ListsInv
  <2>2. CASE UNCHANGED lists
    <3>1. UNCHANGED <<num, device, succ, depSize, mdlaNum>>
      BY <2>2 DEF lists
    <3>2. Lengths' = Lengths /\ Mdla' = Mdla
      BY <3>1 DEF Lengths, Mdla, Idx
    <3> QED
      BY <3>1, <3>2 DEF CountsInv
  <2>3. CASE \E dev \in Devices, dependency \in SUBSET Idx : addLinks(dev, dependency)
    BY <2>1, <2>3, AddKeepsCounts
  <2>4. CASE \E dev \in Devices, target \in Idx : packLinks(dev, target)
    BY <2>1, <2>4, PackKeepsCounts
  <2> QED
    BY <2>2, <2>3, <2>4, ListSteps
<1> QED
  BY <1>1, <1>2, ListsInvariant, PTL DEF Spec

\* What addSubCmd() and packSubCmd() counted, for lists of predecessors, is
\* what constructCmd() writes, which are lists of successors, however many
\* sub-commands there are and however they were packed.
THEOREM ListsFill == Spec => []ListsFillBuffer
<1>1. ListsInv /\ CountsInv => ListsFillBuffer
  <2> SUFFICES ASSUME ListsInv, CountsInv
               PROVE  ListsFillBuffer
    OBVIOUS
  <2>1. num \in Nat /\ depSize \in Nat /\ mdlaNum \in Nat
    BY DEF ListsInv, ListsTypeOK
  <2>2. scrListEnd = ofs_scr_list + depSize
    BY DEF scrListEnd, CountsInv, Lengths
  <2>3. ofs_scr_list = Hdr - 1 + num + FenceHdr + num * ScHdr + mdlaNum * MdlaHdr
    BY DEF ofs_scr_list, fenceOfs, CountsInv, Mdla
  <2>4. ofs_pdr_cnt_list + num = _calcCmdSize
    BY <2>1, <2>3 DEF ofs_pdr_cnt_list, _calcCmdSize, Hdr, FenceHdr, ScHdr, MdlaHdr
  <2> QED
    BY <2>2, <2>4 DEF ListsFillBuffer, ofs_pdr_cnt_list
<1> QED
  BY <1>1, ListsInvariant, CountsInvariant, PTL

-----------------------------------------------------------------------------
Tunings   == UNION {[0 .. n - 1 -> 0 .. MaxTunes] : n \in Nat}
BufRecord == [num : Nat, tune : Tunings, flag : BOOLEAN, fd : Nat, live : BOOLEAN]
JobRecord == [buf : Nat, call : Runs, state : {"running", "done"}, current : BOOLEAN,
              told : BOOLEAN, closed : 0 .. 1]

RunPC  == {"setFence", "construct", "getCmdBuf", "locked", "mark", "submit", "ioctl", "unmark"}
WaitPC == {"getCmdBuf", "locked", "getFence", "poll", "unmark"}
Positions == {"idle", "readInfo"} \cup RunPC \cup WaitPC

ThreadRecord == [pc : Positions, call : Calls, buf : Nat, job : Nat]

\* The positions each call goes through.
Places(call) ==
  IF call \in Runs THEN RunPC
  ELSE IF call = "waitCmd" THEN WaitPC
  ELSE IF call = "getRunInfo" THEN {"getCmdBuf", "locked", "readInfo"}
  ELSE {"idle", "construct"}

BufsTyped ==
  /\ bufs \in Seq(BufRecord) /\ Len(bufs) <= MaxBufs
  /\ \A b \in 1 .. Len(bufs) : /\ bufs[b].num \in 1 .. num /\ bufs[b].fd <= Len(jobs)
                               /\ bufs[b].tune \in [0 .. bufs[b].num - 1 -> 0 .. MaxTunes]

JobsTyped == /\ jobs \in Seq(JobRecord) /\ Len(jobs) <= MaxJobs
             /\ \A j \in Job : jobs[j].buf \in 1 .. Len(bufs)

ThreadsTyped ==
  /\ thr \in [Threads -> ThreadRecord]
  /\ \A t \in Threads : /\ thr[t].buf <= Len(bufs) /\ thr[t].job <= Len(jobs)
                        /\ thr[t].pc \in Places(thr[t].call)
                        /\ thr[t].pc \in {"mark", "submit"} => thr[t].buf # 0

CommandTyped ==
  /\ mtx \in Threads \cup {NoThread} /\ client \in Clients
  /\ tune \in [Idx -> 0 .. MaxTunes] /\ entry \in [Idx -> 0 .. Len(bufs)]
  /\ cmdBuf \in 0 .. Len(bufs)
  /\ dirty \in BOOLEAN /\ fenceFlag \in BOOLEAN /\ executing \in BOOLEAN /\ alive \in BOOLEAN
  /\ harm \subseteq {"buffer", "descriptor"}

StateInv == BufsTyped /\ JobsTyped /\ ThreadsTyped /\ CommandTyped

-----------------------------------------------------------------------------
\* A call that looked up the buffer, or constructed it, finds the command
\* unmodified until it returns.
Settled(t) == \/ thr[t].pc \in {"mark", "submit", "ioctl", "unmark", "getFence", "poll", "readInfo"}
              \/ thr[t].pc = "getCmdBuf" /\ thr[t].call \in Runs

CallsSettled ==
  /\ \A t \in Threads : Settled(t) => ~dirty /\ cmdBuf # 0
  /\ \A t \in Threads : thr[t].pc \in {"mark", "submit"} => thr[t].buf = cmdBuf
  /\ ~alive => In(Calls) = {}
  /\ \A t, u \in Threads : thr[t].call \in Runs /\ thr[u].call \in Runs => t = u
  /\ \A t, u \in Threads : thr[t].call = "waitCmd" /\ thr[u].call = "waitCmd" => t = u

\* The mark belongs to one call, or to the asynchronous run nobody waited for.
Owns(t) == thr[t].pc \in {"submit", "ioctl", "unmark"}

MarkOwned ==
  /\ ~executing => Unwaited = {} /\ \A t \in Threads : ~Owns(t)
  /\ executing => Unwaited # {} \/ \E t \in Threads : Owns(t)
  /\ \A j, k \in Unwaited : j = k
  /\ \A t \in Threads : Owns(t) => Unwaited = {} /\ \A u \in Threads : Owns(u) => u = t

\* What runs is the asynchronous run, or that of the call in the ioctl.
RunsTold ==
  /\ \A j \in Job : jobs[j].state = "running" =>
       j \in Unwaited \/ \E t \in Threads : thr[t].pc = "ioctl" /\ thr[t].job = j
  /\ \A j \in Job : jobs[j].call = "runCmdAsync" /\ jobs[j].told => jobs[j].closed = 1
  /\ \A t \in Threads : thr[t].pc = "ioctl" =>
       thr[t].job \in Job /\ jobs[thr[t].job].call = "runCmd"
  /\ \A t \in Threads : thr[t].call = "waitCmd" /\ thr[t].pc # "unmark" => Unwaited # {}
  /\ \A t \in Threads : thr[t].pc = "poll" => thr[t].job \in Unwaited

\* The header asks for a fence when the run needs one, and holds it then.
FenceInHeader ==
  /\ \A j \in Unwaited : cmdBuf # 0 /\ bufs[cmdBuf].fd = j
  /\ cmdBuf # 0 => bufs[cmdBuf].flag = fenceFlag
  /\ \A t \in Threads :
       thr[t].call \in Runs /\ thr[t].pc \in {"construct", "getCmdBuf", "mark", "submit"} =>
         fenceFlag = (thr[t].call = "runCmdAsync")

\* A buffer of an unmodified command describes it.
BufferCurrent ==
  /\ ~dirty /\ cmdBuf # 0 => /\ bufs[cmdBuf].num = num /\ bufs[cmdBuf].tune = tune
                             /\ \A i \in Idx : entry[i] = cmdBuf
  /\ cmdBuf # 0 => \A i \in Idx : entry[i] \in {0, cmdBuf}

\* The session keeps the buffer of the command and no other.
BufferLive == alive => \A b \in 1 .. Len(bufs) : bufs[b].live <=> b = cmdBuf

RunsInv == /\ CallsSettled /\ MarkOwned /\ RunsTold /\ FenceInHeader /\ BufferCurrent
           /\ BufferLive /\ HeaderCurrent

BuffersInv == client # "modifying" => harm = {}

-----------------------------------------------------------------------------
\* What becomes of the threads when one of them goes on.
LEMMA GoToFacts ==
  ASSUME ThreadsTyped, NEW t \in Threads, NEW pc \in Positions, GoTo(t, pc)
  PROVE  /\ thr' \in [Threads -> ThreadRecord]
         /\ \A u \in Threads \ {t} : thr'[u] = thr[u]
         /\ thr'[t].pc = pc /\ thr'[t].call = thr[t].call
         /\ thr'[t].buf = thr[t].buf /\ thr'[t].job = thr[t].job
<1>1. thr \in [Threads -> ThreadRecord]
  BY DEF ThreadsTyped
<1>2. [thr[t] EXCEPT !.pc = pc] \in ThreadRecord
  BY <1>1 DEF ThreadRecord
<1>3. thr' = [thr EXCEPT ![t] = [thr[t] EXCEPT !.pc = pc]]
  BY DEF GoTo
<1> QED
  BY <1>1, <1>2, <1>3 DEF ThreadRecord

\* The same when its call returns.
LEMMA ReturnFacts ==
  ASSUME ThreadsTyped, NEW t \in Threads, Return(t)
  PROVE  /\ thr' \in [Threads -> ThreadRecord]
         /\ \A u \in Threads \ {t} : thr'[u] = thr[u]
         /\ thr'[t].pc = "idle" /\ thr'[t].call = "constructCmd"
         /\ thr'[t].buf = 0 /\ thr'[t].job = 0
<1>1. Idle \in ThreadRecord
  BY DEF Idle, ThreadRecord, Positions, Calls
<1> QED
  BY <1>1 DEF ThreadsTyped, Return, Idle

\* The same when it looks up the buffer.
LEMMA BufferLearnt ==
  ASSUME ThreadsTyped, NEW t \in Threads, NEW pc \in Positions, NEW b \in Nat,
         thr' = [thr EXCEPT ![t].buf = b, ![t].pc = pc]
  PROVE  /\ thr' \in [Threads -> ThreadRecord]
         /\ \A u \in Threads \ {t} : thr'[u] = thr[u]
         /\ thr'[t].pc = pc /\ thr'[t].call = thr[t].call
         /\ thr'[t].buf = b /\ thr'[t].job = thr[t].job
<1>1. thr \in [Threads -> ThreadRecord]
  BY DEF ThreadsTyped
<1>2. [thr[t] EXCEPT !.buf = b, !.pc = pc] \in ThreadRecord
  BY <1>1 DEF ThreadRecord
<1>3. thr' = [thr EXCEPT ![t] = [thr[t] EXCEPT !.buf = b, !.pc = pc]]
  BY <1>1
<1> QED
  BY <1>1, <1>2, <1>3 DEF ThreadRecord

\* A thread stays in the positions of its call, and knows existing buffers
\* and jobs.
LEMMA ThreadMoved ==
  ASSUME ThreadsTyped, NEW t \in Threads,
         thr' \in [Threads -> ThreadRecord],
         \A u \in Threads \ {t} : thr'[u] = thr[u],
         bufs \in Seq(BufRecord), bufs' \in Seq(BufRecord), Len(bufs) <= Len(bufs'),
         jobs \in Seq(JobRecord), jobs' \in Seq(JobRecord), Len(jobs) <= Len(jobs'),
         thr'[t].pc \in Places(thr'[t].call),
         thr'[t].buf <= Len(bufs'), thr'[t].job <= Len(jobs'),
         thr'[t].pc \in {"mark", "submit"} => thr'[t].buf # 0
  PROVE  ThreadsTyped'
<1>1. Len(bufs) \in Nat /\ Len(bufs') \in Nat /\ Len(jobs) \in Nat /\ Len(jobs') \in Nat
  BY LenProperties
<1>2. \A u \in Threads : thr[u].buf \in Nat /\ thr[u].job \in Nat
  BY DEF ThreadsTyped, ThreadRecord
<1>3. \A u \in Threads : thr'[u].buf <= Len(bufs') /\ thr'[u].job <= Len(jobs')
  BY <1>1, <1>2 DEF ThreadsTyped
<1>4. \A u \in Threads : /\ thr'[u].pc \in Places(thr'[u].call)
                         /\ thr'[u].pc \in {"mark", "submit"} => thr'[u].buf # 0
  BY DEF ThreadsTyped
<1> QED
  BY <1>3, <1>4 DEF ThreadsTyped, Places

-----------------------------------------------------------------------------
\* The buffers after the header in one of them was written.
LEMMA FlagWritten ==
  ASSUME bufs \in Seq(BufRecord), NEW b \in 1 .. Len(bufs), NEW f \in BOOLEAN,
         bufs' = [bufs EXCEPT ![b].flag = f]
  PROVE  /\ bufs' \in Seq(BufRecord) /\ Len(bufs') = Len(bufs)
         /\ \A c \in 1 .. Len(bufs) :
              /\ bufs'[c].num = bufs[c].num /\ bufs'[c].tune = bufs[c].tune
              /\ bufs'[c].fd = bufs[c].fd /\ bufs'[c].live = bufs[c].live
              /\ bufs'[c].flag = IF c = b THEN f ELSE bufs[c].flag
<1>1. \A c \in 1 .. Len(bufs) : bufs[c] \in BufRecord
  BY ElementOfSeq
<1>2. [bufs[b] EXCEPT !.flag = f] \in BufRecord
  BY <1>1 DEF BufRecord
<1>3. bufs' = [bufs EXCEPT ![b] = [bufs[b] EXCEPT !.flag = f]]
  OBVIOUS
<1>4. bufs' \in Seq(BufRecord) /\ Len(bufs') = Len(bufs)
  BY <1>2, <1>3, ExceptSeq
<1> QED
  BY <1>1, <1>3, <1>4, LenProperties DEF BufRecord

LEMMA FdWritten ==
  ASSUME bufs \in Seq(BufRecord), NEW b \in 1 .. Len(bufs), NEW f \in Nat,
         bufs' = [bufs EXCEPT ![b].fd = f]
  PROVE  /\ bufs' \in Seq(BufRecord) /\ Len(bufs') = Len(bufs)
         /\ \A c \in 1 .. Len(bufs) :
              /\ bufs'[c].num = bufs[c].num /\ bufs'[c].tune = bufs[c].tune
              /\ bufs'[c].flag = bufs[c].flag /\ bufs'[c].live = bufs[c].live
              /\ bufs'[c].fd = IF c = b THEN f ELSE bufs[c].fd
<1>1. \A c \in 1 .. Len(bufs) : bufs[c] \in BufRecord
  BY ElementOfSeq
<1>2. [bufs[b] EXCEPT !.fd = f] \in BufRecord
  BY <1>1 DEF BufRecord
<1>3. bufs' = [bufs EXCEPT ![b] = [bufs[b] EXCEPT !.fd = f]]
  OBVIOUS
<1>4. bufs' \in Seq(BufRecord) /\ Len(bufs') = Len(bufs)
  BY <1>2, <1>3, ExceptSeq
<1> QED
  BY <1>1, <1>3, <1>4, LenProperties DEF BufRecord

LEMMA TuneWritten ==
  ASSUME BufsTyped, NEW b \in 1 .. Len(bufs), NEW i \in Idx, NEW new \in 0 .. MaxTunes,
         bufs' = [bufs EXCEPT ![b].tune[i] = new]
  PROVE  /\ bufs' \in Seq(BufRecord) /\ Len(bufs') = Len(bufs)
         /\ \A c \in 1 .. Len(bufs) :
              /\ bufs'[c].num = bufs[c].num /\ bufs'[c].fd = bufs[c].fd
              /\ bufs'[c].flag = bufs[c].flag /\ bufs'[c].live = bufs[c].live
              /\ bufs'[c].tune = IF c = b THEN [bufs[b].tune EXCEPT ![i] = new]
                                 ELSE bufs[c].tune
<1>1. bufs \in Seq(BufRecord) /\ \A c \in 1 .. Len(bufs) : bufs[c] \in BufRecord
  BY ElementOfSeq DEF BufsTyped
<1> DEFINE new2 == [bufs[b].tune EXCEPT ![i] = new]
<1>2. new2 \in Tunings
  <2>1. bufs[b].tune \in [0 .. bufs[b].num - 1 -> 0 .. MaxTunes] /\ bufs[b].num \in Nat
    BY <1>1 DEF BufsTyped, BufRecord
  <2>2. new2 \in [0 .. bufs[b].num - 1 -> 0 .. MaxTunes]
    BY <2>1
  <2> QED
    BY <2>1, <2>2 DEF Tunings
<1>3. [bufs[b] EXCEPT !.tune = new2] \in BufRecord
  BY <1>1, <1>2 DEF BufRecord
<1>4. bufs' = [bufs EXCEPT ![b] = [bufs[b] EXCEPT !.tune = new2]]
  OBVIOUS
<1>5. bufs' \in Seq(BufRecord) /\ Len(bufs') = Len(bufs)
  BY <1>1, <1>3, <1>4, ExceptSeq
<1> QED
  BY <1>1, <1>4, <1>5, LenProperties DEF BufRecord

LEMMA FreedFacts ==
  ASSUME bufs \in Seq(BufRecord), cmdBuf \in 0 .. Len(bufs)
  PROVE  /\ freed \in Seq(BufRecord) /\ Len(freed) = Len(bufs)
         /\ \A c \in 1 .. Len(bufs) :
              /\ freed[c].num = bufs[c].num /\ freed[c].tune = bufs[c].tune
              /\ freed[c].flag = bufs[c].flag /\ freed[c].fd = bufs[c].fd
              /\ freed[c].live = (bufs[c].live /\ c # cmdBuf)
<1>1. \A c \in 1 .. Len(bufs) : bufs[c] \in BufRecord
  BY ElementOfSeq
<1>2. CASE cmdBuf = 0
  BY <1>1, <1>2 DEF freed, BufRecord
<1>3. CASE cmdBuf # 0
  <2>1. cmdBuf \in 1 .. Len(bufs)
    BY <1>3, LenProperties
  <2>2. [bufs[cmdBuf] EXCEPT !.live = FALSE] \in BufRecord
    BY <1>1, <2>1 DEF BufRecord
  <2>3. freed = [bufs EXCEPT ![cmdBuf] = [bufs[cmdBuf] EXCEPT !.live = FALSE]]
    BY <1>3 DEF freed
  <2>4. freed \in Seq(BufRecord) /\ Len(freed) = Len(bufs)
    BY <2>1, <2>2, <2>3, ExceptSeq
  <2> QED
    BY <1>1, <2>1, <2>3, <2>4, LenProperties DEF BufRecord
<1> QED
  BY <1>2, <1>3

-----------------------------------------------------------------------------
\* The thread goes on to pc; its call returns; buffers and jobs stay or are added.
Others(t)    == \A u \in Threads \ {t} : thr'[u] = thr[u]
Moved(t, pc) == /\ Others(t) /\ thr'[t].pc = pc /\ thr'[t].call = thr[t].call
                /\ thr'[t].buf = thr[t].buf /\ thr'[t].job = thr[t].job
Back(t)      == /\ Others(t) /\ thr'[t].pc = "idle" /\ thr'[t].call = "constructCmd"
                /\ thr'[t].buf = 0 /\ thr'[t].job = 0
Grown        == /\ bufs' \in Seq(BufRecord) /\ Len(bufs) <= Len(bufs')
                /\ jobs' \in Seq(JobRecord) /\ Len(jobs) <= Len(jobs')

LEMMA GoesOn ==
  ASSUME StateInv, NEW t \in Threads, NEW pc \in Positions, GoTo(t, pc), Grown,
         pc \in Places(thr[t].call), pc \in {"mark", "submit"} => thr[t].buf # 0
  PROVE  ThreadsTyped' /\ Moved(t, pc)
<1>1. /\ bufs \in Seq(BufRecord) /\ jobs \in Seq(JobRecord) /\ ThreadsTyped
      /\ thr[t].buf \in Nat /\ thr[t].job \in Nat
      /\ thr[t].buf <= Len(bufs) /\ thr[t].job <= Len(jobs)
  BY DEF StateInv, BufsTyped, JobsTyped, ThreadsTyped, ThreadRecord
<1>2. /\ thr' \in [Threads -> ThreadRecord]
      /\ \A u \in Threads \ {t} : thr'[u] = thr[u]
      /\ thr'[t].pc = pc /\ thr'[t].call = thr[t].call
      /\ thr'[t].buf = thr[t].buf /\ thr'[t].job = thr[t].job
  BY <1>1, GoToFacts
<1>3. thr'[t].buf <= Len(bufs') /\ thr'[t].job <= Len(jobs')
  <2>1. Len(bufs) \in Nat /\ Len(bufs') \in Nat /\ Len(jobs) \in Nat /\ Len(jobs') \in Nat
    BY <1>1, LenProperties DEF Grown
  <2> QED
    BY <1>1, <1>2, <2>1 DEF Grown
<1>4. ThreadsTyped'
  BY <1>1, <1>2, <1>3, ThreadMoved DEF Grown
<1> QED
  BY <1>2, <1>4 DEF Moved, Others

LEMMA Returns ==
  ASSUME StateInv, NEW t \in Threads, Return(t), Grown
  PROVE  ThreadsTyped' /\ Back(t)
<1>1. bufs \in Seq(BufRecord) /\ jobs \in Seq(JobRecord) /\ ThreadsTyped
  BY DEF StateInv, BufsTyped, JobsTyped
<1>2. /\ thr' \in [Threads -> ThreadRecord]
      /\ \A u \in Threads \ {t} : thr'[u] = thr[u]
      /\ thr'[t].pc = "idle" /\ thr'[t].call = "constructCmd"
      /\ thr'[t].buf = 0 /\ thr'[t].job = 0
  BY <1>1, ReturnFacts
<1>3. thr'[t].buf <= Len(bufs') /\ thr'[t].job <= Len(jobs')
  BY <1>2, LenProperties DEF Grown
<1>4. thr'[t].pc \in Places(thr'[t].call)
  BY <1>2 DEF Places, Runs
<1>5. thr'[t].pc \in {"mark", "submit"} => thr'[t].buf # 0
  BY <1>2
<1>6. ThreadsTyped'
  BY <1>1, <1>2, <1>3, <1>4, <1>5, ThreadMoved DEF Grown
<1> QED
  BY <1>2, <1>6 DEF Back, Others

\* Which calls are at a position.
LEMMA PlaceFacts ==
  ASSUME ThreadsTyped, NEW t \in Threads
  PROVE  /\ thr[t].call \in Calls
         /\ thr[t].pc \in {"setFence", "mark", "submit", "ioctl"} => thr[t].call \in Runs
         /\ thr[t].pc = "construct" => thr[t].call \in Runs \cup {"constructCmd"}
         /\ thr[t].pc = "getCmdBuf" => thr[t].call \in Runs \cup {"waitCmd", "getRunInfo"}
         /\ thr[t].pc = "unmark" => thr[t].call \in Runs \cup {"waitCmd"}
         /\ thr[t].pc \in {"getFence", "poll"} => thr[t].call = "waitCmd"
         /\ thr[t].pc = "readInfo" => thr[t].call = "getRunInfo"
         /\ thr[t].pc = "idle" => thr[t].call = "constructCmd"
<1>1. thr[t].call \in Calls /\ thr[t].pc \in Places(thr[t].call)
  BY DEF ThreadsTyped, ThreadRecord
<1>2. CASE thr[t].call \in Runs
  BY <1>1, <1>2 DEF Places, RunPC, Calls, Runs
<1>3. CASE thr[t].call = "waitCmd"
  BY <1>1, <1>3 DEF Places, WaitPC, Runs, Calls
<1>4. CASE thr[t].call = "constructCmd"
  BY <1>1, <1>4 DEF Places, Runs, Calls
<1>5. CASE thr[t].call = "getRunInfo"
  BY <1>1, <1>5 DEF Places, Runs, Calls
<1> QED
  BY <1>1, <1>2, <1>3, <1>4, <1>5 DEF Calls

\* A step that leaves the number, the size and the fences of the buffers in
\* their ranges.
LEMMA StateKept ==
  ASSUME ListsTypeOK, StateInv, ThreadsTyped', CommandTyped', num' \in {num, num + 1},
         bufs' \in Seq(BufRecord), Len(bufs') = Len(bufs),
         \A c \in 1 .. Len(bufs) :
           /\ bufs'[c].num = bufs[c].num /\ bufs'[c].fd <= Len(jobs')
           /\ bufs'[c].tune \in [0 .. bufs[c].num - 1 -> 0 .. MaxTunes],
         jobs' \in Seq(JobRecord), Len(jobs') <= MaxJobs,
         \A j \in 1 .. Len(jobs') : jobs'[j].buf \in 1 .. Len(bufs)
  PROVE  StateInv'
<1>1. num \in Nat /\ Len(bufs) \in Nat /\ \A c \in 1 .. Len(bufs) : bufs[c].num \in 1 .. num
  BY LenProperties DEF ListsTypeOK, StateInv, BufsTyped
<1>2. \A c \in 1 .. Len(bufs') : bufs'[c].num \in 1 .. num'
  BY <1>1
<1>3. BufsTyped'
  BY <1>2 DEF StateInv, BufsTyped
<1>4. JobsTyped'
  BY DEF JobsTyped, Job
<1> QED
  BY <1>3, <1>4 DEF StateInv

\* A step that leaves the buffers and the jobs as they are.
LEMMA StateQuiet ==
  ASSUME ListsTypeOK, StateInv, ThreadsTyped', CommandTyped', num' \in {num, num + 1},
         bufs' = bufs, jobs' = jobs
  PROVE  StateInv'
<1>1. \A c \in 1 .. Len(bufs) :
           /\ bufs'[c].num = bufs[c].num /\ bufs'[c].fd <= Len(jobs')
           /\ bufs'[c].tune \in [0 .. bufs[c].num - 1 -> 0 .. MaxTunes]
  BY DEF StateInv, BufsTyped
<1>2. bufs' \in Seq(BufRecord) /\ jobs' \in Seq(JobRecord) /\ Len(jobs') <= MaxJobs
  BY DEF StateInv, BufsTyped, JobsTyped
<1>3. \A j \in 1 .. Len(jobs') : jobs'[j].buf \in 1 .. Len(bufs)
  BY DEF StateInv, JobsTyped, Job
<1> QED
  BY <1>1, <1>2, <1>3, StateKept

LEMMA GrownQuiet ==
  ASSUME StateInv, bufs' = bufs, jobs' = jobs
  PROVE  Grown
<1>1. bufs \in Seq(BufRecord) /\ jobs \in Seq(JobRecord)
  BY DEF StateInv, BufsTyped, JobsTyped
<1>2. Len(bufs) \in Nat /\ Len(jobs) \in Nat
  BY <1>1, LenProperties
<1> QED
  BY <1>1, <1>2 DEF Grown

\* An access to a buffer.
LEMMA TouchFacts ==
  ASSUME StateInv, NEW b, touch(b)
  PROVE  /\ harm' \subseteq {"buffer", "descriptor"}
         /\ bufs[b].live => harm' = harm
  BY DEF StateInv, CommandTyped, touch

\* A step that leaves the sub-commands and their buffer as they are.
LEMMA CommandKept ==
  ASSUME StateInv, UNCHANGED <<subCmds, cmdBuf, client>>, Len(bufs') = Len(bufs),
         mtx' \in Threads \cup {NoThread},
         dirty' \in BOOLEAN, fenceFlag' \in BOOLEAN, executing' \in BOOLEAN,
         alive' \in BOOLEAN, harm' \subseteq {"buffer", "descriptor"}
  PROVE  CommandTyped'
  BY DEF StateInv, CommandTyped, subCmds, lists, Idx

LEMMA setFenceFacts ==
  ASSUME ListsTypeOK, StateInv, NEW t \in Threads, setFence(t)
  PROVE  /\ StateInv' /\ Moved(t, "construct")
         /\ fenceFlag' = (thr[t].call = "runCmdAsync")
         /\ Len(bufs') = Len(bufs) /\ Len(bufs) \in Nat
         /\ \A c \in 1 .. Len(bufs) :
              /\ bufs'[c].num = bufs[c].num /\ bufs'[c].tune = bufs[c].tune
              /\ bufs'[c].fd = bufs[c].fd /\ bufs'[c].live = bufs[c].live
              /\ bufs'[c].flag = IF c = cmdBuf THEN fenceFlag' ELSE bufs[c].flag
<1>1. /\ bufs \in Seq(BufRecord) /\ Len(bufs) \in Nat /\ cmdBuf \in 0 .. Len(bufs)
      /\ jobs \in Seq(JobRecord) /\ Len(jobs) \in Nat /\ ThreadsTyped
  BY LenProperties DEF StateInv, BufsTyped, JobsTyped, CommandTyped
<1>2. fenceFlag' = (thr[t].call = "runCmdAsync") /\ fenceFlag' \in BOOLEAN
  BY DEF setFence
<1>3. bufs' = IF cmdBuf = 0 THEN bufs ELSE [bufs EXCEPT ![cmdBuf].flag = fenceFlag']
  BY DEF setFence, withFlag
<1>4. /\ bufs' \in Seq(BufRecord) /\ Len(bufs') = Len(bufs)
      /\ \A c \in 1 .. Len(bufs) :
           /\ bufs'[c].num = bufs[c].num /\ bufs'[c].tune = bufs[c].tune
           /\ bufs'[c].fd = bufs[c].fd /\ bufs'[c].live = bufs[c].live
           /\ bufs'[c].flag = IF c = cmdBuf THEN fenceFlag' ELSE bufs[c].flag
  <2>1. CASE cmdBuf = 0
    BY <1>1, <1>3, <2>1
  <2>2. CASE cmdBuf # 0
    <3>1. cmdBuf \in 1 .. Len(bufs) /\ bufs' = [bufs EXCEPT ![cmdBuf].flag = fenceFlag']
      BY <1>1, <1>3, <2>2
    <3> QED
      BY <1>1, <1>2, <3>1, FlagWritten
  <2> QED
    BY <2>1, <2>2
<1>5. ThreadsTyped' /\ Moved(t, "construct")
  <2>1. Grown
    BY <1>1, <1>4 DEF Grown, setFence
  <2>2. "construct" \in Places(thr[t].call)
    BY <1>1, PlaceFacts DEF setFence, At, Places, RunPC
  <2> QED
    BY <2>1, <2>2, GoesOn DEF setFence, Positions, RunPC
<1>6. CommandTyped'
  BY <1>2, <1>4, CommandKept DEF setFence, StateInv, CommandTyped
<1>7. StateInv'
  <2>1. UNCHANGED <<num, jobs>>
    BY DEF setFence, subCmds, lists
  <2>2. \A c \in 1 .. Len(bufs) :
           /\ bufs'[c].num = bufs[c].num /\ bufs'[c].fd <= Len(jobs')
           /\ bufs'[c].tune \in [0 .. bufs[c].num - 1 -> 0 .. MaxTunes]
    BY <1>4, <2>1 DEF StateInv, BufsTyped
  <2>3. jobs' \in Seq(JobRecord) /\ Len(jobs') <= MaxJobs
        /\ \A j \in 1 .. Len(jobs') : jobs'[j].buf \in 1 .. Len(bufs)
    BY <2>1 DEF StateInv, JobsTyped, Job
  <2> QED
    BY <1>4, <1>5, <1>6, <2>1, <2>2, <2>3, StateKept
<1> QED
  BY <1>1, <1>2, <1>4, <1>5, <1>7

\* The end of constructCmd(), for the user and for a run.
LEMMA AfterConstructFacts ==
  ASSUME StateInv, NEW t \in Threads, At(t, "construct"), NEW ok,
         afterConstruct(t, ok), Grown
  PROVE  /\ ThreadsTyped'
         /\ \/ ok /\ thr[t].call \in Runs /\ Moved(t, "getCmdBuf")
            \/ ~(ok /\ thr[t].call \in Runs) /\ Back(t)
<1>1. CASE ok /\ thr[t].call \in Runs
  <2>1. GoTo(t, "getCmdBuf")
    BY <1>1 DEF afterConstruct
  <2>2. "getCmdBuf" \in Places(thr[t].call) /\ "getCmdBuf" \in Positions
    BY <1>1 DEF Places, RunPC, Positions
  <2> QED
    BY <1>1, <2>1, <2>2, GoesOn
<1>2. CASE ~(ok /\ thr[t].call \in Runs)
  <2>1. Return(t)
    BY <1>2 DEF afterConstruct
  <2> QED
    BY <1>2, <2>1, Returns
<1> QED
  BY <1>1, <1>2

LEMMA constructNothingFacts ==
  ASSUME ListsTypeOK, StateInv, NEW t \in Threads, constructNothing(t)
  PROVE  /\ StateInv'
         /\ \/ ~dirty /\ cmdBuf # 0 /\ thr[t].call \in Runs /\ Moved(t, "getCmdBuf")
            \/ Back(t)
<1>1. UNCHANGED <<mtx, command, jobs, harm, alive, client>> /\ At(t, "construct")
  BY DEF constructNothing
<1>2. UNCHANGED <<subCmds, cmdBuf, client, dirty, fenceFlag, executing, bufs, num>>
  BY <1>1 DEF command, subCmds, lists
<1>3. Grown
  BY <1>1, <1>2, GrownQuiet
<1>4. /\ ThreadsTyped'
      /\ \/ ~constructRefused /\ thr[t].call \in Runs /\ Moved(t, "getCmdBuf")
         \/ Back(t)
  BY <1>1, <1>3, AfterConstructFacts DEF constructNothing
<1>5. ~constructRefused => ~dirty /\ cmdBuf # 0
  BY DEF constructNothing, constructRefused, needsBuffer
<1>6. CommandTyped'
  BY <1>1, <1>2, CommandKept DEF StateInv, CommandTyped
<1>7. StateInv'
  BY <1>1, <1>2, <1>4, <1>6, StateQuiet
<1> QED
  BY <1>4, <1>5, <1>7

LEMMA constructFacts ==
  ASSUME ListsTypeOK, StateInv, NEW t \in Threads, construct(t)
  PROVE  /\ StateInv'
         /\ (thr[t].call \in Runs /\ Moved(t, "getCmdBuf")) \/ Back(t)
         /\ Len(bufs) \in Nat /\ Len(bufs') = Len(bufs) + 1 /\ cmdBuf' = Len(bufs) + 1
         /\ \A c \in 1 .. Len(bufs) : bufs'[c].live = (bufs[c].live /\ c # cmdBuf)
         /\ bufs'[cmdBuf'].num = num /\ bufs'[cmdBuf'].tune = tune
         /\ bufs'[cmdBuf'].flag = fenceFlag /\ bufs'[cmdBuf'].live
<1> DEFINE new == [num |-> num, tune |-> tune, flag |-> fenceFlag, fd |-> 0, live |-> TRUE]
<1>1. /\ bufs \in Seq(BufRecord) /\ Len(bufs) \in Nat /\ cmdBuf \in 0 .. Len(bufs)
      /\ jobs \in Seq(JobRecord) /\ Len(jobs) \in Nat /\ ThreadsTyped
  BY LenProperties DEF StateInv, BufsTyped, JobsTyped, CommandTyped
<1>2. num \in Nat /\ num > 0 /\ tune \in [0 .. num - 1 -> 0 .. MaxTunes]
  <2>1. num # 0
    BY DEF construct, constructRefused, needsBuffer
  <2> QED
    BY <2>1 DEF ListsTypeOK, StateInv, CommandTyped, Idx
<1>3. new \in BufRecord
  BY <1>2 DEF BufRecord, Tunings, StateInv, CommandTyped
<1>4. bufs' = Append(freed, new)
  BY DEF construct
<1>5. /\ freed \in Seq(BufRecord) /\ Len(freed) = Len(bufs)
      /\ \A c \in 1 .. Len(bufs) :
           /\ freed[c].num = bufs[c].num /\ freed[c].tune = bufs[c].tune
           /\ freed[c].flag = bufs[c].flag /\ freed[c].fd = bufs[c].fd
           /\ freed[c].live = (bufs[c].live /\ c # cmdBuf)
  BY <1>1, FreedFacts
<1>6. /\ bufs' \in Seq(BufRecord) /\ Len(bufs') = Len(bufs) + 1
      /\ \A c \in 1 .. Len(bufs) : bufs'[c] = freed[c]
      /\ bufs'[Len(bufs) + 1] = new
  BY <1>1, <1>3, <1>4, <1>5, AppendProperties
<1>7. UNCHANGED <<mtx, lists, tune, fenceFlag, executing, jobs, harm, alive, client, num>>
  BY DEF construct, lists
<1>8. /\ ThreadsTyped'
      /\ (thr[t].call \in Runs /\ Moved(t, "getCmdBuf")) \/ Back(t)
  <2>1. Grown
    BY <1>1, <1>6, <1>7 DEF Grown
  <2> QED
    BY <2>1, AfterConstructFacts DEF construct
<1>9. BufsTyped'
  <2>1. \A c \in 1 .. Len(bufs) :
          /\ bufs'[c].num \in 1 .. num /\ bufs'[c].fd <= Len(jobs)
          /\ bufs'[c].tune \in [0 .. bufs'[c].num - 1 -> 0 .. MaxTunes]
    BY <1>5, <1>6 DEF StateInv, BufsTyped
  <2>2. /\ bufs'[Len(bufs) + 1].num \in 1 .. num /\ bufs'[Len(bufs) + 1].fd <= Len(jobs)
        /\ bufs'[Len(bufs) + 1].tune \in [0 .. bufs'[Len(bufs) + 1].num - 1 -> 0 .. MaxTunes]
    BY <1>1, <1>2, <1>6
  <2>3. Len(bufs') <= MaxBufs
    BY <1>1, <1>6, EngineAssumption DEF construct
  <2>4. \A c \in 1 .. Len(bufs') : c \in 1 .. Len(bufs) \/ c = Len(bufs) + 1
    BY <1>1, <1>6
  <2>5. \A c \in 1 .. Len(bufs') :
          /\ bufs'[c].num \in 1 .. num /\ bufs'[c].fd <= Len(jobs)
          /\ bufs'[c].tune \in [0 .. bufs'[c].num - 1 -> 0 .. MaxTunes]
    BY <2>1, <2>2, <2>4
  <2> QED
    BY <1>6, <1>7, <2>3, <2>5 DEF BufsTyped
<1>10. JobsTyped'
  BY <1>1, <1>6, <1>7 DEF StateInv, JobsTyped, Job
<1>11. CommandTyped'
  <2>1. cmdBuf' = Len(bufs) + 1 /\ dirty' = FALSE /\ entry' = [i \in Idx |-> Len(bufs) + 1]
    BY DEF construct
  <2>2. Idx' = Idx
    BY <1>7 DEF Idx
  <2>3. cmdBuf' \in 0 .. Len(bufs') /\ entry' \in [Idx' -> 0 .. Len(bufs')]
    BY <1>1, <1>6, <2>1, <2>2
  <2> QED
    BY <1>7, <2>1, <2>2, <2>3 DEF StateInv, CommandTyped
<1>12. /\ \A c \in 1 .. Len(bufs) : bufs'[c].live = (bufs[c].live /\ c # cmdBuf)
       /\ bufs'[Len(bufs) + 1].num = num /\ bufs'[Len(bufs) + 1].tune = tune
       /\ bufs'[Len(bufs) + 1].flag = fenceFlag /\ bufs'[Len(bufs) + 1].live
  BY <1>5, <1>6
<1>13. cmdBuf' = Len(bufs) + 1
  BY DEF construct
<1> QED
  BY <1>1, <1>6, <1>8, <1>9, <1>10, <1>11, <1>12, <1>13 DEF StateInv

LEMMA constructFailsFacts ==
  ASSUME ListsTypeOK, StateInv, NEW t \in Threads, constructFails(t)
  PROVE  /\ StateInv' /\ Back(t) /\ dirty /\ Len(bufs) \in Nat /\ Len(bufs') = Len(bufs)
         /\ \/ UNCHANGED <<bufs, cmdBuf>>
            \/ /\ cmdBuf' = 0
               /\ \A c \in 1 .. Len(bufs) : bufs'[c].live = (bufs[c].live /\ c # cmdBuf)
<1>1. /\ bufs \in Seq(BufRecord) /\ Len(bufs) \in Nat /\ cmdBuf \in 0 .. Len(bufs)
      /\ jobs \in Seq(JobRecord) /\ Len(jobs) \in Nat /\ ThreadsTyped
  BY LenProperties DEF StateInv, BufsTyped, JobsTyped, CommandTyped
<1>2. UNCHANGED <<mtx, subCmds, dirty, fenceFlag, executing, jobs, harm, alive, client, num>>
  BY DEF constructFails, subCmds, lists
<1>3. /\ freed \in Seq(BufRecord) /\ Len(freed) = Len(bufs)
      /\ \A c \in 1 .. Len(bufs) :
           /\ freed[c].num = bufs[c].num /\ freed[c].tune = bufs[c].tune
           /\ freed[c].flag = bufs[c].flag /\ freed[c].fd = bufs[c].fd
           /\ freed[c].live = (bufs[c].live /\ c # cmdBuf)
  BY <1>1, FreedFacts
<1>4. \/ UNCHANGED <<bufs, cmdBuf>>
      \/ bufs' = freed /\ cmdBuf' = 0
  BY DEF constructFails
<1>5. /\ bufs' \in Seq(BufRecord) /\ Len(bufs') = Len(bufs) /\ cmdBuf' \in 0 .. Len(bufs)
      /\ \A c \in 1 .. Len(bufs) :
           bufs'[c].num = bufs[c].num /\ bufs'[c].tune = bufs[c].tune /\ bufs'[c].fd = bufs[c].fd
  BY <1>1, <1>3, <1>4
<1>6. ThreadsTyped' /\ Back(t)
  <2>1. Grown
    BY <1>1, <1>2, <1>5 DEF Grown
  <2> QED
    BY <2>1, Returns DEF constructFails
<1>7. CommandTyped'
  BY <1>2, <1>5 DEF StateInv, CommandTyped, subCmds, lists, Idx
<1>8. StateInv'
  <2>1. \A c \in 1 .. Len(bufs) :
           /\ bufs'[c].num = bufs[c].num /\ bufs'[c].fd <= Len(jobs')
           /\ bufs'[c].tune \in [0 .. bufs[c].num - 1 -> 0 .. MaxTunes]
    BY <1>2, <1>5 DEF StateInv, BufsTyped
  <2>2. jobs' \in Seq(JobRecord) /\ Len(jobs') <= MaxJobs
        /\ \A j \in 1 .. Len(jobs') : jobs'[j].buf \in 1 .. Len(bufs)
    BY <1>2 DEF StateInv, JobsTyped, Job
  <2> QED
    BY <1>2, <1>5, <1>6, <1>7, <2>1, <2>2, StateKept
<1>9. dirty
  BY DEF constructFails, needsBuffer
<1> QED
  BY <1>1, <1>3, <1>4, <1>5, <1>6, <1>8, <1>9

\* A step of a thread that changes nothing but the lock and what was harmed.
LEMMA QuietThread ==
  ASSUME ListsTypeOK, StateInv, ThreadsTyped', UNCHANGED <<command, jobs, alive, client>>,
         mtx' \in Threads \cup {NoThread}, harm' \subseteq {"buffer", "descriptor"}
  PROVE  StateInv'
<1>1. UNCHANGED <<subCmds, cmdBuf, client, dirty, fenceFlag, executing, bufs, jobs, num, alive>>
  BY DEF command, subCmds, lists
<1>2. CommandTyped'
  BY <1>1, CommandKept DEF StateInv, CommandTyped
<1> QED
  BY <1>1, <1>2, StateQuiet

LEMMA getCmdBufFacts ==
  ASSUME ListsTypeOK, StateInv, NEW t \in Threads, getCmdBuf(t)
  PROVE  /\ StateInv'
         /\ \/ Back(t)
            \/ dirty /\ Others(t) /\ thr'[t].pc = "locked" /\ thr'[t].call = thr[t].call
            \/ /\ ~dirty /\ cmdBuf # 0
               /\ Others(t) /\ thr'[t].call = thr[t].call /\ thr'[t].buf = cmdBuf
               /\ thr'[t].pc = IF thr[t].call = "getRunInfo" THEN "readInfo"
                               ELSE IF thr[t].call = "waitCmd" THEN "getFence" ELSE "mark"
<1>1. /\ bufs \in Seq(BufRecord) /\ Len(bufs) \in Nat /\ cmdBuf \in 0 .. Len(bufs)
      /\ jobs \in Seq(JobRecord) /\ ThreadsTyped /\ thr[t].job \in Nat
      /\ thr[t].job <= Len(jobs)
  BY LenProperties DEF StateInv, BufsTyped, JobsTyped, CommandTyped, ThreadsTyped, ThreadRecord
<1>2. UNCHANGED <<command, jobs, harm, alive, client>> /\ At(t, "getCmdBuf")
  BY DEF getCmdBuf
<1>3. UNCHANGED bufs
  BY <1>2 DEF command
<1>4. Grown
  BY <1>2, <1>3, GrownQuiet
<1>5. mtx' \in Threads \cup {NoThread} /\ harm' \subseteq {"buffer", "descriptor"}
  BY <1>2 DEF getCmdBuf, StateInv, CommandTyped
<1>6. CASE ~dirty /\ cmdBuf = 0
  <2>1. Return(t)
    BY <1>6 DEF getCmdBuf
  <2>2. ThreadsTyped' /\ Back(t)
    BY <1>4, <2>1, Returns
  <2> QED
    BY <1>2, <1>5, <2>2, QuietThread
<1>7. CASE ~(~dirty /\ cmdBuf = 0)
  <2> DEFINE pc == IF dirty THEN "locked"
                   ELSE IF thr[t].call = "getRunInfo" THEN "readInfo"
                   ELSE IF thr[t].call = "waitCmd" THEN "getFence" ELSE "mark"
  <2>1. thr' = [thr EXCEPT ![t].buf = cmdBuf, ![t].pc = pc]
    <3>1. CASE dirty
      BY <1>7, <3>1 DEF getCmdBuf
    <3>2. CASE ~dirty /\ thr[t].call = "getRunInfo"
      BY <1>7, <3>2 DEF getCmdBuf
    <3>3. CASE ~dirty /\ thr[t].call = "waitCmd"
      BY <1>7, <3>3 DEF getCmdBuf
    <3>4. CASE ~dirty /\ thr[t].call \notin {"getRunInfo", "waitCmd"}
      BY <1>7, <3>4 DEF getCmdBuf
    <3> QED
      BY <3>1, <3>2, <3>3, <3>4
  <2>2. pc = IF dirty THEN "locked"
             ELSE IF thr[t].call = "getRunInfo" THEN "readInfo"
             ELSE IF thr[t].call = "waitCmd" THEN "getFence" ELSE "mark"
    OBVIOUS
  <2>3. pc \in Positions /\ cmdBuf \in Nat
    BY <1>1, <2>2 DEF Positions, RunPC, WaitPC
  <2> HIDE DEF pc
  <2>4. /\ thr' \in [Threads -> ThreadRecord]
        /\ \A u \in Threads \ {t} : thr'[u] = thr[u]
        /\ thr'[t].pc = pc /\ thr'[t].call = thr[t].call
        /\ thr'[t].buf = cmdBuf /\ thr'[t].job = thr[t].job
    BY <1>1, <2>1, <2>3, BufferLearnt
  <2>5. thr[t].call \in Runs \cup {"waitCmd", "getRunInfo"}
    BY <1>1, <1>2, PlaceFacts DEF At
  <2>6. thr'[t].pc \in Places(thr'[t].call)
    BY <2>2, <2>4, <2>5 DEF Places, RunPC, WaitPC, Runs
  <2>7. thr'[t].pc \in {"mark", "submit"} => thr'[t].buf # 0
    BY <1>7, <2>2, <2>4
  <2>8. thr'[t].buf <= Len(bufs') /\ thr'[t].job <= Len(jobs')
    BY <1>1, <1>2, <1>3, <2>4
  <2>9. ThreadsTyped'
    BY <1>1, <1>4, <2>4, <2>6, <2>7, <2>8, ThreadMoved DEF Grown
  <2>10. StateInv'
    BY <1>2, <1>5, <2>9, QuietThread
  <2> QED
    BY <1>7, <2>2, <2>4, <2>10 DEF Others
<1> QED
  BY <1>6, <1>7

LEMMA readInfoFacts ==
  ASSUME ListsTypeOK, StateInv, NEW t \in Threads, readInfo(t)
  PROVE  /\ StateInv' /\ Back(t)
         /\ harm' = harm \/ \E i \in Idx : entry[i] # 0 /\ touch(entry[i])
<1>1. UNCHANGED <<mtx, command, jobs, alive, client>> /\ At(t, "readInfo") /\ Return(t)
  BY DEF readInfo
<1>2. Grown
  BY <1>1, GrownQuiet DEF command
<1>3. harm' = harm \/ \E i \in Idx : entry[i] # 0 /\ touch(entry[i])
  BY DEF readInfo
<1>4. harm' \subseteq {"buffer", "descriptor"} /\ mtx' \in Threads \cup {NoThread}
  BY <1>1, <1>3, TouchFacts DEF StateInv, CommandTyped
<1>5. ThreadsTyped' /\ Back(t)
  BY <1>1, <1>2, Returns
<1> QED
  BY <1>1, <1>3, <1>4, <1>5, QuietThread

LEMMA markExecuteFacts ==
  ASSUME ListsTypeOK, StateInv, NEW t \in Threads, markExecute(t)
  PROVE  /\ StateInv'
         /\ IF executing THEN Back(t) ELSE Moved(t, "submit")
<1>1. /\ UNCHANGED <<mtx, subCmds, dirty, cmdBuf, bufs, fenceFlag, jobs, harm, alive, client, num>>
      /\ executing' = TRUE /\ At(t, "mark")
  BY DEF markExecute, subCmds, lists
<1>2. Grown
  BY <1>1, GrownQuiet
<1>3. /\ ThreadsTyped'
      /\ IF executing THEN Back(t) ELSE Moved(t, "submit")
  <2>1. CASE ~executing
    <3>1. GoTo(t, "submit")
      BY <2>1 DEF markExecute
    <3>2. thr[t].call \in Runs /\ thr[t].buf # 0
      BY <1>1, PlaceFacts DEF At, StateInv, ThreadsTyped
    <3>3. "submit" \in Places(thr[t].call) /\ "submit" \in Positions
      BY <3>2 DEF Places, RunPC, Positions
    <3> QED
      <4>1. ThreadsTyped' /\ Moved(t, "submit")
        BY <1>2, <3>1, <3>2, <3>3, GoesOn
      <4> QED
        BY <2>1, <4>1
  <2>2. CASE executing
    <3>1. Return(t)
      BY <2>2 DEF markExecute
    <3>2. ThreadsTyped' /\ Back(t)
      BY <1>2, <3>1, Returns
    <3>3. executing = TRUE
      BY <2>2 DEF StateInv, CommandTyped
    <3> QED
      BY <3>2, <3>3
  <2> QED
    BY <2>1, <2>2
<1>4. CommandTyped'
  BY <1>1, CommandKept DEF StateInv, CommandTyped
<1>5. StateInv'
  BY <1>1, <1>3, <1>4, StateQuiet
<1> QED
  BY <1>3, <1>5

LEMMA unMarkExecuteFacts ==
  ASSUME ListsTypeOK, StateInv, NEW t \in Threads, unMarkExecute(t)
  PROVE  StateInv' /\ Back(t)
<1>1. /\ UNCHANGED <<mtx, subCmds, dirty, cmdBuf, bufs, fenceFlag, jobs, harm, alive, client, num>>
      /\ executing' = FALSE /\ Return(t)
  BY DEF unMarkExecute, subCmds, lists
<1>2. Grown
  BY <1>1, GrownQuiet
<1>3. ThreadsTyped' /\ Back(t)
  BY <1>1, <1>2, Returns
<1>4. CommandTyped'
  BY <1>1, CommandKept DEF StateInv, CommandTyped
<1>5. StateInv'
  BY <1>1, <1>3, <1>4, StateQuiet
<1> QED
  BY <1>3, <1>5
\* The ioctl that the driver accepts.
LEMMA submitFacts ==
  ASSUME ListsTypeOK, StateInv, NEW t \in Threads, submit(t)
  PROVE  /\ StateInv' /\ thr[t].buf \in 1 .. Len(bufs) /\ touch(thr[t].buf)
         /\ Len(jobs) \in Nat /\ Len(jobs') = Len(jobs) + 1
         /\ \A j \in Job : jobs'[j] = jobs[j]
         /\ jobs'[Len(jobs) + 1] = submitted(t)
         /\ Len(bufs) \in Nat /\ Len(bufs') = Len(bufs)
         /\ \A c \in 1 .. Len(bufs) :
              /\ bufs'[c].num = bufs[c].num /\ bufs'[c].tune = bufs[c].tune
              /\ bufs'[c].flag = bufs[c].flag /\ bufs'[c].live = bufs[c].live
              /\ bufs'[c].fd = IF c = thr[t].buf /\ bufs[c].flag THEN Len(jobs) + 1
                               ELSE bufs[c].fd
         /\ IF thr[t].call = "runCmd"
            THEN Others(t) /\ thr'[t].pc = "ioctl" /\ thr'[t].call = thr[t].call
                 /\ thr'[t].job = Len(jobs) + 1
            ELSE Back(t)
<1> DEFINE b == thr[t].buf
           new == submitted(t)
<1>1. /\ bufs \in Seq(BufRecord) /\ Len(bufs) \in Nat
      /\ jobs \in Seq(JobRecord) /\ Len(jobs) \in Nat /\ ThreadsTyped
      /\ thr \in [Threads -> ThreadRecord]
  BY LenProperties DEF StateInv, BufsTyped, JobsTyped, ThreadsTyped
<1>2. b \in 1 .. Len(bufs) /\ thr[t].call \in Runs /\ touch(b)
  <2>1. b \in Nat /\ b <= Len(bufs) /\ b # 0
    BY DEF submit, At, StateInv, ThreadsTyped, ThreadRecord
  <2> QED
    BY <1>1, <2>1, PlaceFacts DEF submit, At
<1>3. new \in JobRecord /\ new.buf = b
  BY <1>1, <1>2 DEF submitted, JobRecord
<1>4. jobs' = Append(jobs, new) /\ Len(jobs) < MaxJobs
  BY DEF submit
<1>5. /\ jobs' \in Seq(JobRecord) /\ Len(jobs') = Len(jobs) + 1
      /\ \A j \in Job : jobs'[j] = jobs[j]
      /\ jobs'[Len(jobs) + 1] = new
  <2> HIDE DEF new
  <2> QED
    BY <1>1, <1>3, <1>4, AppendProperties DEF Job
<1>6. /\ bufs' \in Seq(BufRecord) /\ Len(bufs') = Len(bufs)
      /\ \A c \in 1 .. Len(bufs) :
           /\ bufs'[c].num = bufs[c].num /\ bufs'[c].tune = bufs[c].tune
           /\ bufs'[c].flag = bufs[c].flag /\ bufs'[c].live = bufs[c].live
           /\ bufs'[c].fd = IF c = b /\ bufs[c].flag THEN Len(jobs) + 1 ELSE bufs[c].fd
  <2>1. CASE bufs[b].flag
    <3>1. bufs' = [bufs EXCEPT ![b].fd = Len(jobs) + 1]
      BY <2>1 DEF submit
    <3>2. bufs \in Seq(BufRecord) /\ b \in 1 .. Len(bufs) /\ Len(jobs) + 1 \in Nat
      BY <1>1, <1>2
    <3>3. /\ bufs' \in Seq(BufRecord) /\ Len(bufs') = Len(bufs)
          /\ \A c \in 1 .. Len(bufs) :
               /\ bufs'[c].num = bufs[c].num /\ bufs'[c].tune = bufs[c].tune
               /\ bufs'[c].flag = bufs[c].flag /\ bufs'[c].live = bufs[c].live
               /\ bufs'[c].fd = IF c = b THEN Len(jobs) + 1 ELSE bufs[c].fd
      <4> HIDE DEF b
      <4> QED
        BY <3>1, <3>2, FdWritten
    <3> QED
      BY <2>1, <3>3
  <2>2. CASE ~bufs[b].flag
    <3>1. bufs' = bufs
      BY <2>2 DEF submit
    <3> QED
      BY <1>1, <2>2, <3>1
  <2> QED
    BY <2>1, <2>2
<1>7. UNCHANGED <<mtx, subCmds, dirty, cmdBuf, fenceFlag, executing, alive, client, num>>
  BY DEF submit, subCmds, lists
<1>8. Grown
  BY <1>1, <1>5, <1>6 DEF Grown
<1>9. ThreadsTyped' /\ IF thr[t].call = "runCmd"
                       THEN Others(t) /\ thr'[t].pc = "ioctl" /\ thr'[t].call = thr[t].call
                            /\ thr'[t].job = Len(jobs) + 1
                       ELSE Back(t)
  <2>1. CASE thr[t].call = "runCmd"
    <3>1. thr' = [thr EXCEPT ![t].pc = "ioctl", ![t].job = Len(jobs) + 1]
      BY <2>1 DEF submit
    <3>2. PICK j \in Nat : j = Len(jobs) + 1
      BY <1>1
    <3>3. /\ thr' \in [Threads -> ThreadRecord]
          /\ \A u \in Threads \ {t} : thr'[u] = thr[u]
          /\ thr'[t].pc = "ioctl" /\ thr'[t].call = thr[t].call
          /\ thr'[t].buf = thr[t].buf /\ thr'[t].job = Len(jobs) + 1
      <4> DEFINE r == [thr[t] EXCEPT !.pc = "ioctl", !.job = j]
      <4>1. thr' = [thr EXCEPT ![t] = r]
        BY <1>1, <3>1, <3>2
      <4>2. /\ r \in ThreadRecord /\ r.pc = "ioctl" /\ r.call = thr[t].call
            /\ r.buf = thr[t].buf /\ r.job = j
        BY <1>1 DEF ThreadRecord, Positions, RunPC
      <4> HIDE DEF r
      <4> QED
        BY <1>1, <3>2, <4>1, <4>2
    <3>4. thr'[t].pc \in Places(thr'[t].call)
      BY <2>1, <3>3 DEF Places, RunPC, Runs
    <3>5. /\ thr'[t].buf <= Len(bufs') /\ thr'[t].job <= Len(jobs')
          /\ thr'[t].pc \notin {"mark", "submit"}
      BY <1>1, <1>2, <1>5, <1>6, <3>3
    <3>6. ThreadsTyped'
      BY <1>1, <1>8, <3>3, <3>4, <3>5, ThreadMoved DEF Grown
    <3> QED
      BY <2>1, <3>3, <3>6 DEF Others
  <2>2. CASE thr[t].call # "runCmd"
    <3>1. Return(t)
      BY <2>2 DEF submit
    <3>2. ThreadsTyped' /\ Back(t)
      BY <1>8, <3>1, Returns
    <3> QED
      BY <2>2, <3>2
  <2> QED
    BY <2>1, <2>2
<1>10. CommandTyped'
  <2>1. harm' \subseteq {"buffer", "descriptor"}
    BY <1>2, TouchFacts
  <2> QED
    BY <1>6, <1>7, <2>1, CommandKept DEF StateInv, CommandTyped
<1>11. StateInv'
  <2>1. \A c \in 1 .. Len(bufs) :
           /\ bufs'[c].num = bufs[c].num /\ bufs'[c].fd <= Len(jobs')
           /\ bufs'[c].tune \in [0 .. bufs[c].num - 1 -> 0 .. MaxTunes]
    <3>1. \A c \in 1 .. Len(bufs) : bufs[c].fd \in Nat
      <4>1. \A c \in 1 .. Len(bufs) : bufs[c] \in BufRecord
        BY <1>1, ElementOfSeq
      <4> QED
        BY <4>1 DEF BufRecord
    <3>2. \A c \in 1 .. Len(bufs) : bufs[c].fd <= Len(jobs)
      BY DEF StateInv, BufsTyped
    <3>3. \A c \in 1 .. Len(bufs) : bufs'[c].fd <= Len(jobs) + 1
      BY <1>1, <1>6, <3>1, <3>2
    <3>4. \A c \in 1 .. Len(bufs) :
            bufs[c].tune \in [0 .. bufs[c].num - 1 -> 0 .. MaxTunes]
      BY DEF StateInv, BufsTyped
    <3> QED
      BY <1>5, <1>6, <3>3, <3>4
  <2>2. Len(jobs') <= MaxJobs
    BY <1>1, <1>4, <1>5, EngineAssumption
  <2>3. \A j \in 1 .. Len(jobs') : jobs'[j].buf \in 1 .. Len(bufs)
    <3>1. \A j \in 1 .. Len(jobs') : j \in Job \/ j = Len(jobs) + 1
      BY <1>1, <1>5 DEF Job
    <3>2. \A j \in Job : jobs[j].buf \in 1 .. Len(bufs)
      BY DEF StateInv, JobsTyped
    <3> QED
      BY <1>2, <1>3, <1>5, <3>1, <3>2
  <2> QED
    BY <1>5, <1>6, <1>7, <1>9, <1>10, <2>1, <2>2, <2>3, StateKept
<1> QED
  BY <1>1, <1>2, <1>5, <1>6, <1>9, <1>11

\* The ioctl that fails.
LEMMA submitFailsFacts ==
  ASSUME ListsTypeOK, StateInv, NEW t \in Threads, submitFails(t)
  PROVE  StateInv' /\ Moved(t, "unmark") /\ thr[t].buf \in 1 .. Len(bufs) /\ touch(thr[t].buf)
<1>1. /\ UNCHANGED <<mtx, command, jobs, alive, client>> /\ At(t, "submit")
      /\ GoTo(t, "unmark") /\ touch(thr[t].buf)
  BY DEF submitFails
<1>2. Grown
  BY <1>1, GrownQuiet DEF command
<1>3. thr[t].buf \in 1 .. Len(bufs)
  <2>1. thr[t].buf \in Nat /\ thr[t].buf <= Len(bufs) /\ thr[t].buf # 0 /\ Len(bufs) \in Nat
    BY <1>1, LenProperties DEF At, StateInv, BufsTyped, ThreadsTyped, ThreadRecord
  <2> QED
    BY <2>1
<1>4. "unmark" \in Places(thr[t].call) /\ "unmark" \in Positions
  BY <1>1, PlaceFacts DEF At, StateInv, Places, RunPC, Positions
<1>5. ThreadsTyped' /\ Moved(t, "unmark")
  BY <1>1, <1>2, <1>4, GoesOn
<1>6. harm' \subseteq {"buffer", "descriptor"} /\ mtx' \in Threads \cup {NoThread}
  BY <1>1, TouchFacts DEF StateInv, CommandTyped
<1>7. StateInv'
  BY <1>1, <1>5, <1>6, QuietThread
<1> QED
  BY <1>1, <1>3, <1>5, <1>7
\* A job after a field of it was written.
LEMMA JobWritten ==
  ASSUME JobsTyped, NEW j \in Job, NEW r \in JobRecord, r.buf = jobs[j].buf,
         jobs' = [jobs EXCEPT ![j] = r]
  PROVE  /\ jobs' \in Seq(JobRecord) /\ Len(jobs') = Len(jobs) /\ Len(jobs) \in Nat
         /\ \A k \in Job : jobs'[k] = IF k = j THEN r ELSE jobs[k]
         /\ \A k \in Job : jobs'[k].buf = jobs[k].buf
<1>1. jobs \in Seq(JobRecord) /\ j \in 1 .. Len(jobs)
  BY DEF JobsTyped, Job
<1>2. jobs' \in Seq(JobRecord) /\ Len(jobs') = Len(jobs)
  BY <1>1, ExceptSeq
<1> QED
  BY <1>1, <1>2, LenProperties DEF Job

\* A step that writes to a job, with the thread that does so or without.
LEMMA JobsKept ==
  ASSUME ListsTypeOK, StateInv, ThreadsTyped', UNCHANGED <<mtx, command, alive, client>>,
         jobs' \in Seq(JobRecord), Len(jobs') = Len(jobs),
         \A j \in Job : jobs'[j].buf = jobs[j].buf,
         harm' \subseteq {"buffer", "descriptor"}
  PROVE  StateInv'
<1>1. UNCHANGED <<subCmds, cmdBuf, client, dirty, fenceFlag, executing, bufs, num, alive, mtx>>
  BY DEF command, subCmds, lists
<1>2. CommandTyped'
  BY <1>1, CommandKept DEF StateInv, CommandTyped
<1>3. \A c \in 1 .. Len(bufs) :
         /\ bufs'[c].num = bufs[c].num /\ bufs'[c].fd <= Len(jobs')
         /\ bufs'[c].tune \in [0 .. bufs[c].num - 1 -> 0 .. MaxTunes]
  BY <1>1 DEF StateInv, BufsTyped
<1>4. bufs' \in Seq(BufRecord) /\ Len(bufs') = Len(bufs) /\ Len(jobs') <= MaxJobs
  BY <1>1 DEF StateInv, BufsTyped, JobsTyped
<1>5. \A j \in 1 .. Len(jobs') : jobs'[j].buf \in 1 .. Len(bufs)
  BY DEF StateInv, JobsTyped, Job
<1> QED
  BY <1>1, <1>2, <1>3, <1>4, <1>5, StateKept

LEMMA syncDoneFacts ==
  ASSUME ListsTypeOK, StateInv, NEW t \in Threads, syncDone(t), thr[t].job \in Job
  PROVE  /\ StateInv' /\ Moved(t, "unmark") /\ Len(jobs') = Len(jobs)
         /\ \A k \in Job :
              /\ jobs'[k].call = jobs[k].call /\ jobs'[k].current = jobs[k].current
              /\ jobs'[k].closed = jobs[k].closed /\ jobs'[k].state = jobs[k].state
              /\ jobs'[k].told = (jobs[k].told \/ k = thr[t].job)
         /\ jobs[thr[t].job].state = "done"
<1> DEFINE j == thr[t].job
           r == [jobs[j] EXCEPT !.told = TRUE]
<1>1. /\ UNCHANGED <<mtx, command, harm, alive, client>> /\ At(t, "ioctl")
      /\ jobs[j].state = "done" /\ GoTo(t, "unmark") /\ jobs' = [jobs EXCEPT ![j] = r]
  BY DEF syncDone
<1>2. JobsTyped /\ bufs \in Seq(BufRecord) /\ Len(bufs) \in Nat
  BY LenProperties DEF StateInv, BufsTyped
<1>3. \A k \in Job : jobs[k] \in JobRecord
  BY <1>2, ElementOfSeq DEF JobsTyped, Job
<1>4. /\ r \in JobRecord /\ r.buf = jobs[j].buf /\ r.call = jobs[j].call /\ r.told = TRUE
      /\ r.current = jobs[j].current /\ r.closed = jobs[j].closed /\ r.state = jobs[j].state
  BY <1>3 DEF JobRecord
<1> HIDE DEF r
<1>5. /\ jobs' \in Seq(JobRecord) /\ Len(jobs') = Len(jobs) /\ Len(jobs) \in Nat
      /\ \A k \in Job : jobs'[k] = IF k = j THEN r ELSE jobs[k]
      /\ \A k \in Job : jobs'[k].buf = jobs[k].buf
  BY <1>1, <1>2, <1>4, JobWritten
<1>6. Grown
  BY <1>1, <1>2, <1>5 DEF Grown, command
<1>7. "unmark" \in Places(thr[t].call) /\ "unmark" \in Positions
  BY <1>1, PlaceFacts DEF At, StateInv, Places, RunPC, Positions
<1>8. ThreadsTyped' /\ Moved(t, "unmark")
  BY <1>1, <1>6, <1>7, GoesOn
<1>9. StateInv'
  BY <1>1, <1>5, <1>8, JobsKept DEF StateInv, CommandTyped
<1>10. \A k \in Job : jobs[k].told \in BOOLEAN
  BY <1>3 DEF JobRecord
<1>11. \A k \in Job :
         /\ jobs'[k].call = jobs[k].call /\ jobs'[k].current = jobs[k].current
         /\ jobs'[k].closed = jobs[k].closed /\ jobs'[k].state = jobs[k].state
         /\ jobs'[k].told = (jobs[k].told \/ k = j)
  BY <1>4, <1>5, <1>10
<1> QED
  BY <1>1, <1>5, <1>8, <1>9, <1>11

LEMMA getFenceFacts ==
  ASSUME ListsTypeOK, StateInv, NEW t \in Threads, getFence(t)
  PROVE  /\ StateInv'
         /\ IF cmdBuf = 0
            THEN Back(t) /\ harm' = harm
            ELSE /\ touch(cmdBuf) /\ cmdBuf \in 1 .. Len(bufs)
                 /\ Others(t) /\ thr'[t].pc = "poll" /\ thr'[t].call = thr[t].call
                 /\ thr'[t].job = bufs[cmdBuf].fd
<1>1. UNCHANGED <<mtx, command, jobs, alive, client>> /\ At(t, "getFence")
  BY DEF getFence
<1>2. Grown
  BY <1>1, GrownQuiet DEF command
<1>3. /\ bufs \in Seq(BufRecord) /\ Len(bufs) \in Nat /\ cmdBuf \in 0 .. Len(bufs)
      /\ jobs \in Seq(JobRecord) /\ ThreadsTyped /\ thr \in [Threads -> ThreadRecord]
      /\ mtx \in Threads \cup {NoThread} /\ harm \subseteq {"buffer", "descriptor"}
  BY LenProperties DEF StateInv, BufsTyped, JobsTyped, CommandTyped, ThreadsTyped
<1>4. CASE cmdBuf = 0
  <2>1. Return(t) /\ harm' = harm
    BY <1>4 DEF getFence
  <2>2. ThreadsTyped' /\ Back(t)
    BY <1>2, <2>1, Returns
  <2>3. StateInv'
    BY <1>1, <1>3, <2>1, <2>2, QuietThread
  <2> QED
    BY <1>4, <2>1, <2>2, <2>3
<1>5. CASE cmdBuf # 0
  <2>1. /\ touch(cmdBuf) /\ cmdBuf \in 1 .. Len(bufs)
        /\ thr' = [thr EXCEPT ![t].pc = "poll", ![t].job = bufs[cmdBuf].fd]
    BY <1>3, <1>5 DEF getFence
  <2>2. bufs[cmdBuf].fd \in Nat /\ bufs[cmdBuf].fd <= Len(jobs)
    <3>1. bufs[cmdBuf] \in BufRecord
      BY <1>3, <2>1, ElementOfSeq
    <3> QED
      BY <2>1, <3>1 DEF BufRecord, StateInv, BufsTyped
  <2> DEFINE r == [thr[t] EXCEPT !.pc = "poll", !.job = bufs[cmdBuf].fd]
  <2>3. thr' = [thr EXCEPT ![t] = r]
    BY <1>3, <2>1
  <2>4. /\ r \in ThreadRecord /\ r.pc = "poll" /\ r.call = thr[t].call
        /\ r.buf = thr[t].buf /\ r.job = bufs[cmdBuf].fd
    BY <1>3, <2>2 DEF ThreadRecord, Positions, WaitPC
  <2> HIDE DEF r
  <2>5. thr' \in [Threads -> ThreadRecord] /\ Others(t) /\ thr'[t] = r
    BY <1>3, <2>3, <2>4 DEF Others
  <2>6. thr'[t].pc \in Places(thr'[t].call)
    <3>1. thr[t].call = "waitCmd"
      BY <1>1, <1>3, PlaceFacts DEF At
    <3> QED
      BY <2>4, <2>5, <3>1 DEF Places, WaitPC, Runs
  <2>7. ThreadsTyped'
    <3>1. thr'[t].buf <= Len(bufs') /\ thr'[t].job <= Len(jobs')
      BY <1>1, <1>3, <2>2, <2>4, <2>5 DEF StateInv, ThreadsTyped, command
    <3>2. thr'[t].pc \notin {"mark", "submit"}
      BY <2>4, <2>5
    <3> QED
      BY <1>2, <1>3, <2>5, <2>6, <3>1, <3>2, ThreadMoved DEF Grown, Others
  <2>8. harm' \subseteq {"buffer", "descriptor"}
    BY <2>1, TouchFacts
  <2>9. StateInv'
    BY <1>1, <1>3, <2>7, <2>8, QuietThread
  <2> QED
    BY <1>5, <2>1, <2>4, <2>5, <2>9
<1> QED
  BY <1>4, <1>5

\* A job whose fence was waited for and closed.
LEMMA JobClosed ==
  ASSUME NEW x \in JobRecord
  PROVE  LET r == [x EXCEPT !.told = TRUE, !.closed = 1]
         IN  /\ r \in JobRecord /\ r.buf = x.buf /\ r.call = x.call /\ r.told = TRUE
             /\ r.current = x.current /\ r.closed = 1 /\ r.state = x.state
<1>1. 1 \in 0 .. 1 /\ TRUE \in BOOLEAN
  OBVIOUS
<1> QED
  BY <1>1 DEF JobRecord

LEMMA pollFacts ==
  ASSUME ListsTypeOK, StateInv, NEW t \in Threads, poll(t)
  PROVE  /\ StateInv' /\ Moved(t, "unmark") /\ Len(jobs') = Len(jobs)
         /\ \/ /\ thr[t].job = 0 \/ (thr[t].job \in Job /\ jobs[thr[t].job].closed > 0)
               /\ jobs' = jobs
            \/ /\ thr[t].job \in Job /\ jobs[thr[t].job].state = "done" /\ harm' = harm
               /\ \A k \in Job :
                    /\ jobs'[k].call = jobs[k].call /\ jobs'[k].current = jobs[k].current
                    /\ jobs'[k].state = jobs[k].state
                    /\ jobs'[k].closed = IF k = thr[t].job THEN 1 ELSE jobs[k].closed
                    /\ jobs'[k].told = (jobs[k].told \/ k = thr[t].job)
<1> DEFINE j == thr[t].job
           foreign == j = 0 \/ jobs[j].closed > 0
           r == [jobs[j] EXCEPT !.told = TRUE, !.closed = 1]
<1>1. UNCHANGED <<mtx, command, alive, client>> /\ At(t, "poll") /\ GoTo(t, "unmark")
  BY DEF poll
<1>2. /\ JobsTyped /\ bufs \in Seq(BufRecord) /\ Len(bufs) \in Nat
      /\ jobs \in Seq(JobRecord) /\ Len(jobs) \in Nat
  BY LenProperties DEF StateInv, BufsTyped, JobsTyped
<1>3. j \in Nat /\ j <= Len(jobs)
  BY DEF StateInv, ThreadsTyped, ThreadRecord
<1>4. \A k \in Job : jobs[k] \in JobRecord
  BY <1>2, ElementOfSeq DEF Job
<1>5. harm' \subseteq {"buffer", "descriptor"}
  BY DEF poll, StateInv, CommandTyped
<1>6. /\ jobs' \in Seq(JobRecord) /\ Len(jobs') = Len(jobs)
      /\ \A k \in Job : jobs'[k].buf = jobs[k].buf
      /\ \/ /\ thr[t].job = 0 \/ (thr[t].job \in Job /\ jobs[thr[t].job].closed > 0)
            /\ jobs' = jobs
         \/ /\ thr[t].job \in Job /\ jobs[thr[t].job].state = "done" /\ harm' = harm
            /\ \A k \in Job :
                 /\ jobs'[k].call = jobs[k].call /\ jobs'[k].current = jobs[k].current
                 /\ jobs'[k].state = jobs[k].state
                 /\ jobs'[k].closed = IF k = thr[t].job THEN 1 ELSE jobs[k].closed
                 /\ jobs'[k].told = (jobs[k].told \/ k = thr[t].job)
  <2>1. CASE foreign
    <3>1. jobs' = jobs
      BY <2>1 DEF poll
    <3>2. thr[t].job = 0 \/ (thr[t].job \in Job /\ jobs[thr[t].job].closed > 0)
      BY <1>2, <1>3, <2>1 DEF Job
    <3> QED
      BY <1>2, <3>1, <3>2
  <2>2. CASE ~foreign
    <3>1. j \in Job /\ jobs[j].state = "done"
      BY <1>2, <1>3, <2>2 DEF Job, poll
    <3>2. harm' = harm /\ jobs' = [jobs EXCEPT ![j] = r]
      BY <2>2 DEF poll
    <3>3. /\ r \in JobRecord /\ r.buf = jobs[j].buf /\ r.call = jobs[j].call /\ r.told = TRUE
          /\ r.current = jobs[j].current /\ r.closed = 1 /\ r.state = jobs[j].state
      <4>1. jobs[j] \in JobRecord
        BY <1>4, <3>1
      <4> QED
        BY <4>1, JobClosed
    <3> HIDE DEF r
    <3>4. /\ jobs' \in Seq(JobRecord) /\ Len(jobs') = Len(jobs) /\ Len(jobs) \in Nat
          /\ \A k \in Job : jobs'[k] = IF k = j THEN r ELSE jobs[k]
          /\ \A k \in Job : jobs'[k].buf = jobs[k].buf
      BY <1>2, <3>1, <3>2, <3>3, JobWritten
    <3>5. \A k \in Job : jobs[k].told \in BOOLEAN
      BY <1>4 DEF JobRecord
    <3>6. \A k \in Job :
            /\ jobs'[k].call = jobs[k].call /\ jobs'[k].current = jobs[k].current
            /\ jobs'[k].state = jobs[k].state
            /\ jobs'[k].closed = IF k = j THEN 1 ELSE jobs[k].closed
            /\ jobs'[k].told = (jobs[k].told \/ k = j)
      BY <3>3, <3>4, <3>5
    <3> QED
      BY <3>1, <3>2, <3>4, <3>6
  <2> QED
    BY <2>1, <2>2
<1>7. Grown
  BY <1>1, <1>2, <1>6 DEF Grown, command
<1>8. "unmark" \in Places(thr[t].call) /\ "unmark" \in Positions
  BY <1>1, PlaceFacts DEF At, StateInv, Places, WaitPC, Positions, Runs
<1>9. ThreadsTyped' /\ Moved(t, "unmark")
  BY <1>1, <1>7, <1>8, GoesOn
<1>10. StateInv'
  BY <1>1, <1>5, <1>6, <1>9, JobsKept
<1> QED
  BY <1>6, <1>9, <1>10
-----------------------------------------------------------------------------
LEMMA CallFacts ==
  ASSUME ListsTypeOK, StateInv, NEW t \in Threads, NEW c \in Calls, Call(t, c)
  PROVE  /\ StateInv' /\ Others(t) /\ thr'[t].call = c
         /\ thr'[t].pc = IF c \in Runs THEN "setFence"
                         ELSE IF c = "constructCmd" THEN "construct" ELSE "getCmdBuf"
<1> DEFINE pc == IF c \in Runs THEN "setFence"
                 ELSE IF c = "constructCmd" THEN "construct" ELSE "getCmdBuf"
<1>1. UNCHANGED <<mtx, command, jobs, harm, alive, client>>
  BY DEF Call
<1>2. thr' = [thr EXCEPT ![t] = [Idle EXCEPT !.call = c, !.pc = pc]]
  <2>1. CASE c \in Runs
    BY <2>1 DEF Call, Runs
  <2>2. CASE c = "constructCmd"
    BY <2>2 DEF Call, Runs
  <2>3. CASE c \notin Runs /\ c # "constructCmd"
    BY <2>3 DEF Call
  <2> QED
    BY <2>1, <2>2, <2>3
<1>3. pc \in Positions /\ pc \in Places(c) /\ pc \notin {"mark", "submit"}
  BY DEF Positions, RunPC, WaitPC, Places, Calls, Runs
<1> DEFINE r == [Idle EXCEPT !.call = c, !.pc = pc]
<1>4. /\ r \in ThreadRecord /\ r.pc = pc /\ r.call = c /\ r.buf = 0 /\ r.job = 0
  <2> HIDE DEF pc
  <2> QED
    BY <1>3 DEF Idle, ThreadRecord
<1> HIDE DEF r
<1>5. thr' = [thr EXCEPT ![t] = r]
  BY <1>2 DEF r
<1>6. /\ bufs \in Seq(BufRecord) /\ jobs \in Seq(JobRecord) /\ ThreadsTyped
      /\ Len(bufs) \in Nat /\ Len(jobs) \in Nat
      /\ mtx \in Threads \cup {NoThread} /\ harm \subseteq {"buffer", "descriptor"}
  BY LenProperties DEF StateInv, BufsTyped, JobsTyped, CommandTyped
<1> HIDE DEF pc
<1>7. thr' \in [Threads -> ThreadRecord] /\ Others(t) /\ thr'[t] = r
  BY <1>4, <1>5, <1>6 DEF Others, ThreadsTyped
<1>8. ThreadsTyped'
  <2>1. Grown
    BY <1>1, GrownQuiet DEF command
  <2>2. thr'[t].pc \in Places(thr'[t].call) /\ thr'[t].pc \notin {"mark", "submit"}
    BY <1>3, <1>4, <1>7
  <2>3. thr'[t].buf <= Len(bufs') /\ thr'[t].job <= Len(jobs')
    BY <1>1, <1>4, <1>6, <1>7 DEF command
  <2> QED
    BY <1>6, <1>7, <2>1, <2>2, <2>3, ThreadMoved DEF Grown, Others
<1>9. StateInv'
  BY <1>1, <1>6, <1>8, QuietThread
<1> QED
  BY <1>4, <1>7, <1>9 DEF pc

LEMMA CompleteFacts ==
  ASSUME ListsTypeOK, StateInv, NEW j \in Job, Complete(j)
  PROVE  /\ StateInv' /\ Len(jobs') = Len(jobs) /\ thr' = thr
         /\ \A k \in Job :
              /\ jobs'[k].call = jobs[k].call /\ jobs'[k].current = jobs[k].current
              /\ jobs'[k].closed = jobs[k].closed /\ jobs'[k].told = jobs[k].told
              /\ jobs'[k].state = IF k = j THEN "done" ELSE jobs[k].state
<1> DEFINE r == [jobs[j] EXCEPT !.state = "done"]
<1>1. UNCHANGED <<mtx, command, harm, thr, alive, client>> /\ jobs' = [jobs EXCEPT ![j] = r]
  BY DEF Complete
<1>2. JobsTyped /\ bufs \in Seq(BufRecord) /\ harm \subseteq {"buffer", "descriptor"}
  BY DEF StateInv, BufsTyped, CommandTyped
<1>3. \A k \in Job : jobs[k] \in JobRecord
  BY <1>2, ElementOfSeq DEF JobsTyped, Job
<1>4. /\ r \in JobRecord /\ r.buf = jobs[j].buf /\ r.call = jobs[j].call
      /\ r.current = jobs[j].current /\ r.closed = jobs[j].closed /\ r.told = jobs[j].told
      /\ r.state = "done"
  BY <1>3 DEF JobRecord
<1> HIDE DEF r
<1>5. /\ jobs' \in Seq(JobRecord) /\ Len(jobs') = Len(jobs) /\ Len(jobs) \in Nat
      /\ \A k \in Job : jobs'[k] = IF k = j THEN r ELSE jobs[k]
      /\ \A k \in Job : jobs'[k].buf = jobs[k].buf
  BY <1>1, <1>2, <1>4, JobWritten
<1>6. ThreadsTyped'
  BY <1>1, <1>5 DEF StateInv, ThreadsTyped, command
<1>7. StateInv'
  BY <1>1, <1>2, <1>5, <1>6, JobsKept
<1>8. \A k \in Job :
         /\ jobs'[k].call = jobs[k].call /\ jobs'[k].current = jobs[k].current
         /\ jobs'[k].closed = jobs[k].closed /\ jobs'[k].told = jobs[k].told
         /\ jobs'[k].state = IF k = j THEN "done" ELSE jobs[k].state
  BY <1>4, <1>5
<1> QED
  BY <1>1, <1>5, <1>7, <1>8

LEMMA destroyCmdFacts ==
  ASSUME ListsTypeOK, StateInv, destroyCmd
  PROVE  /\ StateInv' /\ Len(bufs') = Len(bufs) /\ cmdBuf' = 0 /\ ~alive'
<1>1. /\ UNCHANGED <<mtx, subCmds, dirty, fenceFlag, executing, jobs, harm, thr, client, num>>
      /\ cmdBuf' = 0 /\ alive' = FALSE /\ bufs' \in {freed, bufs}
  BY DEF destroyCmd, subCmds, lists
<1>2. /\ bufs \in Seq(BufRecord) /\ Len(bufs) \in Nat /\ cmdBuf \in 0 .. Len(bufs)
  BY LenProperties DEF StateInv, BufsTyped, CommandTyped
<1>3. /\ freed \in Seq(BufRecord) /\ Len(freed) = Len(bufs)
      /\ \A c \in 1 .. Len(bufs) :
           /\ freed[c].num = bufs[c].num /\ freed[c].tune = bufs[c].tune
           /\ freed[c].flag = bufs[c].flag /\ freed[c].fd = bufs[c].fd
           /\ freed[c].live = (bufs[c].live /\ c # cmdBuf)
  BY <1>2, FreedFacts
<1>4. /\ bufs' \in Seq(BufRecord) /\ Len(bufs') = Len(bufs)
      /\ \A c \in 1 .. Len(bufs) :
           bufs'[c].num = bufs[c].num /\ bufs'[c].tune = bufs[c].tune /\ bufs'[c].fd = bufs[c].fd
  BY <1>1, <1>2, <1>3
<1>5. ThreadsTyped' /\ CommandTyped'
  <2>1. ThreadsTyped'
    BY <1>1, <1>4 DEF StateInv, ThreadsTyped
  <2>2. cmdBuf' \in 0 .. Len(bufs') /\ Idx' = Idx
    BY <1>1, <1>2, <1>4 DEF Idx
  <2>3. CommandTyped'
    BY <1>1, <1>4, <2>2 DEF StateInv, CommandTyped, subCmds
  <2> QED
    BY <2>1, <2>3
<1>6. \A c \in 1 .. Len(bufs) :
         /\ bufs'[c].num = bufs[c].num /\ bufs'[c].fd <= Len(jobs')
         /\ bufs'[c].tune \in [0 .. bufs[c].num - 1 -> 0 .. MaxTunes]
  BY <1>1, <1>4 DEF StateInv, BufsTyped
<1>7. /\ jobs' \in Seq(JobRecord) /\ Len(jobs') <= MaxJobs
      /\ \A j \in 1 .. Len(jobs') : jobs'[j].buf \in 1 .. Len(bufs)
  BY <1>1 DEF StateInv, JobsTyped, Job
<1> QED
  BY <1>1, <1>4, <1>5, <1>6, <1>7, StateKept

LEMMA setTuneParamFacts ==
  ASSUME ListsTypeOK, StateInv, NEW i \in Idx, setTuneParam(i)
  PROVE  /\ StateInv' /\ Len(bufs') = Len(bufs) /\ Len(bufs) \in Nat
         /\ UNCHANGED <<mtx, lists, entry, dirty, cmdBuf, fenceFlag, executing>>
         /\ UNCHANGED <<jobs, thr, alive, client>>
         /\ \E new : /\ tune' = [tune EXCEPT ![i] = new]
                     /\ \A c \in 1 .. Len(bufs) :
                          /\ bufs'[c].num = bufs[c].num /\ bufs'[c].fd = bufs[c].fd
                          /\ bufs'[c].flag = bufs[c].flag /\ bufs'[c].live = bufs[c].live
                          /\ bufs'[c].tune = IF c = entry[i] THEN [bufs[c].tune EXCEPT ![i] = new]
                                             ELSE bufs[c].tune
         /\ IF entry[i] = 0 THEN harm' = harm ELSE touch(entry[i])
<1> DEFINE new == CHOOSE n \in 1 .. MaxTunes : \A j \in Idx : tune[j] < n
<1>1. /\ UNCHANGED <<mtx, lists, entry, dirty, cmdBuf, fenceFlag, executing>>
      /\ UNCHANGED <<jobs, thr, alive, client>>
      /\ tune' = [tune EXCEPT ![i] = new]
      /\ IF entry[i] = 0 THEN UNCHANGED <<bufs, harm>>
         ELSE bufs' = [bufs EXCEPT ![entry[i]].tune[i] = new] /\ touch(entry[i])
  BY DEF setTuneParam
<1>2. /\ bufs \in Seq(BufRecord) /\ Len(bufs) \in Nat /\ BufsTyped
      /\ entry[i] \in 0 .. Len(bufs) /\ tune \in [Idx -> 0 .. MaxTunes]
      /\ harm \subseteq {"buffer", "descriptor"}
  BY LenProperties DEF StateInv, BufsTyped, CommandTyped
<1>3. new \in 0 .. MaxTunes
  <2>1. \A j \in Idx : tune[j] < MaxTunes
    BY DEF setTuneParam
  <2>2. MaxTunes \in Nat /\ MaxTunes > 0
    BY <1>2, <2>1, EngineAssumption
  <2>3. \E n \in 1 .. MaxTunes : \A j \in Idx : tune[j] < n
    BY <2>1, <2>2
  <2>4. new \in 1 .. MaxTunes
    BY <2>3
  <2> QED
    BY <2>2, <2>4
<1> HIDE DEF new
<1>4. /\ bufs' \in Seq(BufRecord) /\ Len(bufs') = Len(bufs)
      /\ \A c \in 1 .. Len(bufs) :
           /\ bufs'[c].num = bufs[c].num /\ bufs'[c].fd = bufs[c].fd
           /\ bufs'[c].flag = bufs[c].flag /\ bufs'[c].live = bufs[c].live
           /\ bufs'[c].tune = IF c = entry[i] THEN [bufs[c].tune EXCEPT ![i] = new]
                              ELSE bufs[c].tune
      /\ IF entry[i] = 0 THEN harm' = harm ELSE touch(entry[i])
  <2>1. CASE entry[i] = 0
    BY <1>1, <1>2, <2>1
  <2>2. CASE entry[i] # 0
    <3>1. /\ entry[i] \in 1 .. Len(bufs) /\ touch(entry[i])
          /\ bufs' = [bufs EXCEPT ![entry[i]].tune[i] = new]
      BY <1>1, <1>2, <2>2
    <3>2. PICK b \in 1 .. Len(bufs) : b = entry[i]
      BY <3>1
    <3>3. bufs' = [bufs EXCEPT ![b].tune[i] = new]
      BY <3>1, <3>2
    <3>4. /\ bufs' \in Seq(BufRecord) /\ Len(bufs') = Len(bufs)
          /\ \A c \in 1 .. Len(bufs) :
               /\ bufs'[c].num = bufs[c].num /\ bufs'[c].fd = bufs[c].fd
               /\ bufs'[c].flag = bufs[c].flag /\ bufs'[c].live = bufs[c].live
               /\ bufs'[c].tune = IF c = b THEN [bufs[b].tune EXCEPT ![i] = new]
                                  ELSE bufs[c].tune
      BY <1>2, <1>3, <3>3, TuneWritten
    <3> QED
      BY <2>2, <3>1, <3>2, <3>4
  <2> QED
    BY <2>1, <2>2
<1>5. num' = num /\ ThreadsTyped'
  BY <1>1, <1>4 DEF lists, StateInv, ThreadsTyped
<1>6. CommandTyped'
  <2>1. tune' \in [Idx -> 0 .. MaxTunes]
    BY <1>1, <1>2, <1>3
  <2>2. harm' \subseteq {"buffer", "descriptor"}
    BY <1>2, <1>4, TouchFacts
  <2>3. Idx' = Idx
    BY <1>5 DEF Idx
  <2> QED
    BY <1>1, <1>4, <2>1, <2>2, <2>3 DEF StateInv, CommandTyped
<1>7. \A c \in 1 .. Len(bufs) :
         /\ bufs'[c].num = bufs[c].num /\ bufs'[c].fd <= Len(jobs')
         /\ bufs'[c].tune \in [0 .. bufs[c].num - 1 -> 0 .. MaxTunes]
  <2>1. SUFFICES ASSUME NEW c \in 1 .. Len(bufs)
                 PROVE  /\ bufs'[c].num = bufs[c].num /\ bufs'[c].fd <= Len(jobs')
                        /\ bufs'[c].tune \in [0 .. bufs[c].num - 1 -> 0 .. MaxTunes]
    OBVIOUS
  <2>2. /\ bufs[c].fd <= Len(jobs)
        /\ bufs[c].tune \in [0 .. bufs[c].num - 1 -> 0 .. MaxTunes]
    BY <1>2 DEF BufsTyped
  <2>3. [bufs[c].tune EXCEPT ![i] = new] \in [0 .. bufs[c].num - 1 -> 0 .. MaxTunes]
    BY <1>3, <2>2
  <2> QED
    BY <1>1, <1>4, <2>2, <2>3
<1>8. /\ jobs' \in Seq(JobRecord) /\ Len(jobs') <= MaxJobs
      /\ \A j \in 1 .. Len(jobs') : jobs'[j].buf \in 1 .. Len(bufs)
  BY <1>1 DEF StateInv, JobsTyped, Job
<1>9. StateInv'
  BY <1>4, <1>5, <1>6, <1>7, <1>8, StateKept
<1> QED
  BY <1>1, <1>2, <1>4, <1>9
LEMMA setCmdPropertyFacts ==
  ASSUME ListsTypeOK, StateInv, setCmdProperty
  PROVE  /\ StateInv' /\ Len(bufs') = Len(bufs) /\ Len(bufs) \in Nat
         /\ \A c \in 1 .. Len(bufs) :
              /\ bufs'[c].num = bufs[c].num /\ bufs'[c].tune = bufs[c].tune
              /\ bufs'[c].fd = bufs[c].fd /\ bufs'[c].live = bufs[c].live
              /\ bufs'[c].flag = IF c = cmdBuf THEN fenceFlag ELSE bufs[c].flag
<1>1. /\ bufs \in Seq(BufRecord) /\ Len(bufs) \in Nat /\ cmdBuf \in 0 .. Len(bufs)
      /\ fenceFlag \in BOOLEAN
  BY LenProperties DEF StateInv, BufsTyped, CommandTyped
<1>2. /\ UNCHANGED <<mtx, subCmds, cmdBuf, fenceFlag, executing, jobs, harm, thr, alive>>
      /\ UNCHANGED <<client, num>> /\ dirty' \in BOOLEAN
  BY DEF setCmdProperty, subCmds, lists
<1>3. bufs' = IF cmdBuf = 0 THEN bufs ELSE [bufs EXCEPT ![cmdBuf].flag = fenceFlag]
  BY DEF setCmdProperty, withFlag
<1>4. /\ bufs' \in Seq(BufRecord) /\ Len(bufs') = Len(bufs)
      /\ \A c \in 1 .. Len(bufs) :
           /\ bufs'[c].num = bufs[c].num /\ bufs'[c].tune = bufs[c].tune
           /\ bufs'[c].fd = bufs[c].fd /\ bufs'[c].live = bufs[c].live
           /\ bufs'[c].flag = IF c = cmdBuf THEN fenceFlag ELSE bufs[c].flag
  <2>1. CASE cmdBuf = 0
    BY <1>1, <1>3, <2>1
  <2>2. CASE cmdBuf # 0
    <3>1. cmdBuf \in 1 .. Len(bufs) /\ bufs' = [bufs EXCEPT ![cmdBuf].flag = fenceFlag]
      BY <1>1, <1>3, <2>2
    <3> QED
      BY <1>1, <3>1, FlagWritten
  <2> QED
    BY <2>1, <2>2
<1>5. ThreadsTyped'
  BY <1>2, <1>4 DEF StateInv, ThreadsTyped
<1>6. CommandTyped'
  BY <1>2, <1>4, CommandKept DEF StateInv, CommandTyped
<1>7. \A c \in 1 .. Len(bufs) :
         /\ bufs'[c].num = bufs[c].num /\ bufs'[c].fd <= Len(jobs')
         /\ bufs'[c].tune \in [0 .. bufs[c].num - 1 -> 0 .. MaxTunes]
  BY <1>2, <1>4 DEF StateInv, BufsTyped
<1>8. /\ jobs' \in Seq(JobRecord) /\ Len(jobs') <= MaxJobs
      /\ \A j \in 1 .. Len(jobs') : jobs'[j].buf \in 1 .. Len(bufs)
  BY <1>2 DEF StateInv, JobsTyped, Job
<1>9. StateInv'
  BY <1>2, <1>4, <1>5, <1>6, <1>7, <1>8, StateKept
<1> QED
  BY <1>1, <1>4, <1>9

\* A new sub-command is at the end of the lists, with a tuning, in no buffer.
LEMMA NewSubCmdTypes ==
  ASSUME ListsTypeOK, StateInv, num' = num + 1, NEW x \in 0 .. MaxTunes, Modified(x),
         UNCHANGED <<mtx, cmdBuf, bufs, fenceFlag, executing, jobs, harm, thr, alive, client>>
  PROVE  StateInv'
<1>1. num \in Nat /\ Idx = 0 .. num - 1 /\ Idx' = 0 .. num /\ num \notin Idx
      /\ \A i \in Idx' : i \in Idx \/ i = num
  BY DEF ListsTypeOK, Idx
<1>2. /\ tune \in [Idx -> 0 .. MaxTunes] /\ entry \in [Idx -> 0 .. Len(bufs)]
      /\ Len(bufs) \in Nat
  BY LenProperties DEF StateInv, BufsTyped, CommandTyped
<1>3. /\ tune' = [i \in 0 .. num |-> IF i = num THEN x ELSE tune[i]]
      /\ entry' = [i \in 0 .. num |-> IF i = num THEN 0 ELSE entry[i]]
      /\ dirty' = TRUE
  BY DEF Modified, PushBack
<1>4. tune' \in [Idx' -> 0 .. MaxTunes] /\ entry' \in [Idx' -> 0 .. Len(bufs)]
  BY <1>1, <1>2, <1>3
<1>5. ThreadsTyped'
  BY DEF StateInv, ThreadsTyped
<1>6. CommandTyped'
  BY <1>3, <1>4 DEF StateInv, CommandTyped
<1> QED
  BY <1>5, <1>6, StateQuiet

\* The types hold after every step.
LEMMA StateStep ==
  ASSUME ListsTypeOK, StateInv, RunsTold, [Next]_vars
  PROVE  StateInv'
<1>1. ASSUME NEW dev \in Devices, NEW dependency \in SUBSET Idx, addSubCmd(dev, dependency)
      PROVE  StateInv'
  <2>1. num' = num + 1 /\ Modified(0)
        /\ UNCHANGED <<mtx, cmdBuf, bufs, fenceFlag, executing, jobs, harm, thr, alive, client>>
    BY <1>1 DEF addSubCmd, addLinks, Pushed
  <2>2. 0 \in 0 .. MaxTunes
    BY EngineAssumption
  <2> QED
    BY <2>1, <2>2, NewSubCmdTypes
<1>2. ASSUME NEW dev \in Devices, NEW target \in Idx, packSubCmd(dev, target)
      PROVE  StateInv'
  <2>1. num' = num + 1 /\ Modified(tune[target])
        /\ UNCHANGED <<mtx, cmdBuf, bufs, fenceFlag, executing, jobs, harm, thr, alive, client>>
    BY <1>2 DEF packSubCmd, packLinks, Pushed
  <2>2. tune[target] \in 0 .. MaxTunes
    BY DEF StateInv, CommandTyped
  <2> QED
    BY <2>1, <2>2, NewSubCmdTypes
<1>3. ASSUME NEW t \in Threads, Step(t)
      PROVE  StateInv'
  <2>1. CASE setFence(t) \/ constructNothing(t) \/ construct(t) \/ constructFails(t)
    BY <2>1, setFenceFacts, constructNothingFacts, constructFacts, constructFailsFacts
  <2>2. CASE getCmdBuf(t) \/ readInfo(t) \/ markExecute(t) \/ unMarkExecute(t)
    BY <2>2, getCmdBufFacts, readInfoFacts, markExecuteFacts, unMarkExecuteFacts
  <2>3. CASE submit(t) \/ submitFails(t) \/ getFence(t) \/ poll(t)
    BY <2>3, submitFacts, submitFailsFacts, getFenceFacts, pollFacts
  <2>4. CASE syncDone(t)
    <3>1. thr[t].job \in Job
      BY <2>4 DEF RunsTold, syncDone, At
    <3> QED
      BY <2>4, <3>1, syncDoneFacts
  <2> QED
    BY <1>3, <2>1, <2>2, <2>3, <2>4 DEF Step
<1>4. ASSUME NEW t \in Threads, NEW c \in Calls, Call(t, c)
      PROVE  StateInv'
  BY <1>4, CallFacts
<1>5. ASSUME NEW i \in Idx, setTuneParam(i)
      PROVE  StateInv'
  BY <1>5, setTuneParamFacts
<1>6. ASSUME NEW j \in Job, Complete(j)
      PROVE  StateInv'
  BY <1>6, CompleteFacts
<1>7. ASSUME setCmdProperty \/ destroyCmd
      PROVE  StateInv'
  BY <1>7, setCmdPropertyFacts, destroyCmdFacts
<1>8. ASSUME UNCHANGED vars
      PROVE  StateInv'
  <2>1. ThreadsTyped' /\ CommandTyped' /\ num' = num /\ bufs' = bufs /\ jobs' = jobs
    BY <1>8 DEF vars, command, subCmds, lists, StateInv, ThreadsTyped, CommandTyped, Idx
  <2> QED
    BY <2>1, StateQuiet
<1> QED
  BY <1>1, <1>2, <1>3, <1>4, <1>5, <1>6, <1>7, <1>8 DEF Next, Gone
-----------------------------------------------------------------------------
\* Nobody is in a call.
LEMMA NoCalls ==
  ASSUME ThreadsTyped
  PROVE  /\ In(Calls) = {} <=> \A t \in Threads : thr[t].pc = "idle"
         /\ In(Runs) = {} => \A t \in Threads : thr[t].call \notin Runs
         /\ In({"waitCmd"}) = {} => \A t \in Threads : thr[t].call # "waitCmd"
         /\ In(Calls \ {"waitCmd"}) = {} =>
              \A t \in Threads : thr[t].pc = "idle" \/ thr[t].call = "waitCmd"
<1>1. \A t \in Threads : /\ thr[t].call \in Calls
                         /\ thr[t].pc = "idle" => thr[t].call = "constructCmd"
  BY PlaceFacts
<1> QED
  BY <1>1 DEF In, Runs

\* A command that somebody calls exists.
LEMMA CallerAlive ==
  ASSUME StateInv, RunsInv, NEW t \in Threads, thr[t].pc # "idle"
  PROVE  alive = TRUE
<1>1. In(Calls) # {}
  BY NoCalls DEF StateInv
<1> QED
  BY <1>1 DEF RunsInv, CallsSettled, StateInv, CommandTyped

\* What runs and the fences of a command that only a thread changes.
LEMMA JobsQuiet ==
  ASSUME Len(jobs') = Len(jobs),
         \A k \in Job : /\ jobs'[k].call = jobs[k].call /\ jobs'[k].closed = jobs[k].closed
                        /\ jobs'[k].current = jobs[k].current
  PROVE  /\ Job' = Job /\ Unwaited' = Unwaited
         /\ HeaderCurrent => HeaderCurrent'
<1>1. Job' = Job
  BY DEF Job
<1> QED
  BY <1>1 DEF Unwaited, HeaderCurrent

\* A thread goes on in its call or returns, and neither gives the mark away nor
\* takes it.
LEMMA QuietGoes ==
  ASSUME StateInv, RunsInv, NEW t \in Threads, Others(t), UNCHANGED <<command, jobs, alive>>,
         thr[t].pc \notin {"idle", "ioctl", "unmark"}, thr'[t].pc # "ioctl",
         \/ thr'[t].call = thr[t].call
         \/ thr'[t].pc = "idle" /\ thr'[t].call = "constructCmd",
         Settled(t)' => ~dirty /\ cmdBuf # 0,
         thr'[t].pc \in {"mark", "submit"} => thr'[t].buf = cmdBuf,
         Owns(t)' = Owns(t),
         thr'[t].pc = "poll" => thr'[t].job \in Unwaited,
         thr'[t].call \in Runs /\ thr'[t].pc \in {"construct", "getCmdBuf", "mark", "submit"} =>
           thr[t].pc \in {"construct", "getCmdBuf", "mark", "submit"}
  PROVE  RunsInv'
<1>1. UNCHANGED <<lists, tune, entry, dirty, cmdBuf, bufs, fenceFlag, executing, num, jobs, alive>>
  BY DEF command, subCmds, lists
<1>2. \A u \in Threads : u # t => thr'[u] = thr[u]
  BY DEF Others
<1>3. Job' = Job /\ Unwaited' = Unwaited /\ HeaderCurrent'
  BY <1>1, JobsQuiet DEF RunsInv
<1>4. BufferCurrent'
  BY <1>1 DEF RunsInv, BufferCurrent, Idx
<1>5. BufferLive'
  BY <1>1 DEF RunsInv, BufferLive
<1>6. CallsSettled'
  <2>1. \A u \in Threads : /\ Settled(u)' => ~dirty /\ cmdBuf # 0
                           /\ thr'[u].pc \in {"mark", "submit"} => thr'[u].buf = cmdBuf
    BY <1>2 DEF RunsInv, CallsSettled, Settled
  <2>2. alive
    BY CallerAlive
  <2>3. \A u \in Threads : /\ thr'[u].call \in Runs => thr[u].call \in Runs
                           /\ thr'[u].call = "waitCmd" => thr[u].call = "waitCmd"
    BY <1>2 DEF Runs
  <2> QED
    BY <1>1, <2>1, <2>2, <2>3 DEF RunsInv, CallsSettled
<1>7. MarkOwned'
  <2>1. \A u \in Threads : Owns(u)' = Owns(u)
    BY <1>2 DEF Owns
  <2> QED
    BY <1>1, <1>3, <2>1 DEF RunsInv, MarkOwned
<1>8. RunsTold'
  <2>1. \A u \in Threads : thr[u].pc = "ioctl" \/ thr'[u].pc = "ioctl" => thr'[u] = thr[u]
    BY <1>2
  <2>2. \A u \in Threads : thr'[u].call = "waitCmd" /\ thr'[u].pc # "unmark" => Unwaited # {}
    BY <1>2 DEF RunsInv, RunsTold
  <2>3. \A u \in Threads : thr'[u].pc = "poll" => thr'[u].job \in Unwaited
    BY <1>2 DEF RunsInv, RunsTold
  <2>4. \A j \in Job : jobs[j].state = "running" =>
          j \in Unwaited \/ \E u \in Threads : thr'[u].pc = "ioctl" /\ thr'[u].job = j
    BY <2>1 DEF RunsInv, RunsTold
  <2> QED
    BY <1>1, <1>3, <2>1, <2>2, <2>3, <2>4 DEF RunsInv, RunsTold
<1>9. FenceInHeader'
  <2>1. \A u \in Threads :
          thr'[u].call \in Runs /\ thr'[u].pc \in {"construct", "getCmdBuf", "mark", "submit"} =>
            fenceFlag = (thr'[u].call = "runCmdAsync")
    BY <1>2 DEF RunsInv, FenceInHeader, Runs
  <2> QED
    BY <1>1, <1>3, <2>1 DEF RunsInv, FenceInHeader
<1> QED
  BY <1>3, <1>4, <1>5, <1>6, <1>7, <1>8, <1>9 DEF RunsInv
\* The buffer of an existing command is allocated.
LEMMA LiveTouched ==
  ASSUME StateInv, RunsInv, alive, cmdBuf # 0, touch(cmdBuf)
  PROVE  harm' = harm
<1>1. cmdBuf \in 1 .. Len(bufs)
  BY LenProperties DEF StateInv, BufsTyped, CommandTyped
<1>2. bufs[cmdBuf].live
  BY <1>1 DEF RunsInv, BufferLive
<1> QED
  BY <1>2 DEF touch

LEMMA constructNothingRuns ==
  ASSUME ListsTypeOK, StateInv, RunsInv, NEW t \in Threads, constructNothing(t)
  PROVE  RunsInv' /\ harm' = harm
<1>1. UNCHANGED <<command, jobs, alive, harm>> /\ thr[t].pc = "construct"
  BY DEF constructNothing, At
<1>2. CASE ~dirty /\ cmdBuf # 0 /\ thr[t].call \in Runs /\ Moved(t, "getCmdBuf")
  <2>1. Owns(t)' = Owns(t)
    BY <1>1, <1>2 DEF Owns, Moved
  <2> QED
    BY <1>1, <1>2, <2>1, QuietGoes DEF Moved
<1>3. CASE Back(t)
  <2>1. Owns(t)' = Owns(t) /\ ~Settled(t)'
    BY <1>1, <1>3 DEF Owns, Back, Settled
  <2> QED
    BY <1>1, <1>3, <2>1, QuietGoes DEF Back
<1> QED
  BY <1>2, <1>3, constructNothingFacts

LEMMA getCmdBufRuns ==
  ASSUME ListsTypeOK, StateInv, RunsInv, NEW t \in Threads, getCmdBuf(t)
  PROVE  RunsInv' /\ harm' = harm
<1>1. UNCHANGED <<command, jobs, alive, harm>> /\ thr[t].pc = "getCmdBuf"
  BY DEF getCmdBuf, At
<1>2. CASE Back(t)
  <2>1. Owns(t)' = Owns(t) /\ ~Settled(t)'
    BY <1>1, <1>2 DEF Owns, Back, Settled
  <2> QED
    BY <1>1, <1>2, <2>1, QuietGoes DEF Back
<1>3. CASE dirty /\ Others(t) /\ thr'[t].pc = "locked" /\ thr'[t].call = thr[t].call
  <2>1. Owns(t)' = Owns(t) /\ ~Settled(t)'
    BY <1>1, <1>3 DEF Owns, Settled
  <2> QED
    BY <1>1, <1>3, <2>1, QuietGoes
<1>4. CASE /\ ~dirty /\ cmdBuf # 0
           /\ Others(t) /\ thr'[t].call = thr[t].call /\ thr'[t].buf = cmdBuf
           /\ thr'[t].pc = IF thr[t].call = "getRunInfo" THEN "readInfo"
                           ELSE IF thr[t].call = "waitCmd" THEN "getFence" ELSE "mark"
  <2>1. thr'[t].pc \in {"readInfo", "getFence", "mark"}
    BY <1>4
  <2>2. Owns(t)' = Owns(t)
    BY <1>1, <2>1 DEF Owns
  <2> QED
    BY <1>1, <1>4, <2>1, <2>2, QuietGoes
<1> QED
  BY <1>1, <1>2, <1>3, <1>4, getCmdBufFacts

LEMMA readInfoRuns ==
  ASSUME ListsTypeOK, StateInv, RunsInv, NEW t \in Threads, readInfo(t)
  PROVE  RunsInv' /\ harm' = harm
<1>1. UNCHANGED <<command, jobs, alive>> /\ thr[t].pc = "readInfo"
  BY DEF readInfo, At
<1>2. StateInv' /\ Back(t)
  BY readInfoFacts
<1>3. Owns(t)' = Owns(t) /\ ~Settled(t)'
  BY <1>1, <1>2 DEF Owns, Back, Settled
<1>4. RunsInv'
  BY <1>1, <1>2, <1>3, QuietGoes DEF Back
<1>5. alive /\ ~dirty /\ cmdBuf # 0
  BY <1>1, CallerAlive DEF RunsInv, CallsSettled, Settled
<1>6. ASSUME NEW i \in Idx, touch(entry[i])
      PROVE  harm' = harm
  <2>1. entry[i] = cmdBuf
    BY <1>5 DEF RunsInv, BufferCurrent
  <2> QED
    BY <1>5, <1>6, <2>1, LiveTouched
<1> QED
  BY <1>4, <1>6, readInfoFacts

LEMMA submitFailsRuns ==
  ASSUME ListsTypeOK, StateInv, RunsInv, NEW t \in Threads, submitFails(t)
  PROVE  RunsInv' /\ harm' = harm
<1>1. UNCHANGED <<command, jobs, alive>> /\ thr[t].pc = "submit"
  BY DEF submitFails, At
<1>2. Moved(t, "unmark") /\ touch(thr[t].buf)
  BY submitFailsFacts
<1>3. alive /\ ~dirty /\ cmdBuf # 0 /\ thr[t].buf = cmdBuf
  BY <1>1, CallerAlive DEF RunsInv, CallsSettled, Settled
<1>4. Owns(t)' = Owns(t)
  BY <1>1, <1>2 DEF Owns, Moved
<1>5. RunsInv'
  BY <1>1, <1>2, <1>3, <1>4, QuietGoes DEF Moved
<1> QED
  BY <1>2, <1>3, <1>5, LiveTouched

LEMMA getFenceRuns ==
  ASSUME ListsTypeOK, StateInv, RunsInv, NEW t \in Threads, getFence(t)
  PROVE  RunsInv' /\ harm' = harm
<1>1. UNCHANGED <<command, jobs, alive>> /\ thr[t].pc = "getFence" /\ thr[t].call = "waitCmd"
  BY PlaceFacts DEF getFence, At, StateInv
<1>2. alive /\ ~dirty /\ cmdBuf # 0
  BY <1>1, CallerAlive DEF RunsInv, CallsSettled, Settled
<1>3. /\ touch(cmdBuf) /\ Others(t) /\ thr'[t].pc = "poll" /\ thr'[t].call = thr[t].call
      /\ thr'[t].job = bufs[cmdBuf].fd
  BY <1>2, getFenceFacts
<1>4. bufs[cmdBuf].fd \in Unwaited
  <2>1. PICK j \in Unwaited : TRUE
    BY <1>1 DEF RunsInv, RunsTold
  <2> QED
    BY <2>1 DEF RunsInv, FenceInHeader
<1>5. Owns(t)' = Owns(t)
  BY <1>1, <1>3 DEF Owns
<1>6. RunsInv'
  BY <1>1, <1>2, <1>3, <1>4, <1>5, QuietGoes
<1> QED
  BY <1>2, <1>3, <1>6, LiveTouched
-----------------------------------------------------------------------------
LEMMA CallRuns ==
  ASSUME ListsTypeOK, StateInv, RunsInv, NEW t \in Threads, NEW c \in Calls, Call(t, c)
  PROVE  RunsInv' /\ harm' = harm
<1>1. /\ UNCHANGED <<lists, tune, entry, dirty, cmdBuf, bufs, fenceFlag, executing, num>>
      /\ UNCHANGED <<jobs, alive, harm>> /\ alive /\ thr[t].pc = "idle" /\ MayCall(c)
  BY DEF Call, At, command, subCmds, lists
<1>2. /\ Others(t) /\ thr'[t].call = c
      /\ thr'[t].pc = IF c \in Runs THEN "setFence"
                      ELSE IF c = "constructCmd" THEN "construct" ELSE "getCmdBuf"
  BY CallFacts
<1>3. \A u \in Threads : u # t => thr'[u] = thr[u]
  BY <1>2 DEF Others
<1>4. Job' = Job /\ Unwaited' = Unwaited /\ HeaderCurrent'
  BY <1>1, JobsQuiet DEF RunsInv
<1>5. BufferCurrent' /\ BufferLive'
  BY <1>1 DEF RunsInv, BufferCurrent, BufferLive, Idx
<1>6. ~Owns(t) /\ ~Owns(t)' /\ ~Settled(t)' /\ thr'[t].pc \notin {"mark", "submit", "ioctl", "poll"}
  BY <1>1, <1>2 DEF Owns, Settled
<1>7. CallsSettled'
  <2>1. /\ c \in Runs => \A u \in Threads : thr[u].call \notin Runs
        /\ c = "waitCmd" => \A u \in Threads : thr[u].call # "waitCmd"
    BY <1>1, NoCalls DEF StateInv, MayCall, Runs
  <2>2. \A u, v \in Threads : thr'[u].call \in Runs /\ thr'[v].call \in Runs => u = v
    BY <1>2, <1>3, <2>1 DEF RunsInv, CallsSettled
  <2>3. \A u, v \in Threads : thr'[u].call = "waitCmd" /\ thr'[v].call = "waitCmd" => u = v
    BY <1>2, <1>3, <2>1 DEF RunsInv, CallsSettled
  <2>4. \A u \in Threads : /\ Settled(u)' => ~dirty /\ cmdBuf # 0
                           /\ thr'[u].pc \in {"mark", "submit"} => thr'[u].buf = cmdBuf
    BY <1>3, <1>6 DEF RunsInv, CallsSettled, Settled
  <2> QED
    BY <1>1, <2>2, <2>3, <2>4 DEF CallsSettled
<1>8. MarkOwned'
  <2>1. \A u \in Threads : Owns(u)' = Owns(u)
    BY <1>3, <1>6 DEF Owns
  <2> QED
    BY <1>1, <1>4, <2>1 DEF RunsInv, MarkOwned
<1>9. RunsTold'
  <2>1. \A u \in Threads : thr[u].pc = "ioctl" \/ thr'[u].pc = "ioctl" => thr'[u] = thr[u]
    BY <1>1, <1>3, <1>6
  <2>2. \A u \in Threads : thr'[u].call = "waitCmd" /\ thr'[u].pc # "unmark" => Unwaited # {}
    BY <1>1, <1>2, <1>3 DEF RunsInv, RunsTold, MayCall, Runs
  <2>3. \A u \in Threads : thr'[u].pc = "poll" => thr'[u].job \in Unwaited
    BY <1>3, <1>6 DEF RunsInv, RunsTold
  <2>4. \A j \in Job : jobs[j].state = "running" =>
          j \in Unwaited \/ \E u \in Threads : thr'[u].pc = "ioctl" /\ thr'[u].job = j
    BY <2>1 DEF RunsInv, RunsTold
  <2> QED
    BY <1>1, <1>4, <2>1, <2>2, <2>3, <2>4 DEF RunsInv, RunsTold
<1>10. FenceInHeader'
  <2>1. \A u \in Threads :
          thr'[u].call \in Runs /\ thr'[u].pc \in {"construct", "getCmdBuf", "mark", "submit"} =>
            fenceFlag = (thr'[u].call = "runCmdAsync")
    BY <1>2, <1>3 DEF RunsInv, FenceInHeader, Runs
  <2> QED
    BY <1>1, <1>4, <2>1 DEF RunsInv, FenceInHeader
<1> QED
  BY <1>1, <1>4, <1>5, <1>7, <1>8, <1>9, <1>10 DEF RunsInv

LEMMA setFenceRuns ==
  ASSUME ListsTypeOK, StateInv, RunsInv, NEW t \in Threads, setFence(t)
  PROVE  RunsInv' /\ harm' = harm
<1>1. /\ UNCHANGED <<lists, tune, entry, dirty, cmdBuf, executing, num>>
      /\ UNCHANGED <<jobs, alive, harm>> /\ thr[t].pc = "setFence"
  BY DEF setFence, At, subCmds, lists
<1>2. /\ Moved(t, "construct") /\ fenceFlag' = (thr[t].call = "runCmdAsync")
      /\ Len(bufs') = Len(bufs) /\ Len(bufs) \in Nat
      /\ \A b \in 1 .. Len(bufs) :
           /\ bufs'[b].num = bufs[b].num /\ bufs'[b].tune = bufs[b].tune
           /\ bufs'[b].fd = bufs[b].fd /\ bufs'[b].live = bufs[b].live
           /\ bufs'[b].flag = IF b = cmdBuf THEN fenceFlag' ELSE bufs[b].flag
  BY setFenceFacts
<1>3. \A u \in Threads : u # t => thr'[u] = thr[u]
  BY <1>2 DEF Moved, Others
<1>4. thr'[t].pc = "construct" /\ thr'[t].call = thr[t].call /\ thr[t].call \in Runs
  BY <1>1, <1>2, PlaceFacts DEF Moved, StateInv
<1>5. cmdBuf # 0 => cmdBuf \in 1 .. Len(bufs)
  BY <1>2 DEF StateInv, CommandTyped
<1>6. Job' = Job /\ Unwaited' = Unwaited /\ HeaderCurrent'
  BY <1>1, JobsQuiet DEF RunsInv
<1>7. BufferCurrent'
  BY <1>1, <1>2, <1>5 DEF RunsInv, BufferCurrent, Idx
<1>8. BufferLive'
  BY <1>1, <1>2 DEF RunsInv, BufferLive
<1>9. ~Owns(t) /\ ~Owns(t)' /\ ~Settled(t)'
  BY <1>1, <1>4 DEF Owns, Settled
<1>10. CallsSettled'
  <2>1. \A u \in Threads : thr'[u].call = thr[u].call
    BY <1>3, <1>4
  <2>2. \A u \in Threads : /\ Settled(u)' => ~dirty /\ cmdBuf # 0
                           /\ thr'[u].pc \in {"mark", "submit"} => thr'[u].buf = cmdBuf
    BY <1>3, <1>4, <1>9 DEF RunsInv, CallsSettled, Settled
  <2>3. alive
    BY <1>1, CallerAlive
  <2> QED
    BY <1>1, <2>1, <2>2, <2>3 DEF RunsInv, CallsSettled
<1>11. MarkOwned'
  <2>1. \A u \in Threads : Owns(u)' = Owns(u)
    BY <1>3, <1>9 DEF Owns
  <2> QED
    BY <1>1, <1>6, <2>1 DEF RunsInv, MarkOwned
<1>12. RunsTold'
  <2>1. \A u \in Threads : thr[u].pc = "ioctl" \/ thr'[u].pc = "ioctl" => thr'[u] = thr[u]
    BY <1>1, <1>3, <1>4
  <2>2. \A u \in Threads : thr'[u].call = "waitCmd" /\ thr'[u].pc # "unmark" => Unwaited # {}
    BY <1>1, <1>3, <1>4 DEF RunsInv, RunsTold, Runs
  <2>3. \A u \in Threads : thr'[u].pc = "poll" => thr'[u].job \in Unwaited
    BY <1>3, <1>4 DEF RunsInv, RunsTold
  <2>4. \A j \in Job : jobs[j].state = "running" =>
          j \in Unwaited \/ \E u \in Threads : thr'[u].pc = "ioctl" /\ thr'[u].job = j
    BY <2>1 DEF RunsInv, RunsTold
  <2> QED
    BY <1>1, <1>6, <2>1, <2>2, <2>3, <2>4 DEF RunsInv, RunsTold
<1>13. FenceInHeader'
  <2>1. \A u \in Threads : thr'[u].call \in Runs => u = t
    BY <1>3, <1>4 DEF RunsInv, CallsSettled
  <2>2. \A u \in Threads :
          thr'[u].call \in Runs => fenceFlag' = (thr'[u].call = "runCmdAsync")
    BY <1>2, <1>4, <2>1
  <2>3. cmdBuf # 0 => bufs'[cmdBuf].flag = fenceFlag' /\ bufs'[cmdBuf].fd = bufs[cmdBuf].fd
    BY <1>2, <1>5
  <2> QED
    BY <1>1, <1>6, <2>2, <2>3 DEF RunsInv, FenceInHeader
<1> QED
  BY <1>1, <1>6, <1>7, <1>8, <1>10, <1>11, <1>12, <1>13 DEF RunsInv
LEMMA constructRuns ==
  ASSUME ListsTypeOK, StateInv, RunsInv, NEW t \in Threads, construct(t)
  PROVE  RunsInv' /\ harm' = harm
<1>1. /\ UNCHANGED <<lists, tune, fenceFlag, executing, jobs, harm, alive, num>>
      /\ thr[t].pc = "construct" /\ ~executing /\ dirty /\ dirty' = FALSE
      /\ entry' = [i \in Idx |-> Len(bufs) + 1]
  BY DEF construct, At, constructRefused, needsBuffer, lists
<1>2. /\ (thr[t].call \in Runs /\ Moved(t, "getCmdBuf")) \/ Back(t)
      /\ Len(bufs) \in Nat /\ Len(bufs') = Len(bufs) + 1 /\ cmdBuf' = Len(bufs) + 1
      /\ \A b \in 1 .. Len(bufs) : bufs'[b].live = (bufs[b].live /\ b # cmdBuf)
      /\ bufs'[cmdBuf'].num = num /\ bufs'[cmdBuf'].tune = tune
      /\ bufs'[cmdBuf'].flag = fenceFlag /\ bufs'[cmdBuf'].live
  BY constructFacts
<1>3. \A u \in Threads : u # t => thr'[u] = thr[u]
  BY <1>2 DEF Moved, Back, Others
<1>4. \/ thr'[t].pc = "getCmdBuf" /\ thr'[t].call = thr[t].call /\ thr[t].call \in Runs
      \/ thr'[t].pc = "idle" /\ thr'[t].call = "constructCmd"
  BY <1>2 DEF Moved, Back
<1>5. /\ Unwaited = {} /\ \A u \in Threads : ~Owns(u)
      /\ \A u \in Threads : ~Settled(u)
  BY <1>1 DEF RunsInv, MarkOwned, CallsSettled
<1>6. Job' = Job /\ Unwaited' = Unwaited /\ HeaderCurrent'
  BY <1>1, JobsQuiet DEF RunsInv
<1>7. BufferCurrent'
  <2>1. Idx' = Idx /\ \A i \in Idx : entry'[i] = cmdBuf'
    BY <1>1, <1>2 DEF Idx
  <2> QED
    BY <1>1, <1>2, <2>1 DEF BufferCurrent
<1>8. BufferLive'
  <2>1. alive
    BY <1>1, CallerAlive
  <2>2. \A b \in 1 .. Len(bufs) : bufs[b].live <=> b = cmdBuf
    BY <2>1 DEF RunsInv, BufferLive
  <2>3. \A b \in 1 .. Len(bufs) : ~bufs'[b].live /\ b # cmdBuf'
    BY <1>2, <2>2
  <2>4. \A b \in 1 .. Len(bufs') : b \in 1 .. Len(bufs) \/ b = cmdBuf'
    BY <1>2
  <2> QED
    BY <1>2, <2>3, <2>4 DEF BufferLive
<1>9. CallsSettled'
  <2>1. \A u \in Threads : /\ thr'[u].call \in Runs => thr[u].call \in Runs
                           /\ thr'[u].call = "waitCmd" => thr[u].call = "waitCmd"
    BY <1>3, <1>4 DEF Runs
  <2>2. \A u \in Threads : thr'[u].pc \notin {"mark", "submit"}
    BY <1>3, <1>4, <1>5 DEF Settled
  <2>3. alive' /\ dirty' = FALSE /\ cmdBuf' # 0
    <3>1. alive
      BY <1>1, CallerAlive
    <3> QED
      BY <1>1, <1>2, <3>1
  <2> QED
    BY <2>1, <2>2, <2>3 DEF RunsInv, CallsSettled
<1>10. \A u \in Threads : ~Owns(u)'
  BY <1>3, <1>4, <1>5 DEF Owns
<1>11. MarkOwned'
  BY <1>1, <1>5, <1>6, <1>10 DEF MarkOwned
<1>12. RunsTold'
  <2>1. \A u \in Threads : thr[u].pc = "ioctl" \/ thr'[u].pc = "ioctl" => thr'[u] = thr[u]
    BY <1>1, <1>3, <1>4
  <2>2. \A u \in Threads : thr'[u].call = "waitCmd" /\ thr'[u].pc # "unmark" => Unwaited # {}
    BY <1>3, <1>4 DEF RunsInv, RunsTold, Runs
  <2>3. \A u \in Threads : thr'[u].pc = "poll" => thr'[u].job \in Unwaited
    BY <1>3, <1>4 DEF RunsInv, RunsTold
  <2>4. \A j \in Job : jobs[j].state = "running" =>
          j \in Unwaited \/ \E u \in Threads : thr'[u].pc = "ioctl" /\ thr'[u].job = j
    BY <2>1 DEF RunsInv, RunsTold
  <2> QED
    BY <1>1, <1>6, <2>1, <2>2, <2>3, <2>4 DEF RunsInv, RunsTold
<1>13. FenceInHeader'
  <2>1. \A u \in Threads :
          thr'[u].call \in Runs /\ thr'[u].pc \in {"construct", "getCmdBuf", "mark", "submit"} =>
            fenceFlag = (thr'[u].call = "runCmdAsync")
    BY <1>1, <1>3, <1>4 DEF RunsInv, FenceInHeader, Runs
  <2> QED
    BY <1>1, <1>2, <1>5, <1>6, <2>1 DEF FenceInHeader
<1> QED
  BY <1>1, <1>6, <1>7, <1>8, <1>9, <1>11, <1>12, <1>13 DEF RunsInv

LEMMA constructFailsRuns ==
  ASSUME ListsTypeOK, StateInv, RunsInv, NEW t \in Threads, constructFails(t)
  PROVE  RunsInv' /\ harm' = harm
<1>1. /\ UNCHANGED <<lists, tune, entry, dirty, fenceFlag, executing, jobs, harm, alive, num>>
      /\ thr[t].pc = "construct" /\ ~executing /\ dirty
  BY DEF constructFails, At, constructRefused, needsBuffer, subCmds, lists
<1>2. /\ Back(t) /\ Len(bufs) \in Nat /\ Len(bufs') = Len(bufs)
      /\ \/ UNCHANGED <<bufs, cmdBuf>>
         \/ /\ cmdBuf' = 0
            /\ \A b \in 1 .. Len(bufs) : bufs'[b].live = (bufs[b].live /\ b # cmdBuf)
  BY constructFailsFacts
<1>3. \A u \in Threads : u # t => thr'[u] = thr[u]
  BY <1>2 DEF Back, Others
<1>4. thr'[t].pc = "idle" /\ thr'[t].call = "constructCmd"
  BY <1>2 DEF Back
<1>5. /\ Unwaited = {} /\ \A u \in Threads : ~Owns(u)
      /\ \A u \in Threads : ~Settled(u)
  BY <1>1 DEF RunsInv, MarkOwned, CallsSettled
<1>6. Job' = Job /\ Unwaited' = Unwaited /\ HeaderCurrent'
  BY <1>1, JobsQuiet DEF RunsInv
<1>7. BufferCurrent'
  <2>1. Idx' = Idx
    BY <1>1 DEF Idx
  <2> QED
    BY <1>1, <1>2, <2>1 DEF RunsInv, BufferCurrent
<1>8. BufferLive'
  <2>1. alive
    BY <1>1, CallerAlive
  <2>2. \A b \in 1 .. Len(bufs) : bufs[b].live <=> b = cmdBuf
    BY <2>1 DEF RunsInv, BufferLive
  <2>3. CASE UNCHANGED <<bufs, cmdBuf>>
    BY <2>2, <2>3 DEF BufferLive
  <2>4. CASE /\ cmdBuf' = 0
             /\ \A b \in 1 .. Len(bufs) : bufs'[b].live = (bufs[b].live /\ b # cmdBuf)
    <3>1. \A b \in 1 .. Len(bufs) : ~bufs'[b].live /\ b # cmdBuf'
      <4>1. Len(bufs) \in Nat
        BY <1>2
      <4>2. SUFFICES ASSUME NEW b \in 1 .. Len(bufs) PROVE ~bufs'[b].live /\ b # cmdBuf'
        OBVIOUS
      <4>3. bufs'[b].live = (bufs[b].live /\ b # cmdBuf) /\ (bufs[b].live <=> b = cmdBuf)
        BY <2>2, <2>4
      <4>4. b # cmdBuf' /\ (bufs[b].live /\ b # cmdBuf) = FALSE
        BY <2>4, <4>1, <4>3
      <4>5. bufs'[b].live = FALSE
        BY <4>3, <4>4
      <4> QED
        BY <4>4, <4>5
    <3> QED
      BY <1>2, <3>1 DEF BufferLive
  <2> QED
    BY <1>2, <2>3, <2>4
<1>9. \A u \in Threads : ~Owns(u)' /\ ~Settled(u)'
  BY <1>3, <1>4, <1>5 DEF Owns, Settled
<1>10. CallsSettled'
  <2>1. \A u \in Threads : /\ thr'[u].call \in Runs => thr[u].call \in Runs
                           /\ thr'[u].call = "waitCmd" => thr[u].call = "waitCmd"
    BY <1>3, <1>4 DEF Runs
  <2>2. \A u \in Threads : thr'[u].pc \notin {"mark", "submit"}
    BY <1>9 DEF Settled
  <2>3. alive'
    BY <1>1, CallerAlive
  <2> QED
    BY <1>9, <2>1, <2>2, <2>3 DEF RunsInv, CallsSettled
<1>11. MarkOwned'
  BY <1>1, <1>5, <1>6, <1>9 DEF MarkOwned
<1>12. RunsTold'
  <2>1. \A u \in Threads : thr[u].pc = "ioctl" \/ thr'[u].pc = "ioctl" => thr'[u] = thr[u]
    BY <1>1, <1>3, <1>4
  <2>2. \A u \in Threads : thr'[u].call = "waitCmd" /\ thr'[u].pc # "unmark" => Unwaited # {}
    BY <1>3, <1>4 DEF RunsInv, RunsTold
  <2>3. \A u \in Threads : thr'[u].pc = "poll" => thr'[u].job \in Unwaited
    BY <1>3, <1>4 DEF RunsInv, RunsTold
  <2>4. \A j \in Job : jobs[j].state = "running" =>
          j \in Unwaited \/ \E u \in Threads : thr'[u].pc = "ioctl" /\ thr'[u].job = j
    BY <2>1 DEF RunsInv, RunsTold
  <2> QED
    BY <1>1, <1>6, <2>1, <2>2, <2>3, <2>4 DEF RunsInv, RunsTold
<1>13. FenceInHeader'
  <2>1. \A u \in Threads :
          thr'[u].call \in Runs /\ thr'[u].pc \in {"construct", "getCmdBuf", "mark", "submit"} =>
            fenceFlag = (thr'[u].call = "runCmdAsync")
    BY <1>3, <1>4 DEF RunsInv, FenceInHeader
  <2>2. cmdBuf' # 0 => bufs'[cmdBuf'].flag = fenceFlag
    BY <1>2 DEF RunsInv, FenceInHeader
  <2> QED
    BY <1>1, <1>5, <1>6, <2>1, <2>2 DEF FenceInHeader
<1> QED
  BY <1>1, <1>6, <1>7, <1>8, <1>10, <1>11, <1>12, <1>13 DEF RunsInv

\* markExecute() takes the mark where nobody has it.
LEMMA markExecuteRuns ==
  ASSUME ListsTypeOK, StateInv, RunsInv, NEW t \in Threads, markExecute(t)
  PROVE  RunsInv' /\ harm' = harm
<1>1. /\ UNCHANGED <<lists, tune, entry, dirty, cmdBuf, bufs, fenceFlag, jobs, harm, alive, num>>
      /\ thr[t].pc = "mark" /\ executing' = TRUE
  BY DEF markExecute, At, subCmds, lists
<1>2. IF executing THEN Back(t) ELSE Moved(t, "submit")
  BY markExecuteFacts
<1>3. CASE executing
  <2>1. Back(t) /\ ~Settled(t)' /\ Owns(t)' = Owns(t)
    BY <1>1, <1>2, <1>3 DEF Back, Settled, Owns
  <2>2. UNCHANGED command
    BY <1>1, <1>3 DEF command, subCmds, StateInv, CommandTyped
  <2>3. RunsInv'
    BY <1>1, <2>1, <2>2, QuietGoes DEF Back
  <2> QED
    BY <1>1, <2>3
<1>4. CASE ~executing
  <2>1. /\ \A u \in Threads : u # t => thr'[u] = thr[u]
        /\ thr'[t].pc = "submit" /\ thr'[t].call = thr[t].call /\ thr'[t].buf = thr[t].buf
    BY <1>2, <1>4 DEF Moved, Others
  <2>2. Unwaited = {} /\ \A u \in Threads : ~Owns(u)
    BY <1>4 DEF RunsInv, MarkOwned
  <2>3. Job' = Job /\ Unwaited' = Unwaited /\ HeaderCurrent'
    BY <1>1, JobsQuiet DEF RunsInv
  <2>4. BufferCurrent' /\ BufferLive'
    BY <1>1 DEF RunsInv, BufferCurrent, BufferLive, Idx
  <2>5. CallsSettled'
    <3>1. \A u \in Threads : thr'[u].call = thr[u].call /\ Settled(u)' = Settled(u)
      BY <1>1, <2>1 DEF Settled
    <3>2. \A u \in Threads : thr'[u].pc \in {"mark", "submit"} => thr'[u].buf = cmdBuf
      BY <1>1, <2>1 DEF RunsInv, CallsSettled
    <3>3. alive
      BY <1>1, CallerAlive
    <3> QED
      BY <1>1, <3>1, <3>2, <3>3 DEF RunsInv, CallsSettled
  <2>6. MarkOwned'
    <3>1. \A u \in Threads : Owns(u)' <=> u = t
      BY <2>1, <2>2 DEF Owns
    <3> QED
      BY <1>1, <2>2, <2>3, <3>1 DEF MarkOwned
  <2>7. RunsTold'
    <3>1. \A u \in Threads : thr[u].pc = "ioctl" \/ thr'[u].pc = "ioctl" => thr'[u] = thr[u]
      BY <1>1, <2>1
    <3>2. \A u \in Threads : thr'[u].call = "waitCmd" /\ thr'[u].pc # "unmark" => Unwaited # {}
      BY <1>1, <2>1 DEF RunsInv, RunsTold
    <3>3. \A u \in Threads : thr'[u].pc = "poll" => thr'[u].job \in Unwaited
      BY <2>1 DEF RunsInv, RunsTold
    <3>4. \A j \in Job : jobs[j].state = "running" =>
            j \in Unwaited \/ \E u \in Threads : thr'[u].pc = "ioctl" /\ thr'[u].job = j
      BY <3>1 DEF RunsInv, RunsTold
    <3> QED
      BY <1>1, <2>3, <3>1, <3>2, <3>3, <3>4 DEF RunsInv, RunsTold
  <2>8. FenceInHeader'
    <3>1. \A u \in Threads :
            thr'[u].call \in Runs /\ thr'[u].pc \in {"construct", "getCmdBuf", "mark", "submit"} =>
              fenceFlag = (thr'[u].call = "runCmdAsync")
      BY <1>1, <2>1 DEF RunsInv, FenceInHeader
    <3> QED
      BY <1>1, <2>3, <3>1 DEF RunsInv, FenceInHeader
  <2> QED
    BY <1>1, <2>3, <2>4, <2>5, <2>6, <2>7, <2>8 DEF RunsInv
<1> QED
  BY <1>3, <1>4
\* unMarkExecute() is called by the call that has the mark.
LEMMA unMarkExecuteRuns ==
  ASSUME ListsTypeOK, StateInv, RunsInv, NEW t \in Threads, unMarkExecute(t)
  PROVE  RunsInv' /\ harm' = harm
<1>1. /\ UNCHANGED <<lists, tune, entry, dirty, cmdBuf, bufs, fenceFlag, jobs, harm, alive, num>>
      /\ thr[t].pc = "unmark" /\ executing' = FALSE
  BY DEF unMarkExecute, At, subCmds, lists
<1>2. /\ \A u \in Threads : u # t => thr'[u] = thr[u]
      /\ thr'[t].pc = "idle" /\ thr'[t].call = "constructCmd"
  BY unMarkExecuteFacts DEF Back, Others
<1>3. Unwaited = {} /\ \A u \in Threads : Owns(u) => u = t
  BY <1>1 DEF RunsInv, MarkOwned, Owns
<1>4. Job' = Job /\ Unwaited' = Unwaited /\ HeaderCurrent'
  BY <1>1, JobsQuiet DEF RunsInv
<1>5. BufferCurrent' /\ BufferLive'
  BY <1>1 DEF RunsInv, BufferCurrent, BufferLive, Idx
<1>6. CallsSettled'
  <2>1. \A u \in Threads : /\ thr'[u].call \in Runs => thr[u].call \in Runs
                           /\ thr'[u].call = "waitCmd" => thr[u].call = "waitCmd"
    BY <1>2 DEF Runs
  <2>2. \A u \in Threads : /\ Settled(u)' => ~dirty /\ cmdBuf # 0
                           /\ thr'[u].pc \in {"mark", "submit"} => thr'[u].buf = cmdBuf
    BY <1>2 DEF RunsInv, CallsSettled, Settled
  <2>3. alive
    BY <1>1, CallerAlive
  <2> QED
    BY <1>1, <2>1, <2>2, <2>3 DEF RunsInv, CallsSettled
<1>7. MarkOwned'
  <2>1. \A u \in Threads : ~Owns(u)'
    BY <1>2, <1>3 DEF Owns
  <2> QED
    BY <1>1, <1>3, <1>4, <2>1 DEF MarkOwned
<1>8. RunsTold'
  <2>1. \A u \in Threads : thr[u].pc = "ioctl" \/ thr'[u].pc = "ioctl" => thr'[u] = thr[u]
    BY <1>1, <1>2
  <2>2. \A u \in Threads : thr'[u].call = "waitCmd" /\ thr'[u].pc # "unmark" => Unwaited # {}
    BY <1>2 DEF RunsInv, RunsTold
  <2>3. \A u \in Threads : thr'[u].pc = "poll" => thr'[u].job \in Unwaited
    BY <1>2 DEF RunsInv, RunsTold
  <2>4. \A j \in Job : jobs[j].state = "running" =>
          j \in Unwaited \/ \E u \in Threads : thr'[u].pc = "ioctl" /\ thr'[u].job = j
    BY <2>1 DEF RunsInv, RunsTold
  <2> QED
    BY <1>1, <1>4, <2>1, <2>2, <2>3, <2>4 DEF RunsInv, RunsTold
<1>9. FenceInHeader'
  <2>1. \A u \in Threads :
          thr'[u].call \in Runs /\ thr'[u].pc \in {"construct", "getCmdBuf", "mark", "submit"} =>
            fenceFlag = (thr'[u].call = "runCmdAsync")
    BY <1>2 DEF RunsInv, FenceInHeader
  <2> QED
    BY <1>1, <1>4, <2>1 DEF RunsInv, FenceInHeader
<1> QED
  BY <1>1, <1>4, <1>5, <1>6, <1>7, <1>8, <1>9 DEF RunsInv

\* The driver accepts the run of the call that has the mark.
LEMMA submitRuns ==
  ASSUME ListsTypeOK, StateInv, RunsInv, NEW t \in Threads, submit(t)
  PROVE  RunsInv' /\ harm' = harm
<1> DEFINE n == Len(jobs) + 1
<1>1. /\ UNCHANGED <<lists, tune, entry, dirty, cmdBuf, fenceFlag, executing, alive, num>>
      /\ thr[t].pc = "submit"
  BY DEF submit, At, subCmds, lists
<1>2. /\ touch(thr[t].buf)
      /\ Len(jobs) \in Nat /\ Len(jobs') = n
      /\ \A j \in Job : jobs'[j] = jobs[j]
      /\ jobs'[n] = submitted(t)
      /\ Len(bufs) \in Nat /\ Len(bufs') = Len(bufs)
      /\ \A b \in 1 .. Len(bufs) :
           /\ bufs'[b].num = bufs[b].num /\ bufs'[b].tune = bufs[b].tune
           /\ bufs'[b].flag = bufs[b].flag /\ bufs'[b].live = bufs[b].live
           /\ bufs'[b].fd = IF b = thr[t].buf /\ bufs[b].flag THEN n ELSE bufs[b].fd
      /\ IF thr[t].call = "runCmd"
         THEN Others(t) /\ thr'[t].pc = "ioctl" /\ thr'[t].call = thr[t].call
              /\ thr'[t].job = n
         ELSE Back(t)
  BY submitFacts
<1>3. \A u \in Threads : u # t => thr'[u] = thr[u]
  BY <1>2 DEF Back, Others
<1>4. /\ alive /\ ~dirty /\ cmdBuf # 0 /\ thr[t].buf = cmdBuf /\ thr[t].call \in Runs
      /\ cmdBuf \in 1 .. Len(bufs)
  <2>1. cmdBuf \in 0 .. Len(bufs)
    BY DEF StateInv, CommandTyped
  <2>2. alive /\ ~dirty /\ cmdBuf # 0 /\ thr[t].buf = cmdBuf
    BY <1>1, CallerAlive DEF RunsInv, CallsSettled, Settled
  <2> QED
    BY <1>1, <1>2, <2>1, <2>2, PlaceFacts DEF StateInv
<1>5. harm' = harm
  BY <1>2, <1>4, LiveTouched
<1>6. /\ Unwaited = {} /\ executing /\ \A u \in Threads : Owns(u) => u = t
  BY <1>1 DEF RunsInv, MarkOwned, Owns
<1>7. /\ jobs'[n].call = thr[t].call /\ jobs'[n].closed = 0 /\ jobs'[n].told = FALSE
      /\ jobs'[n].state = "running" /\ jobs'[n].current = TRUE
  <2>1. bufs[cmdBuf].num = num /\ bufs[cmdBuf].tune = tune
    BY <1>4 DEF RunsInv, BufferCurrent
  <2>2. bufs[thr[t].buf].num = num /\ bufs[thr[t].buf].tune = tune
    BY <1>4, <2>1
  <2>3. /\ submitted(t).call = thr[t].call /\ submitted(t).closed = 0
        /\ submitted(t).told = FALSE /\ submitted(t).state = "running"
    BY DEF submitted
  <2>4. submitted(t).current = TRUE
    BY <2>2 DEF submitted
  <2> QED
    BY <1>2, <2>3, <2>4
<1>8. /\ \A j \in Job' : j \in Job \/ j = n
      /\ n \in Job' /\ Job \subseteq Job' /\ n \notin Job
  BY <1>2 DEF Job
<1>9. Unwaited' = IF thr[t].call = "runCmdAsync" THEN {n} ELSE {}
  <2>1. \A j \in Job : ~(jobs'[j].call = "runCmdAsync" /\ jobs'[j].closed = 0)
    BY <1>2, <1>6 DEF Unwaited
  <2> QED
    BY <1>7, <1>8, <2>1 DEF Unwaited
<1>10. HeaderCurrent'
  BY <1>2, <1>7, <1>8 DEF RunsInv, HeaderCurrent
<1>11. BufferCurrent'
  BY <1>1, <1>2, <1>4 DEF RunsInv, BufferCurrent, Idx
<1>12. BufferLive'
  BY <1>1, <1>2 DEF RunsInv, BufferLive
<1>13. \/ thr[t].call = "runCmd" /\ thr'[t].pc = "ioctl" /\ thr'[t].call = "runCmd"
          /\ thr'[t].job = n
       \/ thr[t].call = "runCmdAsync" /\ thr'[t].pc = "idle" /\ thr'[t].call = "constructCmd"
  BY <1>2, <1>4 DEF Back, Runs
<1>14. CallsSettled'
  <2>1. \A u \in Threads : /\ thr'[u].call \in Runs => thr[u].call \in Runs
                           /\ thr'[u].call = "waitCmd" => thr[u].call = "waitCmd"
    BY <1>3, <1>13 DEF Runs
  <2>2. \A u \in Threads : thr'[u].pc \in {"mark", "submit"} => thr'[u].buf = cmdBuf
    BY <1>3, <1>13 DEF RunsInv, CallsSettled
  <2> QED
    BY <1>1, <1>4, <2>1, <2>2 DEF RunsInv, CallsSettled
<1>15. MarkOwned'
  <2>1. \A u \in Threads : Owns(u)' <=> u = t /\ thr[t].call = "runCmd"
    BY <1>3, <1>6, <1>13 DEF Owns
  <2> QED
    BY <1>1, <1>6, <1>9, <1>13, <2>1 DEF MarkOwned
<1>16. RunsTold'
  <2>1. \A u \in Threads : thr[u].pc # "ioctl"
    BY <1>1, <1>6 DEF Owns
  <2>2. \A j \in Job : jobs'[j].state # "running"
    BY <1>2, <1>6, <2>1 DEF RunsInv, RunsTold
  <2>3. \A j \in Job' : jobs'[j].state = "running" =>
          j \in Unwaited' \/ \E u \in Threads : thr'[u].pc = "ioctl" /\ thr'[u].job = j
    BY <1>8, <1>9, <1>13, <2>2
  <2>4. \A j \in Job' : jobs'[j].call = "runCmdAsync" /\ jobs'[j].told => jobs'[j].closed = 1
    BY <1>2, <1>7, <1>8 DEF RunsInv, RunsTold
  <2>5. \A u \in Threads : thr'[u].pc = "ioctl" =>
          thr'[u].job \in Job' /\ jobs'[thr'[u].job].call = "runCmd"
    BY <1>3, <1>7, <1>8, <1>13, <2>1
  <2>6. \A u \in Threads : /\ thr'[u].call = "waitCmd" /\ thr'[u].pc # "unmark" => Unwaited' # {}
                           /\ thr'[u].pc = "poll" => thr'[u].job \in Unwaited'
    BY <1>3, <1>6, <1>13 DEF RunsInv, RunsTold
  <2> QED
    BY <2>3, <2>4, <2>5, <2>6 DEF RunsTold
<1>17. FenceInHeader'
  <2>1. \A u \in Threads :
          thr'[u].call \in Runs /\ thr'[u].pc \in {"construct", "getCmdBuf", "mark", "submit"} =>
            fenceFlag = (thr'[u].call = "runCmdAsync")
    BY <1>3, <1>13 DEF RunsInv, FenceInHeader, Runs
  <2>2. bufs[cmdBuf].flag = fenceFlag /\ fenceFlag = (thr[t].call = "runCmdAsync")
    BY <1>1, <1>4 DEF RunsInv, FenceInHeader
  <2>3. bufs'[cmdBuf].flag = fenceFlag
    BY <1>2, <1>4, <2>2
  <2>4. \A j \in Unwaited' : bufs'[cmdBuf].fd = j
    BY <1>2, <1>4, <1>9, <2>2
  <2> QED
    BY <1>1, <1>4, <2>1, <2>3, <2>4 DEF FenceInHeader
<1> QED
  BY <1>5, <1>10, <1>11, <1>12, <1>14, <1>15, <1>16, <1>17 DEF RunsInv
LEMMA ToldBoolean ==
  ASSUME StateInv
  PROVE  \A j \in Job : jobs[j].told \in BOOLEAN
<1>1. \A j \in Job : jobs[j] \in JobRecord
  BY ElementOfSeq DEF StateInv, JobsTyped, Job
<1> QED
  BY <1>1 DEF JobRecord

\* A run is over for the call that waited in the ioctl.
LEMMA syncDoneRuns ==
  ASSUME ListsTypeOK, StateInv, RunsInv, NEW t \in Threads, syncDone(t)
  PROVE  RunsInv' /\ harm' = harm
<1>1. /\ UNCHANGED <<lists, tune, entry, dirty, cmdBuf, bufs, fenceFlag, executing, num>>
      /\ UNCHANGED <<harm, alive>> /\ thr[t].pc = "ioctl"
  BY DEF syncDone, At, command, subCmds, lists
<1>2. thr[t].job \in Job /\ jobs[thr[t].job].call = "runCmd"
  BY <1>1 DEF RunsInv, RunsTold
<1>3. /\ Moved(t, "unmark") /\ Len(jobs') = Len(jobs)
      /\ \A k \in Job :
           /\ jobs'[k].call = jobs[k].call /\ jobs'[k].current = jobs[k].current
           /\ jobs'[k].closed = jobs[k].closed /\ jobs'[k].state = jobs[k].state
           /\ jobs'[k].told = (jobs[k].told \/ k = thr[t].job)
      /\ jobs[thr[t].job].state = "done"
  BY <1>2, syncDoneFacts
<1>4. /\ \A u \in Threads : u # t => thr'[u] = thr[u]
      /\ thr'[t].pc = "unmark" /\ thr'[t].call = thr[t].call
  BY <1>3 DEF Moved, Others
<1>5. Job' = Job /\ Unwaited' = Unwaited /\ HeaderCurrent'
  BY <1>3, JobsQuiet DEF RunsInv
<1>6. BufferCurrent' /\ BufferLive'
  BY <1>1 DEF RunsInv, BufferCurrent, BufferLive, Idx
<1>7. \A u \in Threads : Owns(u)' = Owns(u) /\ Settled(u)' = Settled(u)
  BY <1>1, <1>4 DEF Owns, Settled
<1>8. CallsSettled'
  <2>1. \A u \in Threads : thr'[u].call = thr[u].call
    BY <1>4
  <2>2. \A u \in Threads : thr'[u].pc \in {"mark", "submit"} => thr'[u].buf = cmdBuf
    BY <1>4 DEF RunsInv, CallsSettled
  <2>3. alive
    BY <1>1, CallerAlive
  <2> QED
    BY <1>1, <1>7, <2>1, <2>2, <2>3 DEF RunsInv, CallsSettled
<1>9. MarkOwned'
  BY <1>1, <1>5, <1>7 DEF RunsInv, MarkOwned
<1>10. RunsTold'
  <2>1. \A j \in Job : jobs[j].state = "running" =>
          j \in Unwaited \/ \E u \in Threads : thr'[u].pc = "ioctl" /\ thr'[u].job = j
    <3>1. SUFFICES ASSUME NEW j \in Job, jobs[j].state = "running", j \notin Unwaited
                   PROVE  \E u \in Threads : thr'[u].pc = "ioctl" /\ thr'[u].job = j
      OBVIOUS
    <3>2. PICK u \in Threads : thr[u].pc = "ioctl" /\ thr[u].job = j
      BY <3>1 DEF RunsInv, RunsTold
    <3>3. u # t
      BY <1>3, <3>1, <3>2
    <3> QED
      BY <1>4, <3>2, <3>3
  <2>2. \A u \in Threads : thr'[u].pc = "ioctl" =>
          thr'[u].job \in Job /\ jobs'[thr'[u].job].call = "runCmd"
    BY <1>3, <1>4 DEF RunsInv, RunsTold
  <2>3. \A j \in Job : jobs'[j].call = "runCmdAsync" /\ jobs'[j].told => jobs'[j].closed = 1
    <3>1. \A j \in Job : j # thr[t].job => jobs'[j].told = jobs[j].told
      BY <1>3, ToldBoolean
    <3> QED
      BY <1>2, <1>3, <3>1 DEF RunsInv, RunsTold
  <2>4. \A u \in Threads : /\ thr'[u].call = "waitCmd" /\ thr'[u].pc # "unmark" => Unwaited # {}
                           /\ thr'[u].pc = "poll" => thr'[u].job \in Unwaited
    BY <1>1, <1>4 DEF RunsInv, RunsTold
  <2> QED
    BY <1>3, <1>5, <2>1, <2>2, <2>3, <2>4 DEF RunsTold
<1>11. FenceInHeader'
  <2>1. \A u \in Threads :
          thr'[u].call \in Runs /\ thr'[u].pc \in {"construct", "getCmdBuf", "mark", "submit"} =>
            fenceFlag = (thr'[u].call = "runCmdAsync")
    BY <1>4 DEF RunsInv, FenceInHeader
  <2> QED
    BY <1>1, <1>5, <2>1 DEF RunsInv, FenceInHeader
<1> QED
  BY <1>1, <1>5, <1>6, <1>8, <1>9, <1>10, <1>11 DEF RunsInv

\* The fence that is polled is that of the asynchronous run.
LEMMA pollRuns ==
  ASSUME ListsTypeOK, StateInv, RunsInv, NEW t \in Threads, poll(t)
  PROVE  RunsInv' /\ harm' = harm
<1> DEFINE j == thr[t].job
<1>1. /\ UNCHANGED <<lists, tune, entry, dirty, cmdBuf, bufs, fenceFlag, executing, num>>
      /\ UNCHANGED alive /\ thr[t].pc = "poll"
  BY DEF poll, At, command, subCmds, lists
<1>2. j \in Unwaited /\ thr[t].call = "waitCmd"
  BY <1>1, PlaceFacts DEF RunsInv, RunsTold, StateInv
<1>3. j \in Job /\ jobs[j].closed = 0 /\ jobs[j].call = "runCmdAsync" /\ j # 0
  BY <1>2 DEF Unwaited, Job
<1>4. /\ Moved(t, "unmark") /\ Len(jobs') = Len(jobs)
      /\ jobs[j].state = "done" /\ harm' = harm
      /\ \A k \in Job :
           /\ jobs'[k].call = jobs[k].call /\ jobs'[k].current = jobs[k].current
           /\ jobs'[k].state = jobs[k].state
           /\ jobs'[k].closed = IF k = j THEN 1 ELSE jobs[k].closed
           /\ jobs'[k].told = (jobs[k].told \/ k = j)
  BY <1>3, pollFacts
<1>5. /\ \A u \in Threads : u # t => thr'[u] = thr[u]
      /\ thr'[t].pc = "unmark" /\ thr'[t].call = thr[t].call
  BY <1>4 DEF Moved, Others
<1>6. executing /\ (\A k \in Unwaited : k = j) /\ \A u \in Threads : ~Owns(u)
  BY <1>2 DEF RunsInv, MarkOwned
<1>7. Job' = Job /\ HeaderCurrent'
  BY <1>4 DEF Job, RunsInv, HeaderCurrent
<1>8. Unwaited' = {}
  <2>1. \A k \in Job : ~(jobs'[k].call = "runCmdAsync" /\ jobs'[k].closed = 0)
    BY <1>4, <1>6 DEF Unwaited
  <2> QED
    BY <1>7, <2>1 DEF Unwaited
<1>9. BufferCurrent' /\ BufferLive'
  BY <1>1 DEF RunsInv, BufferCurrent, BufferLive, Idx
<1>10. CallsSettled'
  <2>1. \A u \in Threads : thr'[u].call = thr[u].call /\ Settled(u)' = Settled(u)
    BY <1>1, <1>5 DEF Settled
  <2>2. \A u \in Threads : thr'[u].pc \in {"mark", "submit"} => thr'[u].buf = cmdBuf
    BY <1>5 DEF RunsInv, CallsSettled
  <2>3. alive
    BY <1>1, CallerAlive
  <2> QED
    BY <1>1, <2>1, <2>2, <2>3 DEF RunsInv, CallsSettled
<1>11. MarkOwned'
  <2>1. \A u \in Threads : Owns(u)' <=> u = t
    BY <1>5, <1>6 DEF Owns
  <2> QED
    BY <1>1, <1>6, <1>8, <2>1 DEF MarkOwned
<1>12. RunsTold'
  <2>1. \A u \in Threads : thr[u].pc # "ioctl" /\ thr'[u].pc # "ioctl"
    BY <1>5, <1>6 DEF Owns
  <2>2. \A k \in Job : jobs'[k].state # "running"
    BY <1>4, <1>6, <2>1 DEF RunsInv, RunsTold
  <2>3. \A k \in Job : jobs'[k].call = "runCmdAsync" /\ jobs'[k].told => jobs'[k].closed = 1
    <3>1. \A k \in Job : k # j => jobs'[k].told = jobs[k].told
      BY <1>4, ToldBoolean
    <3> QED
      BY <1>4, <3>1 DEF RunsInv, RunsTold
  <2>4. \A u \in Threads : thr'[u].call = "waitCmd" => u = t
    BY <1>2, <1>5 DEF RunsInv, CallsSettled
  <2>5. \A u \in Threads : thr'[u].pc # "poll"
    <3>1. \A u \in Threads : thr[u].pc = "poll" => u = t
      BY <1>2, PlaceFacts DEF RunsInv, CallsSettled, StateInv
    <3> QED
      BY <1>5, <3>1
  <2> QED
    BY <1>5, <1>7, <2>1, <2>2, <2>3, <2>4, <2>5 DEF RunsTold
<1>13. FenceInHeader'
  <2>1. \A u \in Threads :
          thr'[u].call \in Runs /\ thr'[u].pc \in {"construct", "getCmdBuf", "mark", "submit"} =>
            fenceFlag = (thr'[u].call = "runCmdAsync")
    BY <1>5 DEF RunsInv, FenceInHeader
  <2> QED
    BY <1>1, <1>8, <2>1 DEF RunsInv, FenceInHeader
<1> QED
  BY <1>4, <1>7, <1>9, <1>10, <1>11, <1>12, <1>13 DEF RunsInv

\* The driver ends a job.
LEMMA CompleteRuns ==
  ASSUME ListsTypeOK, StateInv, RunsInv, NEW j \in Job, Complete(j)
  PROVE  RunsInv' /\ harm' = harm
<1>1. /\ UNCHANGED <<lists, tune, entry, dirty, cmdBuf, bufs, fenceFlag, executing, num>>
      /\ UNCHANGED <<harm, alive, thr>>
  BY DEF Complete, command, subCmds, lists
<1>2. /\ Len(jobs') = Len(jobs)
      /\ \A k \in Job :
           /\ jobs'[k].call = jobs[k].call /\ jobs'[k].current = jobs[k].current
           /\ jobs'[k].closed = jobs[k].closed /\ jobs'[k].told = jobs[k].told
           /\ jobs'[k].state = IF k = j THEN "done" ELSE jobs[k].state
  BY CompleteFacts
<1>3. Job' = Job /\ Unwaited' = Unwaited /\ HeaderCurrent'
  BY <1>2, JobsQuiet DEF RunsInv
<1>4. BufferCurrent' /\ BufferLive'
  BY <1>1 DEF RunsInv, BufferCurrent, BufferLive, Idx
<1>5. CallsSettled'
  BY <1>1 DEF RunsInv, CallsSettled, Settled, In
<1>6. MarkOwned'
  BY <1>1, <1>3 DEF RunsInv, MarkOwned, Owns
<1>7. RunsTold'
  BY <1>1, <1>2, <1>3 DEF RunsInv, RunsTold
<1>8. FenceInHeader'
  BY <1>1, <1>3 DEF RunsInv, FenceInHeader
<1> QED
  BY <1>1, <1>3, <1>4, <1>5, <1>6, <1>7, <1>8 DEF RunsInv
\* setTuneParam() of the user: the header follows, or the command is dirty.
LEMMA setTuneParamRuns ==
  ASSUME ListsTypeOK, StateInv, RunsInv, NEW i \in Idx, setTuneParam(i)
  PROVE  RunsInv' /\ (client # "modifying" => harm' = harm)
<1>1. /\ Len(bufs') = Len(bufs) /\ Len(bufs) \in Nat
      /\ UNCHANGED <<mtx, lists, entry, dirty, cmdBuf, fenceFlag, executing>>
      /\ UNCHANGED <<jobs, thr, alive, client>>
      /\ IF entry[i] = 0 THEN harm' = harm ELSE touch(entry[i])
  BY setTuneParamFacts
<1>2. PICK new : /\ tune' = [tune EXCEPT ![i] = new]
                 /\ \A c \in 1 .. Len(bufs) :
                      /\ bufs'[c].num = bufs[c].num /\ bufs'[c].fd = bufs[c].fd
                      /\ bufs'[c].flag = bufs[c].flag /\ bufs'[c].live = bufs[c].live
                      /\ bufs'[c].tune = IF c = entry[i] THEN [bufs[c].tune EXCEPT ![i] = new]
                                         ELSE bufs[c].tune
  BY setTuneParamFacts
<1>3. cmdBuf # 0 => cmdBuf \in 1 .. Len(bufs)
  BY <1>1 DEF StateInv, CommandTyped
<1>4. Job' = Job /\ Unwaited' = Unwaited /\ HeaderCurrent'
  BY <1>1, JobsQuiet DEF RunsInv
<1>5. BufferCurrent'
  <2>1. num' = num /\ Idx' = Idx
    BY <1>1 DEF lists, Idx
  <2>2. ASSUME ~dirty, cmdBuf # 0
        PROVE  bufs'[cmdBuf].num = num /\ bufs'[cmdBuf].tune = tune'
    <3>1. bufs[cmdBuf].num = num /\ bufs[cmdBuf].tune = tune /\ entry[i] = cmdBuf
      BY <2>2 DEF RunsInv, BufferCurrent
    <3> QED
      BY <1>2, <1>3, <2>2, <3>1
  <2> QED
    BY <1>1, <2>1, <2>2 DEF RunsInv, BufferCurrent
<1>6. BufferLive'
  BY <1>1, <1>2 DEF RunsInv, BufferLive
<1>7. CallsSettled' /\ MarkOwned' /\ RunsTold'
  BY <1>1, <1>4 DEF RunsInv, CallsSettled, Settled, In, MarkOwned, Owns, RunsTold
<1>8. FenceInHeader'
  BY <1>1, <1>2, <1>3, <1>4 DEF RunsInv, FenceInHeader
<1>9. client # "modifying" => harm' = harm
  <2>1. SUFFICES ASSUME client # "modifying", entry[i] # 0 PROVE harm' = harm
    BY <1>1
  <2>2. client = "serial"
    BY <2>1, EngineAssumption DEF setTuneParam, MayTune, StateInv, CommandTyped
  <2>3. cmdBuf # 0 /\ alive
    BY <2>1, <2>2 DEF setTuneParam, MayTune
  <2>4. entry[i] = cmdBuf
    BY <2>1, <2>3 DEF RunsInv, BufferCurrent
  <2> QED
    BY <1>1, <2>1, <2>3, <2>4, LiveTouched
<1> QED
  BY <1>4, <1>5, <1>6, <1>7, <1>8, <1>9 DEF RunsInv

\* The flags that setCmdProperty() writes are there already.
LEMMA setCmdPropertyRuns ==
  ASSUME ListsTypeOK, StateInv, RunsInv, setCmdProperty
  PROVE  RunsInv' /\ harm' = harm
<1>1. /\ UNCHANGED <<lists, tune, entry, cmdBuf, fenceFlag, executing, num>>
      /\ UNCHANGED <<jobs, harm, thr, alive>> /\ dirty' = (dirty \/ cmdBuf = 0)
  BY DEF setCmdProperty, subCmds, lists
<1>2. /\ Len(bufs') = Len(bufs) /\ Len(bufs) \in Nat
      /\ \A c \in 1 .. Len(bufs) :
           /\ bufs'[c].num = bufs[c].num /\ bufs'[c].tune = bufs[c].tune
           /\ bufs'[c].fd = bufs[c].fd /\ bufs'[c].live = bufs[c].live
           /\ bufs'[c].flag = IF c = cmdBuf THEN fenceFlag ELSE bufs[c].flag
  BY setCmdPropertyFacts
<1>3. cmdBuf # 0 => cmdBuf \in 1 .. Len(bufs)
  BY <1>2 DEF StateInv, CommandTyped
<1>4. Job' = Job /\ Unwaited' = Unwaited /\ HeaderCurrent'
  BY <1>1, JobsQuiet DEF RunsInv
<1>5. BufferCurrent'
  BY <1>1, <1>2, <1>3 DEF RunsInv, BufferCurrent, Idx
<1>6. BufferLive'
  BY <1>1, <1>2 DEF RunsInv, BufferLive
<1>7. CallsSettled'
  BY <1>1 DEF RunsInv, CallsSettled, Settled, In
<1>8. MarkOwned' /\ RunsTold'
  BY <1>1, <1>4 DEF RunsInv, MarkOwned, Owns, RunsTold
<1>9. FenceInHeader'
  BY <1>1, <1>2, <1>3, <1>4 DEF RunsInv, FenceInHeader
<1> QED
  BY <1>1, <1>4, <1>5, <1>6, <1>7, <1>8, <1>9 DEF RunsInv

\* A sub-command is added or packed while no call is in progress.
LEMMA NewSubCmdRuns ==
  ASSUME ListsTypeOK, StateInv, RunsInv, MayModify, num' = num + 1, NEW x, Modified(x),
         UNCHANGED <<mtx, cmdBuf, bufs, fenceFlag, executing, jobs, harm, thr, alive, client>>
  PROVE  RunsInv' /\ harm' = harm
<1>1. \A t \in Threads : thr[t].pc = "idle" /\ ~Settled(t)
  BY NoCalls DEF MayModify, StateInv, Settled
<1>2. dirty' = TRUE /\ entry' = [i \in 0 .. num |-> IF i = num THEN 0 ELSE entry[i]]
  BY DEF Modified, PushBack
<1>3. num \in Nat /\ Idx' = 0 .. num /\ \A i \in Idx' : i \in Idx \/ i = num
  BY DEF ListsTypeOK, Idx
<1>4. Job' = Job /\ Unwaited' = Unwaited /\ HeaderCurrent'
  BY JobsQuiet DEF RunsInv
<1>5. BufferCurrent'
  <2>1. cmdBuf # 0 => \A i \in Idx' : entry'[i] \in {0, cmdBuf}
    BY <1>2, <1>3 DEF RunsInv, BufferCurrent
  <2> QED
    BY <1>2, <2>1 DEF BufferCurrent
<1>6. BufferLive'
  BY DEF RunsInv, BufferLive
<1>7. CallsSettled'
  <2>1. \A t \in Threads : thr'[t].pc = "idle" /\ ~Settled(t)'
    BY <1>1 DEF Settled
  <2> QED
    BY <2>1 DEF RunsInv, CallsSettled, In
<1>8. MarkOwned' /\ RunsTold' /\ FenceInHeader'
  BY <1>4 DEF RunsInv, MarkOwned, Owns, RunsTold, FenceInHeader
<1> QED
  BY <1>4, <1>5, <1>6, <1>7, <1>8 DEF RunsInv

\* A command is destroyed when no call and no asynchronous run is in progress.
LEMMA destroyCmdRuns ==
  ASSUME ListsTypeOK, StateInv, RunsInv, destroyCmd
  PROVE  RunsInv' /\ harm' = harm
<1>1. /\ UNCHANGED <<lists, tune, entry, dirty, fenceFlag, executing, num>>
      /\ UNCHANGED <<jobs, harm, thr>> /\ cmdBuf' = 0 /\ alive' = FALSE
      /\ Unwaited = {}
  BY DEF destroyCmd, subCmds, lists
<1>2. \A t \in Threads : thr[t].pc = "idle" /\ ~Settled(t)
  BY NoCalls DEF destroyCmd, StateInv, Settled
<1>3. Job' = Job /\ Unwaited' = Unwaited /\ HeaderCurrent'
  BY <1>1, JobsQuiet DEF RunsInv
<1>4. BufferCurrent' /\ BufferLive'
  BY <1>1 DEF BufferCurrent, BufferLive
<1>5. CallsSettled'
  <2>1. \A t \in Threads : thr'[t].pc = "idle" /\ ~Settled(t)'
    BY <1>1, <1>2 DEF Settled
  <2> QED
    BY <1>1, <2>1 DEF RunsInv, CallsSettled, In
<1>6. MarkOwned' /\ RunsTold' /\ FenceInHeader'
  BY <1>1, <1>3 DEF RunsInv, MarkOwned, Owns, RunsTold, FenceInHeader
<1> QED
  BY <1>1, <1>3, <1>4, <1>5, <1>6 DEF RunsInv

\* Who has the mark, and whose buffer and fence it is, after every step.
LEMMA RunsStep ==
  ASSUME ListsTypeOK, StateInv, RunsInv, [Next]_vars
  PROVE  RunsInv' /\ (client # "modifying" => harm' = harm)
<1>1. ASSUME NEW dev \in Devices, NEW dependency \in SUBSET Idx, addSubCmd(dev, dependency)
      PROVE  RunsInv' /\ harm' = harm
  <2>1. MayModify /\ num' = num + 1 /\ Modified(0)
        /\ UNCHANGED <<mtx, cmdBuf, bufs, fenceFlag, executing, jobs, harm, thr, alive, client>>
    BY <1>1 DEF addSubCmd, addLinks, Pushed, MayAdd
  <2> QED
    BY <2>1, NewSubCmdRuns
<1>2. ASSUME NEW dev \in Devices, NEW target \in Idx, packSubCmd(dev, target)
      PROVE  RunsInv' /\ harm' = harm
  <2>1. MayModify /\ num' = num + 1 /\ Modified(tune[target])
        /\ UNCHANGED <<mtx, cmdBuf, bufs, fenceFlag, executing, jobs, harm, thr, alive, client>>
    BY <1>2 DEF packSubCmd, packLinks, Pushed, MayAdd
  <2> QED
    BY <2>1, NewSubCmdRuns
<1>3. ASSUME NEW t \in Threads, Step(t)
      PROVE  RunsInv' /\ harm' = harm
  <2>1. CASE setFence(t) \/ constructNothing(t) \/ construct(t) \/ constructFails(t)
    BY <2>1, setFenceRuns, constructNothingRuns, constructRuns, constructFailsRuns
  <2>2. CASE getCmdBuf(t) \/ readInfo(t) \/ markExecute(t) \/ unMarkExecute(t)
    BY <2>2, getCmdBufRuns, readInfoRuns, markExecuteRuns, unMarkExecuteRuns
  <2>3. CASE submit(t) \/ submitFails(t) \/ syncDone(t) \/ getFence(t) \/ poll(t)
    BY <2>3, submitRuns, submitFailsRuns, syncDoneRuns, getFenceRuns, pollRuns
  <2> QED
    BY <1>3, <2>1, <2>2, <2>3 DEF Step
<1>4. ASSUME NEW t \in Threads, NEW c \in Calls, Call(t, c)
      PROVE  RunsInv' /\ harm' = harm
  BY <1>4, CallRuns
<1>5. ASSUME NEW i \in Idx, setTuneParam(i)
      PROVE  RunsInv' /\ (client # "modifying" => harm' = harm)
  BY <1>5, setTuneParamRuns
<1>6. ASSUME NEW j \in Job, Complete(j)
      PROVE  RunsInv' /\ harm' = harm
  BY <1>6, CompleteRuns
<1>7. ASSUME setCmdProperty \/ destroyCmd
      PROVE  RunsInv' /\ harm' = harm
  BY <1>7, setCmdPropertyRuns, destroyCmdRuns
<1>8. ASSUME UNCHANGED vars
      PROVE  RunsInv' /\ harm' = harm
  <2>1. /\ UNCHANGED <<lists, tune, entry, dirty, cmdBuf, bufs, fenceFlag, executing, num>>
        /\ UNCHANGED <<jobs, harm, thr, alive>>
    BY <1>8 DEF vars, command, subCmds, lists
  <2>2. Job' = Job /\ Unwaited' = Unwaited /\ HeaderCurrent'
    BY <2>1, JobsQuiet DEF RunsInv
  <2>3. CallsSettled' /\ MarkOwned' /\ RunsTold'
    BY <2>1, <2>2 DEF RunsInv, CallsSettled, Settled, In, MarkOwned, Owns, RunsTold
  <2>4. FenceInHeader' /\ BufferCurrent' /\ BufferLive'
    BY <2>1, <2>2 DEF RunsInv, FenceInHeader, BufferCurrent, BufferLive, Idx
  <2> QED
    BY <2>1, <2>2, <2>3, <2>4 DEF RunsInv
<1> QED
  BY <1>1, <1>2, <1>3, <1>4, <1>5, <1>6, <1>7, <1>8 DEF Next, Gone
-----------------------------------------------------------------------------
\* A command that was just created.
LEMMA EngineInit ==
  ASSUME EngineAssumption, Init
  PROVE  StateInv /\ RunsInv /\ BuffersInv
<1>1. /\ num = 0 /\ Idx = {} /\ bufs = << >> /\ jobs = << >>
      /\ Len(bufs) = 0 /\ Len(jobs) = 0 /\ Job = {} /\ Unwaited = {}
  BY DEF Init, NoLinks, Idx, Job, Unwaited
<1>2. \A t \in Threads : /\ thr[t] = Idle /\ thr[t].pc = "idle" /\ thr[t].call = "constructCmd"
                         /\ thr[t].buf = 0 /\ thr[t].job = 0
  BY DEF Init, Idle
<1>3. BufsTyped /\ JobsTyped
  <2>1. bufs \in Seq(BufRecord) /\ jobs \in Seq(JobRecord)
    BY <1>1
  <2> QED
    BY <1>1, <2>1 DEF EngineAssumption, BufsTyped, JobsTyped
<1>4. ThreadsTyped
  <2>1. Idle \in ThreadRecord
    BY DEF Idle, ThreadRecord, Positions, Calls
  <2>2. thr \in [Threads -> ThreadRecord]
    BY <2>1 DEF Init
  <2>3. "idle" \in Places("constructCmd")
    BY DEF Places, Runs
  <2> QED
    BY <1>1, <1>2, <2>2, <2>3 DEF ThreadsTyped
<1>5. CommandTyped
  <2>1. tune \in [Idx -> 0 .. MaxTunes] /\ entry \in [Idx -> 0 .. Len(bufs)]
    BY <1>1 DEF Init
  <2>2. /\ mtx \in Threads \cup {NoThread} /\ client \in Clients
        /\ dirty \in BOOLEAN /\ fenceFlag \in BOOLEAN /\ executing \in BOOLEAN /\ alive \in BOOLEAN
        /\ harm \subseteq {"buffer", "descriptor"}
    BY DEF Init
  <2>3. cmdBuf \in 0 .. Len(bufs)
    BY <1>1 DEF Init
  <2> QED
    BY <2>1, <2>2, <2>3 DEF CommandTyped
<1>6. CallsSettled /\ MarkOwned
  BY <1>1, <1>2 DEF Init, CallsSettled, Settled, In, Runs, MarkOwned, Owns
<1>7. RunsTold /\ FenceInHeader /\ HeaderCurrent
  BY <1>1, <1>2 DEF Init, RunsTold, FenceInHeader, HeaderCurrent, Runs
<1>8. BufferCurrent /\ BufferLive
  BY <1>1 DEF Init, BufferCurrent, BufferLive
<1> QED
  BY <1>3, <1>4, <1>5, <1>6, <1>7, <1>8 DEF StateInv, RunsInv, BuffersInv, Init

\* What the callers refrain from, they refrain from for good.
LEMMA ClientKept ==
  ASSUME [Next]_vars
  PROVE  client' = client
<1>1. ASSUME NEW t \in Threads, Step(t)
      PROVE  client' = client
  BY <1>1 DEF Step, setFence, constructNothing, construct, constructFails, getCmdBuf,
              readInfo, markExecute, submit, submitFails, syncDone, unMarkExecute,
              getFence, poll
<1>2. ASSUME NEW t \in Threads, NEW c \in Calls, Call(t, c)
      PROVE  client' = client
  BY <1>2 DEF Call
<1>3. ASSUME NEW dev \in Devices, NEW dependency \in SUBSET Idx, addSubCmd(dev, dependency)
      PROVE  client' = client
  BY <1>3 DEF addSubCmd
<1>4. ASSUME NEW dev \in Devices, NEW target \in Idx, packSubCmd(dev, target)
      PROVE  client' = client
  BY <1>4 DEF packSubCmd
<1>5. ASSUME NEW i \in Idx, setTuneParam(i)
      PROVE  client' = client
  BY <1>5 DEF setTuneParam
<1>6. CASE setCmdProperty \/ destroyCmd \/ Gone \/ (\E j \in Job : Complete(j)) \/ UNCHANGED vars
  BY <1>6 DEF setCmdProperty, destroyCmd, Gone, Complete, vars
<1> QED
  BY <1>1, <1>2, <1>3, <1>4, <1>5, <1>6 DEF Next

\* The inductive invariant of a command, its buffers and its runs.
EngineInv == ListsInv /\ StateInv /\ RunsInv /\ BuffersInv

LEMMA EngineInvariant == Spec => []EngineInv
<1>1. Init => EngineInv
  BY ListsAssumption, EngineAssumption, ListsInit, EngineInit DEF Init, EngineInv
<1>2. ASSUME EngineInv, [Next]_vars
      PROVE  EngineInv'
  <2>1. ListsTypeOK /\ StateInv /\ RunsInv /\ RunsTold
    BY <1>2 DEF EngineInv, ListsInv, RunsInv
  <2>2. ListsInv' /\ StateInv'
    BY <1>2, <2>1, ListsAssumption, StepKeepsLists, StateStep DEF EngineInv
  <2>3. RunsInv' /\ (client # "modifying" => harm' = harm)
    BY <1>2, <2>1, RunsStep
  <2>4. BuffersInv'
    BY <1>2, <2>3, ClientKept DEF EngineInv, BuffersInv
  <2> QED
    BY <2>2, <2>3, <2>4 DEF EngineInv
<1> QED
  BY <1>1, <1>2, PTL DEF Spec

LEMMA TypesFollow ==
  ASSUME ListsTypeOK, StateInv
  PROVE  TypeOK
<1>1. \A b \in 1 .. Len(bufs) :
        /\ bufs[b].num \in 1 .. num /\ bufs[b].fd \in 0 .. Len(jobs)
        /\ bufs[b].tune \in [0 .. bufs[b].num - 1 -> 0 .. MaxTunes]
        /\ {bufs[b].flag, bufs[b].live} \subseteq BOOLEAN
  <2>1. TAKE b \in 1 .. Len(bufs)
  <2>2. bufs[b] \in BufRecord
    BY ElementOfSeq DEF StateInv, BufsTyped
  <2>3. bufs[b].fd \in Nat /\ bufs[b].flag \in BOOLEAN /\ bufs[b].live \in BOOLEAN
    BY <2>2 DEF BufRecord
  <2>4. Len(jobs) \in Nat
    BY LenProperties DEF StateInv, JobsTyped
  <2>5. /\ bufs[b].num \in 1 .. num /\ bufs[b].fd <= Len(jobs)
        /\ bufs[b].tune \in [0 .. bufs[b].num - 1 -> 0 .. MaxTunes]
    BY DEF StateInv, BufsTyped
  <2>6. bufs[b].fd \in 0 .. Len(jobs)
    BY <2>3, <2>4, <2>5
  <2> QED
    BY <2>3, <2>5, <2>6
<1>2. \A j \in Job :
        jobs[j] \in [buf : 1 .. Len(bufs), call : Runs, state : {"running", "done"},
                     current : BOOLEAN, told : BOOLEAN, closed : 0 .. 1]
  <2>1. TAKE j \in Job
  <2>2. jobs[j] \in JobRecord
    BY ElementOfSeq DEF StateInv, JobsTyped, Job
  <2>3. jobs[j].buf \in 1 .. Len(bufs)
    BY DEF StateInv, JobsTyped
  <2> QED
    BY <2>2, <2>3 DEF JobRecord
<1>3. \A t \in Threads :
        thr[t] \in [pc : {"idle", "setFence", "construct", "getCmdBuf", "locked", "readInfo",
                          "mark", "submit", "ioctl", "unmark", "getFence", "poll"},
                    call : Calls, buf : 0 .. Len(bufs), job : 0 .. Len(jobs)]
  <2>1. TAKE t \in Threads
  <2>2. thr[t] \in ThreadRecord /\ thr[t].buf <= Len(bufs) /\ thr[t].job <= Len(jobs)
    BY DEF StateInv, ThreadsTyped
  <2>3. Len(bufs) \in Nat /\ Len(jobs) \in Nat
    BY LenProperties DEF StateInv, BufsTyped, JobsTyped
  <2>4. thr[t].buf \in 0 .. Len(bufs) /\ thr[t].job \in 0 .. Len(jobs)
    BY <2>2, <2>3 DEF ThreadRecord
  <2> QED
    BY <2>2, <2>4 DEF ThreadRecord, Positions, RunPC, WaitPC
<1>4. /\ mtx \in Threads \cup {NoThread}
      /\ tune \in [Idx -> 0 .. MaxTunes] /\ entry \in [Idx -> 0 .. Len(bufs)]
      /\ cmdBuf \in 0 .. Len(bufs) /\ client \in Clients
      /\ {dirty, fenceFlag, executing, alive} \subseteq BOOLEAN
      /\ Len(bufs) <= MaxBufs /\ Len(jobs) <= MaxJobs
      /\ harm \subseteq {"buffer", "descriptor"}
  BY DEF StateInv, CommandTyped, BufsTyped, JobsTyped
<1> QED
  BY <1>1, <1>2, <1>3, <1>4 DEF TypeOK

\* Who has the mark determines how many jobs run, and whether it is taken back.
LEMMA MarkFollows ==
  ASSUME StateInv, RunsInv
  PROVE  MarkFitsRuns
<1> DEFINE running == {j \in Job : jobs[j].state = "running"}
<1>1. \A j \in Job : jobs[j].state = "running" =>
        j \in Unwaited \/ \E t \in Threads : Owns(t) /\ thr[t].job = j
  BY DEF RunsInv, RunsTold, Owns
<1>2. /\ \A j, k \in Unwaited : j = k
      /\ \A t, u \in Threads : Owns(t) /\ Owns(u) => u = t
      /\ \A t \in Threads : Owns(t) => Unwaited = {}
  BY DEF RunsInv, MarkOwned
<1>3. \A j, k \in running : j = k
  BY <1>1, <1>2
<1>4. Cardinality(running) <= 1
  <2>1. CASE running = {}
    BY <2>1, FS_EmptySet
  <2>2. CASE running # {}
    <3>1. PICK j : j \in running
      BY <2>2
    <3>2. running = {j}
      BY <1>3, <3>1
    <3>3. Cardinality(running) = 1
      <4> HIDE DEF running
      <4> QED
        BY <3>2, FS_Singleton, Zenon
    <3> QED
      BY <3>3
  <2> QED
    BY <2>1, <2>2
<1>5. In(Calls) = {} /\ Unwaited = {} => ~executing
  <2>1. In(Calls) = {} => \A t \in Threads : ~Owns(t)
    BY NoCalls DEF StateInv, Owns
  <2> QED
    BY <2>1 DEF RunsInv, MarkOwned
<1> QED
  BY <1>4, <1>5 DEF MarkFitsRuns

\* The command, its buffers and runs and the locals of its calls keep their
\* types; a buffer never describes more sub-commands than there are.
THEOREM TypesV10 == Spec => []TypeOK
<1>1. EngineInv => TypeOK
  BY TypesFollow DEF EngineInv, ListsInv
<1> QED
  BY <1>1, EngineInvariant, PTL

\* Between markExecute() and unMarkExecute(), in whatever threads they are
\* called, the driver has at most one run of the command, and no path through
\* runCmd(), runCmdAsync() and waitCmd() keeps the mark.
THEOREM OneRunAtATime == Spec => []MarkFitsRuns
<1>1. EngineInv => MarkFitsRuns
  BY MarkFollows DEF EngineInv
<1> QED
  BY <1>1, EngineInvariant, PTL

\* Whatever is called between constructCmd() and the ioctl, each in a section
\* of its own, the buffer submitted has all sub-commands and their last tuning.
THEOREM SubmittedIsCurrent == Spec => []HeaderCurrent
<1>1. EngineInv => HeaderCurrent
  BY DEF EngineInv, RunsInv
<1> QED
  BY <1>1, EngineInvariant, PTL

\* For callers that do not tune a command whose construction failed, the buffer
\* looked up is allocated when it is used, and waitCmd() polls and closes the
\* fence of the command's own run, once.
THEOREM BufferAndFenceSafe == Spec => [](client # "modifying" => BufferAndFenceKept)
<1>1. ASSUME EngineInv
      PROVE  client # "modifying" => BufferAndFenceKept
  <2>1. cmdBuf \in 0 .. Len(bufs) /\ Len(bufs) \in Nat
    BY <1>1, LenProperties DEF EngineInv, StateInv, CommandTyped, BufsTyped
  <2>2. alive => {b \in 1 .. Len(bufs) : bufs[b].live} = IF cmdBuf = 0 THEN {} ELSE {cmdBuf}
    BY <1>1, <2>1 DEF EngineInv, RunsInv, BufferLive
  <2>3. \A j \in Job : jobs[j].call = "runCmdAsync" /\ jobs[j].told => jobs[j].closed = 1
    BY <1>1 DEF EngineInv, RunsInv, RunsTold
  <2> QED
    BY <1>1, <2>2, <2>3 DEF EngineInv, BuffersInv, BufferAndFenceKept
<1> QED
  BY <1>1, EngineInvariant, PTL

=============================================================================
