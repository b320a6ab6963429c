--------------------------- MODULE CmdGraphProofs ---------------------------
(***************************************************************************)
(* Proofs, for every MaxSubCmds, of the safety properties of CmdGraph, and *)
(* of what build() of apusysCmd_v1 makes of its graph in CmdLayoutV1.      *)
(***************************************************************************)
EXTENDS CmdLayoutV1, SumsProofs, SequenceTheorems

(* A call that keeps the API's condition is a call.                         *)
LEMMA NextIsFreeNext == Next => FreeNext
  BY DEF Next, FreeNext

(* construct() leaves the buffer sized for the current sub-commands or gone,*)
(* and touches nothing when the command is empty.                           *)
LEMMA ConstructOutcome ==
  ASSUME NEW ok \in BOOLEAN, construct(ok)
  PROVE  \/ num # 0 /\ execNum' = num /\ dirty' = {}
         \/ num # 0 /\ execNum' = 0 /\ dirty' = dirty
         \/ num = 0 /\ execNum' = execNum /\ dirty' = dirty
  BY Zenon DEF construct

LEMMA PackOfIsIdx == ASSUME NEW i \in Idx PROVE PackOf(i) \subseteq Idx
  BY DEF PackOf

-----------------------------------------------------------------------------
(* Type correctness: indices stay in range, the matrix stays square and ids *)
(* stay bounded under createSubCmd, setDependencyEdge, setDependencyPack,   *)
(* build and submit.                                                        *)
THEOREM TypeCorrect == FreeSpec => []TypeOK
<1>1. Init => TypeOK
  BY MaxSubCmdsAssumption DEF Init, TypeOK, Idx
<1>2. TypeOK /\ [FreeNext]_vars => TypeOK'
  <2> SUFFICES ASSUME TypeOK, [FreeNext]_vars PROVE TypeOK'
    OBVIOUS
  <2> USE MaxSubCmdsAssumption DEF TypeOK
  <2>1. ASSUME createSubCmd PROVE TypeOK'
    <3>1. num' = num + 1 /\ num' \in 0 .. MaxSubCmds
      BY <2>1 DEF createSubCmd
    <3>2. Idx' = 0 .. num /\ Idx \subseteq Idx'
      BY <3>1 DEF Idx
    <3>3. packId' \in [Idx' -> 0 .. num']
      <4>1. packId' = [i \in 0 .. num |-> IF i = num THEN 0 ELSE packId[i]]
        BY <2>1 DEF createSubCmd
      <4>2. \A i \in 0 .. num : (IF i = num THEN 0 ELSE packId[i]) \in 0 .. num + 1
        BY DEF Idx
      <4> QED BY <4>1, <4>2, <3>1, <3>2
    <3>4. adj' \subseteq Idx' \X Idx'
      BY <2>1, <3>2 DEF createSubCmd
    <3> QED BY <2>1, <3>1, <3>3, <3>4 DEF createSubCmd
  <2>2. ASSUME NEW p \in Idx, NEW s \in Idx, setDependencyEdge(p, s)
        PROVE  TypeOK'
    <3>1. adj' \subseteq Idx \X Idx
      BY <2>2, PackOfIsIdx DEF setDependencyEdge, withEdge, Row
    <3> QED BY <2>2, <3>1 DEF setDependencyEdge, Idx
  <2>3. ASSUME NEW m \in Idx, NEW a \in Idx, setDependencyPack(m, a)
        PROVE  TypeOK'
    <3>1. adj' \subseteq Idx \X Idx
      BY <2>3 DEF setDependencyPack, withPack, Row
    <3>2. newPackId(m) \in 0 .. num
      BY DEF newPackId, Idx
    <3> QED BY <2>3, <3>1, <3>2 DEF setDependencyPack, Idx
  <2>4. ASSUME NEW ok \in BOOLEAN, build(ok) \/ submit(ok) PROVE TypeOK'
    <3>1. execNum' \in {execNum, num, 0} /\ dirty' \in {dirty, {}}
      <4>1. CASE construct(ok)
        BY <4>1, ConstructOutcome, Zenon
      <4>2. CASE UNCHANGED <<execNum, dirty>>
        BY <4>2, Zenon
      <4> QED BY <2>4, <4>1, <4>2, Zenon DEF build, submit
    <3>2. UNCHANGED graph
      BY <2>4 DEF build, submit, graph
    <3>3. submitted' \in [num : 0 .. MaxSubCmds, execNum : 0 .. MaxSubCmds]
      BY <2>4, <3>1 DEF build, submit
    <3> QED BY <3>1, <3>2, <3>3 DEF graph, Idx
  <2>5. CASE UNCHANGED vars
    BY <2>5 DEF vars, Idx
  <2> QED BY <2>1, <2>2, <2>3, <2>4, <2>5 DEF FreeNext, Common
<1>3. QED BY <1>1, <1>2, PTL DEF FreeSpec
-----------------------------------------------------------------------------
(* A fresh pack id is not in use: an id in use names a packed sub-command.  *)
LEMMA NewPackIdFresh ==
  ASSUME TypeOK, PackIdsSound, NEW m \in Idx, NEW i \in Idx
  PROVE  packId[i] = newPackId(m) <=>
           (packId[m] # 0 /\ packId[i] = packId[m])
<1>1. CASE packId[m] # 0
  BY <1>1 DEF newPackId
<1>2. CASE packId[m] = 0
  <2>1. newPackId(m) = m + 1 /\ m \in Nat
    BY <1>2 DEF newPackId, Idx
  <2>2. ASSUME packId[i] = m + 1 PROVE FALSE
    <3>1. packId[packId[i] - 1] = packId[i]
      BY <2>1, <2>2 DEF PackIdsSound
    <3>2. packId[i] - 1 = m
      BY <2>1, <2>2
    <3> QED BY <3>1, <3>2, <2>1, <2>2, <1>2
  <2> QED BY <1>2, <2>1, <2>2
<1> QED BY <1>1, <1>2

(* Pack ids keep naming a member of their pack, and no pack has a single    *)
(* member, for callers that pack in any order.                              *)
THEOREM PackIds == FreeSpec => []PackIdsSound
<1>1. Init => PackIdsSound
  BY DEF Init, PackIdsSound, Idx
<1>2. TypeOK /\ PackIdsSound /\ [FreeNext]_vars => PackIdsSound'
  <2> SUFFICES ASSUME TypeOK, PackIdsSound, [FreeNext]_vars PROVE PackIdsSound'
    OBVIOUS
  <2>1. ASSUME createSubCmd PROVE PackIdsSound'
    <3>1. /\ Idx' = Idx \cup {num}
          /\ num \notin Idx
          /\ \A i \in Idx : packId'[i] = packId[i]
          /\ packId'[num] = 0
      BY <2>1 DEF createSubCmd, TypeOK, Idx
    <3> QED BY <3>1 DEF PackIdsSound
  <2>2. ASSUME NEW m \in Idx, NEW a \in Idx, setDependencyPack(m, a)
        PROVE  PackIdsSound'
    <3> DEFINE id == newPackId(m)
    <3>1. /\ m # a
          /\ packId[a] = 0
          /\ Idx' = Idx
          /\ packId' = [packId EXCEPT ![m] = id, ![a] = id]
      BY <2>2 DEF setDependencyPack, Idx
    <3>2. /\ packId'[m] = id
          /\ packId'[a] = id
          /\ \A i \in Idx \ {m, a} : packId'[i] = packId[i]
      BY <3>1 DEF TypeOK
    <3>3. packId[m] # 0 => packId'[m] = packId[m]
      BY <3>2 DEF newPackId
    <3>4. id # 0 /\ id - 1 \in Idx /\ packId'[id - 1] = id
      <4>1. CASE packId[m] = 0
        BY <4>1, <3>2 DEF newPackId, Idx
      <4>2. CASE packId[m] # 0
        <5>1. id = packId[m] /\ id - 1 \in Idx /\ packId[id - 1] = id
          BY <4>2 DEF newPackId, PackIdsSound
        <5>2. id - 1 # a
          BY <4>2, <5>1, <3>1
        <5> QED BY <4>2, <5>1, <5>2, <3>2
      <4> QED BY <4>1, <4>2
    <3>5. ASSUME NEW i \in Idx, packId'[i] # 0
          PROVE  /\ packId'[i] - 1 \in Idx
                 /\ packId'[packId'[i] - 1] = packId'[i]
                 /\ \E j \in Idx \ {i} : packId'[j] = packId'[i]
      <4>1. CASE i \in {m, a}
        BY <4>1, <3>1, <3>2, <3>4
      <4>2. CASE i \notin {m, a}
        <5>1. /\ packId'[i] = packId[i]
              /\ packId[i] # 0
              /\ packId[i] - 1 \in Idx
              /\ packId[packId[i] - 1] = packId[i]
          BY <4>2, <3>2, <3>5 DEF PackIdsSound
        <5>2. PICK j \in Idx \ {i} : packId[j] = packId[i]
          BY <5>1 DEF PackIdsSound
        <5>3. \A k \in Idx : packId[k] = packId[i] => packId'[k] = packId[k]
          BY <5>1, <3>1, <3>2, <3>3
        <5> QED BY <5>1, <5>2, <5>3
      <4> QED BY <4>1, <4>2
    <3> QED BY <3>1, <3>5 DEF PackIdsSound
  <2>3. CASE UNCHANGED <<num, packId>>
    BY <2>3 DEF PackIdsSound, Idx
  <2>4. ASSUME NEW p \in Idx, NEW s \in Idx, setDependencyEdge(p, s)
        PROVE  UNCHANGED <<num, packId>>
    BY <2>4 DEF setDependencyEdge
  <2>5. ASSUME NEW ok \in BOOLEAN, build(ok) \/ submit(ok)
        PROVE  UNCHANGED <<num, packId>>
    BY <2>5 DEF build, submit, graph
  <2> QED BY <2>1, <2>2, <2>3, <2>4, <2>5 DEF FreeNext, Common, vars
<1>3. QED BY <1>1, <1>2, TypeCorrect, PTL DEF FreeSpec

-----------------------------------------------------------------------------
(* submit() can rely on its dirty test: unless a sub-command was created    *)
(* since, the exec-info buffer is gone or sized for all of them.            *)
ExecInv == /\ execNum <= num
           /\ "SUBCMD" \notin dirty => execNum \in {0, num}
           /\ ExecInfoFits

THEOREM ExecInfoMatches == FreeSpec => []ExecInfoFits
<1>1. Init => ExecInv
  BY DEF Init, ExecInv, ExecInfoFits
<1>2. TypeOK /\ ExecInv /\ [FreeNext]_vars => ExecInv'
  <2> SUFFICES ASSUME TypeOK, ExecInv, [FreeNext]_vars PROVE ExecInv'
    OBVIOUS
  <2> USE DEF ExecInv, ExecInfoFits, TypeOK
  <2>1. CASE createSubCmd
    BY <2>1 DEF createSubCmd
  <2>2. ASSUME NEW p \in Idx, NEW s \in Idx, setDependencyEdge(p, s)
        PROVE  ExecInv'
    BY <2>2 DEF setDependencyEdge
  <2>3. ASSUME NEW m \in Idx, NEW a \in Idx, setDependencyPack(m, a)
        PROVE  ExecInv'
    BY <2>3 DEF setDependencyPack
  <2>4. ASSUME NEW ok \in BOOLEAN, construct(ok), num' = num
        PROVE  /\ execNum' \in {0, num}
               /\ execNum' <= num'
    BY <2>4, ConstructOutcome
  <2>5. ASSUME NEW ok \in BOOLEAN, build(ok) PROVE ExecInv'
    BY <2>4, <2>5 DEF build
  <2>6. ASSUME NEW ok \in BOOLEAN, submit(ok) PROVE ExecInv'
    <3>1. /\ num' = num
          /\ submitted'.num = num
          /\ submitted'.execNum = execNum'
      BY <2>6 DEF submit, graph
    <3>2. execNum' \in {0, num}
      <4>1. CASE dirty \cap {"SUBCMD", "CMDBUF"} # {}
        BY <2>4, <2>6, <3>1, <4>1 DEF submit
      <4>2. CASE dirty \cap {"SUBCMD", "CMDBUF"} = {}
        BY <2>6, <4>2 DEF submit
      <4> QED BY <4>1, <4>2
    <3> QED BY <3>1, <3>2
  <2>7. CASE UNCHANGED vars
    BY <2>7 DEF vars
  <2> QED BY <2>1, <2>2, <2>3, <2>5, <2>6, <2>7 DEF FreeNext, Common
<1>3. ExecInv => ExecInfoFits
  BY DEF ExecInv
<1>4. QED BY <1>1, <1>2, <1>3, TypeCorrect, PTL DEF FreeSpec
-----------------------------------------------------------------------------
(* The three properties of the graph hold together: that an edge call       *)
(* copies whole rows is right only because packed rows were equal before.   *)
GraphInv == PackUniform /\ NoWaitInsidePack /\ NoMutualWait

LEMMA PackMembers ==
  ASSUME TypeOK, NEW i \in Idx, NEW j \in Idx
  PROVE  /\ i \in PackOf(i)
         /\ j \in PackOf(i) <=> (i = j \/ (packId[i] # 0 /\ packId[i] = packId[j]))
  BY DEF PackOf

LEMMA UniformRows ==
  ASSUME TypeOK, PackUniform, NEW i \in Idx, NEW j \in PackOf(i), NEW k \in Idx
  PROVE  /\ j \in Idx
         /\ <<i, k>> \in adj <=> <<j, k>> \in adj
         /\ <<k, i>> \in adj <=> <<k, j>> \in adj
  BY PackMembers, PackOfIsIdx DEF PackUniform

(* In a uniform graph an edge call adds exactly the edges from every member *)
(* of one pack to every member of the other.                                *)
LEMMA EdgeAddsProduct ==
  ASSUME TypeOK, PackUniform, NEW p \in Idx, NEW s \in Idx
  PROVE  withEdge(p, s) = adj \cup (PackOf(p) \X PackOf(s))
<1>1. ASSUME NEW i \in Idx, NEW k \in Idx
      PROVE  <<i, k>> \in withEdge(p, s)
               <=> <<i, k>> \in adj \cup (PackOf(p) \X PackOf(s))
  <2>1. CASE i \in PackOf(p)
    BY <2>1, UniformRows DEF withEdge, Row
  <2>2. CASE i \notin PackOf(p)
    BY <2>2 DEF withEdge
  <2> QED BY <2>1, <2>2
<1>2. withEdge(p, s) \subseteq Idx \X Idx
  BY PackOfIsIdx DEF withEdge, Row, TypeOK
<1>3. adj \cup (PackOf(p) \X PackOf(s)) \subseteq Idx \X Idx
  BY PackOfIsIdx DEF TypeOK
<1> QED BY <1>1, <1>2, <1>3

(* Packing a sub-command without dependencies makes it a copy of the main   *)
(* sub-command: c maps the appendix to the main one and the rest to itself. *)
LEMMA PackMakesCopy ==
  ASSUME TypeOK, NEW m \in Idx, NEW a \in Idx, m # a, NoDependency(a),
         NEW i \in Idx, NEW k \in Idx
  PROVE  <<i, k>> \in withPack(m, a) <=>
           <<IF i = a THEN m ELSE i, IF k = a THEN m ELSE k>> \in adj
<1> DEFINE hor == {e \in adj : e[1] # a} \cup ({a} \X Row(m))
<1>1. \A x, y \in Idx : <<x, y>> \in hor <=>
         <<IF x = a THEN m ELSE x, y>> \in adj
  BY DEF Row
<1>2. \A x \in Idx : <<x, a>> \notin hor
  BY <1>1 DEF NoDependency
<1>3. <<i, k>> \in withPack(m, a) <=>
        (<<i, k>> \in hor \/ (k = a /\ <<i, m>> \in hor))
  BY DEF withPack
<1> HIDE DEF hor
<1>4. CASE k = a
  BY <1>1, <1>2, <1>3, <1>4
<1>5. CASE k # a
  BY <1>1, <1>3, <1>5
<1> QED BY <1>4, <1>5
LEMMA EdgeKeepsGraph ==
  ASSUME TypeOK, GraphInv, NEW p \in Idx, NEW s \in Idx, setDependencyEdge(p, s)
  PROVE  GraphInv'
<1> DEFINE P == PackOf(p)
           S == PackOf(s)
<1>1. /\ Idx' = Idx
      /\ packId' = packId
      /\ adj' = adj \cup (P \X S)
  BY EdgeAddsProduct DEF setDependencyEdge, GraphInv, Idx
<1>2. \A i \in Idx : PackOf(i)' = PackOf(i)
  BY <1>1 DEF PackOf
<1>3. \A i \in P : i \notin S
  BY PackMembers, PackOfIsIdx DEF setDependencyEdge, edgeAllowed
<1>4. \A i \in P, j \in S : <<j, i>> \notin adj
  <2> SUFFICES ASSUME NEW i \in P, NEW j \in S PROVE <<j, i>> \notin adj
    OBVIOUS
  <2>1. <<s, p>> \notin adj
    BY DEF setDependencyEdge, edgeAllowed
  <2>2. <<j, p>> \notin adj
    BY <2>1, UniformRows DEF GraphInv
  <2> QED BY <2>2, UniformRows, PackOfIsIdx DEF GraphInv
<1>5. \A i, j \in Idx : packId[i] # 0 /\ packId[i] = packId[j] =>
         (i \in P <=> j \in P) /\ (i \in S <=> j \in S)
  BY PackMembers
<1>6. PackUniform'
  <2> SUFFICES ASSUME NEW i \in Idx, NEW j \in Idx, NEW k \in Idx,
                      packId[i] # 0, packId[i] = packId[j]
               PROVE  /\ <<i, k>> \in adj' <=> <<j, k>> \in adj'
                      /\ <<k, i>> \in adj' <=> <<k, j>> \in adj'
    BY <1>1 DEF PackUniform
  <2>1. /\ <<i, k>> \in adj <=> <<j, k>> \in adj
        /\ <<k, i>> \in adj <=> <<k, j>> \in adj
    BY DEF GraphInv, PackUniform
  <2> HIDE DEF P, S
  <2> QED BY <1>1, <1>5, <2>1
<1>7. NoWaitInsidePack'
  <2> SUFFICES ASSUME NEW i \in Idx, NEW j \in PackOf(i) PROVE <<i, j>> \notin adj'
    BY <1>1, <1>2 DEF NoWaitInsidePack
  <2>1. <<i, j>> \notin adj
    BY DEF GraphInv, NoWaitInsidePack
  <2>2. i \in P => j \in P
    BY PackMembers, PackOfIsIdx
  <2> HIDE DEF P, S
  <2> QED BY <1>1, <1>3, <2>1, <2>2
<1>8. NoMutualWait'
  <2> SUFFICES ASSUME NEW i \in Idx, NEW j \in Idx,
                      <<i, j>> \in adj', <<j, i>> \in adj'
               PROVE  FALSE
    BY <1>1 DEF NoMutualWait
  <2>1. ~(<<i, j>> \in adj /\ <<j, i>> \in adj)
    BY DEF GraphInv, NoMutualWait
  <2> HIDE DEF P, S
  <2> QED BY <1>1, <1>3, <1>4, <2>1
<1> QED BY <1>6, <1>7, <1>8 DEF GraphInv

LEMMA PackKeepsGraph ==
  ASSUME TypeOK, PackIdsSound, GraphInv,
         NEW m \in Idx, NEW a \in Idx, NoDependency(a), setDependencyPack(m, a)
  PROVE  GraphInv'
<1> DEFINE c(x) == IF x = a THEN m ELSE x
           id == newPackId(m)
<1>1. /\ m # a
      /\ packId[a] = 0
      /\ Idx' = Idx
      /\ adj' = withPack(m, a)
      /\ packId' = [packId EXCEPT ![m] = id, ![a] = id]
  BY DEF setDependencyPack, Idx
<1>2. \A x \in Idx : c(x) \in Idx
  OBVIOUS
<1>3. \A i, k \in Idx : <<i, k>> \in adj' <=> <<c(i), c(k)>> \in adj
  BY <1>1, PackMakesCopy
<1>4. /\ packId'[m] = id /\ packId'[a] = id /\ id # 0
      /\ \A x \in Idx \ {m, a} : packId'[x] = packId[x]
      /\ packId[m] # 0 => id = packId[m]
  BY <1>1 DEF TypeOK, newPackId, Idx
\* Sub-commands of one pack after the call stand for one pack before it.
<1>5. ASSUME NEW i \in Idx, NEW j \in Idx, packId'[i] # 0, packId'[i] = packId'[j]
      PROVE  c(j) \in PackOf(c(i))
  <2>1. \A x \in Idx \ {m, a} : packId[x] = id <=> packId[m] # 0 /\ packId[x] = packId[m]
    BY NewPackIdFresh
  <2>2. c(i) = c(j) \/ (packId[c(i)] # 0 /\ packId[c(i)] = packId[c(j)])
    BY <1>1, <1>4, <1>5, <2>1
  <2> HIDE DEF c
  <2> QED BY <1>2, <2>2, PackMembers
<1> HIDE DEF c, id
<1>6. \A i \in Idx : \A j \in PackOf(i)' : j \in Idx /\ c(j) \in PackOf(c(i))
  <2> SUFFICES ASSUME NEW i \in Idx, NEW j \in PackOf(i)'
               PROVE  j \in Idx /\ c(j) \in PackOf(c(i))
    OBVIOUS
  <2>1. CASE packId'[i] = 0
    BY <1>1, <1>2, <2>1, PackMembers DEF PackOf
  <2>2. CASE packId'[i] # 0
    BY <1>1, <1>5, <2>2 DEF PackOf
  <2> QED BY <2>1, <2>2
<1>7. PackUniform'
  <2> SUFFICES ASSUME NEW i \in Idx, NEW j \in Idx, NEW k \in Idx,
                      packId'[i] # 0, packId'[i] = packId'[j]
               PROVE  /\ <<i, k>> \in adj' <=> <<j, k>> \in adj'
                      /\ <<k, i>> \in adj' <=> <<k, j>> \in adj'
    BY <1>1 DEF PackUniform
  <2>1. /\ <<c(i), c(k)>> \in adj <=> <<c(j), c(k)>> \in adj
        /\ <<c(k), c(i)>> \in adj <=> <<c(k), c(j)>> \in adj
    BY <1>2, <1>5, UniformRows DEF GraphInv
  <2> QED BY <1>3, <2>1
<1>8. NoWaitInsidePack'
  BY <1>1, <1>2, <1>3, <1>6 DEF NoWaitInsidePack, GraphInv
<1>9. NoMutualWait'
  BY <1>1, <1>2, <1>3 DEF NoMutualWait, GraphInv
<1> QED BY <1>7, <1>8, <1>9 DEF GraphInv

(* For callers that keep the API's condition on packing: packed             *)
(* sub-commands stay interchangeable in the graph, and no refused edge      *)
(* comes to exist by another way.                                           *)
THEOREM GraphCorrect == Spec => [](PackUniform /\ NoWaitInsidePack /\ NoMutualWait)
<1>1. Init => GraphInv
  BY DEF Init, Idx, GraphInv, PackUniform, NoWaitInsidePack, NoMutualWait
<1>2. TypeOK /\ PackIdsSound /\ GraphInv /\ [Next]_vars => GraphInv'
  <2> SUFFICES ASSUME TypeOK, PackIdsSound, GraphInv, [Next]_vars PROVE GraphInv'
    OBVIOUS
  <2>1. ASSUME createSubCmd PROVE GraphInv'
    <3>1. /\ Idx' = Idx \cup {num}
          /\ num \notin Idx
          /\ \A i \in Idx : packId'[i] = packId[i]
          /\ packId'[num] = 0
          /\ adj' = adj
      BY <2>1 DEF createSubCmd, TypeOK, Idx
    <3>2. \A i \in Idx : <<i, num>> \notin adj /\ <<num, i>> \notin adj
      BY <3>1 DEF TypeOK
    <3>3. <<num, num>> \notin adj
      BY <3>1 DEF TypeOK
    <3>4. PackUniform'
      BY <3>1, <3>2, <3>3 DEF GraphInv, PackUniform
    <3>5. NoWaitInsidePack'
      BY <3>1, <3>2, <3>3 DEF GraphInv, NoWaitInsidePack, PackOf
    <3>6. NoMutualWait'
      BY <3>1, <3>2, <3>3 DEF GraphInv, NoMutualWait
    <3> QED BY <3>4, <3>5, <3>6 DEF GraphInv
  <2>2. CASE UNCHANGED graph
    BY <2>2 DEF graph, GraphInv, PackUniform, NoWaitInsidePack, NoMutualWait,
                PackOf, Idx
  <2>3. ASSUME NEW ok \in BOOLEAN, build(ok) \/ submit(ok) PROVE UNCHANGED graph
    BY <2>3 DEF build, submit, graph
  <2> QED BY <2>1, <2>2, <2>3, EdgeKeepsGraph, PackKeepsGraph
          DEF Next, Common, vars, graph
<1>3. QED BY <1>1, <1>2, NextIsFreeNext, TypeCorrect, PackIds, PTL
          DEF Spec, FreeSpec, GraphInv

(* In particular no two packs, and no two sub-commands, wait for each other *)
(* however the calls of setDependencyEdge and setDependencyPack were mixed. *)
THEOREM NobodyWaitsMutually == Spec => []NoMutualWait
<1>1. PackUniform /\ NoWaitInsidePack /\ NoMutualWait => NoMutualWait
  OBVIOUS
<1> QED BY <1>1, GraphCorrect, PTL
-----------------------------------------------------------------------------
(* The matrix, whose rows and columns are patched cell by cell, is at every *)
(* step the order of whole packs of PackedOrder.                            *)
Packs == {PackOf(i) : i \in Idx}
Waits == {<<PackOf(e[1]), PackOf(e[2])>> : e \in adj}

(* Packs are disjoint: a member names its pack as well as any other.        *)
LEMMA SamePack ==
  ASSUME TypeOK, NEW i \in Idx, NEW j \in PackOf(i)
  PROVE  PackOf(j) = PackOf(i)
<1>1. CASE packId[i] = 0
  BY <1>1 DEF PackOf
<1>2. CASE packId[i] # 0
  BY <1>2 DEF PackOf
<1> QED BY <1>1, <1>2

LEMMA WaitsEntry ==
  ASSUME TypeOK
  PROVE  /\ \A i, k \in Idx : <<i, k>> \in adj => <<PackOf(i), PackOf(k)>> \in Waits
         /\ \A w \in Waits : \E i, k \in Idx : <<i, k>> \in adj /\ w = <<PackOf(i), PackOf(k)>>
<1>1. \A e \in adj : e[1] \in Idx /\ e[2] \in Idx /\ e = <<e[1], e[2]>>
  BY DEF TypeOK
<1>2. ASSUME NEW i \in Idx, NEW k \in Idx, <<i, k>> \in adj
      PROVE  <<PackOf(i), PackOf(k)>> \in Waits
  BY <1>2 DEF Waits
<1>3. ASSUME NEW w \in Waits
      PROVE  \E i, k \in Idx : <<i, k>> \in adj /\ w = <<PackOf(i), PackOf(k)>>
  <2>1. PICK e \in adj : w = <<PackOf(e[1]), PackOf(e[2])>>
    BY DEF Waits
  <2> QED BY <1>1, <2>1
<1> QED BY <1>2, <1>3

(* createSubCmd() makes a pack of its own that waits for nothing.           *)
LEMMA CreateRefines ==
  ASSUME TypeOK, NEW n, n = num, createSubCmd
  PROVE  Order!Create(n) /\ n \in 0 .. MaxSubCmds - 1
<1>1. /\ Idx' = Idx \cup {n} /\ n \notin Idx /\ adj' = adj
      /\ \A i \in Idx : packId'[i] = packId[i]
      /\ packId'[n] = 0
  BY DEF createSubCmd, TypeOK, Idx
<1>2. \A i \in Idx : PackOf(i)' = PackOf(i)
  BY <1>1 DEF PackOf
<1>3. PackOf(n)' = {n}
  BY <1>1 DEF PackOf
<1>4. Packs' = Packs \cup {{n}}
  BY <1>1, <1>2, <1>3 DEF Packs
<1>5. \A e \in adj : e[1] \in Idx /\ e[2] \in Idx
  BY DEF TypeOK
<1>6. Waits' = Waits
  BY <1>1, <1>2, <1>5 DEF Waits
<1>7. \A p \in Packs : n \notin p
  BY <1>1, PackOfIsIdx DEF Packs
<1>8. n \in 0 .. MaxSubCmds - 1
  BY MaxSubCmdsAssumption DEF TypeOK, createSubCmd
<1> QED BY <1>4, <1>6, <1>7, <1>8 DEF Order!Create, Packs, Waits

(* setDependencyEdge() makes the whole pack of one sub-command wait for the *)
(* whole pack of the other, which does not wait for it.                     *)
LEMMA EdgeRefines ==
  ASSUME TypeOK, GraphInv, NEW p \in Idx, NEW s \in Idx, setDependencyEdge(p, s)
  PROVE  Order!Before(PackOf(p), PackOf(s))
<1> DEFINE P == PackOf(p)
           S == PackOf(s)
<1>1. /\ Idx' = Idx /\ packId' = packId
      /\ adj' = adj \cup (P \X S)
  BY EdgeAddsProduct DEF setDependencyEdge, GraphInv, Idx
<1>2. \A i \in Idx : PackOf(i)' = PackOf(i)
  BY <1>1 DEF PackOf
<1>3. p \in P /\ s \in S /\ P \subseteq Idx /\ S \subseteq Idx
  BY PackMembers, PackOfIsIdx
<1>4. \A i \in P : PackOf(i) = P
  BY SamePack
<1>5. \A i \in S : PackOf(i) = S
  BY SamePack
<1>6. P # S
  <2>1. p \notin S
    BY PackMembers DEF setDependencyEdge, edgeAllowed
  <2> QED BY <1>3, <2>1
<1>7. <<S, P>> \notin Waits
  <2> SUFFICES ASSUME <<S, P>> \in Waits PROVE FALSE
    OBVIOUS
  <2>1. PICK i \in Idx, k \in Idx : <<i, k>> \in adj /\ PackOf(i) = S /\ PackOf(k) = P
    BY WaitsEntry
  <2>2. s \in PackOf(i) /\ p \in PackOf(k)
    BY <1>3, <2>1
  <2>3. <<s, k>> \in adj
    BY <2>1, <2>2, UniformRows DEF GraphInv
  <2>4. <<s, p>> \in adj
    BY <2>2, <2>3, UniformRows DEF GraphInv
  <2> QED BY <2>4 DEF setDependencyEdge, edgeAllowed
<1>8. Packs' = Packs
  BY <1>1, <1>2 DEF Packs
<1>9. Waits' = Waits \cup {<<P, S>>}
  <2>1. \A e \in adj : e[1] \in Idx /\ e[2] \in Idx
    BY DEF TypeOK
  <2>2. Waits' = {<<PackOf(e[1]), PackOf(e[2])>> : e \in adj'}
    <3>1. \A e \in adj' : e[1] \in Idx /\ e[2] \in Idx
      BY <1>1, <1>3, <2>1
    <3> QED BY <1>2, <3>1 DEF Waits
  <2>3. \A e \in P \X S : <<PackOf(e[1]), PackOf(e[2])>> = <<P, S>>
    BY <1>4, <1>5
  <2>4. <<p, s>> \in P \X S
    BY <1>3
  <2> HIDE DEF P, S
  <2> QED BY <1>1, <2>2, <2>3, <2>4 DEF Waits
<1> QED BY <1>6, <1>7, <1>8, <1>9 DEF Order!Before, Packs, Waits

(* setDependencyPack() puts a sub-command without dependencies into a pack, *)
(* which keeps its place in the order.  c(x) is the sub-command x is a copy *)
(* of, as in PackMakesCopy.                                                 *)
LEMMA PackGrows ==
  ASSUME TypeOK, PackIdsSound, NEW m \in Idx, NEW a \in Idx, setDependencyPack(m, a),
         NEW i \in Idx
  PROVE  PackOf(i)' = IF i = a \/ i \in PackOf(m) THEN PackOf(m) \cup {a} ELSE PackOf(i)
<1> DEFINE id == newPackId(m)
<1>1. /\ m # a /\ packId[a] = 0 /\ Idx' = Idx
      /\ packId' = [packId EXCEPT ![m] = id, ![a] = id]
  BY DEF setDependencyPack, Idx
<1>2. /\ packId'[m] = id /\ packId'[a] = id /\ id # 0
      /\ \A x \in Idx \ {m, a} : packId'[x] = packId[x]
  BY <1>1 DEF TypeOK, newPackId, Idx
<1>3. \A x \in Idx : packId[x] = id <=> packId[m] # 0 /\ packId[x] = packId[m]
  BY NewPackIdFresh
<1>4. \A x \in Idx : x \in PackOf(m) <=> (x = m \/ packId[x] = id)
  BY <1>3, PackMembers
<1>5. \A x \in Idx : packId'[x] = id <=> (x = a \/ x \in PackOf(m))
  <2> HIDE DEF id
  <2> QED BY <1>1, <1>2, <1>3, <1>4
<1>6. PackOf(m) \subseteq Idx
  BY PackOfIsIdx
<1> HIDE DEF id
<1>7. CASE i = a \/ i \in PackOf(m)
  <2>1. PackOf(i)' = {j \in Idx : packId'[j] = id}
    BY <1>1, <1>2, <1>5, <1>7 DEF PackOf
  <2> QED BY <1>5, <1>6, <1>7, <2>1
<1>8. CASE ~(i = a \/ i \in PackOf(m))
  <2>1. i \notin {m, a} /\ packId'[i] = packId[i] /\ packId'[i] # id
    BY <1>2, <1>4, <1>5, <1>8
  <2>2. \A j \in Idx : packId'[j] = packId'[i] <=> (packId[j] = packId[i] /\ j \notin {m, a})
    BY <1>2, <2>1
  <2>3. packId[i] # 0 => \A j \in Idx : packId[j] = packId[i] => j \notin {m, a}
    BY <1>1, <1>4, <1>8, PackMembers
  <2>4. PackOf(i)' = PackOf(i)
    BY <1>1, <2>1, <2>2, <2>3 DEF PackOf
  <2> QED BY <1>8, <2>4
<1> QED BY <1>7, <1>8

LEMMA PackRefines ==
  ASSUME TypeOK, PackIdsSound, NEW m \in Idx, NEW a \in Idx, NoDependency(a),
         setDependencyPack(m, a)
  PROVE  Order!Join(PackOf(m), a)
<1> DEFINE c(x) == IF x = a THEN m ELSE x
           P == PackOf(m)
           joined(q) == IF q = P THEN P \cup {a} ELSE q
<1>1. m # a /\ packId[a] = 0 /\ Idx' = Idx /\ adj' = withPack(m, a)
  BY DEF setDependencyPack, Idx
<1>2. PackOf(a) = {a}
  BY <1>1 DEF PackOf
<1>3. \A x \in Idx : x \in PackOf(x)
  BY PackMembers
<1>4. P # {a}
  BY <1>1, <1>3
\* The pack of a copy is the grown pack of what it copies.
<1>5. ASSUME NEW i \in Idx
      PROVE  /\ c(i) \in Idx /\ c(i) # a /\ PackOf(c(i)) # {a}
             /\ PackOf(i)' = joined(PackOf(c(i)))
  <2>1. c(i) \in Idx /\ c(i) # a
    BY <1>1
  <2>2. PackOf(c(i)) # {a}
    <3> HIDE DEF c
    <3> QED BY <1>3, <2>1
  <2>3. PackOf(i)' = IF i = a \/ i \in P THEN P \cup {a} ELSE PackOf(i)
    BY PackGrows
  <2>4. CASE i = a
    <3>1. c(i) = m
      BY <2>4
    <3>2. PackOf(c(i)) = P
      BY <3>1
    <3> HIDE DEF c, P
    <3> QED BY <2>1, <2>2, <2>3, <2>4, <3>2
  <2>5. CASE i # a
    <3>1. c(i) = i
      BY <2>5
    <3>2. i \in P <=> PackOf(i) = P
      BY <1>3, SamePack
    <3> HIDE DEF c, P
    <3> QED BY <2>1, <2>2, <2>3, <2>5, <3>1, <3>2
  <2> QED BY <2>1, <2>2, <2>4, <2>5
<1>6. \A i, k \in Idx : <<i, k>> \in adj' <=> <<c(i), c(k)>> \in adj
  BY <1>1, PackMakesCopy
<1>7. \A i, k \in Idx : <<i, k>> \in adj => i # a /\ k # a
  BY DEF NoDependency
<1>8. Packs' = {joined(q) : q \in Packs \ {{a}}}
  <2> HIDE DEF joined, P
  <2>1. Packs' = {PackOf(i)' : i \in Idx}
    BY <1>1 DEF Packs
  <2>2. ASSUME NEW i \in Idx
        PROVE  PackOf(i)' \in {joined(q) : q \in Packs \ {{a}}}
    BY <1>5 DEF Packs
  <2>3. ASSUME NEW q \in Packs \ {{a}}
        PROVE  joined(q) \in {PackOf(i)' : i \in Idx}
    <3>1. PICK i \in Idx : q = PackOf(i)
      BY DEF Packs
    <3>2. i # a
      BY <1>2, <3>1
    <3>3. c(i) = i
      BY <3>2
    <3> QED BY <1>5, <3>1, <3>3
  <2> QED BY <2>1, <2>2, <2>3
<1>9. Waits' = {<<joined(w[1]), joined(w[2])>> : w \in Waits}
  <2> HIDE DEF joined, P
  <2>1. /\ \A i, k \in Idx : <<i, k>> \in adj' => <<PackOf(i)', PackOf(k)'>> \in Waits'
        /\ \A w \in Waits' : \E i, k \in Idx :
             <<i, k>> \in adj' /\ w = <<PackOf(i)', PackOf(k)'>>
    <3>1. adj' \subseteq Idx \X Idx
      BY <1>1 DEF TypeOK, withPack, Row
    <3>2. Waits' = {<<PackOf(e[1])', PackOf(e[2])'>> : e \in adj'}
      BY DEF Waits
    <3>3. \A e \in adj' : e[1] \in Idx /\ e[2] \in Idx /\ e = <<e[1], e[2]>>
      BY <3>1
    <3> QED BY <3>2, <3>3
  <2>2. ASSUME NEW w \in Waits'
        PROVE  w \in {<<joined(v[1]), joined(v[2])>> : v \in Waits}
    <3>1. PICK i \in Idx, k \in Idx : <<i, k>> \in adj' /\ w = <<PackOf(i)', PackOf(k)'>>
      BY <2>1
    <3>2. c(i) \in Idx /\ c(k) \in Idx
      BY <1>5
    <3>3. <<c(i), c(k)>> \in adj
      BY <1>6, <3>1
    <3> HIDE DEF c
    <3>4. <<PackOf(c(i)), PackOf(c(k))>> \in Waits
      BY <3>2, <3>3, WaitsEntry
    <3>5. w = <<joined(PackOf(c(i))), joined(PackOf(c(k)))>>
      BY <1>5, <3>1
    <3> QED BY <3>4, <3>5
  <2>3. ASSUME NEW v \in Waits
        PROVE  <<joined(v[1]), joined(v[2])>> \in Waits'
    <3>1. PICK i \in Idx, k \in Idx : <<i, k>> \in adj /\ v = <<PackOf(i), PackOf(k)>>
      BY WaitsEntry
    <3>2. c(i) = i /\ c(k) = k
      BY <1>7, <3>1
    <3>3. <<i, k>> \in adj'
      BY <1>6, <3>1, <3>2
    <3>4. PackOf(i)' = joined(v[1]) /\ PackOf(k)' = joined(v[2])
      BY <1>5, <3>1, <3>2
    <3> QED BY <2>1, <3>3, <3>4
  <2> QED BY <2>2, <2>3
<1>10. {a} \in Packs /\ P \in Packs
  BY <1>2 DEF Packs
<1>11. ASSUME NEW q \in Packs
       PROVE  <<q, {a}>> \notin Waits /\ <<{a}, q>> \notin Waits
  <2> SUFFICES ASSUME NEW i \in Idx, NEW k \in Idx, <<i, k>> \in adj
               PROVE  PackOf(i) # {a} /\ PackOf(k) # {a}
    BY WaitsEntry
  <2> QED BY <1>3, <1>7
<1> QED BY <1>4, <1>8, <1>9, <1>10, <1>11 DEF Order!Join, Order!Touches, Packs, Waits

(* The calls of a command implement, step by step, the packs and their      *)
(* order that the API describes: a pack call leaves the other packs alone   *)
(* and moves no edge, an edge call adds one edge between whole packs, and   *)
(* build() and submit() change nothing of it.                               *)
THEOREM ImplementsPacks == Spec => ImplementsPackedOrder
<1>1. Init => Order!Init
  BY DEF Init, Idx, Order!Init
<1>2. TypeOK /\ PackIdsSound /\ GraphInv /\ [Next]_vars => [Order!Next]_(Order!vars)
  <2> SUFFICES ASSUME TypeOK, PackIdsSound, GraphInv, [Next]_vars
               PROVE  [Order!Next]_(Order!vars)
    OBVIOUS
  <2>1. ASSUME createSubCmd PROVE Order!Next
    <3>1. PICK n : n = num
      OBVIOUS
    <3>2. Order!Create(n) /\ n \in 0 .. MaxSubCmds - 1
      BY <2>1, <3>1, CreateRefines
    <3> QED BY <3>2 DEF Order!Next
  <2>2. ASSUME NEW p \in Idx, NEW s \in Idx, setDependencyEdge(p, s) PROVE Order!Next
    <3>1. Order!Before(PackOf(p), PackOf(s))
      BY <2>2, EdgeRefines
    <3> QED BY <3>1 DEF Order!Next
  <2>3. ASSUME NEW m \in Idx, NEW a \in Idx, NoDependency(a), setDependencyPack(m, a)
        PROVE  Order!Next
    <3>1. Order!Join(PackOf(m), a)
      BY <2>3, PackRefines
    <3>2. a \in 0 .. MaxSubCmds - 1
      BY MaxSubCmdsAssumption DEF TypeOK, Idx
    <3> QED BY <3>1, <3>2 DEF Order!Next
  <2>4. ASSUME UNCHANGED graph PROVE UNCHANGED Order!vars
    BY <2>4 DEF graph, Order!vars, PackOf, Idx
  <2>5. ASSUME NEW ok \in BOOLEAN, build(ok) \/ submit(ok) PROVE UNCHANGED graph
    BY <2>5 DEF build, submit, graph
  <2>6. UNCHANGED vars => UNCHANGED graph
    BY DEF vars, graph
  <2> QED BY <2>1, <2>2, <2>3, <2>4, <2>5, <2>6 DEF Next, Common
<1>3. QED BY <1>1, <1>2, NextIsFreeNext, TypeCorrect, PackIds, GraphCorrect, PTL
          DEF Spec, FreeSpec, GraphInv, ImplementsPackedOrder, Order!Spec
-----------------------------------------------------------------------------
\* How many members of S are smaller than i.
below(S, i) == SumTo([k \in Idx |-> IF k \in S THEN 1 ELSE 0], i)

LEMMA Below ==
  ASSUME num \in Nat, NEW S
  PROVE  /\ below(S, 0) = 0
         /\ \A i \in 0 .. num : below(S, i) \in Nat
         /\ \A i \in Idx : below(S, i + 1) = IF i \in S THEN below(S, i) + 1 ELSE below(S, i)
         /\ \A i, j \in 0 .. num : i <= j => below(S, i) <= below(S, j)
<1>1. PICK f : f = [k \in Idx |-> IF k \in S THEN 1 ELSE 0]
  OBVIOUS
<1>2. \A k \in 0 .. num - 1 : f[k] \in Nat /\ f[k] = IF k \in S THEN 1 ELSE 0
  BY <1>1 DEF Idx
<1>3. \A i : below(S, i) = SumTo(f, i)
  BY <1>1 DEF below
<1>4. SumTo(f, 0) = 0
  BY SumZero
<1>5. \A i \in 0 .. num : SumTo(f, i) \in Nat
  <2> TAKE i \in 0 .. num
  <2>1. \A k \in 0 .. i - 1 : f[k] \in Nat
    BY <1>2
  <2> QED
    BY <2>1, SumNat
<1>6. \A i \in Idx : SumTo(f, i + 1) = SumTo(f, i) + f[i]
  <2> TAKE i \in Idx
  <2>1. i \in Nat /\ \A k \in 0 .. i : f[k] \in Nat
    BY <1>2 DEF Idx
  <2> QED
    BY <2>1, SumNext
<1>7. \A i, j \in 0 .. num : i <= j => SumTo(f, i) <= SumTo(f, j)
  <2> TAKE i, j \in 0 .. num
  <2> HAVE i <= j
  <2>1. \A k \in 0 .. j - 1 : f[k] \in Nat
    BY <1>2
  <2>2. i \in 0 .. j /\ j \in Nat
    OBVIOUS
  <2> QED
    BY <2>1, <2>2, SumGrows
<1>8. \A i \in Idx : f[i] = (IF i \in S THEN 1 ELSE 0) /\ i \in 0 .. num
  BY <1>2 DEF Idx
<1> QED
  BY <1>3, <1>4, <1>5, <1>6, <1>7, <1>8

(* list holds the members of S below k, each behind the smaller ones.       *)
Holds(list, S, k) ==
  /\ list \in Seq(Nat) /\ Len(list) = below(S, k)
  /\ \A x \in 1 .. Len(list) : list[x] \in 0 .. k - 1 /\ list[x] \in S /\ below(S, list[x]) = x - 1
  /\ \A i \in 0 .. k - 1 : i \in S => below(S, i) + 1 \in 1 .. Len(list) /\ list[below(S, i) + 1] = i

LEMMA InOrderHolds ==
  ASSUME num \in Nat, NEW S
  PROVE  Holds(InOrder(S), S, num)
<1> DEFINE Rec(f) == f = [k \in 0 .. num |-> IF k = 0 THEN <<>>
                                             ELSE IF k - 1 \in S THEN Append(f[k - 1], k - 1)
                                             ELSE f[k - 1]]
           list == CHOOSE f : Rec(f)
<1>1. \E f : Rec(f)
  <2>1. PICK V : V = Seq(Nat)
    OBVIOUS
  <2>2. PICK step : step = [p \in (1 .. num) \X V |->
                              IF p[1] - 1 \in S THEN Append(p[2], p[1] - 1) ELSE p[2]]
    OBVIOUS
  <2>3. step \in [(1 .. num) \X V -> V]
    <3>1. \A k \in 1 .. num, s \in V : Append(s, k - 1) \in V
      BY <2>1
    <3> QED
      BY <2>2, <3>1
  <2>4. <<>> \in V
    BY <2>1
  <2>5. PICK f : Solves(f, num, V, <<>>, step)
    BY <2>3, <2>4, RecursionExists
  <2>6. f \in [0 .. num -> V] /\ f[0] = <<>>
    BY <2>5 DEF Solves
  <2>7. ASSUME NEW k \in 1 .. num
        PROVE  f[k] = IF k - 1 \in S THEN Append(f[k - 1], k - 1) ELSE f[k - 1]
    <3>1. <<k, f[k - 1]>> \in (1 .. num) \X V
      BY <2>6
    <3>2. f[k] = step[<<k, f[k - 1]>>]
      BY <2>5 DEF Solves
    <3> QED
      BY <2>2, <3>1, <3>2
  <2>8. \A k \in 0 .. num : f[k] = IF k = 0 THEN <<>>
                                   ELSE IF k - 1 \in S THEN Append(f[k - 1], k - 1)
                                   ELSE f[k - 1]
    <3> TAKE k \in 0 .. num
    <3>1. k = 0 \/ (k \in 1 .. num /\ k # 0)
      OBVIOUS
    <3> QED
      BY <2>6, <2>7, <3>1
  <2>9. Rec(f)
    BY <2>6, <2>8
  <2> QED
    BY <2>9
<1>2. Rec(list)
  BY <1>1
<1>3. InOrder(S) = list[num]
  BY DEF InOrder
<1> HIDE DEF list
<1>4. list[0] = <<>>
  BY <1>2
<1>5. \A k \in 0 .. num - 1 : list[k + 1] = IF k \in S THEN Append(list[k], k) ELSE list[k]
  <2> TAKE k \in 0 .. num - 1
  <2>1. k + 1 \in 0 .. num /\ (k + 1) - 1 = k /\ k + 1 # 0
    OBVIOUS
  <2> QED
    BY <1>2, <2>1
<1> DEFINE R == {k \in 0 .. num : Holds(list[k], S, k)}
<1>6. 0 \in R
  <2>1. list[0] \in Seq(Nat) /\ Len(list[0]) = 0 /\ below(S, 0) = 0
    BY <1>4, Below
  <2> QED
    BY <2>1 DEF Holds
<1>7. ASSUME NEW k \in 0 .. num - 1, k \in R
      PROVE  k + 1 \in R
  <2>1. PICK l \in Seq(Nat), n \in Nat : l = list[k] /\ n = below(S, k) /\ Len(l) = n
    BY <1>7, Below DEF Holds
  <2>2. /\ \A x \in 1 .. n : l[x] \in 0 .. k - 1 /\ l[x] \in S /\ below(S, l[x]) = x - 1
        /\ \A i \in 0 .. k - 1 : i \in S => below(S, i) + 1 \in 1 .. n /\ l[below(S, i) + 1] = i
    BY <1>7, <2>1 DEF Holds
  <2>3. \A i \in 0 .. k : below(S, i) \in Nat
    <3>1. \A i \in 0 .. num : below(S, i) \in Nat
      BY Below
    <3> QED
      BY <3>1
  <2>4. CASE k \notin S
    <3>1. below(S, k + 1) = n /\ list[k + 1] = l
      BY <1>5, <2>1, <2>4, Below DEF Idx
    <3>2. 0 .. (k + 1) - 1 = 0 .. k /\ \A i \in 0 .. k : i \in S => i \in 0 .. k - 1
      BY <2>4
    <3>3. 0 .. k - 1 \subseteq 0 .. k
      OBVIOUS
    <3>4. /\ \A x \in 1 .. n : l[x] \in 0 .. (k + 1) - 1
          /\ \A i \in 0 .. (k + 1) - 1 : i \in S => i \in 0 .. k - 1
      BY <2>2, <3>2, <3>3
    <3>5. \A i \in 0 .. (k + 1) - 1 :
            i \in S => below(S, i) + 1 \in 1 .. n /\ l[below(S, i) + 1] = i
      BY <2>2, <3>4
    <3>6. Len(l) = below(S, k + 1)
      BY <2>1, <3>1
    <3>7. Holds(l, S, k + 1)
      BY <2>1, <2>2, <3>4, <3>5, <3>6 DEF Holds
    <3> QED
      BY <3>1, <3>7
  <2>5. CASE k \in S
    <3>1. below(S, k + 1) = n + 1 /\ list[k + 1] = Append(l, k)
      BY <1>5, <2>1, <2>5, Below DEF Idx
    <3>2. PICK m : m = Append(l, k)
      OBVIOUS
    <3>3. m \in Seq(Nat) /\ Len(m) = n + 1 /\ m[n + 1] = k /\ \A x \in 1 .. n : m[x] = l[x]
      BY <2>1, <3>2
    <3>4. 0 .. (k + 1) - 1 = 0 .. k
      OBVIOUS
    <3>5. ASSUME NEW x \in 1 .. n + 1
          PROVE  m[x] \in 0 .. k /\ m[x] \in S /\ below(S, m[x]) = x - 1
      <4>1. CASE x = n + 1
        BY <2>1, <2>5, <3>3, <4>1
      <4>2. CASE x # n + 1
        <5>1. x \in 1 .. n
          BY <4>2
        <5>2. l[x] \in 0 .. k - 1 /\ l[x] \in S /\ below(S, l[x]) = x - 1 /\ m[x] = l[x]
          BY <2>2, <3>3, <5>1
        <5> QED
          BY <5>2
      <4> QED
        BY <4>1, <4>2
    <3>6. ASSUME NEW i \in 0 .. k, i \in S
          PROVE  below(S, i) + 1 \in 1 .. n + 1 /\ m[below(S, i) + 1] = i
      <4>1. CASE i = k
        BY <2>1, <3>3, <4>1
      <4>2. CASE i # k
        <5>1. i \in 0 .. k - 1
          BY <4>2
        <5>2. below(S, i) + 1 \in 1 .. n /\ l[below(S, i) + 1] = i
          BY <2>2, <3>6, <5>1
        <5> QED
          BY <3>3, <5>2
      <4> QED
        BY <4>1, <4>2
    <3>7. /\ \A x \in 1 .. n + 1 : m[x] \in 0 .. (k + 1) - 1 /\ m[x] \in S /\ below(S, m[x]) = x - 1
          /\ \A i \in 0 .. (k + 1) - 1 : i \in S => /\ below(S, i) + 1 \in 1 .. n + 1
                                                    /\ m[below(S, i) + 1] = i
      BY <3>4, <3>5, <3>6
    <3>8. Len(m) = below(S, k + 1) /\ list[k + 1] = m
      BY <3>1, <3>2, <3>3
    <3>9. Holds(m, S, k + 1)
      BY <3>3, <3>7, <3>8 DEF Holds
    <3> QED
      BY <3>8, <3>9
  <2> QED
    BY <2>4, <2>5
<1> HIDE DEF R
<1>8. 0 .. num \subseteq R
  BY <1>6, <1>7, BoundedInduction
<1> USE DEF R
<1>9. num \in R
  BY <1>8
<1> QED
  BY <1>3, <1>9
-----------------------------------------------------------------------------
\* The sub-commands that join a group, and the heads of the groups.
Joining(devOf) == {i \in Idx : joinsGroup(devOf, i)}
Heads(devOf) == {i \in Idx : ~joinsGroup(devOf, i)}

LEMMA BelowBoth ==
  ASSUME num \in Nat, NEW devOf, NEW i \in 0 .. num
  PROVE  below(Heads(devOf), i) + below(Joining(devOf), i) = i
<1> DEFINE S == {k \in 0 .. num : below(Heads(devOf), k) + below(Joining(devOf), k) = k}
<1>1. 0 \in S
  BY Below
<1>2. ASSUME NEW k \in 0 .. num - 1, k \in S
      PROVE  k + 1 \in S
  <2>1. PICK h, j : h = below(Heads(devOf), k) /\ j = below(Joining(devOf), k)
    OBVIOUS
  <2>2. h \in Nat /\ j \in Nat /\ h + j = k /\ k \in Idx
    BY <1>2, <2>1, Below DEF Idx
  <2>3. /\ below(Heads(devOf), k + 1) = IF k \in Heads(devOf) THEN h + 1 ELSE h
        /\ below(Joining(devOf), k + 1) = IF k \in Joining(devOf) THEN j + 1 ELSE j
    BY <2>1, <2>2, Below
  <2>4. k \in Heads(devOf) <=> k \notin Joining(devOf)
    BY <2>2 DEF Heads, Joining
  <2> QED
    BY <2>2, <2>3, <2>4
<1> HIDE DEF S
<1>3. 0 .. num \subseteq S
  BY <1>1, <1>2, BoundedInduction
<1> USE DEF S
<1> QED
  BY <1>3

\* When those that join and are not smaller than b are out, a is still there,
\* and this is its index.
stays(devOf, b, a) == a < b \/ a \in Heads(devOf)

shift(devOf, b, a) ==
  IF a <= b THEN a ELSE below(Heads(devOf), a) + below(Joining(devOf), b)

LEMMA ShiftOn ==
  ASSUME num \in Nat, NEW devOf, NEW b \in 1 .. num, NEW a \in Idx
  PROVE  /\ b - 1 \notin Joining(devOf) =>
              /\ stays(devOf, b - 1, a) <=> stays(devOf, b, a)
              /\ shift(devOf, b - 1, a) = shift(devOf, b, a)
         /\ b - 1 \in Joining(devOf) =>
              /\ stays(devOf, b - 1, a) <=> stays(devOf, b, a) /\ shift(devOf, b, a) # b - 1
              /\ stays(devOf, b - 1, a) =>
                   shift(devOf, b - 1, a) = IF shift(devOf, b, a) > b - 1
                                            THEN shift(devOf, b, a) - 1 ELSE shift(devOf, b, a)
<1>1. PICK i \in Idx : i = b - 1 /\ i + 1 = b
  BY DEF Idx
<1>2. PICK ha, hb, hi, jb, ji :
        /\ ha = below(Heads(devOf), a) /\ hb = below(Heads(devOf), b)
        /\ hi = below(Heads(devOf), i)
        /\ jb = below(Joining(devOf), b) /\ ji = below(Joining(devOf), i)
  OBVIOUS
<1>3. /\ a \in 0 .. num /\ b \in 0 .. num /\ i \in 0 .. num /\ a \in Nat
  BY <1>1 DEF Idx
<1>4. ha \in Nat /\ hb \in Nat /\ hi \in Nat /\ jb \in Nat /\ ji \in Nat
  BY <1>2, <1>3, Below
<1>5. hb + jb = b /\ hi + ji = i
  BY <1>2, <1>3, BelowBoth
<1>6. /\ hb = IF i \in Heads(devOf) THEN hi + 1 ELSE hi
      /\ jb = IF i \in Joining(devOf) THEN ji + 1 ELSE ji
  <2>1. below(Heads(devOf), i + 1) =
          IF i \in Heads(devOf) THEN below(Heads(devOf), i) + 1 ELSE below(Heads(devOf), i)
    BY Below
  <2>2. below(Joining(devOf), i + 1) =
          IF i \in Joining(devOf) THEN below(Joining(devOf), i) + 1 ELSE below(Joining(devOf), i)
    BY Below
  <2> QED
    BY <1>1, <1>2, <2>1, <2>2
<1>7. b <= a => hb <= ha
  BY <1>2, <1>3, Below
<1>8. \A x \in Idx : x \in Heads(devOf) <=> x \notin Joining(devOf)
  BY DEF Heads, Joining
<1>9. /\ shift(devOf, b, a) = IF a <= b THEN a ELSE ha + jb
      /\ shift(devOf, i, a) = IF a <= i THEN a ELSE ha + ji
  BY <1>2 DEF shift
<1>10. a = b => ha = hb
  BY <1>2
<1>11. CASE i \notin Joining(devOf)
  <2>1. jb = ji /\ hb = hi + 1 /\ i \in Heads(devOf)
    BY <1>1, <1>6, <1>8, <1>11
  <2>2. stays(devOf, i, a) <=> stays(devOf, b, a)
    BY <1>1, <1>3, <2>1 DEF stays
  <2>3. shift(devOf, i, a) = shift(devOf, b, a)
    <3>1. CASE a <= i
      BY <1>1, <1>3, <1>9, <3>1
    <3>2. CASE a = b
      BY <1>1, <1>4, <1>5, <1>9, <1>10, <2>1, <3>2
    <3>3. CASE a > b
      BY <1>1, <1>3, <1>9, <2>1, <3>3
    <3> QED
      BY <1>1, <1>3, <3>1, <3>2, <3>3
  <2> QED
    BY <1>1, <1>11, <2>2, <2>3
<1>12. CASE i \in Joining(devOf)
  <2>1. jb = ji + 1 /\ hb = hi /\ i \notin Heads(devOf)
    BY <1>1, <1>6, <1>8, <1>12
  <2>2. CASE a < i
    BY <1>1, <1>3, <1>9, <1>12, <2>2 DEF stays
  <2>3. CASE a = i
    BY <1>1, <1>3, <1>9, <1>12, <2>1, <2>3 DEF stays
  <2>4. CASE a = b
    <3>1. shift(devOf, b, a) = b /\ shift(devOf, i, a) = i
      BY <1>1, <1>3, <1>4, <1>5, <1>9, <1>10, <2>1, <2>4
    <3> QED
      BY <1>1, <1>3, <1>12, <2>4, <3>1 DEF stays
  <2>5. CASE a > b
    <3>1. shift(devOf, b, a) = ha + jb /\ shift(devOf, i, a) = ha + ji /\ ha + jb >= b
      BY <1>1, <1>3, <1>4, <1>5, <1>7, <1>9, <2>5
    <3> QED
      BY <1>1, <1>3, <1>4, <1>12, <2>1, <2>5, <3>1 DEF stays
  <2> QED
    BY <1>1, <1>3, <2>2, <2>3, <2>4, <2>5
<1> QED
  BY <1>1, <1>11, <1>12

\* The matrix when those from b on are out.
Shifted(devOf, b) ==
  {<<shift(devOf, b, e[1]), shift(devOf, b, e[2])>> :
     e \in {x \in adj : stays(devOf, b, x[1]) /\ stays(devOf, b, x[2])}}

LEMMA ShiftedOn ==
  ASSUME num \in Nat, adj \subseteq Idx \X Idx, NEW devOf, NEW b \in 1 .. num
  PROVE  Shifted(devOf, b - 1) = IF joinsGroup(devOf, b - 1)
                                 THEN withoutIndex(b - 1, Shifted(devOf, b))
                                 ELSE Shifted(devOf, b)
<1>1. \A e \in adj : e[1] \in Idx /\ e[2] \in Idx /\ e = <<e[1], e[2]>>
  OBVIOUS
<1>2. b - 1 \in Joining(devOf) <=> joinsGroup(devOf, b - 1)
  BY DEF Joining, Idx
<1>3. CASE b - 1 \notin Joining(devOf)
  <2>1. \A a \in Idx : /\ stays(devOf, b - 1, a) <=> stays(devOf, b, a)
                       /\ shift(devOf, b - 1, a) = shift(devOf, b, a)
    BY <1>3, ShiftOn
  <2>2. {x \in adj : stays(devOf, b - 1, x[1]) /\ stays(devOf, b - 1, x[2])}
          = {x \in adj : stays(devOf, b, x[1]) /\ stays(devOf, b, x[2])}
    BY <1>1, <2>1
  <2>3. Shifted(devOf, b - 1) = Shifted(devOf, b)
    BY <1>1, <2>1, <2>2 DEF Shifted
  <2> QED
    BY <1>2, <1>3, <2>3
<1>4. CASE b - 1 \in Joining(devOf)
  <2>1. PICK i : i = b - 1
    OBVIOUS
  <2> DEFINE up(a) == IF a > i THEN a - 1 ELSE a
  <2>2. \A a \in Idx :
          /\ stays(devOf, i, a) <=> stays(devOf, b, a) /\ shift(devOf, b, a) # i
          /\ stays(devOf, i, a) => shift(devOf, i, a) = up(shift(devOf, b, a))
    BY <1>4, <2>1, ShiftOn
  <2>3. withoutIndex(i, Shifted(devOf, b)) =
          {<<up(x[1]), up(x[2])>> : x \in {y \in Shifted(devOf, b) : y[1] # i /\ y[2] # i}}
    BY DEF withoutIndex
  <2> HIDE DEF up
  <2>4. ASSUME NEW z \in Shifted(devOf, i)
        PROVE  z \in withoutIndex(i, Shifted(devOf, b))
    <3>1. PICK e \in adj : /\ stays(devOf, i, e[1]) /\ stays(devOf, i, e[2])
                           /\ z = <<shift(devOf, i, e[1]), shift(devOf, i, e[2])>>
      BY <2>4 DEF Shifted
    <3>2. PICK y : y = <<shift(devOf, b, e[1]), shift(devOf, b, e[2])>>
      OBVIOUS
    <3>3. /\ stays(devOf, b, e[1]) /\ stays(devOf, b, e[2])
          /\ y[1] # i /\ y[2] # i /\ z = <<up(y[1]), up(y[2])>>
      BY <1>1, <2>2, <3>1, <3>2
    <3>4. y \in Shifted(devOf, b)
      BY <3>2, <3>3 DEF Shifted
    <3> QED
      BY <2>3, <3>3, <3>4
  <2>5. ASSUME NEW z \in withoutIndex(i, Shifted(devOf, b))
        PROVE  z \in Shifted(devOf, i)
    <3>1. PICK y \in Shifted(devOf, b) : y[1] # i /\ y[2] # i /\ z = <<up(y[1]), up(y[2])>>
      BY <2>3, <2>5
    <3>2. PICK e \in adj : /\ stays(devOf, b, e[1]) /\ stays(devOf, b, e[2])
                           /\ y = <<shift(devOf, b, e[1]), shift(devOf, b, e[2])>>
      BY <3>1 DEF Shifted
    <3>3. /\ stays(devOf, i, e[1]) /\ stays(devOf, i, e[2])
          /\ z = <<shift(devOf, i, e[1]), shift(devOf, i, e[2])>>
      BY <1>1, <2>2, <3>1, <3>2
    <3> QED
      BY <3>3 DEF Shifted
  <2>6. Shifted(devOf, i) = withoutIndex(i, Shifted(devOf, b))
    BY <2>4, <2>5
  <2> QED
    BY <1>2, <1>4, <2>1, <2>6
<1> QED
  BY <1>3, <1>4

(* Taking the rows and columns out, the last first, leaves those of the     *)
(* heads, each at the place of its group.                                   *)
LEMMA MatrixLeft ==
  ASSUME num \in Nat, adj \subseteq Idx \X Idx, NEW devOf
  PROVE  modifiedAdjMatrix(devOf) =
           {<<below(Heads(devOf), e[1]), below(Heads(devOf), e[2])>> :
              e \in {x \in adj : x[1] \in Heads(devOf) /\ x[2] \in Heads(devOf)}}
<1> DEFINE Rec(f) == f = [k \in 0 .. num |->
                            LET i == num - k IN
                            IF k = 0 THEN adj
                            ELSE IF joinsGroup(devOf, i) THEN withoutIndex(i, f[k - 1])
                            ELSE f[k - 1]]
           left == CHOOSE f : Rec(f)
<1>1. matrixWithout(devOf) = left
  BY DEF matrixWithout
<1>2. Shifted(devOf, num) = adj
  <2>1. \A e \in adj : /\ e = <<shift(devOf, num, e[1]), shift(devOf, num, e[2])>>
                       /\ stays(devOf, num, e[1]) /\ stays(devOf, num, e[2])
    BY DEF shift, stays, Idx
  <2>2. {x \in adj : stays(devOf, num, x[1]) /\ stays(devOf, num, x[2])} = adj
    BY <2>1
  <2>3. {<<shift(devOf, num, e[1]), shift(devOf, num, e[2])>> : e \in adj} = adj
    BY <2>1, Zenon
  <2> QED
    BY <2>2, <2>3 DEF Shifted
<1>3. \E f : Rec(f)
  <2>1. PICK f : f = [k \in 0 .. num |-> Shifted(devOf, num - k)]
    OBVIOUS
  <2>2. \A k \in 0 .. num : f[k] = IF k = 0 THEN adj
                                   ELSE IF joinsGroup(devOf, num - k)
                                        THEN withoutIndex(num - k, f[k - 1])
                                        ELSE f[k - 1]
    <3> TAKE k \in 0 .. num
    <3>1. CASE k = 0
      BY <1>2, <2>1, <3>1
    <3>2. CASE k # 0
      <4>1. PICK b \in 1 .. num : b = num - (k - 1) /\ b - 1 = num - k
        BY <3>2
      <4>2. f[k] = Shifted(devOf, b - 1) /\ f[k - 1] = Shifted(devOf, b)
        BY <2>1, <3>2, <4>1
      <4> QED
        BY <3>2, <4>1, <4>2, ShiftedOn
    <3> QED
      BY <3>1, <3>2
  <2>3. f = [k \in 0 .. num |-> f[k]]
    BY <2>1
  <2>4. Rec(f)
    BY <2>2, <2>3
  <2> QED
    BY <2>4
<1>4. Rec(left)
  BY <1>3
<1> HIDE DEF left
<1>5. left[0] = adj
  BY <1>4
<1>6. \A k \in 0 .. num - 1 : left[k + 1] = IF joinsGroup(devOf, num - (k + 1))
                                            THEN withoutIndex(num - (k + 1), left[k])
                                            ELSE left[k]
  <2> TAKE k \in 0 .. num - 1
  <2>1. k + 1 \in 0 .. num /\ (k + 1) - 1 = k /\ k + 1 # 0
    OBVIOUS
  <2> QED
    BY <1>4, <2>1
<1> DEFINE R == {k \in 0 .. num : left[k] = Shifted(devOf, num - k)}
<1>7. 0 \in R
  BY <1>2, <1>5
<1>8. ASSUME NEW k \in 0 .. num - 1, k \in R
      PROVE  k + 1 \in R
  <2>1. PICK b \in 1 .. num : b = num - k /\ b - 1 = num - (k + 1)
    OBVIOUS
  <2> QED
    BY <1>6, <1>8, <2>1, ShiftedOn
<1> HIDE DEF R
<1>9. 0 .. num \subseteq R
  BY <1>7, <1>8, BoundedInduction
<1> USE DEF R
<1>10. left[num] = Shifted(devOf, 0)
  BY <1>9
<1>11. \A a \in Idx : /\ stays(devOf, 0, a) <=> a \in Heads(devOf)
                      /\ shift(devOf, 0, a) = below(Heads(devOf), a)
  <2> TAKE a \in Idx
  <2>1. /\ below(Heads(devOf), 0) = 0 /\ below(Joining(devOf), 0) = 0
        /\ below(Heads(devOf), a) \in Nat /\ a \in Nat
    <3>1. a \in 0 .. num /\ a \in Nat
      BY DEF Idx
    <3>2. below(Heads(devOf), 0) = 0 /\ below(Heads(devOf), a) \in Nat
      BY <3>1, Below
    <3>3. below(Joining(devOf), 0) = 0
      BY Below
    <3> QED
      BY <3>1, <3>2, <3>3
  <2> QED
    BY <2>1 DEF stays, shift
<1>12. {x \in adj : stays(devOf, 0, x[1]) /\ stays(devOf, 0, x[2])}
         = {x \in adj : x[1] \in Heads(devOf) /\ x[2] \in Heads(devOf)}
  BY <1>11
<1>13. \A e \in adj : e[1] \in Idx /\ e[2] \in Idx
  OBVIOUS
<1>14. Shifted(devOf, 0) =
         {<<below(Heads(devOf), e[1]), below(Heads(devOf), e[2])>> :
            e \in {x \in adj : x[1] \in Heads(devOf) /\ x[2] \in Heads(devOf)}}
  BY <1>11, <1>12, <1>13 DEF Shifted
<1> QED
  BY <1>1, <1>10, <1>14 DEF modifiedAdjMatrix
-----------------------------------------------------------------------------
LEMMA HeadFacts ==
  ASSUME TypeOK, NEW devOf, NEW i \in Idx
  PROVE  /\ HeadOf(devOf, i) \in Heads(devOf) /\ HeadOf(devOf, i) \in PackOf(i)
         /\ HeadOf(devOf, i) <= i /\ (i \in Heads(devOf) => HeadOf(devOf, i) = i)
<1>1. i \in PackOf(i) /\ PackOf(i) \subseteq Nat /\ PackOf(i) \subseteq Idx
  BY DEF PackOf, Idx
<1>2. CASE ~joinsGroup(devOf, i)
  BY <1>1, <1>2 DEF HeadOf, Heads, Idx
<1>3. CASE joinsGroup(devOf, i)
  <2>1. PICK m \in PackOf(i) : \A y \in PackOf(i) : m <= y
    BY <1>1, SmallestNat
  <2>2. HeadOf(devOf, i) = m
    <3>1. \A x \in PackOf(i) : (\A y \in PackOf(i) : x <= y) => x = m
      BY <1>1, <2>1
    <3>2. Min(PackOf(i)) = m
      BY <2>1, <3>1 DEF Min
    <3> QED
      BY <1>3, <3>2 DEF HeadOf
  <2>3. packId[i] # 0 /\ packId[m] = packId[i] /\ PackOf(m) = PackOf(i)
    BY <1>3, <2>1 DEF joinsGroup, PackOf
  <2>4. ~joinsGroup(devOf, m)
    BY <1>1, <2>1, <2>3 DEF joinsGroup
  <2> QED
    BY <1>1, <1>3, <2>1, <2>2, <2>4 DEF Heads
<1> QED
  BY <1>2, <1>3

\* The sub-commands of a group with this head.
Members(devOf, h) == {i \in Idx : HeadOf(devOf, i) = h}

LEMMA GroupFacts ==
  ASSUME TypeOK, NEW devOf, NEW groups, groups = modifiedSubCmdList(devOf),
         NEW heads, heads = groupHeads(devOf)
  PROVE  /\ Len(groups) = below(Heads(devOf), num) /\ DOMAIN groups = 1 .. Len(groups)
         /\ Len(groups) \in Nat
         /\ \A g \in 1 .. Len(groups) :
              /\ heads[g] \in Heads(devOf) /\ below(Heads(devOf), heads[g]) = g - 1
              /\ groups[g] = InOrder(Members(devOf, heads[g]))
         /\ \A i \in Heads(devOf) : /\ below(Heads(devOf), i) + 1 \in 1 .. Len(groups)
                                    /\ heads[below(Heads(devOf), i) + 1] = i
<1>1. num \in Nat
  BY MaxSubCmdsAssumption DEF TypeOK
<1>2. Holds(heads, Heads(devOf), num)
  BY <1>1, InOrderHolds DEF groupHeads, Heads
<1>3. PICK n \in Nat : n = below(Heads(devOf), num)
  BY <1>1, Below
<1>4. heads \in Seq(Nat) /\ Len(heads) = n /\ DOMAIN heads = 1 .. n
  BY <1>2, <1>3 DEF Holds
<1>5. groups = [g \in 1 .. n |-> InOrder(Members(devOf, heads[g]))]
  BY <1>4 DEF modifiedSubCmdList, Members
<1>6. Len(groups) = n /\ DOMAIN groups = 1 .. n
  <2>1. PICK S : S = {InOrder(Members(devOf, heads[g])) : g \in 1 .. n}
    OBVIOUS
  <2>2. groups \in [1 .. n -> S]
    BY <1>5, <2>1
  <2>3. groups \in Seq(S)
    BY <2>2
  <2> QED
    BY <2>2, <2>3
<1>7. \A i \in Heads(devOf) : i \in 0 .. num - 1
  BY DEF Heads, Idx
<1> QED
  BY <1>2, <1>3, <1>4, <1>5, <1>6, <1>7 DEF Holds

LEMMA MembersIn ==
  ASSUME TypeOK, NEW devOf, NEW h, NEW x \in DOMAIN InOrder(Members(devOf, h))
  PROVE  InOrder(Members(devOf, h))[x] \in Members(devOf, h)
<1>1. num \in Nat
  BY MaxSubCmdsAssumption DEF TypeOK
<1>2. Holds(InOrder(Members(devOf, h)), Members(devOf, h), num)
  BY <1>1, InOrderHolds
<1> QED
  BY <1>2 DEF Holds

(* Members of a group have the edges of its head.                           *)
LEMMA HeadEdges ==
  ASSUME TypeOK, PackUniform, NEW devOf, NEW i \in Idx, NEW j \in Idx
  PROVE  <<i, j>> \in adj <=> <<HeadOf(devOf, i), HeadOf(devOf, j)>> \in adj
<1>1. PICK p \in Idx, q \in Idx : p = HeadOf(devOf, i) /\ q = HeadOf(devOf, j)
  BY HeadFacts DEF Heads
<1>2. p \in PackOf(i) /\ q \in PackOf(j)
  BY <1>1, HeadFacts
<1>3. /\ p = i \/ (packId[i] # 0 /\ packId[i] = packId[p])
      /\ q = j \/ (packId[j] # 0 /\ packId[j] = packId[q])
  BY <1>2 DEF PackOf
<1>4. <<i, j>> \in adj <=> <<p, j>> \in adj
  BY <1>3 DEF PackUniform
<1>5. <<p, j>> \in adj <=> <<p, q>> \in adj
  BY <1>3 DEF PackUniform
<1> QED
  BY <1>1, <1>4, <1>5

LEMMA ReducedOrderOf ==
  ASSUME TypeOK, PackUniform, NoWaitInsidePack
  PROVE  ReducedOrder
<1> SUFFICES ASSUME NEW devOf,
                    NEW groups, groups = modifiedSubCmdList(devOf),
                    NEW reduced, reduced = modifiedAdjMatrix(devOf),
                    NEW g \in DOMAIN groups, NEW h \in DOMAIN groups,
                    NEW x \in DOMAIN groups[g], NEW y \in DOMAIN groups[h]
             PROVE  <<groups[g][x], groups[h][y]>> \in adj <=>
                      g # h /\ <<g - 1, h - 1>> \in reduced
  BY DEF ReducedOrder
<1>1. num \in Nat /\ adj \subseteq Idx \X Idx
  BY MaxSubCmdsAssumption DEF TypeOK
<1>2. PICK heads, H : heads = groupHeads(devOf) /\ H = Heads(devOf)
  OBVIOUS
<1>3. PICK a, b : a = heads[g] /\ b = heads[h]
  OBVIOUS
<1>4. /\ a \in H /\ below(H, a) = g - 1 /\ groups[g] = InOrder(Members(devOf, a))
      /\ b \in H /\ below(H, b) = h - 1 /\ groups[h] = InOrder(Members(devOf, b))
  BY <1>2, <1>3, GroupFacts
<1>5. groups[g][x] \in Members(devOf, a) /\ groups[h][y] \in Members(devOf, b)
  BY <1>4, MembersIn
<1>6. <<groups[g][x], groups[h][y]>> \in adj <=> <<a, b>> \in adj
  BY <1>5, HeadEdges DEF Members
<1>7. g = h => a = b
  BY <1>3
<1>8. <<a, a>> \notin adj
  <2>1. a \in Idx /\ a \in PackOf(a)
    BY <1>2, <1>4 DEF Heads, PackOf
  <2> QED
    BY <2>1 DEF NoWaitInsidePack
<1>9. reduced = {<<below(H, e[1]), below(H, e[2])>> : e \in {z \in adj : z[1] \in H /\ z[2] \in H}}
  BY <1>1, <1>2, MatrixLeft
<1>10. <<a, b>> \in adj => <<g - 1, h - 1>> \in reduced
  <2> HAVE <<a, b>> \in adj
  <2>1. PICK e \in adj : e = <<a, b>>
    OBVIOUS
  <2>2. e[1] \in H /\ e[2] \in H /\ <<g - 1, h - 1>> = <<below(H, e[1]), below(H, e[2])>>
    BY <1>4, <2>1
  <2> QED
    BY <1>9, <2>2
<1>11. <<g - 1, h - 1>> \in reduced => <<a, b>> \in adj
  <2> HAVE <<g - 1, h - 1>> \in reduced
  <2>1. PICK e \in adj : /\ e[1] \in H /\ e[2] \in H
                         /\ <<g - 1, h - 1>> = <<below(H, e[1]), below(H, e[2])>>
    BY <1>9
  <2>2. below(H, e[1]) = g - 1 /\ below(H, e[2]) = h - 1
    BY <2>1
  <2>3. \A i \in H : heads[below(H, i) + 1] = i
    BY <1>2, GroupFacts
  <2>4. g \in Nat /\ h \in Nat
    BY GroupFacts
  <2>5. e[1] = heads[g] /\ e[2] = heads[h]
    BY <2>1, <2>2, <2>3, <2>4
  <2>6. e = <<e[1], e[2]>>
    BY <1>1, <2>1
  <2> QED
    BY <1>3, <2>1, <2>5, <2>6
<1> QED
  BY <1>6, <1>7, <1>8, <1>10, <1>11
-----------------------------------------------------------------------------
(* Rounding up to the alignment of the command buffers.                     *)
LEMMA AlignedFacts ==
  ASSUME NEW x \in Nat
  PROVE  /\ Aligned(x) \in Nat /\ x <= Aligned(x) /\ Aligned(x) <= x + 3
         /\ \A y \in Nat : Aligned(Aligned(x) + y) = Aligned(x) + Aligned(y)
         /\ \A y \in Nat : x + 4 <= y => Aligned(x) + 4 <= Aligned(y)
<1>1. PICK q \in Nat : q = (x + 4 - 1) \div 4
  OBVIOUS
<1>2. Aligned(x) = q * 4
  BY <1>1 DEF Aligned, CmdAlign
<1>3. x <= q * 4 /\ q * 4 <= x + 3
  BY <1>1
<1>4. ASSUME NEW y \in Nat
      PROVE  /\ Aligned(Aligned(x) + y) = Aligned(x) + Aligned(y)
             /\ x + 4 <= y => Aligned(x) + 4 <= Aligned(y)
  <2>1. PICK r \in Nat : r = (y + 4 - 1) \div 4
    OBVIOUS
  <2>2. Aligned(y) = r * 4
    BY <2>1 DEF Aligned, CmdAlign
  <2>3. ((q * 4 + y) + 4 - 1) \div 4 = q + r
    BY <2>1
  <2>4. Aligned(Aligned(x) + y) = (q + r) * 4
    BY <1>2, <2>3 DEF Aligned, CmdAlign
  <2>5. x + 4 <= y => q + 1 <= r
    BY <1>1, <2>1
  <2> QED
    BY <1>2, <2>2, <2>4, <2>5
<1> QED
  BY <1>2, <1>3, <1>4

\* A list of the members of S, each once.
Enumerates(l, S) ==
  /\ l \in Seq(Nat) /\ Len(l) \in Nat
  /\ \A x \in 1 .. Len(l) : l[x] \in S
  /\ \A x, y \in 1 .. Len(l) : l[x] = l[y] => x = y
  /\ \A i \in S : \E x \in 1 .. Len(l) : l[x] = i

LEMMA InOrderEnumerates ==
  ASSUME num \in Nat, NEW S \in SUBSET Idx
  PROVE  Enumerates(InOrder(S), S)
<1>1. PICK l : l = InOrder(S)
  OBVIOUS
<1>2. Holds(l, S, num)
  BY <1>1, InOrderHolds
<1>3. /\ l \in Seq(Nat)
      /\ \A x \in 1 .. Len(l) : l[x] \in S /\ below(S, l[x]) = x - 1
      /\ \A i \in 0 .. num - 1 : i \in S => /\ below(S, i) + 1 \in 1 .. Len(l)
                                            /\ l[below(S, i) + 1] = i
  BY <1>2 DEF Holds
<1>4. ASSUME NEW x \in 1 .. Len(l), NEW y \in 1 .. Len(l), l[x] = l[y]
      PROVE  x = y
  <2>1. x - 1 = y - 1
    BY <1>3, <1>4
  <2> QED
    BY <1>3, <2>1
<1>5. \A i \in S : \E x \in 1 .. Len(l) : l[x] = i
  BY <1>3 DEF Idx
<1>6. Len(l) \in Nat
  BY <1>3
<1> QED
  BY <1>1, <1>3, <1>4, <1>5, <1>6 DEF Enumerates

LEMMA JoinedEnumerations ==
  ASSUME NEW l, NEW m, NEW S, NEW T, Enumerates(l, S), Enumerates(m, T), S \cap T = {}
  PROVE  Enumerates(l \o m, S \cup T)
<1>1. PICK c, a, b : c = l \o m /\ a = Len(l) /\ b = Len(m)
  OBVIOUS
<1>2. a \in Nat /\ b \in Nat /\ l \in Seq(Nat) /\ m \in Seq(Nat)
  BY <1>1 DEF Enumerates
<1>3. /\ c \in Seq(Nat) /\ Len(c) = a + b
      /\ \A x \in 1 .. a + b : c[x] = IF x <= a THEN l[x] ELSE m[x - a]
  BY <1>1, <1>2, ConcatProperties
<1>4. /\ \A x \in 1 .. a : x \in 1 .. a + b /\ c[x] = l[x]
      /\ \A x \in 1 .. b : x + a \in 1 .. a + b /\ c[x + a] = m[x]
  BY <1>2, <1>3
<1>5. /\ \A x \in 1 .. a : l[x] \in S
      /\ \A x, y \in 1 .. a : l[x] = l[y] => x = y
      /\ \A i \in S : \E x \in 1 .. a : l[x] = i
      /\ \A x \in 1 .. b : m[x] \in T
      /\ \A x, y \in 1 .. b : m[x] = m[y] => x = y
      /\ \A i \in T : \E x \in 1 .. b : m[x] = i
  BY <1>1 DEF Enumerates
<1>6. \A x \in 1 .. a + b : x \in 1 .. a \/ (x - a \in 1 .. b /\ x = (x - a) + a)
  BY <1>2
<1>7. \A x \in 1 .. a + b : c[x] \in S \cup T
  BY <1>4, <1>5, <1>6
<1>8. ASSUME NEW x \in 1 .. a + b, NEW y \in 1 .. a + b, c[x] = c[y]
      PROVE  x = y
  <2>1. CASE x \in 1 .. a /\ y \in 1 .. a
    BY <1>4, <1>5, <1>8, <2>1
  <2>2. CASE x \in 1 .. a /\ y \notin 1 .. a
    BY <1>4, <1>5, <1>6, <1>8, <2>2
  <2>3. CASE x \notin 1 .. a /\ y \in 1 .. a
    BY <1>4, <1>5, <1>6, <1>8, <2>3
  <2>4. CASE x \notin 1 .. a /\ y \notin 1 .. a
    <3>1. m[x - a] = m[y - a] /\ x - a \in 1 .. b /\ y - a \in 1 .. b
      BY <1>4, <1>6, <1>8, <2>4
    <3>2. x - a = y - a
      BY <1>5, <3>1
    <3> QED
      BY <1>2, <3>2
  <2> QED
    BY <2>1, <2>2, <2>3, <2>4
<1>9. \A i \in S \cup T : \E x \in 1 .. a + b : c[x] = i
  BY <1>4, <1>5
<1>10. Len(c) \in Nat
  BY <1>2, <1>3
<1> QED
  BY <1>1, <1>3, <1>7, <1>8, <1>9, <1>10 DEF Enumerates
-----------------------------------------------------------------------------
(* Each summand of a set once, in whatever order.                           *)
LEMMA SumInAnyOrder ==
  ASSUME num \in Nat, NEW l, Enumerates(l, Idx), NEW f, \A i \in Idx : f[i] \in Nat
  PROVE  SumTo([k \in 0 .. Len(l) - 1 |-> f[l[k + 1]]], Len(l)) = SumTo(f, num)
<1>1. PICK n \in Nat : n = Len(l)
  BY DEF Enumerates
<1>2. PICK s : s = [k \in 0 .. n - 1 |-> f[l[k + 1]]]
  OBVIOUS
<1>3. /\ \A x \in 1 .. n : l[x] \in Idx
      /\ \A x, y \in 1 .. n : l[x] = l[y] => x = y
      /\ \A i \in Idx : \E x \in 1 .. n : l[x] = i
  BY <1>1 DEF Enumerates
<1>4. \A k \in 0 .. n - 1 : k + 1 \in 1 .. n /\ s[k] = f[l[k + 1]] /\ s[k] \in Nat
  BY <1>2, <1>3
<1> DEFINE In(k) == {l[x] : x \in 1 .. k}
           part(k) == [i \in Idx |-> IF i \in In(k) THEN f[i] ELSE 0]
           S == {k \in 0 .. n : SumTo(s, k) = SumTo(part(k), num)}
<1>5. \A k, i : i \in Idx => part(k)[i] = (IF i \in In(k) THEN f[i] ELSE 0) /\ part(k)[i] \in Nat
  OBVIOUS
<1>6. 0 \in S
  <2>1. \A i \in 0 .. num - 1 : part(0)[i] = 0
    BY DEF Idx
  <2>2. SumTo(part(0), num) = num * 0
    BY <2>1, SumUniform
  <2> QED
    BY <2>2, SumZero
<1>7. ASSUME NEW k \in 0 .. n - 1, k \in S
      PROVE  k + 1 \in S
  <2>1. PICK a \in Idx : a = l[k + 1]
    BY <1>3, <1>4
  <2>2. a \notin In(k)
    <3>1. \A x \in 1 .. k : x \in 1 .. n /\ x # k + 1 /\ k + 1 \in 1 .. n
      OBVIOUS
    <3> QED
      BY <1>3, <2>1, <3>1
  <2>3. \A i : i \in In(k + 1) <=> i \in In(k) \/ i = a
    <3>1. \A x : x \in 1 .. k + 1 <=> x \in 1 .. k \/ x = k + 1
      OBVIOUS
    <3> QED
      BY <2>1, <3>1
  <2> HIDE DEF In
  <2>4. \A i \in 0 .. num - 1 :
          part(k)[i] \in Nat /\ part(k + 1)[i] = IF i = a THEN part(k)[i] + f[a] ELSE part(k)[i]
    BY <2>1, <2>2, <2>3 DEF Idx
  <2>5. a \in 0 .. num - 1 /\ f[a] \in Nat
    BY <2>1 DEF Idx
  <2>6. SumTo(part(k + 1), num) = SumTo(part(k), num) + f[a]
    <3> HIDE DEF part
    <3>1. PICK p, q, w : p = part(k) /\ q = part(k + 1) /\ w = f[a]
      OBVIOUS
    <3>2. /\ \A i \in 0 .. num - 1 : p[i] \in Nat
          /\ \A i \in (0 .. num - 1) \ {a} : q[i] = p[i]
          /\ q[a] = p[a] + w
      BY <2>4, <2>5, <3>1
    <3>3. w \in Nat /\ a \in 0 .. num - 1 /\ num \in Nat
      BY <2>5, <3>1
    <3>4. SumTo(q, num) = SumTo(p, num) + w
      BY <3>2, <3>3, SumPoint
    <3> QED
      BY <3>1, <3>4
  <2> HIDE DEF part
  <2>7. \A x \in 0 .. k : s[x] \in Nat
    BY <1>4
  <2>8. SumTo(s, k + 1) = SumTo(s, k) + s[k]
    BY <2>7, SumNext
  <2>9. s[k] = f[a]
    BY <1>4, <2>1
  <2> QED
    BY <1>7, <2>6, <2>8, <2>9
<1> HIDE DEF S
<1>8. 0 .. n \subseteq S
  BY <1>6, <1>7, BoundedInduction
<1> USE DEF S
<1>9. SumTo(s, n) = SumTo(part(n), num)
  BY <1>8
<1>10. \A i \in 0 .. num - 1 : f[i] \in Nat /\ part(n)[i] = f[i]
  <2>1. \A i \in Idx : i \in In(n)
    BY <1>3
  <2> QED
    BY <2>1 DEF Idx
<1>11. SumTo(part(n), num) = SumTo(f, num)
  <2> HIDE DEF part
  <2> QED
    BY <1>10, SumSame
<1> QED
  BY <1>1, <1>2, <1>9, <1>11
-----------------------------------------------------------------------------
\* The number of the group of i.
groupOf(devOf, i) == below(Heads(devOf), HeadOf(devOf, i)) + 1

LEMMA GroupOfFacts ==
  ASSUME TypeOK, NEW devOf, NEW heads, heads = groupHeads(devOf), NEW i \in Idx
  PROVE  /\ groupOf(devOf, i) \in 1 .. Len(modifiedSubCmdList(devOf))
         /\ heads[groupOf(devOf, i)] = HeadOf(devOf, i)
         /\ \A g \in 1 .. Len(modifiedSubCmdList(devOf)) :
              i \in Members(devOf, heads[g]) <=> groupOf(devOf, i) = g
<1> PICK H : H = Heads(devOf)
  OBVIOUS
<1>1. PICK n \in Nat : n = Len(modifiedSubCmdList(devOf))
  BY GroupFacts
<1>2. /\ \A g \in 1 .. n : heads[g] \in H /\ below(H, heads[g]) = g - 1
      /\ \A h \in H : below(H, h) + 1 \in 1 .. n /\ heads[below(H, h) + 1] = h
  BY <1>1, GroupFacts
<1>3. groupOf(devOf, i) \in 1 .. n /\ heads[groupOf(devOf, i)] = HeadOf(devOf, i)
  BY <1>1, <1>2, HeadFacts DEF groupOf
<1>4. ASSUME NEW g \in 1 .. n
      PROVE  i \in Members(devOf, heads[g]) <=> groupOf(devOf, i) = g
  <2>1. HeadOf(devOf, i) = heads[g] => groupOf(devOf, i) = g
    <3>1. g - 1 + 1 = g
      OBVIOUS
    <3> QED
      BY <1>1, <1>2, <3>1 DEF groupOf
  <2>2. groupOf(devOf, i) = g => HeadOf(devOf, i) = heads[g]
    BY <1>3
  <2> QED
    BY <2>1, <2>2 DEF Members
<1> QED
  BY <1>1, <1>3, <1>4

(* Group by group, every sub-command comes up once.                         *)
LEMMA GroupOrderEnumerates ==
  ASSUME TypeOK, NEW devOf, NEW groups, groups = modifiedSubCmdList(devOf)
  PROVE  Enumerates(groupOrder(groups), Idx)
<1> DEFINE Rec(f) == f = [g \in 0 .. Len(groups) |->
                            IF g = 0 THEN <<>> ELSE f[g - 1] \o groups[g]]
           list == CHOOSE f : Rec(f)
<1>1. num \in Nat
  BY MaxSubCmdsAssumption DEF TypeOK
<1> PICK heads, H : heads = groupHeads(devOf) /\ H = Heads(devOf)
  OBVIOUS
<1>2. PICK n \in Nat : n = Len(groups)
  BY GroupFacts
<1>3. /\ \A g \in 1 .. n : /\ heads[g] \in H /\ below(H, heads[g]) = g - 1
                            /\ groups[g] = InOrder(Members(devOf, heads[g]))
      /\ \A i \in H : below(H, i) + 1 \in 1 .. n /\ heads[below(H, i) + 1] = i
  BY <1>2, GroupFacts
<1>4. \A i \in Idx : groupOf(devOf, i) \in 1 .. n
  BY <1>2, GroupOfFacts
<1>5. \A g \in 1 .. n : \A i \in Idx :
        i \in Members(devOf, heads[g]) <=> groupOf(devOf, i) = g
  BY <1>2, GroupOfFacts
<1>6. \A g \in 1 .. n : Enumerates(groups[g], Members(devOf, heads[g]))
  <2> TAKE g \in 1 .. n
  <2>1. Members(devOf, heads[g]) \in SUBSET Idx
    BY DEF Members
  <2> QED
    BY <1>1, <1>3, <2>1, InOrderEnumerates
<1>7. \E f : Rec(f)
  <2>1. PICK V, step : /\ V = Seq(Nat)
                       /\ step = [p \in (1 .. n) \X V |-> p[2] \o groups[p[1]]]
    OBVIOUS
  <2>2. step \in [(1 .. n) \X V -> V]
    <3>1. \A g \in 1 .. n, s \in V : s \o groups[g] \in V
      BY <1>6, <2>1, ConcatProperties DEF Enumerates
    <3> QED
      BY <2>1, <3>1
  <2>3. <<>> \in V
    BY <2>1
  <2>4. PICK f : Solves(f, n, V, <<>>, step)
    BY <2>2, <2>3, RecursionExists
  <2>5. f \in [0 .. n -> V] /\ f[0] = <<>>
    BY <2>4 DEF Solves
  <2>6. \A g \in 1 .. n : f[g] = f[g - 1] \o groups[g]
    <3> TAKE g \in 1 .. n
    <3>1. <<g, f[g - 1]>> \in (1 .. n) \X V /\ f[g] = step[<<g, f[g - 1]>>]
      BY <2>4, <2>5 DEF Solves
    <3> QED
      BY <2>1, <3>1
  <2>7. \A g \in 0 .. n : f[g] = IF g = 0 THEN <<>> ELSE f[g - 1] \o groups[g]
    <3> TAKE g \in 0 .. n
    <3>1. g = 0 \/ (g \in 1 .. n /\ g # 0)
      OBVIOUS
    <3> QED
      BY <2>5, <2>6, <3>1
  <2>8. Rec(f)
    BY <1>2, <2>5, <2>7
  <2> QED
    BY <2>8
<1>8. Rec(list)
  BY <1>7
<1>9. groupOrder(groups) = list[n]
  BY <1>2 DEF groupOrder
<1> HIDE DEF list
<1>10. list[0] = <<>>
  BY <1>2, <1>8
<1>11. \A g \in 0 .. n - 1 : list[g + 1] = list[g] \o groups[g + 1]
  <2> TAKE g \in 0 .. n - 1
  <2>1. g + 1 \in 0 .. n /\ (g + 1) - 1 = g /\ g + 1 # 0
    OBVIOUS
  <2> QED
    BY <1>2, <1>8, <2>1
<1> DEFINE In(g) == {i \in Idx : groupOf(devOf, i) <= g}
           R == {g \in 0 .. n : Enumerates(list[g], In(g))}
<1>12. 0 \in R
  <2>1. In(0) = {}
    BY <1>4
  <2>2. <<>> \in Seq(Nat) /\ Len(<<>>) = 0
    OBVIOUS
  <2>3. Enumerates(<<>>, {})
    BY <2>2 DEF Enumerates
  <2> HIDE DEF In
  <2>4. Enumerates(list[0], In(0))
    BY <1>10, <2>1, <2>3, Zenon
  <2>5. 0 \in 0 .. n
    OBVIOUS
  <2> QED
    BY <2>4, <2>5
<1>13. ASSUME NEW g \in 0 .. n - 1, g \in R
       PROVE  g + 1 \in R
  <2>1. PICK S, T : S = In(g) /\ T = Members(devOf, heads[g + 1])
    OBVIOUS
  <2>2. g + 1 \in 1 .. n /\ T \subseteq Idx
    BY <2>1 DEF Members
  <2>3. S \cap T = {} /\ S \cup T = In(g + 1)
    <3>1. \A i \in Idx : i \in T <=> groupOf(devOf, i) = g + 1
      BY <1>5, <2>1, <2>2
    <3>2. \A i \in Idx : groupOf(devOf, i) \in 1 .. n
      BY <1>4
    <3>3. \A i \in Idx : i \in In(g + 1) <=> i \in S \/ i \in T
      BY <2>1, <3>1, <3>2
    <3>4. \A i \in Idx : ~(i \in S /\ i \in T)
      BY <2>1, <3>1, <3>2
    <3> QED
      BY <2>1, <2>2, <3>3, <3>4
  <2>4. Enumerates(list[g], S) /\ Enumerates(groups[g + 1], T)
    BY <1>6, <1>13, <2>1, <2>2
  <2> HIDE DEF In
  <2>5. PICK l, m : l = list[g] /\ m = groups[g + 1]
    OBVIOUS
  <2>6. Enumerates(l \o m, S \cup T)
    BY <2>3, <2>4, <2>5, JoinedEnumerations
  <2>7. list[g + 1] = l \o m
    BY <1>11, <2>5
  <2>8. g + 1 \in 0 .. n
    OBVIOUS
  <2>9. Enumerates(list[g + 1], In(g + 1))
    BY <2>3, <2>6, <2>7, Zenon
  <2> QED
    BY <2>8, <2>9
<1> HIDE DEF R
<1>14. 0 .. n \subseteq R
  BY <1>12, <1>13, BoundedInduction
<1> USE DEF R
<1>15. Enumerates(list[n], In(n))
  BY <1>14
<1>16. In(n) = Idx
  BY <1>4
<1> QED
  BY <1>9, <1>15, <1>16

(* A list of all sub-commands is as long as there are.                      *)
LEMMA EnumerationLength ==
  ASSUME num \in Nat, NEW l, Enumerates(l, Idx)
  PROVE  Len(l) = num
<1>1. PICK n, f : n = Len(l) /\ f = [i \in Idx |-> 1]
  OBVIOUS
<1> n \in Nat
  BY <1>1 DEF Enumerates
<1> PICK s : s = [k \in 0 .. n - 1 |-> f[l[k + 1]]]
  OBVIOUS
<1>2. \A i \in 0 .. num - 1 : f[i] = 1
  BY <1>1 DEF Idx
<1>3. \A k \in 0 .. n - 1 : s[k] = 1
  <2>1. \A x \in 1 .. n : l[x] \in Idx
    BY <1>1 DEF Enumerates
  <2> QED
    BY <1>1, <2>1
<1>4. SumTo(f, num) = num * 1
  BY <1>2, SumUniform
<1>5. SumTo(s, n) = n * 1
  BY <1>3, SumUniform
<1>6. SumTo(s, n) = SumTo(f, num)
  <2>1. \A i \in Idx : f[i] \in Nat
    BY <1>1
  <2> QED
    BY <1>1, <2>1, SumInAnyOrder
<1> QED
  BY <1>1, <1>4, <1>5, <1>6
-----------------------------------------------------------------------------
LEMMA EndOfSteps ==
  ASSUME NEW ofs \in Nat, NEW sizes \in Seq(Nat)
  PROVE  \E e \in [0 .. Len(sizes) -> Nat] :
           /\ e[0] = ofs /\ endOf(ofs, sizes) = e[Len(sizes)]
           /\ \A k \in 1 .. Len(sizes) : e[k] = Aligned(e[k - 1]) + sizes[k]
<1> DEFINE Rec(f) == f = [k \in 0 .. Len(sizes) |->
                            IF k = 0 THEN ofs ELSE Aligned(f[k - 1]) + sizes[k]]
           end == CHOOSE f : Rec(f)
<1>1. PICK n \in Nat : n = Len(sizes)
  OBVIOUS
<1>2. PICK step : step = [p \in (1 .. n) \X Nat |-> Aligned(p[2]) + sizes[p[1]]]
  OBVIOUS
<1>3. step \in [(1 .. n) \X Nat -> Nat]
  <2>1. \A x \in Nat : Aligned(x) \in Nat
    BY AlignedFacts
  <2>2. \A k \in 1 .. n : sizes[k] \in Nat
    BY <1>1
  <2>3. ASSUME NEW k \in 1 .. n, NEW x \in Nat
        PROVE  Aligned(x) + sizes[k] \in Nat
    <3>1. Aligned(x) \in Nat /\ sizes[k] \in Nat
      BY <2>1, <2>2
    <3> QED
      BY <3>1
  <2> QED
    BY <1>2, <2>3
<1>4. PICK f : Solves(f, n, Nat, ofs, step)
  BY <1>3, RecursionExists
<1>5. f \in [0 .. n -> Nat] /\ f[0] = ofs
  BY <1>4 DEF Solves
<1>6. \A k \in 1 .. n : f[k] = Aligned(f[k - 1]) + sizes[k]
  <2> TAKE k \in 1 .. n
  <2>1. <<k, f[k - 1]>> \in (1 .. n) \X Nat /\ f[k] = step[<<k, f[k - 1]>>]
    BY <1>4, <1>5 DEF Solves
  <2> QED
    BY <1>2, <2>1
<1>7. \A k \in 0 .. n : f[k] = IF k = 0 THEN ofs ELSE Aligned(f[k - 1]) + sizes[k]
  <2> TAKE k \in 0 .. n
  <2>1. k = 0 \/ (k \in 1 .. n /\ k # 0)
    OBVIOUS
  <2> QED
    BY <1>5, <1>6, <2>1
<1>8. Rec(f)
  BY <1>1, <1>5, <1>7
<1>9. Rec(end)
  BY <1>8
<1>10. endOf(ofs, sizes) = end[n]
  BY <1>1 DEF endOf
<1> HIDE DEF end
<1>11. end[0] = ofs
  BY <1>1, <1>9
<1>12. \A k \in 1 .. n : end[k] = Aligned(end[k - 1]) + sizes[k]
  <2> TAKE k \in 1 .. n
  <2>1. k \in 0 .. n /\ k # 0
    OBVIOUS
  <2> QED
    BY <1>1, <1>9, <2>1
<1> DEFINE S == {k \in 0 .. n : end[k] = f[k]}
<1>13. 0 \in S
  BY <1>5, <1>11
<1>14. ASSUME NEW k \in 0 .. n - 1, k \in S
       PROVE  k + 1 \in S
  <2>1. k + 1 \in 1 .. n /\ (k + 1) - 1 = k /\ k + 1 \in 0 .. n
    OBVIOUS
  <2>2. end[k + 1] = Aligned(end[k]) + sizes[k + 1] /\ f[k + 1] = Aligned(f[k]) + sizes[k + 1]
    BY <1>6, <1>12, <2>1
  <2>3. end[k] = f[k]
    BY <1>14
  <2> QED
    BY <2>1, <2>2, <2>3
<1> HIDE DEF S
<1>15. 0 .. n \subseteq S
  BY <1>13, <1>14, BoundedInduction
<1> USE DEF S
<1>16. end[n] = f[n]
  BY <1>15
<1> QED
  BY <1>1, <1>5, <1>6, <1>10, <1>16

\* From the aligned start of its buffers to their end.
lengthOf(devOf, size, i) == IF devOf[i] = "MDLA" THEN 4 + size[i] ELSE size[i]

LEMMA EndOfBuffers ==
  ASSUME NEW ofs \in Nat, NEW devOf, NEW size \in [Idx -> Nat \ {0}], NEW i \in Idx
  PROVE  /\ lengthOf(devOf, size, i) \in Nat \ {0}
         /\ endOf(ofs, bufsOf(devOf, size)[i]) = Aligned(ofs) + lengthOf(devOf, size, i)
<1>1. PICK s \in Nat \ {0} : s = size[i]
  OBVIOUS
<1>2. lengthOf(devOf, size, i) = IF devOf[i] = "MDLA" THEN 4 + s ELSE s
  BY <1>1 DEF lengthOf
<1>3. bufsOf(devOf, size)[i] = IF devOf[i] = "MDLA" THEN <<1, s>> ELSE <<s>>
  BY <1>1 DEF bufsOf
<1>4. CASE devOf[i] # "MDLA"
  <2>1. PICK b : b = <<s>>
    OBVIOUS
  <2>2. b \in Seq(Nat) /\ Len(b) = 1 /\ b[1] = s
    BY <2>1
  <2>3. PICK e : e[0] = ofs /\ endOf(ofs, b) = e[1] /\ e[1] = Aligned(e[0]) + b[1]
    <3>1. PICK e : /\ e[0] = ofs /\ endOf(ofs, b) = e[Len(b)]
                   /\ \A k \in 1 .. Len(b) : e[k] = Aligned(e[k - 1]) + b[k]
      BY <2>2, EndOfSteps
    <3>2. e[1] = Aligned(e[1 - 1]) + b[1]
      BY <2>2, <3>1
    <3> QED
      BY <2>2, <3>1, <3>2
  <2> QED
    BY <1>2, <1>3, <1>4, <2>1, <2>2, <2>3
<1>5. CASE devOf[i] = "MDLA"
  <2>1. PICK b : b = <<1, s>>
    OBVIOUS
  <2>2. b \in Seq(Nat) /\ Len(b) = 2 /\ b[1] = 1 /\ b[2] = s
    BY <2>1
  <2>3. PICK e : /\ e[0] = ofs /\ endOf(ofs, b) = e[2]
                 /\ e[1] = Aligned(e[0]) + b[1] /\ e[2] = Aligned(e[1]) + b[2]
    <3>1. PICK e : /\ e[0] = ofs /\ endOf(ofs, b) = e[Len(b)]
                   /\ \A k \in 1 .. Len(b) : e[k] = Aligned(e[k - 1]) + b[k]
      <4>1. b \in Seq(Nat)
        BY <2>2
      <4>2. \E e \in [0 .. Len(b) -> Nat] :
              /\ e[0] = ofs /\ endOf(ofs, b) = e[Len(b)]
              /\ \A k \in 1 .. Len(b) : e[k] = Aligned(e[k - 1]) + b[k]
        BY <4>1, EndOfSteps
      <4> QED
        BY <4>2
    <3>2. e[1] = Aligned(e[1 - 1]) + b[1]
      BY <2>2, <3>1
    <3>3. e[2] = Aligned(e[2 - 1]) + b[2]
      BY <2>2, <3>1
    <3> QED
      BY <2>2, <3>1, <3>2, <3>3
  <2>4. Aligned(Aligned(ofs) + 1) = Aligned(ofs) + Aligned(1) /\ Aligned(ofs) \in Nat
    BY AlignedFacts
  <2>5. Aligned(1) = 4
    BY DEF Aligned, CmdAlign
  <2> QED
    BY <1>2, <1>3, <1>5, <2>1, <2>2, <2>3, <2>4, <2>5
<1> QED
  BY <1>1, <1>2, <1>4, <1>5

LEMMA EndsSteps ==
  ASSUME NEW order, Len(order) \in Nat, \A k \in 1 .. Len(order) : order[k] \in Idx,
         NEW start \in Nat, NEW devOf, NEW size \in [Idx -> Nat \ {0}],
         NEW bufs, bufs = bufsOf(devOf, size), NEW e, e = ends(order, start, bufs)
  PROVE  /\ e \in [0 .. Len(order) -> Nat] /\ e[0] = start
         /\ \A k \in 1 .. Len(order) :
              e[k] = Aligned(e[k - 1]) + lengthOf(devOf, size, order[k])
<1> DEFINE Rec(f) == f = [k \in 0 .. Len(order) |->
                            IF k = 0 THEN start ELSE endOf(f[k - 1], bufs[order[k]])]
           end == CHOOSE f : Rec(f)
<1>1. PICK n \in Nat : n = Len(order)
  OBVIOUS
<1>2. \A k \in 1 .. n, x \in Nat :
        /\ endOf(x, bufs[order[k]]) = Aligned(x) + lengthOf(devOf, size, order[k])
        /\ endOf(x, bufs[order[k]]) \in Nat
  <2> TAKE k \in 1 .. n, x \in Nat
  <2>1. PICK i \in Idx : i = order[k]
    BY <1>1
  <2>2. PICK c \in Nat : c = lengthOf(devOf, size, i)
    BY EndOfBuffers
  <2>3. endOf(x, bufs[i]) = Aligned(x) + c
    BY <2>2, EndOfBuffers
  <2>4. Aligned(x) \in Nat
    BY AlignedFacts
  <2> QED
    BY <2>1, <2>2, <2>3, <2>4
<1>3. PICK step : step = [p \in (1 .. n) \X Nat |-> endOf(p[2], bufs[order[p[1]]])]
  OBVIOUS
<1>4. step \in [(1 .. n) \X Nat -> Nat]
  BY <1>2, <1>3
<1>5. PICK f : Solves(f, n, Nat, start, step)
  BY <1>4, RecursionExists
<1>6. f \in [0 .. n -> Nat] /\ f[0] = start
  BY <1>5 DEF Solves
<1>7. \A k \in 1 .. n : f[k] = endOf(f[k - 1], bufs[order[k]])
  <2> TAKE k \in 1 .. n
  <2>1. <<k, f[k - 1]>> \in (1 .. n) \X Nat /\ f[k] = step[<<k, f[k - 1]>>]
    BY <1>5, <1>6 DEF Solves
  <2> QED
    BY <1>3, <2>1
<1>8. \A k \in 0 .. n : f[k] = IF k = 0 THEN start ELSE endOf(f[k - 1], bufs[order[k]])
  <2> TAKE k \in 0 .. n
  <2>1. k = 0 \/ (k \in 1 .. n /\ k # 0)
    OBVIOUS
  <2> QED
    BY <1>6, <1>7, <2>1
<1>9. Rec(f)
  BY <1>1, <1>6, <1>8
<1>10. Rec(end)
  BY <1>9
<1>11. e = end
  BY DEF ends
<1> HIDE DEF end
<1>12. e[0] = start /\ \A k \in 1 .. n : e[k] = endOf(e[k - 1], bufs[order[k]])
  <2>1. e[0] = start
    BY <1>1, <1>10, <1>11
  <2> SUFFICES ASSUME NEW k \in 1 .. n
               PROVE  e[k] = endOf(e[k - 1], bufs[order[k]])
    BY <2>1
  <2>2. k \in 0 .. n /\ k # 0
    OBVIOUS
  <2> QED
    BY <1>1, <1>10, <1>11, <2>2
<1> DEFINE S == {k \in 0 .. n : e[k] \in Nat}
<1>13. 0 \in S
  BY <1>12
<1>14. ASSUME NEW k \in 0 .. n - 1, k \in S
       PROVE  k + 1 \in S
  <2>1. k + 1 \in 1 .. n /\ (k + 1) - 1 = k /\ k + 1 \in 0 .. n
    OBVIOUS
  <2>2. e[k + 1] = endOf(e[k], bufs[order[k + 1]])
    BY <1>12, <2>1
  <2> QED
    BY <1>2, <1>14, <2>1, <2>2
<1> HIDE DEF S
<1>15. 0 .. n \subseteq S
  BY <1>13, <1>14, BoundedInduction
<1> USE DEF S
<1>16. \A k \in 0 .. n : e[k] \in Nat
  BY <1>15
<1>17. e \in [0 .. n -> Nat]
  BY <1>1, <1>10, <1>11, <1>16
<1>18. \A k \in 1 .. n : e[k] = Aligned(e[k - 1]) + lengthOf(devOf, size, order[k])
  <2> TAKE k \in 1 .. n
  <2>1. e[k - 1] \in Nat /\ e[k] = endOf(e[k - 1], bufs[order[k]])
    BY <1>12, <1>16
  <2> QED
    BY <1>2, <2>1
<1> QED
  BY <1>1, <1>12, <1>17, <1>18
-----------------------------------------------------------------------------
\* What sub-command i takes up to the next aligned offset.
roomOf(devOf, size) == [i \in Idx |-> Aligned(lengthOf(devOf, size, i))]

\* The same, in the order of a list.
Rooms(s, order, devOf, size) ==
  /\ Len(order) \in Nat
  /\ \A k \in 1 .. Len(order) : order[k] \in Idx
  /\ \A k \in 0 .. Len(order) - 1 : s[k] = roomOf(devOf, size)[order[k + 1]]

LEMMA EndsAligned ==
  ASSUME NEW order, NEW start \in Nat, NEW devOf, NEW size \in [Idx -> Nat \ {0}],
         NEW s, Rooms(s, order, devOf, size)
  PROVE  Aligned(ends(order, start, bufsOf(devOf, size))[Len(order)]) =
           Aligned(start) + SumTo(s, Len(order))
<1> /\ Len(order) \in Nat
    /\ \A k \in 1 .. Len(order) : order[k] \in Idx
    /\ \A k \in 0 .. Len(order) - 1 : s[k] = roomOf(devOf, size)[order[k + 1]]
  BY DEF Rooms
<1>1. PICK n \in Nat : n = Len(order)
  OBVIOUS
<1> PICK bufs, e : bufs = bufsOf(devOf, size) /\ e = ends(order, start, bufs)
  OBVIOUS
<1>2. /\ e \in [0 .. n -> Nat] /\ e[0] = start
      /\ \A k \in 1 .. n : e[k] = Aligned(e[k - 1]) + lengthOf(devOf, size, order[k])
  <2>1. /\ e \in [0 .. Len(order) -> Nat] /\ e[0] = start
        /\ \A k \in 1 .. Len(order) :
             e[k] = Aligned(e[k - 1]) + lengthOf(devOf, size, order[k])
    BY EndsSteps
  <2> QED
    BY <1>1, <2>1
<1>3. \A k \in 0 .. n - 1 : /\ s[k] = Aligned(lengthOf(devOf, size, order[k + 1]))
                            /\ lengthOf(devOf, size, order[k + 1]) \in Nat /\ s[k] \in Nat
  <2> TAKE k \in 0 .. n - 1
  <2>1. PICK i \in Idx : i = order[k + 1]
    BY <1>1
  <2>2. lengthOf(devOf, size, i) \in Nat
    BY EndOfBuffers
  <2>3. s[k] = Aligned(lengthOf(devOf, size, i))
    BY <1>1, <2>1 DEF roomOf
  <2> QED
    BY <2>1, <2>2, <2>3, AlignedFacts
<1> DEFINE S == {k \in 0 .. n : Aligned(e[k]) = Aligned(start) + SumTo(s, k)}
<1>4. 0 \in S
  <2>1. SumTo(s, 0) = 0 /\ Aligned(start) \in Nat
    BY SumZero, AlignedFacts
  <2> QED
    BY <1>2, <2>1
<1>5. ASSUME NEW k \in 0 .. n - 1, k \in S
      PROVE  k + 1 \in S
  <2>1. k + 1 \in 1 .. n /\ (k + 1) - 1 = k /\ k + 1 \in 0 .. n
    OBVIOUS
  <2>2. PICK c \in Nat : c = lengthOf(devOf, size, order[k + 1])
    BY <1>3
  <2>3. e[k + 1] = Aligned(e[k]) + c /\ e[k] \in Nat
    BY <1>2, <2>1, <2>2
  <2>4. Aligned(e[k + 1]) = Aligned(e[k]) + Aligned(c)
    BY <2>3, AlignedFacts
  <2>5. \A x \in 0 .. k : s[x] \in Nat
    BY <1>3
  <2>6. SumTo(s, k + 1) = SumTo(s, k) + s[k]
    BY <2>5, SumNext
  <2>7. s[k] = Aligned(c) /\ s[k] \in Nat
    BY <1>3, <2>2
  <2>8. SumTo(s, k) \in Nat /\ Aligned(start) \in Nat
    <3>1. \A x \in 0 .. k - 1 : s[x] \in Nat
      BY <1>3
    <3>2. SumTo(s, k) \in Nat
      <4>1. k \in Nat
        OBVIOUS
      <4> QED
        BY <3>1, <4>1, SumNat
    <3>3. Aligned(start) \in Nat
      BY AlignedFacts
    <3> QED
      BY <3>2, <3>3
  <2>9. Aligned(e[k]) = Aligned(start) + SumTo(s, k)
    BY <1>5
  <2>10. Aligned(e[k + 1]) = Aligned(start) + SumTo(s, k + 1)
    BY <2>4, <2>6, <2>7, <2>8, <2>9
  <2> QED
    BY <2>1, <2>10
<1> HIDE DEF S
<1>6. 0 .. n \subseteq S
  BY <1>4, <1>5, BoundedInduction
<1> USE DEF S
<1>7. Aligned(e[n]) = Aligned(start) + SumTo(s, n)
  BY <1>6
<1> QED
  BY <1>1, <1>7

(* In which order the buffers are laid out moves their end by less than the *)
(* alignment.                                                               *)
LEMMA AnyOrderFits ==
  ASSUME num \in Nat, NEW order, Enumerates(order, Idx), NEW other, Enumerates(other, Idx),
         NEW start \in Nat, NEW next \in Nat, Aligned(start) + 4 <= Aligned(next),
         NEW devOf, NEW size \in [Idx -> Nat \ {0}], NEW bufs, bufs = bufsOf(devOf, size)
  PROVE  ends(order, start, bufs)[num] <= ends(other, next, bufs)[num]
<1>1. PICK d, e, w : /\ d = ends(order, start, bufs) /\ e = ends(other, next, bufs)
                     /\ w = roomOf(devOf, size)
  OBVIOUS
<1>2. Len(order) = num /\ Len(other) = num
  BY EnumerationLength
<1>3. /\ \A k \in 1 .. num : order[k] \in Idx
      /\ \A k \in 1 .. num : other[k] \in Idx
  BY <1>2 DEF Enumerates
<1>4. \A i \in Idx : w[i] \in Nat
  <2> TAKE i \in Idx
  <2>1. lengthOf(devOf, size, i) \in Nat
    BY EndOfBuffers
  <2> QED
    BY <1>1, <2>1, AlignedFacts DEF roomOf
<1>5. PICK t \in Nat : t = SumTo(w, num)
  <2>1. \A i \in 0 .. num - 1 : w[i] \in Nat
    BY <1>4 DEF Idx
  <2> QED
    BY <2>1, SumNat
<1>6. Aligned(d[num]) = Aligned(start) + t
  <2>1. PICK s : s = [k \in 0 .. num - 1 |-> w[order[k + 1]]]
    OBVIOUS
  <2>2. Rooms(s, order, devOf, size)
    BY <1>1, <1>2, <1>3, <2>1 DEF Rooms
  <2>3. d = ends(order, start, bufsOf(devOf, size))
    BY <1>1
  <2>4. Aligned(ends(order, start, bufsOf(devOf, size))[Len(order)]) = Aligned(start) + SumTo(s, Len(order))
    BY <2>2, EndsAligned
  <2>5. SumTo(s, num) = SumTo(w, num)
    BY <1>2, <1>4, <2>1, SumInAnyOrder
  <2> QED
    BY <1>2, <1>5, <2>3, <2>4, <2>5
<1>7. Aligned(e[num]) = Aligned(next) + t
  <2>1. PICK s : s = [k \in 0 .. num - 1 |-> w[other[k + 1]]]
    OBVIOUS
  <2>2. Rooms(s, other, devOf, size)
    BY <1>1, <1>2, <1>3, <2>1 DEF Rooms
  <2>3. e = ends(other, next, bufsOf(devOf, size))
    BY <1>1
  <2>4. Aligned(ends(other, next, bufsOf(devOf, size))[Len(other)]) = Aligned(next) + SumTo(s, Len(other))
    BY <2>2, EndsAligned
  <2>5. SumTo(s, num) = SumTo(w, num)
    BY <1>2, <1>4, <2>1, SumInAnyOrder
  <2> QED
    BY <1>2, <1>5, <2>3, <2>4, <2>5
<1>8. d[num] \in Nat /\ e[num] \in Nat
  <2>1. d \in [0 .. num -> Nat] /\ e \in [0 .. num -> Nat]
    BY <1>1, <1>2, <1>3, EndsSteps
  <2> QED
    BY <2>1
<1>9. d[num] <= Aligned(d[num]) /\ Aligned(e[num]) <= e[num] + 3
  BY <1>8, AlignedFacts
<1>10. Aligned(start) \in Nat /\ Aligned(next) \in Nat
  BY AlignedFacts
<1> QED
  BY <1>1, <1>5, <1>6, <1>7, <1>8, <1>9, <1>10
-----------------------------------------------------------------------------
(* The successor lists leave at least one row of the reserved matrix unused, *)
(* so that the buffers start a unit of the alignment early.                 *)
LEMMA MatrixBound ==
  ASSUME NEW n \in Nat \ {0}, NEW m \in SUBSET ((0 .. n - 1) \X (0 .. n - 1)),
         \A i, j \in 0 .. n - 1 : ~(<<i, j>> \in m /\ <<j, i>> \in m)
  PROVE  /\ IsFiniteSet(m) /\ Cardinality(m) \in Nat
         /\ n = 1 => Cardinality(m) = 0
         /\ n = 2 => Cardinality(m) <= 1
         /\ n >= 3 => Cardinality(m) + 3 <= n * n
<1>1. PICK I, Q : I = 0 .. n - 1 /\ Q = I \X I
  OBVIOUS
<1>2. IsFiniteSet(I) /\ Cardinality(I) = n
  BY <1>1, FS_Interval
<1>3. IsFiniteSet(Q) /\ Cardinality(Q) = n * n
  BY <1>1, <1>2, FS_Product
<1>4. IsFiniteSet(m)
  BY <1>1, <1>3, FS_Subset
<1>5. Cardinality(m) \in Nat
  BY <1>4, FS_CardinalityType
<1>6. ASSUME n = 1
      PROVE  Cardinality(m) = 0
  <2>1. \A i \in 0 .. n - 1 : i = 0
    BY <1>6
  <2>2. m = {}
    BY <2>1
  <2> QED
    BY <2>2, FS_EmptySet
<1>7. ASSUME n = 2
      PROVE  Cardinality(m) <= 1
  <2>1. \A i \in 0 .. n - 1 : i = 0 \/ i = 1
    BY <1>7
  <2>2. 0 \in 0 .. n - 1 /\ 1 \in 0 .. n - 1
    BY <1>7
  <2>3. <<0, 0>> \notin m /\ <<1, 1>> \notin m /\ ~(<<0, 1>> \in m /\ <<1, 0>> \in m)
    BY <2>2
  <2>4. \A e \in m : e = <<0, 1>> \/ e = <<1, 0>>
    <3> TAKE e \in m
    <3>1. PICK i \in 0 .. n - 1, j \in 0 .. n - 1 : e = <<i, j>>
      OBVIOUS
    <3> QED
      BY <2>1, <2>3, <3>1
  <2>5. PICK z : m \subseteq {z}
    <3>1. m \subseteq {<<0, 1>>} \/ m \subseteq {<<1, 0>>}
      BY <2>3, <2>4
    <3> QED
      BY <3>1
  <2>6. IsFiniteSet({z}) /\ Cardinality({z}) = 1
    BY FS_Singleton
  <2>7. Cardinality(m) <= Cardinality({z})
    BY <2>5, <2>6, FS_Subset
  <2> QED
    BY <2>6, <2>7
<1>8. ASSUME n >= 3
      PROVE  Cardinality(m) + 3 <= n * n
  <2>1. PICK a, b, c : a = <<0, 0>> /\ b = <<1, 1>> /\ c = <<2, 2>>
    OBVIOUS
  <2>2. a \in Q /\ b \in Q /\ c \in Q /\ a # b /\ a # c /\ b # c
    BY <1>1, <1>8, <2>1
  <2>3. a \notin m /\ b \notin m /\ c \notin m
    <3>1. 0 \in 0 .. n - 1 /\ 1 \in 0 .. n - 1 /\ 2 \in 0 .. n - 1
      BY <1>8
    <3> QED
      BY <2>1, <3>1
  <2>4. PICK T, U, V : T = m \cup {a} /\ U = T \cup {b} /\ V = U \cup {c}
    OBVIOUS
  <2>5. IsFiniteSet(T) /\ Cardinality(T) = Cardinality(m) + 1
    BY <1>4, <2>3, <2>4, FS_AddElement
  <2>6. IsFiniteSet(U) /\ Cardinality(U) = Cardinality(T) + 1
    <3>1. b \notin T
      BY <2>2, <2>3, <2>4
    <3> QED
      BY <2>4, <2>5, <3>1, FS_AddElement
  <2>7. IsFiniteSet(V) /\ Cardinality(V) = Cardinality(U) + 1
    <3>1. c \notin U
      BY <2>2, <2>3, <2>4
    <3> QED
      BY <2>4, <2>6, <3>1, FS_AddElement
  <2>8. V \subseteq Q
    BY <1>1, <2>2, <2>4
  <2>9. Cardinality(V) <= n * n
    BY <1>3, <2>8, FS_Subset
  <2>10. Cardinality(V) = Cardinality(m) + 3
    BY <1>5, <2>5, <2>6, <2>7
  <2> QED
    BY <2>9, <2>10
<1> QED
  BY <1>4, <1>5, <1>6, <1>7, <1>8
-----------------------------------------------------------------------------
LEMMA ReducedMatrix ==
  ASSUME TypeOK, NoMutualWait, NEW devOf,
         NEW n, n = Len(modifiedSubCmdList(devOf)), NEW m, m = modifiedAdjMatrix(devOf)
  PROVE  /\ m \in SUBSET ((0 .. n - 1) \X (0 .. n - 1))
         /\ \A i, j \in 0 .. n - 1 : ~(<<i, j>> \in m /\ <<j, i>> \in m)
<1>1. num \in Nat /\ adj \subseteq Idx \X Idx
  BY MaxSubCmdsAssumption DEF TypeOK
<1>2. PICK groups, heads, H : /\ groups = modifiedSubCmdList(devOf)
                              /\ heads = groupHeads(devOf) /\ H = Heads(devOf)
  OBVIOUS
<1>3. n \in Nat /\ \A i \in H : below(H, i) + 1 \in 1 .. n /\ heads[below(H, i) + 1] = i
  BY <1>2, GroupFacts
<1>4. m = {<<below(H, e[1]), below(H, e[2])>> : e \in {z \in adj : z[1] \in H /\ z[2] \in H}}
  BY <1>1, <1>2, MatrixLeft
<1>5. ASSUME NEW x \in m
      PROVE  \E i \in 0 .. n - 1 : \E j \in 0 .. n - 1 :
               /\ x = <<i, j>> /\ <<heads[i + 1], heads[j + 1]>> \in adj
               /\ heads[i + 1] \in Idx /\ heads[j + 1] \in Idx
  <2>1. PICK e \in adj : /\ e[1] \in H /\ e[2] \in H
                         /\ x = <<below(H, e[1]), below(H, e[2])>>
    BY <1>4
  <2>2. e = <<e[1], e[2]>> /\ e[1] \in Idx /\ e[2] \in Idx
    BY <1>1, <2>1
  <2>3. PICK i, j : i = below(H, e[1]) /\ j = below(H, e[2])
    OBVIOUS
  <2>4. i \in Nat /\ j \in Nat
    <3>1. \A p \in Idx : p \in 0 .. num
      BY <1>1 DEF Idx
    <3>2. \A p \in 0 .. num : below(H, p) \in Nat
      BY <1>1, Below
    <3> QED
      BY <2>2, <2>3, <3>1, <3>2
  <2>5. heads[i + 1] = e[1] /\ heads[j + 1] = e[2] /\ i + 1 \in 1 .. n /\ j + 1 \in 1 .. n
    BY <1>3, <2>1, <2>3
  <2>6. i \in 0 .. n - 1 /\ j \in 0 .. n - 1
    BY <1>3, <2>4, <2>5
  <2> QED
    BY <2>1, <2>2, <2>3, <2>5, <2>6
<1>6. m \in SUBSET ((0 .. n - 1) \X (0 .. n - 1))
  <2>1. ASSUME NEW x \in m
        PROVE  x \in (0 .. n - 1) \X (0 .. n - 1)
    <3>1. \E i \in 0 .. n - 1 : \E j \in 0 .. n - 1 :
               /\ x = <<i, j>> /\ <<heads[i + 1], heads[j + 1]>> \in adj
               /\ heads[i + 1] \in Idx /\ heads[j + 1] \in Idx
      BY <1>5
    <3>2. PICK i \in 0 .. n - 1 : \E j \in 0 .. n - 1 : x = <<i, j>>
      BY <3>1
    <3>3. PICK j \in 0 .. n - 1 : x = <<i, j>>
      BY <3>2
    <3> QED
      BY <3>3
  <2> QED
    BY <2>1
<1>7. ASSUME NEW i \in 0 .. n - 1, NEW j \in 0 .. n - 1, <<i, j>> \in m, <<j, i>> \in m
      PROVE  FALSE
  <2>1. /\ <<heads[i + 1], heads[j + 1]>> \in adj /\ <<heads[j + 1], heads[i + 1]>> \in adj
        /\ heads[i + 1] \in Idx /\ heads[j + 1] \in Idx
    BY <1>5, <1>7
  <2> QED
    BY <2>1 DEF NoMutualWait
<1> QED
  BY <1>6, <1>7

LEMMA MatrixCount ==
  ASSUME TypeOK, NoMutualWait, Built, NEW devOf,
         NEW n, n = Len(modifiedSubCmdList(devOf)),
         NEW c, c = Cardinality(modifiedAdjMatrix(devOf))
  PROVE  /\ n \in Nat \ {0} /\ c \in Nat
         /\ n = 1 => c = 0
         /\ n = 2 => c <= 1
         /\ n >= 3 => c + 3 <= n * n
<1>1. num \in Nat /\ num > 0
  BY MaxSubCmdsAssumption DEF TypeOK, Built
<1>2. n \in Nat
  BY GroupFacts
<1>3. n # 0
  <2>1. PICK h \in Heads(devOf) : h = HeadOf(devOf, 0)
    <3>1. 0 \in Idx
      BY <1>1 DEF Idx
    <3> QED
      BY <3>1, HeadFacts
  <2>2. below(Heads(devOf), h) + 1 \in 1 .. n
    BY <1>2, GroupFacts
  <2> QED
    BY <1>2, <2>2
<1>4. PICK m : m = modifiedAdjMatrix(devOf)
  OBVIOUS
<1>5. /\ m \in SUBSET ((0 .. n - 1) \X (0 .. n - 1))
      /\ \A i, j \in 0 .. n - 1 : ~(<<i, j>> \in m /\ <<j, i>> \in m)
  BY <1>4, ReducedMatrix
<1> QED
  BY <1>2, <1>3, <1>4, <1>5, MatrixBound

LEMMA LayoutFitsOf ==
  ASSUME TypeOK, NoMutualWait
  PROVE  LayoutFits
<1> SUFFICES ASSUME Built, NEW devOf,
                    NEW groups, groups = modifiedSubCmdList(devOf),
                    NEW matrix, matrix = modifiedAdjMatrix(devOf)
             PROVE  /\ fenceOfs(groups) + FenceHdr = scrListOfs(groups)
                    /\ \A size \in [Idx -> Sizes] :
                         subcmdBufOfs(groups, matrix, bufsOf(devOf, size))[num]
                           <= calcCmdMemSize(groups, bufsOf(devOf, size))
  BY DEF LayoutFits
<1>1. num \in Nat /\ num > 0
  BY MaxSubCmdsAssumption DEF TypeOK, Built
<1>2. PICK n \in Nat : n = Len(groups)
  BY GroupFacts
<1>3. n # 0
  BY <1>2, MatrixCount
<1>4. PICK c \in Nat : /\ c = Cardinality(matrix)
                       /\ n = 1 => c = 0
                       /\ n = 2 => c <= 1
                       /\ n >= 3 => c + 3 <= n * n
  BY <1>2, MatrixCount
<1>5. fenceOfs(groups) + FenceHdr = scrListOfs(groups)
  BY <1>2 DEF fenceOfs, scrListOfs, CmdHdr, FenceHdr
<1>6. PICK start \in Nat, next \in Nat :
        /\ start = cmdBufOfs(groups, matrix) /\ next = totalHdrSize(n)
        /\ start = 15 + 16 * n + c /\ next = 16 + n + n * (n + 1) + n + n * 13
  <2>1. cmdBufOfs(groups, matrix) = 15 + 16 * n + c
    BY <1>2, <1>4 DEF cmdBufOfs, scrListOfs, CmdHdr, FenceHdr, ScHdr
  <2>2. totalHdrSize(n) = 16 + n + n * (n + 1) + n + n * 13
    BY DEF totalHdrSize, CmdHdr, FenceHdr, ScHdr
  <2>3. 15 + 16 * n + c \in Nat /\ 16 + n + n * (n + 1) + n + n * 13 \in Nat
    OBVIOUS
  <2> QED
    BY <2>1, <2>2, <2>3
<1>7. Aligned(start) + 4 <= Aligned(next)
  <2>1. CASE n = 1
    <3>1. start = 31 /\ next = 33
      BY <1>4, <1>6, <2>1
    <3> QED
      BY <3>1 DEF Aligned, CmdAlign
  <2>2. CASE n = 2
    <3>1. (start = 47 \/ start = 48) /\ next = 52
      BY <1>4, <1>6, <2>2
    <3> QED
      BY <3>1 DEF Aligned, CmdAlign
  <2>3. CASE n >= 3
    <3>1. n * (n + 1) = n * n + n
      OBVIOUS
    <3>2. PICK q \in Nat : q = n * n
      OBVIOUS
    <3>3. next = 16 + n + (q + n) + n + n * 13 /\ c + 3 <= q
      BY <1>4, <1>6, <2>3, <3>1, <3>2
    <3>4. start + 4 <= next
      BY <1>6, <3>3
    <3> QED
      BY <3>4, AlignedFacts
  <2> QED
    BY <1>3, <2>1, <2>2, <2>3
<1>8. ASSUME NEW size \in [Idx -> Sizes]
      PROVE  subcmdBufOfs(groups, matrix, bufsOf(devOf, size))[num]
               <= calcCmdMemSize(groups, bufsOf(devOf, size))
  <2>1. PICK order, all, bufs : /\ order = groupOrder(groups)
                                /\ all = [k \in 1 .. num |-> k - 1]
                                /\ bufs = bufsOf(devOf, size)
    OBVIOUS
  <2>2. Enumerates(order, Idx)
    BY <2>1, GroupOrderEnumerates
  <2>3. Enumerates(all, Idx)
    <3>1. all \in [1 .. num -> Nat]
      BY <2>1
    <3>2. all \in Seq(Nat) /\ Len(all) = num
      BY <1>1, <3>1
    <3>3. \A k \in 1 .. num : all[k] = k - 1
      BY <2>1
    <3>4. \A k \in 1 .. num : all[k] \in Idx
      BY <1>1, <3>3 DEF Idx
    <3>5. \A j, k \in 1 .. num : all[j] = all[k] => j = k
      BY <3>3
    <3>6. ASSUME NEW i \in Idx
          PROVE  \E k \in 1 .. num : all[k] = i
      <4>1. i + 1 \in 1 .. num /\ (i + 1) - 1 = i
        BY <1>1 DEF Idx
      <4> QED
        BY <3>3, <4>1
    <3> QED
      BY <1>1, <3>2, <3>4, <3>5, <3>6 DEF Enumerates
  <2>4. ends(order, start, bufs)[num] <= ends(all, next, bufs)[num]
    <3>1. size \in [Idx -> Nat \ {0}]
      BY SizesAssumption
    <3> QED
      BY <1>1, <1>7, <2>1, <2>2, <2>3, <3>1, AnyOrderFits
  <2>5. subcmdBufOfs(groups, matrix, bufs) = ends(order, start, bufs)
    BY <1>6, <2>1 DEF subcmdBufOfs
  <2>6. calcCmdMemSize(groups, bufs) = ends(all, next, bufs)[num]
    BY <1>2, <1>6, <2>1 DEF calcCmdMemSize
  <2> QED
    BY <2>1, <2>4, <2>5, <2>6
<1> QED
  BY <1>5, <1>8
-----------------------------------------------------------------------------
LEMMA CommonMember ==
  ASSUME NEW i \in Idx, NEW j \in Idx, NEW k \in PackOf(i), k \in PackOf(j)
  PROVE  j \in PackOf(i)
BY DEF PackOf

LEMMA ShortLists ==
  ASSUME NEW l, NEW a, NEW b, Enumerates(l, {a, b})
  PROVE  /\ a = b => Len(l) = 1 /\ l[1] = a
         /\ a # b => Len(l) = 2 /\ ((l[1] = a /\ l[2] = b) \/ (l[1] = b /\ l[2] = a))
<1>1. PICK n \in Nat : n = Len(l)
  BY DEF Enumerates
<1>2. /\ \A x \in 1 .. n : l[x] = a \/ l[x] = b
      /\ \A x, y \in 1 .. n : l[x] = l[y] => x = y
      /\ \E x \in 1 .. n : l[x] = a
      /\ \E x \in 1 .. n : l[x] = b
  BY <1>1 DEF Enumerates
<1>3. PICK x \in 1 .. n, y \in 1 .. n : l[x] = a /\ l[y] = b
  BY <1>2
<1>4. \A z \in 1 .. n : z = x \/ z = y
  BY <1>2, <1>3
<1>5. CASE a = b
  <2>1. x = y
    BY <1>2, <1>3, <1>5
  <2>2. 1 \in 1 .. n /\ n \in 1 .. n
    OBVIOUS
  <2>3. n = 1 /\ x = 1
    BY <1>4, <2>1, <2>2
  <2> QED
    BY <1>1, <1>3, <1>5, <2>3
<1>6. CASE a # b
  <2>1. x # y
    BY <1>3, <1>6
  <2>2. n >= 2
    BY <2>1
  <2>3. 1 \in 1 .. n /\ 2 \in 1 .. n /\ n \in 1 .. n
    BY <2>2
  <2>4. n = 2 /\ ((x = 1 /\ y = 2) \/ (x = 2 /\ y = 1))
    BY <1>4, <2>1, <2>3
  <2> QED
    BY <1>1, <1>3, <1>6, <2>4
<1> QED
  BY <1>5, <1>6

\* A group whose header the driver can express: one sub-command, or the two
\* MDLA sub-commands of a pack.
Single(devOf, group, h) ==
  Members(devOf, h) = {h} /\ Len(group) = 1 /\ group[1] = h

Double(devOf, group, h) ==
  /\ packId[h] # 0 /\ Members(devOf, h) = PackOf(h)
  /\ Len(group) = 2 /\ group[1] # group[2] /\ PackOf(h) = {group[1], group[2]}
  /\ devOf[group[1]] = "MDLA" /\ devOf[group[2]] = "MDLA"

LEMMA GroupShape ==
  ASSUME TypeOK, NEW devOf, Expressible(devOf), NEW h \in Heads(devOf),
         NEW group, group = InOrder(Members(devOf, h))
  PROVE  Single(devOf, group, h) \/ Double(devOf, group, h)
<1>1. num \in Nat /\ h \in Idx /\ ~joinsGroup(devOf, h)
  BY MaxSubCmdsAssumption DEF TypeOK, Heads
<1>2. PICK M, P : M = Members(devOf, h) /\ P = PackOf(h)
  OBVIOUS
<1>3. h \in M /\ h \in P /\ P \subseteq Idx /\ M \in SUBSET Idx
  <2>1. HeadOf(devOf, h) = h
    BY <1>1, HeadFacts
  <2> QED
    BY <1>1, <1>2, <2>1 DEF Members, PackOf
<1>4. \A j \in M : j \in P /\ (j # h => joinsGroup(devOf, j) /\ PackOf(j) = P /\ packId[j] # 0)
  <2> TAKE j \in M
  <2>1. j \in Idx /\ HeadOf(devOf, j) = h /\ h \in PackOf(j)
    BY <1>2, HeadFacts DEF Members
  <2>2. j \in P
    BY <1>1, <1>2, <2>1, CommonMember DEF PackOf
  <2>3. j # h => joinsGroup(devOf, j)
    BY <2>1 DEF HeadOf
  <2>4. joinsGroup(devOf, j) => packId[j] # 0
    BY DEF joinsGroup
  <2>5. packId[j] # 0 => PackOf(j) = P
    BY <1>2, <2>1 DEF PackOf
  <2> QED
    BY <2>2, <2>3, <2>4, <2>5
<1>5. Enumerates(group, M)
  BY <1>1, <1>2, <1>3, InOrderEnumerates
<1>6. CASE M = {h}
  <2>1. Enumerates(group, {h, h})
    BY <1>5, <1>6
  <2>2. Len(group) = 1 /\ group[1] = h
    BY <2>1, ShortLists
  <2> QED
    BY <1>2, <1>6, <2>2 DEF Single
<1>7. CASE M # {h}
  <2>1. PICK j \in M : j # h
    BY <1>3, <1>7
  <2>2. j \in P /\ joinsGroup(devOf, j) /\ PackOf(j) = P /\ packId[j] # 0
    BY <1>4, <2>1
  <2>3. packId[h] # 0
    BY <1>2, <1>3, <2>2 DEF PackOf
  <2>4. PICK m \in P : \A y \in P : m <= y
    <3>1. P \subseteq Nat /\ P # {}
      BY <1>3 DEF Idx
    <3> QED
      BY <3>1, SmallestNat
  <2>5. Min(P) = m
    <3>1. \A x \in P : (\A y \in P : x <= y) => x = m
      <4>1. P \subseteq Nat
        BY <1>3 DEF Idx
      <4> QED
        BY <2>4, <4>1
    <3> QED
      BY <2>4, <3>1 DEF Min
  <2> DEFINE mdla == {k \in P : devOf[k] = "MDLA"}
  <2>6. mdla \subseteq {m} \/ (mdla = P /\ Cardinality(mdla) = 2)
    BY <1>1, <1>2, <2>3, <2>5 DEF Expressible
  <2>7. j # m /\ j \in mdla
    <3>1. devOf[j] = "MDLA" /\ \E k \in P : k < j
      BY <2>2 DEF joinsGroup
    <3>2. P \subseteq Nat
      BY <1>3 DEF Idx
    <3> QED
      BY <2>2, <2>4, <3>1, <3>2
  <2>8. mdla = P /\ Cardinality(P) = 2
    BY <2>6, <2>7
  <2>9. \A k \in P : devOf[k] = "MDLA"
    BY <2>8
  <2> HIDE DEF mdla
  <2>10. h = m
    <3>1. \A k \in P : ~(k < h)
      BY <1>1, <1>2, <1>3, <2>3, <2>9 DEF joinsGroup
    <3>2. P \subseteq Nat
      BY <1>3 DEF Idx
    <3> QED
      BY <1>3, <2>4, <3>1, <3>2
  <2>11. M = P
    <3>1. ASSUME NEW k \in P, k # h
          PROVE  k \in M
      <4>1. k \in Idx /\ packId[k] # 0 /\ PackOf(k) = P /\ h < k
        <5>1. k \in Idx /\ packId[k] # 0 /\ PackOf(k) = P
          BY <1>2, <1>3, <2>3, <3>1 DEF PackOf
        <5>2. h <= k /\ h \in Nat /\ k \in Nat
          BY <1>3, <2>4, <2>10, <5>1 DEF Idx
        <5> QED
          BY <3>1, <5>1, <5>2
      <4>2. joinsGroup(devOf, k)
        BY <1>3, <2>9, <3>1, <4>1 DEF joinsGroup
      <4>3. HeadOf(devOf, k) = h
        BY <2>5, <2>10, <4>1, <4>2 DEF HeadOf
      <4> QED
        BY <1>2, <4>1, <4>3 DEF Members
    <3> QED
      BY <1>3, <1>4, <3>1
  <2>12. P = {h, j}
    <3>1. IsFiniteSet(P)
      <4>1. IsFiniteSet(Idx)
        BY <1>1, FS_Interval DEF Idx
      <4> QED
        BY <1>3, <4>1, FS_Subset
    <3>2. IsFiniteSet(P \ {h}) /\ Cardinality(P \ {h}) = 1
      BY <1>3, <2>8, <3>1, FS_RemoveElement
    <3>3. PICK z : P \ {h} = {z}
      BY <3>2, FS_Singleton
    <3> QED
      BY <1>3, <2>1, <2>2, <3>3
  <2>13. Enumerates(group, {h, j})
    BY <1>5, <2>11, <2>12
  <2>14. Len(group) = 2 /\ ((group[1] = h /\ group[2] = j) \/ (group[1] = j /\ group[2] = h))
    <3>1. h # j
      BY <2>1
    <3> QED
      BY <2>13, <3>1, ShortLists
  <2>15. group[1] # group[2] /\ P = {group[1], group[2]} /\ group[1] \in P /\ group[2] \in P
    BY <2>1, <2>12, <2>14
  <2> QED
    BY <1>2, <2>3, <2>9, <2>11, <2>14, <2>15 DEF Double
<1> QED
  BY <1>6, <1>7
-----------------------------------------------------------------------------
(* Every sub-command has an offset of its own.                              *)
LEMMA OwnOffsets ==
  ASSUME num \in Nat, NEW order, Enumerates(order, Idx), NEW start \in Nat \ {0},
         NEW devOf, NEW size \in [Idx -> Nat \ {0}],
         NEW bufs, bufs = bufsOf(devOf, size), NEW e, e = ends(order, start, bufs),
         NEW ofs, ofs = [i \in Idx |-> Aligned(e[(CHOOSE k \in 1 .. num : order[k] = i) - 1])]
  PROVE  /\ \A i \in Idx : ofs[i] \in Nat \ {0}
         /\ \A i, j \in Idx : ofs[i] = ofs[j] => i = j
<1>1. Len(order) = num /\ (\A k \in 1 .. num : order[k] \in Idx)
      /\ \A i \in Idx : \E k \in 1 .. num : order[k] = i
  <2>1. Len(order) = num
    BY EnumerationLength
  <2> QED
    BY <2>1 DEF Enumerates
<1>2. /\ e \in [0 .. num -> Nat] /\ e[0] = start
      /\ \A k \in 1 .. num : e[k] = Aligned(e[k - 1]) + lengthOf(devOf, size, order[k])
  <2>1. /\ e \in [0 .. Len(order) -> Nat] /\ e[0] = start
        /\ \A k \in 1 .. Len(order) : e[k] = Aligned(e[k - 1]) + lengthOf(devOf, size, order[k])
    <3>1. Len(order) \in Nat /\ \A k \in 1 .. Len(order) : order[k] \in Idx
      BY <1>1
    <3> QED
      BY <3>1, EndsSteps
  <2> QED
    BY <1>1, <2>1
<1>3. PICK a : a = [k \in 0 .. num |-> Aligned(e[k])]
  OBVIOUS
<1>4. \A k \in 0 .. num : a[k] = Aligned(e[k]) /\ a[k] \in Nat /\ e[k] \in Nat /\ e[k] <= a[k]
  <2> TAKE k \in 0 .. num
  <2>1. e[k] \in Nat
    BY <1>2
  <2>2. Aligned(e[k]) \in Nat /\ e[k] <= Aligned(e[k])
    BY <2>1, AlignedFacts
  <2> QED
    BY <1>3, <2>1, <2>2
<1>5. \A k \in 0 .. num - 1 : a[k] < a[k + 1]
  <2> TAKE k \in 0 .. num - 1
  <2>1. k + 1 \in 1 .. num /\ (k + 1) - 1 = k /\ k \in 0 .. num /\ k + 1 \in 0 .. num
    OBVIOUS
  <2>2. PICK c \in Nat \ {0} : c = lengthOf(devOf, size, order[k + 1])
    BY <1>1, <2>1, EndOfBuffers
  <2>3. e[k + 1] = a[k] + c
    BY <1>2, <1>4, <2>1, <2>2
  <2>4. a[k] \in Nat /\ a[k + 1] \in Nat /\ e[k + 1] <= a[k + 1]
    BY <1>4, <2>1
  <2> QED
    BY <2>3, <2>4
<1> DEFINE S == {k \in 0 .. num : a[0] <= a[k] /\ \A j \in 0 .. num : j < k => a[j] < a[k]}
<1>6. 0 \in S
  BY <1>4
<1>7. ASSUME NEW k \in 0 .. num - 1, k \in S
      PROVE  k + 1 \in S
  <2>1. a[k] < a[k + 1] /\ k \in 0 .. num /\ k + 1 \in 0 .. num
    BY <1>5
  <2>2. a[0] <= a[k] /\ \A j \in 0 .. num : j < k => a[j] < a[k]
    BY <1>7
  <2>3. \A j \in 0 .. num : a[j] \in Nat
    BY <1>4
  <2>4. a[0] \in Nat /\ a[k] \in Nat /\ a[k + 1] \in Nat
    BY <2>1, <2>3
  <2>5. ASSUME NEW j \in 0 .. num, j < k + 1
        PROVE  a[j] < a[k + 1]
    <3>1. j < k \/ j = k
      BY <2>5
    <3> QED
      BY <2>1, <2>2, <2>3, <2>4, <3>1
  <2> QED
    BY <2>1, <2>2, <2>4, <2>5
<1> HIDE DEF S
<1>8. 0 .. num \subseteq S
  BY <1>6, <1>7, BoundedInduction
<1> USE DEF S
<1>9. \A k \in 0 .. num : a[0] <= a[k] /\ \A j \in 0 .. num : j < k => a[j] < a[k]
  BY <1>8
<1> HIDE DEF S
<1>10. ASSUME NEW i \in Idx
       PROVE  \E k \in 0 .. num - 1 : ofs[i] = a[k] /\ order[k + 1] = i
  <2>1. PICK k \in 1 .. num : k = CHOOSE x \in 1 .. num : order[x] = i
    BY <1>1
  <2>2. order[k] = i
    BY <1>1, <2>1
  <2>3. k - 1 \in 0 .. num - 1 /\ (k - 1) + 1 = k /\ k - 1 \in 0 .. num
    OBVIOUS
  <2>4. ofs[i] = a[k - 1]
    BY <1>4, <2>1, <2>3
  <2> QED
    BY <2>2, <2>3, <2>4
<1>11. ASSUME NEW i \in Idx
       PROVE  ofs[i] \in Nat \ {0}
  <2>1. PICK k \in 0 .. num - 1 : ofs[i] = a[k]
    BY <1>10
  <2>2. a[0] \in Nat /\ a[k] \in Nat /\ a[0] <= a[k] /\ start <= a[0]
    BY <1>2, <1>4, <1>9
  <2> QED
    BY <2>1, <2>2
<1>12. ASSUME NEW i \in Idx, NEW j \in Idx, ofs[i] = ofs[j]
       PROVE  i = j
  <2>1. PICK k \in 0 .. num - 1 : ofs[i] = a[k] /\ order[k + 1] = i
    BY <1>10
  <2>2. PICK l \in 0 .. num - 1 : ofs[j] = a[l] /\ order[l + 1] = j
    BY <1>10
  <2>3. k \in 0 .. num /\ l \in 0 .. num /\ a[k] = a[l] /\ a[k] \in Nat
    BY <1>4, <1>12, <2>1, <2>2
  <2>4. ~(k < l) /\ ~(l < k)
    BY <1>9, <2>3
  <2>5. k = l
    BY <2>4
  <2> QED
    BY <2>1, <2>2, <2>5
<1> QED
  BY <1>11, <1>12
-----------------------------------------------------------------------------
LEMMA FirstHeader ==
  ASSUME NEW r, NEW dev, NEW o, NEW pack, r = constructSubCmd(noHeader, dev, o, pack)
  PROVE  /\ r.dev = dev /\ r.packId = pack /\ r.cb = o /\ r.dual0 = 0 /\ r.dual1 = 0
         /\ DOMAIN r = {"dev", "packId", "cb", "dual0", "dual1"}
<1>1. noHeader.dev # "MDLA"
  BY DEF noHeader
<1>2. r = [noHeader EXCEPT !.dev = dev, !.packId = pack, !.cb = o]
  BY <1>1 DEF constructSubCmd
<1> QED
  BY <1>2 DEF noHeader

LEMMA SingleHeader ==
  ASSUME NEW group, Len(group) = 1, NEW pack, NEW devOf, NEW ofs,
         NEW hdr, hdr = header(group, pack, devOf, ofs)
  PROVE  hdr.packId = pack /\ hdr.cb = ofs[group[1]] /\ hdr.dual0 = 0 /\ hdr.dual1 = 0
<1> DEFINE Rec(f) == f = [k \in 0 .. Len(group) |->
                            IF k = 0 THEN noHeader
                            ELSE LET i == group[k]
                                 IN  constructSubCmd(f[k - 1], devOf[i], ofs[i], pack)]
           h == CHOOSE f : Rec(f)
<1>1. PICK i, r : i = group[1] /\ r = constructSubCmd(noHeader, devOf[i], ofs[i], pack)
  OBVIOUS
<1>2. PICK f : f = [k \in 0 .. 1 |-> IF k = 0 THEN noHeader ELSE r]
  OBVIOUS
<1>3. f[0] = noHeader /\ f[1] = r
  BY <1>2
<1>4. \A k \in 0 .. 1 : f[k] = IF k = 0 THEN noHeader
                               ELSE constructSubCmd(f[k - 1], devOf[group[k]], ofs[group[k]], pack)
  <2> TAKE k \in 0 .. 1
  <2>1. k = 0 \/ (k = 1 /\ k - 1 = 0)
    OBVIOUS
  <2> QED
    BY <1>1, <1>3, <2>1
<1>5. Rec(f)
  BY <1>2, <1>4
<1>6. Rec(h)
  BY <1>5
<1>7. hdr = h[1]
  BY DEF header
<1> HIDE DEF h
<1>8. h[0] = noHeader
  BY <1>6
<1>9. h[1] = constructSubCmd(h[1 - 1], devOf[i], ofs[i], pack)
  BY <1>1, <1>6
<1>10. hdr = r
  BY <1>1, <1>7, <1>8, <1>9
<1>11. r = constructSubCmd(noHeader, devOf[i], ofs[i], pack)
  BY <1>1
<1>12. r.packId = pack /\ r.cb = ofs[i] /\ r.dual0 = 0 /\ r.dual1 = 0
  BY <1>11, FirstHeader
<1> QED
  BY <1>1, <1>10, <1>12

LEMMA DoubleHeader ==
  ASSUME NEW group, Len(group) = 2, NEW pack, NEW devOf, NEW ofs,
         devOf[group[1]] = "MDLA", devOf[group[2]] = "MDLA",
         NEW hdr, hdr = header(group, pack, devOf, ofs)
  PROVE  hdr.packId = 0 /\ hdr.cb = 0 /\ hdr.dual0 = ofs[group[1]] /\ hdr.dual1 = ofs[group[2]]
<1> DEFINE Rec(f) == f = [k \in 0 .. Len(group) |->
                            IF k = 0 THEN noHeader
                            ELSE LET i == group[k]
                                 IN  constructSubCmd(f[k - 1], devOf[i], ofs[i], pack)]
           h == CHOOSE f : Rec(f)
<1>1. PICK i, j : i = group[1] /\ j = group[2]
  OBVIOUS
<1>2. PICK r, q : /\ r = constructSubCmd(noHeader, devOf[i], ofs[i], pack)
                  /\ q = constructSubCmd(r, devOf[j], ofs[j], pack)
  OBVIOUS
<1>3. PICK f : f = [k \in 0 .. 2 |-> IF k = 0 THEN noHeader ELSE IF k = 1 THEN r ELSE q]
  OBVIOUS
<1>4. f[0] = noHeader /\ f[1] = r /\ f[2] = q
  BY <1>3
<1>5. \A k \in 0 .. 2 : f[k] = IF k = 0 THEN noHeader
                               ELSE constructSubCmd(f[k - 1], devOf[group[k]], ofs[group[k]], pack)
  <2> TAKE k \in 0 .. 2
  <2>1. k = 0 \/ (k = 1 /\ k - 1 = 0) \/ (k = 2 /\ k - 1 = 1)
    OBVIOUS
  <2> QED
    BY <1>1, <1>2, <1>4, <2>1
<1>6. Rec(f)
  BY <1>3, <1>5
<1>7. Rec(h)
  BY <1>6
<1>8. hdr = h[2]
  BY DEF header
<1> HIDE DEF h
<1>9. h[0] = noHeader
  BY <1>7
<1>10. h[1] = constructSubCmd(h[1 - 1], devOf[i], ofs[i], pack)
  BY <1>1, <1>7
<1>11. h[2] = constructSubCmd(h[2 - 1], devOf[j], ofs[j], pack)
  BY <1>1, <1>7
<1>12. hdr = q
  BY <1>2, <1>8, <1>9, <1>10, <1>11
<1>13. /\ r.dev = "MDLA" /\ r.cb = ofs[i]
       /\ DOMAIN r = {"dev", "packId", "cb", "dual0", "dual1"}
  <2>1. r = constructSubCmd(noHeader, devOf[i], ofs[i], pack)
    BY <1>2
  <2>2. /\ r.dev = devOf[i] /\ r.cb = ofs[i]
        /\ DOMAIN r = {"dev", "packId", "cb", "dual0", "dual1"}
    BY <2>1, FirstHeader
  <2> QED
    BY <1>1, <2>2
<1>14. q = [r EXCEPT !.packId = 0, !.dual0 = ofs[i], !.dual1 = ofs[j], !.cb = 0]
  BY <1>1, <1>2, <1>13 DEF constructSubCmd
<1>15. q.packId = 0 /\ q.cb = 0 /\ q.dual0 = ofs[i] /\ q.dual1 = ofs[j]
  BY <1>13, <1>14
<1> QED
  BY <1>1, <1>12, <1>15
-----------------------------------------------------------------------------
(* What of the header of a group leads to which sub-command.                *)
Field == {"cb", "dual0", "dual1"}

LEMMA HeaderFields ==
  ASSUME NEW devOf, NEW group, NEW h, Single(devOf, group, h) \/ Double(devOf, group, h),
         NEW ofs, \A i \in Members(devOf, h) : ofs[i] \in Nat \ {0},
         \A i, j \in Members(devOf, h) : ofs[i] = ofs[j] => i = j,
         NEW pack, NEW hdr, hdr = header(group, pack, devOf, ofs)
  PROVE  /\ \A f \in Field : hdr[f] = 0 \/ \E i \in Members(devOf, h) : hdr[f] = ofs[i]
         /\ \A i \in Members(devOf, h) :
              \E f \in Field : hdr[f] = ofs[i] /\ \A x \in Field : hdr[x] = ofs[i] => x = f
         /\ hdr.packId = IF Members(devOf, h) = {h} THEN pack ELSE 0
<1>1. CASE Single(devOf, group, h)
  <2>1. Members(devOf, h) = {h} /\ Len(group) = 1 /\ group[1] = h /\ h \in {h}
    BY <1>1 DEF Single
  <2>2. hdr.packId = pack /\ hdr.cb = ofs[h] /\ hdr.dual0 = 0 /\ hdr.dual1 = 0
    BY <2>1, SingleHeader
  <2>3. ofs[h] # 0
    BY <2>1
  <2> QED
    BY <2>1, <2>2, <2>3 DEF Field
<1>2. CASE Double(devOf, group, h)
  <2>1. PICK a, b : a = group[1] /\ b = group[2]
    OBVIOUS
  <2>2. /\ Members(devOf, h) = {a, b} /\ a # b /\ Len(group) = 2
        /\ devOf[group[1]] = "MDLA" /\ devOf[group[2]] = "MDLA"
    BY <1>2, <2>1 DEF Double
  <2>3. hdr.packId = 0 /\ hdr.cb = 0 /\ hdr.dual0 = ofs[a] /\ hdr.dual1 = ofs[b]
    BY <2>1, <2>2, DoubleHeader
  <2>4. ofs[a] # 0 /\ ofs[b] # 0 /\ ofs[a] # ofs[b]
    BY <2>2
  <2>5. Members(devOf, h) # {h}
    BY <2>2
  <2> QED
    BY <2>2, <2>3, <2>4, <2>5 DEF Field
<1> QED
  BY <1>1, <1>2

LEMMA PacksReachDriverOf ==
  ASSUME TypeOK, NoMutualWait
  PROVE  PacksReachDriver
<1> SUFFICES ASSUME Built, NEW devOf \in [Idx -> DevTypes], Expressible(devOf)
             PROVE
    LET groups  == modifiedSubCmdList(devOf)
        ofs     == firstBufOfs(groups, modifiedAdjMatrix(devOf),
                               bufsOf(devOf, [i \in Idx |-> 1]))
        hdrs    == headers(groups, devOf, ofs)
        code(i) == {c \in (DOMAIN hdrs) \X {"cb", "dual0", "dual1"} :
                       hdrs[c[1]][c[2]] = ofs[i]}
        hdr(i)  == CHOOSE g \in DOMAIN hdrs : \E c \in code(i) : c[1] = g
        together(i, j) == \/ hdr(i) = hdr(j)
                          \/ /\ hdrs[hdr(i)].packId # 0
                             /\ hdrs[hdr(i)].packId = hdrs[hdr(j)].packId
    IN  /\ \A i \in Idx : Cardinality(code(i)) = 1
        /\ \A i, j \in Idx : together(i, j) <=> j \in PackOf(i)
  BY Zenon DEF PacksReachDriver
<1> DEFINE groups  == modifiedSubCmdList(devOf)
           matrix  == modifiedAdjMatrix(devOf)
           size    == [i \in Idx |-> 1]
           ofs     == firstBufOfs(groups, matrix, bufsOf(devOf, size))
           hdrs    == headers(groups, devOf, ofs)
           code(i) == {c \in (DOMAIN hdrs) \X {"cb", "dual0", "dual1"} :
                          hdrs[c[1]][c[2]] = ofs[i]}
           hdr(i)  == CHOOSE g \in DOMAIN hdrs : \E c \in code(i) : c[1] = g
           together(i, j) == \/ hdr(i) = hdr(j)
                             \/ /\ hdrs[hdr(i)].packId # 0
                                /\ hdrs[hdr(i)].packId = hdrs[hdr(j)].packId
<1> HIDE DEF groups, matrix, size, ofs, hdrs, code, hdr, together
<1>1. num \in Nat
  BY MaxSubCmdsAssumption DEF TypeOK
<1> PICK heads : heads = groupHeads(devOf)
  OBVIOUS
<1>2. PICK n \in Nat : n = Len(groups)
  BY GroupFacts DEF groups
<1>3. /\ DOMAIN groups = 1 .. n
      /\ \A g \in 1 .. n : /\ heads[g] \in Heads(devOf)
                            /\ groups[g] = InOrder(Members(devOf, heads[g]))
  BY <1>2, GroupFacts DEF groups
<1>4. ASSUME NEW i \in Idx
      PROVE  /\ groupOf(devOf, i) \in 1 .. n
             /\ heads[groupOf(devOf, i)] = HeadOf(devOf, i)
             /\ \A g \in 1 .. n : i \in Members(devOf, heads[g]) <=> groupOf(devOf, i) = g
  BY <1>2, GroupOfFacts DEF groups
<1>5. \A g \in 1 .. n : Single(devOf, groups[g], heads[g]) \/ Double(devOf, groups[g], heads[g])
  BY <1>3, GroupShape
<1>6. /\ \A i \in Idx : ofs[i] \in Nat \ {0}
      /\ \A i, j \in Idx : ofs[i] = ofs[j] => i = j
  <2>1. PICK start \in Nat \ {0} : start = cmdBufOfs(groups, matrix)
    <3>1. PICK c \in Nat : c = Cardinality(matrix)
      BY MatrixCount DEF matrix
    <3>2. cmdBufOfs(groups, matrix) = 15 + 16 * n + c
      BY <1>2, <3>1 DEF cmdBufOfs, scrListOfs, CmdHdr, FenceHdr, ScHdr
    <3>3. 15 + 16 * n + c \in Nat \ {0}
      OBVIOUS
    <3> QED
      BY <3>2, <3>3
  <2>2. PICK order, bufs, e : /\ order = groupOrder(groups) /\ bufs = bufsOf(devOf, size)
                              /\ e = ends(order, start, bufs)
    OBVIOUS
  <2>3. Enumerates(order, Idx)
    BY <2>2, GroupOrderEnumerates DEF groups
  <2>4. size \in [Idx -> Nat \ {0}]
    BY DEF size
  <2>5. ofs = [i \in Idx |-> Aligned(e[(CHOOSE k \in 1 .. num : order[k] = i) - 1])]
    BY <2>1, <2>2 DEF ofs, firstBufOfs, subcmdBufOfs
  <2> QED
    BY <1>1, <2>2, <2>3, <2>4, <2>5, OwnOffsets
<1>7. /\ DOMAIN hdrs = 1 .. n
      /\ \A g \in 1 .. n : hdrs[g] = header(groups[g], packId[groups[g][1]], devOf, ofs)
  BY <1>3 DEF hdrs, headers, modifiedPackIdList
<1>8. ASSUME NEW g \in 1 .. n
      PROVE  /\ \A f \in Field : \/ hdrs[g][f] = 0
                                  \/ \E i \in Idx : groupOf(devOf, i) = g /\ hdrs[g][f] = ofs[i]
             /\ \A i \in Idx : groupOf(devOf, i) = g =>
                  \E f \in Field : /\ hdrs[g][f] = ofs[i]
                                   /\ \A x \in Field : hdrs[g][x] = ofs[i] => x = f
             /\ hdrs[g].packId # 0 => /\ hdrs[g].packId = packId[heads[g]]
                                      /\ Members(devOf, heads[g]) = {heads[g]}
             /\ Members(devOf, heads[g]) = {heads[g]} => hdrs[g].packId = packId[heads[g]]
  <2>1. PICK group, h, pack, hd, M :
          /\ group = groups[g] /\ h = heads[g] /\ pack = packId[group[1]]
          /\ hd = hdrs[g] /\ M = Members(devOf, h)
    OBVIOUS
  <2>2. Single(devOf, group, h) \/ Double(devOf, group, h)
    BY <1>5, <2>1
  <2>3. \A i \in Idx : i \in M <=> groupOf(devOf, i) = g
    BY <1>4, <2>1
  <2>4. M \subseteq Idx
    BY <2>1 DEF Members
  <2>5. hd = header(group, pack, devOf, ofs)
    BY <1>7, <2>1
  <2>6. /\ \A i \in Members(devOf, h) : ofs[i] \in Nat \ {0}
        /\ \A i, j \in Members(devOf, h) : ofs[i] = ofs[j] => i = j
    BY <1>6, <2>1, <2>4
  <2>7. /\ \A f \in Field : hd[f] = 0 \/ \E i \in M : hd[f] = ofs[i]
        /\ \A i \in M : \E f \in Field : /\ hd[f] = ofs[i]
                                          /\ \A x \in Field : hd[x] = ofs[i] => x = f
        /\ hd.packId = IF M = {h} THEN pack ELSE 0
    BY <2>1, <2>2, <2>5, <2>6, HeaderFields
  <2>8. M = {h} => pack = packId[h]
    <3>1. Double(devOf, group, h) => M # {h}
      BY <2>1 DEF Double
    <3>2. Single(devOf, group, h) => group[1] = h
      BY DEF Single
    <3> QED
      BY <2>1, <2>2, <3>1, <3>2
  <2> QED
    BY <2>1, <2>3, <2>4, <2>7, <2>8
<1>9. ASSUME NEW i \in Idx
      PROVE  Cardinality(code(i)) = 1 /\ hdr(i) = groupOf(devOf, i)
  <2>1. PICK g \in 1 .. n : g = groupOf(devOf, i)
    BY <1>4
  <2>2. PICK f \in Field : hdrs[g][f] = ofs[i] /\ \A x \in Field : hdrs[g][x] = ofs[i] => x = f
    BY <1>8, <2>1
  <2>3. code(i) = {c \in (1 .. n) \X Field : hdrs[c[1]][c[2]] = ofs[i]}
    BY <1>7 DEF code, Field
  <2>4. <<g, f>> \in code(i)
    BY <2>2, <2>3
  <2>5. ASSUME NEW c \in code(i)
        PROVE  c = <<g, f>>
    <3>1. PICK y \in 1 .. n, x \in Field : c = <<y, x>> /\ hdrs[y][x] = ofs[i]
      BY <2>3
    <3>2. ofs[i] # 0
      BY <1>6
    <3>3. PICK j \in Idx : groupOf(devOf, j) = y /\ hdrs[y][x] = ofs[j]
      BY <1>8, <3>1, <3>2
    <3>4. j = i
      BY <1>6, <3>1, <3>3
    <3>5. y = g
      BY <2>1, <3>3, <3>4
    <3> QED
      BY <2>2, <3>1, <3>5
  <2>6. code(i) = {<<g, f>>}
    BY <2>4, <2>5
  <2>7. Cardinality(code(i)) = 1
    BY <2>6, FS_Singleton
  <2>8. \A y : y \in DOMAIN hdrs /\ (\E c \in code(i) : c[1] = y) <=> y = g
    <3>1. \A c \in code(i) : c[1] = g
      BY <2>6
    <3> QED
      BY <1>7, <2>6, <3>1
  <2>9. hdr(i) = g
    BY <2>8 DEF hdr
  <2> QED
    BY <2>1, <2>7, <2>9
<1>10. ASSUME NEW i \in Idx, NEW j \in Idx, together(i, j)
       PROVE  j \in PackOf(i)
  <2>1. PICK g \in 1 .. n, y \in 1 .. n : g = groupOf(devOf, i) /\ y = groupOf(devOf, j)
    BY <1>4
  <2>2. /\ heads[g] \in PackOf(i) /\ heads[y] \in PackOf(j)
        /\ heads[g] \in Idx /\ heads[y] \in Idx
    BY <1>3, <1>4, <2>1, HeadFacts DEF Heads
  <2>3. CASE g = y
    BY <2>2, <2>3, CommonMember
  <2>4. CASE hdrs[g].packId # 0 /\ hdrs[g].packId = hdrs[y].packId
    <3>1. packId[heads[g]] # 0 /\ packId[heads[g]] = packId[heads[y]]
      BY <1>8, <2>4
    <3>2. packId[i] = packId[heads[g]] /\ packId[j] = packId[heads[y]]
      BY <2>2, <3>1 DEF PackOf
    <3> QED
      BY <3>1, <3>2 DEF PackOf
  <2> QED
    BY <1>9, <1>10, <2>1, <2>3, <2>4 DEF together
<1>11. ASSUME NEW i \in Idx, NEW j \in PackOf(i)
       PROVE  together(i, j)
  <2>1. j \in Idx
    BY DEF PackOf
  <2>2. PICK g \in 1 .. n, y \in 1 .. n : g = groupOf(devOf, i) /\ y = groupOf(devOf, j)
    BY <1>4, <2>1
  <2>3. hdr(i) = g /\ hdr(j) = y
    BY <1>9, <2>1, <2>2
  <2>4. CASE g = y
    BY <2>3, <2>4 DEF together
  <2>5. CASE g # y
    <3>1. i # j /\ packId[i] # 0 /\ packId[j] = packId[i]
      BY <2>2, <2>5 DEF PackOf
    <3>2. PICK a, b : a = heads[g] /\ b = heads[y]
      OBVIOUS
    <3>3. i \in Members(devOf, a) /\ j \in Members(devOf, b)
      BY <1>4, <2>1, <2>2, <3>2
    <3>4. a \in PackOf(i) /\ b \in PackOf(j)
      BY <2>1, <3>3, HeadFacts DEF Members
    <3>5. packId[a] = packId[i] /\ packId[b] = packId[i]
      BY <3>1, <3>4 DEF PackOf
    <3>6. i \in PackOf(b) /\ j \in PackOf(a)
      BY <2>1, <3>1, <3>5 DEF PackOf
    <3>7. i \notin Members(devOf, b) /\ j \notin Members(devOf, a)
      BY <1>4, <2>1, <2>2, <2>5, <3>2
    <3>8. Members(devOf, a) # PackOf(a) /\ Members(devOf, b) # PackOf(b)
      BY <3>6, <3>7
    <3>9. Members(devOf, a) = {a} /\ Members(devOf, b) = {b}
      BY <1>5, <3>2, <3>8 DEF Single, Double
    <3>10. hdrs[g].packId = packId[i] /\ hdrs[y].packId = packId[i]
      BY <1>8, <3>2, <3>5, <3>9
    <3> QED
      BY <2>3, <3>1, <3>10 DEF together
  <2> QED
    BY <2>4, <2>5
<1>12. \A i \in Idx : Cardinality(code(i)) = 1
  BY <1>9
<1>13. \A i, j \in Idx : together(i, j) <=> j \in PackOf(i)
  BY <1>10, <1>11
<1> QED
  BY <1>12, <1>13 DEF groups, matrix, size, ofs, hdrs, code, hdr, together
-----------------------------------------------------------------------------
(* In every graph the calls can build, the reduced matrix of build() of     *)
(* apusysCmd_v1 orders the groups as the whole one ordered their members:   *)
(* dropping the rows of all but the first loses and invents no wait.        *)
THEOREM GroupsKeepOrder == Spec => []ReducedOrder
<1>1. TypeOK /\ PackUniform /\ NoWaitInsidePack => ReducedOrder
  BY ReducedOrderOf
<1> QED
  BY <1>1, NextIsFreeNext, TypeCorrect, GraphCorrect, PTL DEF Spec, FreeSpec

(* What construct() of apusysCmd_v1 places, in the order of the groups, ends *)
(* inside the memory that calcCmdMemSize() counted in the order of the       *)
(* sub-commands, for any number of sub-commands and any sizes of buffers.    *)
THEOREM LayoutInMemory == Spec => []LayoutFits
<1>1. TypeOK /\ NoMutualWait => LayoutFits
  BY LayoutFitsOf
<1> QED
  BY <1>1, NextIsFreeNext, TypeCorrect, NobodyWaitsMutually, PTL DEF Spec, FreeSpec

(* The headers that construct() of apusysSubCmd_v1 fills in turn lead the   *)
(* driver to the code of every sub-command by one field, and start together *)
(* exactly what was packed, for the packs the headers can express.          *)
THEOREM PacksStartTogether == Spec => []PacksReachDriver
<1>1. TypeOK /\ NoMutualWait => PacksReachDriver
  BY PacksReachDriverOf
<1> QED
  BY <1>1, NextIsFreeNext, TypeCorrect, NobodyWaitsMutually, PTL DEF Spec, FreeSpec
=============================================================================
