------------------------------ MODULE CmdGraph ------------------------------
(***************************************************************************)
(* The sub-commands of one apusysCmd_v2 and their dependencies: creation,  *)
(* setDependencyEdge, setDependencyPack, and the dirty flags that make     *)
(* submit() rebuild the exec-info buffer the kernel writes its             *)
(* per-sub-command results to.  Every call runs under the command's mMtx,  *)
(* so each is one action.  A call that is refused (null handle, same       *)
(* index, same pack, reversed edge, appendix already packed) changes       *)
(* nothing and is not an action.                                           *)
(***************************************************************************)
EXTENDS Naturals

CONSTANT MaxSubCmds     \* bound on the number of sub-commands

ASSUME MaxSubCmdsAssumption == MaxSubCmds \in Nat

VARIABLES num,          \* mSubCmdList.size(); the indices are 0 .. num-1
          packId,       \* mPackIdList: 0 is "not packed"
          adj,          \* mAdjMatrix as a relation: <<i, j>> is "j waits for i"
          dirty,        \* mDirty
          execNum,      \* sub-command records mExecInfo has room for; 0: nullptr
          submitted     \* arguments of the last APU_MDW_IOCTL_CMD

graph == <<num, packId, adj>>
vars  == <<num, packId, adj, dirty, execNum, submitted>>

Idx == 0 .. num - 1

Row(i) == {j \in Idx : <<i, j>> \in adj}

\* The indices that share i's pack, i alone when it is not packed.
PackOf(i) == IF packId[i] = 0 THEN {i} ELSE {j \in Idx : packId[j] = packId[i]}

-----------------------------------------------------------------------------
createSubCmdForgetsDirty ==
  /\ num < MaxSubCmds
  /\ num' = num + 1
  /\ packId' = [i \in 0 .. num |-> IF i = num THEN 0 ELSE packId[i]]
  /\ UNCHANGED <<adj, dirty, execNum, submitted>>

createSubCmdNoPackId ==
  /\ num < MaxSubCmds
  /\ num' = num + 1
  /\ dirty' = dirty \cup {"SUBCMD"}
  /\ UNCHANGED <<packId, adj, execNum, submitted>>

createSubCmd ==
  /\ num < MaxSubCmds
  /\ num' = num + 1
  /\ packId' = [i \in 0 .. num |-> IF i = num THEN 0 ELSE packId[i]]
  /\ dirty' = dirty \cup {"SUBCMD"}
  /\ UNCHANGED <<adj, execNum, submitted>>

edgeAllowedReversed(pred, succ) ==
  /\ pred # succ
  /\ packId[pred] # 0 => packId[pred] # packId[succ]

edgeAllowed(pred, succ) ==
  /\ pred # succ
  /\ packId[pred] # 0 => packId[pred] # packId[succ]
  /\ <<succ, pred>> \notin adj

withEdgeUnspread(pred, succ) == adj \cup ({pred} \X PackOf(succ))

\* The row of the predecessor gains the successor's whole pack, and then
\* replaces the row of every sub-command packed with the predecessor.
withEdge(pred, succ) ==
  {e \in adj : e[1] \notin PackOf(pred)}
     \cup (PackOf(pred) \X (Row(pred) \cup PackOf(succ)))

setDependencyEdge(pred, succ) ==
  /\ edgeAllowed(pred, succ)
  /\ adj' = withEdge(pred, succ)
  /\ dirty' = dirty \cup {"CMDBUF"}
  /\ UNCHANGED <<num, packId, execNum, submitted>>

newPackIdOffByOne(main) == IF packId[main] = 0 THEN main ELSE packId[main]

newPackId(main) == IF packId[main] = 0 THEN main + 1 ELSE packId[main]

withPackHorizontalOnly(main, appendix) ==
  {e \in adj : e[1] # appendix} \cup ({appendix} \X Row(main))

\* The appendix takes the main sub-command's row ("horizontal") and then is
\* added to every row that holds the main sub-command ("vertical").
withPack(main, appendix) ==
  LET hor == {e \in adj : e[1] # appendix} \cup ({appendix} \X Row(main))
  IN  hor \cup ({i \in Idx : <<i, main>> \in hor} \X {appendix})

setDependencyPack(main, appendix) ==
  /\ packId[appendix] = 0
  /\ main # appendix
  /\ packId' = [packId EXCEPT ![main] = newPackId(main),
                              ![appendix] = newPackId(main)]
  /\ adj' = withPack(main, appendix)
  /\ dirty' = dirty \cup {"CMDBUF"}
  /\ UNCHANGED <<num, execNum, submitted>>

\* construct(): the old exec-info buffer is freed first, so a failed
\* allocation leaves none, and the flags are reset only on success.
construct(allocOk) ==
  IF num = 0
  THEN UNCHANGED <<execNum, dirty>>
  ELSE /\ execNum' = IF allocOk THEN num ELSE 0
       /\ dirty' = IF allocOk THEN {} ELSE dirty

build(allocOk) == construct(allocOk) /\ UNCHANGED <<num, packId, adj, submitted>>

\* submit() rebuilds when dirty, ignores the outcome, and hands the kernel
\* the flattened graph with the handle of the exec-info buffer.
submit(allocOk) ==
  /\ IF dirty \cap {"SUBCMD", "CMDBUF"} # {}
     THEN construct(allocOk)
     ELSE UNCHANGED <<execNum, dirty>>
  /\ submitted' = [num |-> num, execNum |-> execNum']
  /\ UNCHANGED graph

-----------------------------------------------------------------------------
Init == /\ num = 0
        /\ packId = [i \in {} |-> 0]
        /\ adj = {}
        /\ dirty = {}
        /\ execNum = 0
        /\ submitted = [num |-> 0, execNum |-> 0]

\* The API's condition on a pack call: "appendix subcmd shouldn't be set
\* dependency before this API".
NoDependency(i) == \A j \in Idx : <<i, j>> \notin adj /\ <<j, i>> \notin adj

Common == \/ createSubCmd
          \/ \E p, s \in Idx : setDependencyEdge(p, s)
          \/ \E ok \in BOOLEAN : build(ok) \/ submit(ok)

\* Callers that keep the API's condition.
Next == \/ Common
        \/ \E m, a \in Idx : NoDependency(a) /\ setDependencyPack(m, a)

\* Callers that do not.
FreeNext == \/ Common
            \/ \E m, a \in Idx : setDependencyPack(m, a)

Spec     == Init /\ [][Next]_vars
FreeSpec == Init /\ [][FreeNext]_vars

-----------------------------------------------------------------------------
TypeOK == /\ num \in 0 .. MaxSubCmds
          /\ packId \in [Idx -> 0 .. num]
          /\ adj \subseteq Idx \X Idx
          /\ dirty \subseteq {"SUBCMD", "CMDBUF"}
          /\ execNum \in 0 .. MaxSubCmds
          /\ submitted \in [num : 0 .. MaxSubCmds, execNum : 0 .. MaxSubCmds]

(* A pack id names the sub-command the pack grew from: that sub-command     *)
(* still carries it, and no pack is left with a single member, whatever the *)
(* order of pack calls (setDependencyPack derives an id from an index and   *)
(* never re-labels).                                                        *)
PackIdsSound ==
  \A i \in Idx : packId[i] # 0 =>
      /\ packId[i] - 1 \in Idx
      /\ packId[packId[i] - 1] = packId[i]
      /\ \E j \in Idx \ {i} : packId[j] = packId[i]

(* Packed sub-commands are triggered together: they wait for the same       *)
(* predecessors and hold back the same successors, although each call only  *)
(* patches a few rows and cells of the matrix.                              *)
PackUniform ==
  \A i, j \in Idx : packId[i] # 0 /\ packId[i] = packId[j] =>
      \A k \in Idx : /\ <<i, k>> \in adj <=> <<j, k>> \in adj
                     /\ <<k, i>> \in adj <=> <<k, j>> \in adj

(* No sub-command waits for itself or for one it is triggered with: the     *)
(* refusals of setDependencyEdge are not undone by a later pack call.       *)
NoWaitInsidePack == \A i \in Idx : \A j \in PackOf(i) : <<i, j>> \notin adj

(* Two sub-commands never wait for each other, also when the two edges were *)
(* set through different members of their packs.                            *)
NoMutualWait == \A i, j \in Idx : ~(<<i, j>> \in adj /\ <<j, i>> \in adj)

(* The kernel is never given an exec-info buffer of another size than the   *)
(* sub-commands it will write results for: submit() rebuilds exactly when   *)
(* a sub-command was created since the buffer was sized.                    *)
ExecInfoFits == submitted.execNum \in {0, submitted.num}

(* What the check "check adj matrix circular" of setDependencyEdge is for:  *)
(* the dependencies contain no cycle, so every sub-command gets its turn.   *)
Acyclic == \A S \in SUBSET Idx :
               S # {} => \E i \in S : \A j \in S : <<i, j>> \notin adj

-----------------------------------------------------------------------------
(* The matrix and the pack ids, maintained cell by cell, implement the      *)
(* partition into packs and the order of whole packs that the API describes.*)
Order == INSTANCE PackedOrder WITH
           Item  <- 0 .. MaxSubCmds - 1,
           packs <- {PackOf(i) : i \in Idx},
           order <- {<<PackOf(e[1]), PackOf(e[2])>> : e \in adj}

ImplementsPackedOrder == Order!Spec
=============================================================================
