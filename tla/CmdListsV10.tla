---------------------------- MODULE CmdListsV10 ----------------------------
(***************************************************************************)
(* The sub-commands of an apusysCmd of middleware 1.0 and how they depend  *)
(* on each other.  Each sub-command keeps a list of predecessors and one   *)
(* of successors; addSubCmd() and packSubCmd() keep the two in step, and   *)
(* count what constructCmd() will write for them.  Lists are sets here:    *)
(* the caller names a dependency once, and the order inside a list means   *)
(* nothing to the driver.                                                  *)
(*                                                                         *)
(* Sizes and offsets are counted in elements of four bytes.                *)
(***************************************************************************)
EXTENDS Sums, FiniteSets

CONSTANTS MaxSubCmds,       \* bound on sub-commands
          Devices           \* device types the caller uses

ASSUME ListsAssumption == MaxSubCmds \in Nat

VARIABLES num,              \* mSubCmdList.size()
          device,           \* per sub-command: mDeviceType
          pred,             \* per sub-command: mPredecessorList
          succ,             \* per sub-command: mSuccessorList
          packId,           \* per sub-command: mPackId
          packNum,          \* mPackNum
          depSize,          \* mDependencySize
          mdlaNum           \* mTypeCmdNum.at(APUSYS_DEVICE_MDLA)

lists == <<num, device, pred, succ, packId, packNum, depSize, mdlaNum>>

Idx == 0 .. num - 1

\* mSubCmdList.push_back(), for one member of the sub-commands.
PushBack(f, x) == [i \in 0 .. num |-> IF i = num THEN x ELSE f[i]]

\* The new sub-command joins the lists f of the sub-commands S.
Joined(f, S) == [i \in Idx |-> IF i \in S THEN f[i] \cup {num} ELSE f[i]]

Pushed(dev) ==
  /\ num < MaxSubCmds
  /\ num' = num + 1
  /\ device' = PushBack(device, dev)
  /\ mdlaNum' = IF dev = "MDLA" THEN mdlaNum + 1 ELSE mdlaNum

-----------------------------------------------------------------------------
addLinksOneWay(dev, dependency) ==
  /\ Pushed(dev)
  /\ pred' = PushBack(pred, dependency)
  /\ succ' = PushBack(succ, {})
  /\ packId' = PushBack(packId, 0)
  /\ depSize' = depSize + 1 + Cardinality(dependency)
  /\ UNCHANGED packNum

\* addSubCmd(): the new sub-command waits for existing ones.
addLinks(dev, dependency) ==
  /\ Pushed(dev)
  /\ pred' = PushBack(pred, dependency)
  /\ succ' = PushBack(Joined(succ, dependency), {})
  /\ packId' = PushBack(packId, 0)
  /\ depSize' = depSize + 1 + Cardinality(dependency)
  /\ UNCHANGED packNum

\* The pack of target, which is a new one if it has none.
packOfTarget(target) == IF packId[target] = 0 THEN packNum + 1 ELSE packId[target]

packLinksCountsPredOnly(dev, target) ==
  LET p == packOfTarget(target)
  IN  /\ device[target] = dev
      /\ Pushed(dev)
      /\ pred' = PushBack(Joined(pred, succ[target]), pred[target])
      /\ succ' = PushBack(Joined(succ, pred[target]), succ[target])
      /\ packId' = PushBack([packId EXCEPT ![target] = p], p)
      /\ packNum' = IF packId[target] = 0 THEN p ELSE packNum
      /\ depSize' = depSize + 1 + Cardinality(pred[target])

packLinksBehindTarget(dev, target) ==
  LET p == packOfTarget(target)
  IN  /\ device[target] = dev
      /\ Pushed(dev)
      /\ pred' = PushBack(Joined(pred, succ[target]), {target})
      /\ succ' = PushBack(Joined(succ, {target}), succ[target])
      /\ packId' = PushBack([packId EXCEPT ![target] = p], p)
      /\ packNum' = IF packId[target] = 0 THEN p ELSE packNum
      /\ depSize' = depSize + 2 + Cardinality(succ[target])

\* packSubCmd(): the new sub-command has the predecessors and successors of
\* target, which must be of the same device type.
packLinks(dev, target) ==
  LET p == packOfTarget(target)
  IN  /\ device[target] = dev
      /\ Pushed(dev)
      /\ pred' = PushBack(Joined(pred, succ[target]), pred[target])
      /\ succ' = PushBack(Joined(succ, pred[target]), succ[target])
      /\ packId' = PushBack([packId EXCEPT ![target] = p], p)
      /\ packNum' = IF packId[target] = 0 THEN p ELSE packNum
      /\ depSize' = depSize + 1 + Cardinality(pred[target]) + Cardinality(succ[target])

NoLinks ==
  /\ num = 0 /\ packNum = 0 /\ depSize = 0 /\ mdlaNum = 0
  /\ device = [i \in {} |-> ""] /\ packId = [i \in {} |-> 0]
  /\ pred = [i \in {} |-> {}] /\ succ = [i \in {} |-> {}]

-----------------------------------------------------------------------------
\* sizeof(apusys_cmd_hdr) with the first entry of the list of offsets,
\* apusys_cmd_hdr_fence, apusys_sc_hdr_cmn and apusys_sc_hdr_mdla.
Hdr      == 12
FenceHdr == 4
ScHdr    == 10
MdlaHdr  == 3

_calcCmdSize == (Hdr - 1) + FenceHdr + num + depSize + num + num * ScHdr + mdlaNum * MdlaHdr

\* constructCmd(): the list of offsets and the fence, the headers of the
\* sub-commands, and behind them the lists of successors.
fenceOfs(n) == Hdr - 1 + n
ofs_scr_list ==
  fenceOfs(num) + FenceHdr
    + num * ScHdr + Cardinality({i \in Idx : device[i] = "MDLA"}) * MdlaHdr

ofs_pdr_cnt_list == ofs_scr_list + depSize

\* The lists of successors: a count and the members, without the sub-command
\* itself, of each.
scrListEnd ==
  ofs_scr_list + SumTo([i \in Idx |-> 1 + Cardinality(succ[i] \ {i})], num)

-----------------------------------------------------------------------------
\* Values the C++ types and the bound of the model allow.
ListsTypeOK ==
  /\ num \in 0 .. MaxSubCmds /\ packNum \in Nat /\ depSize \in Nat /\ mdlaNum \in Nat
  /\ device \in [Idx -> Devices] /\ packId \in [Idx -> 0 .. packNum]
  /\ pred \in [Idx -> SUBSET Idx] /\ succ \in [Idx -> SUBSET Idx]

\* The two lists tell the driver the same story, also after sub-commands
\* were packed onto ones that others wait for: the driver counts the
\* predecessors of a sub-command down once for each list of successors it is
\* in, so one that is counted twice or not at all never starts or starts early.
ListsMatch == \A i, j \in Idx : j \in succ[i] <=> i \in pred[j]

\* All of a pack wait for the same sub-commands, and the sub-commands can be
\* put into an order in which each runs after what it waits for, with all of a
\* pack at the same place: no chain of dependencies leads from a pack back to
\* itself, so no pack waits for itself.
Ordered(rank) ==
  /\ \A i, j \in Idx : j \in succ[i] => rank[i] < rank[j]
  /\ \A i, j \in Idx : packId[i] = packId[j] /\ packId[i] # 0 => rank[i] = rank[j]

PacksOrdered ==
  /\ \A i, j \in Idx : packId[i] = packId[j] /\ packId[i] # 0 => pred[i] = pred[j]
  /\ \E rank \in [Idx -> 1 .. num] : Ordered(rank)

\* What addSubCmd() and packSubCmd() counted is what constructCmd() writes:
\* the lists of successors end where the counts of predecessors start, and
\* those end with the buffer.
ListsFillBuffer ==
  /\ scrListEnd = ofs_pdr_cnt_list
  /\ ofs_pdr_cnt_list + num = _calcCmdSize

=============================================================================
