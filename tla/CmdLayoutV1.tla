---------------------------- MODULE CmdLayoutV1 ----------------------------
(***************************************************************************)
(* What build() of apusysCmd_v1 makes of the graph of CmdGraph, which both *)
(* executors share.  The driver of the first executor has no notion of two *)
(* packed MDLA sub-commands: updateModifiedInfo() puts them into one group *)
(* with one header and takes the rows and columns of all but the first out *)
(* of the matrix; calcCmdMemSize() computes the size of the command memory *)
(* and construct() places headers, lists and command buffers in it.        *)
(*                                                                         *)
(* These are functions of the graph, of the device type of every           *)
(* sub-command (devOf) and of the sizes of its command buffers (bufsOf),   *)
(* so they are operators, and the properties say what they return in every *)
(* graph a command can be built from.  Offsets and sizes are counted in    *)
(* elements of four bytes.                                                 *)
(***************************************************************************)
EXTENDS CmdGraph, Integers, Sequences, FiniteSetsExt, Sums

CONSTANT Sizes          \* sizes of the last command buffer to consider

ASSUME SizesAssumption == Sizes \subseteq Nat \ {0}

\* sizeof(apusys_cmd_hdr) with the first entry of the offset list,
\* apusys_cmd_hdr_fence, apusys_sc_hdr, and MDW_DEFAULT_ALIGN.
CmdHdr    == 12
FenceHdr  == 4
ScHdr     == 13
CmdAlign  == 4

Aligned(ofs) == ((ofs + CmdAlign - 1) \div CmdAlign) * CmdAlign

\* An MDLA sub-command has a command buffer for its description and one for
\* its code, a VPU sub-command has one.
DevTypes == {"MDLA", "VPU"}

bufsOf(devOf, size) ==
  [i \in Idx |-> IF devOf[i] = "MDLA" THEN <<1, size[i]>> ELSE <<size[i]>>]

\* The members of S as a list, filled in the order of the indices.
InOrder(S) ==
  LET list[k \in 0 .. num] ==
        IF k = 0 THEN <<>>
        ELSE IF k - 1 \in S THEN Append(list[k - 1], k - 1)
        ELSE list[k - 1]
  IN  list[num]

-----------------------------------------------------------------------------
\* updateModifiedInfo(): a packed MDLA sub-command joins the first group whose
\* head has its pack id.  The first of a pack is always a head.
joinsGroup(devOf, i) ==
  /\ packId[i] # 0 /\ devOf[i] = "MDLA"
  /\ \E j \in PackOf(i) : j < i

HeadOf(devOf, i) == IF joinsGroup(devOf, i) THEN Min(PackOf(i)) ELSE i

\* mModifiedSubCmdList
groupHeads(devOf) == InOrder({i \in Idx : ~joinsGroup(devOf, i)})

modifiedSubCmdList(devOf) ==
  LET heads == groupHeads(devOf)
  IN  [g \in DOMAIN heads |-> InOrder({i \in Idx : HeadOf(devOf, i) = heads[g]})]

\* Its sub-commands, group by group.
groupOrder(groups) ==
  LET list[g \in 0 .. Len(groups)] == IF g = 0 THEN <<>> ELSE list[g - 1] \o groups[g]
  IN  list[Len(groups)]

\* mModifiedPackIdList, of the first build
modifiedPackIdList(groups) == [g \in DOMAIN groups |-> packId[groups[g][1]]]

\* Row and column k leave the matrix, and what is behind them moves up.
withoutIndex(k, matrix) ==
  LET moved(i) == IF i > k THEN i - 1 ELSE i
  IN  {<<moved(e[1]), moved(e[2])>> : e \in {x \in matrix : x[1] # k /\ x[2] # k}}

modifiedAdjMatrixFrontFirst(devOf) ==
  LET left[k \in 0 .. num] ==
        IF k = 0 THEN adj
        ELSE IF joinsGroup(devOf, k - 1) THEN withoutIndex(k - 1, left[k - 1])
        ELSE left[k - 1]
  IN  left[num]

\* mModifiedAdjMatrix: the grouped sub-commands are taken out, the last first;
\* this is what is left when those from index i on are.
matrixWithout(devOf) ==
  LET left[k \in 0 .. num] ==
        LET i == num - k IN
        IF k = 0 THEN adj
        ELSE IF joinsGroup(devOf, i) THEN withoutIndex(i, left[k - 1])
        ELSE left[k - 1]
  IN  left

modifiedAdjMatrix(devOf) == matrixWithout(devOf)[num]

-----------------------------------------------------------------------------
\* The end of a row of command buffers that starts behind ofs.
endOf(ofs, sizes) ==
  LET end[k \in 0 .. Len(sizes)] ==
        IF k = 0 THEN ofs ELSE Aligned(end[k - 1]) + sizes[k]
  IN  end[Len(sizes)]

\* Sub-commands one behind the other: where the k-th of the order ends.
ends(order, start, bufs) ==
  LET end[k \in 0 .. Len(order)] ==
        IF k = 0 THEN start ELSE endOf(end[k - 1], bufs[order[k]])
  IN  end

\* Headers, one offset, one row of the matrix with its count and one
\* predecessor count per group.
totalHdrSize(n) == CmdHdr + FenceHdr + n + n * (n + 1) + n + n * ScHdr

calcCmdMemSizeNoAlign(groups, bufs) ==
  LET bytes(s) == SumTo([k \in 0 .. Len(s) - 1 |-> s[k + 1]], Len(s))
  IN  totalHdrSize(Len(groups)) + SumTo([i \in Idx |-> bytes(bufs[i])], num)

\* The buffers are counted in the order of mSubCmdList.
calcCmdMemSize(groups, bufs) ==
  ends([k \in 1 .. num |-> k - 1], totalHdrSize(Len(groups)), bufs)[num]

fenceOfs(groups) == CmdHdr + Len(groups) - 1

\* construct(): the successor list, with a count per group, starts behind the
\* fence; the predecessor counts and the sub-command headers follow.
scrListOfs(groups) == CmdHdr - 1 + Len(groups) + FenceHdr

cmdBufOfs(groups, matrix) ==
  scrListOfs(groups) + 2 * Len(groups) + Cardinality(matrix) + Len(groups) * ScHdr

\* The buffers are placed in the order of the groups.
subcmdBufOfs(groups, matrix, bufs) ==
  ends(groupOrder(groups), cmdBufOfs(groups, matrix), bufs)

firstBufOfs(groups, matrix, bufs) ==
  LET order == groupOrder(groups)
      end   == subcmdBufOfs(groups, matrix, bufs)
  IN  [i \in Idx |-> Aligned(end[(CHOOSE k \in 1 .. num : order[k] = i) - 1])]

constructSubCmdNoDual(h, dev, ofs, pack) ==
  [h EXCEPT !.dev = dev, !.packId = pack, !.cb = ofs]

\* apusysSubCmd_v1::construct(): an MDLA sub-command whose header is that of
\* an MDLA already makes it the header of a dual run, without pack id.
constructSubCmd(h, dev, ofs, pack) ==
  IF h.dev = "MDLA" /\ dev = "MDLA"
  THEN [h EXCEPT !.packId = 0, !.dual0 = h.cb, !.dual1 = ofs, !.cb = 0]
  ELSE [h EXCEPT !.dev = dev, !.packId = pack, !.cb = ofs]

\* The header of every group when construct() is done; 0 is "not set".
noHeader == [dev |-> "none", packId |-> 0, cb |-> 0, dual0 |-> 0, dual1 |-> 0]

header(group, pack, devOf, ofs) ==
  LET h[k \in 0 .. Len(group)] ==
        IF k = 0 THEN noHeader
        ELSE LET i == group[k] IN constructSubCmd(h[k - 1], devOf[i], ofs[i], pack)
  IN  h[Len(group)]

headers(groups, devOf, ofs) ==
  [g \in DOMAIN groups |-> header(groups[g], modifiedPackIdList(groups)[g], devOf, ofs)]

-----------------------------------------------------------------------------
\* Every graph once, in the state after its first build(); what a command of
\* the other executor submitted plays no role here.
Built == num > 0 /\ dirty = {} /\ execNum = num /\ submitted.num = 0

(* The smaller matrix orders the groups as the whole one ordered their      *)
(* members: one group waits for another iff every member of the one waits   *)
(* for every member of the other, and no group waits for itself, although   *)
(* the rows of all members but the first were thrown away.                  *)
ReducedOrder ==
  Built => \A devOf \in [Idx -> DevTypes] :
    LET groups  == modifiedSubCmdList(devOf)
        reduced == modifiedAdjMatrix(devOf)
    IN  \A g, h \in DOMAIN groups :
          \A x \in DOMAIN groups[g], y \in DOMAIN groups[h] :
             <<groups[g][x], groups[h][y]>> \in adj <=>
               g # h /\ <<g - 1, h - 1>> \in reduced

(* Everything construct() and setFence() write lies in the memory of the    *)
(* size calcCmdMemSize() computed, although the sizes are summed up in the  *)
(* order of the sub-commands and the buffers are placed in the order of the *)
(* groups, and the fence meets neither the offsets before it nor the lists  *)
(* after it.  This is so for buffers of the default alignment: the matrix   *)
(* reserved for the successor lists leaves at least one such unit to spare  *)
(* as soon as the two orders can differ.                                    *)
LayoutFits ==
  Built => \A devOf \in [Idx -> DevTypes] :
    LET groups == modifiedSubCmdList(devOf)
        matrix == modifiedAdjMatrix(devOf)
    IN  /\ fenceOfs(groups) + FenceHdr = scrListOfs(groups)
        /\ \A size \in [Idx -> Sizes] :
             LET bufs == bufsOf(devOf, size)
             IN  subcmdBufOfs(groups, matrix, bufs)[num] <= calcCmdMemSize(groups, bufs)

\* The packs the driver's headers can express: those with at most one MDLA
\* sub-command, which must be the first, and those of two MDLA sub-commands.
Expressible(devOf) ==
  \A i \in Idx : packId[i] # 0 =>
     LET mdla == {j \in PackOf(i) : devOf[j] = "MDLA"}
     IN  mdla \subseteq {Min(PackOf(i))} \/ (mdla = PackOf(i) /\ Cardinality(mdla) = 2)

(* The driver finds the code of every sub-command through exactly one field *)
(* of one header, and it starts together, by a pack id or as a dual run,    *)
(* the sub-commands that were packed and no others.                         *)
PacksReachDriver ==
  Built => \A devOf \in [Idx -> DevTypes] : Expressible(devOf) =>
    LET groups  == modifiedSubCmdList(devOf)
        ofs     == firstBufOfs(groups, modifiedAdjMatrix(devOf),
                               bufsOf(devOf, [i \in Idx |-> 1]))
        hdrs    == headers(groups, devOf, ofs)
        code(i) == {c \in (DOMAIN hdrs) \X {"cb", "dual0", "dual1"} :
                       hdrs[c[1]][c[2]] = ofs[i]}
        hdr(i)  == CHOOSE g \in DOMAIN hdrs : \E c \in code(i) : c[1] = g
        together(i, j) == \/ hdr(i) = hdr(j)
                          \/ /\ hdrs[hdr(i)].packId # 0
                             /\ hdrs[hdr(i)].packId = hdrs[hdr(j)].packId
    IN  /\ \A i \in Idx : Cardinality(code(i)) = 1
        /\ \A i, j \in Idx : together(i, j) <=> j \in PackOf(i)
=============================================================================
