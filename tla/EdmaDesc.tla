------------------------------ MODULE EdmaDesc ------------------------------
(***************************************************************************)
(* The descriptor encoders of src/edma: how large the descriptors of an    *)
(* info are (the query side) and which descriptors are written for it (the *)
(* fill side).  Version 3.0 encoders unless a name ends in V20.            *)
(*                                                                         *)
(* An info is a record with the fields of its C structure that matter to   *)
(* the data moved: info_type, and `bind', which says that the caller gave  *)
(* inputBindings and outputBindings.  Addresses are numbers.  A            *)
(* descriptor is a record of what it makes the device do; `Desc' gives the *)
(* values memset() leaves.  Encodings of pixel pipelines (burst lengths,   *)
(* swap matrices, coefficients) are reduced to the sizes of the units they *)
(* read and write.                                                         *)
(***************************************************************************)
EXTENDS Integers, Sequences, SequencesExt

CONSTANTS
  FieldSize,   \* the size fields of a descriptor hold 16 bits: 2^16
  LineSize,    \* 1024: bytes per line of a large copy
  TileLimit,   \* 1024: widest line the up-sampler takes
  TileSide     \* 64: side of a rotated tile

ASSUME SizesAssumption ==
  /\ FieldSize \in Nat \ {0, 1}
  /\ LineSize \in 1 .. FieldSize - 1
  /\ TileLimit \in Nat \ {0}
  /\ TileSide \in Nat \ {0}

SrcAddr0 == 28   \* byte offset of the address fields in a 3.0 descriptor
DstAddr0 == 32
SrcAddr1 == 92
DstAddr1 == 96

\* where a descriptor of a type has its first source and destination address
srcField(type) == IF type = 20 THEN 44 ELSE SrcAddr0
dstField(type) == IF type = 20 THEN 52 ELSE DstAddr0

Rotations == {"ROTATE90", "ROTATE180", "ROTATE270"}

\* sizeof the descriptor of each type, in bytes; type 20 is st_edmaDesc20
descSize(type) ==
  CASE type \in {0, 1, 2} -> 64 [] type = 5 -> 128 [] type = 15 -> 256
    [] type = 20 -> 96

(***************************************************************************)
(* One operand of a descriptor: zs frames of ys lines of xs bytes, a line  *)
(* every xp bytes, a frame every yp bytes; `at' is where its address is    *)
(* stored.  Sizes are truncated to their field, which in a 2.0 descriptor  *)
(* holds the size minus one.                                               *)
(***************************************************************************)
TypedPlane(type, at, addr, size, pitch) ==
  LET field(v) == IF type = 20 THEN ((v - 1) % FieldSize) + 1 ELSE v % FieldSize
  IN [at |-> at, addr |-> addr, xs |-> field(size[1]), ys |-> field(size[2]),
      zs |-> field(size[3]), xp |-> pitch[1], yp |-> pitch[2]]

Plane(at, addr, size, pitch) == TypedPlane(0, at, addr, size, pitch)

\* every su bytes read make du bytes written; several sources are merged
\* ru bytes from each in turn, several destinations get wu bytes in turn;
\* aux is read and does not reach the destination; rtmp and wtmp replace
\* memory by the internal buffer; up doubles lines and pairs of bytes;
\* payload is the UFBC payload offset
Desc(type) ==
  [type |-> type, fill |-> FALSE, su |-> 1, du |-> 1, ru |-> 1, wu |-> 1,
   src |-> <<>>, aux |-> <<>>, dst |-> <<>>,
   rtmp |-> FALSE, wtmp |-> FALSE, up |-> FALSE, payload |-> 0]

\* an address field the caller is told of: `off' is relative to its object
Bind(at, obj, off) == [at |-> at, obj |-> obj, off |-> off]

InOut(base) == <<Bind(base + SrcAddr0, "in", 0), Bind(base + DstAddr0, "out", 0)>>

\* what a generator wrote for an info: descriptors one behind the other
Filled(descs, binds) == [descs |-> descs, binds |-> binds]
Refused == Filled(<<>>, <<>>)

-----------------------------------------------------------------------------
(***************************************************************************)
(* Which descriptor type an info gets.                                     *)
(***************************************************************************)
Check3to4Constraint(i) ==
  i.src_type_size = 1 /\ i.shape_c = 3 /\ i.src_stride_c = 3 /\ i.dst_stride_c = 4

Check4to3Constraint(i) ==
  i.src_type_size = 1 /\ i.shape_c = 3 /\ i.src_stride_c = 4 /\ i.dst_stride_c = 3

Check1to4Constraint(i) ==
  /\ i.src_type_size = 1 /\ i.shape_c = 1
  /\ i.shape_w % 16 = 0 /\ i.shape_w <= 1024
  /\ (i.shape_n * i.shape_h) % 2 = 0
  /\ i.src_stride_c = 1 /\ i.dst_stride_c = 4

rotates(i) == i.outFormat \in Rotations
resizes(i) == "UVResz2X" \in {i.inFormat, i.outFormat}

checkDescrpType(i) ==
  IF i.info_type = "GENERAL"
  THEN CASE i.inFormat = "YUV422_8B" /\ i.outFormat = "ARGB_8" -> 5
         [] rotates(i) \/ resizes(i) -> 15
         [] OTHER -> 0
  ELSE CASE i.inFormat \in {"FP32", "FP16", "I8"} -> 0
         [] i.inFormat \in {"DEPTHTOSPACE", "DEPTHTOSPACE_FAST", "S2D_FAST"} -> 15
         [] OTHER -> CASE Check3to4Constraint(i) -> 1
                       [] Check1to4Constraint(i) -> 5
                       [] Check4to3Constraint(i) -> 15
                       [] OTHER -> 0

-----------------------------------------------------------------------------
(***************************************************************************)
(* The query side.                                                         *)
(***************************************************************************)
tiles(length, side) == (length - 1) \div side + 1

tileWidth(i) == IF i.inFormat = "YUV422_8B" THEN 2 * TileSide ELSE TileSide

\* the code takes the width to be the height
edma_rotate_descNum(i) == tiles(i.size_y, tileWidth(i)) * tiles(i.size_y, TileSide)

edma_queryTileNum(i) ==
  IF i.tileNum = 0 /\ i.size_x > 0 THEN tiles(i.size_x, TileLimit) ELSE i.tileNum

\* a rotated tile takes a descriptor of type 15 and one of type 0
edma_queryDSize(i) ==
  CASE i.info_type = "DATA" -> descSize(0)
    [] i.info_type = "GENERAL" /\ rotates(i) ->
         edma_rotate_descNum(i) * (descSize(0) + descSize(15))
    [] i.info_type = "GENERAL" /\ resizes(i) /\ ~rotates(i) ->
         edma_queryTileNum(i) * descSize(15)
    [] i.info_type = "NN" /\ i.inFormat = "DEPTHTOSPACE" -> i.shape_h * descSize(15)
    [] OTHER -> descSize(checkDescrpType(i))

edma_queryDNumTiles(i) ==
  CASE i.info_type = "GENERAL" /\ rotates(i) -> edma_rotate_descNum(i)
    [] i.info_type = "GENERAL" /\ resizes(i) /\ ~rotates(i) -> edma_queryTileNum(i)
    [] i.info_type = "NN" /\ i.inFormat = "DEPTHTOSPACE" -> i.shape_h
    [] OTHER -> 1

edma_queryDNum(i) ==
  CASE i.info_type = "GENERAL" /\ rotates(i) -> 2 * edma_rotate_descNum(i)
    [] i.info_type = "GENERAL" /\ resizes(i) /\ ~rotates(i) -> edma_queryTileNum(i)
    [] i.info_type = "NN" /\ i.inFormat = "DEPTHTOSPACE" -> i.shape_h
    [] OTHER -> 1

edma_queryPadDNumFails(i) ==
  CASE i.mode = "constant" -> 2 [] i.mode = "edge" -> 5 [] OTHER -> -1

edma_queryPadDNum(i) ==
  CASE i.mode = "constant" -> 2 [] i.mode = "edge" -> 5 [] OTHER -> 0

edma_queryPadDSizeOne(i) == descSize(0)

edma_queryPadDSize(i) == edma_queryPadDNum(i) * descSize(0)

\* the generators of EdmaDescEngine; setHWver(20) replaces three of them
V20Types == {"GENERAL", "DATA", "UFBC"}
Supported == V20Types \cup
  {"NN", "SDK", "SLICE", "PAD", "BAYER_TO_RGGB", "RGGB_TO_BAYER"}

queryDSize(ver, i) ==
  CASE ver = 20 /\ i.info_type \in V20Types -> descSize(20)
    [] i.info_type = "PAD" -> edma_queryPadDSize(i)
    [] i.info_type = "SLICE" -> descSize(0)
    [] i.info_type = "UFBC" /\ ver # 20 -> descSize(5)
    [] i.info_type \in {"SDK", "BAYER_TO_RGGB", "RGGB_TO_BAYER"} -> descSize(15)
    [] OTHER -> edma_queryDSize(i)

queryDNum(ver, i) ==
  CASE i.info_type = "PAD" -> edma_queryPadDNum(i)
    [] i.info_type = "NN" \/ (i.info_type = "GENERAL" /\ ver # 20) -> edma_queryDNum(i)
    [] OTHER -> 1

-----------------------------------------------------------------------------
(***************************************************************************)
(* The fill side: general infos (copy, YUV422 to RGBA, up-sampling,        *)
(* rotation).                                                              *)
(***************************************************************************)
\* type 0 copies size_x bytes per line; type 5 makes two pixels of RGBA out
\* of each four bytes of YUV422
imageDesc(i, type, widen) ==
  [Desc(type) EXCEPT
     !.su = IF widen = 2 THEN 4 ELSE 1, !.du = IF widen = 2 THEN 8 ELSE 1,
     !.src = <<TypedPlane(type, srcField(type), i.inBuf_addr, <<i.size_x, i.size_y, i.size_z>>,
                          <<i.size_x, i.size_x * i.size_y>>)>>,
     !.dst = <<TypedPlane(type, dstField(type), i.outBuf_addr,
                     <<widen * i.size_x, i.size_y, i.size_z>>,
                     <<i.dst_stride_x, i.dst_stride_x * i.dst_stride_y>>)>>]

edma_UVRz2X(i) ==
  LET n == edma_queryTileNum(i)
      step == i.size_x \div n
      tile(k) ==
        LET w == IF k = n - 1 THEN i.size_x - k * step ELSE step
        IN [Desc(15) EXCEPT !.up = TRUE,
              !.src = <<Plane(SrcAddr0, i.inBuf_addr + k * step,
                              <<w, i.size_y \div 2, 1>>, <<i.size_x, 0>>)>>,
              !.dst = <<Plane(DstAddr0, i.outBuf_addr + 2 * k * step,
                              <<2 * w, i.size_y, 1>>, <<2 * i.size_x, 0>>)>>]
  IN [k \in 1 .. n |-> tile(k - 1)]

\* A tile is written rotated into the internal buffer, which the second
\* descriptor then copies out.  c: bytes per pixel.
gen_tile_rotation(angle, src, dst, srcPitch, dstPitch, c, w, h) ==
  LET offset == CASE angle = 1 -> c * (h - 1)
                  [] angle = 2 -> c * (w * h - 1)
                  [] angle = 3 -> c * h * (w - 1)
      xStride == CASE angle = 1 -> c * h [] angle = 2 -> -c [] angle = 3 -> -(c * h)
      yStride == CASE angle = 1 -> -c [] angle = 2 -> -(c * w) [] angle = 3 -> c
      lines == IF angle = 2 THEN h ELSE w
      bytes == IF angle = 2 THEN c * w ELSE c * h
  IN << [Desc(15) EXCEPT !.wtmp = TRUE,
           !.src = <<Plane(SrcAddr0, src, <<c * w, h, 1>>, <<srcPitch, 0>>)>>,
           !.dst = <<Plane(DstAddr0, offset, <<c, w, h>>, <<xStride, yStride>>)>>],
        [Desc(0) EXCEPT !.rtmp = TRUE,
           !.src = <<Plane(SrcAddr0, 0, <<bytes, lines, 1>>, <<bytes, 0>>)>>,
           !.dst = <<Plane(DstAddr0, dst, <<bytes, lines, 1>>, <<dstPitch, 0>>)>>] >>

rotatedTileWhole(angle, c, w, h, tw, th, j, k) ==
  CASE angle = 1 -> c * h * tw * j + c * th * (tiles(h, th) - 1 - k)
    [] angle = 2 -> c * tw * (tiles(w, tw) - 1 - j) + c * w * th * (tiles(h, th) - 1 - k)
    [] angle = 3 -> c * h * tw * (tiles(w, tw) - 1 - j) + c * th * k

\* where the tile in column j of row k lands; short tiles are the last of a
\* row or column of the source, which become the first of the destination
rotatedTile(angle, c, w, h, tw, th, j, k) ==
  LET xn == tiles(w, tw)  yn == tiles(h, th)
      xShort == tw - (((w - 1) % tw) + 1)
      yShort == th - (((h - 1) % th) + 1)
      fromEnd(side, n, m, short) ==
        side * (n - 1 - m) - (IF m # n - 1 THEN short ELSE 0)
  IN CASE angle = 1 -> c * h * tw * j + c * fromEnd(th, yn, k, yShort)
       [] angle = 2 -> c * fromEnd(tw, xn, j, xShort)
                         + c * w * fromEnd(th, yn, k, yShort)
       [] angle = 3 -> c * h * fromEnd(tw, xn, j, xShort) + c * th * k

edma_gen_rotation(angle, c, w, h, tw, th, src, dst) ==
  LET xn == tiles(w, tw)
      pitch == IF angle = 2 THEN c * w ELSE c * h
      last(n, side, m) == IF m = tiles(n, side) - 1 THEN ((n - 1) % side) + 1 ELSE side
      tile(j, k) ==
        gen_tile_rotation(angle, src + c * tw * j + c * w * th * k,
          dst + rotatedTile(angle, c, w, h, tw, th, j, k),
          c * w, pitch, c, last(w, tw, j), last(h, th, k))
  IN [m \in 1 .. 2 * (xn * tiles(h, th)) |->
        LET n == (m - 1) \div 2 IN tile(n % xn, n \div xn)[((m - 1) % 2) + 1]]

rotation(i) ==
  edma_gen_rotation(
    CASE i.outFormat = "ROTATE180" -> 2 [] i.outFormat = "ROTATE270" -> 3
      [] OTHER -> 1,
    IF i.inFormat = "YUV422_8B" THEN 2 ELSE 4,
    IF i.inFormat = "ARGB_8" THEN i.size_x \div 4 ELSE i.size_y,
    i.size_y, tileWidth(i), TileSide, i.inBuf_addr, i.outBuf_addr)

\* a rotation reports no address field, an up-sampling those of its first tile
fillDescV0(i) ==
  LET type == checkDescrpType(i) IN
  CASE type = 0 -> Filled(<<imageDesc(i, 0, 1)>>, InOut(0))
    [] type = 5 -> Filled(<<imageDesc(i, 5, 2)>>, InOut(0))
    [] resizes(i) -> Filled(edma_UVRz2X(i), InOut(0))
    [] OTHER -> Filled(rotation(i), <<>>)

\* only 2.0: one frame, and the frame pitch of the source is its line count
fillDescV20(i) ==
  LET widen == IF i.inFormat = "YUV422_8B" /\ i.outFormat = "ARGB_8" THEN 2 ELSE 1
      d == imageDesc(i, 20, widen)
  IN Filled(<<[d EXCEPT !.src = <<[@[1] EXCEPT !.yp = i.size_y, !.zs = i.size_z % FieldSize]>>,
                        !.dst = <<[@[1] EXCEPT !.yp = i.dst_stride_y, !.zs = 1]>>]>>, <<>>)

-----------------------------------------------------------------------------
(***************************************************************************)
(* Plain copies and fills.                                                 *)
(***************************************************************************)
\* one line, or lines of LineSize bytes
copyShape(size) ==
  IF size > FieldSize THEN <<LineSize, size \div LineSize, 1>> ELSE <<size, 1, 1>>

copyRefused(size, limit) == size > FieldSize /\ (size > limit \/ size % LineSize # 0)

dataDesc(i, type) ==
  LET shape == copyShape(i.copy_size)
      pitch == <<shape[1], shape[2]>>
  IN [Desc(type) EXCEPT !.fill = (i.outFormat = "FILL"),
        !.src = <<TypedPlane(type, srcField(type), i.inBuf_addr, shape, pitch)>>,
        !.dst = <<TypedPlane(type, dstField(type), i.outBuf_addr, shape, pitch)>>]

\* a producer or consumer descriptor moves no data
fillDescData(i) ==
  IF i.inFormat \in {"PRODUCER", "CONSUMER"} THEN Filled(<<Desc(2)>>, <<>>)
  ELSE IF copyRefused(i.copy_size, FieldSize * LineSize) THEN Refused
  ELSE Filled(<<dataDesc(i, 0)>>, InOut(0))

\* sizes are stored minus one
fillDescDataV20(i) ==
  IF copyRefused(i.copy_size, 2 * FieldSize * LineSize) THEN Refused
  ELSE Filled(<<dataDesc(i, 20)>>, <<>>)
-----------------------------------------------------------------------------
(***************************************************************************)
(* Neural-network infos.  No address is stored: the caller patches the     *)
(* fields it is told of, through the bindings or through the *_addr_offset *)
(* fields of the info, which get the same values.                          *)
(***************************************************************************)
nnConversions ==
  {<<"FP16", "FP32">>, <<"FP32", "FP16">>, <<"I8", "FP32">>, <<"FP32", "I8">>}

converts(i) == <<i.inFormat, i.outFormat>> \in nnConversions

nnCopy(i) ==
  LET s == i.src_type_size
      d == i.dst_type_size
      frames == i.shape_n * i.shape_h
  IN [Desc(0) EXCEPT
        !.su = IF converts(i) THEN s ELSE 1, !.du = IF converts(i) THEN d ELSE 1,
        !.src = <<Plane(SrcAddr0, 0, <<i.shape_c * s, i.shape_w, frames>>,
                        <<i.src_stride_c * s, i.src_stride_w * s>>)>>,
        !.dst = <<Plane(DstAddr0, 0, <<i.shape_c * d, i.shape_w, frames>>,
                        <<i.dst_stride_c * d, i.dst_stride_w * d>>)>>]

\* 3 to 4 and 4 to 3 bytes per pixel, line by line
nnRepack(i, type, s, d) ==
  LET lines == i.shape_n * i.shape_h
  IN [Desc(type) EXCEPT !.su = s, !.du = d,
        !.src = <<Plane(SrcAddr0, 0, <<s * i.shape_w, lines, 1>>, <<i.src_stride_w, 0>>)>>,
        !.dst = <<Plane(DstAddr0, 0, <<d * i.shape_w, lines, 1>>, <<i.dst_stride_w, 0>>)>>]

\* luminance to RGBA; the colour plane is read from wherever `dummy' points
nnLuma(i) ==
  LET lines == i.shape_n * i.shape_h
  IN [Desc(5) EXCEPT !.su = 1, !.du = 4,
        !.src = <<Plane(SrcAddr1, 0, <<i.shape_w, lines, 1>>, <<i.src_stride_w, 0>>)>>,
        !.aux = <<Plane(SrcAddr0, 0, <<i.shape_w, lines \div 2, 1>>, <<i.src_stride_w, 0>>)>>,
        !.dst = <<Plane(DstAddr0, 0, <<4 * i.shape_w, lines, 1>>, <<i.dst_stride_w, 0>>)>>]

\* one descriptor per line, of which the caller is told the first
nnDepthToSpace(i) ==
  LET b == i.block_size * i.dst_type_size
      row == [Desc(15) EXCEPT
        !.src = <<Plane(SrcAddr0, 0, <<i.shape_c * i.src_type_size, i.shape_w, 1>>,
                        <<i.src_stride_c * i.src_type_size,
                          i.src_stride_w * i.src_type_size>>)>>,
        !.dst = <<Plane(DstAddr0, 0, <<b, i.block_size, i.shape_w>>,
                        <<b * i.shape_w, b>>)>>]
  IN [k \in 1 .. i.shape_h |-> row]

\* every line is split over two destinations, half a pixel each in turn;
\* the splitter knows pixels of 4 or 16 elements
edma_D2SFast(i) ==
  LET line == i.shape_w * i.shape_c * i.dst_type_size
      half == line \div i.block_size
      to(at) == Plane(at, 0, <<half, i.shape_h, 1>>, <<line, 0>>)
  IN [Desc(15) EXCEPT !.wu = IF i.src_type_size = 2 THEN 4 ELSE IF i.shape_c = 16 THEN 8 ELSE 2,
        !.src = <<Plane(SrcAddr0, 0, <<line, i.shape_h, 1>>, <<line, 0>>)>>,
        !.dst = <<to(DstAddr0), to(DstAddr1)>>]

\* pairs of lines are merged, two elements of each in turn, into one long line
edma_S2DFast(i) ==
  LET line == i.shape_w * i.shape_c * i.dst_type_size
      from(at) == Plane(at, 0, <<line, i.shape_h \div i.block_size, 1>>,
                        <<line * i.block_size, 0>>)
  IN [Desc(15) EXCEPT !.ru = IF i.src_type_size = 2 THEN 4 ELSE 2,
        !.src = <<from(SrcAddr0), from(SrcAddr1)>>,
        !.dst = <<Plane(DstAddr0, 0, <<line * i.shape_h, 1, 1>>, <<0, 0>>)>>]

\* when the fast encoder refuses a block size, its caller goes on: the type
\* and the address fields are there, the sizes are zero
fillDescNN(i) ==
  LET type == checkDescrpType(i) IN
  CASE i.inFormat = "DEPTHTOSPACE" -> Filled(nnDepthToSpace(i), InOut(0))
    [] i.inFormat = "DEPTHTOSPACE_FAST" ->
         Filled(<<IF i.block_size > 2 THEN Desc(15) ELSE edma_D2SFast(i)>>,
                InOut(0) \o <<Bind(DstAddr1, "out",
                  i.shape_w * (i.shape_c \div i.block_size) * i.dst_type_size)>>)
    [] i.inFormat = "S2D_FAST" ->
         Filled(<<edma_S2DFast(i)>>,
                InOut(0) \o <<Bind(SrcAddr1, "in", i.shape_w * i.src_type_size)>>)
    [] type = 0 -> Filled(<<nnCopy(i)>>, InOut(0))
    [] type = 1 -> Filled(<<nnRepack(i, 1, 3, 4)>>, InOut(0))
    [] type = 5 -> Filled(<<nnLuma(i)>>,
                          <<Bind(SrcAddr1, "in", 0), Bind(SrcAddr0, "in", 0),
                            Bind(DstAddr0, "out", 0)>>)
    [] OTHER -> Filled(<<nnRepack(i, 15, 4, 3)>>, InOut(0))
-----------------------------------------------------------------------------
(***************************************************************************)
(* Compressed frames (UFBC), ready-made descriptors (SDK) and slices.      *)
(***************************************************************************)
alignUp(n, m) == tiles(n, m) * m

\* the headers of a frame take a sixteenth of its pixels; the compressed
\* side of the transfer is up to the device
ufbcPayload(w, h) == (w * h) \div 16
ufbcAlignedNot(i) == ufbcPayload(i.size_x, i.size_y)

ufbcAligned(i) == ufbcPayload(alignUp(i.size_x, 32), alignUp(i.size_y, 8))

ufbcDesc(i, type, payload, pitch) ==
  LET size == <<4 * i.crop.x_size, i.crop.y_size, 1>> IN
  IF i.encode
  THEN [Desc(type) EXCEPT !.payload = payload,
          !.src = <<TypedPlane(type, srcField(type), i.inBuf_addr, size, <<pitch, 0>>)>>]
  ELSE [Desc(type) EXCEPT !.payload = payload,
          !.dst = <<TypedPlane(type, dstField(type), i.outBuf_addr, size, <<pitch, 0>>)>>]

ufbcBinds(i, type) == <<Bind(srcField(type), "in", i.inBuf_addr),
                        Bind(dstField(type), "out", i.outBuf_addr)>>

\* the decoder takes the frame as it is given, the encoder aligns it
fillDescUFBC(i) ==
  Filled(<<ufbcDesc(i, 5,
             IF i.encode THEN ufbcAligned(i) ELSE ufbcPayload(i.size_x, i.size_y),
             4 * i.dst_stride_x)>>, ufbcBinds(i, 5))

fillDescUFBCV20(i) ==
  Filled(<<ufbcDesc(i, 20, ufbcAligned(i), 4 * i.crop.x_size)>>, ufbcBinds(i, 20))

\* `sdk' is the caller's descriptor, or <<>> for a null pointer.  It is copied
\* for the general SDK type only: for the others the buffer keeps what was in
\* it, which nobody wrote, and of the descriptor nothing but the type is known.
fillDescSDK(i) ==
  IF i.sdk_type # "GNL" THEN Filled(<<[type |-> 15]>>, <<>>)
  ELSE IF i.sdk = <<>> THEN Refused
  ELSE Filled(<<[i.sdk[1] EXCEPT !.type = 15]>>, <<>>)

fillDescSlice(i) ==
  Filled(<<[Desc(0) EXCEPT
              !.src = <<Plane(SrcAddr0, i.src_addr, i.src_size, i.src_pitch)>>,
              !.dst = <<Plane(DstAddr0, i.dst_addr, i.dst_size, i.dst_pitch)>>]>>,
         <<Bind(SrcAddr0, "in", i.src_addr), Bind(DstAddr0, "out", i.dst_addr)>>)

-----------------------------------------------------------------------------
(***************************************************************************)
(* Padding.  Lengths are in elements of `elem' bytes.                      *)
(***************************************************************************)
padWidth(i) == i.src_size_x + i.before_x + i.after_x
padHeight(i) == i.src_size_y + i.before_y + i.after_y

\* the descriptor that copies the image into the middle
padCentre(i) ==
  [Desc(0) EXCEPT
     !.src = <<Plane(SrcAddr0, i.src_addr, <<i.src_size_x * i.elem, i.src_size_y, 1>>,
                     <<i.src_stride_x * i.elem, 0>>)>>,
     !.dst = <<Plane(DstAddr0,
                     i.dst_addr + (i.before_y * i.dst_stride_x + i.before_x) * i.elem,
                     <<i.src_size_x * i.elem, i.src_size_y, 1>>,
                     <<i.dst_stride_x * i.elem, 0>>)>>]

padFill(i) ==
  [Desc(0) EXCEPT !.fill = TRUE,
     !.dst = <<Plane(DstAddr0, i.dst_addr, <<padWidth(i) * i.elem, padHeight(i), 1>>,
                     <<i.dst_stride_x * i.elem, 0>>)>>]

\* copies of one element column, or of one line, inside the destination;
\* with nothing to pad, one byte inside the internal buffer
padCopies(i, from, to, size, pitch, times, step) ==
  LET none == times = 0
      shape == IF none THEN <<1, 1, 1>> ELSE <<size[1], size[2], times>>
  IN [Desc(0) EXCEPT !.rtmp = none, !.wtmp = none,
        !.src = <<Plane(SrcAddr0, i.dst_addr + from * i.elem, shape, <<pitch, 0>>)>>,
        !.dst = <<Plane(DstAddr0, i.dst_addr + to * i.elem, shape, <<pitch, step>>)>>]

padColumns(i, from, to, times) ==
  padCopies(i, from, to, <<i.elem, padHeight(i)>>, i.dst_stride_x * i.elem, times, i.elem)

padLines(i, from, to, times) ==
  padCopies(i, i.dst_stride_x * from, i.dst_stride_x * to,
            <<padWidth(i) * i.elem, 1>>, 1, times, i.dst_stride_x * i.elem)

padLeft(i) == padColumns(i, i.before_x, 0, i.before_x)
padRight(i) ==
  padColumns(i, i.before_x + i.src_size_x - 1, i.before_x + i.src_size_x, i.after_x)
padTop(i) == padLines(i, i.before_y, 0, i.before_y)
padBottom(i) ==
  padLines(i, i.before_y + i.src_size_y - 1, i.before_y + i.src_size_y, i.after_y)

\* every address is reported relative to the object it is in, except that
\* the sources of the copies inside the destination count as inputs
bindAt(i, k, d) ==
  LET base == (k - 1) * descSize(0)
  IN (IF d.fill THEN <<>> ELSE <<Bind(base + SrcAddr0, "in", d.src[1].addr)>>)
       \o <<Bind(base + DstAddr0, "out", d.dst[1].addr)>>

fillDescPad(i) ==
  CASE i.mode = "constant" ->
         Filled(<<padFill(i), padCentre(i)>>,
                bindAt(i, 1, padFill(i)) \o bindAt(i, 2, padCentre(i)))
    [] i.mode = "edge" ->
         Filled(<<padCentre(i), padLeft(i), padRight(i), padTop(i), padBottom(i)>>,
                bindAt(i, 1, padCentre(i)) \o bindAt(i, 2, padLeft(i))
                  \o bindAt(i, 3, padRight(i)) \o bindAt(i, 4, padTop(i))
                  \o bindAt(i, 5, padBottom(i)))
    [] OTHER -> Refused

-----------------------------------------------------------------------------
(***************************************************************************)
(* Bayer images: pairs of lines of RG and GB elements to and from lines of *)
(* RGGB elements of 16 bits.  Four pixels of ten bits fill five bytes.     *)
(***************************************************************************)
bayerBytes(pixels, perPixel, bits) == (pixels * perPixel * bits) \div 8
packed(bits) == IF bits = 10 THEN 10 ELSE 3     \* bytes of the unit of a line
unpacked(bits) == IF bits = 10 THEN 32 ELSE 8   \* bytes they become in RGGB_16

bayerRefused(i, packedBits, wideBits, src, dst) ==
  packedBits \notin {10, 12} \/ wideBits # 16 \/ src > i.src_stride_x \/ dst > i.dst_stride_x

fillDescBayerToRGGB(i) ==
  LET src == bayerBytes(i.src_size_x, 2, i.in_bits)
      dst == bayerBytes(i.dst_size_x, 4, i.out_bits)
      from(at, addr) == Plane(at, addr, <<src, i.src_size_y \div 2, 1>>,
                              <<2 * i.src_stride_x, i.src_stride_y>>)
  IN IF bayerRefused(i, i.in_bits, i.out_bits, src, dst) THEN Refused
     ELSE Filled(<<[Desc(15) EXCEPT !.ru = packed(i.in_bits),
                      !.su = 2 * packed(i.in_bits), !.du = unpacked(i.in_bits),
                      !.src = <<from(SrcAddr0, i.src_addr),
                                from(SrcAddr1, i.src_addr + i.src_stride_x)>>,
                      !.dst = <<Plane(DstAddr0, i.dst_addr, <<dst, i.dst_size_y, 1>>,
                                      <<i.dst_stride_x, i.dst_stride_y>>)>>]>>,
                 <<Bind(SrcAddr0, "in", i.src_addr),
                   Bind(SrcAddr1, "in", i.src_addr + i.src_stride_x),
                   Bind(DstAddr0, "out", i.dst_addr)>>)

fillDescRGGBToBayer(i) ==
  LET src == bayerBytes(i.src_size_x, 4, i.in_bits)
      dst == bayerBytes(i.dst_size_x, 2, i.out_bits)
      to(at, addr) == Plane(at, addr, <<dst, i.dst_size_y \div 2, 1>>,
                            <<2 * i.dst_stride_x, i.dst_stride_y>>)
  IN IF bayerRefused(i, i.out_bits, i.in_bits, src, dst) THEN Refused
     ELSE Filled(<<[Desc(15) EXCEPT !.wu = packed(i.out_bits),
                      !.su = unpacked(i.out_bits), !.du = 2 * packed(i.out_bits),
                      !.src = <<Plane(SrcAddr0, i.src_addr, <<src, i.src_size_y, 1>>,
                                      <<i.src_stride_x, i.src_stride_y>>)>>,
                      !.dst = <<to(DstAddr0, i.dst_addr),
                                to(DstAddr1, i.dst_addr + i.dst_stride_x)>>]>>,
                 <<Bind(SrcAddr0, "in", i.src_addr), Bind(DstAddr0, "out", i.dst_addr),
                   Bind(DstAddr1, "out", i.dst_addr + i.dst_stride_x)>>)

-----------------------------------------------------------------------------
\* the generator of the info's type, as setHWver() chose it
fillDesc(ver, i) ==
  CASE i.info_type = "GENERAL" -> IF ver = 20 THEN fillDescV20(i) ELSE fillDescV0(i)
    [] i.info_type = "DATA" -> IF ver = 20 THEN fillDescDataV20(i) ELSE fillDescData(i)
    [] i.info_type = "UFBC" -> IF ver = 20 THEN fillDescUFBCV20(i) ELSE fillDescUFBC(i)
    [] i.info_type = "NN" -> fillDescNN(i)
    [] i.info_type = "SDK" -> fillDescSDK(i)
    [] i.info_type = "SLICE" -> fillDescSlice(i)
    [] i.info_type = "PAD" -> fillDescPad(i)
    [] i.info_type = "BAYER_TO_RGGB" -> fillDescBayerToRGGB(i)
    [] i.info_type = "RGGB_TO_BAYER" -> fillDescRGGBToBayer(i)
=============================================================================
