----------------------------- MODULE EdmaDevice -----------------------------
(***************************************************************************)
(* What the descriptors of src/edma do, and what the infos ask for.        *)
(*                                                                         *)
(* The device is external: `Executed' is the meaning that the encoders     *)
(* rely on.  Memory is a function from the addresses written so far to     *)
(* what they hold; the byte at an address nobody wrote is the address      *)
(* itself.  What is held is the sequence of bytes that were read to make   *)
(* it, <<>> for the fill value, so a copy moves a sequence of one and a    *)
(* conversion of units joins the bytes of a unit.                          *)
(*                                                                         *)
(* Requested(i, n) is the reference: the bytes that the n-th info of a     *)
(* task, i, is to write, each with its origin, said in terms of pixels     *)
(* and elements, never of descriptors.                                     *)
(***************************************************************************)
EXTENDS EdmaDesc

CONSTANT ObjectSize   \* room for a caller's object in the address space

ASSUME ObjectAssumption == ObjectSize \in Nat \ {0}

\* the input and the output object of the n-th info, for infos with bindings
Base(obj, n) == ObjectSize * (2 * n + (IF obj = "in" THEN 0 ELSE 1))

-----------------------------------------------------------------------------
planeSize(p) == p.xs * p.ys * p.zs

\* address of byte n of an operand, in the order the device takes them
ByteAt(p, n) ==
  p.addr + (n % p.xs) + ((n \div p.xs) % p.ys) * p.xp + (n \div (p.xs * p.ys)) * p.yp

\* the addresses of several operands of one size, `unit' bytes of each in turn
Stream(planes, unit) ==
  LET m == Len(planes)
      total == IF m = 0 THEN 0 ELSE m * planeSize(planes[1])
  IN [k \in 0 .. total - 1 |->
        ByteAt(planes[((k \div unit) % m) + 1], (k \div (unit * m)) * unit + (k % unit))]

Held(space, a) == IF a \in DOMAIN space THEN space[a] ELSE <<a>>

\* which byte of an image of lines of w bytes an up-sampled byte n repeats
upSampled(n, w) == LET x == n % (2 * w)  y == n \div (2 * w)
                   IN (y \div 2) * w + 2 * (x \div 4) + (x % 2)

\* the k-th byte that descriptor d reads of m, a memory and an internal buffer
Read(m, d, k) ==
  LET reads == Stream(d.src, d.ru)
  IN IF k \in DOMAIN reads THEN Held(IF d.rtmp THEN m.tmp ELSE m.mem, reads[k]) ELSE <<-1>>

\* the sequences f[0], ... f[n - 1] joined
Joined(f, n) ==
  LET joined[k \in 0 .. n] == IF k = 0 THEN <<>> ELSE joined[k - 1] \o f[k - 1]
  IN joined[n]

\* what becomes the n-th byte that d writes
Made(m, d, n) ==
  IF d.fill THEN <<>>
  ELSE IF d.up THEN Read(m, d, upSampled(n, d.src[1].xs))
  ELSE IF d.su = d.du THEN Read(m, d, n)
  ELSE Joined([k \in 0 .. d.su - 1 |-> Read(m, d, (n \div d.du) * d.su + k)], d.su)

\* a space after some addresses in it were written
overwritten(space, writes) ==
  [a \in (DOMAIN writes) \cup (DOMAIN space) |->
     IF a \in DOMAIN writes THEN writes[a] ELSE space[a]]

\* the effect of one descriptor
Executed(m, d) ==
  LET writes == Stream(d.dst, d.wu)
      written == [a \in Range(writes) |->
                    Made(m, d, CHOOSE n \in DOMAIN writes : writes[n] = a)]
  IN [mem |-> IF d.wtmp THEN m.mem ELSE overwritten(m.mem, written),
      tmp |-> IF d.wtmp THEN overwritten(m.tmp, written) ELSE m.tmp]

\* the memory after the first k descriptors of a list
executed(descs) ==
  LET m[k \in 0 .. Len(descs)] ==
        IF k = 0 THEN [mem |-> <<>>, tmp |-> <<>>] ELSE Executed(m[k - 1], descs[k])
  IN m

ExecutedAll(descs) == executed(descs)[Len(descs)].mem

-----------------------------------------------------------------------------
(***************************************************************************)
(* The reference.  A pair <<a, s>> says that address a is to hold what was *)
(* made of the bytes s.                                                    *)
(***************************************************************************)
Origin(i, n, obj, addr) == IF i.bind THEN Base(obj, n) + addr ELSE addr

upTo(n) == 0 .. n - 1
bytes(a, len) == [k \in 1 .. len |-> a + k - 1]

CopyImage(i, a, b) ==
  {<<b + x + y * i.dst_stride_x + z * i.dst_stride_x * i.dst_stride_y,
     <<a + x + y * i.size_x + z * i.size_x * i.size_y>> >> :
     x \in upTo(i.size_x), y \in upTo(i.size_y), z \in upTo(i.size_z)}

\* four bytes of YUV422 make two pixels of four bytes
YUVtoRGBA(i, a, b) ==
  {<<b + 8 * u + k + y * i.dst_stride_x, bytes(a + 4 * u + y * i.size_x, 4)>> :
     u \in upTo(i.size_x \div 4), k \in upTo(8), y \in upTo(i.size_y)}

\* every pair of bytes twice, every line twice
UpSampled(i, a, b) ==
  {<<b + 4 * u + k + y * 2 * i.size_x,
     <<a + 2 * u + (k % 2) + (y \div 2) * i.size_x>> >> :
     u \in upTo(i.size_x \div 2), k \in upTo(4), y \in upTo(i.size_y)}

\* pixel (x, y) of w by h pixels of c bytes turns to another column and row
Rotated(i, a, b) ==
  LET c == IF i.inFormat = "YUV422_8B" THEN 2 ELSE 4
      w == i.size_x \div c
      h == i.size_y
      turned(x, y) == CASE i.outFormat = "ROTATE90" -> (h - 1 - y) + x * h
                        [] i.outFormat = "ROTATE180" -> (w - 1 - x) + (h - 1 - y) * w
                        [] i.outFormat = "ROTATE270" -> y + (w - 1 - x) * h
  IN {<<b + c * turned(x, y) + k, <<a + c * (x + y * w) + k>> >> :
        x \in upTo(w), y \in upTo(h), k \in upTo(c)}

GeneralRequest(i, a, b) ==
  CASE rotates(i) -> Rotated(i, a, b)
    [] resizes(i) /\ ~rotates(i) -> UpSampled(i, a, b)
    [] i.inFormat = "YUV422_8B" /\ i.outFormat = "ARGB_8" -> YUVtoRGBA(i, a, b)
    [] OTHER -> CopyImage(i, a, b)

movesNothing(i) == i.inFormat \in {"PRODUCER", "CONSUMER"}

DataRequest(i, a, b) ==
  IF movesNothing(i) THEN {}
  ELSE {<<b + k, IF i.outFormat = "FILL" THEN <<>> ELSE <<a + k>> >> : k \in upTo(i.copy_size)}

\* element (e, x, y) of the tensor, converted when the formats differ
CopyTensor(i, a, b) ==
  LET s == i.src_type_size
      d == i.dst_type_size
      to(e, x, y) == b + d * (e + x * i.dst_stride_c + y * i.dst_stride_w)
      from(e, x, y) == a + s * (e + x * i.src_stride_c + y * i.src_stride_w)
  IN {<<to(e, x, y) + k, IF s = d THEN <<from(e, x, y) + k>> ELSE bytes(from(e, x, y), s)>> :
        e \in upTo(i.shape_c), x \in upTo(i.shape_w), y \in upTo(i.shape_n * i.shape_h),
        k \in upTo(d)}

\* pixels of s bytes become pixels of d bytes
Repacked(i, s, d, a, b) ==
  {<<b + d * x + k + y * i.dst_stride_w, bytes(a + s * x + y * i.src_stride_w, s)>> :
     x \in upTo(i.shape_w), y \in upTo(i.shape_n * i.shape_h), k \in upTo(d)}

\* a pixel of n*n groups of channels becomes n by n pixels
DepthToSpace(i, n, a, b) ==
  LET g == (i.shape_c \div (n * n)) * i.dst_type_size
      pixel == i.shape_c * i.dst_type_size
  IN {<<b + g * ((n * x + p) + (n * y + q) * n * i.shape_w) + k,
        <<a + pixel * (x + y * i.shape_w) + g * (n * q + p) + k>> >> :
        x \in upTo(i.shape_w), y \in upTo(i.shape_h), p \in upTo(n), q \in upTo(n),
        k \in upTo(g)}

\* n by n pixels become the groups of channels of one
SpaceToDepth(i, n, a, b) ==
  LET g == i.shape_c * i.dst_type_size
      w == i.shape_w \div n
  IN {<<b + g * n * n * (x + y * w) + g * (n * q + p) + k,
        <<a + g * ((n * x + p) + (n * y + q) * i.shape_w) + k>> >> :
        x \in upTo(w), y \in upTo(i.shape_h \div n), p \in upTo(n), q \in upTo(n),
        k \in upTo(g)}

TensorRequest(i, a, b) ==
  CASE i.inFormat \in {"DEPTHTOSPACE", "DEPTHTOSPACE_FAST"} ->
         DepthToSpace(i, i.block_size, a, b)
    [] i.inFormat = "S2D_FAST" -> SpaceToDepth(i, i.block_size, a, b)
    [] OTHER -> LET type == checkDescrpType(i) IN
                CASE type = 1  -> Repacked(i, 3, 4, a, b)
                  [] type = 5  -> Repacked(i, 1, 4, a, b)
                  [] type = 15 -> Repacked(i, 4, 3, a, b)
                  [] OTHER     -> CopyTensor(i, a, b)

SliceRequest(i, a, b) ==
  LET side(addr, size, pitch) ==
        [addr |-> addr, xs |-> size[1], ys |-> size[2], zs |-> size[3],
         xp |-> pitch[1], yp |-> pitch[2]]
      src == side(a, i.src_size, i.src_pitch)
      dst == side(b, i.dst_size, i.dst_pitch)
  IN {<<ByteAt(dst, n), <<ByteAt(src, n)>> >> : n \in upTo(planeSize(dst))}

\* around the image: the fill value, or the nearest element of the image
PadRequest(i, a, b) ==
  LET nearest(v, size) == IF v < 0 THEN 0 ELSE IF v >= size THEN size - 1 ELSE v
      x0(x) == x - i.before_x
      y0(y) == y - i.before_y
      inside(x, y) == x0(x) \in upTo(i.src_size_x) /\ y0(y) \in upTo(i.src_size_y)
      image(x, y) == a + i.elem * (nearest(x0(x), i.src_size_x)
                                     + nearest(y0(y), i.src_size_y) * i.src_stride_x)
  IN IF i.mode \notin {"constant", "edge"} THEN {}
     ELSE {<<b + i.elem * (x + y * i.dst_stride_x) + k,
             IF i.mode = "edge" \/ inside(x, y) THEN <<image(x, y) + k>> ELSE <<>> >> :
             x \in upTo(padWidth(i)), y \in upTo(padHeight(i)), k \in upTo(i.elem)}

\* p bytes of a line and p bytes of the next make r bytes of RGGB
BayerToRGGB(i, p, r, a, b) ==
  {<<b + r * u + k + y * i.dst_stride_x,
     bytes(a + p * u + 2 * y * i.src_stride_x, p)
       \o bytes(a + p * u + (2 * y + 1) * i.src_stride_x, p)>> :
     u \in upTo(bayerBytes(i.src_size_x, 2, i.in_bits) \div p),
     k \in upTo(r), y \in upTo(i.src_size_y \div 2)}

\* r bytes of RGGB make p bytes of a line and p bytes of the next
RGGBToBayer(i, p, r, a, b) ==
  {<<b + p * u + k + y * i.dst_stride_x,
     bytes(a + r * u + (y \div 2) * i.src_stride_x, r)>> :
     u \in upTo(bayerBytes(i.dst_size_x, 2, i.out_bits) \div p),
     k \in upTo(p), y \in upTo(i.dst_size_y)}

Requested(i, n) ==
  LET a(addr) == Origin(i, n, "in", addr)
      b(addr) == Origin(i, n, "out", addr)
  IN CASE i.info_type = "GENERAL" -> GeneralRequest(i, a(i.inBuf_addr), b(i.outBuf_addr))
       [] i.info_type = "DATA" -> DataRequest(i, a(i.inBuf_addr), b(i.outBuf_addr))
       [] i.info_type = "NN" -> TensorRequest(i, Base("in", n), Base("out", n))
       [] i.info_type = "SLICE" -> SliceRequest(i, a(i.src_addr), b(i.dst_addr))
       [] i.info_type = "PAD" -> PadRequest(i, a(i.src_addr), b(i.dst_addr))
       [] i.info_type = "BAYER_TO_RGGB" ->
            BayerToRGGB(i, packed(i.in_bits), unpacked(i.in_bits),
                        a(i.src_addr), b(i.dst_addr))
       [] i.info_type = "RGGB_TO_BAYER" ->
            RGGBToBayer(i, packed(i.out_bits), unpacked(i.out_bits),
                        a(i.src_addr), b(i.dst_addr))
       [] OTHER -> {}
=============================================================================
