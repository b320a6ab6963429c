----------------------------- MODULE MCEdmaFill -----------------------------
(***************************************************************************)
(* Tasks for EdmaFill: thread 1 goes through infos of every kind, thread 2 *)
(* fills a few tasks beside it.  Sizes are chosen around FieldSize = 128,  *)
(* LineSize = 4, TileLimit = 6 and TileSide = 2, so that one info takes    *)
(* several lines, tiles or descriptors, or just too many.                  *)
(***************************************************************************)
EXTENDS EdmaFill

\* addresses of infos without bindings; those with bindings are relative
In == 20 * ObjectSize
Out == 21 * ObjectSize
free == [bind |-> FALSE, in |-> In, out |-> Out]
bound == [bind |-> TRUE, in |-> 0, out |-> 0]

General(from, to, w, h, z, place) ==
  [info_type |-> "GENERAL", inFormat |-> from, outFormat |-> to,
   size_x |-> w, size_y |-> h, size_z |-> z, dst_stride_x |-> 2 * w + 3,
   dst_stride_y |-> h + 1, tileNum |-> 0, bind |-> place.bind,
   inBuf_addr |-> place.in, outBuf_addr |-> place.out]

Data(to, n, place) ==
  [info_type |-> "DATA", inFormat |-> "BYTES", outFormat |-> to, copy_size |-> n,
   bind |-> place.bind, inBuf_addr |-> place.in, outBuf_addr |-> place.out]

Tensor(from, to, h, w, c, s, d, sc, sw, dc, dw, block) ==
  [info_type |-> "NN", inFormat |-> from, outFormat |-> to, shape_n |-> 1,
   shape_h |-> h, shape_w |-> w, shape_c |-> c, src_type_size |-> s,
   dst_type_size |-> d, src_stride_c |-> sc, src_stride_w |-> sw,
   dst_stride_c |-> dc, dst_stride_w |-> dw, block_size |-> block, bind |-> TRUE]

Ufbc(encode, w, h, place) ==
  [info_type |-> "UFBC", encode |-> encode, size_x |-> w, size_y |-> h,
   crop |-> [x_size |-> 32, y_size |-> 8], dst_stride_x |-> w,
   bind |-> place.bind, inBuf_addr |-> place.in, outBuf_addr |-> place.out]

Pad(mode, left, right, top, bottom, place) ==
  [info_type |-> "PAD", mode |-> mode, elem |-> 2, src_size_x |-> 3, src_size_y |-> 2,
   before_x |-> left, after_x |-> right, before_y |-> top, after_y |-> bottom,
   src_stride_x |-> 4, dst_stride_x |-> 8, bind |-> place.bind,
   src_addr |-> place.in, dst_addr |-> place.out]

Bayer(type, bits, w, place) ==
  LET line == (w * 2 * bits) \div 8
      toRGGB == type = "BAYER_TO_RGGB"
  IN [info_type |-> type, in_bits |-> IF toRGGB THEN bits ELSE 16,
      out_bits |-> IF toRGGB THEN 16 ELSE bits,
      src_size_x |-> w, src_size_y |-> IF toRGGB THEN 4 ELSE 2,
      src_stride_x |-> (IF toRGGB THEN line ELSE 8 * w) + 1, src_stride_y |-> 0,
      dst_size_x |-> w, dst_size_y |-> IF toRGGB THEN 2 ELSE 4,
      dst_stride_x |-> (IF toRGGB THEN 8 * w ELSE line) + 1, dst_stride_y |-> 0,
      bind |-> place.bind, src_addr |-> place.in, dst_addr |-> place.out]

Slice(place) ==
  [info_type |-> "SLICE", src_size |-> <<6, 2, 2>>, src_pitch |-> <<7, 20>>,
   dst_size |-> <<4, 3, 2>>, dst_pitch |-> <<5, 16>>, bind |-> place.bind,
   src_addr |-> place.in, dst_addr |-> place.out]

Foreign == [info_type |-> "MVPU", bind |-> FALSE]

-----------------------------------------------------------------------------
\* a bound info that does not start where its object does
inside == [bind |-> TRUE, in |-> 3, out |-> 5]

Producer == [Data("BYTES", 3, free) EXCEPT !.inFormat = "PRODUCER"]

Copies(place) ==
  {General("RGB_8", "RGB_8", 5, 3, 2, place), General("YUV422_8B", "ARGB_8", 6, 2, 1, place),
   General("YUV422_8B", "ARGB_8", 8, 2, 1, place)}
    \cup {Data("BYTES", n, place) : n \in {3, 127, 128, 132}}
    \cup {Data("FILL", 9, place), Data("BYTES", 130, place), Data("BYTES", 512, place),
          Data("BYTES", 516, place)}

Rotation(from, w, h) == {General(from, to, w, h, 1, free) : to \in Rotations}

Pictures ==
  UNION {Rotation("ARGB_8", 4 * s[1], s[2]) :
           s \in {<<1, 1>>, <<2, 2>>, <<3, 3>>, <<5, 5>>, <<4, 3>>, <<3, 5>>}}
    \cup Rotation("YUV422_8B", 10, 5)
    \cup {General("UVResz2X", "UVResz2X", w, 4, 1, place) :
            w \in {4, 6, 8, 14, 16}, place \in {free, bound}}
    \cup {[General("UVResz2X", "UVResz2X", 8, 2, 1, free) EXCEPT !.tileNum = 2],
          General("UVResz2X", "ROTATE90", 8, 2, 1, free)}

Tensors ==
  {Tensor("I8", "I8", 2, 3, 5, 1, 1, 6, 20, 5, 16, 0),
   Tensor("FP16", "FP32", 2, 2, 3, 2, 4, 3, 7, 4, 8, 0),
   Tensor("FP32", "I8", 1, 2, 3, 4, 1, 3, 6, 3, 6, 0),
   Tensor("FP16", "I8", 1, 2, 3, 2, 1, 3, 6, 3, 6, 0),
   Tensor("RGB", "RGBA", 2, 3, 3, 1, 1, 3, 10, 4, 13, 0),
   Tensor("RGBA", "RGB", 2, 3, 3, 1, 1, 4, 13, 3, 10, 0),
   Tensor("Y", "RGBA", 2, 16, 1, 1, 1, 1, 17, 4, 65, 0),
   Tensor("Y", "RGBA", 2, 15, 1, 1, 1, 1, 17, 1, 65, 0),
   Tensor("DEPTHTOSPACE", "DEPTHTOSPACE", 1, 3, 4, 2, 2, 4, 12, 4, 12, 2),
   Tensor("DEPTHTOSPACE", "DEPTHTOSPACE", 3, 2, 4, 1, 1, 4, 8, 4, 8, 2),
   Tensor("DEPTHTOSPACE_FAST", "DEPTHTOSPACE_FAST", 2, 2, 4, 1, 1, 4, 8, 4, 8, 2),
   Tensor("DEPTHTOSPACE_FAST", "DEPTHTOSPACE_FAST", 2, 3, 4, 2, 2, 4, 12, 4, 12, 2),
   Tensor("DEPTHTOSPACE_FAST", "DEPTHTOSPACE_FAST", 2, 2, 16, 1, 1, 16, 32, 16, 32, 2),
   Tensor("DEPTHTOSPACE_FAST", "DEPTHTOSPACE_FAST", 2, 2, 8, 1, 1, 8, 16, 8, 16, 2),
   Tensor("DEPTHTOSPACE_FAST", "DEPTHTOSPACE_FAST", 2, 2, 9, 1, 1, 9, 18, 9, 18, 3),
   Tensor("S2D_FAST", "S2D_FAST", 4, 4, 1, 2, 2, 1, 4, 1, 4, 2),
   Tensor("S2D_FAST", "S2D_FAST", 2, 6, 1, 1, 1, 1, 6, 1, 6, 2),
   Tensor("S2D_FAST", "S2D_FAST", 8, 8, 1, 2, 2, 1, 8, 1, 8, 2),
   Tensor("S2D_FAST", "S2D_FAST", 2, 4, 3, 1, 1, 3, 12, 3, 12, 2)}

Frames(place) ==
  {Ufbc(encode, s[1], s[2], place) :
     encode \in BOOLEAN, s \in {<<64, 16>>, <<33, 9>>, <<31, 8>>}}

Pads(place) ==
  {Pad(mode, 2, 1, 1, 2, place) : mode \in {"constant", "edge", "reflect"}}
    \cup {Pad("edge", 0, 3, 2, 0, place), Pad("edge", 0, 0, 0, 0, place)}

Bayers(place) ==
  {Bayer(type, s[1], s[2], place) : type \in {"BAYER_TO_RGGB", "RGGB_TO_BAYER"},
                                    s \in {<<10, 4>>, <<10, 8>>, <<10, 6>>, <<12, 3>>, <<14, 4>>}}

Sdk(place) == {[info_type |-> "SDK", sdk_type |-> k, sdk |-> s, bind |-> FALSE] :
                 k \in {"GNL", "MM02"}, s \in {<<>>, <<Desc(0)>>}}

Infos ==
  Pictures \cup Tensors \cup {Foreign, Producer, Data("BYTES", 3, inside)}
    \cup UNION {Copies(place) \cup Frames(place) \cup Pads(place) \cup Bayers(place)
                  \cup Sdk(place) \cup {Slice(place)} : place \in {free, bound}}

Copy == Data("BYTES", 7, bound)
Image == General("RGB_8", "RGB_8", 5, 3, 1, bound)
Luma == Tensor("Y", "RGBA", 2, 16, 1, 1, 1, 1, 17, 4, 65, 0)
Edge == Pad("edge", 1, 1, 1, 1, free)
Turned == General("ARGB_8", "ROTATE90", 12, 3, 1, free)

\* several infos in one task: the second and third start behind the first
Sequences ==
  {<<Copy, Image>>, <<Edge, Luma>>, <<Luma, Copy, Luma>>, <<Turned, Slice(bound), Copy>>,
   <<Copy, Foreign, Image>>, <<Foreign, Copy>>, <<Data("BYTES", 130, bound), Copy>>,
   <<Pad("constant", 1, 0, 0, 1, bound), Bayer("BAYER_TO_RGGB", 12, 3, bound)>>}

Flat == {General("RGB_8", "RGB_8", 5, 3, 1, free), General("RGB_8", "RGB_8", 5, 3, 2, free),
         General("YUV422_8B", "ARGB_8", 8, 2, 1, free)}
          \cup {Data(to, n, free) : to \in {"BYTES", "FILL"}, n \in {3, 128, 132, 130, 1024}}
          \cup Frames(free)
          \cup {Producer, Data("BYTES", 3, bound), General("RGB_8", "RGB_8", 5, 3, 1, bound)}

single(infos) == {<<i>> : i \in infos}

MCTasks ==
  [v \in Versions |->
     [t \in Threads |->
        IF t # 1 THEN (IF v = 20 THEN single(Frames(free))
                       ELSE {<<Luma>>, <<Copy, Image>>, <<Pad("constant", 1, 0, 0, 1, bound)>>})
        ELSE IF v = 20 THEN single(Flat) \cup {<<Data("FILL", 5, free), Ufbc(TRUE, 33, 9, free)>>}
        ELSE single(Infos) \cup Sequences]]
=============================================================================
