------------------------------ MODULE EdmaFill ------------------------------
(***************************************************************************)
(* EdmaDescEngine of src/edma at work for several threads of a client.     *)
(* For each task a thread asks for the size and the number of its          *)
(* descriptors (EdmaEngine::querySubCmdInfo), allocates a buffer of that   *)
(* size and has it filled (EdmaEngine::fillDesc), and hands the buffer     *)
(* and the number to the device.                                           *)
(*                                                                         *)
(* The engine has one generator per type of info, which all threads use,   *)
(* and no lock.  A generator keeps the start of the buffer it is filling   *)
(* (pHeadDesc) from setHeadDesc() to fillDesc(), to report address fields  *)
(* as offsets from there.                                                  *)
(***************************************************************************)
EXTENDS EdmaDevice, Sums

CONSTANTS
  Threads,
  Tasks,      \* Tasks[v][t]: the tasks thread t may have on version v
  NoThread

ASSUME ThreadsAssumption == NoThread \notin Threads

Versions == {20, 30}

\* bytes of a pixel of an image to rotate
pixel(i) == IF i.inFormat = "YUV422_8B" THEN 2 ELSE 4

\* The fields the sizes are computed from are unsigned, an image to rotate has
\* at least one pixel (without one the number of its tiles wraps around), and
\* an SDK info points to a descriptor, if to anything.
wellFormed(i) ==
  /\ i.info_type = "GENERAL" =>
       /\ i.size_x \in Nat /\ i.size_y \in Nat /\ i.tileNum \in Nat
       /\ rotates(i) => i.size_x >= pixel(i) /\ i.size_y >= 1
  /\ i.info_type = "UFBC" => i.size_x \in Nat /\ i.size_y \in Nat
  /\ i.info_type = "NN" => i.shape_h \in Nat
  /\ i.info_type = "SDK" => i.sdk = <<>> \/ "type" \in DOMAIN i.sdk[1]

\* a task is an array of infos
ASSUME TasksAssumption ==
  \A v \in Versions : \A t \in Threads : \A infos \in Tasks[v][t] :
    /\ Len(infos) \in Nat /\ DOMAIN infos = 1 .. Len(infos)
    /\ \A k \in DOMAIN infos : wellFormed(infos[k])

VARIABLES
  hwVer,      \* version the engine was set to
  head,       \* per generator: the thread whose buffer pHeadDesc points to
  pc, task,   \* per thread: position and the task's infos
  size, num,  \* bytes of the buffer, descriptors the device is told of
  next, at,   \* info to fill next, and where
  buf,        \* the descriptors written, each with its place and its info
  offsets,    \* the address fields reported, with the buffer they refer to
  shared      \* threads that filled during this one's fill

mine == <<task, size, num>>
out  == <<buf, offsets>>
vars == <<hwVer, head, pc, mine, next, at, out, shared>>

filling == {t \in Threads : pc[t] \in {"head", "fill"}}
supported(i) == i.info_type \in Supported

\* size and number of all descriptors; an info without a generator is skipped
sizes(infos) ==
  [k \in 0 .. Len(infos) - 1 |->
     IF supported(infos[k + 1]) THEN queryDSize(hwVer, infos[k + 1]) ELSE 0]
nums(infos) ==
  [k \in 0 .. Len(infos) - 1 |->
     IF supported(infos[k + 1]) THEN queryDNum(hwVer, infos[k + 1]) ELSE 0]

sizeOf(infos) == SumTo(sizes(infos), Len(infos))
numOf(infos) == SumTo(nums(infos), Len(infos))

\* the size of the descriptors of the first k infos
start(t, k) == SumTo(sizes(task[t]), k)

-----------------------------------------------------------------------------
\* EdmaEngine sets the version it reads from the device before it is used
setHWver(v) ==
  /\ \A t \in Threads : pc[t] = "idle"
  /\ v # hwVer
  /\ hwVer' = v
  /\ UNCHANGED <<head, pc, mine, next, at, out, shared>>

queryTransDescSize(t, infos) ==
  /\ pc[t] = "idle"
  /\ task' = [task EXCEPT ![t] = infos]
  /\ size' = [size EXCEPT ![t] = sizeOf(infos)]
  /\ num' = [num EXCEPT ![t] = numOf(infos)]
  /\ pc' = [pc EXCEPT ![t] = "queried"]
  /\ UNCHANGED <<hwVer, head, next, at, out, shared>>

\* the generator of the first info hands the infos over; without one none is
transTaskInfo(t) ==
  /\ pc[t] = "queried"
  /\ pc' = [pc EXCEPT ![t] = IF task[t] # <<>> /\ supported(task[t][1])
                             THEN "head" ELSE "done"]
  /\ shared' = [u \in Threads |-> IF u = t THEN filling
                                  ELSE IF u \in filling THEN shared[u] \cup {t}
                                  ELSE shared[u]]
  /\ UNCHANGED <<hwVer, head, mine, next, at, out>>

setHeadDescOnce(t) ==
  /\ pc[t] = "head"
  /\ LET type == task[t][next[t]].info_type IN
     IF type \in Supported
     THEN /\ head' = IF head[type] = NoThread THEN [head EXCEPT ![type] = t] ELSE head
          /\ pc' = [pc EXCEPT ![t] = "fill"]
     ELSE /\ pc' = [pc EXCEPT ![t] = "done"]
          /\ UNCHANGED head
  /\ UNCHANGED <<hwVer, mine, next, at, out, shared>>

\* an info without a generator ends the fill, which fillDesc() of EdmaEngine
\* does not report
setHeadDesc(t) ==
  /\ pc[t] = "head"
  /\ LET type == task[t][next[t]].info_type IN
     IF type \in Supported
     THEN /\ head' = [head EXCEPT ![type] = t]
          /\ pc' = [pc EXCEPT ![t] = "fill"]
     ELSE /\ pc' = [pc EXCEPT ![t] = "done"]
          /\ UNCHANGED head
  /\ UNCHANGED <<hwVer, mine, next, at, out, shared>>

\* descs one behind the other from the place the fill has come to
descSizes(descs) == [k \in 0 .. Len(descs) - 1 |-> descSize(descs[k + 1].type)]

placed(t, descs) ==
  [k \in DOMAIN descs |->
     [at |-> at[t] + SumTo(descSizes(descs), k - 1), desc |-> descs[k], info |-> next[t]]]

\* reported when the caller gave bindings; infos of neural networks and UFBC
\* have fields for them
reported(t, binds) ==
  LET i == task[t][next[t]] IN
  IF ~(i.bind \/ i.info_type \in {"NN", "UFBC"}) THEN <<>>
  ELSE [k \in DOMAIN binds |->
          [buffer |-> head[i.info_type], field |-> at[t] + binds[k].at,
           object |-> binds[k].obj, off |-> binds[k].off, info |-> next[t]]]

\* what the generator returns is dropped: a refused info leaves a gap
fillInfo(t) ==
  /\ pc[t] = "fill"
  /\ LET i == task[t][next[t]]
         filled == fillDesc(hwVer, i)
     IN  /\ buf' = [buf EXCEPT ![t] = @ \o placed(t, filled.descs)]
         /\ offsets' = [offsets EXCEPT ![t] = @ \o reported(t, filled.binds)]
         /\ at' = [at EXCEPT ![t] = @ + queryDSize(hwVer, i)]
  /\ next' = [next EXCEPT ![t] = @ + 1]
  /\ pc' = [pc EXCEPT ![t] = IF next[t] = Len(task[t]) THEN "done" ELSE "head"]
  /\ UNCHANGED <<hwVer, head, mine, shared>>

-----------------------------------------------------------------------------
Init ==
  /\ hwVer = 30
  /\ head = [g \in Supported |-> NoThread]
  /\ pc = [t \in Threads |-> "idle"]
  /\ task = [t \in Threads |-> <<>>]
  /\ size = [t \in Threads |-> 0]
  /\ num = [t \in Threads |-> 0]
  /\ next = [t \in Threads |-> 1]
  /\ at = [t \in Threads |-> 0]
  /\ buf = [t \in Threads |-> <<>>]
  /\ offsets = [t \in Threads |-> <<>>]
  /\ shared = [t \in Threads |-> {}]

Finished == (\A t \in Threads : pc[t] = "done") /\ UNCHANGED vars

Next ==
  \/ \E v \in Versions : setHWver(v)
  \/ \E t \in Threads :
       \/ \E infos \in Tasks[hwVer][t] : queryTransDescSize(t, infos)
       \/ transTaskInfo(t) \/ setHeadDesc(t) \/ fillInfo(t)
  \/ Finished

Spec == Init /\ [][Next]_vars

-----------------------------------------------------------------------------
TypeOK ==
  /\ hwVer \in Versions
  /\ head \in [Supported -> Threads \cup {NoThread}]
  /\ pc \in [Threads -> {"idle", "queried", "head", "fill", "done"}]
  /\ \A t \in Threads :
       /\ task[t] \in (UNION {Tasks[v][t] : v \in Versions}) \cup {<<>>}
       /\ size[t] \in Nat /\ num[t] \in Nat /\ at[t] \in Nat
       /\ next[t] \in 1 .. Len(task[t]) + 1
       /\ \A k \in DOMAIN buf[t] : buf[t][k].info < next[t] /\ buf[t][k].at \in Nat
       /\ \A k \in DOMAIN offsets[t] : offsets[t][k].buffer \in Threads
       /\ shared[t] \subseteq Threads \ {t}

written(t) == Range(buf[t])
infoOf(t, e) == task[t][e.info]

\* the query takes every rotated image for a square one; what is rotated and
\* up-sampled at once is counted as the one and filled as the other
square(i) == i.size_x = pixel(i) * i.size_y

misjudged(i) == i.info_type = "GENERAL" /\ rotates(i) /\ (~square(i) \/ resizes(i))

refused(i) == queryDNum(hwVer, i) > 0 /\ fillDesc(hwVer, i).descs = <<>>

(* The descriptors of an info stay inside the part of the buffer that the   *)
(* query side counted for it, so no fill writes over its neighbour's or     *)
(* past the end of a buffer of the queried size.  Rotations of images that  *)
(* are not square, or up-sampled too, are left out: there the query is      *)
(* wrong.                                                                   *)
SlotsHold ==
  \A t \in Threads : \A e \in written(t) :
    ~misjudged(infoOf(t, e)) =>
      /\ start(t, e.info - 1) <= e.at
      /\ e.at + descSize(e.desc.type) <= start(t, e.info)
      /\ start(t, e.info) <= size[t]

(* The device, which takes `num' descriptors one behind the other, meets    *)
(* exactly the ones written and ends where the buffer ends, when every info *)
(* of the task has a generator that accepts it.                             *)
ChainWhole ==
  \A t \in Threads :
    (/\ pc[t] = "done"
     /\ \A k \in DOMAIN task[t] :
          LET i == task[t][k] IN supported(i) /\ ~misjudged(i) /\ ~refused(i))
    => /\ Len(buf[t]) = num[t]
       /\ \A k \in DOMAIN buf[t] :
            buf[t][k].at + descSize(buf[t][k].desc.type) =
              IF k = num[t] THEN size[t] ELSE buf[t][k + 1].at

(* `all offset from start descriptor point': the offsets a thread is told   *)
(* refer to its own buffer, unless another thread filled at the same time   *)
(* and its task has an info of the same type, whose generator both use.     *)
OffsetsFromStart ==
  \A t \in Threads : \A k \in DOMAIN offsets[t] :
    LET o == offsets[t][k]
        type == task[t][o.info].info_type
    IN \/ o.buffer = t
       \/ \E u \in shared[t] : \E j \in DOMAIN task[u] : task[u][j].info_type = type

-----------------------------------------------------------------------------
\* the tiles of an up-sampling keep pairs of bytes together
evenTiles(i) ==
  LET n == edma_queryTileNum(i) IN n = 1 \/ (i.size_x \div n) % 2 = 0

\* whole units of four pixels
wholeUnits(pixels, bits) == bits = 10 => pixels % 4 = 0

\* version 2.0 reports no field of an image or of data, 3.0 reports them for
\* the start of the object, whatever address the info gives
fromStart(i) == i.bind => hwVer = 30 /\ i.inBuf_addr = 0 /\ i.outBuf_addr = 0

\* infos whose data the library moves as the caller asks; see README.md for
\* what is wrong with the others
honoured(i) ==
  ~refused(i) /\
  CASE i.info_type = "GENERAL" /\ rotates(i) ->
         hwVer = 30 /\ ~i.bind /\ ~resizes(i) /\ (i.inFormat = "ARGB_8" \/ square(i))
    [] i.info_type = "GENERAL" /\ resizes(i) /\ ~rotates(i) ->
         hwVer = 30 /\ evenTiles(i) /\ fromStart(i) /\ (i.bind => edma_queryTileNum(i) = 1)
    [] i.info_type = "GENERAL" /\ ~resizes(i) /\ ~rotates(i) ->
         /\ fromStart(i) /\ (hwVer = 20 => i.size_z = 1)
         /\ i.inFormat = "YUV422_8B" /\ i.outFormat = "ARGB_8" => i.size_x % 4 = 0
    [] i.info_type = "DATA" ->
         /\ fromStart(i)
         /\ IF hwVer = 20
            THEN i.copy_size \in 1 .. FieldSize * LineSize /\ ~movesNothing(i)
            ELSE i.copy_size \notin {FieldSize, FieldSize * LineSize}
    [] i.info_type = "NN" ->
         /\ checkDescrpType(i) = 0 => converts(i) \/ i.src_type_size = i.dst_type_size
         /\ i.inFormat = "DEPTHTOSPACE" => i.shape_h = 1
         /\ i.inFormat \in {"DEPTHTOSPACE_FAST", "S2D_FAST"} => i.block_size = 2
         /\ i.inFormat = "DEPTHTOSPACE_FAST" =>
              i.shape_c = 4 \/ (i.shape_c = 16 /\ i.src_type_size = 1)
         /\ i.inFormat = "S2D_FAST" =>
              i.shape_c = 1 /\ i.shape_w * i.shape_h * i.dst_type_size < FieldSize
    [] i.info_type = "PAD" -> i.mode = "edge" => ~i.bind
    [] i.info_type = "BAYER_TO_RGGB" -> wholeUnits(i.src_size_x, i.in_bits)
    [] i.info_type = "RGGB_TO_BAYER" -> wholeUnits(i.dst_size_x, i.out_bits)
    [] i.info_type = "SDK" -> i.sdk_type = "GNL"
    [] i.info_type = "UFBC" -> FALSE   \* what a codec writes is not modelled
    [] OTHER -> TRUE

\* the caller writes the address of an object, plus the offset in it, to
\* every field it was told of
patched(t, e) ==
  LET told(p) == {k \in DOMAIN offsets[t] : offsets[t][k].field = e.at + p.at}
      address(o) == Base(o.object, o.info) + o.off
      plane(p) == IF told(p) = {} THEN p
                  ELSE [p EXCEPT !.addr = address(offsets[t][CHOOSE k \in told(p) : TRUE])]
  IN [e.desc EXCEPT !.src = [k \in DOMAIN @ |-> plane(@[k])],
                    !.dst = [k \in DOMAIN @ |-> plane(@[k])]]

(* The headers of a compressed frame are 16 bytes for each block of 32 by 8 *)
(* pixels it touches, whether it is coded or decoded.  The 3.0 decoder is   *)
(* left out for frames that do not end at a block: it does not align them.  *)
PayloadBehindHeaders(i, e) ==
  LET whole == i.size_x % 32 = 0 /\ i.size_y % 8 = 0
  IN i.info_type = "UFBC" /\ (hwVer = 20 \/ i.encode \/ whole) =>
       e.desc.payload = 16 * tiles(i.size_x, 32) * tiles(i.size_y, 8)

(* Running the descriptors writes every byte the infos ask for, made of the *)
(* bytes they ask for, and nothing else: pixels land where the picture      *)
(* turns them, tiles and short tiles fit together, no size is lost in the   *)
(* width of a field, and the address fields reported are the right ones.    *)
(* The bytes of a compressed frame are not modelled: its payload starts     *)
(* behind its headers.                                                      *)
DataArrives ==
  \A t \in Threads :
    /\ \A e \in written(t) : PayloadBehindHeaders(infoOf(t, e), e)
    /\ /\ pc[t] = "done"
       /\ \A k \in DOMAIN task[t] : supported(task[t][k]) /\ honoured(task[t][k])
       /\ \A k \in DOMAIN offsets[t] : offsets[t][k].buffer = t
       => LET result == ExecutedAll([k \in DOMAIN buf[t] |-> patched(t, buf[t][k])])
          IN {<<a, result[a]>> : a \in DOMAIN result} =
               UNION {Requested(task[t][k], k) : k \in DOMAIN task[t]}
=============================================================================
