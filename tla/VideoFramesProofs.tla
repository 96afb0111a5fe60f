-------------------------- MODULE VideoFramesProofs --------------------------
(***************************************************************************)
(* Proofs about VideoFrames, for any codecs, sizes of slices, limits and   *)
(* numbers of pictures.                                                    *)
(***************************************************************************)
EXTENDS VideoFrames, WellFoundedInduction, SequenceTheorems, TLAPS

-----------------------------------------------------------------------------
(* Sequences of sequences.                                                 *)

\* A set of numbers has a smallest one.
LEMMA Smallest ==
    ASSUME NEW T \in SUBSET Nat, T # {}
    PROVE  \E x \in T : \A y \in T : x <= y
<1> DEFINE R == OpToRel(<, Nat)
<1>1. IsWellFoundedOn(R, Nat)
  BY NatLessThanWellFounded
<1>2. \A x, y \in Nat : x < y => <<x, y>> \in R
  BY DEF OpToRel
<1> HIDE DEF R
<1>3. PICK x \in T : \A y \in T : ~(<<y, x>> \in R)
  BY <1>1, WFMin
<1>4. ASSUME NEW y \in T
      PROVE  x <= y
  <2>1. x \in Nat /\ y \in Nat
    OBVIOUS
  <2>2. ~(y < x)
    BY <1>2, <1>3, <2>1
  <2>3. QED
    BY <2>1, <2>2
<1>5. QED
  BY <1>4

\* g is what FlattenSeq computes for the first m sequences of ss.
Flattens(g, ss, m) ==
    \A i \in 1 .. m : g[i] = IF i = 1 THEN ss[i] ELSE g[i - 1] \o ss[i]

\* The recursive function of FlattenSeq exists.
LEMMA FlattenExists ==
    ASSUME NEW W, \A u, v \in W : u \o v \in W,
           NEW ss \in Seq(W), NEW m \in 1 .. Len(ss)
    PROVE  \E g \in [1 .. m -> W] : Flattens(g, ss, m)
<1> DEFINE Good(k) == \E g \in [1 .. k -> W] : Flattens(g, ss, k)
           T == {k \in 1 .. Len(ss) : ~Good(k)}
<1>1. SUFFICES T = {}
  OBVIOUS
<1>2. SUFFICES ASSUME T # {}
               PROVE  FALSE
  OBVIOUS
<1>3. T \in SUBSET Nat
  OBVIOUS
<1> HIDE DEF T
<1>4. PICK k \in T : \A y \in T : k <= y
  BY <1>2, <1>3, Smallest
<1>5. k \in 1 .. Len(ss) /\ ~Good(k)
  BY DEF T
<1>6. CASE k = 1
  <2> DEFINE g == [i \in 1 .. 1 |-> ss[1]]
  <2>1. g \in [1 .. 1 -> W]
    BY <1>5, <1>6
  <2>2. Flattens(g, ss, 1)
    BY DEF Flattens
  <2>3. QED
    BY <1>5, <1>6, <2>1, <2>2
<1>7. CASE k # 1
  <2>1. k - 1 \in 1 .. Len(ss) /\ k \in Nat /\ ~(k <= k - 1)
    BY <1>5, <1>7
  <2>2. Good(k - 1)
    BY <1>4, <2>1 DEF T
  <2>3. PICK g \in [1 .. k - 1 -> W] : Flattens(g, ss, k - 1)
    BY <2>2
  <2> DEFINE h == [i \in 1 .. k |-> IF i = k THEN g[k - 1] \o ss[k] ELSE g[i]]
  <2>4. g[k - 1] \in W /\ ss[k] \in W
    BY <1>5, <2>1
  <2>5. g[k - 1] \o ss[k] \in W
    BY <2>4
  <2>6. ASSUME NEW i \in 1 .. k
        PROVE  h[i] \in W
    <3>1. CASE i = k
      BY <2>5, <3>1
    <3>2. CASE i # k
      <4>1. i \in 1 .. k - 1
        BY <2>1, <3>2
      <4>2. QED
        BY <3>2, <4>1
    <3>3. QED
      BY <3>1, <3>2
  <2>7. h \in [1 .. k -> W]
    BY <2>6
  <2>8. ASSUME NEW i \in 1 .. k
        PROVE  h[i] = IF i = 1 THEN ss[i] ELSE h[i - 1] \o ss[i]
    <3>1. CASE i = k
      <4>1. k \in 1 .. k /\ k - 1 \in 1 .. k /\ k - 1 # k
        BY <1>5, <2>1
      <4>2. h[k] = g[k - 1] \o ss[k] /\ h[k - 1] = g[k - 1]
        BY <4>1
      <4>3. QED
        BY <1>7, <3>1, <4>2
    <3>2. CASE i # k
      <4>1. i \in 1 .. k - 1
        BY <2>1, <3>2
      <4>2. g[i] = IF i = 1 THEN ss[i] ELSE g[i - 1] \o ss[i]
        BY <2>3, <4>1 DEF Flattens
      <4>3. h[i] = g[i]
        BY <3>2
      <4>4. i # 1 => h[i - 1] = g[i - 1]
        BY <2>1, <4>1
      <4>5. QED
        BY <4>2, <4>3, <4>4
    <3>3. QED
      BY <3>1, <3>2
  <2> HIDE DEF h
  <2>9. Flattens(h, ss, k)
    BY <2>8 DEF Flattens
  <2>10. QED
    BY <1>5, <2>7, <2>9
<1>8. QED
  BY <1>6, <1>7

\* What FlattenSeq returns.
LEMMA FlattenValue ==
    ASSUME NEW W, \A u, v \in W : u \o v \in W,
           NEW ss \in Seq(W), ss # <<>>
    PROVE  \E g : Flattens(g, ss, Len(ss)) /\ FlattenSeq(ss) = g[Len(ss)]
<1> DEFINE n == Len(ss)
           flatten[i \in 1 .. n] ==
               IF i = 1 THEN ss[i] ELSE flatten[i - 1] \o ss[i]
<1>1. n \in Nat /\ n # 0
  BY LenProperties, EmptySeq
<1>2. n \in 1 .. n
  BY <1>1
<1>3. PICK g \in [1 .. n -> W] : Flattens(g, ss, n)
  BY <1>2, FlattenExists
<1>4. g = [i \in 1 .. n |-> IF i = 1 THEN ss[i] ELSE g[i - 1] \o ss[i]]
  BY <1>3 DEF Flattens
<1>5. flatten = CHOOSE f : f = [i \in 1 .. n |->
                    IF i = 1 THEN ss[i] ELSE f[i - 1] \o ss[i]]
  BY DEF flatten
<1>6. flatten = [i \in 1 .. n |->
                    IF i = 1 THEN ss[i] ELSE flatten[i - 1] \o ss[i]]
  <2> HIDE DEF flatten
  <2>1. QED
    BY <1>4, <1>5, Zenon
<1>7. FlattenSeq(ss) = flatten[n]
  BY <1>1 DEF FlattenSeq, flatten
<1> HIDE DEF flatten
<1>8. Flattens(flatten, ss, n)
  <2>1. ASSUME NEW i \in 1 .. n
        PROVE  flatten[i] = IF i = 1 THEN ss[i] ELSE flatten[i - 1] \o ss[i]
    BY <1>6
  <2>2. QED
    BY <2>1 DEF Flattens
<1>9. QED
  BY <1>7, <1>8

\* A property of sequences that concatenation keeps holds of what FlattenSeq
\* returns.
LEMMA FlattenClosed ==
    ASSUME NEW W, \A u, v \in W : u \o v \in W,
           NEW ss \in Seq(W), ss # <<>>
    PROVE  FlattenSeq(ss) \in W
<1> DEFINE n == Len(ss)
<1>1. n \in Nat /\ n # 0
  BY LenProperties, EmptySeq
<1>2. PICK g : Flattens(g, ss, n) /\ FlattenSeq(ss) = g[n]
  BY FlattenValue
<1> DEFINE T == {k \in 1 .. n : g[k] \notin W}
<1>3. SUFFICES T = {}
  BY <1>1, <1>2
<1>4. SUFFICES ASSUME T # {}
               PROVE  FALSE
  OBVIOUS
<1>5. T \in SUBSET Nat
  OBVIOUS
<1> HIDE DEF T
<1>6. PICK k \in T : \A y \in T : k <= y
  BY <1>4, <1>5, Smallest
<1>7. k \in 1 .. n /\ g[k] \notin W /\ ss[k] \in W
  BY DEF T
<1>8. g[k] = IF k = 1 THEN ss[k] ELSE g[k - 1] \o ss[k]
  BY <1>2, <1>7 DEF Flattens
<1>9. k # 1 => k - 1 \in 1 .. n /\ ~(k <= k - 1)
  BY <1>1, <1>7
<1>10. k # 1 => g[k - 1] \in W
  BY <1>6, <1>9 DEF T
<1>11. k # 1 => g[k - 1] \o ss[k] \in W
  BY <1>7, <1>10
<1>12. QED
  BY <1>7, <1>8, <1>11

-----------------------------------------------------------------------------
(* The packets of a picture.                                               *)

\* The kinds of packets of whole slices, in order: what is begun is ended.
Whole(k) ==
    /\ k \in Seq(Kinds) /\ k # <<>>
    /\ k[1] \in {"single", "start"} /\ k[Len(k)] \in {"single", "end"}
    /\ \A i \in 1 .. Len(k) - 1 :
           k[i] \in {"start", "middle"} <=> k[i + 1] \in {"middle", "end"}

WholeSlices == {k \in Seq(Kinds) : Whole(k)}

\* Those whose last slice takes several packets.
Ended == {k \in WholeSlices : k[Len(k)] = "end"}

\* Whole slices after whole slices are whole slices.
LEMMA WholeConcat ==
    ASSUME NEW u \in WholeSlices, NEW v \in WholeSlices
    PROVE  u \o v \in WholeSlices /\ (v \in Ended => u \o v \in Ended)
<1> DEFINE w == u \o v
<1>1. u \in Seq(Kinds) /\ v \in Seq(Kinds) /\ Whole(u) /\ Whole(v)
  BY DEF WholeSlices
<1>2. /\ w \in Seq(Kinds) /\ Len(w) = Len(u) + Len(v)
      /\ Len(u) \in Nat \ {0} /\ Len(v) \in Nat \ {0}
      /\ \A i \in 1 .. Len(u) : w[i] = u[i]
      /\ \A i \in 1 .. Len(v) : w[Len(u) + i] = v[i]
  BY <1>1 DEF Whole
<1> HIDE DEF w
<1>3. w[1] = u[1] /\ w[Len(w)] = v[Len(v)] /\ w # <<>>
  <2>1. 1 \in 1 .. Len(u) /\ Len(v) \in 1 .. Len(v) /\ Len(w) # 0
    BY <1>2
  <2>2. QED
    BY <1>2, <2>1
<1>4. ASSUME NEW i \in 1 .. Len(w) - 1
      PROVE  w[i] \in {"start", "middle"} <=> w[i + 1] \in {"middle", "end"}
  <2>1. CASE i < Len(u)
    <3>1. i \in 1 .. Len(u) - 1 /\ i \in 1 .. Len(u) /\ i + 1 \in 1 .. Len(u)
      BY <1>2, <2>1
    <3>2. QED
      BY <1>1, <1>2, <3>1 DEF Whole
  <2>2. CASE i = Len(u)
    <3>1. w[i] = u[Len(u)] /\ w[i + 1] = v[1]
      <4>1. i \in 1 .. Len(u) /\ 1 \in 1 .. Len(v)
        BY <1>2, <2>2
      <4>2. QED
        BY <1>2, <2>2, <4>1
    <3>2. QED
      BY <1>1, <3>1 DEF Whole
  <2>3. CASE i > Len(u)
    <3>1. /\ i - Len(u) \in 1 .. Len(v) - 1 /\ i - Len(u) \in 1 .. Len(v)
          /\ (i - Len(u)) + 1 \in 1 .. Len(v)
          /\ i = Len(u) + (i - Len(u)) /\ i + 1 = Len(u) + ((i - Len(u)) + 1)
      BY <1>2, <2>3
    <3>2. /\ w[Len(u) + (i - Len(u))] = v[i - Len(u)]
          /\ w[Len(u) + ((i - Len(u)) + 1)] = v[(i - Len(u)) + 1]
      BY <1>2, <3>1
    <3>3. w[i] = v[i - Len(u)] /\ w[i + 1] = v[(i - Len(u)) + 1]
      BY <3>1, <3>2
    <3>4. QED
      BY <1>1, <3>1, <3>3 DEF Whole
  <2>4. QED
    BY <1>2, <2>1, <2>2, <2>3
<1>5. Whole(w)
  BY <1>1, <1>2, <1>3, <1>4 DEF Whole
<1>6. QED
  BY <1>2, <1>3, <1>5 DEF w, WholeSlices, Ended

\* A slice of n packets is whole.
LEMMA SliceIsWhole ==
    ASSUME NEW n \in Nat \ {0}
    PROVE  /\ SliceKinds(n) \in WholeSlices /\ Len(SliceKinds(n)) = n
           /\ n # 1 => SliceKinds(n) \in Ended
<1>1. CASE n = 1
  BY <1>1 DEF SliceKinds, WholeSlices, Whole, Kinds
<1>2. CASE n # 1
  <2> DEFINE k == [i \in 1 .. n |-> IF i = 1 THEN "start"
                                    ELSE IF i = n THEN "end" ELSE "middle"]
  <2>1. SliceKinds(n) = k
    BY <1>2 DEF SliceKinds
  <2>2. k \in Seq(Kinds) /\ Len(k) = n
    BY DEF Kinds
  <2>3. /\ k[1] = "start" /\ k[n] = "end"
        /\ \A i \in 1 .. n : /\ i # 1 /\ i # n => k[i] = "middle"
    BY <1>2
  <2> HIDE DEF k
  <2>4. ASSUME NEW i \in 1 .. n - 1
        PROVE  k[i] \in {"start", "middle"} <=> k[i + 1] \in {"middle", "end"}
    <3>1. i \in 1 .. n /\ i # n /\ i + 1 \in 1 .. n /\ i + 1 # 1
      OBVIOUS
    <3>2. k[i] \in {"start", "middle"} /\ k[i + 1] \in {"middle", "end"}
      BY <2>3, <3>1
    <3>3. QED
      BY <3>2
  <2>5. Whole(k)
    BY <2>2, <2>3, <2>4 DEF Whole
  <2>6. QED
    BY <2>1, <2>2, <2>3, <2>5 DEF WholeSlices, Ended
<1>3. QED
  BY <1>1, <1>2

\* The kinds of the packets of a picture.
PictureKinds(idr, n) ==
    (IF idr THEN <<"single">> ELSE <<>>)
        \o FlattenSeq([s \in 1 .. Slices |-> SliceKinds(n[s])])

\* A picture consists of whole slices.
LEMMA PictureIsWhole ==
    ASSUME NEW idr, NEW n \in [1 .. Slices -> Packets]
    PROVE  /\ PictureKinds(idr, n) \in WholeSlices
           /\ 1 \notin Packets => PictureKinds(idr, n) \in Ended
<1> DEFINE ss == [s \in 1 .. Slices |-> SliceKinds(n[s])]
<1>1. Slices \in Nat /\ Slices # 0 /\ Packets \subseteq Nat \ {0}
  BY VideoAssumption
<1>2. ASSUME NEW s \in 1 .. Slices
      PROVE  n[s] \in Nat \ {0} /\ n[s] \in Packets
  BY <1>1
<1>3. ss \in Seq(WholeSlices) /\ Len(ss) = Slices /\ ss # <<>>
  <2>1. \A s \in 1 .. Slices : ss[s] \in WholeSlices
    BY <1>2, SliceIsWhole
  <2>2. ss \in Seq(WholeSlices) /\ Len(ss) = Slices
    BY <1>1, <2>1
  <2> HIDE DEF ss
  <2>3. QED
    BY <1>1, <2>2
<1>4. ASSUME 1 \notin Packets
      PROVE  ss \in Seq(Ended)
  <2>1. \A s \in 1 .. Slices : ss[s] \in Ended
    BY <1>2, <1>4, SliceIsWhole
  <2>2. QED
    BY <1>1, <2>1
<1> HIDE DEF ss
<1>5. FlattenSeq(ss) \in WholeSlices
  BY <1>3, FlattenClosed, WholeConcat
<1>6. 1 \notin Packets => FlattenSeq(ss) \in Ended
  <2>1. \A u, v \in Ended : u \o v \in Ended
    BY WholeConcat DEF Ended
  <2>2. QED
    BY <1>3, <1>4, <2>1, FlattenClosed
<1>7. <<"single">> \in WholeSlices
  BY DEF WholeSlices, Whole, Kinds
<1>8. \A u \in WholeSlices : <<>> \o u = u
  BY DEF WholeSlices
<1>9. PictureKinds(idr, n) = (IF idr THEN <<"single">> ELSE <<>>) \o FlattenSeq(ss)
  BY DEF PictureKinds, ss
<1>10. QED
  BY <1>5, <1>6, <1>7, <1>8, <1>9, WholeConcat

-----------------------------------------------------------------------------
(* The inductive invariant: types and order.                               *)

Frame == [fragments : Seq(Packet) \ {<<>>}, idr : BOOLEAN]

TypeInv ==
    /\ intraRefresh \in BOOLEAN
    /\ codec \in Codecs /\ pipe \in Codecs /\ fresh \in BOOLEAN
    /\ todo \in Seq(Packet) /\ m_frame_fragments \in Seq(Packet)
    /\ Len(m_frame_fragments) <= FragmentLimit
    /\ queue \in Seq(Frame) /\ Len(queue) <= QueueSize
    /\ pc \in {"check", "pull", "count"} /\ user \in {"idle", "stored"}
    /\ m_request_restart \in BOOLEAN /\ m_last_fu_s_idr \in BOOLEAN
    /\ m_air_close_video_in \in BOOLEAN
    /\ pictures \in 0 .. MaxPictures /\ packets \in Nat /\ lastSent \in Nat
    /\ changes \in 0 .. MaxChanges

\* What Encode makes.
LEMMA EncodeEffect ==
    ASSUME TypeInv, Encode
    PROVE  \E idr \in BOOLEAN, n \in [1 .. Slices -> Packets] :
              LET k == PictureKinds(idr, n)
              IN  /\ k \in WholeSlices /\ (1 \notin Packets => k \in Ended)
                  /\ Len(k) \in Nat \ {0}
                  /\ todo' = [i \in 1 .. Len(k) |->
                                [id |-> packets + i, picture |-> pictures + 1,
                                 kind |-> k[i], idr |-> idr, codec |-> pipe]]
                  /\ Len(todo') = Len(k)
                  /\ todo' \in Seq(Packet)
                  /\ packets' = packets + Len(k)
                  /\ pictures' = pictures + 1 /\ pictures' \in 0 .. MaxPictures
<1>1. PICK idr \in BOOLEAN, n \in [1 .. Slices -> Packets] :
          /\ todo' = [i \in 1 .. Len(PictureKinds(idr, n)) |->
                        [id |-> packets + i, picture |-> pictures + 1,
                         kind |-> PictureKinds(idr, n)[i], idr |-> idr,
                         codec |-> pipe]]
          /\ packets' = packets + Len(PictureKinds(idr, n))
  BY DEF Encode, PictureKinds
<1> DEFINE k == PictureKinds(idr, n)
<1>2. k \in WholeSlices /\ (1 \notin Packets => k \in Ended)
  BY PictureIsWhole
<1> HIDE DEF k
<1>3. k \in Seq(Kinds) /\ k # <<>> /\ Len(k) \in Nat \ {0}
  BY <1>2 DEF WholeSlices, Whole
<1>4. /\ pictures' = pictures + 1 /\ pictures < MaxPictures
      /\ pictures \in 0 .. MaxPictures /\ packets \in Nat /\ pipe \in Codecs
      /\ MaxPictures \in Nat
  BY VideoAssumption DEF Encode, TypeInv
<1>5. pictures + 1 \in 1 .. MaxPictures
  BY <1>4
<1>6. ASSUME NEW i \in 1 .. Len(k)
      PROVE  [id |-> packets + i, picture |-> pictures + 1, kind |-> k[i],
              idr |-> idr, codec |-> pipe] \in Packet
  <2>1. k[i] \in Kinds /\ packets + i \in Nat
    BY <1>3, <1>4
  <2>2. QED
    BY <1>4, <1>5, <2>1 DEF Packet
<1>7. todo' = [i \in 1 .. Len(k) |->
                 [id |-> packets + i, picture |-> pictures + 1, kind |-> k[i],
                  idr |-> idr, codec |-> pipe]]
  BY <1>1 DEF k
<1>8. todo' \in Seq(Packet) /\ Len(todo') = Len(k)
  BY <1>3, <1>6, <1>7
<1>9. pictures' \in 0 .. MaxPictures
  BY <1>4, <1>5
<1>10. packets' = packets + Len(k)
  BY <1>1 DEF k
<1>11. QED
  BY <1>2, <1>3, <1>4, <1>7, <1>8, <1>9, <1>10 DEF k

\* The counters and the history of the dropped frames.
DropsKnown ==
    /\ n_dropped_frames \in Nat /\ m_primary_total_dropped_frames \in Nat
    /\ handed \in Nat /\ sent \in Nat /\ earlier \in Nat
    /\ DropsAreCounted

\* A frame that is given to the transmitter is dropped at once, appended, or
\* all that is in the queue.
LEMMA TransmitEffect ==
    ASSUME TypeInv, NEW frame \in Frame, transmit_video_data(frame)
    PROVE  /\ \/ queue' = queue
              \/ queue' = Append(queue, frame)
              \/ queue' = <<frame>> /\ UsesDropping(frame.idr)
           /\ queue' \in Seq(Frame) /\ Len(queue') <= QueueSize
           /\ DropsKnown /\ n_dropped_frames = 0 => DropsKnown'
<1>1. queue \in Seq(Frame) /\ Len(queue) <= QueueSize /\ QueueSize \in Nat \ {0}
      /\ Len(queue) \in Nat
  BY VideoAssumption DEF TypeInv
<1>2. CASE m_air_close_video_in /\ UNCHANGED link
  BY <1>1, <1>2 DEF link, drops, DropsKnown, DropsAreCounted
<1>3. CASE ~m_air_close_video_in
  <2>1. handed' = handed + 1
        /\ UNCHANGED <<m_primary_total_dropped_frames, sent, earlier>>
    BY <1>3 DEF transmit_video_data, link, drops
  <2>2. CASE Len(queue) < QueueSize /\ queue' = Append(queue, frame)
             /\ n_dropped_frames' = 0
    <3>1. queue' \in Seq(Frame) /\ Len(queue') = Len(queue) + 1
      BY <1>1, <2>2
    <3>2. QED
      BY <1>1, <2>1, <2>2, <3>1 DEF DropsKnown, DropsAreCounted
  <2>3. CASE Len(queue) = QueueSize /\ UsesDropping(frame.idr)
             /\ queue' = <<frame>> /\ n_dropped_frames' = Len(queue)
    <3>1. queue' \in Seq(Frame) /\ Len(queue') = 1
      BY <2>3
    <3>2. QED
      BY <1>1, <2>1, <2>3, <3>1 DEF DropsKnown, DropsAreCounted
  <2>4. CASE queue' = queue /\ n_dropped_frames' = 1
    BY <1>1, <2>1, <2>4 DEF DropsKnown, DropsAreCounted
  <2>5. CASE UsesDropping(frame.idr)
    <3>1. PICK c \in 0 .. QueueSize :
              enqueue_block_dropping(frame, c) /\ n_dropped_frames' = c
      BY <1>3, <2>5 DEF transmit_video_data
    <3>2. QED
      BY <2>2, <2>3, <2>5, <3>1 DEF enqueue_block_dropping
  <2>6. CASE ~UsesDropping(frame.idr)
    <3>1. PICK res \in BOOLEAN :
              /\ try_enqueue_block(frame, res)
              /\ n_dropped_frames' = IF res THEN 0 ELSE 1
      BY <1>3, <2>6 DEF transmit_video_data
    <3>2. CASE res
      BY <2>2, <3>1, <3>2 DEF try_enqueue_block
    <3>3. CASE ~res
      BY <2>4, <3>1, <3>3 DEF try_enqueue_block
    <3>4. QED
      BY <3>2, <3>3
  <2>7. QED
    BY <2>5, <2>6
<1>4. QED
  BY <1>2, <1>3 DEF transmit_video_data

\* What reading a packet does to the fragments, the mark and the queue.
LEMMA PullEffect ==
    ASSUME TypeInv, Pull
    PROVE  LET p == todo[1]
               f == Append(m_frame_fragments, p)
               info == MoreInfo(p, codec)
               idr == LastFuStartIdr(info)
           IN /\ todo # <<>> /\ todo' = Tail(todo) /\ p \in Packet
              /\ f \in Seq(Packet) /\ idr \in BOOLEAN
              /\ [fragments |-> f, idr |-> idr] \in Frame
              /\ todo' \in Seq(Packet) /\ m_frame_fragments' \in Seq(Packet)
              /\ Len(m_frame_fragments') <= FragmentLimit
              /\ m_last_fu_s_idr' \in BOOLEAN
              /\ \/ /\ IsLastFragment(f, info)
                    /\ m_frame_fragments' = <<>> /\ m_last_fu_s_idr' = FALSE
                    /\ \/ queue' = queue
                       \/ queue' = Append(queue, [fragments |-> f, idr |-> idr])
                       \/ /\ queue' = <<[fragments |-> f, idr |-> idr]>>
                          /\ UsesDropping(idr)
                 \/ /\ ~IsLastFragment(f, info)
                    /\ m_frame_fragments' = f /\ m_last_fu_s_idr' = idr
                    /\ queue' = queue
              /\ queue' \in Seq(Frame) /\ Len(queue') <= QueueSize
              /\ DropsKnown /\ n_dropped_frames = 0 => DropsKnown'
<1> DEFINE p == todo[1]
           f == Append(m_frame_fragments, p)
           info == MoreInfo(p, codec)
           idr == LastFuStartIdr(info)
           frame == [fragments |-> f, idr |-> idr]
<1>1. /\ todo \in Seq(Packet) /\ todo # <<>> /\ m_frame_fragments \in Seq(Packet)
      /\ todo' = Tail(todo) /\ Head(todo) = p
      /\ queue \in Seq(Frame) /\ Len(queue) <= QueueSize /\ FragmentLimit \in Nat
      /\ m_last_fu_s_idr \in BOOLEAN
  BY VideoAssumption DEF TypeInv, Pull
<1>2. p \in Packet /\ f \in Seq(Packet) /\ todo' \in Seq(Packet)
      /\ Len(f) \in Nat
  BY <1>1
<1>3. idr \in BOOLEAN
  <2>1. info.is_idr \in BOOLEAN
    BY <1>2 DEF MoreInfo, Packet
  <2>2. QED
    BY <1>1, <2>1 DEF LastFuStartIdr
<1>4. frame \in Frame
  <2>1. f # <<>>
    <3> DEFINE g == m_frame_fragments
    <3>1. g \in Seq(Packet)
      BY <1>1
    <3> HIDE DEF g, p
    <3>2. p \in Packet
      BY <1>2
    <3>3. Append(g, p) # <<>>
      BY <3>1, <3>2, AppendProperties, Zenon
    <3>4. QED
      BY <3>3 DEF g
  <2>2. QED
    BY <1>2, <1>3, <2>1 DEF Frame
<1>5. on_new_rtp_frame_fragment(p)
  BY <1>1 DEF Pull
<1>6. CASE IsLastFragment(f, info) /\ Forward(f, idr)
  <2>1. transmit_video_data(frame) /\ m_frame_fragments' = <<>>
        /\ m_last_fu_s_idr' = FALSE
    BY <1>6 DEF Forward
  <2> HIDE DEF frame
  <2>2. /\ \/ queue' = queue
           \/ queue' = Append(queue, frame)
           \/ queue' = <<frame>> /\ UsesDropping(frame.idr)
        /\ queue' \in Seq(Frame) /\ Len(queue') <= QueueSize
        /\ DropsKnown /\ n_dropped_frames = 0 => DropsKnown'
    BY <1>4, <2>1, TransmitEffect
  <2>3. frame.idr = idr
    BY DEF frame
  <2>4. m_frame_fragments' \in Seq(Packet) /\ Len(m_frame_fragments') <= FragmentLimit
        /\ m_last_fu_s_idr' \in BOOLEAN
    <3>1. <<>> \in Seq(Packet) /\ Len(<<>>) <= FragmentLimit
      BY <1>1
    <3>2. QED
      BY <2>1, <3>1
  <2> HIDE DEF f, info, idr, p
  <2>5. QED
    BY <1>1, <1>2, <1>3, <1>4, <1>6, <2>1, <2>2, <2>3, <2>4
       DEF f, info, idr, p, frame
<1>7. CASE /\ ~IsLastFragment(f, info) /\ m_frame_fragments' = f
           /\ m_last_fu_s_idr' = idr /\ UNCHANGED link
  <2>1. Len(f) <= FragmentLimit
    BY <1>1, <1>2, <1>7 DEF IsLastFragment
  <2>2. queue' = queue /\ (DropsKnown => DropsKnown')
    BY <1>7 DEF link, drops, DropsKnown, DropsAreCounted
  <2> HIDE DEF f, info, idr, p
  <2>3. m_frame_fragments' \in Seq(Packet) /\ Len(m_frame_fragments') <= FragmentLimit
        /\ m_last_fu_s_idr' \in BOOLEAN
    BY <1>2, <1>3, <1>7, <2>1
  <2>4. QED
    BY <1>1, <1>2, <1>3, <1>4, <1>7, <2>2, <2>3 DEF f, info, idr, p, frame
<1>8. (IsLastFragment(f, info) /\ Forward(f, idr))
      \/ (/\ ~IsLastFragment(f, info) /\ m_frame_fragments' = f
          /\ m_last_fu_s_idr' = idr /\ UNCHANGED link)
  BY <1>5 DEF on_new_rtp_frame_fragment
<1>9. QED
  BY <1>6, <1>7, <1>8

\* What moves no packet.
Elsewhere == \/ SetCodec \/ RequestRestart \/ CloseOrOpen \/ Check
             \/ PullTimesOut \/ CountDrops \/ ResetDropped

LEMMA ElsewhereEffect ==
    ASSUME Elsewhere
    PROVE  UNCHANGED <<pipe, fresh, todo, pictures, packets, m_frame_fragments,
                       m_last_fu_s_idr, queue, lastSent>>
  BY DEF Elsewhere, SetCodec, RequestRestart, CloseOrOpen, Check, PullTimesOut,
         CountDrops, ResetDropped,
         encoder, camera, settings, link

\* Types are kept.
LEMMA TypeStep ==
    ASSUME TypeInv, Next
    PROVE  TypeInv'
<1>1. intraRefresh' = intraRefresh /\ (Encode \/ Elsewhere \/ Take \/ Pull \/ Restart)
  BY DEF Next, Elsewhere
<1>2. CASE Encode
  <2>1. /\ todo' \in Seq(Packet) /\ packets' \in Nat /\ pictures' \in 0 .. MaxPictures
    <3>1. packets \in Nat
      BY DEF TypeInv
    <3>2. QED
      BY <1>2, <3>1, EncodeEffect
  <2>2. fresh' = FALSE
        /\ UNCHANGED <<pipe, camera, settings, m_request_restart,
                       m_air_close_video_in, link, lastSent>>
    BY <1>2 DEF Encode
  <2>3. QED
    BY <1>1, <2>1, <2>2 DEF TypeInv, camera, settings, link
<1>3. CASE Elsewhere
  <2>1. /\ codec' \in Codecs /\ pc' \in {"check", "pull", "count"} /\ user' \in {"idle", "stored"}
        /\ m_request_restart' \in BOOLEAN /\ m_air_close_video_in' \in BOOLEAN
    BY <1>3 DEF TypeInv, Elsewhere, SetCodec, RequestRestart, CloseOrOpen, Check,
                PullTimesOut, CountDrops, ResetDropped,
                encoder, camera, settings, link
  <2>2. changes' \in 0 .. MaxChanges
    <3>1. CASE SetCodec
      BY <3>1, VideoAssumption DEF TypeInv, SetCodec
    <3>2. CASE ~SetCodec
      BY <1>3, <3>2 DEF TypeInv, Elsewhere, RequestRestart, CloseOrOpen, Check,
                        PullTimesOut, CountDrops, ResetDropped, settings
    <3>3. QED
      BY <3>1, <3>2
  <2>3. QED
    BY <1>1, <1>3, <2>1, <2>2, ElsewhereEffect DEF TypeInv
<1>4. CASE Take
  <2>1. /\ queue # <<>> /\ queue' = Tail(queue)
        /\ lastSent' = Last(Head(queue).fragments).id
        /\ UNCHANGED <<encoder, camera, settings, m_request_restart,
                       m_air_close_video_in>>
    BY <1>4 DEF Take
  <2>2. queue \in Seq(Frame) /\ Len(queue) <= QueueSize
    BY DEF TypeInv
  <2>3. queue' \in Seq(Frame) /\ Len(queue') = Len(queue) - 1 /\ Len(queue) \in Nat
    BY <2>1, <2>2
  <2>4. Len(queue') <= QueueSize
    BY <2>2, <2>3, VideoAssumption
  <2>5. lastSent' \in Nat
    <3>1. Head(queue) \in Frame
      BY <2>1, <2>2
    <3>2. /\ Head(queue).fragments \in Seq(Packet) /\ Head(queue).fragments # <<>>
      BY <3>1 DEF Frame
    <3> DEFINE f == Head(queue).fragments
    <3>3. lastSent' = f[Len(f)].id
      BY <2>1 DEF Last
    <3> HIDE DEF f
    <3>4. f[Len(f)] \in Packet
      BY <3>2 DEF f
    <3>5. QED
      BY <3>3, <3>4 DEF Packet
  <2>6. QED
    BY <1>1, <2>1, <2>3, <2>4, <2>5 DEF TypeInv, encoder, camera, settings
<1>5. CASE Pull
  <2>1. /\ todo' \in Seq(Packet) /\ m_frame_fragments' \in Seq(Packet)
        /\ Len(m_frame_fragments') <= FragmentLimit
        /\ m_last_fu_s_idr' \in BOOLEAN
        /\ queue' \in Seq(Frame) /\ Len(queue') <= QueueSize
    BY <1>5, PullEffect
  <2>2. /\ pc' \in {"check", "count"}
        /\ UNCHANGED <<pipe, fresh, pictures, packets, settings, m_request_restart,
                       m_air_close_video_in, lastSent>>
    BY <1>5 DEF Pull
  <2>3. QED
    BY <1>1, <2>1, <2>2 DEF TypeInv, settings
<1>6. CASE Restart
  <2>1. <<>> \in Seq(Packet) /\ Len(<<>>) <= FragmentLimit
    BY VideoAssumption
  <2>2. QED
    BY <1>1, <1>6, <2>1 DEF TypeInv, Restart, settings, link
<1>7. QED
  BY <1>1, <1>2, <1>3, <1>4, <1>5, <1>6

-----------------------------------------------------------------------------
(* The order of the packets.                                               *)

\* The number of the last packet that left the camera's thread.
Passed == (packets - Len(todo)) - Len(m_frame_fragments)

\* The packets the camera's thread and the pipeline hold are the newest ones.
Numbered ==
    /\ lastSent <= Passed
    /\ \A i \in 1 .. Len(m_frame_fragments) : m_frame_fragments[i].id = Passed + i
    /\ \A i \in 1 .. Len(todo) : todo[i].id = (packets - Len(todo)) + i

\* No fragment is missing in f.
Gapless(f) == \A j \in 1 .. Len(f) - 1 : f[j + 1].id = f[j].id + 1

\* The frames of q, in order, hold packets after `from` and up to `upto`.
Ascending(q, from, upto) ==
    /\ \A i \in 1 .. Len(q) :
           /\ from < Head(q[i].fragments).id /\ Last(q[i].fragments).id <= upto
           /\ Gapless(q[i].fragments)
    /\ \A i, k \in 1 .. Len(q) :
           k < i => Last(q[k].fragments).id < Head(q[i].fragments).id

OrderInv == TypeInv /\ Numbered /\ Ascending(queue, lastSent, Passed)

\* The numbers of a frame's first and last packet.
LEMMA FrameEnds ==
    ASSUME NEW f \in Frame
    PROVE  /\ Head(f.fragments).id \in Nat /\ Last(f.fragments).id \in Nat
           /\ Head(f.fragments) = f.fragments[1]
           /\ Last(f.fragments) = f.fragments[Len(f.fragments)]
<1>1. f.fragments \in Seq(Packet) /\ f.fragments # <<>>
  BY DEF Frame
<1> DEFINE s == f.fragments
<1> HIDE DEF s
<1>2. s \in Seq(Packet) /\ s # <<>>
  BY <1>1 DEF s
<1>3. s[1] \in Packet /\ s[Len(s)] \in Packet /\ Head(s) = s[1] /\ Last(s) = s[Len(s)]
  BY <1>2 DEF Last
<1>4. QED
  BY <1>3 DEF s, Packet

\* A frame with the packets after `upto` keeps the order.
LEMMA AscendingFrame ==
    ASSUME NEW q \in Seq(Frame), NEW from \in Nat, NEW upto \in Nat, from <= upto,
           Ascending(q, from, upto),
           NEW f \in Frame, NEW n \in Nat, Len(f.fragments) = n,
           \A i \in 1 .. n : f.fragments[i].id = upto + i
    PROVE  /\ Ascending(q, from, upto + n)
           /\ Ascending(Append(q, f), from, upto + n)
           /\ Ascending(<<f>>, from, upto + n)
<1> DEFINE first(g) == Head(g.fragments).id
           last(g) == Last(g.fragments).id
<1>1. \A g \in Frame : first(g) \in Nat /\ last(g) \in Nat
  BY FrameEnds
<1>2. n # 0 /\ f.fragments \in Seq(Packet)
  BY DEF Frame
<1>3. first(f) = upto + 1 /\ last(f) = upto + n
  <2>1. 1 \in 1 .. n /\ n \in 1 .. n
    BY <1>2
  <2>2. QED
    BY <2>1, FrameEnds
<1>4. Gapless(f.fragments)
  <2>1. ASSUME NEW j \in 1 .. n - 1
        PROVE  f.fragments[j + 1].id = f.fragments[j].id + 1
    <3>1. j \in 1 .. n /\ j + 1 \in 1 .. n
      OBVIOUS
    <3>2. f.fragments[j + 1].id = upto + (j + 1) /\ f.fragments[j].id = upto + j
      BY <3>1
    <3>3. QED
      BY <3>2
  <2>2. QED
    BY <2>1 DEF Gapless
<1>5. ASSUME NEW i \in 1 .. Len(q)
      PROVE  /\ q[i] \in Frame /\ from < first(q[i]) /\ last(q[i]) <= upto
             /\ Gapless(q[i].fragments)
  BY DEF Ascending
<1>6. \A i, k \in 1 .. Len(q) : k < i => last(q[k]) < first(q[i])
  BY DEF Ascending
<1> HIDE DEF first, last
<1>7. ASSUME NEW i \in 1 .. Len(q)
      PROVE  last(q[i]) <= upto + n
  BY <1>1, <1>5
<1>8. from < first(f) /\ last(f) <= upto + n
  BY <1>3
<1>9. Ascending(q, from, upto + n)
  BY <1>5, <1>6, <1>7 DEF Ascending, first, last
<1> DEFINE r == Append(q, f)
<1>10. /\ Len(r) = Len(q) + 1 /\ Len(q) \in Nat /\ r[Len(q) + 1] = f
       /\ \A i \in 1 .. Len(q) : r[i] = q[i]
  OBVIOUS
<1> HIDE DEF r
<1>11. ASSUME NEW i \in 1 .. Len(r)
       PROVE  from < first(r[i]) /\ last(r[i]) <= upto + n /\ Gapless(r[i].fragments)
  <2>1. CASE i = Len(q) + 1
    BY <1>4, <1>8, <1>10, <2>1
  <2>2. CASE i # Len(q) + 1
    <3>1. i \in 1 .. Len(q)
      BY <1>10, <2>2
    <3>2. QED
      BY <1>5, <1>7, <1>10, <3>1
  <2>3. QED
    BY <2>1, <2>2
<1>12. ASSUME NEW i \in 1 .. Len(r), NEW k \in 1 .. Len(r), k < i
       PROVE  last(r[k]) < first(r[i])
  <2>1. k \in 1 .. Len(q) /\ r[k] = q[k] /\ q[k] \in Frame
    BY <1>5, <1>10, <1>12
  <2>2. CASE i = Len(q) + 1
    <3>1. last(q[k]) <= upto /\ last(q[k]) \in Nat
      BY <1>1, <1>5, <2>1
    <3>2. QED
      BY <1>3, <1>10, <2>1, <2>2, <3>1
  <2>3. CASE i # Len(q) + 1
    <3>1. i \in 1 .. Len(q)
      BY <1>10, <2>3
    <3>2. QED
      BY <1>6, <1>10, <1>12, <2>1, <3>1
  <2>4. QED
    BY <2>2, <2>3
<1>13. Ascending(r, from, upto + n)
  BY <1>11, <1>12 DEF Ascending, first, last
<1>14. Ascending(<<f>>, from, upto + n)
  <2>1. Len(<<f>>) = 1 /\ <<f>>[1] = f /\ \A i \in 1 .. 1 : i = 1
    OBVIOUS
  <2>2. QED
    BY <1>4, <1>8, <2>1 DEF Ascending, first, last
<1>15. QED
  BY <1>9, <1>13, <1>14 DEF r

\* New packets are numbered on.
LEMMA EncodeOrder ==
    ASSUME OrderInv, Encode
    PROVE  (Numbered /\ Ascending(queue, lastSent, Passed))'
<1>1. PICK k : /\ Len(k) \in Nat \ {0} /\ Len(todo') = Len(k)
               /\ packets' = packets + Len(k)
               /\ \A i \in 1 .. Len(k) : todo'[i].id = packets + i
  <2>1. PICK idr \in BOOLEAN, n \in [1 .. Slices -> Packets] :
            LET k == PictureKinds(idr, n)
            IN  /\ Len(k) \in Nat \ {0} /\ Len(todo') = Len(k)
                /\ packets' = packets + Len(k)
                /\ todo' = [i \in 1 .. Len(k) |->
                              [id |-> packets + i, picture |-> pictures + 1,
                               kind |-> k[i], idr |-> idr, codec |-> pipe]]
    BY EncodeEffect DEF OrderInv
  <2>2. QED
    BY <2>1
<1>2. /\ todo = <<>> /\ m_frame_fragments' = m_frame_fragments
      /\ queue' = queue /\ lastSent' = lastSent
  BY DEF Encode, camera, link
<1>3. packets \in Nat /\ Len(m_frame_fragments) \in Nat
  BY DEF OrderInv, TypeInv
<1>4. Passed' = Passed /\ Passed = packets - Len(m_frame_fragments)
  <2>1. Len(todo) = 0
    BY <1>2
  <2>2. QED
    BY <1>1, <1>2, <1>3, <2>1 DEF Passed
<1>5. Numbered'
  BY <1>1, <1>2, <1>3, <1>4 DEF OrderInv, Numbered
<1>6. Ascending(queue, lastSent, Passed)'
  BY <1>2, <1>4 DEF OrderInv, Ascending, Gapless
<1>7. QED
  BY <1>5, <1>6

\* A frame that is sent was the oldest.
LEMMA TakeOrder ==
    ASSUME OrderInv, Take
    PROVE  (Numbered /\ Ascending(queue, lastSent, Passed))'
<1>1. /\ queue # <<>> /\ queue' = Tail(queue)
      /\ lastSent' = Last(Head(queue).fragments).id
      /\ todo' = todo /\ packets' = packets /\ m_frame_fragments' = m_frame_fragments
  BY DEF Take, encoder, camera
<1>2. queue \in Seq(Frame) /\ Ascending(queue, lastSent, Passed) /\ Numbered
  BY DEF OrderInv, TypeInv
<1>3. /\ Len(queue') = Len(queue) - 1 /\ Len(queue) \in Nat \ {0}
      /\ \A i \in 1 .. Len(queue) - 1 : queue'[i] = queue[i + 1]
      /\ Head(queue) = queue[1]
  BY <1>1, <1>2
<1>4. Passed' = Passed
  BY <1>1 DEF Passed
<1>5. 1 \in 1 .. Len(queue)
  BY <1>3
<1>6. lastSent' <= Passed'
  BY <1>1, <1>2, <1>3, <1>4, <1>5 DEF Ascending
<1>7. Numbered'
  BY <1>1, <1>2, <1>4, <1>6 DEF Numbered
<1>8. ASSUME NEW i \in 1 .. Len(queue')
      PROVE  /\ lastSent' < Head(queue'[i].fragments).id
             /\ Last(queue'[i].fragments).id <= Passed'
             /\ Gapless(queue'[i].fragments)
  <2>1. i + 1 \in 1 .. Len(queue) /\ queue'[i] = queue[i + 1] /\ 1 < i + 1
    BY <1>3
  <2>2. QED
    BY <1>1, <1>2, <1>3, <1>4, <1>5, <2>1 DEF Ascending
<1>9. ASSUME NEW i \in 1 .. Len(queue'), NEW k \in 1 .. Len(queue'), k < i
      PROVE  Last(queue'[k].fragments).id < Head(queue'[i].fragments).id
  <2>1. /\ i + 1 \in 1 .. Len(queue) /\ queue'[i] = queue[i + 1]
        /\ k + 1 \in 1 .. Len(queue) /\ queue'[k] = queue[k + 1] /\ k + 1 < i + 1
    BY <1>3, <1>9
  <2>2. QED
    BY <1>2, <2>1 DEF Ascending
<1>10. Ascending(queue, lastSent, Passed)'
  BY <1>8, <1>9 DEF Ascending, Gapless
<1>11. QED
  BY <1>7, <1>10

\* A packet is appended to the fragments, which may leave as a frame.
LEMMA PullOrder ==
    ASSUME OrderInv, Pull
    PROVE  (Numbered /\ Ascending(queue, lastSent, Passed))'
<1> DEFINE p == todo[1]
           f == Append(m_frame_fragments, p)
           n == Len(m_frame_fragments) + 1
<1>1. PICK idr \in BOOLEAN :
          /\ todo # <<>> /\ todo' = Tail(todo) /\ p \in Packet
          /\ f \in Seq(Packet)
          /\ [fragments |-> f, idr |-> idr] \in Frame
          /\ \/ /\ m_frame_fragments' = <<>>
                /\ \/ queue' = queue
                   \/ queue' = Append(queue, [fragments |-> f, idr |-> idr])
                   \/ queue' = <<[fragments |-> f, idr |-> idr]>>
             \/ m_frame_fragments' = f /\ queue' = queue
  BY PullEffect DEF OrderInv
<1> DEFINE frame == [fragments |-> f, idr |-> idr]
<1>2. /\ packets' = packets /\ lastSent' = lastSent
      /\ packets \in Nat /\ lastSent \in Nat /\ queue \in Seq(Frame)
      /\ todo \in Seq(Packet) /\ m_frame_fragments \in Seq(Packet)
      /\ Numbered /\ Ascending(queue, lastSent, Passed)
  BY DEF Pull, OrderInv, TypeInv
<1>3. /\ Len(f) = n /\ n \in Nat \ {0} /\ f[n] = p
      /\ \A i \in 1 .. n - 1 : f[i] = m_frame_fragments[i]
      /\ Len(todo') = Len(todo) - 1 /\ Len(todo) \in Nat \ {0}
      /\ \A i \in 1 .. Len(todo) - 1 : todo'[i] = todo[i + 1]
  BY <1>1, <1>2
<1>4. Passed \in Int /\ Passed = (packets - Len(todo)) - (n - 1) /\ lastSent <= Passed
  BY <1>2, <1>3 DEF Passed, Numbered
<1>5. ASSUME NEW i \in 1 .. n
      PROVE  f[i].id = Passed + i
  <2>1. CASE i = n
    <3>1. p.id = (packets - Len(todo)) + 1
      BY <1>2, <1>3 DEF Numbered
    <3>2. (packets - Len(todo)) + 1 = Passed + n
      BY <1>2, <1>3, <1>4
    <3>3. QED
      BY <1>3, <2>1, <3>1, <3>2
  <2>2. CASE i # n
    <3>1. i \in 1 .. n - 1 /\ i \in 1 .. Len(m_frame_fragments)
      BY <1>3, <2>2
    <3>2. QED
      BY <1>2, <1>3, <3>1 DEF Numbered
  <2>3. QED
    BY <2>1, <2>2
<1>6. ASSUME NEW i \in 1 .. Len(todo')
      PROVE  todo'[i].id = (packets' - Len(todo')) + i
  <2>1. i \in 1 .. Len(todo) - 1 /\ i + 1 \in 1 .. Len(todo)
    BY <1>3
  <2>2. todo'[i].id = (packets - Len(todo)) + (i + 1)
    BY <1>2, <1>3, <2>1 DEF Numbered
  <2>3. QED
    BY <1>2, <1>3, <2>2
<1> HIDE DEF f, p
<1>7. CASE m_frame_fragments' = f /\ queue' = queue
  <2>1. Passed' = Passed
    <3>1. Passed' = (packets - (Len(todo) - 1)) - n
      BY <1>2, <1>3, <1>7 DEF Passed
    <3>2. QED
      BY <1>2, <1>3, <1>4, <3>1
  <2>2. \A i \in 1 .. Len(m_frame_fragments') :
            m_frame_fragments'[i].id = Passed' + i
    BY <1>3, <1>5, <1>7, <2>1
  <2>3. Numbered'
    BY <1>2, <1>4, <1>6, <2>1, <2>2 DEF Numbered
  <2>4. Ascending(queue, lastSent, Passed)'
    BY <1>2, <1>7, <2>1 DEF Ascending, Gapless
  <2>5. QED
    BY <2>3, <2>4
<1>8. CASE /\ m_frame_fragments' = <<>>
           /\ \/ queue' = queue
              \/ queue' = Append(queue, frame)
              \/ queue' = <<frame>>
  <2>1. Passed' = Passed + n
    <3>1. Len(m_frame_fragments') = 0
      BY <1>8
    <3>2. Passed' = packets - (Len(todo) - 1)
      BY <1>2, <1>3, <3>1 DEF Passed
    <3>3. QED
      BY <1>2, <1>3, <1>4, <3>2
  <2>2. Numbered'
    <3>1. lastSent' <= Passed'
      BY <1>2, <1>3, <1>4, <2>1
    <3>2. Len(m_frame_fragments') = 0
      BY <1>8
    <3>3. QED
      BY <1>6, <3>1, <3>2 DEF Numbered
  <2>3. frame \in Frame /\ frame.fragments = f
    BY <1>1 DEF f, p
  <2> HIDE DEF frame
  <2>4. Passed \in Nat
    BY <1>2, <1>4
  <2>5. /\ Ascending(queue, lastSent, Passed + n)
        /\ Ascending(Append(queue, frame), lastSent, Passed + n)
        /\ Ascending(<<frame>>, lastSent, Passed + n)
    BY <1>2, <1>3, <1>4, <1>5, <2>3, <2>4, AscendingFrame
  <2>6. Ascending(queue', lastSent, Passed + n)
    BY <1>8, <2>5
  <2>7. Ascending(queue, lastSent, Passed)'
    BY <1>2, <2>1, <2>6 DEF Ascending, Gapless
  <2>8. QED
    BY <2>2, <2>7
<1>9. QED
  BY <1>1, <1>7, <1>8 DEF f, p

\* The order is kept by every step.
LEMMA OrderStep ==
    ASSUME OrderInv, [Next]_vars
    PROVE  OrderInv'
<1>1. CASE Next
  <2>1. TypeInv'
    BY <1>1, TypeStep DEF OrderInv
  <2>2. CASE Elsewhere
    <3>1. UNCHANGED <<todo, packets, m_frame_fragments, queue, lastSent>>
      BY <2>2, ElsewhereEffect
    <3>2. QED
      BY <2>1, <3>1 DEF OrderInv, Numbered, Passed, Ascending, Gapless
  <2>3. CASE Restart
    <3>1. /\ todo' = <<>> /\ m_frame_fragments' = <<>> /\ packets' = packets
          /\ queue' = queue /\ lastSent' = lastSent
      BY <2>3 DEF Restart, link
    <3>2. /\ packets \in Nat /\ lastSent \in Nat /\ Len(todo) \in Nat
          /\ Len(m_frame_fragments) \in Nat /\ queue \in Seq(Frame)
      BY DEF OrderInv, TypeInv
    <3>3. Len(todo') = 0 /\ Len(m_frame_fragments') = 0
      BY <3>1
    <3>4. Passed' = packets /\ Passed <= packets /\ Passed \in Int
      BY <3>1, <3>2, <3>3 DEF Passed
    <3>5. Numbered'
      BY <3>1, <3>2, <3>3, <3>4 DEF Numbered, OrderInv
    <3>6. ASSUME NEW i \in 1 .. Len(queue)
          PROVE  Last(queue[i].fragments).id <= packets
      <4>1. queue[i] \in Frame
        BY <3>2
      <4>2. Last(queue[i].fragments).id \in Nat
        BY <4>1, FrameEnds
      <4>3. QED
        BY <3>2, <3>4, <4>2 DEF OrderInv, Ascending
    <3>7. Ascending(queue, lastSent, Passed)'
      BY <3>1, <3>4, <3>6 DEF OrderInv, Ascending, Gapless
    <3>8. QED
      BY <2>1, <3>5, <3>7 DEF OrderInv
  <2>4. QED
    BY <1>1, <2>1, <2>2, <2>3, EncodeOrder, TakeOrder, PullOrder
       DEF Next, Elsewhere, OrderInv
<1>2. CASE UNCHANGED vars
  BY <1>2 DEF vars, encoder, camera, settings, link, OrderInv, TypeInv, Numbered,
              Passed, Ascending, Gapless
<1>3. QED
  BY <1>1, <1>2

\* The initial state.
LEMMA InitOrder == Init => OrderInv
<1> SUFFICES ASSUME Init
             PROVE  OrderInv
  OBVIOUS
<1>1. /\ todo = <<>> /\ m_frame_fragments = <<>> /\ queue = <<>>
      /\ packets = 0 /\ lastSent = 0
  BY DEF Init
<1>2. /\ Len(todo) = 0 /\ Len(m_frame_fragments) = 0 /\ Len(queue) = 0
      /\ Passed = (packets - Len(todo)) - Len(m_frame_fragments)
  BY <1>1, Zenon DEF Passed
<1>3. todo \in Seq(Packet) /\ m_frame_fragments \in Seq(Packet) /\ queue \in Seq(Frame)
  BY <1>1
<1>4. TypeInv
  <2>1. /\ intraRefresh \in BOOLEAN /\ codec \in Codecs /\ pipe = codec /\ fresh = TRUE
        /\ pc = "check" /\ m_last_fu_s_idr = FALSE /\ user = "idle" /\ changes = 0
        /\ m_request_restart = FALSE /\ m_air_close_video_in = FALSE
        /\ pictures = 0
    BY DEF Init
  <2>2. /\ 0 <= FragmentLimit /\ 0 <= QueueSize /\ 0 \in 0 .. MaxPictures
        /\ 0 \in 0 .. MaxChanges
    BY VideoAssumption
  <2>3. QED
    BY <1>1, <1>2, <1>3, <2>1, <2>2 DEF TypeInv
<1>5. Numbered /\ Ascending(queue, lastSent, Passed)
  BY <1>1, <1>2 DEF Numbered, Ascending
<1>6. QED
  BY <1>4, <1>5 DEF OrderInv

\* The invariant gives the types of the run.
LEMMA TypesFollow == OrderInv => TypeOK
<1> SUFFICES ASSUME OrderInv
             PROVE  TypeOK
  OBVIOUS
<1>1. TypeInv
  BY DEF OrderInv
<1>2. \A p \in Range(todo) : p \in Packet
  BY <1>1 DEF TypeInv, Range
<1>3. \A p \in Range(m_frame_fragments) : p \in Packet
  BY <1>1 DEF TypeInv, Range
<1>4. QED
  BY <1>1, <1>2, <1>3 DEF TypeInv, TypeOK

\* The packets of a place, and the number before them.
LEMMA NumberedPlace ==
    ASSUME NEW f \in Seq(Packet), NEW b \in Int, \A i \in 1 .. Len(f) : f[i].id = b + i,
           f # <<>>
    PROVE  /\ Gapless(f) /\ Head(f).id = b + 1 /\ Last(f).id = b + Len(f)
           /\ Len(f) \in Nat \ {0}
<1>1. Len(f) \in Nat \ {0} /\ Head(f) = f[1] /\ Last(f) = f[Len(f)]
  BY DEF Last
<1>2. 1 \in 1 .. Len(f) /\ Len(f) \in 1 .. Len(f)
  BY <1>1
<1>3. ASSUME NEW j \in 1 .. Len(f) - 1
      PROVE  f[j + 1].id = f[j].id + 1
  <2>1. j \in 1 .. Len(f) /\ j + 1 \in 1 .. Len(f)
    BY <1>1
  <2>2. f[j].id = b + j /\ f[j + 1].id = b + (j + 1)
    BY <2>1
  <2>3. QED
    BY <2>2
<1>4. QED
  BY <1>1, <1>2, <1>3 DEF Gapless

\* ... and the order of all packets that are under way.
LEMMA OrderFollows == OrderInv => InOrder
<1> SUFFICES ASSUME OrderInv
             PROVE  InOrder
  OBVIOUS
<1> DEFINE n == Len(queue)
           fs == [i \in DOMAIN queue |-> queue[i].fragments]
           mine == m_frame_fragments
<1>1. /\ queue \in Seq(Frame) /\ mine \in Seq(Packet) /\ todo \in Seq(Packet)
      /\ packets \in Nat /\ lastSent \in Nat /\ n \in Nat
      /\ Numbered /\ Ascending(queue, lastSent, Passed)
  BY DEF OrderInv, TypeInv
<1>2. /\ fs \in Seq(Seq(Packet)) /\ Len(fs) = n
      /\ \A i \in 1 .. n : fs[i] = queue[i].fragments
  <2>1. \A i \in 1 .. n : queue[i].fragments \in Seq(Packet)
    <3>1. \A i \in 1 .. n : queue[i] \in Frame
      BY <1>1
    <3>2. QED
      BY <3>1 DEF Frame
  <2>2. DOMAIN queue = 1 .. n
    BY <1>1
  <2>3. fs \in Seq(Seq(Packet))
    BY <1>1, <2>1, <2>2
  <2>4. QED
    BY <1>1, <2>2, <2>3
<1> HIDE DEF fs
<1>3. /\ Places = fs \o <<mine, todo>> /\ DOMAIN Places = 1 .. n + 2
      /\ \A i \in 1 .. n : Places[i] = queue[i].fragments
      /\ Places[n + 1] = mine /\ Places[n + 2] = todo
  <2>1. Places = fs \o <<mine, todo>>
    BY DEF Places, fs
  <2>2. <<mine, todo>> \in Seq(Seq(Packet)) /\ Len(<<mine, todo>>) = 2
    BY <1>1
  <2>3. /\ Len(fs \o <<mine, todo>>) = n + 2
        /\ \A i \in 1 .. n : (fs \o <<mine, todo>>)[i] = fs[i]
        /\ (fs \o <<mine, todo>>)[n + 1] = mine
        /\ (fs \o <<mine, todo>>)[n + 2] = todo
        /\ DOMAIN (fs \o <<mine, todo>>) = 1 .. n + 2
    BY <1>1, <1>2, <2>2
  <2>4. QED
    BY <1>2, <2>1, <2>3
<1>4. /\ Passed \in Int /\ lastSent <= Passed
      /\ packets - Len(todo) \in Int
      /\ packets - Len(todo) = Passed + Len(mine) /\ Len(mine) \in Nat
  BY <1>1 DEF Passed, Numbered
<1>5. ASSUME NEW i \in 1 .. n
      PROVE  /\ Gapless(Places[i]) /\ lastSent < Head(Places[i]).id
             /\ Last(Places[i]).id <= Passed
             /\ Head(Places[i]).id \in Nat /\ Last(Places[i]).id \in Nat
             /\ \A k \in 1 .. i - 1 : Last(Places[k]).id < Head(Places[i]).id
  <2>1. queue[i] \in Frame
    BY <1>1
  <2>2. \A k \in 1 .. i - 1 : k \in 1 .. n /\ k < i
    BY <1>1
  <2>3. QED
    BY <1>1, <1>3, <2>1, <2>2, FrameEnds DEF Ascending
<1>6. ASSUME mine # <<>>
      PROVE  /\ Gapless(mine) /\ Head(mine).id = Passed + 1
             /\ Last(mine).id = Passed + Len(mine)
  BY <1>1, <1>4, <1>6, NumberedPlace DEF Numbered
<1>7. ASSUME todo # <<>>
      PROVE  Gapless(todo) /\ Head(todo).id = (Passed + Len(mine)) + 1
  <2>1. \A i \in 1 .. Len(todo) : todo[i].id = (Passed + Len(mine)) + i
    BY <1>1, <1>4 DEF Numbered
  <2>2. Passed + Len(mine) \in Int
    BY <1>4
  <2>3. QED
    BY <1>1, <1>7, <2>1, <2>2, NumberedPlace
<1>8. ASSUME NEW i \in 1 .. n + 2, Places[i] # <<>>
      PROVE  /\ Gapless(Places[i]) /\ lastSent < Head(Places[i]).id
             /\ \A k \in 1 .. i - 1 :
                    Places[k] # <<>> => Last(Places[k]).id < Head(Places[i]).id
  <2>1. CASE i \in 1 .. n
    BY <1>5, <2>1
  <2>2. CASE i = n + 1
    <3>1. Gapless(mine) /\ Head(mine).id = Passed + 1
      BY <1>3, <1>6, <1>8, <2>2
    <3>2. \A k \in 1 .. n : Last(Places[k]).id < Head(mine).id
      BY <1>4, <1>5, <3>1
    <3>3. \A k \in 1 .. i - 1 : k \in 1 .. n
      BY <1>1, <2>2
    <3>4. lastSent < Head(mine).id
      BY <1>1, <1>4, <3>1
    <3>5. QED
      BY <1>3, <2>2, <3>1, <3>2, <3>3, <3>4
  <2>3. CASE i = n + 2
    <3>1. Gapless(todo) /\ Head(todo).id = (Passed + Len(mine)) + 1
      BY <1>3, <1>7, <1>8, <2>3
    <3>2. \A k \in 1 .. n : Last(Places[k]).id < Head(todo).id
      BY <1>4, <1>5, <3>1
    <3>3. mine # <<>> => Last(mine).id < Head(todo).id
      BY <1>4, <1>6, <3>1
    <3>4. \A k \in 1 .. i - 1 : k \in 1 .. n \/ k = n + 1
      BY <1>1, <2>3
    <3>5. lastSent < Head(todo).id
      BY <1>1, <1>4, <3>1
    <3>6. QED
      BY <1>3, <2>3, <3>1, <3>2, <3>3, <3>4, <3>5
  <2>4. QED
    BY <1>1, <2>1, <2>2, <2>3
<1>9. QED
  BY <1>3, <1>8 DEF InOrder, Gapless

\* Whatever is cut, dropped or restarted, packets are sent in the order of the
\* encoder, once, and in frames without holes (gstreamstreamer.cpp:622-659,
\* wb_link.cpp:1260-1327).
THEOREM PacketsAreInOrder == Spec => [](TypeOK /\ InOrder)
<1>1. OrderInv /\ [Next]_vars => OrderInv'
  BY OrderStep
<1>2. OrderInv => TypeOK /\ InOrder
  BY TypesFollow, OrderFollows
<1>3. QED
  BY <1>1, <1>2, InitOrder, PTL DEF Spec

\* A count is on its way to the statistics only at the end of a call.
DropsInv ==
    /\ DropsKnown
    /\ pc # "count" => n_dropped_frames = 0

LEMMA DropsStep ==
    ASSUME OrderInv, DropsInv, [Next]_vars
    PROVE  DropsInv'
<1>1. TypeInv /\ DropsKnown
  BY DEF OrderInv, DropsInv
<1>2. CASE Pull
  <2>1. n_dropped_frames = 0
    BY <1>2 DEF Pull, DropsInv
  <2>2. DropsKnown'
    BY <1>1, <1>2, <2>1, PullEffect
  <2>3. pc' # "count" => n_dropped_frames' = 0
    BY <1>2 DEF Pull
  <2>4. QED
    BY <2>2, <2>3 DEF DropsInv
<1>3. CASE CountDrops
  BY <1>3 DEF CountDrops, DropsInv, DropsKnown, DropsAreCounted
<1>4. CASE ResetDropped
  BY <1>4 DEF ResetDropped, camera, DropsInv, DropsKnown, DropsAreCounted
<1>5. CASE Take
  <2>1. queue \in Seq(Frame) /\ queue # <<>> /\ queue' = Tail(queue)
    BY <1>1, <1>5 DEF Take, TypeInv
  <2>2. Len(queue') = Len(queue) - 1 /\ Len(queue) \in Nat
    BY <2>1
  <2>3. sent' = sent + 1 /\ UNCHANGED <<pc, drops, handed>>
    BY <1>5 DEF Take, camera
  <2>4. QED
    BY <2>2, <2>3 DEF drops, DropsInv, DropsKnown, DropsAreCounted
<1>6. CASE /\ ~Pull /\ ~CountDrops /\ ~ResetDropped /\ ~Take
           /\ [Next]_vars
  <2>1. UNCHANGED link
    BY <1>6 DEF Next, Encode, SetCodec, RequestRestart, CloseOrOpen, Check,
                PullTimesOut, Restart, vars
  <2>2. pc = "count" => pc' = "count"
    BY <1>6 DEF Next, Encode, SetCodec, RequestRestart, CloseOrOpen, Check,
                PullTimesOut, Restart, vars, camera
  <2>3. UNCHANGED <<queue, n_dropped_frames, m_primary_total_dropped_frames,
                    handed, sent, earlier>>
    BY <2>1 DEF link, drops
  <2>4. DropsKnown'
    BY <1>1, <2>3 DEF DropsKnown, DropsAreCounted
  <2>5. QED
    BY <2>2, <2>3, <2>4 DEF DropsInv
<1>7. QED
  BY <1>2, <1>3, <1>4, <1>5, <1>6

\* Every frame handed over is sent, waits, or is reported as dropped exactly
\* once, across resets of the counter and while a call is yet to add what it
\* dropped (wb_link.cpp:1161, 1281-1326; WBStreamTx.cpp:89-142).
THEOREM DropsCounted == Spec => []DropsAreCounted
<1>1. Init => DropsInv
  BY DEF Init, DropsInv, DropsKnown, DropsAreCounted
<1>2. OrderInv /\ DropsInv /\ [Next]_vars => DropsInv'
  BY DropsStep
<1>3. OrderInv /\ [Next]_vars => OrderInv'
  BY OrderStep
<1>4. DropsInv => DropsAreCounted
  BY DEF DropsInv, DropsKnown
<1>5. QED
  BY <1>1, <1>2, <1>3, <1>4, InitOrder, PTL DEF Spec

-----------------------------------------------------------------------------
(* Frames end where slices end.                                            *)

\* What the camera's thread and the pipeline hold is of the running pipeline.
Own ==
    /\ \A i \in 1 .. Len(todo) : todo[i].codec = pipe
    /\ \A i \in 1 .. Len(m_frame_fragments) : m_frame_fragments[i].codec = pipe

\* A slice that is begun is ended.
Closed(k) ==
    \A i \in 1 .. Len(k) : k[i].kind \in {"start", "middle"} =>
        i < Len(k) /\ k[i + 1].kind \in {"middle", "end"}

HeldInv == OrderInv /\ Own /\ Closed(todo)

\* After the first packet of a sequence.
LEMMA TailFacts ==
    ASSUME NEW k \in Seq(Packet), k # <<>>
    PROVE  /\ Len(Tail(k)) = Len(k) - 1 /\ Len(k) \in Nat \ {0} /\ 1 \in 1 .. Len(k)
           /\ \A i \in 1 .. Len(k) - 1 :
                  Tail(k)[i] = k[i + 1] /\ i + 1 \in 1 .. Len(k)
<1>1. Len(k) \in Nat \ {0}
  OBVIOUS
<1>2. /\ Len(Tail(k)) = Len(k) - 1
      /\ \A i \in 1 .. Len(k) - 1 : Tail(k)[i] = k[i + 1]
  OBVIOUS
<1>3. QED
  BY <1>1, <1>2

\* A packet appended.
LEMMA AppendFacts ==
    ASSUME NEW k \in Seq(Packet), NEW p
    PROVE  /\ Len(Append(k, p)) = Len(k) + 1 /\ Len(k) \in Nat
           /\ Append(k, p)[Len(k) + 1] = p
           /\ \A i \in 1 .. Len(k) : Append(k, p)[i] = k[i]
           /\ \A i \in 1 .. Len(k) + 1 : i \in 1 .. Len(k) \/ i = Len(k) + 1
           /\ Len(k) + 1 \in 1 .. Len(k) + 1
<1>1. Len(k) \in Nat
  OBVIOUS
<1>2. /\ Len(Append(k, p)) = Len(k) + 1
      /\ Append(k, p)[Len(k) + 1] = p
      /\ \A i \in 1 .. Len(k) : Append(k, p)[i] = k[i]
  OBVIOUS
<1>3. QED
  BY <1>1, <1>2

\* The packets of a picture are the pipeline's, and its slices are ended.
LEMMA HeldStep ==
    ASSUME HeldInv, [Next]_vars
    PROVE  HeldInv'
<1>1. OrderInv'
  BY OrderStep DEF HeldInv
<1>2. TypeInv /\ TypeInv' /\ Own /\ Closed(todo)
  BY <1>1 DEF HeldInv, OrderInv
<1>3. CASE Encode
  <2>1. PICK k : /\ k \in WholeSlices /\ Len(k) \in Nat \ {0} /\ Len(todo') = Len(k)
                 /\ \A i \in 1 .. Len(k) : todo'[i].kind = k[i] /\ todo'[i].codec = pipe
    <3>1. PICK idr \in BOOLEAN, n \in [1 .. Slices -> Packets] :
              LET k == PictureKinds(idr, n)
              IN  /\ k \in WholeSlices /\ Len(k) \in Nat \ {0} /\ Len(todo') = Len(k)
                  /\ todo' = [i \in 1 .. Len(k) |->
                                [id |-> packets + i, picture |-> pictures + 1,
                                 kind |-> k[i], idr |-> idr, codec |-> pipe]]
      BY <1>2, <1>3, EncodeEffect
    <3>2. QED
      BY <3>1
  <2>2. pipe' = pipe /\ m_frame_fragments' = m_frame_fragments
    BY <1>3 DEF Encode, camera
  <2>3. Own'
    BY <1>2, <2>1, <2>2 DEF Own
  <2>4. ASSUME NEW i \in 1 .. Len(todo'), todo'[i].kind \in {"start", "middle"}
        PROVE  i < Len(todo') /\ todo'[i + 1].kind \in {"middle", "end"}
    <3>1. k[i] \in {"start", "middle"} /\ i \in 1 .. Len(k)
      BY <2>1, <2>4
    <3>2. i # Len(k)
      BY <2>1, <3>1 DEF WholeSlices, Whole
    <3>3. i \in 1 .. Len(k) - 1 /\ i + 1 \in 1 .. Len(k) /\ i < Len(k)
      BY <2>1, <3>1, <3>2
    <3>4. k[i + 1] \in {"middle", "end"}
      BY <2>1, <3>1, <3>3 DEF WholeSlices, Whole
    <3>5. QED
      BY <2>1, <3>3, <3>4
  <2>5. Closed(todo)'
    BY <2>4 DEF Closed
  <2>6. QED
    BY <1>1, <2>3, <2>5 DEF HeldInv
<1>4. CASE Elsewhere
  BY <1>1, <1>2, <1>4, ElsewhereEffect DEF HeldInv, Own, Closed
<1>5. CASE Take \/ UNCHANGED vars
  BY <1>1, <1>2, <1>5 DEF Take, vars, encoder, camera, HeldInv, Own, Closed
<1>6. CASE Restart
  <2>1. Len(todo') = 0 /\ Len(m_frame_fragments') = 0
    BY <1>6 DEF Restart
  <2>2. QED
    BY <1>1, <2>1 DEF HeldInv, Own, Closed
<1>7. CASE Pull
  <2> DEFINE f == Append(m_frame_fragments, todo[1])
  <2>1. /\ todo # <<>> /\ todo' = Tail(todo)
        /\ m_frame_fragments' \in {<<>>, f}
    BY <1>2, <1>7, PullEffect
  <2>2. pipe' = pipe /\ todo \in Seq(Packet) /\ m_frame_fragments \in Seq(Packet)
    BY <1>2, <1>7 DEF Pull, TypeInv
  <2>3. /\ Len(todo') = Len(todo) - 1 /\ Len(todo) \in Nat \ {0} /\ 1 \in 1 .. Len(todo)
        /\ \A i \in 1 .. Len(todo) - 1 :
               todo'[i] = todo[i + 1] /\ i + 1 \in 1 .. Len(todo)
    BY <2>1, <2>2, TailFacts
  <2>4. \A i \in 1 .. Len(f) : f[i].codec = pipe
    <3>1. todo[1].codec = pipe
      BY <1>2, <2>3 DEF Own
    <3>2. QED
      BY <1>2, <2>2, <3>1, AppendFacts DEF Own
  <2> HIDE DEF f
  <2>5. Own'
    <3>1. \A i \in 1 .. Len(todo') : todo'[i].codec = pipe'
      BY <1>2, <2>2, <2>3 DEF Own
    <3>2. \A i \in 1 .. Len(m_frame_fragments') : m_frame_fragments'[i].codec = pipe'
      BY <2>1, <2>2, <2>4
    <3>3. QED
      BY <3>1, <3>2 DEF Own
  <2>6. ASSUME NEW i \in 1 .. Len(todo'), todo'[i].kind \in {"start", "middle"}
        PROVE  i < Len(todo') /\ todo'[i + 1].kind \in {"middle", "end"}
    <3>1. /\ i \in 1 .. Len(todo) - 1 /\ todo'[i] = todo[i + 1]
          /\ i + 1 \in 1 .. Len(todo)
      BY <2>3
    <3>2. i + 1 < Len(todo) /\ todo[(i + 1) + 1].kind \in {"middle", "end"}
      BY <1>2, <2>6, <3>1 DEF Closed
    <3>3. i + 1 \in 1 .. Len(todo) - 1
      BY <2>3, <3>1, <3>2
    <3>4. todo'[i + 1] = todo[(i + 1) + 1]
      BY <2>3, <3>3
    <3>5. QED
      BY <2>3, <3>1, <3>2, <3>4
  <2>7. Closed(todo)'
    BY <2>6 DEF Closed
  <2>8. QED
    BY <1>1, <2>5, <2>7 DEF HeldInv
<1>8. QED
  BY <1>3, <1>4, <1>5, <1>6, <1>7 DEF Next, Elsewhere

\* The initial state.
LEMMA InitHeld == Init => HeldInv
<1>1. Init => Len(todo) = 0 /\ Len(m_frame_fragments) = 0
  BY DEF Init
<1>2. QED
  BY <1>1, InitOrder DEF HeldInv, Own, Closed

\* A codec that is not the pipeline's will make it restart.
Changed == codec # pipe => user = "stored" \/ m_request_restart

\* The pipeline's last packet ends a slice.
Ends == todo # <<>> => todo[Len(todo)].kind = "end"

WaitInv == HeldInv /\ Changed /\ Ends /\ NothingWaits

\* When slices take at least two packets, no slice is left waiting.
LEMMA WaitStep ==
    ASSUME 1 \notin Packets, WaitInv, [Next]_vars
    PROVE  WaitInv'
<1>1. HeldInv'
  BY HeldStep DEF WaitInv
<1>2. TypeInv /\ Own /\ Changed /\ Ends /\ NothingWaits
  BY DEF WaitInv, HeldInv, OrderInv
<1>3. CASE Encode
  <2>1. PICK k : /\ k \in Ended /\ Len(k) \in Nat \ {0} /\ Len(todo') = Len(k)
                 /\ \A i \in 1 .. Len(k) : todo'[i].kind = k[i]
    <3>1. PICK idr \in BOOLEAN, n \in [1 .. Slices -> Packets] :
              LET k == PictureKinds(idr, n)
              IN  /\ k \in Ended /\ Len(k) \in Nat \ {0} /\ Len(todo') = Len(k)
                  /\ todo' = [i \in 1 .. Len(k) |->
                                [id |-> packets + i, picture |-> pictures + 1,
                                 kind |-> k[i], idr |-> idr, codec |-> pipe]]
      BY <1>2, <1>3, EncodeEffect
    <3>2. QED
      BY <3>1
  <2>2. Len(k) \in 1 .. Len(k) /\ k[Len(k)] = "end" /\ Len(todo') # 0
    BY <2>1 DEF Ended
  <2>3. Ends'
    BY <2>1, <2>2 DEF Ends
  <2>4. todo' # <<>>
    BY <2>2
  <2>5. Changed' /\ NothingWaits'
    BY <1>2, <1>3, <2>4 DEF Encode, settings, Changed, NothingWaits
  <2>6. QED
    BY <1>1, <2>3, <2>5 DEF WaitInv
<1>4. CASE Elsewhere
  <2>1. Ends'
    BY <1>2, <1>4, ElsewhereEffect DEF Ends
  <2>2. Changed' /\ NothingWaits'
    <3>1. UNCHANGED <<pipe, todo, m_frame_fragments>>
      BY <1>4, ElsewhereEffect
    <3>2. QED
      BY <1>2, <1>4, <3>1
         DEF TypeInv, Elsewhere, SetCodec, RequestRestart, CloseOrOpen, Check,
             PullTimesOut, CountDrops, ResetDropped,
             settings, Changed, NothingWaits
  <2>3. QED
    BY <1>1, <2>1, <2>2 DEF WaitInv
<1>5. CASE Take \/ UNCHANGED vars
  BY <1>1, <1>2, <1>5 DEF Take, vars, encoder, camera, settings, WaitInv, Changed,
                          Ends, NothingWaits
<1>6. CASE Restart
  BY <1>1, <1>6 DEF Restart, settings, WaitInv, Changed, Ends, NothingWaits
<1>7. CASE Pull
  <2> DEFINE p == todo[1]
             info == MoreInfo(p, codec)
             f == Append(m_frame_fragments, p)
  <2>1. /\ todo # <<>> /\ todo' = Tail(todo)
        /\ m_frame_fragments' = <<>> \/ ~IsLastFragment(f, info)
    BY <1>2, <1>7, PullEffect
  <2>2. /\ UNCHANGED <<pipe, settings, m_request_restart>> /\ todo \in Seq(Packet)
    BY <1>2, <1>7 DEF Pull, TypeInv
  <2>3. /\ Len(todo') = Len(todo) - 1 /\ Len(todo) \in Nat \ {0} /\ 1 \in 1 .. Len(todo)
        /\ \A i \in 1 .. Len(todo) - 1 :
               todo'[i] = todo[i + 1] /\ i + 1 \in 1 .. Len(todo)
    BY <2>1, <2>2, TailFacts
  <2>4. Ends'
    <3>1. ASSUME todo' # <<>>
          PROVE  todo'[Len(todo')].kind = "end"
      <4>1. todo' \in Seq(Packet)
        BY <2>1, <2>2
      <4>2. Len(todo') # 0
        BY <3>1, <4>1
      <4>3. Len(todo') \in 1 .. Len(todo) - 1 /\ Len(todo') + 1 = Len(todo)
        BY <2>3, <4>2
      <4>4. todo'[Len(todo')] = todo[Len(todo)]
        BY <2>3, <4>3
      <4>5. QED
        BY <1>2, <2>1, <4>4 DEF Ends
    <3>2. QED
      BY <3>1 DEF Ends
  <2>5. Changed'
    BY <1>2, <2>2 DEF Changed, settings
  <2>6. ASSUME todo' = <<>>, codec' = pipe', ~m_request_restart'
        PROVE  m_frame_fragments' = <<>>
    <3>1. Len(todo) = 1
      BY <2>3, <2>6
    <3>2. p.kind = "end" /\ p.codec = codec
      BY <1>2, <2>1, <2>2, <2>3, <2>6, <3>1 DEF Ends, Own, settings
    <3>3. info.is_fu_end
      BY <3>2 DEF MoreInfo
    <3> HIDE DEF f, info
    <3>4. IsLastFragment(f, info)
      BY <3>3 DEF IsLastFragment
    <3>5. QED
      BY <2>1, <3>4 DEF f, info
  <2>7. NothingWaits'
    BY <2>6 DEF NothingWaits
  <2>8. QED
    BY <1>1, <2>4, <2>5, <2>7 DEF WaitInv
<1>8. QED
  BY <1>3, <1>4, <1>5, <1>6, <1>7 DEF Next, Elsewhere

\* When every slice takes at least two packets, a slice that was pulled
\* completely never waits for a packet of the next picture, unless the pipeline
\* is about to be restarted: also after restarts, cuts at the limit and any
\* number of changes of the codec (gstreamstreamer.cpp:622-659).
THEOREM NoSliceWaits ==
    ASSUME 1 \notin Packets
    PROVE  Spec => []NothingWaits
<1>1. Init => WaitInv
  BY InitHeld DEF Init, WaitInv, Changed, Ends, NothingWaits
<1>2. WaitInv /\ [Next]_vars => WaitInv'
  BY WaitStep
<1>3. WaitInv => NothingWaits
  BY DEF WaitInv
<1>4. QED
  BY <1>1, <1>2, <1>3, PTL DEF Spec

-----------------------------------------------------------------------------
(* Frames with an IDR slice have the mark.                                 *)

\* The fragments s hold the start of a slice, and that of an IDR slice.
Started(s) == \E i \in 1 .. Len(s) : s[i].kind = "start"
IdrStarted(s) == \E i \in 1 .. Len(s) : s[i].kind = "start" /\ s[i].idr

\* While the codec is the pipeline's, the mark follows the slice that is put
\* together, and that slice goes on with the next packet.
MarkFollows ==
    codec = pipe =>
        /\ pipe = "h264" /\ IdrStarted(m_frame_fragments) => m_last_fu_s_idr
        /\ Started(m_frame_fragments) =>
               todo # <<>> /\ todo[1].kind \in {"middle", "end"}

FirstCodec == changes = 0 => codec = pipe

MarkInv == HeldInv /\ FirstCodec /\ MarkFollows /\ IdrMarkedH264

\* A frame whose last packet was just read is marked if it must be.
LEMMA FrameMarked ==
    ASSUME HeldInv, MarkFollows, todo # <<>>,
           NEW f, f = Append(m_frame_fragments, todo[1]),
           NEW idr, idr = LastFuStartIdr(MoreInfo(todo[1], codec)),
           IsLastFragment(f, MoreInfo(todo[1], codec)), f[1].codec = "h264"
    PROVE  MarkedIdr([fragments |-> f, idr |-> idr])
<1> DEFINE p == todo[1]
           info == MoreInfo(p, codec)
<1>1. /\ todo \in Seq(Packet) /\ m_frame_fragments \in Seq(Packet)
      /\ FragmentLimit \in Nat /\ Own /\ Closed(todo)
  BY VideoAssumption DEF HeldInv, OrderInv, TypeInv
<1>2. /\ Len(f) = Len(m_frame_fragments) + 1 /\ Len(m_frame_fragments) \in Nat
      /\ f[Len(m_frame_fragments) + 1] = p
      /\ \A i \in 1 .. Len(m_frame_fragments) : f[i] = m_frame_fragments[i]
      /\ \A i \in 1 .. Len(f) : i \in 1 .. Len(m_frame_fragments)
                                \/ i = Len(m_frame_fragments) + 1
      /\ DOMAIN f = 1 .. Len(f)
  <2>1. f \in Seq(Packet)
    BY <1>1
  <2>2. DOMAIN f = 1 .. Len(f)
    BY <2>1
  <2>3. QED
    BY <1>1, <2>2, AppendFacts
<1>3. 1 \in 1 .. Len(todo)
  BY <1>1, TailFacts
<1>4. p.codec = pipe
  BY <1>1, <1>3 DEF Own
<1>5. pipe = "h264"
  <2>1. 1 \in 1 .. Len(f)
    BY <1>2
  <2>2. f[1] = p \/ (1 \in 1 .. Len(m_frame_fragments) /\ f[1] = m_frame_fragments[1])
    BY <1>2, <2>1
  <2>3. QED
    BY <1>1, <1>4, <2>2 DEF Own
<1>6. SUFFICES ASSUME Len(f) <= FragmentLimit,
                      \E q \in Range(f) : q.kind = "start" /\ q.idr
               PROVE  idr
  BY DEF MarkedIdr
<1>7. p.kind = "end" /\ codec = pipe
  <2>1. ~(Len(f) > FragmentLimit)
    BY <1>1, <1>2, <1>6
  <2>2. info.is_fu_end
    BY <2>1 DEF IsLastFragment
  <2>3. QED
    BY <1>4, <2>2 DEF MoreInfo
<1>8. PICK i \in 1 .. Len(f) : f[i].kind = "start" /\ f[i].idr
  BY <1>2, <1>6 DEF Range
<1>9. i \in 1 .. Len(m_frame_fragments) /\ f[i] = m_frame_fragments[i]
  <2>1. i # Len(m_frame_fragments) + 1
    BY <1>2, <1>7, <1>8
  <2>2. QED
    BY <1>2, <2>1
<1>10. m_last_fu_s_idr
  BY <1>5, <1>7, <1>8, <1>9 DEF MarkFollows, IdrStarted
<1>11. ~info.is_fu_start
  BY <1>7 DEF MoreInfo
<1>12. QED
  BY <1>10, <1>11 DEF LastFuStartIdr

\* The frames that stay when the transmitter takes one.
LEMMA QueueTake ==
    ASSUME TypeInv, Take
    PROVE  Range(queue') \subseteq Range(queue)
<1>1. queue # <<>> /\ queue' = Tail(queue) /\ queue \in Seq(Frame)
  BY DEF Take, TypeInv
<1>2. \A i \in 1 .. Len(queue) - 1 :
          Tail(queue)[i] = queue[i + 1] /\ i + 1 \in 1 .. Len(queue)
  BY <1>1
<1>3. DOMAIN queue' = 1 .. Len(queue) - 1 /\ DOMAIN queue = 1 .. Len(queue)
  BY <1>1
<1>4. QED
  BY <1>1, <1>2, <1>3 DEF Range

\* What an enqueue adds is the frame.
LEMMA QueueGains ==
    ASSUME queue \in Seq(Frame), NEW frame,
           queue' = queue \/ queue' = Append(queue, frame) \/ queue' = <<frame>>
    PROVE  \A g \in Range(queue') : g \in Range(queue) \/ g = frame
<1>1. CASE queue' = queue
  BY <1>1
<1>2. CASE queue' = Append(queue, frame)
  <2>1. /\ DOMAIN queue' = 1 .. Len(queue) + 1 /\ DOMAIN queue = 1 .. Len(queue)
        /\ Len(queue) \in Nat /\ queue'[Len(queue) + 1] = frame
        /\ \A i \in 1 .. Len(queue) : queue'[i] = queue[i]
    BY <1>2
  <2>2. \A i \in 1 .. Len(queue) + 1 : i \in 1 .. Len(queue) \/ i = Len(queue) + 1
    BY <2>1
  <2>3. QED
    BY <2>1, <2>2 DEF Range
<1>3. CASE queue' = <<frame>>
  <2>1. DOMAIN queue' = {1} /\ queue'[1] = frame
    BY <1>3
  <2>2. QED
    BY <2>1 DEF Range
<1>4. QED
  BY <1>1, <1>2, <1>3

\* With at most one change of the codec, every step keeps the marks right.
LEMMA MarkStep ==
    ASSUME MaxChanges <= 1, MarkInv, [Next]_vars
    PROVE  MarkInv'
<1>1. HeldInv'
  BY HeldStep DEF MarkInv
<1>2. /\ HeldInv /\ TypeInv /\ Own /\ Closed(todo)
      /\ FirstCodec /\ MarkFollows /\ IdrMarkedH264
  BY DEF MarkInv, HeldInv, OrderInv
<1>3. CASE Encode
  <2>1. /\ todo = <<>> /\ UNCHANGED <<pipe, camera, settings, link>>
    BY <1>3 DEF Encode
  <2>2. MarkFollows'
    BY <1>2, <2>1 DEF camera, settings, MarkFollows, Started, IdrStarted
  <2>3. FirstCodec' /\ IdrMarkedH264'
    BY <1>2, <2>1 DEF settings, link, FirstCodec, IdrMarkedH264, MarkedIdr
  <2>4. QED
    BY <1>1, <2>2, <2>3 DEF MarkInv
<1>4. CASE SetCodec
  <2>1. /\ changes < MaxChanges /\ changes' = changes + 1 /\ codec' # codec
        /\ changes \in Nat /\ MaxChanges \in Nat
    BY <1>2, <1>4, VideoAssumption DEF SetCodec, TypeInv
  <2>2. changes = 0 /\ changes' # 0
    BY <2>1
  <2>3. UNCHANGED <<pipe, todo, m_frame_fragments, queue>>
    BY <1>4, ElsewhereEffect DEF Elsewhere
  <2>4. codec' # pipe'
    BY <1>2, <2>1, <2>2, <2>3 DEF FirstCodec
  <2>5. QED
    BY <1>1, <1>2, <2>2, <2>3, <2>4
       DEF MarkInv, FirstCodec, MarkFollows, IdrMarkedH264, MarkedIdr
<1>5. CASE Elsewhere /\ ~SetCodec
  <2>1. UNCHANGED <<codec, changes>>
    BY <1>5 DEF Elsewhere, RequestRestart, CloseOrOpen, Check, PullTimesOut,
                CountDrops, ResetDropped, settings
  <2>2. UNCHANGED <<pipe, todo, m_frame_fragments, m_last_fu_s_idr, queue>>
    BY <1>5, ElsewhereEffect
  <2>3. QED
    BY <1>1, <1>2, <2>1, <2>2
       DEF MarkInv, FirstCodec, MarkFollows, Started, IdrStarted, IdrMarkedH264,
           MarkedIdr
<1>6. CASE Take
  <2>1. /\ queue # <<>> /\ queue' = Tail(queue) /\ queue \in Seq(Frame)
        /\ UNCHANGED <<encoder, camera, settings>>
    BY <1>2, <1>6 DEF Take, TypeInv
  <2>2. Range(queue') \subseteq Range(queue)
    BY <1>2, <1>6, QueueTake
  <2>3. IdrMarkedH264'
    BY <1>2, <2>2 DEF IdrMarkedH264, MarkedIdr
  <2>4. QED
    BY <1>1, <1>2, <2>1, <2>3
       DEF MarkInv, FirstCodec, MarkFollows, Started, IdrStarted, encoder, camera,
           settings
<1>7. CASE UNCHANGED vars
  <2>1. UNCHANGED <<codec, changes, pipe, todo, m_frame_fragments, m_last_fu_s_idr,
                    queue>>
    BY <1>7 DEF vars, encoder, camera, settings, link
  <2>2. QED
    BY <1>1, <1>2, <2>1
       DEF MarkInv, FirstCodec, MarkFollows, Started, IdrStarted, IdrMarkedH264,
           MarkedIdr
<1>8. CASE Restart
  <2>1. /\ pipe' = codec /\ codec' = codec /\ m_frame_fragments' = <<>>
        /\ queue' = queue
    BY <1>8 DEF Restart, settings, link
  <2>2. Len(m_frame_fragments') = 0
    BY <2>1
  <2>3. QED
    BY <1>1, <1>2, <2>1, <2>2
       DEF MarkInv, FirstCodec, MarkFollows, Started, IdrStarted, IdrMarkedH264,
           MarkedIdr
<1>9. CASE Pull
  <2> DEFINE p == todo[1]
             f == Append(m_frame_fragments, p)
             info == MoreInfo(p, codec)
             idr == LastFuStartIdr(info)
             frame == [fragments |-> f, idr |-> idr]
  <2>1. /\ todo # <<>> /\ todo' = Tail(todo) /\ frame \in Frame /\ f \in Seq(Packet)
        /\ \/ /\ IsLastFragment(f, info)
              /\ m_frame_fragments' = <<>>
              /\ \/ queue' = queue
                 \/ queue' = Append(queue, frame)
                 \/ queue' = <<frame>>
           \/ /\ ~IsLastFragment(f, info)
              /\ m_frame_fragments' = f /\ m_last_fu_s_idr' = idr
              /\ queue' = queue
    BY <1>2, <1>9, PullEffect
  <2>2. /\ UNCHANGED <<pipe, codec, changes>> /\ todo \in Seq(Packet)
        /\ m_frame_fragments \in Seq(Packet) /\ queue \in Seq(Frame)
    BY <1>2, <1>9 DEF Pull, settings, TypeInv
  <2>3. /\ Len(todo') = Len(todo) - 1 /\ Len(todo) \in Nat \ {0} /\ 1 \in 1 .. Len(todo)
        /\ \A i \in 1 .. Len(todo) - 1 : todo'[i] = todo[i + 1]
    BY <2>1, <2>2, TailFacts
  <2>4. /\ Len(f) = Len(m_frame_fragments) + 1 /\ Len(m_frame_fragments) \in Nat
        /\ f[Len(m_frame_fragments) + 1] = p
        /\ \A i \in 1 .. Len(m_frame_fragments) : f[i] = m_frame_fragments[i]
        /\ \A i \in 1 .. Len(m_frame_fragments) + 1 :
               i \in 1 .. Len(m_frame_fragments) \/ i = Len(m_frame_fragments) + 1
    BY <2>2, AppendFacts
  <2>5. FirstCodec'
    BY <1>2, <2>2 DEF FirstCodec
  <2>6. p.codec = pipe
    BY <1>2, <2>3 DEF Own
  <2>7. CASE IsLastFragment(f, info)
    <3>1. /\ m_frame_fragments' = <<>>
          /\ queue' = queue \/ queue' = Append(queue, frame) \/ queue' = <<frame>>
      BY <2>1, <2>7
    <3>2. MarkFollows'
      <4>1. Len(m_frame_fragments') = 0
        BY <3>1
      <4>2. QED
        BY <4>1 DEF MarkFollows, Started, IdrStarted
    <3>3. Head(f).codec = "h264" => MarkedIdr(frame)
      <4>1. Head(f) = f[1]
        BY <2>1, <2>4
      <4>2. QED
        BY <1>2, <2>1, <2>7, <4>1, FrameMarked
    <3>4. frame.fragments = f
      OBVIOUS
    <3> HIDE DEF frame
    <3>5. \A g \in Range(queue') : g \in Range(queue) \/ g = frame
      BY <2>2, <3>1, QueueGains
    <3>6. IdrMarkedH264'
      BY <1>2, <3>3, <3>4, <3>5 DEF IdrMarkedH264, MarkedIdr
    <3>7. QED
      BY <1>1, <2>5, <3>2, <3>6 DEF MarkInv
  <2>8. CASE ~IsLastFragment(f, info)
    <3>1. m_frame_fragments' = f /\ m_last_fu_s_idr' = idr /\ queue' = queue
      BY <2>1, <2>8
    <3>2. IdrMarkedH264'
      BY <1>2, <3>1 DEF IdrMarkedH264, MarkedIdr
    <3>3. ASSUME codec = pipe, Started(f)
          PROVE  todo' # <<>> /\ todo'[1].kind \in {"middle", "end"}
      <4>1. p.kind \in {"start", "middle", "end"}
        <5>1. CASE Started(m_frame_fragments)
          BY <1>2, <3>3, <5>1 DEF MarkFollows
        <5>2. CASE ~Started(m_frame_fragments)
          <6>1. PICK i \in 1 .. Len(f) : f[i].kind = "start"
            BY <3>3 DEF Started
          <6>2. i = Len(m_frame_fragments) + 1
            BY <2>4, <5>2, <6>1 DEF Started
          <6>3. QED
            BY <2>4, <6>1, <6>2
        <5>3. QED
          BY <5>1, <5>2
      <4>2. p.kind # "end"
        <5>1. ~info.is_fu_end
          BY <2>8 DEF IsLastFragment
        <5>2. QED
          BY <2>6, <3>3, <5>1 DEF MoreInfo
      <4>3. 1 < Len(todo) /\ todo[1 + 1].kind \in {"middle", "end"}
        BY <1>2, <2>3, <4>1, <4>2 DEF Closed
      <4>4. 1 \in 1 .. Len(todo) - 1 /\ Len(todo') # 0
        BY <2>3, <4>3
      <4>5. todo'[1] = todo[1 + 1]
        BY <2>3, <4>4
      <4>6. QED
        BY <4>3, <4>4, <4>5
    <3>4. ASSUME codec = pipe, pipe = "h264", IdrStarted(f)
          PROVE  idr
      <4>1. PICK i \in 1 .. Len(f) : f[i].kind = "start" /\ f[i].idr
        BY <3>4 DEF IdrStarted
      <4>2. CASE p.kind = "start"
        <5>1. ~Started(m_frame_fragments)
          BY <1>2, <3>4, <4>2 DEF MarkFollows
        <5>2. i = Len(m_frame_fragments) + 1
          BY <2>4, <4>1, <5>1 DEF Started
        <5>3. info.is_fu_start /\ info.is_idr
          BY <2>4, <2>6, <3>4, <4>1, <4>2, <5>2 DEF MoreInfo
        <5>4. QED
          BY <5>3 DEF LastFuStartIdr
      <4>3. CASE p.kind # "start"
        <5>1. i \in 1 .. Len(m_frame_fragments) /\ f[i] = m_frame_fragments[i]
          BY <2>4, <4>1, <4>3
        <5>2. m_last_fu_s_idr
          BY <1>2, <3>4, <4>1, <5>1 DEF MarkFollows, IdrStarted
        <5>3. ~info.is_fu_start
          BY <4>3 DEF MoreInfo
        <5>4. QED
          BY <5>2, <5>3 DEF LastFuStartIdr
      <4>4. QED
        BY <4>2, <4>3
    <3> HIDE DEF f, idr, info
    <3>5. MarkFollows'
      BY <2>2, <3>1, <3>3, <3>4 DEF MarkFollows, Started, IdrStarted
    <3>6. QED
      BY <1>1, <2>5, <3>2, <3>5 DEF MarkInv
  <2>9. QED
    BY <2>7, <2>8
<1>10. QED
  BY <1>3, <1>4, <1>5, <1>6, <1>7, <1>8, <1>9 DEF Next, Elsewhere

\* Packets in order, and, unless the codec is changed twice, the mark of a key
\* frame on every frame of an h264 pipeline that has an IDR slice, also when the
\* pipeline is restarted while the frame is put together
\* (gstreamstreamer.cpp:622-682).
THEOREM FramesAreRight ==
    ASSUME MaxChanges <= 1
    PROVE  Spec => []FramesInv
<1>1. Init => MarkInv
  <2> SUFFICES ASSUME Init
               PROVE  MarkInv
    OBVIOUS
  <2>1. /\ codec = pipe /\ Len(m_frame_fragments) = 0 /\ queue = <<>>
        /\ Range(queue) = {}
    BY DEF Init, Range
  <2>2. QED
    BY <2>1, InitHeld
       DEF MarkInv, FirstCodec, MarkFollows, Started, IdrStarted, IdrMarkedH264
<1>2. MarkInv /\ [Next]_vars => MarkInv'
  BY MarkStep
<1>3. MarkInv => FramesInv
  BY TypesFollow, OrderFollows DEF MarkInv, HeldInv, FramesInv
<1>4. QED
  BY <1>1, <1>2, <1>3, PTL DEF Spec

-----------------------------------------------------------------------------
(* No frame pushes out a part of its own picture.                          *)

\* The packets of one picture of one slice: the configuration comes first, the
\* start of the slice first or after it.
OneSlice(k) ==
    /\ \A i \in 1 .. Len(k) : k[i] = "single" => i = 1 /\ 1 < Len(k) /\ k[2] = "start"
    /\ \A i \in 1 .. Len(k) : k[i] = "start" => i = 1 \/ (i = 2 /\ k[1] = "single")

\* A picture of one slice that takes several packets.
LEMMA PictureOfOneSlice ==
    ASSUME Slices = 1, 1 \notin Packets, NEW idr, NEW n \in [1 .. Slices -> Packets]
    PROVE  OneSlice(PictureKinds(idr, n))
<1> DEFINE ss == [s \in 1 .. Slices |-> SliceKinds(n[s])]
           m == n[1]
           k == SliceKinds(m)
<1>1. m \in Nat \ {0, 1}
  <2>1. 1 \in 1 .. Slices
    OBVIOUS
  <2>2. m \in Packets
    BY <2>1
  <2>3. \A x \in Packets : x \in Nat \ {0} /\ x # 1
    BY VideoAssumption
  <2>4. QED
    BY <2>2, <2>3
<1>2. /\ k = [i \in 1 .. m |-> IF i = 1 THEN "start"
                               ELSE IF i = m THEN "end" ELSE "middle"]
      /\ k \in Seq(Kinds)
  BY <1>1, SliceIsWhole DEF SliceKinds, WholeSlices
<1>3. ss = <<k>>
  OBVIOUS
<1>4. FlattenSeq(ss) = k
  <2>1. ss \in Seq(Seq(Kinds)) /\ ss # <<>> /\ Len(ss) = 1 /\ ss[1] = k
    <3> HIDE DEF ss, k
    <3>1. k \in Seq(Kinds)
      BY <1>2
    <3>2. Len(ss) = 1 /\ ss[1] = k /\ ss \in Seq(Seq(Kinds))
      BY <1>3, <3>1
    <3>3. QED
      BY <3>2
  <2>2. \A u, v \in Seq(Kinds) : u \o v \in Seq(Kinds)
    OBVIOUS
  <2> HIDE DEF ss, k
  <2>3. PICK g : Flattens(g, ss, 1) /\ FlattenSeq(ss) = g[1]
    BY <2>1, <2>2, FlattenValue
  <2>4. g[1] = ss[1]
    BY <2>3 DEF Flattens
  <2>5. QED
    BY <2>1, <2>3, <2>4
<1>5. /\ Len(k) = m /\ k[1] = "start" /\ k[m] = "end"
      /\ \A i \in 1 .. m : i # 1 => k[i] \in {"middle", "end"}
  BY <1>1, <1>2
<1>6. PictureKinds(idr, n) = (IF idr THEN <<"single">> ELSE <<>>) \o k
  BY <1>4 DEF PictureKinds
<1> HIDE DEF k, m, ss
<1>7. CASE idr
  <2> DEFINE w == <<"single">> \o k
  <2>1. /\ Len(w) = m + 1 /\ w[1] = "single"
        /\ \A i \in 1 .. m + 1 : i # 1 => w[i] = k[i - 1] /\ i - 1 \in 1 .. m
    BY <1>1, <1>2, <1>5
  <2> HIDE DEF w
  <2>2. w[2] = "start" /\ 1 < Len(w)
    BY <1>1, <1>5, <2>1
  <2>3. ASSUME NEW i \in 1 .. m + 1, i # 1, i # 2
        PROVE  w[i] \in {"middle", "end"}
    <3>1. i - 1 \in 1 .. m /\ i - 1 # 1 /\ w[i] = k[i - 1]
      BY <1>1, <2>1, <2>3
    <3>2. QED
      BY <1>5, <3>1
  <2>4. OneSlice(w)
    BY <2>1, <2>2, <2>3 DEF OneSlice
  <2>5. QED
    BY <1>6, <1>7, <2>4 DEF w
<1>8. CASE ~idr
  <2>1. PictureKinds(idr, n) = k
    BY <1>2, <1>6, <1>8
  <2>2. ASSUME NEW i \in 1 .. m
        PROVE  k[i] # "single" /\ (k[i] = "start" => i = 1)
    BY <1>5
  <2>3. OneSlice(k)
    BY <1>5, <2>2 DEF OneSlice
  <2>4. QED
    BY <2>1, <2>3
<1>9. QED
  BY <1>7, <1>8

\* What is queued is of earlier pictures than the packets s.
Older(s) ==
    \A f \in Range(queue) : \A x \in 1 .. Len(f.fragments), y \in 1 .. Len(s) :
        f.fragments[x].picture < s[y].picture

\* The pipeline holds the last of the newest picture, of one slice.
Newest ==
    /\ \A i \in 1 .. Len(todo) : todo[i].picture = pictures
    /\ \A i \in 1 .. Len(m_frame_fragments) : m_frame_fragments[i].picture <= pictures
    /\ \A f \in Range(queue) : \A x \in 1 .. Len(f.fragments) :
           f.fragments[x].picture <= pictures

HeldSlice ==
    /\ \A i \in 1 .. Len(todo) : todo[i].kind = "single" =>
           i = 1 /\ 1 < Len(todo) /\ todo[2].kind = "start"
    /\ \A i \in 1 .. Len(todo) : todo[i].kind = "start" =>
           i = 1 \/ (i = 2 /\ todo[1].kind = "single")

\* One change of the codec is one restart.
Once ==
    /\ changes = 0 => user = "idle" /\ ~m_request_restart
    /\ ~(user = "stored" /\ m_request_restart)
    /\ user = "stored" \/ m_request_restart => codec # pipe

\* Before a picture's slice is begun, nothing of that picture has left.
Begins ==
    codec = pipe /\ todo # <<>> =>
        /\ todo[1].kind = "single" => m_frame_fragments = <<>> /\ Older(todo)
        /\ todo[1].kind = "start" => Older(m_frame_fragments) /\ Older(todo)

\* Nothing of a picture with the mark has left.
Marks == m_last_fu_s_idr => Older(m_frame_fragments) /\ Older(todo)

PictureInv == MarkInv /\ WaitInv /\ Newest /\ HeldSlice /\ Once /\ Begins /\ Marks

\* The same holds of the packet just read and those after it.
LEMMA OlderParts ==
    ASSUME NEW s \in Seq(Packet), NEW k \in Seq(Packet), k # <<>>,
           Older(s), Older(k)
    PROVE  Older(Append(s, k[1])) /\ Older(Tail(k))
<1>1. /\ Len(Tail(k)) = Len(k) - 1 /\ 1 \in 1 .. Len(k)
      /\ \A i \in 1 .. Len(k) - 1 : Tail(k)[i] = k[i + 1] /\ i + 1 \in 1 .. Len(k)
  BY TailFacts
<1>2. /\ Len(Append(s, k[1])) = Len(s) + 1
      /\ Append(s, k[1])[Len(s) + 1] = k[1]
      /\ \A i \in 1 .. Len(s) : Append(s, k[1])[i] = s[i]
      /\ \A i \in 1 .. Len(s) + 1 : i \in 1 .. Len(s) \/ i = Len(s) + 1
  BY AppendFacts
<1>3. Older(Tail(k))
  BY <1>1 DEF Older
<1>4. ASSUME NEW g \in Range(queue), NEW x \in 1 .. Len(g.fragments),
             NEW y \in 1 .. Len(s) + 1
      PROVE  g.fragments[x].picture < Append(s, k[1])[y].picture
  <2>1. CASE y \in 1 .. Len(s)
    BY <1>2, <2>1 DEF Older
  <2>2. CASE y = Len(s) + 1
    BY <1>1, <1>2, <2>2 DEF Older
  <2>3. QED
    BY <1>2, <2>1, <2>2
<1>5. Older(Append(s, k[1]))
  BY <1>2, <1>4 DEF Older
<1>6. QED
  BY <1>3, <1>5

\* Only a frame of later pictures than everything queued has the mark.
LEMMA PullOlder ==
    ASSUME PictureInv, todo # <<>>,
           NEW f, f = Append(m_frame_fragments, todo[1]),
           NEW idr, idr = LastFuStartIdr(MoreInfo(todo[1], codec)), idr
    PROVE  Older(f) /\ Older(Tail(todo))
<1>1. /\ todo \in Seq(Packet) /\ m_frame_fragments \in Seq(Packet)
      /\ Own /\ Begins /\ Marks
  BY DEF PictureInv, MarkInv, HeldInv, OrderInv, TypeInv
<1>2. Older(m_frame_fragments) /\ Older(todo)
  <2>1. CASE MoreInfo(todo[1], codec).is_fu_start
    <3>1. todo[1].codec = codec /\ todo[1].kind = "start"
      BY <2>1 DEF MoreInfo
    <3>2. codec = pipe
      BY <1>1, <3>1, TailFacts DEF Own
    <3>3. QED
      BY <1>1, <3>1, <3>2 DEF Begins
  <2>2. CASE ~MoreInfo(todo[1], codec).is_fu_start
    BY <1>1, <2>2 DEF LastFuStartIdr, Marks
  <2>3. QED
    BY <2>1, <2>2
<1>3. QED
  BY <1>1, <1>2, OlderParts

\* The fragments in the pipeline and in the frame, and in the queue, after Pull.
LEMMA PullNewest ==
    ASSUME PictureInv, Pull
    PROVE  Newest' /\ HeldSlice'
<1> DEFINE p == todo[1]
           f == Append(m_frame_fragments, p)
           idr == LastFuStartIdr(MoreInfo(p, codec))
           frame == [fragments |-> f, idr |-> idr]
<1>1. /\ TypeInv /\ todo \in Seq(Packet) /\ m_frame_fragments \in Seq(Packet)
      /\ queue \in Seq(Frame) /\ Newest /\ HeldSlice /\ pictures \in Nat
  BY VideoAssumption DEF PictureInv, MarkInv, HeldInv, OrderInv, TypeInv
<1>2. /\ todo # <<>> /\ todo' = Tail(todo)
      /\ m_frame_fragments' = <<>> \/ m_frame_fragments' = f
      /\ \/ queue' = queue
         \/ queue' = Append(queue, frame)
         \/ queue' = <<frame>>
  BY <1>1, PullEffect
<1>3. pictures' = pictures
  BY DEF Pull
<1>4. /\ Len(todo') = Len(todo) - 1 /\ Len(todo) \in Nat \ {0} /\ 1 \in 1 .. Len(todo)
      /\ \A i \in 1 .. Len(todo) - 1 : todo'[i] = todo[i + 1] /\ i + 1 \in 1 .. Len(todo)
  BY <1>1, <1>2, TailFacts
<1>5. /\ Len(f) = Len(m_frame_fragments) + 1
      /\ f[Len(m_frame_fragments) + 1] = p
      /\ \A i \in 1 .. Len(m_frame_fragments) : f[i] = m_frame_fragments[i]
      /\ \A i \in 1 .. Len(m_frame_fragments) + 1 :
             i \in 1 .. Len(m_frame_fragments) \/ i = Len(m_frame_fragments) + 1
  BY <1>1, AppendFacts
<1>6. p.picture = pictures
  BY <1>1, <1>4 DEF Newest
<1>7. ASSUME NEW i \in 1 .. Len(f)
      PROVE  f[i].picture <= pictures
  <2>1. CASE i \in 1 .. Len(m_frame_fragments)
    BY <1>1, <1>5, <2>1 DEF Newest
  <2>2. CASE i = Len(m_frame_fragments) + 1
    BY <1>1, <1>5, <1>6, <2>2
  <2>3. QED
    BY <1>5, <2>1, <2>2
<1>8. \A g \in Range(queue') : g \in Range(queue) \/ g = frame
  BY <1>1, <1>2, QueueGains
<1>9. frame.fragments = f
  OBVIOUS
<1> HIDE DEF f, frame, p
<1>10. \A i \in 1 .. Len(m_frame_fragments') : m_frame_fragments'[i].picture <= pictures
  <2>1. CASE m_frame_fragments' = <<>>
    <3>1. Len(m_frame_fragments') = 0
      BY <2>1
    <3>2. QED
      BY <3>1
  <2>2. CASE m_frame_fragments' = f
    BY <1>7, <2>2
  <2>3. QED
    BY <1>2, <2>1, <2>2
<1>11. \A g \in Range(queue') : \A x \in 1 .. Len(g.fragments) :
           g.fragments[x].picture <= pictures
  BY <1>1, <1>7, <1>8, <1>9 DEF Newest
<1>12. \A i \in 1 .. Len(todo') : todo'[i].picture = pictures
  BY <1>1, <1>4 DEF Newest
<1>13. Newest'
  BY <1>3, <1>10, <1>11, <1>12 DEF Newest
<1>14. HeldSlice'
  <2>1. ASSUME NEW i \in 1 .. Len(todo')
        PROVE  /\ todo'[i].kind # "single"
               /\ todo'[i].kind = "start" => i = 1
    <3>1. i \in 1 .. Len(todo) - 1 /\ todo'[i] = todo[i + 1] /\ i + 1 \in 1 .. Len(todo)
          /\ i + 1 # 1
      BY <1>4
    <3>2. todo[i + 1].kind # "single"
      BY <1>1, <3>1 DEF HeldSlice
    <3>3. todo[i + 1].kind = "start" => i + 1 = 2
      BY <1>1, <3>1 DEF HeldSlice
    <3>4. QED
      BY <3>1, <3>2, <3>3
  <2>2. QED
    BY <2>1 DEF HeldSlice
<1>15. QED
  BY <1>13, <1>14

\* A packet is read while what is queued is of earlier pictures as it must be.
LEMMA PullPicture ==
    ASSUME FragmentLimit >= 1, PictureInv, Pull
    PROVE  Begins' /\ Marks'
<1> DEFINE p == todo[1]
           f == Append(m_frame_fragments, p)
           info == MoreInfo(p, codec)
           idr == LastFuStartIdr(info)
<1>1. /\ TypeInv /\ todo \in Seq(Packet) /\ m_frame_fragments \in Seq(Packet)
      /\ Own /\ HeldSlice /\ Begins /\ Marks /\ FragmentLimit \in Nat
  BY VideoAssumption DEF PictureInv, MarkInv, HeldInv, OrderInv, TypeInv
<1>2. /\ todo # <<>> /\ todo' = Tail(todo)
      /\ \/ /\ IsLastFragment(f, info)
            /\ m_frame_fragments' = <<>> /\ m_last_fu_s_idr' = FALSE
         \/ /\ ~IsLastFragment(f, info)
            /\ m_frame_fragments' = f /\ m_last_fu_s_idr' = idr
            /\ queue' = queue
  BY <1>1, PullEffect
<1>3. UNCHANGED <<pipe, codec>>
  BY DEF Pull, settings
<1>4. /\ Len(todo') = Len(todo) - 1 /\ Len(todo) \in Nat \ {0} /\ 1 \in 1 .. Len(todo)
      /\ \A i \in 1 .. Len(todo) - 1 : todo'[i] = todo[i + 1] /\ i + 1 \in 1 .. Len(todo)
      /\ todo' \in Seq(Packet)
  BY <1>1, <1>2, TailFacts
<1>5. HeldSlice'
  BY PullNewest
<1>6. ASSUME codec = pipe, todo' # <<>>, todo'[1].kind = "start"
      PROVE  /\ m_frame_fragments = <<>> /\ ~info.is_fu_end
             /\ Older(todo)
  <2>1. Len(todo') # 0
    BY <1>4, <1>6
  <2>2. 1 \in 1 .. Len(todo) - 1 /\ 2 \in 1 .. Len(todo) /\ todo'[1] = todo[2]
    BY <1>4, <2>1
  <2>3. todo[1].kind = "single"
    BY <1>1, <1>6, <2>2 DEF HeldSlice
  <2>4. QED
    BY <1>1, <1>2, <1>6, <2>3 DEF Begins, MoreInfo
<1>7. ASSUME todo' # <<>>
      PROVE  todo'[1].kind # "single"
  <2>1. Len(todo') # 0
    BY <1>4, <1>7
  <2>2. 1 \in 1 .. Len(todo) - 1 /\ 2 \in 1 .. Len(todo) /\ todo'[1] = todo[2]
    BY <1>4, <2>1
  <2>3. QED
    BY <1>1, <2>2 DEF HeldSlice
<1>8. ASSUME Older(m_frame_fragments), Older(todo)
      PROVE  Older(f) /\ Older(todo')
  BY <1>1, <1>2, <1>8, OlderParts
<1>9. idr => Older(f) /\ Older(todo')
  BY <1>2, PullOlder
<1>10. CASE IsLastFragment(f, info)
  <2>1. m_last_fu_s_idr' = FALSE
    BY <1>2, <1>10
  <2>2. ASSUME codec = pipe, todo' # <<>>, todo'[1].kind = "start"
        PROVE  FALSE
    <3>1. m_frame_fragments = <<>> /\ ~info.is_fu_end
      BY <1>6, <2>2
    <3>2. Len(f) = 1
      BY <1>1, <3>1
    <3>3. ~(Len(f) > FragmentLimit)
      BY <1>1, <3>2
    <3>4. QED
      BY <1>10, <3>1, <3>3 DEF IsLastFragment
  <2>3. QED
    BY <1>3, <1>7, <2>1, <2>2 DEF Begins, Marks
<1>11. CASE ~IsLastFragment(f, info)
  <2>1. m_frame_fragments' = f /\ m_last_fu_s_idr' = idr /\ queue' = queue
    BY <1>2, <1>11
  <2>2. \A s : Older(s) => \A g \in Range(queue') :
            \A x \in 1 .. Len(g.fragments), y \in 1 .. Len(s) :
                g.fragments[x].picture < s[y].picture
    BY <2>1 DEF Older
  <2>3. ASSUME codec = pipe, todo' # <<>>, todo'[1].kind = "start"
        PROVE  Older(f) /\ Older(todo')
    <3>1. m_frame_fragments = <<>> /\ Older(todo)
      BY <1>6, <2>3
    <3>2. Len(m_frame_fragments) = 0
      BY <3>1
    <3>3. Older(m_frame_fragments)
      BY <3>2 DEF Older
    <3>4. QED
      BY <1>8, <3>1, <3>3
  <2> HIDE DEF f, idr, info
  <2>4. Older(f) => Older(m_frame_fragments)'
    BY <2>1, <2>2 DEF Older
  <2>5. Older(todo') => Older(todo)'
    BY <2>2 DEF Older
  <2>6. QED
    BY <1>3, <1>7, <1>9, <2>1, <2>3, <2>4, <2>5 DEF Begins, Marks
<1>12. QED
  BY <1>10, <1>11

\* A new picture.
LEMMA EncodePicture ==
    ASSUME Slices = 1, 1 \notin Packets, PictureInv, Encode
    PROVE  Newest' /\ HeldSlice' /\ Begins' /\ Marks'
<1>1. /\ TypeInv /\ Newest /\ Once /\ Marks /\ NothingWaits /\ pictures \in Nat
  BY VideoAssumption
     DEF PictureInv, WaitInv, MarkInv, HeldInv, OrderInv, TypeInv
<1>2. /\ todo = <<>>
      /\ UNCHANGED <<pipe, codec, m_frame_fragments, m_last_fu_s_idr, queue>>
  BY DEF Encode, camera, settings, link
<1>3. PICK k : /\ OneSlice(k) /\ Len(todo') = Len(k) /\ pictures' = pictures + 1
               /\ Len(k) \in Nat \ {0}
               /\ \A i \in 1 .. Len(k) :
                      todo'[i].kind = k[i] /\ todo'[i].picture = pictures + 1
  <2>1. PICK idr \in BOOLEAN, n \in [1 .. Slices -> Packets] :
          LET k == PictureKinds(idr, n)
          IN  /\ Len(k) \in Nat \ {0}
              /\ todo' = [i \in 1 .. Len(k) |->
                            [id |-> packets + i, picture |-> pictures + 1,
                             kind |-> k[i], idr |-> idr, codec |-> pipe]]
              /\ Len(todo') = Len(k)
              /\ pictures' = pictures + 1
    BY <1>1, EncodeEffect
  <2> DEFINE k == PictureKinds(idr, n)
  <2>2. OneSlice(k)
    BY PictureOfOneSlice
  <2>3. /\ Len(k) \in Nat \ {0} /\ Len(todo') = Len(k) /\ pictures' = pictures + 1
        /\ todo' = [i \in 1 .. Len(k) |->
                      [id |-> packets + i, picture |-> pictures + 1,
                       kind |-> k[i], idr |-> idr, codec |-> pipe]]
    BY <2>1
  <2> HIDE DEF k
  <2>4. \A i \in 1 .. Len(k) :
            todo'[i].kind = k[i] /\ todo'[i].picture = pictures + 1
    BY <2>3
  <2>5. QED
    BY <2>2, <2>3, <2>4
<1>4. HeldSlice'
  <2>1. \A i \in 1 .. Len(k) : k[i] = "single" =>
            i = 1 /\ 1 < Len(k) /\ k[2] = "start" /\ 2 \in 1 .. Len(k)
    BY <1>3 DEF OneSlice
  <2>2. \A i \in 1 .. Len(k) : k[i] = "start" => i = 1 \/ (i = 2 /\ k[1] = "single")
    BY <1>3 DEF OneSlice
  <2>3. 1 \in 1 .. Len(k)
    BY <1>3
  <2>4. QED
    BY <1>3, <2>1, <2>2, <2>3 DEF HeldSlice
<1>5. \A i \in 1 .. Len(m_frame_fragments) : m_frame_fragments[i].picture < pictures + 1
  <2>1. ASSUME NEW i \in 1 .. Len(m_frame_fragments)
        PROVE  m_frame_fragments[i].picture < pictures + 1
    <3>1. m_frame_fragments \in Seq(Packet)
      BY <1>1 DEF TypeInv
    <3>2. m_frame_fragments[i] \in Packet
      BY <3>1
    <3>3. m_frame_fragments[i].picture \in Int /\ m_frame_fragments[i].picture <= pictures
      BY <1>1, <3>2, VideoAssumption DEF Packet, Newest
    <3>4. QED
      BY <1>1, <3>3
  <2>2. QED
    BY <2>1
<1>6. \A f \in Range(queue) : \A x \in 1 .. Len(f.fragments) :
          f.fragments[x].picture < pictures + 1 /\ f.fragments[x].picture <= pictures + 1
  <2>1. ASSUME NEW f \in Range(queue), NEW x \in 1 .. Len(f.fragments)
        PROVE  f.fragments[x].picture \in Int
    <3>1. f \in Frame
      BY <1>1 DEF TypeInv, Range
    <3>2. f.fragments \in Seq(Packet)
      BY <3>1 DEF Frame
    <3>3. f.fragments[x] \in Packet
      BY <3>2
    <3>4. QED
      BY <3>3, VideoAssumption DEF Packet
  <2>2. QED
    BY <1>1, <2>1 DEF Newest
<1>7. Newest'
  <2>1. \A i \in 1 .. Len(m_frame_fragments) : m_frame_fragments[i].picture <= pictures + 1
    <3>1. ASSUME NEW i \in 1 .. Len(m_frame_fragments)
          PROVE  m_frame_fragments[i].picture <= pictures + 1
      <4>1. m_frame_fragments \in Seq(Packet)
        BY <1>1 DEF TypeInv
      <4>2. m_frame_fragments[i] \in Packet
        BY <4>1
      <4>3. m_frame_fragments[i].picture \in Int
        BY <4>2, VideoAssumption DEF Packet
      <4>4. QED
        BY <1>1, <1>5, <4>3
    <3>2. QED
      BY <3>1
  <2>2. QED
    BY <1>2, <1>3, <1>6, <2>1 DEF Newest
<1>8. Older(todo)'
  <2>1. \A f \in Range(queue') : \A x \in 1 .. Len(f.fragments), y \in 1 .. Len(todo') :
            f.fragments[x].picture < todo'[y].picture
    BY <1>2, <1>3, <1>6
  <2>2. QED
    BY <2>1 DEF Older
<1>9. codec = pipe => m_frame_fragments = <<>>
  BY <1>1, <1>2 DEF Once, NothingWaits
<1>10. codec' = pipe' => m_frame_fragments' = <<>> /\ Older(m_frame_fragments)'
  <2>1. ASSUME codec' = pipe'
        PROVE  m_frame_fragments' = <<>> /\ Len(m_frame_fragments') = 0
    BY <1>2, <1>9, <2>1
  <2>2. QED
    BY <2>1 DEF Older
<1>11. m_last_fu_s_idr' => Older(m_frame_fragments)'
  BY <1>1, <1>2 DEF Marks, Older
<1>12. QED
  BY <1>4, <1>7, <1>8, <1>10, <1>11 DEF Begins, Marks

\* Every step keeps what is queued of earlier pictures.
LEMMA PictureStep ==
    ASSUME Slices = 1, 1 \notin Packets, FragmentLimit >= 1, MaxChanges <= 1,
           PictureInv, [Next]_vars
    PROVE  PictureInv'
<1>1. MarkInv' /\ WaitInv'
  BY MarkStep, WaitStep DEF PictureInv
<1>2. /\ TypeInv /\ FirstCodec /\ Newest /\ HeldSlice /\ Once /\ Begins /\ Marks
  BY DEF PictureInv, MarkInv, HeldInv, OrderInv
<1>3. CASE Encode
  <2>1. UNCHANGED <<pipe, codec, changes, user, m_request_restart>>
    BY <1>3 DEF Encode, settings
  <2>2. Once'
    BY <1>2, <2>1 DEF Once
  <2>3. QED
    BY <1>1, <1>3, <2>2, EncodePicture DEF PictureInv
<1>4. CASE SetCodec
  <2>1. /\ changes < MaxChanges /\ changes' = changes + 1 /\ codec' # codec
        /\ changes \in Nat /\ MaxChanges \in Nat /\ user' = "stored"
        /\ UNCHANGED m_request_restart
    BY <1>2, <1>4, VideoAssumption DEF SetCodec, TypeInv
  <2>2. changes = 0 /\ changes' # 0
    BY <2>1
  <2>3. UNCHANGED <<pipe, todo, pictures, m_frame_fragments, m_last_fu_s_idr, queue>>
    BY <1>4, ElsewhereEffect DEF Elsewhere
  <2>4. codec' # pipe' /\ ~m_request_restart
    BY <1>2, <2>1, <2>2, <2>3 DEF FirstCodec, Once
  <2>5. Once' /\ Begins'
    BY <2>1, <2>2, <2>4 DEF Once, Begins
  <2>6. Newest' /\ HeldSlice' /\ Marks'
    BY <1>2, <2>3 DEF Newest, HeldSlice, Marks, Older
  <2>7. QED
    BY <1>1, <2>5, <2>6 DEF PictureInv
<1>5. CASE Elsewhere /\ ~SetCodec
  <2>1. UNCHANGED <<codec, changes>>
    BY <1>5 DEF Elsewhere, RequestRestart, CloseOrOpen, Check, PullTimesOut,
                CountDrops, ResetDropped, settings
  <2>2. UNCHANGED <<pipe, todo, pictures, m_frame_fragments, m_last_fu_s_idr, queue>>
    BY <1>5, ElsewhereEffect
  <2>3. Once'
    <3>1. CASE RequestRestart
      BY <1>2, <2>1, <2>2, <3>1 DEF RequestRestart, Once
    <3>2. CASE ~RequestRestart
      <4>1. UNCHANGED <<user, m_request_restart>>
        BY <1>5, <3>2 DEF Elsewhere, CloseOrOpen, Check, PullTimesOut,
                          CountDrops, ResetDropped, settings
      <4>2. QED
        BY <1>2, <2>1, <2>2, <4>1 DEF Once
    <3>3. QED
      BY <3>1, <3>2
  <2>4. Newest' /\ HeldSlice' /\ Begins' /\ Marks'
    BY <1>2, <2>1, <2>2 DEF Newest, HeldSlice, Begins, Marks, Older
  <2>5. QED
    BY <1>1, <2>3, <2>4 DEF PictureInv
<1>6. CASE Take
  <2>1. Range(queue') \subseteq Range(queue)
    BY <1>2, <1>6, QueueTake
  <2>2. UNCHANGED <<pipe, todo, pictures, codec, changes, user, m_request_restart,
                    m_frame_fragments, m_last_fu_s_idr>>
    BY <1>6 DEF Take, encoder, camera, settings
  <2>3. Older(todo) => Older(todo)'
    BY <2>1, <2>2 DEF Older
  <2>4. Older(m_frame_fragments) => Older(m_frame_fragments)'
    BY <2>1, <2>2 DEF Older
  <2>5. Newest' /\ HeldSlice' /\ Once'
    BY <1>2, <2>1, <2>2 DEF Newest, HeldSlice, Once
  <2>6. Begins' /\ Marks'
    BY <1>2, <2>2, <2>3, <2>4 DEF Begins, Marks
  <2>7. QED
    BY <1>1, <2>5, <2>6 DEF PictureInv
<1>7. CASE UNCHANGED vars
  <2>1. UNCHANGED <<pipe, todo, pictures, codec, changes, user, m_request_restart,
                    m_frame_fragments, m_last_fu_s_idr, queue>>
    BY <1>7 DEF vars, encoder, camera, settings, link
  <2>2. QED
    BY <1>1, <1>2, <2>1
       DEF PictureInv, Newest, HeldSlice, Once, Begins, Marks, Older
<1>8. CASE Restart
  <2>1. /\ todo' = <<>> /\ m_frame_fragments' = <<>> /\ queue' = queue
        /\ pictures' = pictures /\ m_request_restart /\ m_request_restart' = FALSE
        /\ UNCHANGED <<codec, changes, user>>
    BY <1>8 DEF Restart, settings, link
  <2>2. Len(todo') = 0 /\ Len(m_frame_fragments') = 0
    BY <2>1
  <2>3. Once'
    BY <1>2, <2>1 DEF Once, TypeInv
  <2>4. Newest' /\ HeldSlice' /\ Begins' /\ Marks'
    BY <1>2, <2>1, <2>2 DEF Newest, HeldSlice, Begins, Marks, Older
  <2>5. QED
    BY <1>1, <2>3, <2>4 DEF PictureInv
<1>9. CASE Pull
  <2>1. UNCHANGED <<pipe, codec, changes, user, m_request_restart>>
    BY <1>9 DEF Pull, settings
  <2>2. Once'
    BY <1>2, <2>1 DEF Once
  <2>3. QED
    BY <1>1, <1>9, <2>2, PullNewest, PullPicture DEF PictureInv
<1>10. QED
  BY <1>3, <1>4, <1>5, <1>6, <1>7, <1>8, <1>9 DEF Next, Elsewhere

\* What a step removes from the queue while it adds a frame shares no picture
\* with that frame.
LEMMA PictureStays ==
    ASSUME PictureInv, [Next]_vars, ~intraRefresh,
           NEW new \in Range(queue') \ Range(queue),
           NEW old \in Range(queue) \ Range(queue')
    PROVE  PicturesOf(new) \cap PicturesOf(old) = {}
<1>1. /\ TypeInv /\ todo \in Seq(Packet) /\ m_frame_fragments \in Seq(Packet)
      /\ queue \in Seq(Frame) /\ Own /\ Begins /\ Marks
  BY DEF PictureInv, MarkInv, HeldInv, OrderInv, TypeInv
<1>2. queue' # queue
  OBVIOUS
<1>3. ~Take
  BY <1>1, QueueTake
<1>4. Pull
  BY <1>2, <1>3, ElsewhereEffect
     DEF Next, Elsewhere, Encode, Restart, link, vars
<1> DEFINE p == todo[1]
           f == Append(m_frame_fragments, p)
           info == MoreInfo(p, codec)
           idr == LastFuStartIdr(info)
           frame == [fragments |-> f, idr |-> idr]
<1>5. /\ todo # <<>> /\ f \in Seq(Packet)
      /\ \/ queue' = queue
         \/ queue' = Append(queue, frame)
         \/ queue' = <<frame>> /\ UsesDropping(idr)
  BY <1>1, <1>4, PullEffect
<1>6. queue' # Append(queue, frame)
  <2>1. SUFFICES ASSUME queue' = Append(queue, frame)
                 PROVE  FALSE
    OBVIOUS
  <2> HIDE DEF frame
  <2>2. PICK i \in DOMAIN queue : old = queue[i]
    BY DEF Range
  <2>3. i \in DOMAIN queue' /\ queue'[i] = queue[i]
    BY <1>1, <2>1
  <2>4. QED
    BY <2>2, <2>3 DEF Range
<1>7. queue' = <<frame>> /\ idr
  BY <1>2, <1>5, <1>6 DEF UsesDropping
<1>8. Older(f)
  BY <1>5, <1>7, PullOlder
<1>9. new.fragments = f
  <2>1. \A g \in Range(queue') : g \in Range(queue) \/ g = frame
    BY <1>1, <1>7, QueueGains
  <2>2. new = frame
    BY <2>1
  <2>3. QED
    BY <2>2
<1> HIDE DEF f
<1>10. /\ DOMAIN new.fragments = 1 .. Len(f) /\ DOMAIN old.fragments = 1 .. Len(old.fragments)
       /\ \A x \in 1 .. Len(old.fragments) : old.fragments[x].picture \in Int
       /\ \A y \in 1 .. Len(f) : f[y].picture \in Int
  <2>1. old \in Frame
    BY <1>1 DEF Range
  <2>2. old.fragments \in Seq(Packet)
    BY <2>1 DEF Frame
  <2>3. \A x \in 1 .. Len(old.fragments) : old.fragments[x] \in Packet
    BY <2>2
  <2>4. \A y \in 1 .. Len(f) : f[y] \in Packet
    BY <1>5
  <2>5. \A q \in Packet : q.picture \in Int
    BY VideoAssumption DEF Packet
  <2>6. DOMAIN old.fragments = 1 .. Len(old.fragments)
    BY <2>2
  <2>7. DOMAIN f = 1 .. Len(f)
    BY <1>5
  <2>8. QED
    BY <1>9, <2>3, <2>4, <2>5, <2>6, <2>7
<1>11. ASSUME NEW z, z \in PicturesOf(new), z \in PicturesOf(old)
       PROVE  FALSE
  <2>1. PICK y \in 1 .. Len(f) : z = f[y].picture
    BY <1>9, <1>10, <1>11 DEF PicturesOf, Range
  <2>2. PICK x \in 1 .. Len(old.fragments) : z = old.fragments[x].picture
    BY <1>10, <1>11 DEF PicturesOf, Range
  <2>3. old.fragments[x].picture < f[y].picture
    BY <1>8 DEF Older
  <2>4. QED
    BY <1>10, <2>1, <2>2, <2>3
<1>12. QED
  BY <1>11

\* A frame that pushes others out pushes out no part of its own picture, when a
\* picture is one slice of several packets and the codec is changed once
\* (video_frame.h:54-55, gstreamstreamer.cpp:622-682).
THEOREM PicturesStayWhole ==
    ASSUME Slices = 1, 1 \notin Packets, FragmentLimit >= 1, MaxChanges <= 1
    PROVE  Spec => PictureIntact
<1>1. Init => PictureInv
  <2> SUFFICES ASSUME Init
               PROVE  PictureInv
    OBVIOUS
  <2>1. /\ codec = pipe /\ Len(m_frame_fragments) = 0 /\ Len(todo) = 0
        /\ todo = <<>> /\ m_frame_fragments = <<>> /\ queue = <<>> /\ Range(queue) = {}
        /\ user = "idle" /\ m_request_restart = FALSE /\ m_last_fu_s_idr = FALSE
    BY DEF Init, Range
  <2>2. MarkInv
    BY <2>1, InitHeld
       DEF MarkInv, FirstCodec, MarkFollows, Started, IdrStarted, IdrMarkedH264
  <2>3. WaitInv
    BY <2>1, InitHeld DEF WaitInv, Changed, Ends, NothingWaits
  <2>4. QED
    BY <2>1, <2>2, <2>3
       DEF PictureInv, Newest, HeldSlice, Once, Begins, Marks
<1>2. PictureInv /\ [Next]_vars => PictureInv'
  BY PictureStep
<1>3. PictureInv /\ [Next]_vars =>
          [~intraRefresh =>
             \A new \in Range(queue') \ Range(queue),
                old \in Range(queue) \ Range(queue') :
                PicturesOf(new) \cap PicturesOf(old) = {}]_vars
  BY PictureStays
<1>4. QED
  BY <1>1, <1>2, <1>3, PTL DEF Spec, PictureIntact

=============================================================================
