----------------------------- MODULE FECProofs ------------------------------
(***************************************************************************)
(* Proofs about FECDecoder, for every layout of the blocks, every depth of *)
(* the rx queue and every order in which fragments arrive; and, from them, *)
(* about FECLink: the promise of the code rate, for every pattern of       *)
(* losses and of packets that are heard twice.                             *)
(***************************************************************************)
EXTENDS FECLink, FiniteSetTheorems, SequenceTheorems, TLAPS

\* A block in any state the decoder brings it to: its layout is known as soon
\* as it has a fragment, and what was forwarded is a prefix of its fragments.
BlockWF(block) ==
    /\ block \in RxBlockType
    /\ IsFiniteSet(block.fragment_map)
    /\ block.nPrimary = Unknown =>
           block.fragment_map = {} /\ block.nForwarded = 0
    /\ block.nPrimary # Unknown =>
           /\ block.blockIdx \in BlockIdx
           /\ block.nPrimary = NPrimary[block.blockIdx]
    /\ \A j \in 0 .. block.nForwarded - 1 : j \in block.fragment_map

-----------------------------------------------------------------------------
(* What the operations on one block return.                                *)

\* The interval a .. b - 1 has b - a elements.
LEMMA IntervalCardinality ==
    ASSUME NEW a \in Nat, NEW b \in Nat, a <= b
    PROVE  /\ IsFiniteSet(a .. b - 1)
           /\ Cardinality(a .. b - 1) = b - a
<1>1. b - 1 \in Int /\ a \in Int
  OBVIOUS
<1>2. /\ IsFiniteSet(a .. b - 1)
      /\ Cardinality(a .. b - 1) = IF a > b - 1 THEN 0 ELSE (b - 1) - a + 1
  BY <1>1, FS_Interval
<1>3. QED
  BY <1>2

\* A finite set that is closed downwards to a is the interval that starts at a.
LEMMA DownwardClosedIsInterval ==
    ASSUME NEW a \in Nat, NEW P, IsFiniteSet(P), P \subseteq Nat,
           \A i \in P : a <= i /\ \A j \in a .. i : j \in P
    PROVE  P = a .. (a + Cardinality(P)) - 1
<1> DEFINE c == Cardinality(P)
<1>1. c \in Nat
  BY FS_CardinalityType
<1>2. ASSUME NEW i \in P
      PROVE  i <= (a + c) - 1
  <2>1. a .. (i + 1) - 1 \subseteq P
    OBVIOUS
  <2>2. IsFiniteSet(a .. (i + 1) - 1) /\ Cardinality(a .. (i + 1) - 1) = (i + 1) - a
    BY IntervalCardinality, a <= i + 1, i + 1 \in Nat
  <2>3. Cardinality(a .. (i + 1) - 1) <= c
    BY <2>1, FS_Subset
  <2>4. QED
    BY <2>2, <2>3, <1>1
<1>3. P \subseteq a .. (a + c) - 1
  BY <1>1, <1>2
<1>4. /\ IsFiniteSet(a .. (a + c) - 1)
      /\ Cardinality(a .. (a + c) - 1) = c
  <2>1. a + c \in Nat /\ a <= a + c
    BY <1>1
  <2>2. QED
    BY <2>1, IntervalCardinality, <1>1
<1>5. QED
  BY <1>3, <1>4, FS_Subset

\* The scan of a pull ends below the number of data fragments of the block.
LEMMA ScanBound ==
    ASSUME NEW block, BlockWF(block), block.nPrimary # Unknown
    PROVE  /\ NAvailablePrimary(block) \in Nat
           /\ NAvailablePrimary(block) <= block.nPrimary
<1> DEFINE A == {f \in block.fragment_map : f < block.nPrimary}
<1>1. block.nPrimary \in Nat /\ block.fragment_map \subseteq Nat
  BY DEF BlockWF, RxBlockType, Unknown
<1>2. A \subseteq 0 .. block.nPrimary - 1
  BY <1>1
<1>3. IsFiniteSet(0 .. block.nPrimary - 1)
      /\ Cardinality(0 .. block.nPrimary - 1) = block.nPrimary
  BY <1>1, IntervalCardinality, 0 \in Nat
<1>4. IsFiniteSet(A) /\ Cardinality(A) <= block.nPrimary
  BY <1>2, <1>3, FS_Subset
<1>5. Cardinality(A) \in Nat
  BY <1>4, FS_CardinalityType
<1>6. QED
  BY <1>4, <1>5 DEF NAvailablePrimary

\* What a pull returns is available data of the block not forwarded before.
LEMMA PullReturns ==
    ASSUME NEW block, BlockWF(block), NEW discard, NEW i \in Pull(block, discard)
    PROVE  /\ i \in Nat
           /\ block.nForwarded <= i
           /\ block.blockIdx \in BlockIdx
           /\ i < NPrimary[block.blockIdx]
           /\ i \in block.fragment_map
<1>1. i \in block.fragment_map /\ i \in PullScan(block)
  BY DEF Pull
<1>2. block.nPrimary # Unknown
  BY <1>1 DEF BlockWF
<1>3. NAvailablePrimary(block) \in Nat /\ NAvailablePrimary(block) <= block.nPrimary
  BY <1>2, ScanBound
<1>4. block.nForwarded \in Nat /\ block.nPrimary \in Nat
  BY <1>2 DEF BlockWF, RxBlockType
<1>5. QED
  BY <1>1, <1>2, <1>3, <1>4 DEF BlockWF, PullScan

\* A pull that stops at the first gap returns the run of fragments that extends
\* the forwarded prefix.
LEMMA PullExtendsPrefix ==
    ASSUME NEW block, BlockWF(block)
    PROVE  LET n == Pulled(block, FALSE).nForwarded
           IN  /\ n \in Nat
               /\ block.nForwarded <= n
               /\ Pull(block, FALSE) = block.nForwarded .. n - 1
               /\ BlockWF(Pulled(block, FALSE))
<1> DEFINE P == Pull(block, FALSE)
           a == block.nForwarded
<1>1. a \in Nat
  BY DEF BlockWF, RxBlockType
<1>2. P \subseteq block.fragment_map /\ P \subseteq Nat
  BY PullReturns
<1>3. IsFiniteSet(P)
  BY <1>2, FS_Subset DEF BlockWF
<1>4. ASSUME NEW i \in P
      PROVE  a <= i /\ \A j \in a .. i : j \in P
  <2>1. /\ i \in Nat /\ a <= i
        /\ i \in PullScan(block)
        /\ \A j \in a .. i : j \in block.fragment_map
    BY PullReturns DEF Pull
  <2>2. i <= NAvailablePrimary(block) - 1 /\ NAvailablePrimary(block) \in Nat
    <3>1. block.nPrimary # Unknown
      BY <2>1 DEF BlockWF
    <3>2. NAvailablePrimary(block) \in Nat
      BY <3>1, ScanBound
    <3>3. QED
      BY <2>1, <3>2 DEF PullScan
  <2>3. ASSUME NEW j \in a .. i
        PROVE  j \in P
    <3>1. j \in PullScan(block)
      BY <1>1, <2>1, <2>2 DEF PullScan
    <3>2. \A k \in a .. j : k \in block.fragment_map
      BY <1>1, <2>1
    <3>3. QED
      BY <2>1, <3>1, <3>2 DEF Pull
  <2>4. QED
    BY <2>1, <2>3
<1>5. P = a .. (a + Cardinality(P)) - 1
  BY <1>1, <1>2, <1>3, <1>4, DownwardClosedIsInterval
<1>6. Cardinality(P) \in Nat
  BY <1>3, FS_CardinalityType
<1>7. Pulled(block, FALSE) = [block EXCEPT !.nForwarded = a + Cardinality(P)]
  BY DEF Pulled
<1>8. block.nPrimary = Unknown => Cardinality(P) = 0
  BY <1>2, FS_EmptySet DEF BlockWF
<1>9. block \in RxBlockType
  BY DEF BlockWF
<1> DEFINE n == a + Cardinality(P)
           pulled == Pulled(block, FALSE)
<1> HIDE DEF P, a
<1>10. n \in Nat /\ a <= n
  BY <1>1, <1>6
<1> HIDE DEF n, pulled
<1>11. /\ pulled.nForwarded = n
       /\ pulled.fragment_map = block.fragment_map
       /\ pulled.nPrimary = block.nPrimary
       /\ pulled.blockIdx = block.blockIdx
       /\ pulled \in RxBlockType
  BY <1>7, <1>9, <1>10 DEF RxBlockType, n, pulled
<1>12. P = a .. n - 1
  BY <1>5 DEF n
<1>13. \A j \in 0 .. n - 1 : j \in block.fragment_map
  <2>1. \A j \in 0 .. a - 1 : j \in block.fragment_map
    BY DEF BlockWF, a
  <2>2. QED
    BY <2>1, <1>1, <1>2, <1>10, <1>12
<1>14. block.nPrimary = Unknown => n = 0
  BY <1>1, <1>8 DEF BlockWF, n, a
<1>15. BlockWF(pulled)
  BY <1>11, <1>13, <1>14 DEF BlockWF
<1>16. QED
  BY <1>10, <1>11, <1>12, <1>15 DEF P, a, pulled

\* Adding a fragment of the block keeps it well formed, and a block that FEC
\* could not complete has at most NPrimary fragments afterwards.
LEMMA AddFragmentWF ==
    ASSUME NEW block, BlockWF(block), block.blockIdx \in BlockIdx, NEW f \in Nat
    PROVE  LET new == addFragment(block, f, NPrimary[block.blockIdx])
           IN  /\ BlockWF(new)
               /\ new.nPrimary = NPrimary[block.blockIdx]
               /\ new.fragment_map = block.fragment_map \cup {f}
               /\ new.blockIdx = block.blockIdx
               /\ new.nForwarded = block.nForwarded
<1> DEFINE new == addFragment(block, f, NPrimary[block.blockIdx])
<1>1. /\ new.fragment_map = block.fragment_map \cup {f}
      /\ new.blockIdx = block.blockIdx
      /\ new.nForwarded = block.nForwarded
      /\ new.nPrimary = IF block.nPrimary = Unknown THEN NPrimary[block.blockIdx]
                        ELSE block.nPrimary
      /\ DOMAIN new = DOMAIN block
  BY DEF addFragment, BlockWF, RxBlockType
<1>2. NPrimary[block.blockIdx] \in Nat \ {0}
  <2>1. NPrimary[block.blockIdx] \in 1 .. maxNFragmentsPerBlock
    BY LayoutAssumption
  <2>2. QED
    BY <2>1, LayoutAssumption
<1>3. new.nPrimary = NPrimary[block.blockIdx] /\ new.nPrimary # Unknown
  BY <1>1, <1>2 DEF BlockWF, Unknown
<1>4. new \in RxBlockType
  BY <1>1, <1>2, <1>3 DEF addFragment, BlockWF, RxBlockType
<1>5. IsFiniteSet(new.fragment_map)
  BY <1>1, FS_AddElement DEF BlockWF
<1>6. QED
  BY <1>1, <1>3, <1>4, <1>5 DEF BlockWF

-----------------------------------------------------------------------------
(* The order of what is sent up.                                           *)

BatchType == [block: Nat, frags: SUBSET Nat]

\* Everything in D comes before fragment f of block b.
UpTo(D, b, f) == \A x \in D : Before(x, <<b, f>>)

\* D is data of the sender, of blocks up to `last`.
DataUpTo(D, last) ==
    \A x \in D : /\ x \in BlockIdx \X Nat
                 /\ x[2] < NPrimary[x[1]]
                 /\ x[1] <= last

\* The batches in s follow D and each other.
Ordered(D, s) ==
    /\ \A x \in D, y \in Emitted(s) : Before(x, y)
    /\ \A i, j \in DOMAIN s : i < j =>
           \A f \in s[i].frags, g \in s[j].frags :
               Before(<<s[i].block, f>>, <<s[j].block, g>>)

\* What a sequence of batches emits.
LEMMA EmittedElements ==
    ASSUME NEW s \in Seq(BatchType)
    PROVE  /\ \A y \in Emitted(s) : \E i \in 1 .. Len(s) :
                  \E f \in s[i].frags : y = <<s[i].block, f>>
           /\ \A i \in 1 .. Len(s) : \A f \in s[i].frags :
                  <<s[i].block, f>> \in Emitted(s)
<1>1. DOMAIN s = 1 .. Len(s)
  BY LenProperties
<1>2. QED
  BY <1>1 DEF Emitted

\* What two runs of pulls emit is what either of them emits.
LEMMA EmittedConcat ==
    ASSUME NEW s \in Seq(BatchType), NEW t \in Seq(BatchType)
    PROVE  Emitted(s \o t) = Emitted(s) \cup Emitted(t)
<1> DEFINE u == s \o t
<1>1. /\ u \in Seq(BatchType)
      /\ Len(u) = Len(s) + Len(t)
      /\ \A i \in 1 .. Len(s) + Len(t) :
             u[i] = IF i <= Len(s) THEN s[i] ELSE t[i - Len(s)]
  BY ConcatProperties
<1>2. Len(s) \in Nat /\ Len(t) \in Nat
  BY LenProperties
<1> HIDE DEF u
<1>a. \A i \in 1 .. Len(u) : \A f \in u[i].frags :
          <<u[i].block, f>> \in Emitted(u)
  BY <1>1, EmittedElements
<1>3. ASSUME NEW y \in Emitted(u)
      PROVE  y \in Emitted(s) \cup Emitted(t)
  <2>1. PICK i \in 1 .. Len(u) : \E f \in u[i].frags : y = <<u[i].block, f>>
    BY <1>1, EmittedElements
  <2>2. CASE i <= Len(s)
    BY <2>1, <2>2, <1>1, <1>2, EmittedElements
  <2>3. CASE ~(i <= Len(s))
    <3>1. i - Len(s) \in 1 .. Len(t) /\ u[i] = t[i - Len(s)]
      BY <2>1, <2>3, <1>1, <1>2
    <3>2. QED
      BY <2>1, <3>1, EmittedElements
  <2>4. QED
    BY <2>2, <2>3
<1>4. ASSUME NEW y \in Emitted(s)
      PROVE  y \in Emitted(u)
  <2>1. PICK i \in 1 .. Len(s) : \E f \in s[i].frags : y = <<s[i].block, f>>
    BY EmittedElements
  <2>2. i \in 1 .. Len(u) /\ u[i] = s[i]
    BY <1>1, <1>2
  <2>3. QED
    BY <1>a, <2>1, <2>2
<1>5. ASSUME NEW y \in Emitted(t)
      PROVE  y \in Emitted(u)
  <2>1. PICK i \in 1 .. Len(t) : \E f \in t[i].frags : y = <<t[i].block, f>>
    BY EmittedElements
  <2>2. /\ i + Len(s) \in 1 .. Len(u)
        /\ ~(i + Len(s) <= Len(s)) /\ (i + Len(s)) - Len(s) = i
    BY <1>1, <1>2
  <2>3. u[i + Len(s)] = t[i]
    BY <1>1, <2>2
  <2>4. QED
    BY <1>a, <2>1, <2>2, <2>3
<1>6. Emitted(u) = Emitted(s) \cup Emitted(t)
  BY <1>3, <1>4, <1>5
<1>7. QED
  BY <1>6 DEF u

\* Two ordered runs of pulls stay ordered one after the other.
LEMMA OrderedConcat ==
    ASSUME NEW D, NEW s \in Seq(BatchType), NEW t \in Seq(BatchType),
           Ordered(D, s), Ordered(D \cup Emitted(s), t)
    PROVE  Ordered(D, s \o t)
<1> DEFINE u == s \o t
<1>1. /\ u \in Seq(BatchType)
      /\ Len(u) = Len(s) + Len(t)
      /\ \A i \in 1 .. Len(s) + Len(t) :
             u[i] = IF i <= Len(s) THEN s[i] ELSE t[i - Len(s)]
  BY ConcatProperties
<1>2. /\ Len(s) \in Nat /\ Len(t) \in Nat
      /\ DOMAIN s = 1 .. Len(s) /\ DOMAIN t = 1 .. Len(t)
      /\ DOMAIN u = 1 .. Len(u)
  BY <1>1, LenProperties
<1>3. \A x \in D, y \in Emitted(u) : Before(x, y)
  BY EmittedConcat DEF Ordered
<1> HIDE DEF u
<1>4. ASSUME NEW i \in DOMAIN u, NEW j \in DOMAIN u, i < j,
             NEW f \in u[i].frags, NEW g \in u[j].frags
      PROVE  Before(<<u[i].block, f>>, <<u[j].block, g>>)
  <2>1. CASE j <= Len(s)
    <3>1. i \in DOMAIN s /\ j \in DOMAIN s /\ u[i] = s[i] /\ u[j] = s[j]
      BY <2>1, <1>1, <1>2, <1>4
    <3>2. QED
      BY <1>4, <3>1 DEF Ordered
  <2>2. CASE ~(i <= Len(s))
    <3>1. /\ i - Len(s) \in DOMAIN t /\ j - Len(s) \in DOMAIN t
          /\ u[i] = t[i - Len(s)] /\ u[j] = t[j - Len(s)]
          /\ i - Len(s) < j - Len(s)
      BY <2>2, <1>1, <1>2, <1>4
    <3>2. QED
      BY <1>4, <3>1 DEF Ordered
  <2>3. CASE i <= Len(s) /\ ~(j <= Len(s))
    <3>1. /\ i \in 1 .. Len(s) /\ j - Len(s) \in 1 .. Len(t)
          /\ u[i] = s[i] /\ u[j] = t[j - Len(s)]
      BY <2>3, <1>1, <1>2, <1>4
    <3>2. <<u[i].block, f>> \in Emitted(s) /\ <<u[j].block, g>> \in Emitted(t)
      BY <3>1, EmittedElements
    <3>3. QED
      BY <3>2 DEF Ordered
  <2>4. QED
    BY <2>1, <2>2, <2>3, <1>1, <1>2, <1>4
<1>5. Ordered(D, u)
  BY <1>3, <1>4 DEF Ordered, u
<1>6. QED
  BY <1>5 DEF u

-----------------------------------------------------------------------------
(* The queue.                                                              *)

\* The queue ends with block `last`, has no gaps and holds only blocks that FEC
\* cannot complete; only the oldest one has been forwarded in part.
QueueWF(q, last) ==
    /\ q \in Seq(RxBlockType)
    /\ Len(q) <= RX_QUEUE_MAX_SIZE
    /\ \A i \in 1 .. Len(q) :
           /\ q[i].blockIdx = (last - Len(q)) + i
           /\ BlockWF(q[i])
           /\ ~allPrimaryFragmentsCanBeRecovered(q[i])
           /\ i > 1 => q[i].nForwarded = 0

\* What was sent up ends before the first fragment the queue will send.
QueueFollows(q, D) == q # <<>> => UpTo(D, q[1].blockIdx, q[1].nForwarded)

\* F is data of the block that was not forwarded before.
DataOf(block, F) ==
    \A f \in F : /\ f \in Nat /\ block.nForwarded <= f
                 /\ block.blockIdx \in BlockIdx
                 /\ f < NPrimary[block.blockIdx]

\* Sending the n oldest blocks of a queue one after the other keeps the order.
LEMMA PullQueue ==
    ASSUME NEW last \in Int, NEW q, QueueWF(q, last), NEW n \in 0 .. Len(q),
           NEW D, QueueFollows(q, D), DataUpTo(D, last),
           NEW s \in Seq(BatchType), Len(s) = n,
           \A i \in 1 .. n : s[i].block = q[i].blockIdx /\ DataOf(q[i], s[i].frags)
    PROVE  /\ Ordered(D, s)
           /\ DataUpTo(D \cup Emitted(s), last)
           /\ n < Len(q) => UpTo(D \cup Emitted(s), q[n + 1].blockIdx, 0)
                            \/ (n = 0 /\ Emitted(s) = {})
<1>1. Len(q) \in Nat /\ n \in Nat /\ n <= Len(q)
  BY LenProperties DEF QueueWF
<1>2. ASSUME NEW i \in 1 .. n
      PROVE  /\ s[i].block = q[i].blockIdx
             /\ s[i].block = (last - Len(q)) + i
             /\ s[i].block \in Nat
             /\ DataOf(q[i], s[i].frags)
             /\ BlockWF(q[i])
  <2>1. i \in 1 .. Len(q)
    BY <1>1
  <2>2. BlockWF(q[i]) /\ q[i].blockIdx \in Nat /\ q[i].blockIdx = (last - Len(q)) + i
    BY <2>1 DEF QueueWF, BlockWF, RxBlockType
  <2>3. QED
    BY <2>2
<1>3. q # <<>> \/ n = 0
  BY <1>1
<1>4. ASSUME NEW y \in Emitted(s)
      PROVE  \E i \in 1 .. n : \E f \in s[i].frags :
                 /\ y = <<(last - Len(q)) + i, f>>
                 /\ y = <<q[i].blockIdx, f>>
  BY <1>2, EmittedElements
<1>5. ASSUME NEW x \in D, NEW y \in Emitted(s)
      PROVE  Before(x, y)
  <2>1. PICK i \in 1 .. n : \E f \in s[i].frags :
                 /\ y = <<(last - Len(q)) + i, f>>
                 /\ y = <<q[i].blockIdx, f>>
    BY <1>4
  <2>2. PICK f \in s[i].frags : y = <<q[i].blockIdx, f>>
    BY <2>1
  <2>3. /\ q # <<>> /\ Before(x, <<q[1].blockIdx, q[1].nForwarded>>)
        /\ x \in BlockIdx \X Nat
    <3>1. q # <<>>
      BY <1>1, <1>3
    <3>2. QED
      BY <3>1 DEF QueueFollows, UpTo, DataUpTo
  <2>4. /\ q[1].blockIdx = (last - Len(q)) + 1 /\ q[i].blockIdx = (last - Len(q)) + i
        /\ BlockWF(q[i]) /\ BlockWF(q[1])
    BY <1>1 DEF QueueWF
  <2>5. /\ f \in Nat /\ q[i].nForwarded <= f
        /\ q[1].nForwarded \in Nat /\ q[i].nForwarded \in Nat
    BY <1>2, <2>2, <2>4 DEF BlockWF, RxBlockType, DataOf
  <2>6. x[1] \in Nat /\ x[2] \in Nat
    BY <2>3, LayoutAssumption
  <2>7. QED
    BY <1>1, <2>2, <2>3, <2>4, <2>5, <2>6 DEF Before
<1>6. ASSUME NEW i \in 1 .. n, NEW j \in 1 .. n, i < j,
             NEW f \in s[i].frags, NEW g \in s[j].frags
      PROVE  Before(<<s[i].block, f>>, <<s[j].block, g>>)
  BY <1>1, <1>2, <1>6 DEF Before
<1>7. Ordered(D, s)
  <2>1. DOMAIN s = 1 .. n
    BY LenProperties
  <2>2. QED
    BY <1>5, <1>6, <2>1 DEF Ordered
<1>8. ASSUME NEW y \in Emitted(s)
      PROVE  /\ y \in BlockIdx \X Nat /\ y[2] < NPrimary[y[1]]
             /\ y[1] <= (last - Len(q)) + n
             /\ y[1] \in Nat
  <2>1. PICK i \in 1 .. n : \E f \in s[i].frags :
                 /\ y = <<(last - Len(q)) + i, f>>
                 /\ y = <<q[i].blockIdx, f>>
    BY <1>4
  <2>2. PICK f \in s[i].frags :
            y = <<q[i].blockIdx, f>> /\ y = <<(last - Len(q)) + i, f>>
    BY <2>1
  <2>3. /\ f \in Nat /\ f < NPrimary[q[i].blockIdx] /\ q[i].blockIdx \in BlockIdx
    BY <1>2, <2>2 DEF DataOf
  <2>4. QED
    BY <1>1, <2>2, <2>3, LayoutAssumption
<1>9. DataUpTo(D \cup Emitted(s), last)
  BY <1>1, <1>8 DEF DataUpTo
<1>10. ASSUME n < Len(q), n # 0
       PROVE  UpTo(D \cup Emitted(s), q[n + 1].blockIdx, 0)
  <2>1. /\ q[n + 1].blockIdx = (last - Len(q)) + (n + 1)
        /\ q[1].blockIdx = (last - Len(q)) + 1
    <3>1. n + 1 \in 1 .. Len(q) /\ 1 \in 1 .. Len(q)
      BY <1>1, <1>10
    <3>2. QED
      BY <3>1 DEF QueueWF
  <2>2. ASSUME NEW x \in D
        PROVE  Before(x, <<q[n + 1].blockIdx, 0>>)
    <3>1. Before(x, <<q[1].blockIdx, q[1].nForwarded>>) /\ x[1] \in Nat
      <4>1. q # <<>> /\ x \in BlockIdx \X Nat
        BY <1>1, <1>10 DEF DataUpTo
      <4>2. QED
        BY <4>1, LayoutAssumption DEF QueueFollows, UpTo
    <3>2. QED
      BY <1>1, <1>10, <2>1, <3>1 DEF Before
  <2>3. ASSUME NEW x \in Emitted(s)
        PROVE  Before(x, <<q[n + 1].blockIdx, 0>>)
    BY <1>1, <1>8, <2>1 DEF Before
  <2>4. QED
    BY <2>2, <2>3 DEF UpTo
<1>11. n = 0 => Emitted(s) = {}
  BY <1>4
<1>12. QED
  BY <1>7, <1>9, <1>10, <1>11

\* The batches of the n oldest blocks of a queue.
LEMMA BatchesOfQueue ==
    ASSUME NEW last \in Int, NEW q, QueueWF(q, last), NEW n \in 0 .. Len(q),
           NEW discard \in BOOLEAN,
           NEW s, s = [i \in 1 .. n |-> Batch(q[i], discard)]
    PROVE  /\ s \in Seq(BatchType)
           /\ Len(s) = n
           /\ \A i \in 1 .. n : /\ s[i].block = q[i].blockIdx
                                /\ DataOf(q[i], s[i].frags)
<1>1. Len(q) \in Nat /\ n \in Nat /\ n <= Len(q)
  BY LenProperties DEF QueueWF
<1>2. ASSUME NEW i \in 1 .. n
      PROVE  /\ Batch(q[i], discard).block = q[i].blockIdx
             /\ DataOf(q[i], Batch(q[i], discard).frags)
             /\ Batch(q[i], discard) \in BatchType
  <2>1. BlockWF(q[i]) /\ q[i].blockIdx \in Nat
    BY <1>1 DEF QueueWF, BlockWF, RxBlockType
  <2>2. DataOf(q[i], Pull(q[i], discard))
    BY <2>1, PullReturns DEF DataOf
  <2>3. Pull(q[i], discard) \in SUBSET Nat
    BY <2>2 DEF DataOf
  <2>4. QED
    BY <2>1, <2>2, <2>3 DEF Batch, BatchType
<1>3. s \in [1 .. n -> BatchType]
  BY <1>2
<1>4. s \in Seq(BatchType)
  BY <1>1, <1>3, SeqDef
<1>5. Len(s) = n
  BY <1>1, <1>3, <1>4, LenProperties
<1>6. QED
  BY <1>2, <1>4, <1>5

-----------------------------------------------------------------------------
(* The inductive invariant.                                                *)

IInv ==
    /\ TypeOK
    /\ QueueWF(rx_queue, last_known_block)
    /\ QueueFollows(rx_queue, delivered)
    /\ DataUpTo(delivered, last_known_block)

\* last_known_block once a packet of block b has been looked up.
NewLast(b) == IF InQueue(b) THEN last_known_block ELSE b

\* How many blocks a packet of block b creates and evicts.
LEMMA RingNumbers ==
    ASSUME IInv, NEW b \in BlockIdx, ~AlreadyProcessed(b)
    PROVE  /\ NNewBlocks(b) \in Nat /\ NSkipped(b) \in Nat
           /\ NEvicted(b) \in 0 .. Len(rx_queue)
           /\ (Len(rx_queue) - NEvicted(b)) + NNewBlocks(b) \in 1 .. RX_QUEUE_MAX_SIZE
           /\ NewLast(b) \in Nat /\ last_known_block <= NewLast(b)
           /\ NEvicted(b) < Len(rx_queue) =>
                  NewLast(b) = last_known_block + NNewBlocks(b)
           /\ NNewBlocks(b) > 0 =>
                  /\ NewLast(b) = b
                  /\ last_known_block < (b - NNewBlocks(b)) + 1
                  /\ 0 <= (b - NNewBlocks(b)) + 1
<1> USE DEF NNewBlocks, NSkipped, NEvicted, NNeededNewBlocks, NewLast, NoBlock
<1>1. /\ Len(rx_queue) \in Nat /\ Len(rx_queue) <= RX_QUEUE_MAX_SIZE
      /\ RX_QUEUE_MAX_SIZE \in Nat /\ RX_QUEUE_MAX_SIZE >= 1
      /\ b \in Nat
      /\ last_known_block \in Nat \cup {-1}
  <2>1. rx_queue \in Seq(RxBlockType) /\ Len(rx_queue) <= RX_QUEUE_MAX_SIZE
    BY DEF IInv, QueueWF
  <2>2. Len(rx_queue) \in Nat
    BY <2>1, LenProperties
  <2>3. last_known_block \in Nat \cup {-1}
    BY DEF IInv, TypeOK
  <2>4. QED
    BY <2>1, <2>2, <2>3, DecoderAssumption, LayoutAssumption
<1>2. rx_queue # <<>> => last_known_block \in Nat
  <2>1. ASSUME rx_queue # <<>>
        PROVE  last_known_block \in Nat
    <3>1. Len(rx_queue) \in 1 .. Len(rx_queue)
      BY <1>1, <2>1, EmptySeq DEF IInv, TypeOK
    <3>2. rx_queue[Len(rx_queue)].blockIdx = (last_known_block - Len(rx_queue)) + Len(rx_queue)
      BY <3>1 DEF IInv, QueueWF
    <3>3. rx_queue[Len(rx_queue)].blockIdx \in Nat
      <4>1. BlockWF(rx_queue[Len(rx_queue)])
        BY <3>1 DEF IInv, QueueWF
      <4>2. QED
        BY <4>1 DEF BlockWF, RxBlockType
    <3>4. QED
      BY <1>1, <3>2, <3>3
  <2>2. QED
    BY <2>1
<1>3. CASE InQueue(b)
  <2>1. Len(rx_queue) \in Nat \ {0} /\ last_known_block \in Nat
    <3>1. rx_queue # <<>>
      BY <1>3 DEF InQueue
    <3>2. QED
      BY <3>1, <1>2, EmptySeq DEF IInv, TypeOK
  <2>2. QED
    BY <1>1, <1>3, <2>1
<1>4. CASE ~InQueue(b)
  <2>1. last_known_block # -1 => last_known_block < b
    BY <1>1, <1>4 DEF AlreadyProcessed
  <2>2. last_known_block = -1 => Len(rx_queue) = 0
    BY <1>1, <1>2
  <2>3. QED
    BY <1>1, <1>4, <2>1, <2>2
<1>5. QED
  BY <1>3, <1>4

\* The ring holds what the evictions left of the queue, then the new blocks.
LEMMA RingElements ==
    ASSUME IInv, NEW b \in BlockIdx, ~AlreadyProcessed(b)
    PROVE  LET q == rx_queue
               n == NEvicted(b)
               m == NNewBlocks(b)
               r == Ring(b)
           IN  /\ r \in Seq(RxBlockType)
               /\ Len(r) = (Len(q) - n) + m
               /\ \A i \in 1 .. (Len(q) - n) + m :
                      \/ /\ n < Len(q) /\ i <= Len(q) - n
                         /\ r[i] = q[n + i] /\ n + i \in 1 .. Len(q)
                      \/ /\ m > 0 /\ ~(i <= Len(q) - n)
                         /\ i - (Len(q) - n) \in 1 .. m
                         /\ r[i] = NewRxBlock((b - m) + (i - (Len(q) - n)))
<1> DEFINE q == rx_queue
           n == NEvicted(b)
           m == NNewBlocks(b)
           last == last_known_block
           new == NewBlocks(b)
           kept == SubSeq(q, n + 1, Len(q))
<1>1. /\ m \in Nat /\ n \in 0 .. Len(q) /\ n \in Nat
      /\ m > 0 => 0 <= (b - m) + 1
  BY RingNumbers
<1>2. /\ q \in Seq(RxBlockType) /\ Len(q) \in Nat /\ b \in Nat
      /\ \A i \in 1 .. Len(q) : q[i] \in RxBlockType
  BY LenProperties, ElementOfSeq, LayoutAssumption DEF IInv, TypeOK, NoBlock
<1>4. /\ kept \in Seq(RxBlockType)
      /\ Len(kept) = Len(q) - n
      /\ \A i \in 1 .. Len(q) - n : kept[i] = q[n + i]
  <2>1. \A i \in n + 1 .. Len(q) : q[i] \in RxBlockType
    BY <1>1, <1>2
  <2>2. /\ kept \in Seq(RxBlockType)
        /\ Len(kept) = IF n + 1 <= Len(q) THEN (Len(q) - (n + 1)) + 1 ELSE 0
        /\ \A i \in 1 .. (Len(q) - (n + 1)) + 1 : kept[i] = q[(n + 1) + i - 1]
    <3>1. n + 1 \in Int /\ Len(q) \in Int
      BY <1>1, <1>2
    <3> HIDE DEF n, q
    <3>2. QED
      BY <2>1, <3>1, SubSeqProperties
  <2> HIDE DEF kept, n, q
  <2>3. ASSUME NEW i \in 1 .. Len(q) - n
        PROVE  kept[i] = q[n + i]
    <3>1. i \in 1 .. (Len(q) - (n + 1)) + 1 /\ (n + 1) + i - 1 = n + i
      BY <1>1, <1>2
    <3>2. QED
      BY <2>2, <3>1
  <2>4. QED
    BY <2>2, <2>3, <1>1, <1>2
<1>5. /\ new \in Seq(RxBlockType) /\ Len(new) = m
      /\ \A i \in 1 .. m : new[i] = NewRxBlock((b - m) + i)
  <2>1. ASSUME NEW i \in 1 .. m
        PROVE  NewRxBlock((b - m) + i) \in RxBlockType
    <3>1. (b - m) + i \in Nat
      BY <1>1, <1>2
    <3>2. QED
      BY <3>1 DEF NewRxBlock, RxBlockType
  <2>2. new = [i \in 1 .. m |-> NewRxBlock((b - m) + i)]
    BY DEF NewBlocks
  <2> HIDE DEF new, m
  <2>3. new \in [1 .. m -> RxBlockType]
    BY <2>1, <2>2
  <2>4. new \in Seq(RxBlockType)
    BY <1>1, <2>3, SeqDef
  <2>5. QED
    BY <1>1, <2>2, <2>3, <2>4, LenProperties
<1> DEFINE r == Ring(b)
<1>6. /\ r \in Seq(RxBlockType)
      /\ Len(r) = (Len(q) - n) + m
      /\ \A i \in 1 .. (Len(q) - n) + m :
             r[i] = IF i <= Len(q) - n THEN kept[i] ELSE new[i - (Len(q) - n)]
  BY <1>4, <1>5, ConcatProperties DEF Ring
<1> HIDE DEF q, n, m, last, new, kept, r
<1>8. ASSUME NEW i \in 1 .. (Len(q) - n) + m
      PROVE  \/ /\ n < Len(q) /\ i <= Len(q) - n
                /\ r[i] = q[n + i] /\ n + i \in 1 .. Len(q)
             \/ /\ m > 0 /\ ~(i <= Len(q) - n)
                /\ i - (Len(q) - n) \in 1 .. m
                /\ r[i] = NewRxBlock((b - m) + (i - (Len(q) - n)))
  <2>1. CASE i <= Len(q) - n
    <3>1. r[i] = kept[i] /\ i \in 1 .. Len(q) - n
      BY <2>1, <1>1, <1>2, <1>6
    <3>2. n < Len(q) /\ n + i \in 1 .. Len(q)
      BY <2>1, <1>1, <1>2
    <3>3. QED
      BY <2>1, <3>1, <3>2, <1>4
  <2>2. CASE ~(i <= Len(q) - n)
    <3>1. m > 0 /\ i - (Len(q) - n) \in 1 .. m
      BY <2>2, <1>1, <1>2
    <3>2. r[i] = new[i - (Len(q) - n)]
      BY <2>2, <1>6
    <3>3. QED
      BY <2>2, <3>1, <3>2, <1>5
  <2>3. QED
    BY <2>1, <2>2
<1>9. QED
  BY <1>6, <1>8 DEF q, n, m, r

\* The ring a packet is put in is well formed, never empty, and what its
\* creation evicted was sent up in order.
LEMMA RingFacts ==
    ASSUME IInv, NEW b \in BlockIdx, ~AlreadyProcessed(b)
    PROVE  /\ NewLast(b) \in Nat
           /\ QueueWF(Ring(b), NewLast(b))
           /\ Len(Ring(b)) \in Nat \ {0}
           /\ Evictions(b) \in Seq(BatchType)
           /\ Ordered(delivered, Evictions(b))
           /\ DataUpTo(delivered \cup Emitted(Evictions(b)), NewLast(b))
           /\ QueueFollows(Ring(b), delivered \cup Emitted(Evictions(b)))
<1> DEFINE q == rx_queue
           n == NEvicted(b)
           m == NNewBlocks(b)
           L == NewLast(b)
           last == last_known_block
           E == Evictions(b)
           D == delivered \cup Emitted(E)
<1>1. /\ m \in Nat /\ n \in 0 .. Len(q) /\ n \in Nat
      /\ (Len(q) - n) + m \in 1 .. RX_QUEUE_MAX_SIZE
      /\ L \in Nat /\ last <= L
      /\ n < Len(q) => L = last + m
      /\ m > 0 => L = b /\ last < (b - m) + 1 /\ 0 <= (b - m) + 1
  BY RingNumbers
<1>2. /\ q \in Seq(RxBlockType) /\ Len(q) \in Nat /\ last \in Int /\ b \in Nat
      /\ \A i \in 1 .. Len(q) : q[i] \in RxBlockType
  BY LenProperties, ElementOfSeq, LayoutAssumption DEF IInv, TypeOK, NoBlock
<1>3. /\ E \in Seq(BatchType)
      /\ Ordered(delivered, E)
      /\ DataUpTo(D, last)
      /\ n < Len(q) => UpTo(D, q[n + 1].blockIdx, 0) \/ (n = 0 /\ Emitted(E) = {})
  <2>1. QueueWF(q, last) /\ QueueFollows(q, delivered) /\ DataUpTo(delivered, last)
    BY DEF IInv
  <2>2. /\ E \in Seq(BatchType) /\ Len(E) = n
        /\ \A i \in 1 .. n : E[i].block = q[i].blockIdx /\ DataOf(q[i], E[i].frags)
    <3>1. E = [i \in 1 .. n |-> Batch(q[i], TRUE)]
      BY DEF Evictions
    <3> HIDE DEF q, n, m, L, last, E
    <3>2. QED
      <4>1. PICK d \in BOOLEAN : d = TRUE
        OBVIOUS
      <4>2. E = [i \in 1 .. n |-> Batch(q[i], d)]
        BY <3>1, <4>1, Zenon
      <4>3. QueueWF(q, last) /\ last \in Int /\ n \in 0 .. Len(q)
        BY <1>1, <1>2, <2>1
      <4> HIDE <3>1
      <4>4. QED
        BY <4>2, <4>3, BatchesOfQueue
  <2> HIDE DEF q, n, m, L, last, E
  <2>3. QED
    BY <1>1, <1>2, <2>1, <2>2, PullQueue DEF D
<1> DEFINE r == Ring(b)
<1>6. /\ r \in Seq(RxBlockType)
      /\ Len(r) = (Len(q) - n) + m
      /\ \A i \in 1 .. (Len(q) - n) + m :
             \/ /\ n < Len(q) /\ i <= Len(q) - n
                /\ r[i] = q[n + i] /\ n + i \in 1 .. Len(q)
             \/ /\ m > 0 /\ ~(i <= Len(q) - n)
                /\ i - (Len(q) - n) \in 1 .. m
                /\ r[i] = NewRxBlock((b - m) + (i - (Len(q) - n)))
  BY RingElements
<1>7. \A i \in 1 .. Len(q) : /\ q[i].blockIdx = (last - Len(q)) + i
                             /\ BlockWF(q[i])
                             /\ ~allPrimaryFragmentsCanBeRecovered(q[i])
                             /\ i > 1 => q[i].nForwarded = 0
  BY DEF IInv, QueueWF
<1> HIDE DEF q, n, m, L, last, E, D, r
<1>9. ASSUME NEW i \in 1 .. (Len(q) - n) + m
      PROVE  /\ r[i].blockIdx = (L - Len(r)) + i
             /\ BlockWF(r[i])
             /\ ~allPrimaryFragmentsCanBeRecovered(r[i])
             /\ i > 1 => r[i].nForwarded = 0
  <2>1. CASE n < Len(q) /\ r[i] = q[n + i] /\ n + i \in 1 .. Len(q)
    <3>1. r[i].blockIdx = (last - Len(q)) + (n + i)
      BY <2>1, <1>7
    <3>2. QED
      BY <2>1, <3>1, <1>1, <1>2, <1>6, <1>7
  <2>2. CASE /\ m > 0 /\ i - (Len(q) - n) \in 1 .. m
             /\ r[i] = NewRxBlock((b - m) + (i - (Len(q) - n)))
    <3>1. /\ r[i].blockIdx = (b - m) + (i - (Len(q) - n))
          /\ r[i].nForwarded = 0 /\ r[i].nPrimary = Unknown
          /\ r[i].fragment_map = {}
      BY <2>2 DEF NewRxBlock
    <3>2. r[i] \in RxBlockType
      BY <1>6, ElementOfSeq
    <3>3. BlockWF(r[i])
      BY <3>1, <3>2, FS_EmptySet DEF BlockWF
    <3>4. ~allPrimaryFragmentsCanBeRecovered(r[i])
      BY <3>1 DEF allPrimaryFragmentsCanBeRecovered
    <3>5. r[i].blockIdx = (L - Len(r)) + i
      <4>1. Len(r) = (Len(q) - n) + m /\ L = b
        BY <2>2, <1>1, <1>6
      <4>2. (b - m) + (i - (Len(q) - n)) = (b - ((Len(q) - n) + m)) + i
        <5>1. b \in Int /\ m \in Int /\ n \in Int /\ Len(q) \in Int /\ i \in Int
          BY <1>1, <1>2
        <5>2. QED
          BY <5>1
      <4>3. QED
        BY <3>1, <4>1, <4>2
    <3>6. QED
      BY <3>1, <3>3, <3>4, <3>5
  <2>3. QED
    BY <1>6, <2>1, <2>2
<1>10. QueueWF(r, L)
  BY <1>1, <1>6, <1>9 DEF QueueWF
<1>11. DataUpTo(D, L)
  <2>1. ASSUME NEW x \in D
        PROVE  x \in BlockIdx \X Nat /\ x[2] < NPrimary[x[1]] /\ x[1] <= L
    <3>1. x \in BlockIdx \X Nat /\ x[2] < NPrimary[x[1]] /\ x[1] <= last
      BY <1>3 DEF DataUpTo
    <3>2. x[1] \in Nat
      BY <3>1, LayoutAssumption
    <3>3. QED
      BY <1>1, <1>2, <3>1, <3>2
  <2>2. QED
    BY <2>1 DEF DataUpTo
<1>12. UpTo(D, r[1].blockIdx, r[1].nForwarded)
  <2>1. 1 \in 1 .. (Len(q) - n) + m
    BY <1>1, <1>2
  <2>2. /\ r[1].blockIdx \in Nat /\ r[1].nForwarded \in Nat
    BY <2>1, <1>9 DEF BlockWF, RxBlockType
  <2>3. \A x \in D : x[1] \in Nat /\ x[2] \in Nat /\ x[1] <= last
    BY <1>3, LayoutAssumption DEF DataUpTo
  <2>4. CASE n < Len(q) /\ r[1] = q[n + 1]
    <3>1. CASE UpTo(D, q[n + 1].blockIdx, 0)
      BY <2>2, <2>3, <2>4, <3>1 DEF UpTo, Before
    <3>2. CASE n = 0 /\ Emitted(E) = {}
      <4>1. D = delivered /\ r[1] = q[1] /\ q # <<>>
        BY <2>4, <3>2, <1>2 DEF D
      <4>2. QED
        BY <4>1 DEF IInv, QueueFollows, q
    <3>3. QED
      BY <3>1, <3>2, <2>4, <1>3
  <2>5. CASE m > 0 /\ ~(1 <= Len(q) - n) /\ r[1].blockIdx = (b - m) + 1
    BY <2>2, <2>3, <2>5, <1>1, <1>2 DEF UpTo, Before
  <2>6. QED
    <3>1. \/ n < Len(q) /\ r[1] = q[n + 1]
          \/ /\ m > 0 /\ ~(1 <= Len(q) - n)
             /\ r[1] = NewRxBlock((b - m) + (1 - (Len(q) - n)))
      BY <2>1, <1>6
    <3>2. ASSUME m > 0, ~(1 <= Len(q) - n),
                 r[1] = NewRxBlock((b - m) + (1 - (Len(q) - n)))
          PROVE  r[1].blockIdx = (b - m) + 1
      BY <3>2, <1>1, <1>2 DEF NewRxBlock
    <3>3. QED
      BY <2>4, <2>5, <3>1, <3>2
<1>13. Len(r) \in Nat \ {0}
  BY <1>1, <1>2, <1>6
<1>14. QED
  BY <1>1, <1>3, <1>10, <1>11, <1>12, <1>13 DEF L, E, D, r, QueueFollows

-----------------------------------------------------------------------------
(* The outcomes of process_with_rx_queue.                                  *)

\* Removing the n oldest blocks keeps the queue well formed.
LEMMA QueueSuffix ==
    ASSUME NEW last \in Nat, NEW q, QueueWF(q, last), NEW n \in 1 .. Len(q),
           NEW r \in Seq(RxBlockType), Len(r) = Len(q) - n,
           \A i \in 1 .. Len(r) : r[i] = q[n + i]
    PROVE  /\ QueueWF(r, last)
           /\ r # <<>> => r[1].blockIdx = q[n].blockIdx + 1
<1>1. Len(q) \in Nat /\ Len(q) <= RX_QUEUE_MAX_SIZE
      /\ n \in Nat /\ RX_QUEUE_MAX_SIZE \in Nat
  BY LenProperties, DecoderAssumption DEF QueueWF
<1>2. ASSUME NEW i \in 1 .. Len(r)
      PROVE  /\ r[i].blockIdx = (last - Len(r)) + i
             /\ BlockWF(r[i])
             /\ ~allPrimaryFragmentsCanBeRecovered(r[i])
             /\ i > 1 => r[i].nForwarded = 0
  <2>1. r[i] = q[n + i] /\ n + i \in 1 .. Len(q) /\ i \in Nat /\ n + i > 1
    BY <1>1
  <2>2. /\ q[n + i].blockIdx = (last - Len(q)) + (n + i)
        /\ BlockWF(q[n + i])
        /\ ~allPrimaryFragmentsCanBeRecovered(q[n + i])
        /\ n + i > 1 => q[n + i].nForwarded = 0
    BY <2>1 DEF QueueWF
  <2>3. (last - Len(r)) + i = (last - Len(q)) + (n + i)
    BY <1>1
  <2>4. QED
    BY <2>1, <2>2, <2>3
<1>3. QueueWF(r, last)
  <2>1. Len(r) <= RX_QUEUE_MAX_SIZE
    BY <1>1
  <2>2. QED
    BY <2>1, <1>2 DEF QueueWF
<1>4. ASSUME r # <<>>
      PROVE  r[1].blockIdx = q[n].blockIdx + 1
  <2>1. 1 \in 1 .. Len(r)
    BY <1>4, LenProperties, EmptySeq
  <2>2. r[1].blockIdx = (last - Len(r)) + 1
    BY <1>2, <2>1
  <2>3. q[n].blockIdx = (last - Len(q)) + n
    BY DEF QueueWF
  <2>4. (last - Len(r)) + 1 = ((last - Len(q)) + n) + 1
    BY <1>1
  <2>5. QED
    BY <2>2, <2>3, <2>4
<1>5. QED
  BY <1>3, <1>4

\* A queue without its oldest blocks is well formed and starts with the block
\* after the last one removed.
LEMMA DropOldest ==
    ASSUME NEW last \in Nat, NEW q, QueueWF(q, last), NEW n \in 1 .. Len(q),
           NEW r, r = SubSeq(q, n + 1, Len(q))
    PROVE  /\ QueueWF(r, last)
           /\ r # <<>> => r[1].blockIdx = q[n].blockIdx + 1
<1>1. q \in Seq(RxBlockType) /\ Len(q) \in Nat /\ n \in Nat
  BY LenProperties DEF QueueWF
<1>2. /\ r \in Seq(RxBlockType)
      /\ Len(r) = IF n + 1 <= Len(q) THEN (Len(q) - (n + 1)) + 1 ELSE 0
      /\ \A i \in 1 .. (Len(q) - (n + 1)) + 1 : r[i] = q[(n + 1) + i - 1]
  <2>1. n + 1 \in Int /\ Len(q) \in Int /\ \A i \in n + 1 .. Len(q) : q[i] \in RxBlockType
    BY <1>1, ElementOfSeq
  <2>2. QED
    BY <2>1, SubSeqProperties
<1>3. Len(r) = Len(q) - n
  BY <1>1, <1>2
<1>4. ASSUME NEW i \in 1 .. Len(r)
      PROVE  r[i] = q[n + i]
  <2>1. i \in 1 .. (Len(q) - (n + 1)) + 1 /\ (n + 1) + i - 1 = n + i
    BY <1>1, <1>3
  <2>2. QED
    BY <1>1, <1>2, <1>3, <2>1
<1>5. QED
  BY <1>2, <1>3, <1>4, QueueSuffix

\* So does replacing a block by one FEC still cannot complete.
LEMMA ReplaceBlock ==
    ASSUME NEW last \in Nat, NEW q, QueueWF(q, last), NEW i \in 1 .. Len(q),
           NEW new, BlockWF(new), new.blockIdx = q[i].blockIdx,
           ~allPrimaryFragmentsCanBeRecovered(new),
           i > 1 => new.nForwarded = 0,
           NEW r, r = [q EXCEPT ![i] = new]
    PROVE  /\ QueueWF(r, last)
           /\ r # <<>>
           /\ r[1] = IF i = 1 THEN new ELSE q[1]
<1>1. q \in Seq(RxBlockType) /\ Len(q) \in Nat /\ DOMAIN q = 1 .. Len(q)
      /\ new \in RxBlockType
  BY LenProperties DEF QueueWF, BlockWF
<1>2. r \in [1 .. Len(q) -> RxBlockType]
  BY <1>1, ElementOfSeq
<1>3. r \in Seq(RxBlockType) /\ Len(r) = Len(q)
  BY <1>1, <1>2, SeqDef, LenProperties
<1>4. \A j \in 1 .. Len(q) : r[j] = IF j = i THEN new ELSE q[j]
  BY <1>1
<1>5. QueueWF(r, last)
  BY <1>3, <1>4 DEF QueueWF
<1>6. QED
  BY <1>1, <1>3, <1>4, <1>5

\* One pull of a block whose first n fragments have been sent afterwards.
LEMMA SingleBatch ==
    ASSUME NEW last \in Nat, NEW D, DataUpTo(D, last),
           NEW B \in BlockIdx, B <= last, NEW a \in Nat, UpTo(D, B, a),
           NEW n \in Nat, a <= n,
           NEW F, \A f \in F : f \in a .. n - 1 /\ f < NPrimary[B],
           NEW s, s = << [block |-> B, frags |-> F] >>
    PROVE  /\ s \in Seq(BatchType)
           /\ Ordered(D, s)
           /\ DataUpTo(D \cup Emitted(s), last)
           /\ UpTo(D \cup Emitted(s), B, n)
<1>1. [block |-> B, frags |-> F] \in BatchType /\ B \in Nat
  BY LayoutAssumption DEF BatchType
<1>2. s \in Seq(BatchType) /\ Len(s) = 1 /\ s[1] = [block |-> B, frags |-> F]
  BY <1>1
<1>3. ASSUME NEW y \in Emitted(s)
      PROVE  y[1] = B /\ y[2] \in F /\ y \in BlockIdx \X Nat
             /\ y[2] \in Nat /\ a <= y[2] /\ y[2] < n /\ y[2] < NPrimary[B]
  <2>1. PICK i \in 1 .. Len(s) : \E f \in s[i].frags : y = <<s[i].block, f>>
    BY <1>2, EmittedElements
  <2>2. i = 1
    BY <1>2
  <2>3. PICK f \in F : y = <<B, f>>
    BY <1>2, <2>1, <2>2
  <2>4. f \in Nat /\ a <= f /\ f < n /\ f < NPrimary[B]
    BY <2>3
  <2>5. QED
    BY <2>3, <2>4
<1>4. \A x \in D : x[1] \in Nat /\ x[2] \in Nat
  BY LayoutAssumption DEF DataUpTo
<1>5. ASSUME NEW x \in D
      PROVE  /\ \A y \in Emitted(s) : Before(x, y)
             /\ Before(x, <<B, n>>)
  <2>1. Before(x, <<B, a>>)
    BY DEF UpTo
  <2>2. QED
    BY <1>1, <1>3, <1>4, <2>1 DEF Before
<1>6. Ordered(D, s)
  <2>1. DOMAIN s = 1 .. 1
    BY <1>2
  <2>2. \A i, j \in DOMAIN s : ~(i < j)
    BY <2>1
  <2>3. QED
    BY <1>5, <2>2 DEF Ordered
<1>7. DataUpTo(D \cup Emitted(s), last)
  BY <1>3 DEF DataUpTo
<1>8. UpTo(D \cup Emitted(s), B, n)
  BY <1>3, <1>5 DEF UpTo, Before
<1>9. QED
  BY <1>2, <1>6, <1>7, <1>8

\* What is up to a fragment of block B is up to every fragment of block B + 1.
LEMMA NextBlock ==
    ASSUME NEW last \in Nat, NEW D, DataUpTo(D, last), NEW B \in Nat,
           NEW a \in Nat, UpTo(D, B, a), NEW c \in Nat
    PROVE  UpTo(D, B + 1, c)
<1>1. \A x \in D : x[1] \in Nat /\ x[2] \in Nat
  BY LayoutAssumption DEF DataUpTo
<1>2. QED
  BY <1>1 DEF UpTo, Before

\* The number of blocks rxQueuePopFront counts as lost.
LEMMA NLostType ==
    ASSUME NEW q, NEW n \in Nat, NEW d \in BOOLEAN
    PROVE  NLost(q, n, d) \in Nat
<1> DEFINE L == {i \in 1 .. n :
                    ~allPrimaryFragmentsHaveBeenForwarded(Pulled(q[i], d))}
<1>1. IsFiniteSet(1 .. n)
  BY FS_Interval
<1>2. L \subseteq 1 .. n
  OBVIOUS
<1> HIDE DEF L
<1>3. Cardinality(L) \in Nat
  BY <1>1, <1>2, FS_Subset, FS_CardinalityType
<1>4. QED
  BY <1>3 DEF NLost, L

\* A call that leaves a well formed queue, and sends what comes next, keeps the
\* invariant and the order.
LEMMA StepLemma ==
    ASSUME IInv, NEW b \in BlockIdx, ~AlreadyProcessed(b),
           NEW queue, NEW batches \in Seq(BatchType), NEW nFlushed \in Nat,
           NEW recovered, IsFiniteSet(recovered),
           Step(b, queue, batches, nFlushed, recovered),
           QueueWF(queue, NewLast(b)),
           Ordered(delivered \cup Emitted(Evictions(b)), batches),
           DataUpTo((delivered \cup Emitted(Evictions(b))) \cup Emitted(batches),
                    NewLast(b)),
           QueueFollows(queue,
                (delivered \cup Emitted(Evictions(b))) \cup Emitted(batches))
    PROVE  IInv' /\ Ordered(delivered, out')
<1>1. /\ NewLast(b) \in Nat /\ Evictions(b) \in Seq(BatchType)
      /\ Ordered(delivered, Evictions(b))
  BY RingFacts
<1>2. /\ NNewBlocks(b) \in Nat /\ NSkipped(b) \in Nat /\ NEvicted(b) \in Nat
  BY RingNumbers
<1>3. /\ rx_queue' = queue /\ last_known_block' = NewLast(b)
      /\ out' = Evictions(b) \o batches
      /\ delivered' = delivered \cup Emitted(out')
  BY DEF Step, NewLast
<1>4. /\ out' \in Seq(BatchType)
      /\ Ordered(delivered, out')
      /\ Emitted(out') = Emitted(Evictions(b)) \cup Emitted(batches)
  BY <1>1, <1>3, OrderedConcat, EmittedConcat, ConcatProperties
<1>5. delivered' = (delivered \cup Emitted(Evictions(b))) \cup Emitted(batches)
  BY <1>3, <1>4
<1>6. delivered' \subseteq Nat \X Nat
  BY <1>5, LayoutAssumption DEF DataUpTo
<1>7. stats' \in [total: Nat, lost: Nat, recovered: Nat, fragments: Nat]
  <2> DEFINE evicted == NLost(rx_queue, NEvicted(b), TRUE)
             flushed == NLost(Ring(b), nFlushed, m_forward_gapped_fragments)
             lost == NSkipped(b) + evicted + flushed
             c == IF recovered = {} THEN 0 ELSE 1
             d == Cardinality(recovered)
             m == NNewBlocks(b)
  <2>1. PICK t \in BOOLEAN : t = TRUE
    OBVIOUS
  <2>2. NLost(rx_queue, NEvicted(b), t) \in Nat
    BY <1>2, NLostType
  <2>3. evicted \in Nat
    BY <2>1, <2>2, Zenon
  <2>4. flushed \in Nat
    BY NLostType, DecoderAssumption
  <2>5. d \in Nat /\ c \in Nat /\ m \in Nat
    BY <1>2, FS_CardinalityType
  <2>6. stats \in [total: Nat, lost: Nat, recovered: Nat, fragments: Nat]
    BY DEF IInv, TypeOK
  <2>7. stats' = [stats EXCEPT
                     !.total = @ + m, !.lost = @ + lost,
                     !.recovered = @ + c, !.fragments = @ + d]
    BY DEF Step
  <2> HIDE DEF evicted, flushed, c, d, m
  <2>8. lost \in Nat
    BY <1>2, <2>3, <2>4
  <2> HIDE DEF lost
  <2>9. stats' = [total |-> stats.total + m, lost |-> stats.lost + lost,
                  recovered |-> stats.recovered + c,
                  fragments |-> stats.fragments + d]
    BY <2>6, <2>7
  <2>10. QED
    BY <2>5, <2>6, <2>8, <2>9
<1>8. session' \in [first: Nat \cup {NoBlock}, lostBefore: Nat]
  BY LayoutAssumption DEF Step, IInv, TypeOK
<1>9. TypeOK'
  BY <1>1, <1>3, <1>4, <1>6, <1>7, <1>8 DEF TypeOK, QueueWF, BatchType
<1>10. QED
  BY <1>3, <1>4, <1>5, <1>9 DEF IInv

\* The block a packet is accepted into, with the new fragment.
LEMMA AcceptedBlock ==
    ASSUME IInv, NEW b \in BlockIdx, NEW f \in Fragments(b), NEW i,
           Accepted(b, f, i)
    PROVE  LET block == WithFragment(b, f, i)
           IN  /\ ~AlreadyProcessed(b)
               /\ i \in 1 .. Len(Ring(b)) /\ Ring(b)[i].blockIdx = b
               /\ b \in Nat /\ b <= NewLast(b)
               /\ BlockWF(block)
               /\ block.blockIdx = b
               /\ block.nPrimary = NPrimary[b] /\ block.nPrimary \in Nat
               /\ block.nForwarded = Ring(b)[i].nForwarded
               /\ block.nForwarded \in Nat
<1>1. ~AlreadyProcessed(b) /\ i \in DOMAIN Ring(b) /\ Ring(b)[i].blockIdx = b
  BY DEF Accepted
<1>2. QueueWF(Ring(b), NewLast(b)) /\ NewLast(b) \in Nat
  BY <1>1, RingFacts
<1>3. Ring(b) \in Seq(RxBlockType) /\ Len(Ring(b)) \in Nat
  BY <1>2, LenProperties DEF QueueWF
<1>4. i \in 1 .. Len(Ring(b))
  BY <1>1, <1>3, LenProperties
<1>5. BlockWF(Ring(b)[i]) /\ Ring(b)[i].blockIdx = (NewLast(b) - Len(Ring(b))) + i
  BY <1>2, <1>4 DEF QueueWF
<1>6. b \in Nat /\ f \in Nat /\ NPrimary[b] \in Nat /\ NPrimary[b] # Unknown
  BY LayoutAssumption DEF Fragments, Unknown
<1>7. b <= NewLast(b)
  BY <1>1, <1>2, <1>3, <1>4, <1>5, <1>6
<1>8. /\ BlockWF(WithFragment(b, f, i))
      /\ WithFragment(b, f, i).nPrimary = NPrimary[b]
      /\ WithFragment(b, f, i).blockIdx = b
      /\ WithFragment(b, f, i).nForwarded = Ring(b)[i].nForwarded
  BY <1>1, <1>5, <1>6, AddFragmentWF DEF WithFragment
<1>9. WithFragment(b, f, i).nForwarded \in Nat
  BY <1>8 DEF BlockWF, RxBlockType
<1>10. QED
  BY <1>1, <1>4, <1>6, <1>7, <1>8, <1>9

\* Rebuilding the missing data keeps a block well formed.
LEMMA ReconstructWF ==
    ASSUME NEW block, BlockWF(block), block.nPrimary \in Nat
    PROVE  LET new == reconstructAllMissingData(block)
           IN  /\ BlockWF(new)
               /\ new.blockIdx = block.blockIdx
               /\ new.nForwarded = block.nForwarded
               /\ new.nPrimary = block.nPrimary
               /\ IsFiniteSet(MissingPrimary(block))
<1> DEFINE new == reconstructAllMissingData(block)
           M == MissingPrimary(block)
<1>1. block \in RxBlockType /\ block.nPrimary # Unknown
  BY DEF BlockWF, Unknown
<1>2. M \subseteq 0 .. block.nPrimary - 1 /\ M \subseteq Nat
  BY DEF MissingPrimary
<1>3. IsFiniteSet(0 .. block.nPrimary - 1)
  BY FS_Interval
<1>4. IsFiniteSet(M)
  BY <1>2, <1>3, FS_Subset
<1>5. new = [block EXCEPT !.fragment_map = @ \cup M]
  BY DEF reconstructAllMissingData
<1> HIDE DEF new, M
<1>6. /\ new \in RxBlockType
      /\ new.blockIdx = block.blockIdx /\ new.nForwarded = block.nForwarded
      /\ new.nPrimary = block.nPrimary
      /\ new.fragment_map = block.fragment_map \cup M
  BY <1>1, <1>2, <1>5 DEF RxBlockType
<1>7. IsFiniteSet(new.fragment_map)
  BY <1>4, <1>6, FS_Union DEF BlockWF
<1>8. BlockWF(new)
  BY <1>1, <1>6, <1>7 DEF BlockWF
<1>9. QED
  BY <1>4, <1>6, <1>8 DEF new, M

\* The batch of a pull that stops at the first gap.
LEMMA PullBatch ==
    ASSUME NEW last \in Nat, NEW D, DataUpTo(D, last),
           NEW block, BlockWF(block), block.blockIdx \in BlockIdx,
           block.blockIdx <= last, UpTo(D, block.blockIdx, block.nForwarded),
           NEW s, s = <<Batch(block, FALSE)>>
    PROVE  /\ s \in Seq(BatchType)
           /\ Ordered(D, s)
           /\ DataUpTo(D \cup Emitted(s), last)
           /\ UpTo(D \cup Emitted(s), block.blockIdx,
                   Pulled(block, FALSE).nForwarded)
           /\ Pulled(block, FALSE).nForwarded \in Nat
           /\ BlockWF(Pulled(block, FALSE))
           /\ Pulled(block, FALSE).blockIdx = block.blockIdx
           /\ Pulled(block, FALSE).nPrimary = block.nPrimary
           /\ Pulled(block, FALSE).fragment_map = block.fragment_map
<1> DEFINE n == Pulled(block, FALSE).nForwarded
           F == Pull(block, FALSE)
           a == block.nForwarded
           B == block.blockIdx
<1>1. n \in Nat /\ a <= n /\ F = a .. n - 1 /\ BlockWF(Pulled(block, FALSE))
  BY PullExtendsPrefix
<1>2. a \in Nat
  BY DEF BlockWF, RxBlockType
<1>3. \A f \in F : f < NPrimary[B]
  BY PullReturns
<1>4. s = << [block |-> B, frags |-> F] >>
  BY Zenon DEF Batch
<1>5. block \in RxBlockType
  BY DEF BlockWF
<1>6. /\ Pulled(block, FALSE).blockIdx = block.blockIdx
      /\ Pulled(block, FALSE).nPrimary = block.nPrimary
      /\ Pulled(block, FALSE).fragment_map = block.fragment_map
  BY <1>5 DEF Pulled, RxBlockType
<1> HIDE DEF n, F, a, B
<1>7. /\ s \in Seq(BatchType)
      /\ Ordered(D, s)
      /\ DataUpTo(D \cup Emitted(s), last)
      /\ UpTo(D \cup Emitted(s), B, n)
  <2>1. \A f \in F : f \in a .. n - 1 /\ f < NPrimary[B]
    BY <1>1, <1>3
  <2>2. B \in BlockIdx /\ B <= last /\ UpTo(D, B, a)
    BY DEF B, a
  <2> HIDE <1>4
  <2>3. QED
    BY <1>1, <1>2, <1>4, <2>1, <2>2, SingleBatch
<1>8. QED
  BY <1>1, <1>6, <1>7 DEF n, B

\* The element of a sequence of one has the type of its elements.
LEMMA SingletonElement ==
    ASSUME NEW S, NEW x, <<x>> \in Seq(S)
    PROVE  x \in S
<1>1. <<x>>[1] = x /\ 1 \in 1 .. Len(<<x>>)
  OBVIOUS
<1>2. QED
  BY <1>1, ElementOfSeq

\* Two sequences of one element make a pair.
LEMMA ConcatPair ==
    ASSUME NEW S, NEW x \in S, NEW y \in S
    PROVE  <<x>> \o <<y>> = <<x, y>>
<1> DEFINE s == <<x>>
           t == <<y>>
           u == <<x>> \o <<y>>
           v == <<x, y>>
<1>1. s \in Seq(S) /\ t \in Seq(S) /\ Len(s) = 1 /\ Len(t) = 1 /\ s[1] = x /\ t[1] = y
  OBVIOUS
<1>2. v \in Seq(S) /\ Len(v) = 2 /\ v[1] = x /\ v[2] = y
  OBVIOUS
<1>3. u = s \o t
  OBVIOUS
<1> HIDE DEF s, t, u, v
<1>4. u \in Seq(S) /\ Len(u) = 2 /\ u[1] = x /\ u[2] = y
  BY <1>1, <1>3, ConcatProperties
<1>5. \A i \in 1 .. Len(u) : u[i] = v[i]
  BY <1>2, <1>4
<1>6. u = v
  BY <1>2, <1>4, <1>5, SeqEqual
<1>7. QED
  BY <1>6 DEF u, v

\* A call that forwards some data of the oldest block keeps the invariant.
LEMMA ForwardFrontStep ==
    ASSUME IInv, NEW b \in BlockIdx, NEW f \in Fragments(b), ForwardFront(b, f)
    PROVE  IInv' /\ Ordered(delivered, out')
<1> DEFINE block == WithFragment(b, f, 1)
           pulled == Pulled(block, FALSE)
           D == delivered \cup Emitted(Evictions(b))
           s == <<Batch(block, FALSE)>>
           r == Ring(b)
           new == [r EXCEPT ![1] = pulled]
           L == NewLast(b)
<1>1. /\ Accepted(b, f, 1)
      /\ ~allPrimaryFragmentsCanBeRecovered(block)
      /\ Step(b, new, s, 0, {})
  BY DEF ForwardFront
<1>2. /\ ~AlreadyProcessed(b)
      /\ 1 \in 1 .. Len(r) /\ r[1].blockIdx = b
      /\ b \in Nat /\ b <= L
      /\ BlockWF(block) /\ block.blockIdx = b
      /\ block.nForwarded = r[1].nForwarded
  BY <1>1, AcceptedBlock
<1>3. /\ L \in Nat /\ QueueWF(r, L) /\ DataUpTo(D, L) /\ QueueFollows(r, D)
  BY <1>2, RingFacts
<1> HIDE DEF block, pulled, D, s, r, new, L
<1>4. UpTo(D, block.blockIdx, block.nForwarded)
  <2>1. r # <<>>
    BY <1>2
  <2>2. QED
    BY <1>2, <1>3, <2>1 DEF QueueFollows
<1>5. /\ s \in Seq(BatchType) /\ Ordered(D, s) /\ DataUpTo(D \cup Emitted(s), L)
      /\ UpTo(D \cup Emitted(s), b, pulled.nForwarded)
      /\ BlockWF(pulled) /\ pulled.blockIdx = b
      /\ pulled.nPrimary = block.nPrimary
      /\ pulled.fragment_map = block.fragment_map
  <2>1. block.blockIdx \in BlockIdx /\ block.blockIdx <= L
    BY <1>2
  <2>2. /\ s \in Seq(BatchType) /\ Ordered(D, s) /\ DataUpTo(D \cup Emitted(s), L)
        /\ UpTo(D \cup Emitted(s), block.blockIdx, pulled.nForwarded)
        /\ BlockWF(pulled) /\ pulled.blockIdx = block.blockIdx
        /\ pulled.nPrimary = block.nPrimary
        /\ pulled.fragment_map = block.fragment_map
    BY <1>2, <1>3, <1>4, <2>1, PullBatch, Zenon DEF s, pulled
  <2>3. QED
    BY <1>2, <2>2
<1>6. ~allPrimaryFragmentsCanBeRecovered(pulled)
  BY <1>1, <1>5 DEF allPrimaryFragmentsCanBeRecovered, getNAvailableFragments
<1>7. QueueWF(new, L) /\ new # <<>> /\ new[1] = pulled
  BY <1>2, <1>3, <1>5, <1>6, ReplaceBlock DEF new
<1>8. QueueFollows(new, D \cup Emitted(s))
  BY <1>5, <1>7 DEF QueueFollows
<1>9. QED
  BY <1>1, <1>2, <1>5, <1>7, <1>8, StepLemma, FS_EmptySet DEF D, L

\* The batches sent when the oldest block leaves end before the next block.
LEMMA RemoveFrontStep ==
    ASSUME IInv, NEW b \in BlockIdx, NEW f \in Fragments(b), Accepted(b, f, 1),
           NEW s \in Seq(BatchType), NEW recovered, IsFiniteSet(recovered),
           Step(b, Tail(Ring(b)), s, 0, recovered),
           Ordered(delivered \cup Emitted(Evictions(b)), s),
           DataUpTo((delivered \cup Emitted(Evictions(b))) \cup Emitted(s),
                    NewLast(b)),
           NEW n \in Nat,
           UpTo((delivered \cup Emitted(Evictions(b))) \cup Emitted(s), b, n)
    PROVE  IInv' /\ Ordered(delivered, out')
<1> DEFINE D == (delivered \cup Emitted(Evictions(b))) \cup Emitted(s)
           r == Ring(b)
           L == NewLast(b)
           new == Tail(r)
<1>1. /\ ~AlreadyProcessed(b)
      /\ 1 \in 1 .. Len(r) /\ r[1].blockIdx = b /\ b \in Nat
  BY AcceptedBlock
<1>2. L \in Nat /\ QueueWF(r, L)
  BY <1>1, RingFacts
<1>3. r \in Seq(RxBlockType) /\ r # <<>> /\ Len(r) \in Nat
  <2>1. r \in Seq(RxBlockType)
    BY <1>2 DEF QueueWF
  <2>2. QED
    BY <1>1, <2>1, LenProperties
<1> HIDE DEF D, r, L
<1>4. /\ new \in Seq(RxBlockType) /\ Len(new) = Len(r) - 1
      /\ \A i \in 1 .. Len(new) : new[i] = r[1 + i]
  <2>1. /\ new \in Seq(RxBlockType) /\ Len(new) = Len(r) - 1
        /\ \A i \in 1 .. Len(new) : new[i] = r[i + 1]
    BY <1>3, HeadTailProperties
  <2>2. \A i \in 1 .. Len(new) : i + 1 = 1 + i
    BY <2>1, LenProperties
  <2>3. QED
    BY <2>1, <2>2
<1> HIDE DEF new
<1>5. QueueWF(new, L) /\ (new # <<>> => new[1].blockIdx = b + 1)
  <2>1. PICK k \in 1 .. Len(r) : k = 1
    BY <1>1
  <2>2. /\ Len(new) = Len(r) - k
        /\ \A i \in 1 .. Len(new) : new[i] = r[k + i]
    BY <1>4, <2>1
  <2>3. QueueWF(new, L) /\ (new # <<>> => new[1].blockIdx = r[k].blockIdx + 1)
    BY <1>2, <1>4, <2>2, QueueSuffix
  <2>4. QED
    BY <1>1, <2>1, <2>3
<1>6. QueueFollows(new, D)
  <2>1. ASSUME new # <<>>
        PROVE  UpTo(D, new[1].blockIdx, new[1].nForwarded)
    <3>1. 1 \in 1 .. Len(new)
      BY <1>4, <2>1, EmptySeq, LenProperties
    <3>2. new[1] \in RxBlockType
      BY <1>4, <3>1, ElementOfSeq
    <3>3. new[1].nForwarded \in Nat
      BY <3>2 DEF RxBlockType
    <3>4. QED
      BY <1>1, <1>2, <1>5, <2>1, <3>3, NextBlock DEF D, L
  <2>2. QED
    BY <2>1 DEF QueueFollows
<1>7. QED
  BY <1>1, <1>5, <1>6, StepLemma DEF D, L, r, new

\* So does one that completes the oldest block without FEC,
LEMMA CompleteFrontStep ==
    ASSUME IInv, NEW b \in BlockIdx, NEW f \in Fragments(b), CompleteFront(b, f)
    PROVE  IInv' /\ Ordered(delivered, out')
<1> DEFINE block == WithFragment(b, f, 1)
           D == delivered \cup Emitted(Evictions(b))
           s == <<Batch(block, FALSE)>>
           r == Ring(b)
           L == NewLast(b)
<1>1. Accepted(b, f, 1) /\ Step(b, Tail(r), s, 0, {})
  BY DEF CompleteFront
<1>2. /\ ~AlreadyProcessed(b)
      /\ 1 \in 1 .. Len(r) /\ r[1].blockIdx = b
      /\ b \in Nat /\ b <= L
      /\ BlockWF(block) /\ block.blockIdx = b
      /\ block.nForwarded = r[1].nForwarded
  BY <1>1, AcceptedBlock
<1>3. /\ L \in Nat /\ DataUpTo(D, L) /\ QueueFollows(r, D)
  BY <1>2, RingFacts
<1> HIDE DEF block, D, s, r, L
<1>4. UpTo(D, block.blockIdx, block.nForwarded)
  <2>1. r # <<>>
    BY <1>2
  <2>2. QED
    BY <1>2, <1>3, <2>1 DEF QueueFollows
<1>5. /\ s \in Seq(BatchType) /\ Ordered(D, s) /\ DataUpTo(D \cup Emitted(s), L)
      /\ UpTo(D \cup Emitted(s), b, Pulled(block, FALSE).nForwarded)
      /\ Pulled(block, FALSE).nForwarded \in Nat
  <2>1. block.blockIdx \in BlockIdx /\ block.blockIdx <= L
    BY <1>2
  <2>2. /\ s \in Seq(BatchType) /\ Ordered(D, s) /\ DataUpTo(D \cup Emitted(s), L)
        /\ UpTo(D \cup Emitted(s), block.blockIdx, Pulled(block, FALSE).nForwarded)
        /\ Pulled(block, FALSE).nForwarded \in Nat
    BY <1>2, <1>3, <1>4, <2>1, PullBatch, Zenon DEF s
  <2>3. QED
    BY <1>2, <2>2
<1>6. QED
  BY <1>1, <1>5, RemoveFrontStep, FS_EmptySet DEF D, L, r

\* one that completes it with FEC,
LEMMA RecoverFrontStep ==
    ASSUME IInv, NEW b \in BlockIdx, NEW f \in Fragments(b), RecoverFront(b, f)
    PROVE  IInv' /\ Ordered(delivered, out')
<1> DEFINE block == WithFragment(b, f, 1)
           pulled == Pulled(block, FALSE)
           rebuilt == reconstructAllMissingData(pulled)
           done == Pulled(rebuilt, FALSE)
           D == delivered \cup Emitted(Evictions(b))
           s == <<Batch(block, FALSE)>>
           t == <<Batch(rebuilt, FALSE)>>
           r == Ring(b)
           L == NewLast(b)
           M == MissingPrimary(block)
<1> DEFINE x == Batch(block, FALSE)
           y == Batch(rebuilt, FALSE)
<1>1. Accepted(b, f, 1) /\ Step(b, Tail(r), <<x, y>>, 0, M)
  BY Zenon DEF RecoverFront
<1>s. s = <<x>> /\ t = <<y>>
  OBVIOUS
<1> HIDE DEF x, y
<1>2. /\ ~AlreadyProcessed(b)
      /\ 1 \in 1 .. Len(r) /\ r[1].blockIdx = b
      /\ b \in Nat /\ b <= L
      /\ BlockWF(block) /\ block.blockIdx = b /\ block.nPrimary \in Nat
      /\ block.nForwarded = r[1].nForwarded
  BY <1>1, AcceptedBlock
<1>3. /\ L \in Nat /\ DataUpTo(D, L) /\ QueueFollows(r, D)
  BY <1>2, RingFacts
<1> HIDE DEF block, pulled, rebuilt, done, D, s, t, r, L
<1>4. UpTo(D, block.blockIdx, block.nForwarded)
  <2>1. r # <<>>
    BY <1>2
  <2>2. QED
    BY <1>2, <1>3, <2>1 DEF QueueFollows
<1>5. /\ s \in Seq(BatchType) /\ Ordered(D, s) /\ DataUpTo(D \cup Emitted(s), L)
      /\ UpTo(D \cup Emitted(s), block.blockIdx, pulled.nForwarded)
      /\ BlockWF(pulled) /\ pulled.blockIdx = block.blockIdx
      /\ pulled.nPrimary = block.nPrimary
  <2>1. /\ block.blockIdx \in BlockIdx /\ block.blockIdx <= L
        /\ BlockWF(block) /\ L \in Nat /\ DataUpTo(D, L)
    BY <1>2, <1>3
  <2>2. QED
    BY <1>4, <2>1, PullBatch, Zenon DEF s, pulled
<1>6. /\ BlockWF(rebuilt) /\ rebuilt.blockIdx = b
      /\ rebuilt.nForwarded = pulled.nForwarded
      /\ IsFiniteSet(M)
  BY <1>2, <1>5, ReconstructWF DEF rebuilt
<1>7. /\ t \in Seq(BatchType) /\ Ordered(D \cup Emitted(s), t)
      /\ DataUpTo((D \cup Emitted(s)) \cup Emitted(t), L)
      /\ UpTo((D \cup Emitted(s)) \cup Emitted(t), rebuilt.blockIdx, done.nForwarded)
      /\ done.nForwarded \in Nat
  <2>1. /\ rebuilt.blockIdx \in BlockIdx /\ rebuilt.blockIdx <= L
        /\ UpTo(D \cup Emitted(s), rebuilt.blockIdx, rebuilt.nForwarded)
    BY <1>2, <1>5, <1>6
  <2>2. QED
    BY <1>3, <1>5, <1>6, <2>1, PullBatch, Zenon DEF t, done
<1>8. /\ s \o t \in Seq(BatchType) /\ Ordered(D, s \o t)
      /\ (D \cup Emitted(s)) \cup Emitted(t) = D \cup Emitted(s \o t)
  BY <1>5, <1>7, OrderedConcat, EmittedConcat, ConcatProperties
<1>9. UpTo(D \cup Emitted(s \o t), b, done.nForwarded)
  BY <1>6, <1>7, <1>8
<1> DEFINE u == s \o t
<1>u. u = <<x, y>>
  <2>1. x \in BatchType /\ y \in BatchType
    BY <1>s, <1>5, <1>7, SingletonElement
  <2>2. QED
    BY <1>s, <2>1, ConcatPair
<1> HIDE DEF M, u
<1>10. /\ u \in Seq(BatchType) /\ Ordered(D, u) /\ DataUpTo(D \cup Emitted(u), L)
       /\ UpTo(D \cup Emitted(u), b, done.nForwarded)
       /\ Step(b, Tail(r), u, 0, M)
  <2>1. Step(b, Tail(r), u, 0, M)
    BY <1>1, <1>u
  <2>2. QED
    BY <1>7, <1>8, <1>9, <2>1 DEF u
<1>11. QED
  BY <1>1, <1>6, <1>7, <1>10, RemoveFrontStep DEF D, L, r

\* one that only stores a fragment of a later block,
LEMMA StoreBehindStep ==
    ASSUME IInv, NEW b \in BlockIdx, NEW f \in Fragments(b),
           NEW i \in 2 .. RX_QUEUE_MAX_SIZE, StoreBehind(b, f, i)
    PROVE  IInv' /\ Ordered(delivered, out')
<1> DEFINE block == WithFragment(b, f, i)
           D == delivered \cup Emitted(Evictions(b))
           r == Ring(b)
           new == [r EXCEPT ![i] = block]
           L == NewLast(b)
           none == <<>>
<1>1. /\ Accepted(b, f, i)
      /\ ~allPrimaryFragmentsCanBeRecovered(block)
      /\ Step(b, new, none, 0, {})
  BY DEF StoreBehind
<1>2. /\ ~AlreadyProcessed(b)
      /\ i \in 1 .. Len(r) /\ r[i].blockIdx = b
      /\ BlockWF(block) /\ block.blockIdx = b
      /\ block.nForwarded = r[i].nForwarded
  BY <1>1, AcceptedBlock
<1>3. /\ L \in Nat /\ QueueWF(r, L) /\ DataUpTo(D, L) /\ QueueFollows(r, D)
  BY <1>2, RingFacts
<1>4. none \in Seq(BatchType) /\ Emitted(none) = {} /\ DOMAIN none = {}
  BY DEF Emitted
<1> HIDE DEF block, D, r, new, L, none
<1>5. i # 1 /\ i > 1
  BY DecoderAssumption
<1>6. block.nForwarded = 0
  BY <1>2, <1>3, <1>5 DEF QueueWF
<1>7. QueueWF(new, L) /\ new # <<>> /\ new[1] = r[1]
  BY <1>1, <1>2, <1>3, <1>5, <1>6, ReplaceBlock DEF new
<1>8. QueueFollows(new, D \cup Emitted(none))
  <2>1. r # <<>>
    BY <1>2, <1>3
  <2>2. QED
    BY <1>3, <1>4, <1>7, <2>1 DEF QueueFollows
<1>9. Ordered(D, none) /\ DataUpTo(D \cup Emitted(none), L)
  BY <1>3, <1>4 DEF Ordered, DataUpTo
<1>10. QED
  <2>1. 0 \in Nat /\ IsFiniteSet({})
    BY FS_EmptySet
  <2>2. /\ ~AlreadyProcessed(b) /\ none \in Seq(BatchType)
        /\ Step(b, new, none, 0, {})
    BY <1>1, <1>2, <1>4
  <2>3. QED
    BY <1>7, <1>8, <1>9, <2>1, <2>2, StepLemma, Zenon DEF D, L

\* one that completes a later block and flushes the queue up to it,
LEMMA FlushStep ==
    ASSUME IInv, NEW b \in BlockIdx, NEW f \in Fragments(b),
           NEW i \in 2 .. RX_QUEUE_MAX_SIZE, Flush(b, f, i)
    PROVE  IInv' /\ Ordered(delivered, out')
<1> DEFINE block == WithFragment(b, f, i)
           rebuilt == reconstructAllMissingData(block)
           done == Pulled(rebuilt, FALSE)
           D == delivered \cup Emitted(Evictions(b))
           r == Ring(b)
           n == i - 1
           s == [j \in 1 .. n |-> Batch(r[j], m_forward_gapped_fragments)]
           t == <<Batch(rebuilt, FALSE)>>
           u == s \o t
           new == SubSeq(r, i + 1, Len(r))
           L == NewLast(b)
           M == MissingPrimary(block)
<1>1. Accepted(b, f, i) /\ Step(b, new, Append(s, Batch(rebuilt, FALSE)), n, M)
  BY Zenon DEF Flush
<1>2. /\ ~AlreadyProcessed(b)
      /\ i \in 1 .. Len(r) /\ r[i].blockIdx = b
      /\ b \in Nat /\ b <= L
      /\ BlockWF(block) /\ block.blockIdx = b /\ block.nPrimary \in Nat
      /\ block.nForwarded = r[i].nForwarded
  BY <1>1, AcceptedBlock
<1>3. /\ L \in Nat /\ L \in Int /\ QueueWF(r, L) /\ DataUpTo(D, L)
      /\ QueueFollows(r, D) /\ Len(r) \in Nat
  BY <1>2, RingFacts
<1>4. n \in Nat /\ n \in 0 .. Len(r) /\ n < Len(r) /\ n + 1 = i /\ n # 0 /\ i > 1
  BY <1>2, <1>3, DecoderAssumption
<1> HIDE DEF block, rebuilt, done, D, r, n, t, u, new, L, M
<1>5. s = [j \in 1 .. n |-> Batch(r[j], m_forward_gapped_fragments)]
  OBVIOUS
<1> HIDE DEF s
<1>6. /\ s \in Seq(BatchType) /\ Len(s) = n
      /\ \A j \in 1 .. n : s[j].block = r[j].blockIdx /\ DataOf(r[j], s[j].frags)
  <2>1. PICK d \in BOOLEAN : d = m_forward_gapped_fragments
    BY DecoderAssumption
  <2>2. s = [j \in 1 .. n |-> Batch(r[j], d)]
    BY <1>5, <2>1, Zenon
  <2> HIDE <1>5
  <2>3. QueueWF(r, L) /\ L \in Int /\ n \in 0 .. Len(r)
    BY <1>3, <1>4
  <2>4. QED
    BY <2>2, <2>3, BatchesOfQueue
<1>7. /\ Ordered(D, s) /\ DataUpTo(D \cup Emitted(s), L)
      /\ UpTo(D \cup Emitted(s), r[n + 1].blockIdx, 0)
  <2> HIDE <1>5
  <2>1. QED
    BY <1>3, <1>4, <1>6, PullQueue
<1>8. block.nForwarded = 0
  BY <1>2, <1>3, <1>4 DEF QueueWF
<1>9. /\ BlockWF(rebuilt) /\ rebuilt.blockIdx = b /\ rebuilt.nForwarded = 0
      /\ IsFiniteSet(M)
  BY <1>2, <1>8, ReconstructWF DEF rebuilt, M
<1>10. /\ t \in Seq(BatchType) /\ Ordered(D \cup Emitted(s), t)
       /\ DataUpTo((D \cup Emitted(s)) \cup Emitted(t), L)
       /\ UpTo((D \cup Emitted(s)) \cup Emitted(t), rebuilt.blockIdx, done.nForwarded)
       /\ done.nForwarded \in Nat
  <2>1. /\ rebuilt.blockIdx \in BlockIdx /\ rebuilt.blockIdx <= L
        /\ UpTo(D \cup Emitted(s), rebuilt.blockIdx, rebuilt.nForwarded)
    BY <1>2, <1>4, <1>7, <1>9
  <2>2. QED
    BY <1>3, <1>7, <1>9, <2>1, PullBatch, Zenon DEF t, done
<1>11. /\ u \in Seq(BatchType) /\ Ordered(D, u)
       /\ (D \cup Emitted(s)) \cup Emitted(t) = D \cup Emitted(u)
  BY <1>6, <1>7, <1>10, OrderedConcat, EmittedConcat, ConcatProperties DEF u
<1>12. DataUpTo(D \cup Emitted(u), L) /\ UpTo(D \cup Emitted(u), b, done.nForwarded)
  BY <1>9, <1>10, <1>11
<1>13. Append(s, Batch(rebuilt, FALSE)) = u
  <2>1. ASSUME NEW e \in BatchType
        PROVE  Append(s, e) = s \o <<e>>
    BY <1>6, AppendIsConcat
  <2>2. Batch(rebuilt, FALSE) \in BatchType
    <3> DEFINE e == Batch(rebuilt, FALSE)
    <3>1. t = <<e>>
      BY DEF t
    <3> HIDE DEF e
    <3>2. t[1] = e /\ 1 \in 1 .. Len(t)
      BY <3>1
    <3>3. e \in BatchType
      BY <1>10, <3>2, ElementOfSeq
    <3>4. QED
      BY <3>3 DEF e
  <2>3. QED
    BY <2>1, <2>2, Zenon DEF u, t
<1>14. Step(b, new, u, n, M)
  BY <1>1, <1>13, Zenon
<1>15. QueueWF(new, L) /\ (new # <<>> => new[1].blockIdx = b + 1)
  <2>1. new = SubSeq(r, i + 1, Len(r)) /\ i \in 1 .. Len(r)
    BY <1>2 DEF new
  <2>2. QueueWF(new, L) /\ (new # <<>> => new[1].blockIdx = r[i].blockIdx + 1)
    <3>1. QueueWF(r, L) /\ L \in Nat
      BY <1>3
    <3>2. QED
      BY <2>1, <3>1, DropOldest
  <2>3. QED
    BY <1>2, <2>2
<1>16. QueueFollows(new, D \cup Emitted(u))
  <2>1. ASSUME new # <<>>
        PROVE  UpTo(D \cup Emitted(u), new[1].blockIdx, new[1].nForwarded)
    <3>1. new \in Seq(RxBlockType)
      BY <1>15 DEF QueueWF
    <3>2. 1 \in 1 .. Len(new)
      BY <2>1, <3>1, EmptySeq, LenProperties
    <3>3. new[1] \in RxBlockType
      BY <3>1, <3>2, ElementOfSeq
    <3>4. new[1].nForwarded \in Nat
      BY <3>3 DEF RxBlockType
    <3>5. QED
      BY <1>2, <1>3, <1>10, <1>12, <1>15, <2>1, <3>4, NextBlock
  <2>2. QED
    BY <2>1 DEF QueueFollows
<1>17. QED
  BY <1>2, <1>4, <1>9, <1>11, <1>12, <1>14, <1>15, <1>16, StepLemma DEF D, L

\* one that ignores its packet,
LEMMA IgnoreStep ==
    ASSUME IInv, NEW b, NEW f, Ignore(b, f)
    PROVE  IInv' /\ Ordered(delivered, out')
<1>1. /\ out' = <<>>
      /\ UNCHANGED <<rx_queue, last_known_block, stats, delivered, session>>
  BY DEF Ignore
<1>2. Emitted(out') = {} /\ DOMAIN out' = {}
  BY <1>1 DEF Emitted
<1>3. Ordered(delivered, out')
  BY <1>2 DEF Ordered
<1>4. TypeOK'
  BY <1>1 DEF IInv, TypeOK
<1>5. QED
  BY <1>1, <1>3, <1>4 DEF IInv

\* and a reset at a new session.
LEMMA ResetStep ==
    ASSUME IInv, reset_rx_queue
    PROVE  IInv' /\ Ordered(delivered, out')
<1>1. /\ rx_queue' = <<>> /\ last_known_block' = NoBlock /\ out' = <<>>
      /\ delivered' = {} /\ session' = [first |-> NoBlock, lostBefore |-> stats.lost]
      /\ stats' = stats
  BY DEF reset_rx_queue
<1>2. Emitted(out') = {} /\ DOMAIN out' = {}
  BY <1>1 DEF Emitted
<1>3. Ordered(delivered, out')
  BY <1>2 DEF Ordered
<1>4. TypeOK'
  BY <1>1 DEF IInv, TypeOK
<1>5. QueueWF(rx_queue', last_known_block')
  <2>1. RX_QUEUE_MAX_SIZE \in Nat
    BY DecoderAssumption
  <2>2. QED
    BY <1>1, <2>1 DEF QueueWF
<1>6. QueueFollows(rx_queue', delivered') /\ DataUpTo(delivered', last_known_block')
  BY <1>1 DEF QueueFollows, DataUpTo
<1>7. QED
  BY <1>3, <1>4, <1>5, <1>6 DEF IInv

\* The decoder starts with the invariant.
LEMMA InitIInv == Init => IInv
<1> SUFFICES ASSUME Init PROVE IInv
  OBVIOUS
<1>1. TypeOK
  BY DEF Init, TypeOK
<1>2. QueueWF(rx_queue, last_known_block)
  <2>1. RX_QUEUE_MAX_SIZE \in Nat
    BY DecoderAssumption
  <2>2. QED
    BY <2>1 DEF Init, QueueWF
<1>3. QueueFollows(rx_queue, delivered) /\ DataUpTo(delivered, last_known_block)
  BY DEF Init, QueueFollows, DataUpTo
<1>4. QED
  BY <1>1, <1>2, <1>3 DEF IInv

\* Every call keeps the invariant and sends in order.
LEMMA NextIInv ==
    ASSUME IInv, Next
    PROVE  IInv' /\ Ordered(delivered, out')
<1>1. CASE reset_rx_queue
  BY <1>1, ResetStep
<1>2. ASSUME NEW b \in BlockIdx, NEW f \in Fragments(b), process_valid_packet(b, f)
      PROVE  IInv' /\ Ordered(delivered, out')
  <2>1. CASE Ignore(b, f)
    BY <2>1, IgnoreStep
  <2>2. CASE ForwardFront(b, f)
    BY <2>2, ForwardFrontStep
  <2>3. CASE CompleteFront(b, f)
    BY <2>3, CompleteFrontStep
  <2>4. CASE RecoverFront(b, f)
    BY <2>4, RecoverFrontStep
  <2>5. CASE \E i \in 2 .. RX_QUEUE_MAX_SIZE : StoreBehind(b, f, i)
    BY <2>5, StoreBehindStep
  <2>6. CASE \E i \in 2 .. RX_QUEUE_MAX_SIZE : Flush(b, f, i)
    BY <2>6, FlushStep
  <2>7. QED
    BY <1>2, <2>1, <2>2, <2>3, <2>4, <2>5, <2>6 DEF process_valid_packet
<1>3. QED
  BY <1>1, <1>2 DEF Next

\* The invariant holds throughout.
THEOREM Invariance == Spec => []IInv
<1>1. Init => IInv
  BY InitIInv
<1>2. IInv /\ [Next]_vars => IInv'
  <2>1. ASSUME IInv, UNCHANGED vars
        PROVE  IInv'
    <3>1. /\ rx_queue' = rx_queue /\ last_known_block' = last_known_block
          /\ delivered' = delivered
      BY <2>1 DEF vars
    <3>2. TypeOK'
      BY <2>1 DEF vars, IInv, TypeOK
    <3>3. QED
      BY <2>1, <3>1, <3>2 DEF IInv
  <2>2. QED
    BY <2>1, NextIInv
<1>3. QED
  BY <1>1, <1>2, PTL DEF Spec

\* Every variable of the decoder keeps its type.
THEOREM TypeCorrect == Spec => []TypeOK
<1>1. IInv => TypeOK
  BY DEF IInv
<1>2. QED
  BY <1>1, Invariance, PTL

\* The rx ring never exceeds its depth and never has a gap between two block
\* indices, whatever is lost, repeated or reordered on the way.
THEOREM QueueIsContiguous == Spec => []QueueContiguous
<1>1. IInv => QueueContiguous
  <2>1. ASSUME IInv
        PROVE  QueueContiguous
    <3>1. /\ rx_queue \in Seq(RxBlockType) /\ Len(rx_queue) \in Nat
          /\ DOMAIN rx_queue = 1 .. Len(rx_queue)
      BY <2>1, LenProperties DEF IInv, TypeOK
    <3>2. Len(rx_queue) <= RX_QUEUE_MAX_SIZE
      BY <2>1 DEF IInv, QueueWF
    <3>3. last_known_block \in Int
      BY <2>1 DEF IInv, TypeOK, NoBlock
    <3>4. ASSUME NEW i \in DOMAIN rx_queue
          PROVE  rx_queue[i].blockIdx = last_known_block - Len(rx_queue) + i
      BY <2>1, <3>1, <3>3 DEF IInv, QueueWF
    <3>5. QED
      BY <3>2, <3>4 DEF QueueContiguous
  <2>2. QED
    BY <2>1
<1>2. QED
  BY <1>1, Invariance, PTL

\* No block waits in the queue once enough fragments to decode it arrived.
THEOREM DecodableBlocksLeave == Spec => []NoDecodableBlockWaits
<1>1. IInv => NoDecodableBlockWaits
  <2>1. ASSUME IInv
        PROVE  NoDecodableBlockWaits
    <3>1. DOMAIN rx_queue = 1 .. Len(rx_queue)
      BY <2>1, LenProperties DEF IInv, TypeOK
    <3>2. QED
      BY <2>1, <3>1 DEF IInv, QueueWF, NoDecodableBlockWaits
  <2>2. QED
    BY <2>1
<1>2. QED
  BY <1>1, Invariance, PTL

\* Only data fragments of blocks the sender made are handed up.
THEOREM OnlyDataIsDelivered == Spec => []DeliveredIsData
<1>1. IInv => DeliveredIsData
  BY DEF IInv, DataUpTo, DeliveredIsData
<1>2. QED
  BY <1>1, Invariance, PTL

\* The data of a session is handed up in the sender's order, each fragment at
\* most once: with any queue depth, any block layout and any arrival order.
THEOREM DeliveryIsInOrder == Spec => InOrderDelivery
<1> DEFINE A == Ordered(delivered, out')
<1>1. IInv /\ [Next]_vars => [A]_vars
  BY NextIInv
<1>2. [A]_vars => [/\ \A x \in delivered, y \in Emitted(out') : Before(x, y)
                   /\ \A i, j \in DOMAIN out' : i < j =>
                          \A f \in out'[i].frags, g \in out'[j].frags :
                              Before(<<out'[i].block, f>>, <<out'[j].block, g>>)]_vars
  BY DEF Ordered
<1>3. QED
  BY <1>1, <1>2, Invariance, PTL DEF Spec, InOrderDelivery

-----------------------------------------------------------------------------
(* FEC itself: what the blocks in the queue lack.                          *)

\* FEC cannot complete the block, so it has fewer fragments than it needs.
LEMMA TooFewFragments ==
    ASSUME NEW block, BlockWF(block), ~allPrimaryFragmentsCanBeRecovered(block),
           block.nPrimary # Unknown
    PROVE  /\ block.nPrimary \in Nat
           /\ Cardinality(block.fragment_map) \in Nat
           /\ Cardinality(block.fragment_map) < block.nPrimary
<1>1. block.nPrimary \in Nat
  BY DEF BlockWF, RxBlockType
<1>2. Cardinality(block.fragment_map) \in Nat
  BY FS_CardinalityType DEF BlockWF
<1>3. ~(Cardinality(block.fragment_map) >= block.nPrimary)
  BY DEF allPrimaryFragmentsCanBeRecovered, getNAvailableFragments
<1>4. QED
  BY <1>1, <1>2, <1>3

\* Such a block is not forwarded to its end by any pull, and some of its data
\* has not arrived.
LEMMA UndecodableIsIncomplete ==
    ASSUME NEW block, BlockWF(block), ~allPrimaryFragmentsCanBeRecovered(block),
           NEW d \in BOOLEAN
    PROVE  /\ ~allPrimaryFragmentsHaveBeenForwarded(Pulled(block, d))
           /\ block.nPrimary # Unknown =>
                  /\ block.nForwarded < block.nPrimary
                  /\ \E f \in 0 .. block.nPrimary - 1 : f \notin block.fragment_map
<1> DEFINE a == block.nForwarded
           P == Pull(block, d)
           M == block.fragment_map
           sent == 0 .. a - 1
<1>1. a \in Nat /\ IsFiniteSet(M) /\ block \in RxBlockType
  BY DEF BlockWF, RxBlockType
<1>2. Pulled(block, d).nForwarded = a + Cardinality(P)
      /\ Pulled(block, d).nPrimary = block.nPrimary
  BY <1>1 DEF Pulled, RxBlockType
<1>3. CASE block.nPrimary = Unknown
  BY <1>2, <1>3 DEF allPrimaryFragmentsHaveBeenForwarded
<1>4. CASE block.nPrimary # Unknown
  <2>1. /\ block.nPrimary \in Nat /\ Cardinality(M) \in Nat
        /\ Cardinality(M) < block.nPrimary
    BY <1>4, TooFewFragments
  <2>2. P \subseteq M /\ \A i \in P : i \in Nat /\ a <= i
    BY PullReturns
  <2>3. sent \subseteq M
    BY DEF BlockWF
  <2>4. /\ IsFiniteSet(sent) /\ Cardinality(sent) = a
        /\ IsFiniteSet(P) /\ Cardinality(P) \in Nat
    <3>1. IsFiniteSet(sent) /\ Cardinality(sent) = a
      BY <1>1, IntervalCardinality, 0 \in Nat
    <3>2. P \in SUBSET M
      BY <2>2
    <3>3. IsFiniteSet(P)
      BY <1>1, <3>2, FS_Subset
    <3>4. QED
      BY <3>1, <3>3, FS_CardinalityType
  <2>5. sent \cap P = {}
    BY <1>1, <2>2
  <2>6. Cardinality(sent \cup P) = a + Cardinality(P)
    <3>1. Cardinality(sent \cup P) =
              Cardinality(sent) + Cardinality(P) - Cardinality(sent \cap P)
      BY <2>4, FS_Union
    <3>2. Cardinality(sent \cap P) = 0
      BY <2>5, FS_EmptySet
    <3>3. QED
      BY <1>1, <2>4, <3>1, <3>2
  <2>7. Cardinality(sent \cup P) <= Cardinality(M)
    BY <1>1, <2>2, <2>3, FS_Subset
  <2>8. a + Cardinality(P) < block.nPrimary /\ a < block.nPrimary
    BY <1>1, <2>1, <2>4, <2>6, <2>7
  <2>9. \E f \in 0 .. block.nPrimary - 1 : f \notin M
    <3>1. /\ IsFiniteSet(0 .. block.nPrimary - 1)
          /\ Cardinality(0 .. block.nPrimary - 1) = block.nPrimary
      BY <2>1, IntervalCardinality, 0 \in Nat
    <3>2. ASSUME 0 .. block.nPrimary - 1 \subseteq M
          PROVE  FALSE
      BY <1>1, <2>1, <3>1, <3>2, FS_Subset
    <3>3. QED
      BY <3>2
  <2>10. ~(Pulled(block, d).nForwarded = Pulled(block, d).nPrimary)
    BY <1>1, <1>2, <2>1, <2>4, <2>8
  <2>11. QED
    BY <2>8, <2>9, <2>10 DEF allPrimaryFragmentsHaveBeenForwarded
<1>5. QED
  BY <1>3, <1>4

\* A block becomes recoverable with exactly as many fragments as it has data
\* fragments, so as many correction fragments are there as data is missing.
LEMMA JustEnoughFragments ==
    ASSUME IInv, NEW b \in BlockIdx, NEW f \in Fragments(b), NEW i,
           Accepted(b, f, i),
           allPrimaryFragmentsCanBeRecovered(WithFragment(b, f, i))
    PROVE  LET block == WithFragment(b, f, i)
           IN  /\ Cardinality(block.fragment_map) = block.nPrimary
               /\ Cardinality(MissingPrimary(block)) =
                      Cardinality(AvailableSecondary(block))
<1> DEFINE block == WithFragment(b, f, i)
           old == Ring(b)[i]
           n == NPrimary[b]
           data == 0 .. n - 1
           M == block.fragment_map
<1>1. /\ i \in 1 .. Len(Ring(b)) /\ old.blockIdx = b /\ ~AlreadyProcessed(b)
      /\ BlockWF(block) /\ block.nPrimary = n /\ n \in Nat
  BY AcceptedBlock
<1>2. QueueWF(Ring(b), NewLast(b))
  BY <1>1, RingFacts
<1>3. BlockWF(old) /\ ~allPrimaryFragmentsCanBeRecovered(old)
  BY <1>1, <1>2 DEF QueueWF
<1>4. f \in Nat /\ f \notin old.fragment_map /\ n \in 1 .. maxNFragmentsPerBlock
  BY LayoutAssumption DEF Accepted, hasFragment, Fragments
<1>5. M = old.fragment_map \cup {f}
  BY <1>1, <1>3, <1>4, AddFragmentWF DEF WithFragment
<1>6. Cardinality(M) = Cardinality(old.fragment_map) + 1
      /\ Cardinality(old.fragment_map) \in Nat
  BY <1>3, <1>4, <1>5, FS_AddElement, FS_CardinalityType DEF BlockWF
<1>7. Cardinality(M) >= n
  BY <1>1 DEF allPrimaryFragmentsCanBeRecovered, getNAvailableFragments
<1>8. Cardinality(old.fragment_map) < n
  <2>1. CASE old.nPrimary = Unknown
    <3>1. old.fragment_map = {}
      BY <1>3, <2>1 DEF BlockWF
    <3>2. QED
      BY <1>1, <1>4, <3>1, FS_EmptySet
  <2>2. CASE old.nPrimary # Unknown
    <3>1. old.nPrimary = n
      BY <1>1, <1>3, <2>2 DEF BlockWF
    <3>2. QED
      BY <1>3, <2>2, <3>1, TooFewFragments
  <2>3. QED
    BY <2>1, <2>2
<1>9. Cardinality(M) = n
  BY <1>1, <1>6, <1>7, <1>8
<1>10. IsFiniteSet(M) /\ M \subseteq Nat
  BY <1>1 DEF BlockWF, RxBlockType
<1>11. IsFiniteSet(data) /\ Cardinality(data) = n
  BY <1>1, IntervalCardinality, 0 \in Nat
<1> DEFINE have == data \cap M
           S == AvailableSecondary(block)
<1>12. S = M \ data /\ MissingPrimary(block) = data \ M
  BY <1>1, <1>10 DEF AvailableSecondary, MissingPrimary
<1>13. Cardinality(data \ M) = n - Cardinality(have)
  BY <1>11, FS_Difference
<1>14. Cardinality(M \ data) = n - Cardinality(have)
  <2>1. Cardinality(M \ data) = Cardinality(M) - Cardinality(M \cap data)
    BY <1>10, FS_Difference
  <2>2. M \cap data = have
    OBVIOUS
  <2>3. QED
    BY <1>9, <2>1, <2>2
<1>15. QED
  BY <1>1, <1>9, <1>12, <1>13, <1>14

\* A rebuilt block is forwarded to its end.
LEMMA RebuiltIsForwarded ==
    ASSUME NEW block, BlockWF(block), block.nPrimary \in Nat,
           block.nForwarded <= block.nPrimary
    PROVE  LET new == reconstructAllMissingData(block)
           IN  /\ Pulled(new, FALSE).nForwarded = block.nPrimary
               /\ Pull(new, FALSE) = block.nForwarded .. block.nPrimary - 1
               /\ allPrimaryFragmentsHaveBeenForwarded(Pulled(new, FALSE))
<1> DEFINE new == reconstructAllMissingData(block)
           a == block.nForwarded
           n == block.nPrimary
           data == 0 .. n - 1
<1>1. /\ BlockWF(new) /\ new.nForwarded = a /\ new.nPrimary = n
  BY ReconstructWF
<1>2. block \in RxBlockType /\ a \in Nat /\ n \in Nat /\ a <= n
  BY DEF BlockWF, RxBlockType
<1>3. new.fragment_map = block.fragment_map \cup (data \ block.fragment_map)
  BY <1>2 DEF reconstructAllMissingData, MissingPrimary, RxBlockType
<1>4. {g \in new.fragment_map : g < n} = data
  <2>1. new.fragment_map \subseteq Nat
    BY <1>1 DEF BlockWF, RxBlockType
  <2>2. QED
    BY <1>2, <1>3, <2>1
<1>5. NAvailablePrimary(new) = n
  <2>1. Cardinality(data) = n
    BY <1>2, IntervalCardinality, 0 \in Nat
  <2>2. QED
    BY <1>1, <1>4, <2>1 DEF NAvailablePrimary
<1> HIDE DEF new
<1>6. Pull(new, FALSE) = a .. n - 1
  BY <1>1, <1>2, <1>3, <1>5 DEF Pull, PullScan
<1>7. Cardinality(a .. n - 1) = n - a
  BY <1>2, IntervalCardinality
<1>8. new \in RxBlockType
  BY <1>1 DEF BlockWF
<1>9. /\ Pulled(new, FALSE).nForwarded = a + (n - a)
      /\ Pulled(new, FALSE).nPrimary = n
  BY <1>1, <1>6, <1>7, <1>8 DEF Pulled, RxBlockType
<1>10. Pulled(new, FALSE).nForwarded = n /\ n # Unknown
  <2>1. a + (n - a) = n /\ n # Unknown
    BY <1>2 DEF Unknown
  <2>2. QED
    BY <1>9, <2>1, Zenon
<1>11. allPrimaryFragmentsHaveBeenForwarded(Pulled(new, FALSE))
  BY <1>9, <1>10 DEF allPrimaryFragmentsHaveBeenForwarded
<1>12. QED
  BY <1>6, <1>10, <1>11 DEF new

\* A pull that stops at the first gap does not go beyond the data.
LEMMA PullWithinData ==
    ASSUME NEW block, BlockWF(block), block.nPrimary \in Nat,
           block.nForwarded <= block.nPrimary
    PROVE  Pulled(block, FALSE).nForwarded <= block.nPrimary
<1> DEFINE n == Pulled(block, FALSE).nForwarded
           P == Pull(block, FALSE)
<1>1. /\ n \in Nat /\ block.nForwarded <= n /\ block.nForwarded \in Nat
      /\ P = block.nForwarded .. n - 1
  BY PullExtendsPrefix DEF BlockWF, RxBlockType
<1>2. block.nPrimary = NPrimary[block.blockIdx]
  BY DEF BlockWF, Unknown
<1>p. \A i \in P : i < NPrimary[block.blockIdx]
  BY PullReturns
<1> HIDE DEF n, P
<1>3. ASSUME block.nForwarded < n
      PROVE  n <= block.nPrimary
  <2>1. n - 1 \in P
    BY <1>1, <1>3
  <2>2. n - 1 < NPrimary[block.blockIdx]
    BY <2>1, <1>p
  <2>3. QED
    BY <1>1, <1>2, <2>2
<1>4. n <= block.nPrimary
  BY <1>1, <1>3
<1>5. QED
  BY <1>4 DEF n

\* The block a packet is accepted into has not been forwarded to its end.
LEMMA AcceptedIsUnfinished ==
    ASSUME IInv, NEW b \in BlockIdx, NEW f \in Fragments(b), NEW i,
           Accepted(b, f, i)
    PROVE  WithFragment(b, f, i).nForwarded < NPrimary[b]
<1> DEFINE old == Ring(b)[i]
<1>1. /\ i \in 1 .. Len(Ring(b)) /\ old.blockIdx = b /\ ~AlreadyProcessed(b)
      /\ WithFragment(b, f, i).nForwarded = old.nForwarded
  BY AcceptedBlock
<1>2. QueueWF(Ring(b), NewLast(b))
  BY <1>1, RingFacts
<1>3. BlockWF(old) /\ ~allPrimaryFragmentsCanBeRecovered(old)
  BY <1>1, <1>2 DEF QueueWF
<1>4. NPrimary[b] \in 1 .. maxNFragmentsPerBlock
  BY LayoutAssumption
<1>5. CASE old.nPrimary = Unknown
  <2>1. old.nForwarded = 0
    BY <1>3, <1>5 DEF BlockWF
  <2>2. QED
    BY <1>1, <1>4, <2>1, LayoutAssumption
<1>6. CASE old.nPrimary # Unknown
  <2>1. old.nPrimary = NPrimary[b]
    BY <1>1, <1>3, <1>6 DEF BlockWF
  <2>2. old.nForwarded < old.nPrimary
    <3>1. PICK d \in BOOLEAN : TRUE
      OBVIOUS
    <3>2. QED
      BY <1>3, <1>6, <3>1, UndecodableIsIncomplete
  <2>3. QED
    BY <1>1, <2>1, <2>2
<1>7. QED
  BY <1>5, <1>6

\* The assertions on the way to FEC hold whatever packet comes next.
LEMMA AssertionsHold == IInv => FecAssertions
<1> SUFFICES ASSUME IInv, NEW b \in BlockIdx, NEW f \in Fragments(b),
                    NEW i \in 1 .. RX_QUEUE_MAX_SIZE, Accepted(b, f, i),
                    allPrimaryFragmentsCanBeRecovered(WithFragment(b, f, i))
             PROVE  LET block == WithFragment(b, f, i)
                        start == IF i = 1 THEN Pulled(block, FALSE) ELSE block
                    IN  /\ Cardinality(MissingPrimary(block)) =
                               Cardinality(AvailableSecondary(block))
                        /\ allPrimaryFragmentsHaveBeenForwarded(
                               Pulled(reconstructAllMissingData(start), FALSE))
  BY Zenon DEF FecAssertions
<1> DEFINE block == WithFragment(b, f, i)
           start == IF i = 1 THEN Pulled(block, FALSE) ELSE block
<1>1. Cardinality(MissingPrimary(block)) = Cardinality(AvailableSecondary(block))
  BY JustEnoughFragments
<1>2. /\ BlockWF(block) /\ block.nPrimary = NPrimary[b] /\ block.nPrimary \in Nat
      /\ block.nForwarded \in Nat /\ block.nForwarded < NPrimary[b]
  BY AcceptedBlock, AcceptedIsUnfinished
<1> HIDE DEF block
<1>3. /\ BlockWF(start) /\ start.nPrimary \in Nat
      /\ start.nForwarded <= start.nPrimary
  <2>1. CASE i = 1
    <3>1. block \in RxBlockType
      BY <1>2 DEF BlockWF
    <3>2. Pulled(block, FALSE).nPrimary = block.nPrimary
      BY <3>1 DEF Pulled, RxBlockType
    <3>3. /\ BlockWF(Pulled(block, FALSE))
          /\ Pulled(block, FALSE).nForwarded <= block.nPrimary
      <4>1. block.nForwarded <= block.nPrimary
        BY <1>2
      <4>2. QED
        BY <1>2, <4>1, PullExtendsPrefix, PullWithinData, Zenon
    <3>4. QED
      BY <1>2, <2>1, <3>2, <3>3
  <2>2. CASE i # 1
    BY <1>2, <2>2
  <2>3. QED
    BY <2>1, <2>2
<1> HIDE DEF start
<1>4. allPrimaryFragmentsHaveBeenForwarded(
          Pulled(reconstructAllMissingData(start), FALSE))
  BY <1>3, RebuiltIsForwarded
<1>5. QED
  BY <1>1, <1>4 DEF block, start

\* fecDecode is given as many correction fragments as data is missing, and
\* every block it rebuilds is handed up to its end (FEC.h:105,
\* FECDecoder.cpp:210, 237, 243), in every state that can be reached.
THEOREM FecIsCalledRight == Spec => []FecAssertions
<1>1. QED
  BY AssertionsHold, Invariance, PTL

-----------------------------------------------------------------------------
(* The accounting of blocks.                                               *)

\* The blocks of which D has all the data; CompleteBlocks is that of delivered.
CompleteIn(D) == {b \in BlockIdx : \A f \in 0 .. NPrimary[b] - 1 : <<b, f>> \in D}

\* What the oldest block calls forwarded has been sent up.
FrontForwarded(q, D) ==
    q # <<>> => \A f \in 0 .. q[1].nForwarded - 1 : <<q[1].blockIdx, f>> \in D

\* BlocksAccounted with what it needs: a session counts from nothing.
Accounting ==
    /\ FrontForwarded(rx_queue, delivered)
    /\ last_known_block = NoBlock => /\ delivered = {}
                                     /\ stats.lost = session.lostBefore
                                     /\ session.first = NoBlock
    /\ last_known_block # NoBlock => session.first \in Nat
    /\ BlocksAccounted

\* Giving up blocks that FEC cannot complete completes no block.
LEMMA GivenUpAreIncomplete ==
    ASSUME NEW last \in Int, NEW q, QueueWF(q, last), NEW n \in 0 .. Len(q),
           NEW D, QueueFollows(q, D), DataUpTo(D, last),
           NEW s \in Seq(BatchType), Len(s) = n,
           \A i \in 1 .. n : /\ s[i].block = q[i].blockIdx
                             /\ s[i].frags \subseteq q[i].fragment_map
    PROVE  CompleteIn(D \cup Emitted(s)) = CompleteIn(D)
<1>1. Len(q) \in Nat /\ n \in Nat /\ n <= Len(q)
  BY LenProperties DEF QueueWF
<1>2. ASSUME NEW i \in 1 .. n
      PROVE  /\ i \in 1 .. Len(q)
             /\ q[i].blockIdx = (last - Len(q)) + i
             /\ q[i].blockIdx \in Nat /\ q[i].nForwarded \in Nat
             /\ BlockWF(q[i]) /\ ~allPrimaryFragmentsCanBeRecovered(q[i])
             /\ i > 1 => q[i].nForwarded = 0
  <2>1. i \in 1 .. Len(q)
    BY <1>1
  <2>2. /\ q[i].blockIdx = (last - Len(q)) + i
        /\ BlockWF(q[i]) /\ ~allPrimaryFragmentsCanBeRecovered(q[i])
        /\ i > 1 => q[i].nForwarded = 0
    BY <2>1 DEF QueueWF
  <2>3. q[i].blockIdx \in Nat /\ q[i].nForwarded \in Nat
    BY <2>2 DEF BlockWF, RxBlockType
  <2>4. QED
    BY <2>1, <2>2, <2>3
<1>3. ASSUME NEW x \in BlockIdx, NEW g \in Nat, <<x, g>> \in Emitted(s)
      PROVE  \E i \in 1 .. n : x = q[i].blockIdx /\ g \in q[i].fragment_map
  <2>1. PICK i \in 1 .. Len(s) : \E f \in s[i].frags : <<x, g>> = <<s[i].block, f>>
    BY <1>3, EmittedElements
  <2>2. PICK f \in s[i].frags : <<x, g>> = <<s[i].block, f>>
    BY <2>1
  <2>3. i \in 1 .. n /\ x = s[i].block /\ g = f
    BY <2>2
  <2>4. QED
    BY <2>3
<1>4. ASSUME NEW i \in 1 .. n, q[i].blockIdx \in BlockIdx
      PROVE  q[i].blockIdx \notin CompleteIn(D \cup Emitted(s))
  <2> DEFINE x == q[i].blockIdx
             M == q[i].fragment_map
  <2>1. NPrimary[x] \in Nat /\ NPrimary[x] > 0 /\ x \in BlockIdx
    BY <1>4, LayoutAssumption
  <2>2. PICK g \in 0 .. NPrimary[x] - 1 : g \notin M
    <3>1. CASE q[i].nPrimary = Unknown
      <4>1. M = {}
        BY <1>2, <3>1 DEF BlockWF
      <4>2. 0 \in 0 .. NPrimary[x] - 1
        BY <2>1
      <4>3. QED
        BY <4>1, <4>2
    <3>2. CASE q[i].nPrimary # Unknown
      <4>1. q[i].nPrimary = NPrimary[x]
        BY <1>2, <3>2 DEF BlockWF
      <4>2. PICK d \in BOOLEAN : TRUE
        OBVIOUS
      <4>3. \E f \in 0 .. q[i].nPrimary - 1 : f \notin M
        BY <1>2, <3>2, <4>2, UndecodableIsIncomplete
      <4>4. QED
        BY <4>1, <4>3
    <3>3. QED
      BY <3>1, <3>2
  <2>3. <<x, g>> \notin Emitted(s)
    <3>1. ASSUME NEW j \in 1 .. n, x = q[j].blockIdx
          PROVE  j = i
      <4>1. (last - Len(q)) + i = (last - Len(q)) + j
        BY <1>2, <3>1
      <4>2. QED
        BY <1>1, <4>1
    <3>2. QED
      BY <1>3, <2>1, <2>2, <3>1
  <2>4. <<x, g>> \notin D
    <3>1. SUFFICES ASSUME <<x, g>> \in D PROVE FALSE
      OBVIOUS
    <3>2. q # <<>> /\ 1 \in 1 .. n
      BY <1>1
    <3>3. Before(<<x, g>>, <<q[1].blockIdx, q[1].nForwarded>>)
      BY <3>1, <3>2 DEF QueueFollows, UpTo
    <3>4. /\ q[1].blockIdx = (last - Len(q)) + 1 /\ x = (last - Len(q)) + i
          /\ q[1].nForwarded \in Nat
      BY <1>2, <3>2
    <3>5. i = 1 /\ g < q[1].nForwarded
      <4>1. \/ x < q[1].blockIdx
            \/ x = q[1].blockIdx /\ g < q[1].nForwarded
        BY <3>3 DEF Before
      <4>2. QED
        BY <1>1, <3>4, <4>1
    <3>6. g \in q[1].fragment_map
      <4>1. g \in 0 .. q[1].nForwarded - 1
        BY <2>1, <2>2, <3>4, <3>5
      <4>2. QED
        BY <1>2, <3>2, <4>1 DEF BlockWF
    <3>7. QED
      BY <2>2, <3>5, <3>6
  <2>5. QED
    BY <2>1, <2>2, <2>3, <2>4 DEF CompleteIn
<1>5. ASSUME NEW x \in CompleteIn(D \cup Emitted(s))
      PROVE  x \in CompleteIn(D)
  <2>1. x \in BlockIdx /\ NPrimary[x] \in Nat
    BY LayoutAssumption DEF CompleteIn
  <2>2. ASSUME NEW f \in 0 .. NPrimary[x] - 1
        PROVE  <<x, f>> \in D
    <3>1. <<x, f>> \in D \cup Emitted(s)
      BY DEF CompleteIn
    <3>2. <<x, f>> \notin Emitted(s)
      <4>1. SUFFICES ASSUME <<x, f>> \in Emitted(s) PROVE FALSE
        OBVIOUS
      <4>2. PICK i \in 1 .. n : x = q[i].blockIdx
        BY <1>3, <2>1, <4>1
      <4>3. QED
        BY <1>4, <2>1, <4>2
    <3>3. QED
      BY <3>1, <3>2
  <2>3. QED
    BY <2>1, <2>2 DEF CompleteIn
<1>6. CompleteIn(D) \subseteq CompleteIn(D \cup Emitted(s))
  BY DEF CompleteIn
<1>7. QED
  BY <1>5, <1>6

\* All blocks that leave the queue before they are complete count as lost.
LEMMA AllGivenUpAreLost ==
    ASSUME NEW last \in Int, NEW q, QueueWF(q, last), NEW n \in 0 .. Len(q),
           NEW d \in BOOLEAN
    PROVE  NLost(q, n, d) = n
<1>1. Len(q) \in Nat /\ n \in Nat /\ n <= Len(q)
  BY LenProperties DEF QueueWF
<1>2. ASSUME NEW i \in 1 .. n
      PROVE  ~allPrimaryFragmentsHaveBeenForwarded(Pulled(q[i], d))
  <2>1. i \in 1 .. Len(q)
    BY <1>1
  <2>2. BlockWF(q[i]) /\ ~allPrimaryFragmentsCanBeRecovered(q[i])
    BY <2>1 DEF QueueWF
  <2>3. QED
    BY <2>2, UndecodableIsIncomplete
<1>3. {i \in 1 .. n : ~allPrimaryFragmentsHaveBeenForwarded(Pulled(q[i], d))} = 1 .. n
  BY <1>2
<1>4. Cardinality(1 .. n) = n
  BY <1>1, FS_Interval
<1>5. QED
  BY <1>3, <1>4 DEF NLost

\* A call accounts for every block it moves last_known_block over: it creates
\* it or counts it as skipped.
LEMMA NewBlocksCount ==
    ASSUME IInv, NEW b \in BlockIdx, ~AlreadyProcessed(b)
    PROVE  /\ last_known_block # NoBlock =>
                  NewLast(b) = last_known_block + NNewBlocks(b) + NSkipped(b)
           /\ last_known_block = NoBlock =>
                  /\ rx_queue = <<>> /\ NewLast(b) = b
                  /\ NNewBlocks(b) + NSkipped(b) = 1
<1>1. /\ RX_QUEUE_MAX_SIZE \in Nat /\ RX_QUEUE_MAX_SIZE >= 1
      /\ b \in Nat /\ last_known_block \in Nat \cup {-1}
      /\ rx_queue \in Seq(RxBlockType) /\ Len(rx_queue) \in Nat
  BY DecoderAssumption, LayoutAssumption, LenProperties DEF IInv, TypeOK, NoBlock
<1>2. ASSUME rx_queue # <<>>
      PROVE  last_known_block # NoBlock
  <2>1. Len(rx_queue) \in 1 .. Len(rx_queue)
    BY <1>1, <1>2, EmptySeq
  <2>2. /\ rx_queue[Len(rx_queue)].blockIdx =
               (last_known_block - Len(rx_queue)) + Len(rx_queue)
        /\ BlockWF(rx_queue[Len(rx_queue)])
    BY <2>1 DEF IInv, QueueWF
  <2>3. rx_queue[Len(rx_queue)].blockIdx \in Nat
    BY <2>2 DEF BlockWF, RxBlockType
  <2>4. QED
    BY <1>1, <2>2, <2>3 DEF NoBlock
<1>3. rx_queue = <<>> => ~InQueue(b)
  BY DEF InQueue
<1>4. ~InQueue(b) /\ last_known_block # NoBlock => last_known_block < b
  BY <1>1 DEF AlreadyProcessed, NoBlock
<1>5. QED
  BY <1>1, <1>2, <1>3, <1>4
     DEF NNewBlocks, NSkipped, NNeededNewBlocks, NewLast, NoBlock

\* The blocks a call evicts are sent as they are, completing none; the queue
\* that is left starts with what was forwarded of its oldest block.
LEMMA RingAccounting ==
    ASSUME IInv, FrontForwarded(rx_queue, delivered),
           NEW b \in BlockIdx, ~AlreadyProcessed(b)
    PROVE  LET D == delivered \cup Emitted(Evictions(b))
           IN  /\ FrontForwarded(Ring(b), D)
               /\ CompleteIn(D) = CompleteIn(delivered)
<1> DEFINE q == rx_queue
           n == NEvicted(b)
           m == NNewBlocks(b)
           r == Ring(b)
           last == last_known_block
           E == Evictions(b)
           D == delivered \cup Emitted(E)
<1>1. /\ n \in 0 .. Len(q) /\ m \in Nat
      /\ q \in Seq(RxBlockType) /\ Len(q) \in Nat /\ last \in Int
      /\ QueueWF(q, last) /\ QueueFollows(q, delivered) /\ DataUpTo(delivered, last)
  BY RingNumbers, LenProperties DEF IInv, TypeOK, NoBlock
<1>2. /\ r \in Seq(RxBlockType) /\ Len(r) = (Len(q) - n) + m
      /\ \A i \in 1 .. (Len(q) - n) + m :
             \/ /\ n < Len(q) /\ i <= Len(q) - n
                /\ r[i] = q[n + i] /\ n + i \in 1 .. Len(q)
             \/ /\ m > 0 /\ ~(i <= Len(q) - n)
                /\ i - (Len(q) - n) \in 1 .. m
                /\ r[i] = NewRxBlock((b - m) + (i - (Len(q) - n)))
  BY RingElements
<1>3. E = [i \in 1 .. n |-> Batch(q[i], TRUE)]
  BY DEF Evictions
<1> HIDE DEF q, n, m, r, last, E
<1>4. FrontForwarded(r, D)
  <2>1. SUFFICES ASSUME r # <<>>
                 PROVE  \A f \in 0 .. r[1].nForwarded - 1 : <<r[1].blockIdx, f>> \in D
    BY DEF FrontForwarded
  <2>2. 1 \in 1 .. (Len(q) - n) + m
    BY <1>1, <1>2, <2>1, EmptySeq
  <2>3. CASE n < Len(q) /\ r[1] = q[n + 1] /\ n + 1 \in 1 .. Len(q)
    <3>1. CASE n = 0
      <4>1. q # <<>> /\ r[1] = q[1]
        BY <2>3, <3>1
      <4>2. QED
        BY <4>1 DEF FrontForwarded, q
    <3>2. CASE n # 0
      <4>1. n + 1 > 1
        BY <1>1, <3>2
      <4>2. r[1].nForwarded = 0
        BY <1>1, <2>3, <4>1 DEF QueueWF
      <4>3. QED
        BY <4>2
    <3>3. QED
      BY <3>1, <3>2
  <2>4. CASE r[1] = NewRxBlock((b - m) + (1 - (Len(q) - n)))
    <3>1. r[1].nForwarded = 0
      BY <2>4 DEF NewRxBlock
    <3>2. QED
      BY <3>1
  <2>5. QED
    BY <1>2, <2>2, <2>3, <2>4
<1>5. PICK d \in BOOLEAN : d = TRUE
  OBVIOUS
<1>6. E = [i \in 1 .. n |-> Batch(q[i], d)]
  BY <1>3, <1>5, Zenon
<1>7. /\ E \in Seq(BatchType) /\ Len(E) = n
      /\ \A i \in 1 .. n : E[i].block = q[i].blockIdx
  <2> HIDE <1>3, <1>5
  <2>1. QED
    BY <1>1, <1>6, BatchesOfQueue
<1>8. \A i \in 1 .. n : E[i].frags \subseteq q[i].fragment_map
  <2> HIDE <1>3, <1>5
  <2>1. QED
    BY <1>6 DEF Batch, Pull
<1>9. CompleteIn(D) = CompleteIn(delivered)
  <2> HIDE <1>3, <1>5, <1>6
  <2>1. \A i \in 1 .. n : /\ E[i].block = q[i].blockIdx
                          /\ E[i].frags \subseteq q[i].fragment_map
    BY <1>7, <1>8
  <2>2. CompleteIn(delivered \cup Emitted(E)) = CompleteIn(delivered)
    <3> HIDE DEF D
    <3>1. QED
      BY <1>1, <1>7, <2>1, GivenUpAreIncomplete
  <2>3. QED
    BY <2>2
<1>10. QED
  BY <1>4, <1>9 DEF r, D, E

\* Only finitely many blocks are complete.
LEMMA CompleteIsFinite ==
    ASSUME NEW last \in Int, NEW D, DataUpTo(D, last)
    PROVE  IsFiniteSet(CompleteIn(D))
<1>1. ASSUME NEW x \in CompleteIn(D)
      PROVE  x \in 0 .. last
  <2>1. x \in BlockIdx /\ x \in Nat /\ NPrimary[x] \in Nat /\ NPrimary[x] > 0
    BY LayoutAssumption DEF CompleteIn
  <2>2. <<x, 0>> \in D
    BY <2>1 DEF CompleteIn
  <2>3. <<x, 0>>[1] <= last
    BY <2>2 DEF DataUpTo
  <2>4. QED
    BY <2>1, <2>3
<1>2. IsFiniteSet(0 .. last)
  BY FS_Interval
<1>3. QED
  BY <1>1, <1>2, FS_Subset

\* A call that completes c blocks and gives up the nFlushed oldest ones of the
\* ring keeps the account.
LEMMA StepAccounting ==
    ASSUME IInv, Accounting, NEW b \in BlockIdx, ~AlreadyProcessed(b),
           NEW queue, NEW batches \in Seq(BatchType),
           NEW nFlushed \in 0 .. Len(Ring(b)), NEW recovered,
           Step(b, queue, batches, nFlushed, recovered),
           NEW c \in {0, 1}, Len(queue) = (Len(Ring(b)) - nFlushed) - c,
           NEW D2, D2 = (delivered \cup Emitted(Evictions(b))) \cup Emitted(batches),
           FrontForwarded(queue, D2),
           c = 0 => CompleteIn(D2) = CompleteIn(delivered),
           c = 1 => /\ CompleteIn(D2) = CompleteIn(delivered) \cup {b}
                    /\ b \notin CompleteIn(delivered)
    PROVE  Accounting' /\ delivered' = D2
<1> DEFINE n == NEvicted(b)
           m == NNewBlocks(b)
           k == NSkipped(b)
           L == NewLast(b)
           last == last_known_block
           old == Cardinality(CompleteIn(delivered))
           new == Cardinality(CompleteIn(D2))
           evicted == NLost(rx_queue, n, TRUE)
           flushed == NLost(Ring(b), nFlushed, m_forward_gapped_fragments)
<1>1. /\ m \in Nat /\ k \in Nat /\ n \in 0 .. Len(rx_queue) /\ L \in Nat
      /\ Len(rx_queue) \in Nat /\ b \in Nat /\ last \in Nat \cup {-1}
      /\ last # NoBlock => L = last + m + k
      /\ last = NoBlock => rx_queue = <<>> /\ L = b /\ m + k = 1
  BY RingNumbers, NewBlocksCount, LayoutAssumption, LenProperties
     DEF IInv, TypeOK, NoBlock
<1>2. Len(Ring(b)) = (Len(rx_queue) - n) + m
  BY RingElements
<1>3. evicted = n
  <2>1. PICK d \in BOOLEAN : d = TRUE
    OBVIOUS
  <2>2. QueueWF(rx_queue, last) /\ last \in Int
    BY <1>1 DEF IInv
  <2>3. NLost(rx_queue, n, d) = n
    BY <1>1, <2>2, AllGivenUpAreLost
  <2>4. QED
    BY <2>1, <2>3, Zenon
<1>4. flushed = nFlushed
  <2>1. PICK d \in BOOLEAN : d = m_forward_gapped_fragments
    BY DecoderAssumption
  <2>2. QueueWF(Ring(b), L) /\ L \in Int
    <3>1. QueueWF(Ring(b), L)
      BY RingFacts
    <3>2. L \in Int
      BY <1>1
    <3>3. QED
      BY <3>1, <3>2
  <2>3. NLost(Ring(b), nFlushed, d) = nFlushed
    BY <2>2, AllGivenUpAreLost
  <2>4. QED
    BY <2>1, <2>3, Zenon
<1>5. /\ rx_queue' = queue /\ last_known_block' = L /\ last_known_block' # NoBlock
      /\ session' = [session EXCEPT !.first = IF @ = NoBlock THEN b ELSE @]
      /\ out' = Evictions(b) \o batches /\ delivered' = delivered \cup Emitted(out')
  BY <1>1 DEF Step, NewLast, NoBlock
<1>6. stats'.lost = stats.lost + (k + n + nFlushed)
  <2>1. stats \in [total: Nat, lost: Nat, recovered: Nat, fragments: Nat]
    BY DEF IInv, TypeOK
  <2> DEFINE lost == k + evicted + flushed
             t == IF recovered = {} THEN 0 ELSE 1
             g == Cardinality(recovered)
  <2>2. stats' = [stats EXCEPT !.total = @ + m, !.lost = @ + lost,
                               !.recovered = @ + t, !.fragments = @ + g]
    BY DEF Step
  <2> HIDE DEF lost, t, g
  <2>3. stats'.lost = stats.lost + lost
    BY <2>1, <2>2
  <2>4. lost = k + n + nFlushed
    BY <1>3, <1>4, Zenon DEF lost
  <2>5. QED
    BY <2>3, <2>4, Zenon
<1>7. delivered' = D2
  <2>1. Evictions(b) \in Seq(BatchType)
    BY RingFacts
  <2>2. Emitted(out') = Emitted(Evictions(b)) \cup Emitted(batches)
    BY <1>5, <2>1, EmittedConcat
  <2>3. QED
    BY <1>5, <2>2
<1>8. old \in Nat /\ new = old + c
  <2>1. IsFiniteSet(CompleteIn(delivered))
    BY <1>1, CompleteIsFinite DEF IInv
  <2>2. old \in Nat
    BY <2>1, FS_CardinalityType
  <2>3. CASE c = 0
    BY <2>2, <2>3
  <2>4. CASE c = 1
    BY <2>1, <2>2, <2>4, FS_AddElement
  <2>5. QED
    BY <2>3, <2>4
<1>9. /\ session \in [first: Nat \cup {NoBlock}, lostBefore: Nat]
      /\ stats.lost \in Nat
  BY DEF IInv, TypeOK
<1>10. /\ session'.lostBefore = session.lostBefore
       /\ session'.first = IF session.first = NoBlock THEN b ELSE session.first
  BY <1>5, <1>9
<1>11. session'.first \in Nat
  BY <1>1, <1>9, <1>10
<1>12. CompleteBlocks = CompleteIn(delivered) /\ CompleteBlocks' = CompleteIn(D2)
  BY <1>7 DEF CompleteBlocks, CompleteIn
<1> HIDE DEF n, m, k, L, last, old, new, evicted, flushed
<1>13. Len(queue) = (((Len(rx_queue) - n) + m) - nFlushed) - c
  BY <1>2
<1>14. (stats'.lost - session'.lostBefore) + new + Len(queue)
           = L - session'.first + 1
  <2>1. CASE last = NoBlock
    <3>1. /\ stats.lost = session.lostBefore /\ session.first = NoBlock
          /\ delivered = {}
      BY <2>1 DEF Accounting, last
    <3>2. CompleteIn(delivered) = {}
      <4>1. ASSUME NEW x \in CompleteIn(delivered)
            PROVE  FALSE
        <5>1. x \in BlockIdx /\ 0 \in 0 .. NPrimary[x] - 1
          BY LayoutAssumption DEF CompleteIn
        <5>2. <<x, 0>> \in delivered
          BY <5>1 DEF CompleteIn
        <5>3. QED
          BY <3>1, <5>2
      <4>2. QED
        BY <4>1
    <3>3. old = 0
      BY <3>2, FS_EmptySet DEF old
    <3>4. Len(rx_queue) = 0 /\ L = b /\ m + k = 1
      BY <1>1, <2>1, EmptySeq
    <3>5. session'.first = b
      BY <1>10, <3>1
    <3>6. QED
      BY <1>1, <1>6, <1>8, <1>9, <1>10, <1>13, <3>1, <3>3, <3>4, <3>5
  <2>2. CASE last # NoBlock
    <3>1. /\ session.first \in Nat /\ session.first # NoBlock
          /\ (stats.lost - session.lostBefore) + old + Len(rx_queue)
                 = last - session.first + 1
      BY <1>12, <2>2 DEF Accounting, BlocksAccounted, NoBlock, last, old
    <3>2. session'.first = session.first
      BY <1>10, <3>1
    <3>3. L = last + m + k /\ last \in Nat
      BY <1>1, <2>2 DEF NoBlock
    <3>4. /\ n \in Nat /\ Len(rx_queue) \in Nat /\ nFlushed \in Nat /\ c \in Nat
          /\ stats.lost \in Nat /\ session.lostBefore \in Nat
      BY <1>1, <1>2, <1>9
    <3>5. stats'.lost - session'.lostBefore
              = (stats.lost - session.lostBefore) + (k + n + nFlushed)
      BY <1>1, <1>6, <1>10, <3>4
    <3>6. m \in Nat /\ k \in Nat /\ L \in Nat /\ old \in Nat
      BY <1>1, <1>8
    <3>7. (stats.lost - session.lostBefore) + (k + n + nFlushed) + (old + c)
              + ((((Len(rx_queue) - n) + m) - nFlushed) - c)
          = ((stats.lost - session.lostBefore) + old + Len(rx_queue)) + (m + k)
      BY <3>4, <3>6
    <3>8. (last - session.first + 1) + (m + k) = L - session.first + 1
      BY <3>1, <3>3, <3>6
    <3>9. QED
      BY <1>8, <1>13, <3>1, <3>2, <3>5, <3>7, <3>8
  <2>3. QED
    BY <2>1, <2>2
<1>15. BlocksAccounted'
  BY <1>5, <1>12, <1>14 DEF BlocksAccounted, new
<1>16. QED
  BY <1>5, <1>7, <1>11, <1>15 DEF Accounting

\* The fragments a .. n - 1 of block b.
Run(b, a, n) == {<<b, f>> : f \in a .. n - 1}

\* Sending the next run of fragments of block b completes that block when it
\* reaches its last one, and no block before.
LEMMA SendRun ==
    ASSUME NEW b \in BlockIdx, NEW D, NEW a \in Nat, a < NPrimary[b],
           UpTo(D, b, a), \A f \in 0 .. a - 1 : <<b, f>> \in D,
           NEW n \in Nat, a <= n, n <= NPrimary[b],
           NEW E, E = Run(b, a, n)
    PROVE  /\ \A f \in 0 .. n - 1 : <<b, f>> \in D \cup E
           /\ n < NPrimary[b] => CompleteIn(D \cup E) = CompleteIn(D)
           /\ n = NPrimary[b] => /\ CompleteIn(D \cup E) = CompleteIn(D) \cup {b}
                                 /\ b \notin CompleteIn(D)
<1>1. b \in Nat /\ NPrimary[b] \in Nat
  BY LayoutAssumption
<1> USE DEF Run
<1>2. \A f \in 0 .. n - 1 : <<b, f>> \in D \cup E
  OBVIOUS
<1>3. ASSUME NEW g \in Nat, a <= g
      PROVE  <<b, g>> \notin D
  BY <1>1, <1>3 DEF UpTo, Before
<1>4. ASSUME NEW x, x # b
      PROVE  x \in CompleteIn(D \cup E) <=> x \in CompleteIn(D)
  <2>1. ASSUME NEW f
        PROVE  <<x, f>> \notin E
    BY <1>4
  <2>2. QED
    BY <2>1 DEF CompleteIn
<1>5. b \notin CompleteIn(D)
  <2>1. a \in 0 .. NPrimary[b] - 1 /\ <<b, a>> \notin D
    BY <1>1, <1>3
  <2>2. QED
    BY <2>1 DEF CompleteIn
<1>6. ASSUME n < NPrimary[b]
      PROVE  b \notin CompleteIn(D \cup E)
  <2>1. n \in 0 .. NPrimary[b] - 1
    BY <1>1, <1>6
  <2>2. <<b, n>> \notin D
    BY <1>3
  <2>3. <<b, n>> \notin E
    OBVIOUS
  <2>4. QED
    BY <2>1, <2>2, <2>3 DEF CompleteIn
<1>7. ASSUME n = NPrimary[b]
      PROVE  b \in CompleteIn(D \cup E)
  BY <1>2, <1>7 DEF CompleteIn
<1>8. CompleteIn(D) \subseteq CompleteIn(D \cup E)
  BY DEF CompleteIn
<1>9. n < NPrimary[b] => CompleteIn(D \cup E) = CompleteIn(D)
  BY <1>4, <1>5, <1>6, <1>8
<1>10. n = NPrimary[b] => CompleteIn(D \cup E) = CompleteIn(D) \cup {b}
  BY <1>4, <1>7, <1>8
<1>11. QED
  BY <1>2, <1>5, <1>9, <1>10

\* What a single batch emits.
LEMMA EmittedOne ==
    ASSUME NEW B \in Nat, NEW F \in SUBSET Nat,
           NEW s, s = << [block |-> B, frags |-> F] >>
    PROVE  /\ s \in Seq(BatchType)
           /\ Emitted(s) = {<<B, f>> : f \in F}
<1>1. [block |-> B, frags |-> F] \in BatchType
  BY DEF BatchType
<1>2. s \in Seq(BatchType) /\ DOMAIN s = {1} /\ s[1] = [block |-> B, frags |-> F]
  BY <1>1
<1>3. QED
  BY <1>2 DEF Emitted

\* The batch of a pull that stops at the first gap, and the next fragment.
LEMMA EmittedPull ==
    ASSUME NEW block, BlockWF(block), NEW s, s = <<Batch(block, FALSE)>>
    PROVE  LET n == Pulled(block, FALSE).nForwarded
           IN  /\ s \in Seq(BatchType)
               /\ Emitted(s) = Run(block.blockIdx, block.nForwarded, n)
               /\ n \in Nat /\ block.nForwarded <= n
<1> DEFINE n == Pulled(block, FALSE).nForwarded
           F == Pull(block, FALSE)
<1>1. n \in Nat /\ block.nForwarded <= n /\ F = block.nForwarded .. n - 1
  BY PullExtendsPrefix
<1>2. block.blockIdx \in Nat /\ block.nForwarded \in Nat
  BY DEF BlockWF, RxBlockType
<1>3. s = << [block |-> block.blockIdx, frags |-> F] >>
  BY Zenon DEF Batch
<1> HIDE DEF n, F
<1>4. F \in SUBSET Nat
  BY <1>1, <1>2
<1>5. s \in Seq(BatchType) /\ Emitted(s) = {<<block.blockIdx, f>> : f \in F}
  BY <1>2, <1>3, <1>4, EmittedOne
<1>6. QED
  BY <1>1, <1>5 DEF n, Run

\* What is behind the oldest blocks of a queue has not been forwarded.
LEMMA RestForwarded ==
    ASSUME NEW last \in Int, NEW q, QueueWF(q, last), NEW n \in 1 .. Len(q),
           NEW r, r = SubSeq(q, n + 1, Len(q)), NEW D
    PROVE  Len(r) = Len(q) - n /\ FrontForwarded(r, D)
<1>1. q \in Seq(RxBlockType) /\ Len(q) \in Nat /\ n \in Nat
  BY LenProperties DEF QueueWF
<1>2. /\ r \in Seq(RxBlockType)
      /\ Len(r) = IF n + 1 <= Len(q) THEN (Len(q) - (n + 1)) + 1 ELSE 0
      /\ \A i \in 1 .. (Len(q) - (n + 1)) + 1 : r[i] = q[(n + 1) + i - 1]
  <2>1. n + 1 \in Int /\ Len(q) \in Int /\ \A i \in n + 1 .. Len(q) : q[i] \in RxBlockType
    BY <1>1, ElementOfSeq
  <2>2. QED
    BY <2>1, SubSeqProperties
<1>3. Len(r) = Len(q) - n
  BY <1>1, <1>2
<1>4. ASSUME r # <<>>
      PROVE  r[1].nForwarded = 0
  <2>1. n + 1 \in 1 .. Len(q) /\ n + 1 > 1
    BY <1>1, <1>2, <1>3, <1>4, EmptySeq
  <2>2. r[1] = q[n + 1]
    <3>1. 1 \in 1 .. (Len(q) - (n + 1)) + 1 /\ (n + 1) + 1 - 1 = n + 1
      BY <1>1, <2>1
    <3>2. QED
      BY <1>2, <3>1
  <2>3. q[n + 1].nForwarded = 0
    BY <2>1 DEF QueueWF
  <2>4. QED
    BY <2>2, <2>3
<1>5. QED
  BY <1>3, <1>4 DEF FrontForwarded

\* The oldest block of the ring with a new fragment: what of it was forwarded
\* has been sent up, and nothing more.
LEMMA FrontFacts ==
    ASSUME IInv, Accounting, NEW b \in BlockIdx, NEW f \in Fragments(b),
           Accepted(b, f, 1)
    PROVE  LET block == WithFragment(b, f, 1)
               D == delivered \cup Emitted(Evictions(b))
           IN  /\ ~AlreadyProcessed(b)
               /\ Ring(b) \in Seq(RxBlockType) /\ 1 \in 1 .. Len(Ring(b))
               /\ Len(Ring(b)) \in Nat /\ QueueWF(Ring(b), NewLast(b))
               /\ NewLast(b) \in Int
               /\ BlockWF(block) /\ block.blockIdx = b /\ block.nPrimary = NPrimary[b]
               /\ block.nPrimary \in Nat
               /\ block.nForwarded \in Nat /\ block.nForwarded < NPrimary[b]
               /\ UpTo(D, b, block.nForwarded)
               /\ \A g \in 0 .. block.nForwarded - 1 : <<b, g>> \in D
               /\ CompleteIn(D) = CompleteIn(delivered)
<1> DEFINE block == WithFragment(b, f, 1)
           D == delivered \cup Emitted(Evictions(b))
<1>1. /\ ~AlreadyProcessed(b)
      /\ 1 \in 1 .. Len(Ring(b)) /\ Ring(b)[1].blockIdx = b
      /\ BlockWF(block) /\ block.blockIdx = b
      /\ block.nPrimary = NPrimary[b] /\ block.nPrimary \in Nat
      /\ block.nForwarded = Ring(b)[1].nForwarded /\ block.nForwarded \in Nat
  BY AcceptedBlock
<1>2. block.nForwarded < NPrimary[b]
  BY AcceptedIsUnfinished
<1>3. /\ NewLast(b) \in Nat /\ QueueWF(Ring(b), NewLast(b)) /\ QueueFollows(Ring(b), D)
  BY <1>1, RingFacts
<1>4. /\ Ring(b) \in Seq(RxBlockType) /\ Len(Ring(b)) \in Nat /\ Ring(b) # <<>>
  BY <1>1, <1>3, LenProperties DEF QueueWF
<1>5. FrontForwarded(Ring(b), D) /\ CompleteIn(D) = CompleteIn(delivered)
  BY <1>1, RingAccounting DEF Accounting
<1> HIDE DEF block, D
<1>6. UpTo(D, b, block.nForwarded)
  BY <1>1, <1>3, <1>4 DEF QueueFollows
<1>7. \A g \in 0 .. block.nForwarded - 1 : <<b, g>> \in D
  BY <1>1, <1>4, <1>5 DEF FrontForwarded
<1>8. QED
  BY <1>1, <1>2, <1>3, <1>4, <1>5, <1>6, <1>7 DEF block, D

\* The account after a call that forwards some data of the oldest block,
LEMMA ForwardFrontAccounting ==
    ASSUME IInv, Accounting, NEW b \in BlockIdx, NEW f \in Fragments(b),
           ForwardFront(b, f)
    PROVE  Accounting'
<1> DEFINE block == WithFragment(b, f, 1)
           pulled == Pulled(block, FALSE)
           n == pulled.nForwarded
           a == block.nForwarded
           D == delivered \cup Emitted(Evictions(b))
           s == <<Batch(block, FALSE)>>
           r == Ring(b)
           new == [r EXCEPT ![1] = pulled]
           D2 == D \cup Emitted(s)
<1>1. /\ Accepted(b, f, 1)
      /\ ~allPrimaryFragmentsHaveBeenForwarded(pulled)
      /\ Step(b, new, s, 0, {})
  BY DEF ForwardFront
<1>2. /\ ~AlreadyProcessed(b)
      /\ r \in Seq(RxBlockType) /\ 1 \in 1 .. Len(r) /\ Len(r) \in Nat
      /\ BlockWF(block) /\ block.blockIdx = b /\ block.nPrimary = NPrimary[b]
      /\ block.nPrimary \in Nat /\ a \in Nat /\ a < NPrimary[b]
      /\ UpTo(D, b, a) /\ \A g \in 0 .. a - 1 : <<b, g>> \in D
      /\ CompleteIn(D) = CompleteIn(delivered)
  BY <1>1, FrontFacts
<1> HIDE DEF block, D, r
<1>3. block \in RxBlockType
  BY <1>2 DEF BlockWF
<1>4. /\ s \in Seq(BatchType) /\ n \in Nat /\ a <= n
      /\ Emitted(s) = Run(b, a, n)
  BY <1>2, EmittedPull
<1>5. n <= NPrimary[b]
  <2>1. a <= block.nPrimary
    BY <1>2
  <2>2. n <= block.nPrimary
    BY <1>2, <2>1, PullWithinData
  <2>3. QED
    BY <1>2, <2>2
<1>6. pulled.nPrimary = block.nPrimary /\ pulled.blockIdx = b
  BY <1>2, <1>3 DEF Pulled, RxBlockType
<1> HIDE DEF pulled, s
<1>7. n < NPrimary[b]
  <2>1. NPrimary[b] # Unknown
    BY <1>2 DEF Unknown
  <2>2. n # NPrimary[b]
    BY <1>1, <1>2, <1>6, <2>1 DEF allPrimaryFragmentsHaveBeenForwarded
  <2> HIDE DEF n
  <2>3. QED
    BY <1>2, <1>4, <1>5, <2>2
<1> HIDE DEF n, a
<1>8. /\ \A g \in 0 .. n - 1 : <<b, g>> \in D2
      /\ CompleteIn(D2) = CompleteIn(delivered)
  <2> DEFINE E == Emitted(s)
  <2>1. E = Run(b, a, n) /\ D2 = D \cup E
    BY <1>4
  <2> HIDE DEF E, D2
  <2>2. /\ \A g \in 0 .. n - 1 : <<b, g>> \in D \cup E
        /\ CompleteIn(D \cup E) = CompleteIn(D)
    <3> HIDE DEF a, n
    <3>1. /\ a \in Nat /\ a < NPrimary[b] /\ UpTo(D, b, a)
          /\ \A g \in 0 .. a - 1 : <<b, g>> \in D
      BY <1>2
    <3>2. n \in Nat /\ a <= n /\ n <= NPrimary[b] /\ n < NPrimary[b]
      BY <1>4, <1>5, <1>7
    <3>3. QED
      BY <2>1, <3>1, <3>2, SendRun
  <2>3. QED
    BY <1>2, <2>1, <2>2
<1>9. Len(new) = Len(r) /\ new[1] = pulled
  BY <1>2
<1>10. FrontForwarded(new, D2)
  BY <1>6, <1>8, <1>9 DEF FrontForwarded, n
<1> HIDE DEF new
<1>11. Len(new) = (Len(r) - 0) - 0
  BY <1>2, <1>9
<1>12. QED
  BY <1>1, <1>2, <1>4, <1>8, <1>10, <1>11, StepAccounting DEF D, r

\* one that removes the complete oldest block,
LEMMA RemoveFrontAccounting ==
    ASSUME IInv, Accounting, NEW b \in BlockIdx, NEW f \in Fragments(b),
           Accepted(b, f, 1),
           NEW s \in Seq(BatchType), NEW recovered,
           Step(b, Tail(Ring(b)), s, 0, recovered),
           Emitted(s) = Run(b, WithFragment(b, f, 1).nForwarded, NPrimary[b])
    PROVE  Accounting' /\ b \in CompleteIn(delivered')
<1> DEFINE block == WithFragment(b, f, 1)
           a == block.nForwarded
           D == delivered \cup Emitted(Evictions(b))
           r == Ring(b)
           L == NewLast(b)
           new == Tail(r)
           D2 == D \cup Emitted(s)
           n == NPrimary[b]
<1>1. /\ ~AlreadyProcessed(b)
      /\ r \in Seq(RxBlockType) /\ 1 \in 1 .. Len(r) /\ Len(r) \in Nat
      /\ QueueWF(r, L) /\ L \in Int
      /\ a \in Nat /\ a < n /\ n \in Nat
      /\ UpTo(D, b, a) /\ \A g \in 0 .. a - 1 : <<b, g>> \in D
      /\ CompleteIn(D) = CompleteIn(delivered)
  BY FrontFacts
<1>2. a <= n /\ n <= n
  BY <1>1
<1> HIDE DEF block, D, r, L, a, n
<1>3. /\ CompleteIn(D2) = CompleteIn(delivered) \cup {b}
      /\ b \notin CompleteIn(delivered)
  <2>1. Emitted(s) = Run(b, a, n)
    BY DEF a, block, n
  <2>2. n = NPrimary[b]
    BY DEF n
  <2>3. QED
    BY <1>1, <1>2, <2>1, <2>2, SendRun
<1>4. new = SubSeq(r, 1 + 1, Len(r))
  OBVIOUS
<1>5. Len(new) = Len(r) - 1 /\ FrontForwarded(new, D2)
  BY <1>1, <1>4, RestForwarded
<1> HIDE DEF new
<1>6. Len(new) = (Len(r) - 0) - 1 /\ 0 \in 0 .. Len(r)
  BY <1>1, <1>5
<1>7. Step(b, new, s, 0, recovered)
  BY DEF new, r
<1>8. Accounting' /\ delivered' = D2
  BY <1>1, <1>3, <1>5, <1>6, <1>7, StepAccounting DEF D, r
<1> HIDE DEF D2
<1>9. QED
  BY <1>3, <1>8

\* because it has all its data,
LEMMA CompleteFrontAccounting ==
    ASSUME IInv, Accounting, NEW b \in BlockIdx, NEW f \in Fragments(b),
           CompleteFront(b, f)
    PROVE  Accounting' /\ b \in CompleteIn(delivered')
<1> DEFINE block == WithFragment(b, f, 1)
           pulled == Pulled(block, FALSE)
           n == pulled.nForwarded
           a == block.nForwarded
           s == <<Batch(block, FALSE)>>
<1>1. /\ Accepted(b, f, 1)
      /\ allPrimaryFragmentsHaveBeenForwarded(pulled)
      /\ Step(b, Tail(Ring(b)), s, 0, {})
  BY DEF CompleteFront
<1>2. BlockWF(block) /\ block.blockIdx = b /\ block.nPrimary = NPrimary[b]
  BY <1>1, FrontFacts
<1> HIDE DEF block
<1>3. block \in RxBlockType
  BY <1>2 DEF BlockWF
<1>4. s \in Seq(BatchType) /\ Emitted(s) = Run(b, a, n)
  BY <1>2, EmittedPull
<1>5. pulled.nPrimary = NPrimary[b]
  BY <1>2, <1>3 DEF Pulled, RxBlockType
<1>6. n = NPrimary[b]
  BY <1>1, <1>5 DEF allPrimaryFragmentsHaveBeenForwarded
<1> HIDE DEF pulled, n, s
<1>7. Emitted(s) = Run(b, WithFragment(b, f, 1).nForwarded, NPrimary[b])
  BY <1>4, <1>6 DEF block
<1>8. QED
  BY <1>1, <1>4, <1>7, RemoveFrontAccounting

\* or because FEC rebuilds what is missing,
LEMMA RecoverFrontAccounting ==
    ASSUME IInv, Accounting, NEW b \in BlockIdx, NEW f \in Fragments(b),
           RecoverFront(b, f)
    PROVE  Accounting' /\ b \in CompleteIn(delivered')
<1> DEFINE block == WithFragment(b, f, 1)
           pulled == Pulled(block, FALSE)
           rebuilt == reconstructAllMissingData(pulled)
           p == pulled.nForwarded
           a == block.nForwarded
           n == NPrimary[b]
           x == Batch(block, FALSE)
           y == Batch(rebuilt, FALSE)
           s == <<x>>
           t == <<y>>
           u == <<x, y>>
<1>1. Accepted(b, f, 1) /\ Step(b, Tail(Ring(b)), u, 0, MissingPrimary(block))
  BY Zenon DEF RecoverFront
<1>2. /\ BlockWF(block) /\ block.blockIdx = b /\ block.nPrimary = NPrimary[b]
      /\ block.nPrimary \in Nat /\ n \in Nat
      /\ block.nForwarded \in Nat /\ block.nForwarded < NPrimary[b]
  BY <1>1, FrontFacts
<1> HIDE DEF block
<1>3. block \in RxBlockType /\ block.nForwarded <= block.nPrimary
  BY <1>2 DEF BlockWF
<1>4. /\ s \in Seq(BatchType) /\ p \in Nat /\ a <= p
      /\ Emitted(s) = Run(b, a, p)
  <2>1. s = <<Batch(block, FALSE)>>
    OBVIOUS
  <2> HIDE DEF s, x
  <2>2. QED
    BY <1>2, <2>1, EmittedPull
<1>5. /\ BlockWF(pulled) /\ pulled.blockIdx = b /\ pulled.nPrimary = n
      /\ p <= n
  <2>1. BlockWF(pulled)
    BY <1>2, PullExtendsPrefix
  <2>2. pulled.blockIdx = b /\ pulled.nPrimary = n
    BY <1>2, <1>3 DEF Pulled, RxBlockType
  <2>3. p <= block.nPrimary
    BY <1>2, <1>3, PullWithinData
  <2>4. QED
    BY <1>2, <2>1, <2>2, <2>3
<1> HIDE DEF pulled
<1>6. /\ BlockWF(rebuilt) /\ rebuilt.blockIdx = b
      /\ rebuilt.nForwarded = p
  BY <1>2, <1>5, ReconstructWF
<1>7. Pulled(rebuilt, FALSE).nForwarded = n
  BY <1>2, <1>5, RebuiltIsForwarded
<1> HIDE DEF rebuilt
<1>8. t \in Seq(BatchType) /\ Emitted(t) = Run(b, p, n)
  <2>1. t = <<Batch(rebuilt, FALSE)>>
    OBVIOUS
  <2> HIDE DEF t, y
  <2>2. QED
    BY <1>6, <1>7, <2>1, EmittedPull
<1>9. u \in Seq(BatchType) /\ Emitted(u) = Emitted(s) \cup Emitted(t)
  <2>1. x \in BatchType /\ y \in BatchType
    <3> HIDE DEF x, y
    <3>1. QED
      BY <1>4, <1>8, SingletonElement
  <2> HIDE DEF x, y
  <2>2. u = s \o t
    BY <2>1, ConcatPair
  <2> HIDE DEF u, s, t
  <2>3. QED
    BY <1>4, <1>8, <2>2, EmittedConcat, ConcatProperties
<1> HIDE DEF u, s, t, p
<1>10. Emitted(u) = Run(b, a, n)
  <2>1. a .. n - 1 = (a .. p - 1) \cup (p .. n - 1)
    BY <1>2, <1>4, <1>5
  <2> HIDE DEF a, n
  <2>2. QED
    BY <1>4, <1>8, <1>9, <2>1 DEF Run
<1>11. QED
  BY <1>1, <1>9, <1>10, RemoveFrontAccounting DEF block

\* after one that only stores a fragment of a later block,
LEMMA StoreBehindAccounting ==
    ASSUME IInv, Accounting, NEW b \in BlockIdx, NEW f \in Fragments(b),
           NEW i \in 2 .. RX_QUEUE_MAX_SIZE, StoreBehind(b, f, i)
    PROVE  Accounting'
<1> DEFINE block == WithFragment(b, f, i)
           D == delivered \cup Emitted(Evictions(b))
           r == Ring(b)
           new == [r EXCEPT ![i] = block]
           none == <<>>
           D2 == D \cup Emitted(none)
<1>1. Accepted(b, f, i) /\ Step(b, new, none, 0, {})
  BY DEF StoreBehind
<1>2. ~AlreadyProcessed(b) /\ i \in 1 .. Len(r)
  BY <1>1, AcceptedBlock
<1>3. r \in Seq(RxBlockType) /\ Len(r) \in Nat
  BY <1>2, RingFacts, LenProperties DEF QueueWF
<1>4. FrontForwarded(r, D) /\ CompleteIn(D) = CompleteIn(delivered)
  BY <1>2, RingAccounting DEF Accounting
<1>5. none \in Seq(BatchType) /\ D2 = D
  BY DEF Emitted
<1> HIDE DEF block, D, r, none
<1>6. i # 1
  BY DecoderAssumption
<1>7. Len(new) = Len(r) /\ new[1] = r[1] /\ r # <<>>
  BY <1>2, <1>3, <1>6
<1>8. FrontForwarded(new, D2)
  BY <1>4, <1>5, <1>7 DEF FrontForwarded
<1> HIDE DEF new, D2
<1>9. Len(new) = (Len(r) - 0) - 0 /\ 0 \in 0 .. Len(r)
  BY <1>3, <1>7
<1>10. CompleteIn(D2) = CompleteIn(delivered)
  BY <1>4, <1>5
<1>11. D2 = (delivered \cup Emitted(Evictions(b))) \cup Emitted(none)
  BY DEF D2, D
<1>12. 0 \in 0 .. Len(Ring(b)) /\ Len(new) = (Len(Ring(b)) - 0) - 0
  BY <1>9 DEF r
<1>13. PICK c \in {0, 1} : c = 0
  OBVIOUS
<1>14. /\ c = 0 => CompleteIn(D2) = CompleteIn(delivered)
       /\ c = 1 => /\ CompleteIn(D2) = CompleteIn(delivered) \cup {b}
                   /\ b \notin CompleteIn(delivered)
       /\ Len(new) = (Len(Ring(b)) - 0) - c
  BY <1>10, <1>12, <1>13
<1>15. QED
  BY <1>1, <1>2, <1>5, <1>8, <1>11, <1>12, <1>14, StepAccounting, Zenon

\* after one that completes a later block and gives up those before it,
LEMMA FlushAccounting ==
    ASSUME IInv, Accounting, NEW b \in BlockIdx, NEW f \in Fragments(b),
           NEW i \in 2 .. RX_QUEUE_MAX_SIZE, Flush(b, f, i)
    PROVE  Accounting' /\ b \in CompleteIn(delivered')
<1> DEFINE block == WithFragment(b, f, i)
           rebuilt == reconstructAllMissingData(block)
           D == delivered \cup Emitted(Evictions(b))
           r == Ring(b)
           k == i - 1
           n == NPrimary[b]
           e == Batch(rebuilt, FALSE)
           s == [j \in 1 .. k |-> Batch(r[j], m_forward_gapped_fragments)]
           t == <<e>>
           u == Append(s, e)
           new == SubSeq(r, i + 1, Len(r))
           L == NewLast(b)
           D1 == D \cup Emitted(s)
           D2 == D \cup Emitted(u)
<1>1. Accepted(b, f, i) /\ Step(b, new, u, k, MissingPrimary(block))
  BY Zenon DEF Flush
<1>2. /\ ~AlreadyProcessed(b)
      /\ i \in 1 .. Len(r) /\ r[i].blockIdx = b
      /\ BlockWF(block) /\ block.blockIdx = b
      /\ block.nPrimary = n /\ n \in Nat
      /\ block.nForwarded = r[i].nForwarded
  BY <1>1, AcceptedBlock
<1>3. /\ L \in Int /\ QueueWF(r, L) /\ DataUpTo(D, L) /\ QueueFollows(r, D)
      /\ Len(r) \in Nat
  BY <1>2, RingFacts
<1>4. CompleteIn(D) = CompleteIn(delivered)
  BY <1>2, RingAccounting DEF Accounting
<1>5. k \in 0 .. Len(r) /\ k < Len(r) /\ k + 1 = i /\ k # 0 /\ i > 1
  BY <1>2, <1>3, DecoderAssumption
<1> HIDE DEF block, rebuilt, D, r, k, n, t, new, L
<1>6. PICK d \in BOOLEAN : d = m_forward_gapped_fragments
  BY DecoderAssumption
<1>7. s = [j \in 1 .. k |-> Batch(r[j], d)]
  BY <1>6, Zenon
<1> HIDE DEF s
<1>8. /\ s \in Seq(BatchType) /\ Len(s) = k
      /\ \A j \in 1 .. k : s[j].block = r[j].blockIdx /\ DataOf(r[j], s[j].frags)
  <2> HIDE <1>6
  <2>1. QED
    BY <1>3, <1>5, <1>7, BatchesOfQueue
<1>9. \A j \in 1 .. k : /\ s[j].block = r[j].blockIdx
                        /\ s[j].frags \subseteq r[j].fragment_map
  <2> HIDE <1>6
  <2>1. \A j \in 1 .. k : s[j].frags \subseteq r[j].fragment_map
    BY <1>7 DEF Batch, Pull
  <2>2. QED
    BY <1>8, <2>1
<1>10. CompleteIn(D1) = CompleteIn(D)
  <2> HIDE <1>6, <1>7
  <2>1. s \in Seq(BatchType) /\ Len(s) = k
    BY <1>8
  <2>2. CompleteIn(D \cup Emitted(s)) = CompleteIn(D)
    <3> HIDE DEF D1
    <3>1. QED
      BY <1>3, <1>5, <1>9, <2>1, GivenUpAreIncomplete
  <2>3. QED
    BY <2>2
<1>11. UpTo(D1, b, 0)
  <2> HIDE <1>6, <1>7
  <2>1. UpTo(D1, r[k + 1].blockIdx, 0)
    BY <1>3, <1>5, <1>8, PullQueue
  <2>2. QED
    BY <1>2, <1>5, <2>1
<1> HIDE <1>6, <1>7
<1>12. block.nForwarded = 0
  BY <1>2, <1>3, <1>5 DEF QueueWF
<1>13. /\ BlockWF(rebuilt) /\ rebuilt.blockIdx = b /\ rebuilt.nForwarded = 0
       /\ Pulled(rebuilt, FALSE).nForwarded = n
  <2>1. block.nForwarded <= block.nPrimary /\ block.nPrimary \in Nat
    BY <1>2, <1>12
  <2>2. /\ BlockWF(rebuilt) /\ rebuilt.blockIdx = block.blockIdx
        /\ rebuilt.nForwarded = block.nForwarded
    BY <1>2, <2>1, ReconstructWF DEF rebuilt
  <2>3. Pulled(rebuilt, FALSE).nForwarded = block.nPrimary
    BY <1>2, <2>1, RebuiltIsForwarded DEF rebuilt
  <2>4. QED
    BY <1>2, <1>12, <2>2, <2>3
<1>14. t \in Seq(BatchType) /\ Emitted(t) = Run(b, 0, n)
  <2>1. t = <<Batch(rebuilt, FALSE)>>
    BY DEF t
  <2>2. QED
    BY <1>13, <2>1, EmittedPull
<1>15. u \in Seq(BatchType) /\ Emitted(u) = Emitted(s) \cup Emitted(t)
  <2>1. e \in BatchType
    <3> HIDE DEF e
    <3>1. QED
      BY <1>14, SingletonElement DEF t
  <2> HIDE DEF e
  <2>2. u = s \o t
    BY <1>8, <2>1, AppendIsConcat DEF t
  <2> HIDE DEF u
  <2>3. QED
    BY <1>8, <1>14, <2>2, EmittedConcat, ConcatProperties
<1> HIDE DEF e, u
<1>16. D2 = D1 \cup Emitted(t)
  BY <1>15
<1> HIDE DEF D1
<1>17. /\ CompleteIn(D2) = CompleteIn(delivered) \cup {b}
       /\ b \notin CompleteIn(delivered)
  <2>1. n = NPrimary[b] /\ 0 < n /\ 0 <= n /\ n <= n /\ 0 \in Nat
    BY <1>2, LayoutAssumption DEF n
  <2>2. \A g \in 0 .. 0 - 1 : <<b, g>> \in D1
    OBVIOUS
  <2> HIDE DEF D2
  <2>3. /\ CompleteIn(D1 \cup Emitted(t)) = CompleteIn(D1) \cup {b}
        /\ b \notin CompleteIn(D1)
    BY <1>2, <1>11, <1>14, <2>1, <2>2, SendRun
  <2>4. QED
    BY <1>4, <1>10, <1>16, <2>3
<1>18. Len(new) = (Len(r) - k) - 1 /\ FrontForwarded(new, D2)
  <2>1. Len(new) = Len(r) - i /\ FrontForwarded(new, D2)
    BY <1>2, <1>3, RestForwarded DEF new
  <2>2. QED
    BY <1>3, <1>5, <2>1
<1>19. D2 = (delivered \cup Emitted(Evictions(b))) \cup Emitted(u)
  BY DEF D
<1>20. k \in 0 .. Len(Ring(b)) /\ Len(new) = (Len(Ring(b)) - k) - 1
  BY <1>5, <1>18 DEF r
<1> HIDE DEF D2
<1>21. PICK c \in {0, 1} : c = 1
  OBVIOUS
<1>22. /\ c = 0 => CompleteIn(D2) = CompleteIn(delivered)
       /\ c = 1 => /\ CompleteIn(D2) = CompleteIn(delivered) \cup {b}
                   /\ b \notin CompleteIn(delivered)
       /\ Len(new) = (Len(Ring(b)) - k) - c
  BY <1>17, <1>20, <1>21
<1>23. Accounting' /\ delivered' = D2
  BY <1>1, <1>2, <1>15, <1>18, <1>19, <1>20, <1>22, StepAccounting, Zenon
<1>24. QED
  BY <1>17, <1>23

\* and after a reset, which starts a new account.
LEMMA ResetAccounting ==
    ASSUME IInv, reset_rx_queue
    PROVE  Accounting'
<1>1. /\ rx_queue' = <<>> /\ last_known_block' = NoBlock /\ delivered' = {}
      /\ session' = [first |-> NoBlock, lostBefore |-> stats.lost]
      /\ stats' = stats
  BY DEF reset_rx_queue
<1>2. FrontForwarded(rx_queue', delivered')
  BY <1>1 DEF FrontForwarded
<1>3. stats'.lost = session'.lostBefore /\ session'.first = NoBlock
  BY <1>1
<1>4. BlocksAccounted'
  BY <1>1 DEF BlocksAccounted
<1>5. QED
  BY <1>1, <1>2, <1>3, <1>4 DEF Accounting

\* Every call keeps the account.
LEMMA NextAccounting ==
    ASSUME IInv, Accounting, [Next]_vars
    PROVE  Accounting'
<1>1. CASE reset_rx_queue
  BY <1>1, ResetAccounting
<1>2. ASSUME UNCHANGED <<rx_queue, last_known_block, stats, delivered, session>>
      PROVE  Accounting'
  BY <1>2 DEF Accounting, BlocksAccounted, CompleteBlocks
<1>3. ASSUME NEW b \in BlockIdx, NEW f \in Fragments(b), process_valid_packet(b, f)
      PROVE  Accounting'
  <2>1. CASE Ignore(b, f)
    BY <1>2, <2>1 DEF Ignore
  <2>2. CASE ForwardFront(b, f)
    BY <2>2, ForwardFrontAccounting
  <2>3. CASE CompleteFront(b, f)
    BY <2>3, CompleteFrontAccounting
  <2>4. CASE RecoverFront(b, f)
    BY <2>4, RecoverFrontAccounting
  <2>5. CASE \E i \in 2 .. RX_QUEUE_MAX_SIZE : StoreBehind(b, f, i)
    BY <2>5, StoreBehindAccounting
  <2>6. CASE \E i \in 2 .. RX_QUEUE_MAX_SIZE : Flush(b, f, i)
    BY <2>6, FlushAccounting
  <2>7. QED
    BY <1>3, <2>1, <2>2, <2>3, <2>4, <2>5, <2>6 DEF process_valid_packet
<1>4. CASE UNCHANGED vars
  BY <1>2, <1>4 DEF vars
<1>5. QED
  BY <1>1, <1>3, <1>4 DEF Next

\* Every block between the first and the newest one of a session is completely
\* forwarded, counted as lost, or still queued, and only one of these: what the
\* ground reports as lost is what the viewer did not get.
THEOREM BlocksAreAccounted == Spec => []BlocksAccounted
<1>1. Init => Accounting
  BY DEF Init, Accounting, FrontForwarded, BlocksAccounted
<1>2. IInv /\ Accounting /\ [Next]_vars => Accounting'
  BY NextAccounting
<1>3. Accounting => BlocksAccounted
  BY DEF Accounting
<1>4. QED
  BY <1>1, <1>2, <1>3, Invariance, PTL DEF Spec


-----------------------------------------------------------------------------
(***************************************************************************)
(* From here on about FECLink: the sender, the air and the decoder.        *)
(***************************************************************************)

\* The number of fragments of block b.
Size(b) == NPrimary[b] + NSecondary[b]

\* How many fragments of block b have left the air.
Gone(b) ==
    IF b < n_arrived THEN Size(b)
    ELSE IF b = n_arrived /\ air # <<>> THEN air[1][2] ELSE 0

\* The packet sent after packet p.
Successor(p) ==
    IF p[2] + 1 < Size(p[1]) THEN <<p[1], p[2] + 1>> ELSE <<p[1] + 1, 0>>

\* What is on air is the end of what was encoded, without a gap.
AirOK ==
    /\ n_encoded \in 0 .. MaxBlocks
    /\ m_curr_block_idx = n_encoded % IdxModulus
    /\ n_arrived \in 0 .. n_encoded
    /\ lost_on_air \in [BlockIdx -> Nat]
    /\ air \in Seq(BlockIdx \X Nat)
    /\ \A i \in 1 .. Len(air) :
           air[i][1] < n_encoded /\ air[i][2] < Size(air[i][1])
    /\ \A i \in 1 .. Len(air) - 1 : air[i + 1] = Successor(air[i])
    /\ air = <<>> => n_arrived = n_encoded
    /\ air # <<>> => /\ air[1][1] = n_arrived
                     /\ Successor(air[Len(air)]) = <<n_encoded, 0>>

\* How many of the fragments below g are in M.
Got(M, g) == Cardinality({f \in M : f < g})

\* What became of block b: its data is complete, it waits with every fragment
\* that was not lost, no packet of it or of a later block has arrived, or it
\* was given up because more was lost than FEC can replace.
Followed(b) ==
    \/ b \in CompleteIn(delivered)
    \/ \E i \in 1 .. Len(rx_queue) :
           /\ rx_queue[i].blockIdx = b
           /\ Gone(b) <= Got(rx_queue[i].fragment_map, Gone(b)) + lost_on_air[b]
    \/ last_known_block < b /\ Gone(b) <= lost_on_air[b]
    \/ b < n_arrived /\ lost_on_air[b] > NSecondary[b]

LinkInv ==
    /\ IInv /\ Accounting /\ AirOK
    /\ session.lostBefore = 0
    /\ last_known_block <= n_arrived /\ last_known_block < n_encoded
    /\ \A b \in 0 .. n_encoded - 1 : Followed(b)

-----------------------------------------------------------------------------
(* What one packet does to the receive queue.                              *)

\* Every block of r is a block of q with at least the fragments it had.
Keeps(q, r) ==
    \A j \in 1 .. Len(r) : \E i \in 1 .. Len(q) :
        /\ q[i].blockIdx = r[j].blockIdx
        /\ q[i].fragment_map \subseteq r[j].fragment_map

\* Fragment f of block b is in q.
Holds(q, b, f) ==
    \E j \in 1 .. Len(q) : q[j].blockIdx = b /\ f \in q[j].fragment_map

\* A block of the ring was queued before, or is newer than all that was seen.
LEMMA RingKeeps ==
    ASSUME IInv, NEW b \in BlockIdx, ~AlreadyProcessed(b),
           NEW k \in 1 .. Len(Ring(b))
    PROVE  \/ last_known_block < Ring(b)[k].blockIdx
           \/ \E i \in 1 .. Len(rx_queue) : rx_queue[i] = Ring(b)[k]
<1> DEFINE n == NEvicted(b)
           m == NNewBlocks(b)
           r == Ring(b)
           e == Len(rx_queue) - n
<1>1. /\ m \in Nat /\ n \in 0 .. Len(rx_queue)
      /\ m > 0 => last_known_block < (b - m) + 1
      /\ b \in Nat /\ last_known_block \in Int /\ Len(rx_queue) \in Nat
  BY RingNumbers, LayoutAssumption, LenProperties DEF IInv, TypeOK, NoBlock
<1>2. /\ Len(r) = e + m
      /\ \A i \in 1 .. e + m :
             \/ /\ n < Len(rx_queue) /\ i <= e
                /\ r[i] = rx_queue[n + i] /\ n + i \in 1 .. Len(rx_queue)
             \/ /\ m > 0 /\ ~(i <= e)
                /\ i - e \in 1 .. m
                /\ r[i] = NewRxBlock((b - m) + (i - e))
  BY RingElements
<1> HIDE DEF n, m, r, e
<1>3. k \in 1 .. e + m
  BY <1>2 DEF r
<1>4. CASE r[k] = rx_queue[n + k] /\ n + k \in 1 .. Len(rx_queue)
  BY <1>4 DEF r
<1>5. CASE m > 0 /\ k - e \in 1 .. m /\ r[k] = NewRxBlock((b - m) + (k - e))
  <2>1. r[k].blockIdx = (b - m) + (k - e)
    BY <1>5 DEF NewRxBlock
  <2>2. e \in Int
    BY <1>1 DEF e
  <2>3. last_known_block < (b - m) + (k - e)
    BY <1>1, <1>3, <1>5, <2>2
  <2>4. QED
    BY <2>1, <2>3 DEF r
<1>6. QED
  BY <1>2, <1>3, <1>4, <1>5

\* The blocks of the ring with the new fragment in the i-th one.
LEMMA ReplaceKeeps ==
    ASSUME NEW r \in Seq(RxBlockType), NEW i \in 1 .. Len(r),
           NEW block \in RxBlockType, block.blockIdx = r[i].blockIdx,
           r[i].fragment_map \subseteq block.fragment_map,
           NEW f \in block.fragment_map
    PROVE  /\ Keeps(r, [r EXCEPT ![i] = block])
           /\ Holds([r EXCEPT ![i] = block], block.blockIdx, f)
<1> DEFINE new == [r EXCEPT ![i] = block]
<1>1. /\ Len(new) = Len(r) /\ new[i] = block
      /\ \A j \in 1 .. Len(r) : j # i => new[j] = r[j]
  OBVIOUS
<1> HIDE DEF new
<1>2. Keeps(r, new)
  <2>1. ASSUME NEW j \in 1 .. Len(r)
        PROVE  /\ r[j].blockIdx = new[j].blockIdx
               /\ r[j].fragment_map \subseteq new[j].fragment_map
    BY <1>1
  <2>2. QED
    BY <1>1, <2>1 DEF Keeps
<1>3. Holds(new, block.blockIdx, f)
  BY <1>1 DEF Holds
<1>4. QED
  BY <1>2, <1>3 DEF new

\* The end of the ring.
LEMMA SuffixKeeps ==
    ASSUME NEW r \in Seq(RxBlockType), NEW i \in 1 .. Len(r)
    PROVE  Keeps(r, SubSeq(r, i + 1, Len(r)))
<1> DEFINE new == SubSeq(r, i + 1, Len(r))
<1>1. Len(r) \in Nat
  BY LenProperties
<1>2. /\ Len(new) = IF i + 1 <= Len(r) THEN (Len(r) - (i + 1)) + 1 ELSE 0
      /\ \A j \in 1 .. (Len(r) - (i + 1)) + 1 : new[j] = r[(i + 1) + j - 1]
  BY <1>1, SubSeqProperties
<1> HIDE DEF new
<1>3. ASSUME NEW j \in 1 .. Len(new)
      PROVE  i + j \in 1 .. Len(r) /\ new[j] = r[i + j]
  <2>1. j \in 1 .. (Len(r) - (i + 1)) + 1
    BY <1>1, <1>2
  <2>2. new[j] = r[(i + 1) + j - 1]
    BY <1>2, <2>1
  <2>3. (i + 1) + j - 1 = i + j /\ i + j \in 1 .. Len(r)
    BY <1>1, <2>1
  <2>4. QED
    BY <2>2, <2>3
<1>4. QED
  BY <1>3 DEF Keeps, new

\* What a call for fragment f of block b does: nothing sent up is taken back,
\* queued fragments stay as long as their block does, and the fragment is in
\* the queue unless its block is complete or was removed before.
PacketEffect(b, f) ==
    /\ delivered \subseteq delivered'
    /\ session'.lostBefore = session.lostBefore
    /\ last_known_block' = IF last_known_block < b THEN b ELSE last_known_block
    /\ \A j \in 1 .. Len(rx_queue') :
           \/ last_known_block < rx_queue'[j].blockIdx
           \/ \E i \in 1 .. Len(rx_queue) :
                  /\ rx_queue[i].blockIdx = rx_queue'[j].blockIdx
                  /\ rx_queue[i].fragment_map \subseteq rx_queue'[j].fragment_map
    /\ \/ b \in CompleteIn(delivered')
       \/ b <= last_known_block /\ ~InQueue(b)
       \/ Holds(rx_queue', b, f)

\* A call that is not ignored, by what it makes of the ring.
LEMMA StepEffect ==
    ASSUME IInv, NEW b \in BlockIdx, ~AlreadyProcessed(b), NEW f,
           NEW queue, NEW batches, NEW nFlushed, NEW recovered,
           Step(b, queue, batches, nFlushed, recovered),
           Keeps(Ring(b), queue),
           Holds(queue, b, f) \/ b \in CompleteIn(delivered')
    PROVE  PacketEffect(b, f)
<1>1. /\ rx_queue' = queue
      /\ last_known_block' = IF InQueue(b) THEN last_known_block ELSE b
      /\ delivered \subseteq delivered'
      /\ session' = [session EXCEPT !.first = IF @ = NoBlock THEN b ELSE @]
  BY DEF Step
<1>2. /\ session \in [first: Nat \cup {NoBlock}, lostBefore: Nat]
      /\ b \in Nat /\ last_known_block \in Nat \cup {-1}
      /\ rx_queue \in Seq(RxBlockType) /\ Len(rx_queue) \in Nat
      /\ DOMAIN rx_queue = 1 .. Len(rx_queue)
  BY LayoutAssumption, LenProperties DEF IInv, TypeOK, NoBlock
<1>3. session'.lostBefore = session.lostBefore
  BY <1>1, <1>2
<1>4. last_known_block' = IF last_known_block < b THEN b ELSE last_known_block
  <2>1. CASE InQueue(b)
    <3>1. PICK i \in 1 .. Len(rx_queue) : rx_queue[i].blockIdx = b
      BY <1>2, <2>1 DEF InQueue
    <3>2. rx_queue[i].blockIdx = (last_known_block - Len(rx_queue)) + i
      BY DEF IInv, QueueWF
    <3>3. b <= last_known_block
      BY <1>2, <3>1, <3>2
    <3>4. QED
      BY <1>1, <1>2, <2>1, <3>3
  <2>2. CASE ~InQueue(b)
    <3>1. last_known_block < b
      BY <1>2, <2>2 DEF AlreadyProcessed, NoBlock
    <3>2. QED
      BY <1>1, <2>2, <3>1
  <2>3. QED
    BY <2>1, <2>2
<1>5. ASSUME NEW j \in 1 .. Len(queue)
      PROVE  \/ last_known_block < queue[j].blockIdx
             \/ \E i \in 1 .. Len(rx_queue) :
                    /\ rx_queue[i].blockIdx = queue[j].blockIdx
                    /\ rx_queue[i].fragment_map \subseteq queue[j].fragment_map
  <2>1. PICK k \in 1 .. Len(Ring(b)) :
            /\ Ring(b)[k].blockIdx = queue[j].blockIdx
            /\ Ring(b)[k].fragment_map \subseteq queue[j].fragment_map
    BY DEF Keeps
  <2>2. QED
    BY <2>1, RingKeeps
<1>6. QED
  BY <1>1, <1>3, <1>4, <1>5 DEF PacketEffect

\* The block of an accepted fragment has it and what it had before.
LEMMA AcceptedKeeps ==
    ASSUME IInv, NEW b \in BlockIdx, NEW f \in Fragments(b), NEW i,
           Accepted(b, f, i)
    PROVE  LET block == WithFragment(b, f, i)
           IN  /\ ~AlreadyProcessed(b)
               /\ Ring(b) \in Seq(RxBlockType)
               /\ i \in 1 .. Len(Ring(b)) /\ Ring(b)[i].blockIdx = b
               /\ BlockWF(block) /\ block.blockIdx = b
               /\ Ring(b)[i].fragment_map \subseteq block.fragment_map
               /\ f \in block.fragment_map
<1>1. /\ ~AlreadyProcessed(b)
      /\ i \in 1 .. Len(Ring(b)) /\ Ring(b)[i].blockIdx = b
      /\ BlockWF(WithFragment(b, f, i)) /\ WithFragment(b, f, i).blockIdx = b
  BY AcceptedBlock
<1>2. Ring(b) \in Seq(RxBlockType)
  BY <1>1, RingElements
<1>3. Ring(b)[i] \in RxBlockType
  BY <1>1, <1>2, ElementOfSeq
<1>4. WithFragment(b, f, i).fragment_map = Ring(b)[i].fragment_map \cup {f}
  BY <1>3 DEF WithFragment, addFragment, RxBlockType
<1>5. QED
  BY <1>1, <1>2, <1>4

\* Every call that receives a fragment has this effect.
LEMMA ProcessEffect ==
    ASSUME IInv, Accounting, NEW b \in BlockIdx, NEW f \in Fragments(b),
           f < maxNFragmentsPerBlock, process_valid_packet(b, f)
    PROVE  PacketEffect(b, f)
<1> DEFINE r == Ring(b)
<1>1. /\ rx_queue \in Seq(RxBlockType) /\ Len(rx_queue) \in Nat
      /\ DOMAIN rx_queue = 1 .. Len(rx_queue)
      /\ f \in Nat /\ b \in Nat /\ maxNFragmentsPerBlock \in Nat
      /\ last_known_block \in Nat \cup {-1}
      /\ Len(rx_queue) <= RX_QUEUE_MAX_SIZE
  BY LayoutAssumption, LenProperties DEF IInv, TypeOK, NoBlock, Fragments, QueueWF
<1>2. CASE Ignore(b, f)
  <2>1. UNCHANGED <<rx_queue, last_known_block, stats, delivered, session>>
    BY <1>2 DEF Ignore
  <2>2. \/ b <= last_known_block /\ ~InQueue(b)
        \/ \E j \in 1 .. Len(rx_queue) :
               rx_queue[j].blockIdx = b /\ f \in rx_queue[j].fragment_map
    BY <1>1, <1>2 DEF Ignore, AlreadyProcessed, hasFragment
  <2>3. ~(last_known_block < b)
    <3>1. ASSUME NEW j \in 1 .. Len(rx_queue), rx_queue[j].blockIdx = b
          PROVE  b <= last_known_block
      <4>1. rx_queue[j].blockIdx = (last_known_block - Len(rx_queue)) + j
        BY DEF IInv, QueueWF
      <4>2. QED
        BY <1>1, <3>1, <4>1
    <3>2. QED
      BY <1>1, <2>2, <3>1
  <2>4. QED
    BY <2>1, <2>2, <2>3 DEF PacketEffect, Holds
<1>3. CASE ForwardFront(b, f)
  <2> DEFINE block == WithFragment(b, f, 1)
             pulled == Pulled(block, FALSE)
             s == <<Batch(block, FALSE)>>
  <2>1. Accepted(b, f, 1) /\ Step(b, [r EXCEPT ![1] = pulled], s, 0, {})
    BY <1>3 DEF ForwardFront
  <2>2. /\ ~AlreadyProcessed(b)
        /\ r \in Seq(RxBlockType) /\ 1 \in 1 .. Len(r) /\ r[1].blockIdx = b
        /\ BlockWF(block) /\ block.blockIdx = b
        /\ r[1].fragment_map \subseteq block.fragment_map
        /\ f \in block.fragment_map
    BY <2>1, AcceptedKeeps
  <2> HIDE DEF block, r
  <2>3. /\ pulled \in RxBlockType /\ pulled.blockIdx = b
        /\ pulled.fragment_map = block.fragment_map
    <3>1. BlockWF(pulled)
      BY <2>2, PullExtendsPrefix
    <3>2. QED
      BY <2>2, <3>1 DEF BlockWF, Pulled, RxBlockType
  <2> HIDE DEF pulled, s
  <2>4. Keeps(r, [r EXCEPT ![1] = pulled]) /\ Holds([r EXCEPT ![1] = pulled], b, f)
    BY <2>2, <2>3, ReplaceKeeps
  <2>5. QED
    BY <2>1, <2>2, <2>4, StepEffect DEF r
<1>4. ASSUME NEW s, NEW recovered, Accepted(b, f, 1),
             Step(b, Tail(r), s, 0, recovered), b \in CompleteIn(delivered')
      PROVE  PacketEffect(b, f)
  <2>1. /\ ~AlreadyProcessed(b)
        /\ r \in Seq(RxBlockType) /\ 1 \in 1 .. Len(r)
    BY <1>4, AcceptedKeeps
  <2>2. Tail(r) = SubSeq(r, 1 + 1, Len(r))
    OBVIOUS
  <2>3. Keeps(r, Tail(r))
    <3> HIDE DEF r
    <3>1. QED
      BY <2>1, <2>2, SuffixKeeps
  <2>4. QED
    BY <1>4, <2>1, <2>3, StepEffect
<1>5. CASE CompleteFront(b, f)
  <2>1. b \in CompleteIn(delivered')
    BY <1>5, CompleteFrontAccounting
  <2>2. QED
    BY <1>4, <1>5, <2>1 DEF CompleteFront
<1>6. CASE RecoverFront(b, f)
  <2>1. b \in CompleteIn(delivered')
    BY <1>6, RecoverFrontAccounting
  <2>2. PICK s, recovered : Accepted(b, f, 1) /\ Step(b, Tail(r), s, 0, recovered)
    BY <1>6, Zenon DEF RecoverFront
  <2>3. QED
    BY <1>4, <2>1, <2>2, Zenon
<1>7. ASSUME NEW i \in 2 .. RX_QUEUE_MAX_SIZE, StoreBehind(b, f, i)
      PROVE  PacketEffect(b, f)
  <2> DEFINE block == WithFragment(b, f, i)
  <2>1. Accepted(b, f, i) /\ Step(b, [r EXCEPT ![i] = block], <<>>, 0, {})
    BY <1>7 DEF StoreBehind
  <2>2. /\ ~AlreadyProcessed(b)
        /\ r \in Seq(RxBlockType) /\ i \in 1 .. Len(r) /\ r[i].blockIdx = b
        /\ BlockWF(block) /\ block.blockIdx = b
        /\ r[i].fragment_map \subseteq block.fragment_map
        /\ f \in block.fragment_map
    BY <2>1, AcceptedKeeps
  <2> HIDE DEF block, r
  <2>3. Keeps(r, [r EXCEPT ![i] = block]) /\ Holds([r EXCEPT ![i] = block], b, f)
    BY <2>2, ReplaceKeeps DEF BlockWF
  <2>4. QED
    BY <2>1, <2>2, <2>3, StepEffect DEF r
<1>8. ASSUME NEW i \in 2 .. RX_QUEUE_MAX_SIZE, Flush(b, f, i)
      PROVE  PacketEffect(b, f)
  <2>1. b \in CompleteIn(delivered')
    BY <1>8, FlushAccounting
  <2>2. PICK s, recovered :
            Accepted(b, f, i) /\ Step(b, SubSeq(r, i + 1, Len(r)), s, i - 1, recovered)
    BY <1>8, Zenon DEF Flush
  <2>3. /\ ~AlreadyProcessed(b)
        /\ r \in Seq(RxBlockType) /\ i \in 1 .. Len(r)
    BY <2>2, AcceptedKeeps
  <2>4. Keeps(r, SubSeq(r, i + 1, Len(r)))
    <3> HIDE DEF r
    <3>1. QED
      BY <2>3, SuffixKeeps
  <2>5. QED
    BY <2>1, <2>2, <2>3, <2>4, StepEffect
<1>9. QED
  BY <1>2, <1>3, <1>5, <1>6, <1>7, <1>8 DEF process_valid_packet

-----------------------------------------------------------------------------
(* How many fragments a block has.                                         *)

\* Counting the fragments below a bound.
LEMMA GotFacts ==
    ASSUME NEW M \in SUBSET Nat, IsFiniteSet(M), NEW g \in Nat
    PROVE  /\ Got(M, g) \in Nat
           /\ Got(M, g) <= Got(M, g + 1)
           /\ g \in M => Got(M, g + 1) = Got(M, g) + 1
           /\ Got(M, g) <= Cardinality(M) /\ Cardinality(M) \in Nat
<1> DEFINE A == {f \in M : f < g}
           B == {f \in M : f < g + 1}
<1>1. IsFiniteSet(A) /\ Cardinality(A) <= Cardinality(M)
  <2>1. A \subseteq M
    OBVIOUS
  <2>2. QED
    BY <2>1, FS_Subset
<1>2. IsFiniteSet(B)
  <2>1. B \subseteq M
    OBVIOUS
  <2>2. QED
    BY <2>1, FS_Subset
<1>3. \A f \in M : f \in Nat
  OBVIOUS
<1>4. A \subseteq B /\ g \notin A /\ B \subseteq A \cup {g}
  <2>1. ASSUME NEW x \in Nat
        PROVE  /\ x < g => x < g + 1 /\ x # g
               /\ x < g + 1 => x < g \/ x = g
    OBVIOUS
  <2>2. QED
    BY <1>3, <2>1
<1>5. Cardinality(A) \in Nat /\ Cardinality(B) \in Nat /\ Cardinality(M) \in Nat
  BY <1>1, <1>2, FS_CardinalityType
<1>6. Cardinality(A) <= Cardinality(B)
  BY <1>2, <1>4, FS_Subset
<1>7. ASSUME g \in M
      PROVE  Cardinality(B) = Cardinality(A) + 1
  <2>1. g \notin A /\ B = A \cup {g}
    <3>1. g \in B
      BY <1>7
    <3> HIDE DEF A, B
    <3>2. QED
      BY <1>4, <3>1
  <2> HIDE DEF A, B
  <2>2. QED
    BY <1>1, <2>1, FS_AddElement
<1>8. QED
  BY <1>1, <1>5, <1>6, <1>7 DEF Got

\* More fragments are not fewer below a bound.
LEMMA GotMonotone ==
    ASSUME NEW N, IsFiniteSet(N), NEW M, M \subseteq N, NEW g
    PROVE  Got(M, g) <= Got(N, g)
<1> DEFINE A == {f \in M : f < g}
           B == {f \in N : f < g}
<1>1. A \subseteq B /\ B \subseteq N
  OBVIOUS
<1>2. IsFiniteSet(B)
  BY <1>1, FS_Subset
<1>3. Cardinality(A) <= Cardinality(B)
  BY <1>1, <1>2, FS_Subset
<1>4. QED
  BY <1>3 DEF Got

\* A queued block has fewer fragments than FEC needs.
LEMMA QueuedIsStarved ==
    ASSUME IInv, NEW i \in 1 .. Len(rx_queue),
           rx_queue[i].blockIdx \in BlockIdx
    PROVE  LET block == rx_queue[i]
           IN  /\ block.fragment_map \in SUBSET Nat
               /\ IsFiniteSet(block.fragment_map)
               /\ Cardinality(block.fragment_map) < NPrimary[block.blockIdx]
               /\ block.blockIdx = (last_known_block - Len(rx_queue)) + i
               /\ block.blockIdx <= last_known_block
<1> DEFINE block == rx_queue[i]
<1>1. /\ BlockWF(block) /\ ~allPrimaryFragmentsCanBeRecovered(block)
      /\ block.blockIdx = (last_known_block - Len(rx_queue)) + i
  BY DEF IInv, QueueWF
<1>2. block.blockIdx <= last_known_block
  <2>1. last_known_block \in Int /\ Len(rx_queue) \in Nat
    BY LenProperties DEF IInv, TypeOK, NoBlock
  <2>2. QED
    BY <1>1, <2>1
<1>3. NPrimary[block.blockIdx] \in Nat /\ NPrimary[block.blockIdx] >= 1
  <2>1. \A b \in BlockIdx : NPrimary[b] \in Nat /\ NPrimary[b] >= 1
    BY LayoutAssumption
  <2>2. QED
    BY <2>1
<1> HIDE DEF block
<1>4. block.fragment_map \in SUBSET Nat /\ IsFiniteSet(block.fragment_map)
  BY <1>1 DEF BlockWF, RxBlockType
<1>5. CASE block.nPrimary = Unknown
  <2>1. Cardinality(block.fragment_map) = 0
    BY <1>1, <1>5, FS_EmptySet DEF BlockWF
  <2>2. QED
    BY <1>1, <1>2, <1>3, <1>4, <2>1 DEF block
<1>6. CASE block.nPrimary # Unknown
  <2>1. Cardinality(block.fragment_map) < block.nPrimary
    BY <1>1, <1>6, TooFewFragments
  <2>2. block.nPrimary = NPrimary[block.blockIdx]
    BY <1>1, <1>6 DEF BlockWF
  <2>3. QED
    BY <1>1, <1>2, <1>4, <2>1, <2>2 DEF block
<1>7. QED
  BY <1>5, <1>6

-----------------------------------------------------------------------------
(* The air.                                                                *)

\* The layout of a block on air.
LEMMA SizeFacts ==
    ASSUME NEW b \in BlockIdx
    PROVE  /\ b \in Nat /\ NPrimary[b] \in Nat /\ NSecondary[b] \in Nat
           /\ NPrimary[b] >= 1
           /\ Size(b) \in Nat /\ Size(b) >= 1 /\ Size(b) > NSecondary[b]
           /\ Size(b) = NPrimary[b] + NSecondary[b]
           /\ Size(b) <= maxNFragmentsPerBlock
           /\ \A f : f \in Fragments(b) <=> f \in Nat /\ f < Size(b)
<1>1. /\ b \in Nat /\ NPrimary[b] \in Nat /\ NSecondary[b] \in Nat
      /\ NPrimary[b] >= 1
      /\ NPrimary[b] + NSecondary[b] <= maxNFragmentsPerBlock
  BY LayoutAssumption, LinkAssumption
<1>2. QED
  BY <1>1 DEF Size, Fragments

\* The first packet on air.
LEMMA HeadFacts ==
    ASSUME AirOK, air # <<>>
    PROVE  LET h == air[1][1]
               f == air[1][2]
           IN  /\ Head(air) = <<h, f>> /\ Head(air)[1] = h /\ Head(air)[2] = f
               /\ h \in BlockIdx /\ h = n_arrived /\ h < n_encoded
               /\ f \in Fragments(h) /\ f \in Nat /\ f < Size(h)
               /\ f < maxNFragmentsPerBlock
               /\ Gone(h) = f
               /\ n_encoded \in Nat /\ n_arrived \in Nat
               /\ Len(air) \in Nat /\ Len(air) >= 1
<1>1. /\ air \in Seq(BlockIdx \X Nat) /\ Len(air) \in Nat /\ Len(air) >= 1
      /\ n_encoded \in Nat /\ n_arrived \in Nat
  BY LenProperties, EmptySeq, LinkAssumption DEF AirOK
<1>2. air[1] \in BlockIdx \X Nat /\ 1 \in 1 .. Len(air) /\ Head(air) = air[1]
  BY <1>1, ElementOfSeq
<1>3. /\ air[1][1] \in BlockIdx /\ air[1][2] \in Nat
      /\ air[1] = <<air[1][1], air[1][2]>>
  BY <1>2
<1>4. /\ air[1][1] < n_encoded /\ air[1][2] < Size(air[1][1])
      /\ air[1][1] = n_arrived
  BY <1>2 DEF AirOK
<1>5. /\ air[1][2] \in Fragments(air[1][1])
      /\ air[1][2] < maxNFragmentsPerBlock
  <2>1. /\ Size(air[1][1]) <= maxNFragmentsPerBlock /\ Size(air[1][1]) \in Nat
        /\ \A f : f \in Fragments(air[1][1]) <=> f \in Nat /\ f < Size(air[1][1])
    BY <1>3, SizeFacts
  <2>2. QED
    BY <1>3, <1>4, <2>1, LayoutAssumption
<1>6. Gone(air[1][1]) = air[1][2]
  BY <1>1, <1>4 DEF Gone
<1>7. QED
  BY <1>1, <1>2, <1>3, <1>4, <1>5, <1>6

\* When the first packet leaves, the next one of its block, or the first one of
\* the next block, is at the head.
LEMMA LeaveAirStep ==
    ASSUME AirOK, air # <<>>, LeaveAir, lost_on_air' \in [BlockIdx -> Nat],
           UNCHANGED <<m_curr_block_idx, n_encoded>>
    PROVE  LET h == air[1][1]
               f == air[1][2]
           IN  /\ AirOK' /\ n_arrived <= n_arrived'
               /\ \A b \in BlockIdx :
                      Gone(b)' = IF b = h THEN f + 1 ELSE Gone(b)
<1> DEFINE h == air[1][1]
           f == air[1][2]
           n == Len(air)
           rest == Tail(air)
<1>1. /\ Head(air) = <<h, f>> /\ Head(air)[1] = h /\ Head(air)[2] = f
      /\ h \in BlockIdx /\ h = n_arrived /\ h < n_encoded
      /\ f \in Nat /\ f < Size(h) /\ Gone(h) = f
      /\ n_encoded \in Nat /\ n_arrived \in Nat
      /\ n \in Nat /\ n >= 1
  BY HeadFacts
<1>2. /\ Size(h) \in Nat /\ Size(h) >= 1 /\ Size(h) = NPrimary[h] + NSecondary[h]
      /\ NPrimary[h] \in Nat /\ NSecondary[h] \in Nat
  BY <1>1, SizeFacts
<1>3. /\ air \in Seq(BlockIdx \X Nat)
      /\ \A i \in 1 .. n : air[i][1] < n_encoded /\ air[i][2] < Size(air[i][1])
      /\ \A i \in 1 .. n - 1 : air[i + 1] = Successor(air[i])
      /\ Successor(air[n]) = <<n_encoded, 0>>
  BY DEF AirOK
<1>4. /\ air' = rest
      /\ n_arrived' = IF f + 1 = Size(h) THEN n_arrived + 1 ELSE n_arrived
  <2>1. LastOfBlock <=> f = NPrimary[h] + NSecondary[h] - 1
    <3>1. LastOfBlock <=>
              Head(air)[2] = NPrimary[Head(air)[1]] + NSecondary[Head(air)[1]] - 1
      BY DEF LastOfBlock
    <3> HIDE DEF h, f
    <3>2. Head(air)[1] = h /\ Head(air)[2] = f
      BY <1>1
    <3>3. QED
      BY <3>1, <3>2, Zenon
  <2>2. LastOfBlock <=> f + 1 = Size(h)
    <3> HIDE DEF h, f
    <3>1. QED
      BY <1>1, <1>2, <2>1
  <2>3. QED
    BY <2>2 DEF LeaveAir
<1>5. /\ rest \in Seq(BlockIdx \X Nat) /\ Len(rest) = n - 1
      /\ \A i \in 1 .. n - 1 : rest[i] = air[i + 1]
  BY <1>1, <1>3
<1>6. Successor(<<h, f>>) = IF f + 1 < Size(h) THEN <<h, f + 1>> ELSE <<h + 1, 0>>
  BY DEF Successor
<1>7. air[1] = <<h, f>>
  BY <1>1, <1>3
<1> HIDE DEF h, f, n, rest
<1>8. /\ f + 1 < Size(h) => n_arrived' = h
      /\ ~(f + 1 < Size(h)) => n_arrived' = h + 1 /\ f + 1 = Size(h)
  BY <1>1, <1>2, <1>4
<1>9. CASE n = 1
  <2>1. rest = <<>>
    BY <1>5, <1>9, EmptySeq
  <2>2. IF f + 1 < Size(h) THEN <<h, f + 1>> = <<n_encoded, 0>>
        ELSE <<h + 1, 0>> = <<n_encoded, 0>>
    BY <1>3, <1>6, <1>7, <1>9
  <2>3. ~(f + 1 < Size(h)) /\ h + 1 = n_encoded
    BY <1>1, <2>2
  <2>4. AirOK'
    <3>1. /\ n_encoded' \in 0 .. MaxBlocks
          /\ m_curr_block_idx' = n_encoded' % IdxModulus
      BY DEF AirOK
    <3>2. n_arrived' = n_encoded' /\ n_arrived' \in 0 .. n_encoded'
      BY <1>1, <1>8, <2>3
    <3>3. air' = <<>> /\ Len(air') = 0 /\ air' \in Seq(BlockIdx \X Nat)
      BY <1>4, <1>5, <1>9, <2>1
    <3>4. QED
      BY <3>1, <3>2, <3>3 DEF AirOK
  <2>5. ASSUME NEW b \in BlockIdx, b = h
        PROVE  Gone(b)' = f + 1
    <3>1. b < n_arrived' /\ Size(b) = f + 1
      BY <1>1, <1>8, <2>3, <2>5
    <3>2. QED
      BY <3>1 DEF Gone, Size
  <2>6. ASSUME NEW b \in BlockIdx, b # h
        PROVE  Gone(b)' = Gone(b)
    <3>1. b \in Nat
      BY LayoutAssumption
    <3>2. QED
      BY <1>1, <1>4, <1>8, <2>1, <2>3, <2>6, <3>1 DEF Gone, Size
  <2>7. QED
    BY <1>1, <1>8, <2>3, <2>4, <2>5, <2>6 DEF h, f
<1>10. CASE n # 1
  <2>1. rest # <<>> /\ n - 1 >= 1
    BY <1>1, <1>5, <1>10
  <2>2. /\ rest[1] = IF f + 1 < Size(h) THEN <<h, f + 1>> ELSE <<h + 1, 0>>
        /\ rest[1][1] = n_arrived'
    <3>1. rest[1] = air[1 + 1] /\ air[1 + 1] = Successor(air[1])
      BY <1>1, <1>3, <1>5, <2>1
    <3>2. QED
      BY <1>6, <1>7, <1>8, <3>1
  <2>3. AirOK'
    <3>1. /\ n_encoded' \in 0 .. MaxBlocks
          /\ m_curr_block_idx' = n_encoded' % IdxModulus
      BY DEF AirOK
    <3>2. n_arrived' \in 0 .. n_encoded'
      BY <1>1, <1>8
    <3>3. \A i \in 1 .. Len(rest) :
              rest[i][1] < n_encoded /\ rest[i][2] < Size(rest[i][1])
      <4>1. \A i \in 1 .. Len(rest) : i + 1 \in 1 .. n /\ rest[i] = air[i + 1]
        BY <1>1, <1>5
      <4>2. QED
        BY <1>3, <4>1
    <3>4. \A i \in 1 .. Len(rest) - 1 : rest[i + 1] = Successor(rest[i])
      <4>1. ASSUME NEW i \in 1 .. Len(rest) - 1
            PROVE  rest[i + 1] = Successor(rest[i])
        <5>1. /\ i \in 1 .. n - 1 /\ i + 1 \in 1 .. n - 1
          BY <1>1, <1>5
        <5>2. rest[i] = air[i + 1] /\ rest[i + 1] = air[(i + 1) + 1]
          BY <1>5, <5>1
        <5>3. air[(i + 1) + 1] = Successor(air[i + 1])
          BY <1>3, <5>1
        <5>4. QED
          BY <5>2, <5>3
      <4>2. QED
        BY <4>1
    <3>5. Successor(rest[Len(rest)]) = <<n_encoded, 0>>
      <4>1. Len(rest) = n - 1 /\ n - 1 \in 1 .. n - 1 /\ (n - 1) + 1 = n
        BY <1>1, <1>5, <2>1
      <4>2. rest[Len(rest)] = air[n]
        BY <1>5, <4>1
      <4>3. QED
        BY <1>3, <4>2
    <3>6. QED
      BY <1>4, <1>5, <2>1, <2>2, <3>1, <3>2, <3>3, <3>4, <3>5
         DEF AirOK, Successor, Size
  <2>4. ASSUME NEW b \in BlockIdx, b = h
        PROVE  Gone(b)' = f + 1
    <3>1. CASE f + 1 < Size(h)
      <4>1. ~(b < n_arrived') /\ b = n_arrived' /\ rest[1][2] = f + 1
        BY <1>1, <1>8, <2>2, <2>4, <3>1
      <4>2. QED
        BY <1>4, <2>1, <4>1 DEF Gone
    <3>2. CASE ~(f + 1 < Size(h))
      <4>1. b < n_arrived' /\ Size(b) = f + 1
        BY <1>1, <1>8, <2>4, <3>2
      <4>2. QED
        BY <4>1 DEF Gone, Size
    <3>3. QED
      BY <3>1, <3>2
  <2>5. ASSUME NEW b \in BlockIdx, b # h
        PROVE  Gone(b)' = Gone(b)
    <3>1. b \in Nat
      BY LayoutAssumption
    <3>2. CASE b < n_arrived
      BY <1>1, <1>8, <3>1, <3>2 DEF Gone, Size
    <3>3. CASE n_arrived < b
      <4>1. Gone(b) = 0
        BY <1>1, <3>1, <3>3 DEF Gone
      <4>2. ~(b < n_arrived') /\ (b = n_arrived' => rest[1][2] = 0)
        BY <1>1, <1>8, <2>2, <3>1, <3>3
      <4>3. QED
        BY <1>4, <4>1, <4>2 DEF Gone
    <3>4. QED
      BY <1>1, <2>5, <3>1, <3>2, <3>3
  <2>6. QED
    BY <1>1, <1>8, <2>3, <2>4, <2>5 DEF h, f
<1>11. QED
  BY <1>9, <1>10

\* A new block is put behind what is on air, as long as the index has not come
\* round to a block that is still known.
LEMMA EncodeStep ==
    ASSUME MaxBlocks <= IdxModulus, AirOK, encode_block
    PROVE  /\ AirOK' /\ n_encoded \in BlockIdx /\ n_encoded' = n_encoded + 1
           /\ n_arrived' = n_arrived
           /\ \A b \in BlockIdx :
                  /\ b < n_encoded =>
                         Gone(b)' = Gone(b) /\ lost_on_air'[b] = lost_on_air[b]
                  /\ b = n_encoded => Gone(b)' = 0 /\ lost_on_air'[b] = 0
<1> DEFINE e == n_encoded
           z == Size(e)
           new == Packets(e)
           n == Len(air)
<1>1. /\ e \in Nat /\ n_arrived \in 0 .. e /\ n \in Nat
      /\ air \in Seq(BlockIdx \X Nat)
      /\ lost_on_air \in [BlockIdx -> Nat]
  BY LinkAssumption, LenProperties DEF AirOK
<1>2. e < MaxBlocks /\ e < IdxModulus /\ e \in BlockIdx
  BY <1>1, LinkAssumption DEF encode_block
<1>3. m_curr_block_idx = e
  <2>1. e % IdxModulus = e
    <3> HIDE DEF e
    <3>1. IdxModulus \in Nat
      BY LinkAssumption
    <3>2. QED
      BY <1>1, <1>2, <3>1
  <2>2. QED
    BY <2>1 DEF AirOK
<1>4. /\ air' = air \o new /\ n_encoded' = e + 1 /\ n_arrived' = n_arrived
      /\ m_curr_block_idx' = (e + 1) % IdxModulus
      /\ lost_on_air' = [lost_on_air EXCEPT ![e] = 0]
  BY <1>3 DEF encode_block
<1>5. z \in Nat /\ z >= 1 /\ z = NPrimary[e] + NSecondary[e]
  BY <1>2, SizeFacts
<1>6. /\ new \in Seq(BlockIdx \X Nat) /\ Len(new) = z
      /\ \A i \in 1 .. z : new[i] = <<e, i - 1>>
  <2>1. new = [i \in 1 .. z |-> <<e, i - 1>>]
    BY <1>5 DEF Packets
  <2> HIDE DEF new, z, e
  <2>2. \A i \in 1 .. z : <<e, i - 1>> \in BlockIdx \X Nat
    BY <1>2, <1>5
  <2>3. QED
    BY <1>5, <2>1, <2>2
<1> HIDE DEF new, z, n
<1>7. /\ air' \in Seq(BlockIdx \X Nat) /\ Len(air') = n + z
      /\ \A i \in 1 .. n : air'[i] = air[i]
      /\ \A i \in 1 .. z : air'[n + i] = <<e, i - 1>>
  <2>1. /\ air \o new \in Seq(BlockIdx \X Nat)
        /\ Len(air \o new) = n + z
        /\ \A i \in 1 .. n + z :
               (air \o new)[i] = IF i <= n THEN air[i] ELSE new[i - n]
    BY <1>1, <1>6, ConcatProperties DEF n
  <2>2. ASSUME NEW i \in 1 .. z
        PROVE  air'[n + i] = <<e, i - 1>>
    <3>1. n + i \in 1 .. n + z /\ ~(n + i <= n) /\ (n + i) - n = i
      BY <1>1, <1>5 DEF n
    <3>2. QED
      BY <1>4, <1>6, <2>1, <3>1
  <2>3. air' \in Seq(BlockIdx \X Nat) /\ Len(air') = n + z
    BY <1>4, <2>1
  <2>4. ASSUME NEW i \in 1 .. n PROVE air'[i] = air[i]
    <3>1. i \in 1 .. n + z /\ i <= n
      BY <1>1, <1>5 DEF n
    <3>2. QED
      BY <1>4, <2>1, <3>1
  <2>5. QED
    BY <2>2, <2>3, <2>4
<1>8. ASSUME NEW i \in 1 .. n + z
      PROVE  \/ i \in 1 .. n
             \/ i - n \in 1 .. z /\ air'[i] = <<e, (i - n) - 1>>
  <2>1. i \in 1 .. n \/ (i - n \in 1 .. z /\ n + (i - n) = i)
    BY <1>1, <1>5 DEF n
  <2>2. QED
    BY <1>7, <2>1
<1>9. lost_on_air' \in [BlockIdx -> Nat]
  BY <1>1, <1>4
<1>10. \A i \in 1 .. n + z : air'[i][1] < e + 1 /\ air'[i][2] < Size(air'[i][1])
  <2>1. ASSUME NEW i \in 1 .. n
        PROVE  air'[i][1] < e + 1 /\ air'[i][2] < Size(air'[i][1])
    <3>1. air[i][1] < e /\ air[i][2] < Size(air[i][1])
      BY <2>1 DEF AirOK, n
    <3>2. air[i][1] \in BlockIdx
      BY <1>1, ElementOfSeq DEF n
    <3>3. air[i][1] \in Nat
      BY <3>2, LayoutAssumption
    <3>4. air[i][1] < e + 1
      <4> HIDE DEF e
      <4>1. QED
        BY <1>1, <3>1, <3>3
    <3>5. QED
      BY <1>7, <3>1, <3>4
  <2>2. ASSUME NEW i \in 1 .. n + z, i - n \in 1 .. z,
               air'[i] = <<e, (i - n) - 1>>
        PROVE  air'[i][1] < e + 1 /\ air'[i][2] < Size(air'[i][1])
    BY <1>1, <1>5, <2>2 DEF z
  <2>3. QED
    BY <1>8, <2>1, <2>2
<1>11. ASSUME NEW i \in 1 .. z
       PROVE  Successor(<<e, i - 1>>) = IF i < z THEN <<e, i>> ELSE <<e + 1, 0>>
  BY <1>5 DEF Successor, z
<1>12. \A i \in 1 .. (n + z) - 1 : air'[i + 1] = Successor(air'[i])
  <2>1. ASSUME NEW i \in 1 .. (n + z) - 1
        PROVE  air'[i + 1] = Successor(air'[i])
    <3>1. /\ n \in Nat /\ z \in Nat /\ z >= 1 /\ i \in Nat /\ i >= 1
          /\ i + 1 <= n + z
      BY <1>1, <1>5 DEF n
    <3>2. CASE i < n
      <4>1. i \in 1 .. n /\ i + 1 \in 1 .. n /\ i \in 1 .. n - 1
        BY <3>1, <3>2
      <4>2. air[i + 1] = Successor(air[i])
        BY <4>1 DEF AirOK, n
      <4>3. QED
        BY <1>7, <4>1, <4>2
    <3>3. CASE i = n
      <4>1. i \in 1 .. n /\ 1 \in 1 .. z /\ air # <<>>
        BY <3>1, <3>3, EmptySeq DEF n
      <4>2. Successor(air[n]) = <<e, 0>>
        BY <4>1 DEF AirOK, n
      <4>3. air'[n + 1] = <<e, 1 - 1>>
        BY <1>7, <4>1
      <4>4. QED
        BY <1>7, <3>3, <4>1, <4>2, <4>3
    <3>4. CASE n < i
      <4>1. i - n \in 1 .. z /\ (i - n) + 1 \in 1 .. z /\ i - n < z
            /\ n + (i - n) = i /\ n + ((i - n) + 1) = i + 1
            /\ ((i - n) + 1) - 1 = i - n
        BY <3>1, <3>4
      <4>2. /\ air'[i] = <<e, (i - n) - 1>>
            /\ air'[i + 1] = <<e, i - n>>
        BY <1>7, <4>1
      <4>3. QED
        BY <1>11, <4>1, <4>2
    <3>5. QED
      BY <3>1, <3>2, <3>3, <3>4
  <2>2. QED
    BY <2>1
<1>13. air' # <<>> /\ Successor(air'[n + z]) = <<e + 1, 0>>
  <2>1. z \in 1 .. z /\ ~(z < z) /\ n + z >= 1
    BY <1>1, <1>5 DEF n
  <2>2. air'[n + z] = <<e, z - 1>>
    BY <1>7, <2>1
  <2>3. Successor(<<e, z - 1>>) = <<e + 1, 0>>
    BY <1>11, <2>1
  <2>4. QED
    BY <1>7, <2>1, <2>2, <2>3, EmptySeq
<1>14. air'[1][1] = n_arrived /\ (air = <<>> => air'[1][2] = 0)
       /\ (air # <<>> => air'[1] = air[1])
  <2>1. CASE n = 0
    <3>1. air = <<>> /\ n_arrived = e
      BY <1>1, <2>1, EmptySeq DEF n, AirOK
    <3>2. air'[0 + 1] = <<e, 1 - 1>>
      BY <1>5, <1>7, <2>1
    <3>3. QED
      BY <3>1, <3>2
  <2>2. CASE n # 0
    <3>1. 1 \in 1 .. n /\ air # <<>>
      BY <1>1, <2>2, EmptySeq DEF n
    <3>2. QED
      BY <1>7, <3>1 DEF AirOK
  <2>3. QED
    BY <2>1, <2>2
<1>15. AirOK'
  <2>1. n_encoded' \in 0 .. MaxBlocks /\ n_arrived' \in 0 .. n_encoded'
    BY <1>1, <1>2, <1>4, LinkAssumption
  <2>2. m_curr_block_idx' = n_encoded' % IdxModulus
    BY <1>4
  <2>3. QED
    BY <1>4, <1>7, <1>9, <1>10, <1>12, <1>13, <1>14, <2>1, <2>2
       DEF AirOK, Successor, Size
<1>16. ASSUME NEW b \in BlockIdx, b = e
       PROVE  Gone(b)' = 0
  <2>1. ~(b < n_arrived')
    BY <1>1, <1>4, <1>16
  <2>2. CASE e = n_arrived
    <3>1. air = <<>>
      <4>1. SUFFICES ASSUME air # <<>>
                     PROVE  FALSE
        OBVIOUS
      <4>2. air[1][1] < n_encoded /\ air[1][1] = n_arrived
        BY <4>1, HeadFacts
      <4>3. QED
        BY <1>1, <2>2, <4>2
    <3>2. QED
      BY <1>4, <1>14, <2>1, <3>1 DEF Gone
  <2>3. CASE e # n_arrived
    BY <1>4, <1>16, <2>1, <2>3 DEF Gone
  <2>4. QED
    BY <2>2, <2>3
<1>17. ASSUME NEW b \in BlockIdx, b < e
       PROVE  Gone(b)' = Gone(b) /\ lost_on_air'[b] = lost_on_air[b]
  <2>1. b \in Nat
    BY LayoutAssumption
  <2>2. lost_on_air'[b] = lost_on_air[b]
    BY <1>1, <1>4, <1>17, <2>1
  <2>3. CASE air = <<>>
    <3>1. n_arrived = e
      BY <2>3 DEF AirOK
    <3>2. QED
      BY <1>4, <1>17, <2>2, <3>1 DEF Gone, Size
  <2>4. CASE air # <<>>
    <3>1. air'[1] = air[1] /\ air' # <<>> /\ n_arrived' = n_arrived
      BY <1>4, <1>13, <1>14, <2>4
    <3>2. QED
      BY <2>2, <2>4, <3>1 DEF Gone, Size
  <2>5. QED
    BY <2>3, <2>4
<1>18. lost_on_air'[e] = 0
  BY <1>1, <1>2, <1>4
<1>19. QED
  BY <1>2, <1>4, <1>15, <1>16, <1>17, <1>18

-----------------------------------------------------------------------------
(* What becomes of the blocks.                                             *)

\* The blocks encoded so far have indices of their own.
LEMMA EncodedFacts ==
    ASSUME MaxBlocks <= IdxModulus, AirOK, NEW b \in 0 .. n_encoded - 1
    PROVE  b \in BlockIdx /\ b < n_encoded /\ b \in Nat
<1>1. n_encoded \in Nat /\ n_encoded <= MaxBlocks /\ MaxBlocks \in Nat
  BY LinkAssumption DEF AirOK
<1>2. IdxModulus \in Nat /\ BlockIdx = 0 .. IdxModulus - 1
  BY LinkAssumption
<1>3. QED
  BY <1>1, <1>2

\* A block of which all fragments have left the air while it was queued, or
\* while nothing of it was seen, has lost more than FEC can replace.
LEMMA PassedBlock ==
    ASSUME IInv, AirOK, NEW b \in BlockIdx, b < n_arrived, Followed(b)
    PROVE  b \in CompleteIn(delivered) \/ lost_on_air[b] > NSecondary[b]
<1>1. /\ Gone(b) = Size(b) /\ lost_on_air[b] \in Nat
  BY DEF Gone, AirOK
<1>2. /\ NPrimary[b] \in Nat /\ NSecondary[b] \in Nat /\ Size(b) \in Nat
      /\ Size(b) > NSecondary[b]
      /\ Size(b) = NPrimary[b] + NSecondary[b]
  BY SizeFacts
<1>3. ASSUME NEW i \in 1 .. Len(rx_queue), rx_queue[i].blockIdx = b,
             Gone(b) <= Got(rx_queue[i].fragment_map, Gone(b)) + lost_on_air[b]
      PROVE  lost_on_air[b] > NSecondary[b]
  <2> DEFINE M == rx_queue[i].fragment_map
  <2>1. M \in SUBSET Nat /\ IsFiniteSet(M) /\ Cardinality(M) < NPrimary[b]
    BY <1>3, QueuedIsStarved
  <2> HIDE DEF M
  <2>2. /\ Got(M, Size(b)) <= Cardinality(M) /\ Got(M, Size(b)) \in Nat
        /\ Cardinality(M) \in Nat
    BY <1>2, <2>1, GotFacts
  <2>3. Size(b) <= Got(M, Size(b)) + lost_on_air[b]
    BY <1>1, <1>3 DEF M
  <2>4. QED
    BY <1>1, <1>2, <2>1, <2>2, <2>3
<1>4. QED
  BY <1>1, <1>2, <1>3 DEF Followed

\* A packet keeps track of every block: b is one of them, h and f are the
\* packet, and g tells whether the packet leaves the air.
LEMMA PacketFollowed ==
    ASSUME LinkInv, MaxBlocks <= IdxModulus, air # <<>>,
           NEW h \in BlockIdx, NEW f \in Nat,
           h = n_arrived, f = Gone(h), PacketEffect(h, f), IInv',
           lost_on_air' = lost_on_air, n_arrived <= n_arrived', AirOK',
           NEW g \in {f, f + 1},
           \A b \in BlockIdx : Gone(b)' = IF b = h THEN g ELSE Gone(b),
           NEW b \in 0 .. n_encoded - 1
    PROVE  Followed(b)'
<1>1. /\ IInv /\ AirOK /\ Followed(b)
      /\ last_known_block <= n_arrived
  BY DEF LinkInv
<1>2. b \in BlockIdx /\ b < n_encoded /\ b \in Nat
  BY <1>1, EncodedFacts
<1>3. /\ last_known_block \in Int /\ n_arrived \in Nat /\ n_arrived' \in Nat
      /\ h \in Nat /\ last_known_block' \in Int
      /\ lost_on_air[b] \in Nat
      /\ Len(rx_queue) \in Nat /\ DOMAIN rx_queue = 1 .. Len(rx_queue)
  <2>1. n_arrived \in Nat /\ n_arrived' \in Nat
    BY <1>1, LinkAssumption DEF AirOK
  <2>2. rx_queue \in Seq(RxBlockType) /\ last_known_block \in Int
        /\ last_known_block' \in Int
    BY <1>1 DEF IInv, TypeOK, NoBlock
  <2>3. lost_on_air[b] \in Nat /\ h \in Nat
    BY <1>1, <1>2, LayoutAssumption DEF AirOK
  <2>4. QED
    BY <2>1, <2>2, <2>3, LenProperties
<1>4. /\ delivered \subseteq delivered'
      /\ last_known_block' = IF last_known_block < h THEN h ELSE last_known_block
      /\ \A j \in 1 .. Len(rx_queue') :
             \/ last_known_block < rx_queue'[j].blockIdx
             \/ \E i \in 1 .. Len(rx_queue) :
                    /\ rx_queue[i].blockIdx = rx_queue'[j].blockIdx
                    /\ rx_queue[i].fragment_map \subseteq rx_queue'[j].fragment_map
      /\ \/ h \in CompleteIn(delivered')
         \/ h <= last_known_block /\ ~InQueue(h)
         \/ Holds(rx_queue', h, f)
  BY DEF PacketEffect
<1>5. Gone(b)' = IF b = h THEN g ELSE Gone(b)
  BY <1>2
<1>6. ASSUME NEW i \in 1 .. Len(rx_queue), rx_queue[i].blockIdx = b
      PROVE  /\ i = (b - last_known_block) + Len(rx_queue)
             /\ b <= last_known_block
             /\ rx_queue[i].fragment_map \in SUBSET Nat
             /\ IsFiniteSet(rx_queue[i].fragment_map)
  <2>1. /\ b = (last_known_block - Len(rx_queue)) + i
        /\ b <= last_known_block
        /\ rx_queue[i].fragment_map \in SUBSET Nat
        /\ IsFiniteSet(rx_queue[i].fragment_map)
    BY <1>1, <1>2, <1>6, QueuedIsStarved
  <2>2. i = (b - last_known_block) + Len(rx_queue)
    BY <1>2, <1>3, <2>1
  <2>3. QED
    BY <2>1, <2>2
<1>7. CASE b \in CompleteIn(delivered)
  BY <1>4, <1>7 DEF Followed, CompleteIn
<1>8. CASE b < n_arrived /\ lost_on_air[b] > NSecondary[b]
  BY <1>2, <1>3, <1>8 DEF Followed
<1>9. ASSUME b \notin CompleteIn(delivered),
             ~(b < n_arrived /\ lost_on_air[b] > NSecondary[b]),
             NEW j \in 1 .. Len(rx_queue'), rx_queue'[j].blockIdx = b,
             b = h => f \in rx_queue'[j].fragment_map
      PROVE  Followed(b)'
  <2> DEFINE N == rx_queue'[j].fragment_map
             k == Gone(b)
             m == IF b = h THEN g ELSE k
  <2>1. N \in SUBSET Nat /\ IsFiniteSet(N)
    <3>1. QueueWF(rx_queue', last_known_block')
      BY DEF IInv, QueueWF, BlockWF, allPrimaryFragmentsCanBeRecovered,
             getNAvailableFragments
    <3>2. BlockWF(rx_queue'[j])
      BY <3>1 DEF QueueWF
    <3>3. QED
      BY <3>2 DEF BlockWF, RxBlockType
  <2>2. k \in Nat /\ m \in Nat
    <3>1. k \in Nat
      <4>1. CASE b = h
        BY <4>1
      <4>2. CASE b # h
        <5>1. Gone(b) = IF b < n_arrived THEN Size(b) ELSE 0
          BY <1>3, <4>2 DEF Gone
        <5>2. Size(b) \in Nat
          BY <1>2, SizeFacts
        <5>3. QED
          BY <5>1, <5>2
      <4>3. QED
        BY <4>1, <4>2
    <3>2. QED
      BY <3>1
  <2>3. k <= Got(N, k) + lost_on_air[b]
    <3>1. Got(N, k) \in Nat
      BY <2>1, <2>2, GotFacts
    <3>2. CASE last_known_block < b
      <4>1. k <= lost_on_air[b]
        BY <1>1, <1>3, <1>6, <1>9, <3>2 DEF Followed
      <4>2. QED
        BY <1>3, <2>2, <3>1, <4>1
    <3>3. CASE ~(last_known_block < b)
      <4>1. PICK i \in 1 .. Len(rx_queue) :
                rx_queue[i].blockIdx = b /\ rx_queue[i].fragment_map \subseteq N
        BY <1>4, <1>9, <3>3
      <4>2. PICK i2 \in 1 .. Len(rx_queue) :
                /\ rx_queue[i2].blockIdx = b
                /\ k <= Got(rx_queue[i2].fragment_map, k) + lost_on_air[b]
        BY <1>1, <1>9, <3>3 DEF Followed
      <4>3. i2 = i
        BY <1>6, <4>1, <4>2
      <4> DEFINE M == rx_queue[i].fragment_map
      <4>4. M \in SUBSET Nat /\ IsFiniteSet(M) /\ M \subseteq N
        BY <1>6, <4>1
      <4>5. k <= Got(M, k) + lost_on_air[b]
        BY <4>2, <4>3
      <4> HIDE DEF M, N, k
      <4>6. Got(M, k) \in Nat /\ Got(M, k) <= Got(N, k)
        BY <2>1, <2>2, <4>4, GotFacts, GotMonotone
      <4>7. QED
        BY <1>3, <2>2, <3>1, <4>5, <4>6
    <3>4. QED
      BY <3>2, <3>3
  <2>4. m <= Got(N, m) + lost_on_air[b]
    <3>1. CASE m = k
      BY <2>3, <3>1
    <3>2. CASE m # k
      <4>1. b = h /\ m = k + 1 /\ k \in N
        BY <1>9, <3>2
      <4> HIDE DEF N, k, m
      <4>2. Got(N, k + 1) = Got(N, k) + 1 /\ Got(N, k) \in Nat
        BY <2>1, <2>2, <4>1, GotFacts
      <4>3. QED
        BY <1>3, <2>2, <2>3, <4>1, <4>2
    <3>3. QED
      BY <3>1, <3>2
  <2>5. Gone(b)' = m
    BY <1>5
  <2> HIDE DEF m, k
  <2>6. m <= Got(rx_queue'[j].fragment_map, m) + lost_on_air'[b]
    BY <2>4
  <2>7. QED
    BY <1>9, <2>5, <2>6 DEF Followed
<1>10. ASSUME b \notin CompleteIn(delivered),
              ~(b < n_arrived /\ lost_on_air[b] > NSecondary[b]),
              b # h, last_known_block' < b
       PROVE  Followed(b)'
  <2>1. last_known_block < b
    BY <1>2, <1>3, <1>4, <1>10
  <2>2. Gone(b) <= lost_on_air[b]
    BY <1>1, <1>2, <1>3, <1>6, <1>10, <2>1 DEF Followed
  <2>3. Gone(b)' = Gone(b)
    BY <1>5, <1>10
  <2>4. QED
    BY <1>10, <2>2, <2>3 DEF Followed
<1>11. ASSUME b # h, ~(last_known_block' < b)
       PROVE  Followed(b)'
  <2>1. b < n_arrived
    BY <1>1, <1>2, <1>3, <1>4, <1>11
  <2>2. b \in CompleteIn(delivered) \/ lost_on_air[b] > NSecondary[b]
    BY <1>1, <1>2, <2>1, PassedBlock
  <2>3. QED
    BY <1>7, <1>8, <2>1, <2>2
<1>12. CASE b = h
  <2>1. CASE h \in CompleteIn(delivered')
    BY <1>12, <2>1 DEF Followed
  <2>2. CASE h <= last_known_block /\ ~InQueue(h)
    <3>1. ~(last_known_block < b) /\ ~(b < n_arrived)
      BY <1>2, <1>3, <1>12, <2>2
    <3>2. ASSUME NEW i \in 1 .. Len(rx_queue)
          PROVE  rx_queue[i].blockIdx # b
      BY <1>3, <1>12, <2>2 DEF InQueue
    <3>3. b \in CompleteIn(delivered)
      BY <1>1, <3>1, <3>2 DEF Followed
    <3>4. QED
      BY <1>7, <3>3
  <2>3. CASE Holds(rx_queue', h, f)
    <3>1. PICK j \in 1 .. Len(rx_queue') :
              rx_queue'[j].blockIdx = b /\ f \in rx_queue'[j].fragment_map
      BY <1>12, <2>3 DEF Holds
    <3>2. QED
      BY <1>7, <1>8, <1>9, <3>1
  <2>4. QED
    BY <1>4, <2>1, <2>2, <2>3
<1>13. QED
  BY <1>7, <1>8, <1>10, <1>11, <1>12

-----------------------------------------------------------------------------
(* The invariant.                                                          *)

\* The link starts with an empty air and an empty queue.
LEMMA LinkInitInv == LinkInit => LinkInv
<1> SUFFICES ASSUME LinkInit
             PROVE  LinkInv
  OBVIOUS
<1>1. /\ Init /\ m_curr_block_idx = 0 /\ n_encoded = 0 /\ air = <<>>
      /\ lost_on_air = [b \in BlockIdx |-> 0] /\ n_arrived = 0
  BY DEF LinkInit
<1>2. IInv
  BY <1>1, InitIInv
<1>3. /\ last_known_block = -1 /\ session.lostBefore = 0
      /\ Accounting
  BY <1>1 DEF Init, NoBlock, Accounting, FrontForwarded, BlocksAccounted
<1>4. AirOK
  <2>1. 0 \in 0 .. MaxBlocks /\ 0 = 0 % IdxModulus
    <3>1. IdxModulus \in Nat \ {0} /\ MaxBlocks \in Nat
      BY LinkAssumption
    <3>2. QED
      BY <3>1
  <2>2. /\ Len(air) = 0 /\ air \in Seq(BlockIdx \X Nat)
        /\ lost_on_air \in [BlockIdx -> Nat]
    BY <1>1
  <2>3. QED
    BY <1>1, <2>1, <2>2 DEF AirOK
<1>5. QED
  BY <1>1, <1>2, <1>3, <1>4 DEF LinkInv

\* A packet of the head reaches the receive queue.
LEMMA PacketStep ==
    ASSUME LinkInv, air # <<>>, process_valid_packet(Head(air)[1], Head(air)[2])
    PROVE  /\ IInv' /\ Accounting' /\ [Next]_vars
           /\ PacketEffect(air[1][1], air[1][2])
<1> DEFINE h == air[1][1]
           f == air[1][2]
<1>1. /\ Head(air)[1] = h /\ Head(air)[2] = f
      /\ h \in BlockIdx /\ f \in Fragments(h)
      /\ f < maxNFragmentsPerBlock
  BY HeadFacts DEF LinkInv
<1> HIDE DEF h, f
<1>2. IInv /\ Accounting /\ process_valid_packet(h, f)
  BY <1>1 DEF LinkInv
<1>3. Next
  BY <1>1, <1>2 DEF Next
<1>4. IInv' /\ Accounting'
  BY <1>2, <1>3, NextIInv, NextAccounting
<1>5. PacketEffect(h, f)
  BY <1>1, <1>2, ProcessEffect
<1>6. QED
  BY <1>3, <1>4, <1>5 DEF h, f

\* Every step of the link keeps the invariant.
LEMMA LinkNextInv ==
    ASSUME MaxBlocks <= IdxModulus, LinkInv, [LinkNext]_linkVars
    PROVE  LinkInv'
<1>1. /\ IInv /\ Accounting /\ AirOK /\ session.lostBefore = 0
      /\ last_known_block <= n_arrived /\ last_known_block < n_encoded
      /\ \A b \in 0 .. n_encoded - 1 : Followed(b)
  BY DEF LinkInv
<1>2. /\ last_known_block \in Int /\ n_encoded \in Nat /\ n_arrived \in Nat
      /\ n_arrived <= n_encoded
  BY <1>1, LinkAssumption DEF AirOK, IInv, TypeOK, NoBlock
<1>3. ASSUME UNCHANGED vars
      PROVE  /\ IInv' /\ Accounting' /\ session'.lostBefore = 0
             /\ last_known_block' = last_known_block
  <2>1. /\ rx_queue' = rx_queue /\ last_known_block' = last_known_block
        /\ stats' = stats /\ out' = out /\ delivered' = delivered
        /\ session' = session
    BY <1>3 DEF vars
  <2>2. IInv' /\ Accounting'
    BY <1>1, <2>1 DEF IInv, TypeOK, Accounting, BlocksAccounted, CompleteBlocks
  <2>3. QED
    BY <1>1, <2>1, <2>2
<1>4. CASE encode_block
  <2>1. /\ AirOK' /\ n_encoded \in BlockIdx /\ n_encoded' = n_encoded + 1
        /\ n_arrived' = n_arrived
        /\ \A b \in BlockIdx :
               /\ b < n_encoded =>
                      Gone(b)' = Gone(b) /\ lost_on_air'[b] = lost_on_air[b]
               /\ b = n_encoded => Gone(b)' = 0 /\ lost_on_air'[b] = 0
    BY <1>1, <1>4, EncodeStep
  <2>2. UNCHANGED vars
    BY <1>4 DEF encode_block
  <2>3. rx_queue' = rx_queue /\ delivered' = delivered
        /\ last_known_block' = last_known_block
    BY <2>2 DEF vars
  <2>4. ASSUME NEW b \in 0 .. n_encoded' - 1
        PROVE  Followed(b)'
    <3>1. CASE b = n_encoded
      <4>1. Gone(b)' = 0 /\ lost_on_air'[b] = 0 /\ last_known_block' < b
        BY <1>1, <2>1, <2>3, <3>1
      <4>2. QED
        BY <4>1 DEF Followed
    <3>2. CASE b # n_encoded
      <4>1. b \in 0 .. n_encoded - 1
        BY <1>2, <2>1, <3>2
      <4>2. b \in BlockIdx /\ b < n_encoded
        BY <1>1, <4>1, EncodedFacts
      <4>3. Gone(b)' = Gone(b) /\ lost_on_air'[b] = lost_on_air[b]
        BY <2>1, <4>2
      <4>4. Followed(b)
        BY <1>1, <4>1
      <4>5. QED
        BY <2>1, <2>3, <4>3, <4>4 DEF Followed
    <3>3. QED
      BY <3>1, <3>2
  <2>5. last_known_block' <= n_arrived' /\ last_known_block' < n_encoded'
    BY <1>1, <1>2, <2>1, <2>3
  <2>6. QED
    BY <1>3, <2>1, <2>2, <2>4, <2>5 DEF LinkInv
<1>5. ASSUME air # <<>>, process_valid_packet(Head(air)[1], Head(air)[2]),
             lost_on_air' = lost_on_air, n_encoded' = n_encoded, AirOK',
             n_arrived <= n_arrived',
             NEW g \in {air[1][2], air[1][2] + 1},
             \A b \in BlockIdx :
                 Gone(b)' = IF b = air[1][1] THEN g ELSE Gone(b)
      PROVE  LinkInv'
  <2>1. PICK h \in BlockIdx, f \in Nat :
            /\ h = air[1][1] /\ f = air[1][2]
            /\ h = n_arrived /\ f = Gone(h) /\ h < n_encoded
    BY <1>1, <1>5, HeadFacts
  <2>2. IInv' /\ Accounting' /\ PacketEffect(h, f)
    BY <1>5, <2>1, PacketStep
  <2>3. /\ session'.lostBefore = 0
        /\ last_known_block' = IF last_known_block < h THEN h ELSE last_known_block
    BY <1>1, <2>2 DEF PacketEffect
  <2>4. last_known_block' <= n_arrived' /\ last_known_block' < n_encoded'
    <3>1. n_arrived' \in Nat
      BY <1>2, <1>5, LinkAssumption DEF AirOK
    <3>2. QED
      BY <1>1, <1>2, <1>5, <2>1, <2>3, <3>1
  <2>5. ASSUME NEW b \in 0 .. n_encoded - 1
        PROVE  Followed(b)'
    <3>1. g \in {f, f + 1} /\ \A c \in BlockIdx : Gone(c)' = IF c = h THEN g ELSE Gone(c)
      BY <1>5, <2>1
    <3>2. QED
      BY <1>5, <2>1, <2>2, <3>1, PacketFollowed
  <2>6. QED
    BY <1>5, <2>2, <2>3, <2>4, <2>5 DEF LinkInv
<1>6. CASE Receive
  <2>1. /\ air # <<>> /\ process_valid_packet(Head(air)[1], Head(air)[2])
        /\ LeaveAir /\ UNCHANGED <<m_curr_block_idx, n_encoded, lost_on_air>>
    BY <1>6 DEF Receive
  <2>2. lost_on_air' \in [BlockIdx -> Nat]
    BY <1>1, <2>1 DEF AirOK
  <2>3. /\ AirOK' /\ n_arrived <= n_arrived'
        /\ \A b \in BlockIdx :
               Gone(b)' = IF b = air[1][1] THEN air[1][2] + 1 ELSE Gone(b)
    BY <1>1, <2>1, <2>2, LeaveAirStep
  <2>4. QED
    BY <1>5, <2>1, <2>3
<1>7. CASE ReceiveTwice
  <2>1. /\ air # <<>> /\ process_valid_packet(Head(air)[1], Head(air)[2])
        /\ UNCHANGED <<m_curr_block_idx, n_encoded, air, lost_on_air, n_arrived>>
    BY <1>7 DEF ReceiveTwice
  <2>2. AirOK' /\ n_arrived <= n_arrived'
    BY <1>1, <1>2, <2>1 DEF AirOK, Successor, Size
  <2>3. Gone(air[1][1]) = air[1][2]
    BY <1>1, <2>1, HeadFacts
  <2>4. \A b \in BlockIdx : Gone(b)' = IF b = air[1][1] THEN air[1][2] ELSE Gone(b)
    BY <2>1, <2>3 DEF Gone, Size
  <2>5. QED
    BY <1>5, <2>1, <2>2, <2>4
<1>8. CASE Lose
  <2>1. PICK h \in BlockIdx, f \in Nat :
            /\ h = air[1][1] /\ f = air[1][2] /\ Head(air)[1] = h
            /\ h = n_arrived /\ f = Gone(h) /\ h < n_encoded
    BY <1>1, <1>8, HeadFacts DEF Lose
  <2>2. /\ air # <<>> /\ LeaveAir
        /\ UNCHANGED <<vars, m_curr_block_idx, n_encoded>>
        /\ lost_on_air' = [lost_on_air EXCEPT ![h] = @ + 1]
    BY <1>8, <2>1 DEF Lose
  <2>3. /\ lost_on_air \in [BlockIdx -> Nat] /\ lost_on_air' \in [BlockIdx -> Nat]
        /\ \A b \in BlockIdx :
               lost_on_air'[b] = IF b = h THEN lost_on_air[b] + 1 ELSE lost_on_air[b]
    BY <1>1, <2>2 DEF AirOK
  <2>4. /\ AirOK' /\ n_arrived <= n_arrived'
        /\ \A b \in BlockIdx : Gone(b)' = IF b = h THEN f + 1 ELSE Gone(b)
    BY <1>1, <2>1, <2>2, <2>3, LeaveAirStep
  <2>5. n_arrived' \in Nat
    BY <1>2, <2>2, <2>4, LinkAssumption DEF AirOK
  <2>6. rx_queue' = rx_queue /\ delivered' = delivered
        /\ last_known_block' = last_known_block
    BY <2>2 DEF vars
  <2>7. ASSUME NEW b \in 0 .. n_encoded - 1
        PROVE  Followed(b)'
    <3>1. b \in BlockIdx /\ b \in Nat /\ lost_on_air[b] \in Nat
          /\ NSecondary[b] \in Nat
      BY <1>1, <2>3, EncodedFacts, SizeFacts
    <3>2. Followed(b)
      BY <1>1
    <3>3. CASE b # h
      BY <1>2, <2>3, <2>4, <2>5, <2>6, <3>1, <3>2, <3>3 DEF Followed
    <3>4. CASE b = h
      <4>1. Gone(b) = f /\ Gone(b)' = f + 1 /\ lost_on_air'[b] = lost_on_air[b] + 1
        BY <2>1, <2>3, <2>4, <3>1, <3>4
      <4>2. ASSUME NEW i \in 1 .. Len(rx_queue), rx_queue[i].blockIdx = b,
                   f <= Got(rx_queue[i].fragment_map, f) + lost_on_air[b]
            PROVE  Followed(b)'
        <5> DEFINE M == rx_queue[i].fragment_map
        <5>1. M \in SUBSET Nat /\ IsFiniteSet(M)
          BY <1>1, <3>1, <4>2, QueuedIsStarved
        <5>2. Got(M, f) \in Nat /\ Got(M, f + 1) \in Nat /\ Got(M, f) <= Got(M, f + 1)
          <6> HIDE DEF M
          <6>1. f + 1 \in Nat
            OBVIOUS
          <6>2. QED
            BY <5>1, <6>1, GotFacts
        <5>3. f <= Got(M, f) + lost_on_air[b]
          BY <4>2
        <5> HIDE DEF M
        <5>4. f + 1 <= Got(M, f + 1) + (lost_on_air[b] + 1)
          BY <3>1, <5>2, <5>3
        <5>5. f + 1 <= Got(rx_queue'[i].fragment_map, f + 1) + lost_on_air'[b]
          BY <2>6, <4>1, <5>4 DEF M
        <5>6. QED
          BY <2>6, <4>1, <4>2, <5>5 DEF Followed
      <4>3. CASE last_known_block < b /\ f <= lost_on_air[b]
        BY <2>6, <3>1, <4>1, <4>3 DEF Followed
      <4>4. CASE b < n_arrived
        BY <1>2, <2>1, <3>4, <4>4
      <4>5. CASE b \in CompleteIn(delivered)
        BY <2>6, <4>5 DEF Followed
      <4>6. QED
        BY <3>2, <4>1, <4>2, <4>3, <4>4, <4>5 DEF Followed
    <3>5. QED
      BY <3>3, <3>4
  <2>8. last_known_block' <= n_arrived' /\ last_known_block' < n_encoded'
    BY <1>1, <1>2, <2>2, <2>4, <2>5, <2>6
  <2>9. QED
    BY <1>3, <2>2, <2>4, <2>7, <2>8 DEF LinkInv
<1>9. CASE UNCHANGED linkVars
  <2>1. /\ UNCHANGED vars
        /\ UNCHANGED <<m_curr_block_idx, n_encoded, air, lost_on_air, n_arrived>>
    BY <1>9 DEF linkVars
  <2>2. AirOK'
    BY <1>1, <2>1 DEF AirOK, Successor, Size
  <2>3. /\ rx_queue' = rx_queue /\ delivered' = delivered
        /\ last_known_block' = last_known_block
    BY <2>1 DEF vars
  <2>4. \A b \in 0 .. n_encoded' - 1 : Followed(b)'
    BY <1>1, <2>1, <2>3 DEF Followed, Gone, Size
  <2>5. QED
    BY <1>1, <1>3, <2>1, <2>2, <2>3, <2>4 DEF LinkInv
<1>10. QED
  BY <1>4, <1>6, <1>7, <1>8, <1>9 DEF LinkNext

\* The invariant of the link holds as long as no block index is used twice.
THEOREM LinkInvariance ==
    ASSUME MaxBlocks <= IdxModulus
    PROVE  LinkSpec => []LinkInv
<1>1. LinkInit => LinkInv
  BY LinkInitInv
<1>2. LinkInv /\ [LinkNext]_linkVars => LinkInv'
  BY LinkNextInv
<1>3. QED
  BY <1>1, <1>2, PTL DEF LinkSpec

\* The promise of the code rate: a block that lost no more fragments than it
\* has correction fragments is handed up completely, at the latest when its
\* last fragment has passed, whatever the queue depth, whatever is lost of
\* other blocks, and whatever is heard twice (FECDecoder.cpp:60-132, 170-262).
THEOREM FecCovers ==
    ASSUME MaxBlocks <= IdxModulus
    PROVE  LinkSpec => []FecCoversLosses
<1>1. LinkInv => FecCoversLosses
  <2>1. SUFFICES ASSUME LinkInv, NEW b \in 0 .. n_arrived - 1,
                        lost_on_air[b] <= NSecondary[b]
                 PROVE  Complete(b)
    BY DEF FecCoversLosses
  <2>2. /\ IInv /\ AirOK /\ n_encoded \in Nat /\ n_arrived \in 0 .. n_encoded
    BY <2>1, LinkAssumption DEF LinkInv, AirOK
  <2>3. b \in 0 .. n_encoded - 1 /\ b < n_arrived
    BY <2>2
  <2>4. b \in BlockIdx /\ Followed(b)
    BY <2>1, <2>2, <2>3, EncodedFacts DEF LinkInv
  <2>5. lost_on_air[b] \in Nat /\ NSecondary[b] \in Nat
    BY <2>2, <2>4, SizeFacts DEF AirOK
  <2>6. b \in CompleteIn(delivered)
    BY <2>1, <2>2, <2>3, <2>4, <2>5, PassedBlock
  <2>7. QED
    BY <2>6 DEF CompleteIn, Complete
<1>2. QED
  BY <1>1, LinkInvariance, PTL

\* What the ground counts as lost was lost: each block counted had more of its
\* fragments lost on air than FEC can replace.
LEMMA LostIsJustified ==
    ASSUME LinkInv, MaxBlocks <= IdxModulus
    PROVE  LostCountJustified
<1> DEFINE last == last_known_block
           first == session.first
           A == first .. last
           C == CompleteIn(delivered)
           n == Len(rx_queue)
           Q == (last - n) + 1 .. last
           T == {b \in BlockIdx : b < n_arrived /\ lost_on_air[b] > NSecondary[b]}
<1>1. /\ IInv /\ Accounting /\ AirOK /\ session.lostBefore = 0
      /\ last <= n_arrived /\ last < n_encoded
      /\ \A b \in 0 .. n_encoded - 1 : Followed(b)
  BY DEF LinkInv
<1>2. /\ last \in Int /\ n \in Nat /\ n_arrived \in Nat /\ n_encoded \in Nat
      /\ stats.lost \in Nat
  BY <1>1, LinkAssumption, LenProperties DEF AirOK, IInv, TypeOK, NoBlock
<1>3. IsFiniteSet(T) /\ Cardinality(T) \in Nat
  <2>1. T \subseteq 0 .. n_arrived - 1
    <3>1. ASSUME NEW b \in T
          PROVE  b \in 0 .. n_arrived - 1
      <4>1. b \in Nat /\ b < n_arrived
        BY LayoutAssumption
      <4>2. QED
        BY <1>2, <4>1
    <3>2. QED
      BY <3>1
  <2>2. IsFiniteSet(0 .. n_arrived - 1)
    BY <1>2, FS_Interval
  <2> HIDE DEF T
  <2>3. QED
    BY <2>1, <2>2, FS_Subset, FS_CardinalityType
<1>4. CASE last = NoBlock
  <2>1. stats.lost = 0
    BY <1>1, <1>4 DEF Accounting
  <2>2. QED
    BY <1>3, <2>1 DEF LostCountJustified
<1>5. CASE last # NoBlock
  <2>1. /\ first \in Nat
        /\ stats.lost + Cardinality(C) + n = last - first + 1
    <3>1. /\ first \in Nat
          /\ (stats.lost - session.lostBefore) + Cardinality(CompleteBlocks) + n
                 = last - first + 1
      BY <1>1, <1>5 DEF Accounting, BlocksAccounted
    <3>2. CompleteBlocks = C
      BY DEF CompleteBlocks, CompleteIn
    <3> HIDE DEF C, last, first, n
    <3>3. QED
      BY <1>1, <1>2, <3>1, <3>2
  <2>2. A \ (C \cup Q) \subseteq T
    <3>1. ASSUME NEW c \in A, c \notin C, c \notin Q
          PROVE  c \in T
      <4>1. c \in Int /\ 0 <= c /\ c <= last
        BY <1>2, <2>1, <3>1
      <4>2. c \in 0 .. n_encoded - 1
        BY <1>1, <1>2, <4>1
      <4>3. Followed(c) /\ c \in BlockIdx
        BY <1>1, <4>2, EncodedFacts
      <4>4. ASSUME NEW i \in 1 .. n
            PROVE  rx_queue[i].blockIdx # c
        <5>1. rx_queue[i].blockIdx = (last - n) + i
          BY <1>1 DEF IInv, QueueWF
        <5>2. c < (last - n) + 1
          BY <1>2, <3>1, <4>1
        <5>3. QED
          BY <1>2, <4>1, <5>1, <5>2
      <4>5. ~(last < c)
        BY <1>2, <4>1
      <4>6. QED
        BY <3>1, <4>3, <4>4, <4>5 DEF Followed
    <3> HIDE DEF A, C, Q, T
    <3>2. QED
      BY <3>1
  <2>3. IsFiniteSet(A) /\ Cardinality(A) \in Nat /\ Cardinality(A) >= last - first + 1
    <3> HIDE DEF last, first
    <3>1. first \in Int /\ last \in Int
      BY <1>2, <2>1
    <3>2. /\ IsFiniteSet(A)
          /\ Cardinality(A) = IF first > last THEN 0 ELSE last - first + 1
      BY <3>1, FS_Interval
    <3> HIDE DEF A
    <3>3. QED
      BY <3>1, <3>2
  <2>4. IsFiniteSet(C) /\ Cardinality(C) \in Nat
    <3>1. IsFiniteSet(CompleteIn(delivered))
      BY <1>1, <1>2, CompleteIsFinite DEF IInv
    <3>2. QED
      BY <3>1, FS_CardinalityType
  <2>5. IsFiniteSet(Q) /\ Cardinality(Q) \in Nat /\ Cardinality(Q) <= n
    <3> HIDE DEF last, n
    <3>1. (last - n) + 1 \in Int /\ last \in Int
      BY <1>2
    <3>2. /\ IsFiniteSet(Q)
          /\ Cardinality(Q) = IF (last - n) + 1 > last THEN 0
                             ELSE last - ((last - n) + 1) + 1
      BY <3>1, FS_Interval
    <3> HIDE DEF Q
    <3>3. QED
      BY <1>2, <3>2
  <2> HIDE DEF A, C, Q, T, n, last, first
  <2>6. /\ IsFiniteSet(C \cup Q) /\ Cardinality(C \cup Q) \in Nat
        /\ Cardinality(C \cup Q) <= Cardinality(C) + Cardinality(Q)
    <3>1. /\ IsFiniteSet(C \cup Q) /\ IsFiniteSet(C \cap Q)
          /\ Cardinality(C \cup Q)
                 = Cardinality(C) + Cardinality(Q) - Cardinality(C \cap Q)
      BY <2>4, <2>5, FS_Union, FS_Intersection
    <3>2. Cardinality(C \cup Q) \in Nat /\ Cardinality(C \cap Q) \in Nat
      BY <3>1, FS_CardinalityType
    <3>3. QED
      BY <2>4, <2>5, <3>1, <3>2
  <2>7. Cardinality(A) - Cardinality(C \cup Q) <= Cardinality(A \ (C \cup Q))
    <3> DEFINE X == C \cup Q
    <3> HIDE DEF X
    <3>1. IsFiniteSet(X)
      BY <2>6 DEF X
    <3>2. /\ IsFiniteSet(A \ X)
          /\ Cardinality(A \ X) = Cardinality(A) - Cardinality(A \cap X)
      BY <2>3, FS_Difference
    <3>3. /\ Cardinality(A \cap X) <= Cardinality(X)
          /\ IsFiniteSet(A \cap X)
      <4>1. A \cap X \subseteq X
        OBVIOUS
      <4>2. QED
        BY <3>1, <4>1, FS_Subset
    <3>4. Cardinality(X) \in Nat /\ Cardinality(A \cap X) \in Nat
      BY <3>1, <3>3, FS_CardinalityType
    <3>5. Cardinality(A) - Cardinality(X) <= Cardinality(A \ X)
      BY <2>3, <3>2, <3>3, <3>4
    <3>6. QED
      BY <3>5 DEF X
  <2>8. Cardinality(A \ (C \cup Q)) <= Cardinality(T)
        /\ Cardinality(A \ (C \cup Q)) \in Nat
    <3>1. IsFiniteSet(A \ (C \cup Q))
      BY <1>3, <2>2, FS_Subset
    <3>2. QED
      BY <1>3, <2>2, <3>1, FS_Subset, FS_CardinalityType
  <2>9. stats.lost <= Cardinality(T)
    BY <1>2, <1>3, <2>1, <2>3, <2>4, <2>5, <2>6, <2>7, <2>8
  <2>10. QED
    BY <2>9 DEF LostCountJustified, T
<1>6. QED
  BY <1>4, <1>5

\* The lost count of the receive statistics never blames the link for a block
\* that FEC could have delivered (FECDecoder.cpp:60-132, 196-262).
THEOREM LossesAreReal ==
    ASSUME MaxBlocks <= IdxModulus
    PROVE  LinkSpec => []LostCountJustified
<1>1. LinkInv => LostCountJustified
  BY LostIsJustified
<1>2. QED
  BY <1>1, LinkInvariance, PTL

=============================================================================
