-------------------------- MODULE WBStreamTxProofs --------------------------
(***************************************************************************)
(* Proofs about WBStreamTx, for any capacity of the queue, any shapes of   *)
(* frames and any sizes of the encoder's tables: no item disappears from   *)
(* the accounts, and what reaches the encoder are blocks it can encode.    *)
(***************************************************************************)
EXTENDS WBStreamTx, FiniteSetTheorems, FunctionTheorems,
        WellFoundedInduction, SequenceTheorems, TLAPS

-----------------------------------------------------------------------------
(* The accounts.                                                           *)

Kinds == {"block", "idr", "frame", "packet"}
AnyItem == [id : Nat, kind : Kinds, shape : Shapes]

CountersType ==
    /\ queue \in Seq(AnyItem) /\ taken \in Seq(AnyItem)
    /\ n_offered \in Nat /\ rejected \in Nat
    /\ m_n_dropped_frames \in Nat /\ m_n_dropped_packets \in Nat
    /\ enable_fec \in BOOLEAN

Accounts == CountersType /\ ItemsAccounted

\* A new stream has nothing to account for.
LEMMA AccountsInit == TxInit => Accounts
<1> SUFFICES ASSUME TxInit PROVE Accounts
  OBVIOUS
<1>1. queue = <<>> /\ taken = <<>> /\ Len(queue) = 0 /\ Len(taken) = 0
  BY DEF TxInit, QueueInit
<1> QED
  BY <1>1 DEF TxInit, Accounts, CountersType, ItemsAccounted

\* What the three outcomes of an enqueue do to the lengths.
LEMMA EnqueueLength ==
  ASSUME CountersType, NEW x \in AnyItem, Enqueue(x)
  PROVE  /\ queue' \in Seq(AnyItem) /\ taken' = taken
         /\ Len(queue') = Len(queue) + 1
  BY DEF CountersType, Enqueue

\* Clearing leaves the new item alone in the queue.
LEMMA ClearLength ==
  ASSUME CountersType, NEW x \in AnyItem, ClearEnqueue(x)
  PROVE  queue' \in Seq(AnyItem) /\ taken' = taken /\ Len(queue') = 1
  BY DEF CountersType, ClearEnqueue

\* Taking an item moves it from the queue to those taken.
LEMMA DequeueLength ==
  ASSUME CountersType, Dequeue
  PROVE  /\ queue' \in Seq(AnyItem) /\ taken' \in Seq(AnyItem)
         /\ Len(queue') = Len(queue) - 1 /\ Len(taken') = Len(taken) + 1
<1>1. Head(queue) \in AnyItem /\ Len(queue) > 0 /\ Len(queue) \in Nat
  BY DEF CountersType, Dequeue
<1> QED
  BY <1>1 DEF CountersType, Dequeue

\* Every call makes an item of the right type.
LEMMA ItemType ==
  ASSUME n_offered \in Nat, NEW shape \in Shapes
  PROVE  /\ Item("block", shape) \in AnyItem /\ Item("idr", shape) \in AnyItem
         /\ Item("frame", shape) \in AnyItem
         /\ Item("packet", shape) \in AnyItem
  BY DEF Item, AnyItem, Kinds

\* Frames are handed to streams with FEC and packets to streams without.
LEMMA OfferMode ==
  /\ Offer(TRUE) => enable_fec = TRUE
  /\ Offer(FALSE) => enable_fec = FALSE
  BY DEF Offer

\* One call of a producer that may be refused.
LEMMA TryEnqueueAccounts ==
  ASSUME Accounts, enable_fec' = enable_fec, n_offered' = n_offered + 1,
         NEW x \in AnyItem, NEW nPackets \in Nat, NEW nFrames \in Nat,
         TryEnqueue(x, nPackets, nFrames),
         enable_fec => nFrames = 1, ~enable_fec => nPackets = 1
  PROVE  Accounts'
<1> USE DEF Accounts, CountersType, ItemsAccounted
<1>1. rejected' = rejected
  BY DEF TryEnqueue
<1>2. Len(queue) \in Nat /\ Len(taken) \in Nat
  OBVIOUS
<1>3. CASE Enqueue(x) /\ UNCHANGED <<m_n_dropped_packets, m_n_dropped_frames>>
  BY <1>1, <1>2, <1>3, EnqueueLength
<1>4. CASE /\ m_n_dropped_packets' = m_n_dropped_packets + nPackets
           /\ m_n_dropped_frames' = m_n_dropped_frames + nFrames
           /\ UNCHANGED queueVars
  BY <1>1, <1>2, <1>4 DEF queueVars
<1> QED
  BY <1>3, <1>4 DEF TryEnqueue

\* One call of a producer that clears a full queue.
LEMMA DroppingAccounts ==
  ASSUME Accounts, enable_fec' = enable_fec, n_offered' = n_offered + 1,
         rejected' = rejected, NEW x \in AnyItem,
         \/ Enqueue(x) /\ UNCHANGED <<m_n_dropped_packets, m_n_dropped_frames>>
         \/ /\ ClearEnqueue(x)
            /\ m_n_dropped_packets' \in Nat /\ m_n_dropped_frames' \in Nat
            /\ enable_fec =>
                   m_n_dropped_frames' = m_n_dropped_frames + Len(queue)
            /\ ~enable_fec =>
                   m_n_dropped_packets' = m_n_dropped_packets + Len(queue)
  PROVE  Accounts'
<1> USE DEF Accounts, CountersType, ItemsAccounted
<1>2. Len(queue) \in Nat /\ Len(taken) \in Nat
  OBVIOUS
<1>3. CASE Enqueue(x) /\ UNCHANGED <<m_n_dropped_packets, m_n_dropped_frames>>
  BY <1>2, <1>3, EnqueueLength
<1>4. CASE /\ ClearEnqueue(x)
           /\ m_n_dropped_packets' \in Nat /\ m_n_dropped_frames' \in Nat
           /\ enable_fec =>
                  m_n_dropped_frames' = m_n_dropped_frames + Len(queue)
           /\ ~enable_fec =>
                  m_n_dropped_packets' = m_n_dropped_packets + Len(queue)
  <2>1. queue' \in Seq(AnyItem) /\ taken' = taken /\ Len(queue') = 1
    BY <1>4, ClearLength
  <2>2. CountersType'
    BY <2>1, <1>4
  <2>3. ItemsAccounted'
    <3>1. CASE enable_fec
      BY <2>1, <2>2, <1>2, <1>4, <3>1
    <3>2. CASE ~enable_fec
      BY <2>1, <2>2, <1>2, <1>4, <3>2
    <3> QED
      BY <3>1, <3>2
  <2> QED
    BY <2>2, <2>3
<1> QED
  BY <1>3, <1>4, Zenon

\* Every call of the producer and every step of the thread keeps the accounts.
LEMMA AccountsStep == Accounts /\ [TxNext]_vars => Accounts'
<1> SUFFICES ASSUME Accounts, [TxNext]_vars PROVE Accounts'
  OBVIOUS
<1>t. /\ CountersType /\ Len(queue) \in Nat /\ n_offered \in Nat
      /\ m_n_dropped_packets \in Nat /\ m_n_dropped_frames \in Nat
  BY DEF Accounts, CountersType
<1>e. ASSUME Offer(TRUE) \/ Offer(FALSE)
      PROVE  enable_fec' = enable_fec /\ n_offered' = n_offered + 1
  BY <1>e, Zenon DEF Offer
<1>1. ASSUME Reject PROVE Accounts'
  <2>1. /\ enable_fec' = enable_fec /\ n_offered' = n_offered + 1
        /\ rejected' = rejected + 1
        /\ UNCHANGED <<queue, taken, m_n_dropped_packets, m_n_dropped_frames>>
    BY <1>1, <1>e, Zenon DEF Reject
  <2> QED
    BY <2>1 DEF Accounts, CountersType, ItemsAccounted
<1>2. ASSUME NEW shape \in Shapes, try_enqueue_block(shape) PROVE Accounts'
  <2>1. /\ Offer(TRUE) /\ TryEnqueue(Item("block", shape), shape.n, 1)
    BY <1>2, Zenon DEF try_enqueue_block
  <2>2. enable_fec /\ shape.n \in Nat /\ 1 \in Nat
    BY <2>1, OfferMode, TxAssumption
  <2>3. Item("block", shape) \in AnyItem
    BY <1>t, ItemType
  <2> QED
    BY <1>e, <2>1, <2>2, <2>3, TryEnqueueAccounts
<1>3. ASSUME NEW shape \in Shapes, try_enqueue_frame(shape) PROVE Accounts'
  <2>1. /\ Offer(TRUE) /\ TryEnqueue(Item("frame", shape), 1, 1)
    BY <1>3, Zenon DEF try_enqueue_frame
  <2>2. Item("frame", shape) \in AnyItem
    BY <1>t, ItemType
  <2> QED
    BY <1>e, <2>1, <2>2, OfferMode, TryEnqueueAccounts
<1>4. ASSUME NEW shape \in Shapes, try_enqueue_packet(shape) PROVE Accounts'
  <2>1. /\ Offer(FALSE) /\ TryEnqueue(Item("packet", shape), 1, 0)
    BY <1>4, Zenon DEF try_enqueue_packet
  <2>2. Item("packet", shape) \in AnyItem
    BY <1>t, ItemType
  <2> QED
    BY <1>e, <2>1, <2>2, OfferMode, TryEnqueueAccounts
<1>5. ASSUME NEW shape \in Shapes, enqueue_block_dropping(shape)
      PROVE Accounts'
  <2> DEFINE x == Item("idr", shape)
  <2>1. /\ Offer(TRUE) /\ rejected' = rejected
        /\ \/ /\ Enqueue(x)
              /\ UNCHANGED <<m_n_dropped_packets, m_n_dropped_frames>>
           \/ /\ ClearEnqueue(x)
              /\ m_n_dropped_packets' = m_n_dropped_packets + shape.n
              /\ m_n_dropped_frames' = m_n_dropped_frames + Len(queue)
    BY <1>5, Zenon DEF enqueue_block_dropping
  <2>2. x \in AnyItem /\ enable_fec
    BY <1>t, <2>1, ItemType, OfferMode
  <2>3. shape.n \in Nat
    BY TxAssumption
  <2>4. enable_fec' = enable_fec /\ n_offered' = n_offered + 1
    BY <1>e, <2>1
  <2> HIDE DEF x
  <2> QED
    BY <1>t, <2>1, <2>2, <2>3, <2>4, DroppingAccounts
<1>6. ASSUME NEW shape \in Shapes, enqueue_packet_dropping(shape)
      PROVE Accounts'
  <2> DEFINE x == Item("packet", shape)
  <2>1. /\ Offer(FALSE) /\ rejected' = rejected
        /\ m_n_dropped_frames' = m_n_dropped_frames
        /\ \/ Enqueue(x) /\ m_n_dropped_packets' = m_n_dropped_packets
           \/ /\ ClearEnqueue(x)
              /\ m_n_dropped_packets' = m_n_dropped_packets + Len(queue)
    BY <1>6, Zenon DEF enqueue_packet_dropping, history
  <2>2. x \in AnyItem /\ ~enable_fec
    BY <1>t, <2>1, ItemType, OfferMode
  <2>3. enable_fec' = enable_fec /\ n_offered' = n_offered + 1
    BY <1>e, <2>1
  <2> HIDE DEF x
  <2> QED
    BY <1>t, <2>1, <2>2, <2>3, DroppingAccounts
<1>7. ASSUME TakeItem PROVE Accounts'
  <2>1. /\ Dequeue
        /\ UNCHANGED <<n_offered, rejected, m_n_dropped_frames,
                       m_n_dropped_packets, enable_fec>>
    BY <1>7, Zenon DEF TakeItem, stats, history
  <2>2. Len(taken) \in Nat
    BY <1>t DEF CountersType
  <2> QED
    BY <2>1, <2>2, <1>t, DequeueLength
       DEF Accounts, CountersType, ItemsAccounted
<1>8. ASSUME \/ LoopTest \/ Timeout \/ SendBlock \/ Destroy \/ UNCHANGED vars
      PROVE Accounts'
  <2>1. UNCHANGED <<queue, taken, n_offered, rejected, m_n_dropped_frames,
                    m_n_dropped_packets, enable_fec>>
    BY <1>8 DEF LoopTest, Timeout, SendBlock, Destroy, vars, stats, history,
                queueVars
  <2> QED
    BY <2>1 DEF Accounts, CountersType, ItemsAccounted
<1> QED
  BY <1>1, <1>2, <1>3, <1>4, <1>5, <1>6, <1>7, <1>8 DEF TxNext

\* Every item handed in and not rejected is sent, in work, queued or counted as
\* dropped exactly once, in both modes, whatever the capacity.
THEOREM NoItemIsLost == TxSpec => []ItemsAccounted
<1>1. Accounts => ItemsAccounted
  BY DEF Accounts
<1> QED
  BY <1>1, AccountsInit, AccountsStep, PTL DEF TxSpec

-----------------------------------------------------------------------------
(* Division, and dealing out fragments.                                    *)

\* Multiplying keeps the order, strictly if it was strict.
LEMMA TimesOrder ==
  ASSUME NEW k \in Nat \ {0}, NEW a \in Nat, NEW b \in Nat
  PROVE  /\ k * a \in Nat
         /\ a <= b <=> k * a <= k * b
         /\ a < b => k * a + k <= k * b
<1>0. k * a \in Nat
  OBVIOUS
<1>1. a <= b => k * a <= k * b
  OBVIOUS
<1>2. a < b => k * a + k <= k * b
  <2> SUFFICES ASSUME a < b PROVE k * a + k <= k * b
    OBVIOUS
  <2>1. a + 1 <= b /\ k * (a + 1) = k * a + k
    OBVIOUS
  <2> QED
    BY <2>1
<1> QED
  BY <1>0, <1>1, <1>2

\* Quotient and remainder.
LEMMA DivMod ==
  ASSUME NEW a \in Nat, NEW k \in Nat \ {0}
  PROVE  /\ a \div k \in Nat /\ a % k \in 0 .. k - 1
         /\ a = k * (a \div k) + (a % k)
  OBVIOUS

\* ... are the only ones.
LEMMA DivModUnique ==
  ASSUME NEW k \in Nat \ {0}, NEW j \in Nat, NEW c \in 0 .. k - 1
  PROVE  (k * j + c) \div k = j /\ (k * j + c) % k = c
<1> DEFINE a == k * j + c
<1>1. a \in Nat
  OBVIOUS
<1>2. /\ a \div k \in Nat /\ a % k \in 0 .. k - 1
      /\ a = k * (a \div k) + (a % k)
  BY <1>1, DivMod
<1> DEFINE q == a \div k
           r == a % k
<1>3. q \in Nat /\ r \in 0 .. k - 1 /\ k * q + r = k * j + c
  BY <1>2
<1> HIDE DEF q, r
<1>4. q = j
  <2>1. ~(q < j)
    BY <1>3, k * q + k <= k * j \/ ~(q < j), TimesOrder
  <2>2. ~(j < q)
    BY <1>3, TimesOrder
  <2> QED
    BY <1>3, <2>1, <2>2
<1>5. r = c
  BY <1>3, <1>4
<1> QED
  BY <1>4, <1>5 DEF q, r

\* Division that rounds up.
LEMMA CeilBounds ==
  ASSUME NEW a \in Nat \ {0}, NEW b \in Nat \ {0}
  PROVE  /\ div_ceil(a, b) \in Nat \ {0}
         /\ b * (div_ceil(a, b) - 1) < a /\ a <= b * div_ceil(a, b)
<1> DEFINE q == a \div b
           r == a % b
<1>1. q \in Nat /\ r \in 0 .. b - 1 /\ a = b * q + r
  BY DivMod
<1>2. div_ceil(a, b) = IF r # 0 THEN q + 1 ELSE q
  BY <1>1 DEF div_ceil
<1> HIDE DEF q, r
<1>3. CASE r # 0
  BY <1>1, <1>2, <1>3, b * (q + 1) = b * q + b
<1>4. CASE r = 0
  <2>1. q # 0
    BY <1>1, <1>4
  <2> QED
    BY <1>1, <1>2, <1>4, <2>1, b * (q - 1) = b * q - b
<1> QED
  BY <1>3, <1>4

\* It is the smallest number of parts that suffices.
LEMMA CeilLeast ==
  ASSUME NEW a \in Nat \ {0}, NEW b \in Nat \ {0}, NEW c \in Nat, a <= b * c
  PROVE  div_ceil(a, b) <= c
<1> DEFINE d == div_ceil(a, b)
<1>1. d \in Nat \ {0} /\ b * (d - 1) < a
  BY CeilBounds
<1> HIDE DEF d
<1>2. c < d => c <= d - 1 /\ d - 1 \in Nat
  BY <1>1
<1>3. c < d => b * c <= b * (d - 1)
  BY <1>2, TimesOrder
<1>4. b * c \in Nat /\ (d - 1 \in Nat => b * (d - 1) \in Nat)
  OBVIOUS
<1> QED
  BY <1>1, <1>2, <1>3, <1>4 DEF d

\* How many of n turns, counted modulo k, are c.
Share(n, k, c) == (n \div k) + (IF c < (n % k) THEN 1 ELSE 0)

\* The turns of c among n are exactly the first ones of the form k * j + c.
LEMMA SharePosition ==
  ASSUME NEW n \in Nat, NEW k \in Nat \ {0}, NEW c \in 0 .. k - 1, NEW j \in Nat
  PROVE  /\ Share(n, k, c) \in Nat
         /\ j < Share(n, k, c) <=> k * j + c < n
<1> DEFINE q == n \div k
           r == n % k
<1>1. q \in Nat /\ r \in 0 .. k - 1 /\ n = k * q + r
  BY DivMod
<1>2. Share(n, k, c) = q + (IF c < r THEN 1 ELSE 0)
  BY DEF Share
<1> HIDE DEF q, r
<1>3. k * q \in Nat /\ k * j \in Nat
  BY <1>1
<1>4. CASE c < r
  <2>1. Share(n, k, c) = q + 1
    BY <1>2, <1>4
  <2>2. j <= q => k * j <= k * q
    BY <1>1, TimesOrder
  <2>3. q < j => k * q + k <= k * j
    BY <1>1, TimesOrder
  <2> QED
    BY <1>1, <1>3, <1>4, <2>1, <2>2, <2>3
<1>5. CASE ~(c < r)
  <2>1. Share(n, k, c) = q
    BY <1>1, <1>2, <1>5
  <2>2. j < q => k * j + k <= k * q
    BY <1>1, TimesOrder
  <2>3. q <= j => k * q <= k * j
    BY <1>1, TimesOrder
  <2> QED
    BY <1>1, <1>3, <1>5, <2>1, <2>2, <2>3
<1> QED
  BY <1>4, <1>5

\* As many numbers below n leave the remainder c as the share says.
LEMMA ShareCounts ==
  ASSUME NEW n \in Nat, NEW k \in Nat \ {0}, NEW c \in 0 .. k - 1
  PROVE  Cardinality({turn \in 0 .. n - 1 : turn % k = c}) = Share(n, k, c)
<1> DEFINE T == {turn \in 0 .. n - 1 : turn % k = c}
           s == Share(n, k, c)
           f == [j \in 1 .. s |-> k * (j - 1) + c]
<1>1. s \in Nat
  BY 0 \in Nat, SharePosition
<1> HIDE DEF s
<1>2. ASSUME NEW j \in 1 .. s
      PROVE  f[j] \in T
  <2>1. j - 1 \in Nat /\ j - 1 < s
    BY <1>1
  <2>2. k * (j - 1) + c < n
    BY <2>1, SharePosition DEF s
  <2>3. (k * (j - 1) + c) % k = c
    BY <2>1, DivModUnique
  <2>4. k * (j - 1) \in Nat
    BY <2>1
  <2>5. k * (j - 1) + c \in 0 .. n - 1
    BY <2>2, <2>4
  <2> QED
    BY <2>3, <2>5
<1>3. ASSUME NEW a \in 1 .. s, NEW b \in 1 .. s, f[a] = f[b]
      PROVE  a = b
  <2>1. a - 1 \in Nat /\ b - 1 \in Nat
    BY <1>1
  <2>2. /\ (k * (a - 1) + c) \div k = a - 1
        /\ (k * (b - 1) + c) \div k = b - 1
    BY <2>1, DivModUnique
  <2>3. k * (a - 1) + c = k * (b - 1) + c
    BY <1>3
  <2>4. a - 1 = b - 1
    BY <2>2, <2>3
  <2> QED
    BY <2>4, <1>1
<1>4. ASSUME NEW t \in T
      PROVE  \E j \in 1 .. s : f[j] = t
  <2> DEFINE q == t \div k
  <2>1. t \in Nat /\ t < n /\ t % k = c
    OBVIOUS
  <2>2. q \in Nat /\ t = k * q + c
    BY <2>1, DivMod
  <2> HIDE DEF q
  <2>3. q < s
    BY <2>1, <2>2, SharePosition DEF s
  <2>4. q + 1 \in 1 .. s /\ (q + 1) - 1 = q
    BY <1>1, <2>2, <2>3
  <2>5. f[q + 1] = k * q + c
    BY <2>4
  <2> QED
    BY <2>2, <2>4, <2>5
<1>5. f \in Bijection(1 .. s, T)
  <2> HIDE DEF f, T
  <2>1. f \in [1 .. s -> T]
    <3> f = [j \in 1 .. s |-> f[j]]
      BY DEF f
    <3> QED
      BY <1>2
  <2> QED
    BY <1>3, <1>4, <2>1, Fun_IsBij
<1>6. IsFiniteSet(1 .. s) /\ Cardinality(1 .. s) = s
  BY <1>1, FS_Interval
<1>7. ExistsBijection(1 .. s, T)
  BY <1>5 DEF ExistsBijection
<1> QED
  BY <1>6, <1>7, FS_Bijection DEF s

\* The sizes of the blocks are the shares of dealing the fragments out.
LEMMA SplitShares ==
  ASSUME NEW n \in Nat \ {0}, NEW max \in Nat \ {0}
  PROVE  LET k == calc_min_n_of_blocks(n, max)
         IN  /\ k \in Nat \ {0}
             /\ max * (k - 1) < n /\ n <= max * k /\ k <= n
             /\ calculate_best_fit_block_sizes(n, max)
                    = [i \in 1 .. k |-> Share(n, k, i - 1)]
<1> DEFINE k == calc_min_n_of_blocks(n, max)
<1>1. k = div_ceil(n, max)
  BY DEF calc_min_n_of_blocks
<1>2. k \in Nat \ {0} /\ max * (k - 1) < n /\ n <= max * k
  BY <1>1, CeilBounds
<1>3. k <= n
  <2>1. 1 * n <= max * n
    OBVIOUS
  <2> QED
    BY <1>1, <2>1, CeilLeast
<1>4. CASE n <= max
  <2>1. k <= 1
    BY <1>1, <1>4, n <= max * 1, CeilLeast
  <2>2. k = 1
    BY <1>2, <2>1
  <2>3. n \div 1 = n /\ n % 1 = 0
    OBVIOUS
  <2>4. Share(n, 1, 1 - 1) = n
    BY <2>3 DEF Share
  <2>5. [i \in 1 .. 1 |-> Share(n, 1, i - 1)] = <<n>>
    BY <2>4
  <2>6. calculate_best_fit_block_sizes(n, max) = <<n>>
    BY <1>4 DEF calculate_best_fit_block_sizes
  <2> QED
    BY <1>2, <1>3, <2>2, <2>5, <2>6
<1>5. CASE ~(n <= max)
  <2>1. calculate_best_fit_block_sizes(n, max) =
            [i \in 1 .. k |->
                Cardinality({turn \in 0 .. n - 1 : turn % k = i - 1})]
    BY <1>5 DEF calculate_best_fit_block_sizes
  <2> HIDE DEF k
  <2>2. ASSUME NEW i \in 1 .. k
        PROVE  Cardinality({turn \in 0 .. n - 1 : turn % k = i - 1})
                   = Share(n, k, i - 1)
    <3>1. i - 1 \in 0 .. k - 1 /\ k \in Nat \ {0}
      BY <1>2
    <3> QED
      BY <3>1, ShareCounts
  <2>3. calculate_best_fit_block_sizes(n, max) =
            [i \in 1 .. k |-> Share(n, k, i - 1)]
    BY <2>1, <2>2
  <2> QED
    BY <1>2, <1>3, <2>3 DEF k
<1> QED
  BY <1>4, <1>5

\* Dealing n fragments to k blocks gives every block at least one, none more
\* than the limit, none more than one above another.
LEMMA ShareBounds ==
  ASSUME NEW n \in Nat \ {0}, NEW k \in Nat \ {0}, NEW max \in Nat \ {0},
         n <= max * k, k <= n, NEW c \in 0 .. k - 1
  PROVE  /\ Share(n, k, c) \in 1 .. max
         /\ \A d \in 0 .. k - 1 : Share(n, k, c) <= Share(n, k, d) + 1
<1>1. Share(n, k, c) \in Nat
  BY 0 \in Nat, SharePosition
<1>2. 0 < Share(n, k, c)
  <2>1. k * 0 + c < n /\ 0 \in Nat
    OBVIOUS
  <2> QED
    BY <2>1, SharePosition
<1>3. ~(max < Share(n, k, c))
  <2>1. max < Share(n, k, c) <=> k * max + c < n
    BY SharePosition
  <2>2. k * max = max * k /\ k * max \in Nat
    OBVIOUS
  <2> QED
    BY <2>1, <2>2
<1>4. ASSUME NEW d \in 0 .. k - 1
      PROVE  Share(n, k, c) <= Share(n, k, d) + 1
  <2>1. n \div k \in Nat
    BY DivMod
  <2> QED
    BY <2>1 DEF Share
<1> QED
  BY <1>1, <1>2, <1>3, <1>4

\* Blocks of those sizes have a place for each of the fragments.
LEMMA PlacesCount ==
  ASSUME NEW n \in Nat \ {0}, NEW k \in Nat \ {0}, NEW bs,
         DOMAIN bs = 1 .. k,
         \A i \in 1 .. k : bs[i].nPrimary = Share(n, k, i - 1)
  PROVE  Cardinality(Places(bs)) = n
<1> DEFINE f == [turn \in 0 .. n - 1 |-> <<(turn % k) + 1, (turn \div k) + 1>>]
           P == Places(bs)
<1>1. \A i \in 1 .. k : \A j : <<i, j>> \in P <=> j \in 1 .. Share(n, k, i - 1)
  BY DEF Places
<1>2. \A p \in P : \E i \in 1 .. k : \E j \in 1 .. Share(n, k, i - 1) :
          p = <<i, j>>
  BY DEF Places
<1> HIDE DEF P
<1>3. ASSUME NEW turn \in 0 .. n - 1
      PROVE  f[turn] \in P
  <2> DEFINE q == turn \div k
             r == turn % k
  <2>0. turn \in Nat
    OBVIOUS
  <2>1. turn \in Nat /\ q \in Nat /\ r \in 0 .. k - 1 /\ turn = k * q + r
    BY <2>0, DivMod
  <2>2. f[turn] = <<r + 1, q + 1>>
    OBVIOUS
  <2> HIDE DEF q, r, f
  <2>3. q < Share(n, k, r) /\ Share(n, k, r) \in Nat
    <3>1. k * q + r < n
      BY <2>1
    <3> QED
      BY <2>1, <3>1, SharePosition
  <2>4. r + 1 \in 1 .. k /\ (r + 1) - 1 = r /\ q + 1 \in 1 .. Share(n, k, r)
    <3> DEFINE s == Share(n, k, r)
    <3>1. q < s /\ s \in Nat
      BY <2>3
    <3> HIDE DEF s
    <3>2. q + 1 \in 1 .. s
      BY <2>1, <3>1
    <3> QED
      BY <2>1, <3>2 DEF s
  <2> QED
    BY <1>1, <2>2, <2>4
<1>4. ASSUME NEW a \in 0 .. n - 1, NEW b \in 0 .. n - 1, f[a] = f[b]
      PROVE  a = b
  <2>0. a \in Nat /\ b \in Nat
    OBVIOUS
  <2>1. (a % k) + 1 = (b % k) + 1 /\ (a \div k) + 1 = (b \div k) + 1
    BY <1>4
  <2> HIDE DEF f
  <2>2. /\ a \div k \in Nat /\ a % k \in 0 .. k - 1
        /\ b \div k \in Nat /\ b % k \in 0 .. k - 1
        /\ a = k * (a \div k) + (a % k) /\ b = k * (b \div k) + (b % k)
    BY <2>0, DivMod
  <2>3. a % k = b % k /\ a \div k = b \div k
    <3>1. \A x, y \in Nat : x + 1 = y + 1 => x = y
      OBVIOUS
    <3>2. a % k \in Nat /\ b % k \in Nat
      BY <2>2
    <3> QED
      BY <2>1, <2>2, <3>1, <3>2, Zenon
  <2> QED
    BY <2>2, <2>3
<1>5. ASSUME NEW p \in P
      PROVE  \E turn \in 0 .. n - 1 : f[turn] = p
  <2>0. PICK i \in 1 .. k : \E j \in 1 .. Share(n, k, i - 1) : p = <<i, j>>
    BY <1>2
  <2>1. PICK j \in 1 .. Share(n, k, i - 1) : p = <<i, j>>
    BY <2>0
  <2>2. i - 1 \in 0 .. k - 1 /\ (i - 1) + 1 = i
    OBVIOUS
  <2>3. Share(n, k, i - 1) \in Nat
    BY <2>2, 0 \in Nat, SharePosition
  <2>4. j - 1 \in Nat /\ j - 1 < Share(n, k, i - 1) /\ (j - 1) + 1 = j
    BY <2>3
  <2> DEFINE t == k * (j - 1) + (i - 1)
  <2>5. t < n /\ t \in Nat
    <3>1. k * (j - 1) + (i - 1) < n
      BY <2>2, <2>4, SharePosition
    <3>2. k * (j - 1) \in Nat
      BY <2>4
    <3> DEFINE u == k * (j - 1)
    <3>3. u \in Nat /\ i - 1 \in Nat /\ u + (i - 1) < n
      BY <2>2, <3>1, <3>2
    <3> HIDE DEF u
    <3>4. u + (i - 1) \in Nat
      BY <3>3
    <3> QED
      BY <3>3, <3>4 DEF u
  <2>6. t \div k = j - 1 /\ t % k = i - 1
    BY <2>2, <2>4, DivModUnique
  <2>7. t \in 0 .. n - 1
    BY <2>5
  <2> HIDE DEF t
  <2>8. f[t] = <<(i - 1) + 1, (j - 1) + 1>>
    BY <2>6, <2>7
  <2> QED
    BY <2>1, <2>2, <2>4, <2>7, <2>8
<1>6. f \in Bijection(0 .. n - 1, P)
  <2>1. f \in [0 .. n - 1 -> P]
    <3>1. f = [turn \in 0 .. n - 1 |-> f[turn]]
      OBVIOUS
    <3> HIDE DEF f
    <3> QED
      BY <1>3, <3>1
  <2> HIDE DEF f
  <2> QED
    BY <1>4, <1>5, <2>1, Fun_IsBij
<1>7. IsFiniteSet(0 .. n - 1) /\ Cardinality(0 .. n - 1) = n
  <2>1. 0 \in Int /\ n - 1 \in Int /\ ~(0 > n - 1) /\ (n - 1) - 0 + 1 = n
    OBVIOUS
  <2> QED
    BY <2>1, FS_Interval
<1>8. ExistsBijection(0 .. n - 1, P)
  BY <1>6 DEF ExistsBijection
<1> QED
  BY <1>7, <1>8, FS_Bijection DEF P

\* A block has a correction fragment, and no more than the tables hold unless
\* the percentage asks for more.
LEMMA SecondaryBounds ==
  ASSUME NEW n \in Nat \ {0}, NEW perc \in Nat \ {0}, NEW max \in Nat \ {0}
  PROVE  /\ calculate_n_secondary_fragments(n, perc) >= 1
         /\ \/ calculate_n_secondary_fragments(n, perc) <= max
            \/ n * perc > 100 * max
<1> DEFINE x == n * perc
<1>1. x \in Nat \ {0}
  OBVIOUS
<1>2. calculate_n_secondary_fragments(n, perc) =
          IF x <= 100 THEN 1 ELSE (x + 50) \div 100
  BY DEF calculate_n_secondary_fragments
<1> HIDE DEF x
<1>3. (x + 50) \div 100 >= 1 \/ x <= 100
  BY <1>1
<1>4. (x + 50) \div 100 <= max \/ x > 100 * max
  BY <1>1
<1> QED
  BY <1>1, <1>2, <1>3, <1>4 DEF x
\* A set of numbers has a smallest one.
LEMMA Smallest ==
    ASSUME NEW T \in SUBSET Nat, T # {}
    PROVE  \E x \in T : \A y \in T : x <= y
<1> DEFINE R == OpToRel(<, Nat)
<1>1. IsWellFoundedOn(R, Nat)
  BY NatLessThanWellFounded
<1>2. \A x, y \in Nat : x < y => <<x, y>> \in R
  BY DEF OpToRel
<1> HIDE DEF R
<1>3. PICK x \in T : \A y \in T : ~(<<y, x>> \in R)
  BY <1>1, WFMin
<1>4. ASSUME NEW y \in T
      PROVE  x <= y
  <2>1. x \in Nat /\ y \in Nat
    OBVIOUS
  <2>2. ~(y < x)
    BY <1>2, <1>3, <2>1
  <2>3. QED
    BY <2>1, <2>2
<1>5. QED
  BY <1>4

\* One row of the table that FragmentSizes computes: the sizes of the fragments
\* when k of them are left, from the row for k - 1.
Row(k, row, len) == [remaining \in 0 .. len |->
    IF k = 0 \/ remaining = 0 THEN <<>>
    ELSE <<div_ceil(remaining, k)>> \o row[remaining - div_ceil(remaining, k)]]

Cuts(g, len, m) == \A k \in 0 .. m : g[k] = Row(k, g[k - 1], len)

\* The recursive function of FragmentSizes exists.
LEMMA CutExists ==
  ASSUME NEW len \in Nat, NEW m \in Nat
  PROVE  \E g : g = [k \in 0 .. m |-> g[k]] /\ Cuts(g, len, m)
<1> DEFINE Good(k) == \E g : g = [i \in 0 .. k |-> g[i]] /\ Cuts(g, len, k)
           T == {k \in 0 .. m : ~Good(k)}
<1>1. SUFFICES ASSUME T # {} PROVE FALSE
  OBVIOUS
<1>2. T \in SUBSET Nat
  OBVIOUS
<1> HIDE DEF T
<1>3. PICK k \in T : \A y \in T : k <= y
  BY <1>1, <1>2, Smallest
<1>4. k \in 0 .. m /\ ~Good(k)
  BY DEF T
<1>5. \A x, y : Row(0, x, len) = Row(0, y, len)
  BY DEF Row
<1>6. CASE k = 0
  <2> DEFINE g == [i \in 0 .. 0 |-> Row(0, <<>>, len)]
  <2>1. /\ g = [i \in 0 .. 0 |-> g[i]]
        /\ \A i \in 0 .. 0 : g[i] = Row(0, <<>>, len)
    OBVIOUS
  <2> HIDE DEF g
  <2>2. ASSUME NEW i \in 0 .. 0
        PROVE  g[i] = Row(i, g[i - 1], len)
    <3>1. i = 0
      OBVIOUS
    <3> QED
      BY <1>5, <2>1, <3>1
  <2>3. Cuts(g, len, 0)
    BY <2>2 DEF Cuts
  <2> QED
    BY <1>4, <1>6, <2>1, <2>3
<1>7. CASE k # 0
  <2>1. k - 1 \in 0 .. m /\ k \in Nat /\ ~(k <= k - 1)
    BY <1>4, <1>7
  <2>2. Good(k - 1)
    BY <1>3, <2>1 DEF T
  <2>3. PICK g : g = [i \in 0 .. k - 1 |-> g[i]] /\ Cuts(g, len, k - 1)
    BY <2>2
  <2> DEFINE h == [i \in 0 .. k |->
                      IF i = k THEN Row(k, g[k - 1], len) ELSE g[i]]
  <2>4. h = [i \in 0 .. k |-> h[i]]
    OBVIOUS
  <2>5. h[k] = Row(k, g[k - 1], len) /\ \A i \in 0 .. k - 1 : h[i] = g[i]
    BY <2>1
  <2> HIDE DEF h
  <2>6. ASSUME NEW i \in 0 .. k
        PROVE  h[i] = Row(i, h[i - 1], len)
    <3>1. CASE i = k
      <4>1. k - 1 \in 0 .. k - 1
        BY <2>1, <1>7
      <4> QED
        BY <2>5, <3>1, <4>1
    <3>2. CASE i = 0
      <4>1. 0 \in 0 .. k - 1
        BY <1>4, <1>7
      <4>2. h[0] = g[0] /\ g[0] = Row(0, g[0 - 1], len)
        BY <2>3, <2>5, <4>1 DEF Cuts
      <4> QED
        BY <1>5, <3>2, <4>2
    <3>3. CASE i # k /\ i # 0
      <4>1. i \in 0 .. k - 1 /\ i - 1 \in 0 .. k - 1
        BY <2>1, <3>3
      <4>2. h[i] = g[i] /\ h[i - 1] = g[i - 1] /\ g[i] = Row(i, g[i - 1], len)
        BY <2>3, <2>5, <4>1 DEF Cuts
      <4> QED
        BY <4>2
    <3> QED
      BY <3>1, <3>2, <3>3
  <2>7. Cuts(h, len, k)
    BY <2>6 DEF Cuts
  <2> QED
    BY <1>4, <2>4, <2>7
<1> QED
  BY <1>6, <1>7

\* What FragmentSizes returns.
LEMMA FragmentsValue ==
  ASSUME NEW len \in Nat, NEW m \in Nat
  PROVE  \E g : Cuts(g, len, m) /\ FragmentSizes(len, m) = g[m][len]
<1> DEFINE cut[n \in 0 .. m] == [remaining \in 0 .. len |->
               IF n = 0 \/ remaining = 0 THEN <<>>
               ELSE <<div_ceil(remaining, n)>>
                        \o cut[n - 1][remaining - div_ceil(remaining, n)]]
<1>1. PICK g : g = [k \in 0 .. m |-> g[k]] /\ Cuts(g, len, m)
  BY CutExists
<1>2. g = [k \in 0 .. m |-> Row(k, g[k - 1], len)]
  <2>1. \A k \in 0 .. m : g[k] = Row(k, g[k - 1], len)
    BY <1>1 DEF Cuts
  <2>2. [k \in 0 .. m |-> g[k]] = [k \in 0 .. m |-> Row(k, g[k - 1], len)]
    BY <2>1
  <2> QED
    BY <1>1, <2>2
<1>3. cut = CHOOSE f : f = [k \in 0 .. m |-> Row(k, f[k - 1], len)]
  BY Zenon DEF cut, Row
<1>4. FragmentSizes(len, m) = cut[m][len]
  BY Zenon DEF FragmentSizes, cut
<1> HIDE DEF cut
<1>5. cut = [k \in 0 .. m |-> Row(k, cut[k - 1], len)]
  BY <1>2, <1>3, Zenon
<1>6. Cuts(cut, len, m)
  <2>1. ASSUME NEW k \in 0 .. m PROVE cut[k] = Row(k, cut[k - 1], len)
    BY <1>5, Zenon
  <2> QED
    BY <2>1 DEF Cuts
<1> QED
  BY <1>4, <1>6

\* Taking an even share of the rest leaves a byte for each fragment to come.
LEMMA ShareLeavesRest ==
  ASSUME NEW r \in Nat, NEW k \in Nat \ {0}, r >= k
  PROVE  /\ div_ceil(r, k) \in Nat \ {0}
         /\ r - div_ceil(r, k) \in Nat /\ r - div_ceil(r, k) >= k - 1
<1> DEFINE q == r \div k
           s == r % k
<1>1. q \in Nat /\ s \in 0 .. k - 1 /\ r = k * q + s
  BY DivMod
<1>2. div_ceil(r, k) = IF s # 0 THEN q + 1 ELSE q
  BY <1>1 DEF div_ceil
<1> HIDE DEF q, s
<1>3. q # 0
  BY <1>1
<1>4. (k - 1) * 1 <= (k - 1) * q
  <2>1. CASE k = 1
    BY <2>1, <1>1
  <2>2. CASE k # 1
    BY <2>2, <1>1, <1>3, k - 1 \in Nat \ {0}, 1 <= q, TimesOrder
  <2> QED
    BY <2>1, <2>2
<1>5. k * q - q = (k - 1) * q /\ (k - 1) * 1 = k - 1 /\ k * q \in Nat
  BY <1>1
<1>6. k * q - q >= k - 1
  BY <1>1, <1>4, <1>5
<1> QED
  BY <1>1, <1>2, <1>3, <1>5, <1>6

\* A block of no more fragments than bytes gets as many as its header says.
LEMMA FragmentsLength ==
  ASSUME NEW len \in Nat, NEW m \in 0 .. len
  PROVE  Len(FragmentSizes(len, m)) = m
<1>1. PICK g : Cuts(g, len, m) /\ FragmentSizes(len, m) = g[m][len]
  BY FragmentsValue
<1> DEFINE Good(k) == \A r \in 0 .. len :
               r >= k => g[k][r] \in Seq(Nat) /\ Len(g[k][r]) = k
           T == {k \in 0 .. m : ~Good(k)}
<1>2. SUFFICES ASSUME T # {} PROVE FALSE
  <2>1. m \in 0 .. m /\ len \in 0 .. len /\ len >= m
    OBVIOUS
  <2>2. ASSUME T = {} PROVE Good(m)
    BY <2>1, <2>2
  <2> QED
    BY <1>1, <2>1, <2>2
<1>3. T \in SUBSET Nat
  OBVIOUS
<1> HIDE DEF T
<1>4. PICK k \in T : \A y \in T : k <= y
  BY <1>2, <1>3, Smallest
<1>5. k \in 0 .. m /\ ~Good(k)
  BY DEF T
<1>6. ASSUME NEW r \in 0 .. len, r >= k
      PROVE  g[k][r] \in Seq(Nat) /\ Len(g[k][r]) = k
  <2>1. g[k][r] = IF k = 0 \/ r = 0 THEN <<>>
                  ELSE <<div_ceil(r, k)>> \o g[k - 1][r - div_ceil(r, k)]
    BY <1>1, <1>5 DEF Cuts, Row
  <2>2. CASE k = 0
    BY <2>1, <2>2
  <2>3. CASE k # 0
    <3> DEFINE d == div_ceil(r, k)
    <3>1. k \in Nat \ {0} /\ r \in Nat /\ r # 0
      BY <1>5, <1>6, <2>3
    <3>2. d \in Nat \ {0} /\ r - d \in Nat /\ r - d >= k - 1
      BY <1>6, <3>1, ShareLeavesRest
    <3> HIDE DEF d
    <3>3. k - 1 \in 0 .. m /\ ~(k <= k - 1) /\ r - d \in 0 .. len
      BY <1>5, <3>1, <3>2
    <3>4. Good(k - 1)
      BY <1>4, <3>3 DEF T
    <3> DEFINE rest == g[k - 1][r - d]
    <3>5. rest \in Seq(Nat) /\ Len(rest) = k - 1
      BY <3>2, <3>3, <3>4
    <3>6. g[k][r] = <<d>> \o rest
      BY <2>1, <3>1 DEF d
    <3> HIDE DEF rest
    <3>7. <<d>> \in Seq(Nat) /\ Len(<<d>>) = 1
      BY <3>2
    <3>8. <<d>> \o rest \in Seq(Nat) /\ Len(<<d>> \o rest) = 1 + (k - 1)
      BY <3>5, <3>7
    <3> QED
      BY <3>1, <3>6, <3>8
  <2> QED
    BY <2>2, <2>3
<1> QED
  BY <1>5, <1>6

-----------------------------------------------------------------------------
(* The blocks of an item.                                                  *)

Frames == [id : Nat, kind : Kinds \ {"packet"}, shape : Shapes]

\* What the shape of any item promises.
LEMMA ShapeType ==
  ASSUME NEW item \in AnyItem
  PROVE  /\ item.kind \in Kinds /\ item.shape.n \in Nat \ {0}
         /\ item.shape.bytes \in Nat \ {0} /\ item.shape.perc \in Nat \ {0}
         /\ item.shape.max \in 1 .. MAX_N_P_FRAGMENTS_PER_BLOCK
         /\ item.shape.max \in Nat \ {0}
<1>1. item.kind \in Kinds /\ item.shape \in Shapes
  BY DEF AnyItem
<1> QED
  BY <1>1, TxAssumption, BlockAssumption

\* A frame that was handed in as fragments: the split of BlockSizeHelper.hpp.
LEMMA FrameBlocks ==
  ASSUME NEW item \in AnyItem
  PROVE  LET bs == BlocksOfFrame(item)
             shape == item.shape
         IN  /\ Len(bs) \in Nat /\ DOMAIN bs = 1 .. Len(bs)
             /\ Cardinality(Places(bs)) = shape.n
             /\ (Len(bs) - 1) * shape.max < shape.n
             /\ \A i, j \in DOMAIN bs : bs[i].nPrimary <= bs[j].nPrimary + 1
             /\ \A i \in DOMAIN bs :
                    /\ bs[i] = Block(item, bs[i].nPrimary)
                    /\ bs[i].nPrimary \in 1 .. shape.max
<1> DEFINE n == item.shape.n
           max == item.shape.max
           k == calc_min_n_of_blocks(n, max)
           sizes == calculate_best_fit_block_sizes(n, max)
           bs == BlocksOfFrame(item)
<1>1. n \in Nat \ {0} /\ max \in Nat \ {0}
  BY ShapeType
<1>2. bs = [i \in DOMAIN sizes |-> Block(item, sizes[i])]
  BY DEF BlocksOfFrame
<1> HIDE DEF n, max, bs
<1>3. /\ k \in Nat \ {0} /\ max * (k - 1) < n /\ n <= max * k /\ k <= n
      /\ sizes = [i \in 1 .. k |-> Share(n, k, i - 1)]
  BY <1>1, SplitShares
<1> HIDE DEF k, sizes
<1>4. bs = [i \in 1 .. k |-> Block(item, Share(n, k, i - 1))]
  <2>1. DOMAIN sizes = 1 .. k
    BY <1>3
  <2>2. \A i \in 1 .. k : sizes[i] = Share(n, k, i - 1)
    BY <1>3
  <2> QED
    BY <1>2, <2>1, <2>2
<1>5. DOMAIN bs = 1 .. k /\ Len(bs) = k
  BY <1>3, <1>4
<1>6. ASSUME NEW i \in 1 .. k
      PROVE  /\ bs[i].nPrimary = Share(n, k, i - 1)
             /\ bs[i] = Block(item, Share(n, k, i - 1))
  BY <1>4 DEF Block
<1>7. Cardinality(Places(bs)) = n
  BY <1>1, <1>3, <1>5, <1>6, PlacesCount
<1>8. ASSUME NEW i \in 1 .. k
      PROVE  /\ Share(n, k, i - 1) \in 1 .. max
             /\ \A j \in 1 .. k : Share(n, k, i - 1) <= Share(n, k, j - 1) + 1
  <2>1. \A j \in 1 .. k : j - 1 \in 0 .. k - 1
    BY <1>3
  <2>2. i - 1 \in 0 .. k - 1
    BY <2>1
  <2>3. /\ Share(n, k, i - 1) \in 1 .. max
        /\ \A d \in 0 .. k - 1 : Share(n, k, i - 1) <= Share(n, k, d) + 1
    BY <1>1, <1>3, <2>2, ShareBounds
  <2> QED
    BY <2>1, <2>3
<1>9. (k - 1) * max < n
  <2>1. (k - 1) * max = max * (k - 1)
    BY <1>1, <1>3
  <2> QED
    BY <1>3, <2>1
<1>10. \A i, j \in DOMAIN bs : bs[i].nPrimary <= bs[j].nPrimary + 1
  BY <1>5, <1>6, <1>8, Zenon
<1>11. \A i \in DOMAIN bs : /\ bs[i] = Block(item, bs[i].nPrimary)
                            /\ bs[i].nPrimary \in 1 .. max
  BY <1>5, <1>6, <1>8, Zenon
<1>12. Len(bs) \in Nat /\ DOMAIN bs = 1 .. Len(bs) /\ (Len(bs) - 1) * max < n
  BY <1>3, <1>5, <1>9
<1> QED
  BY <1>7, <1>10, <1>11, <1>12, Zenon DEF bs, n, max

\* A frame that was handed in as bytes: one block, with a fragment in every
\* place, that is too long for the tables only if the frame is.
LEMMA BytesBlock ==
  ASSUME NEW item \in AnyItem
  PROVE  LET b == BlockOfBytes(item)[1]
         IN  /\ DOMAIN BlockOfBytes(item) = {1}
             /\ b.nPrimary \in Nat \ {0} /\ b.nData = b.nPrimary
             /\ b.nSecondary =
                    calculate_n_secondary_fragments(b.nPrimary, item.shape.perc)
             /\ \/ b.nPrimary <= MAX_N_P_FRAGMENTS_PER_BLOCK
                \/ item.shape.bytes > MAX_N_P_FRAGMENTS_PER_BLOCK * MTU
<1> DEFINE bytes == item.shape.bytes
           m == div_ceil(bytes, MTU)
           fragments == FragmentSizes(bytes, m)
           block == [Block(item, m) EXCEPT !.nData = Len(fragments)]
<1>1. BlockOfBytes(item) = <<block>>
  BY DEF BlockOfBytes
<1>2. /\ bytes \in Nat \ {0} /\ MTU \in Nat \ {0}
      /\ MAX_N_P_FRAGMENTS_PER_BLOCK \in Nat \ {0}
  BY ShapeType, BlockAssumption
<1> HIDE DEF bytes
<1>3. m \in Nat \ {0} /\ m <= bytes
  <2>1. 1 * bytes <= MTU * bytes
    BY <1>2
  <2>2. bytes <= MTU * bytes
    BY <1>2, <2>1
  <2> QED
    BY <1>2, <2>2, CeilBounds, CeilLeast
<1>4. \/ m <= MAX_N_P_FRAGMENTS_PER_BLOCK
      \/ bytes > MAX_N_P_FRAGMENTS_PER_BLOCK * MTU
  <2>1. CASE bytes <= MTU * MAX_N_P_FRAGMENTS_PER_BLOCK
    BY <1>2, <2>1, CeilLeast
  <2>2. CASE ~(bytes <= MTU * MAX_N_P_FRAGMENTS_PER_BLOCK)
    BY <1>2, <2>2
  <2> QED
    BY <2>1, <2>2
<1> HIDE DEF m
<1>5. Len(fragments) = m
  BY <1>2, <1>3, FragmentsLength
<1>6. /\ block.nPrimary = m /\ block.nData = Len(fragments)
      /\ block.nSecondary = calculate_n_secondary_fragments(m, item.shape.perc)
  BY DEF Block
<1> HIDE DEF block, fragments
<1>7. DOMAIN <<block>> = {1} /\ <<block>>[1] = block
  OBVIOUS
<1> QED
  BY <1>1, <1>3, <1>4, <1>5, <1>6, <1>7, Zenon DEF bytes

-----------------------------------------------------------------------------
(* The blocks in work.                                                     *)

\* A stream with FEC holds frames only, and the blocks in work are those of the
\* item taken last.
FramesWithFec == enable_fec => queue \in Seq(Frames)

Handed ==
    thread = "sending" =>
        /\ taken # <<>>
        /\ enable_fec => Last(taken) \in Frames
        /\ blocks = BlocksOf(Last(taken))

BlocksInv == Accounts /\ FramesWithFec /\ Handed

\* A new stream holds nothing.
LEMMA BlocksInit == TxInit => BlocksInv
<1> SUFFICES ASSUME TxInit PROVE BlocksInv
  OBVIOUS
<1>1. thread = "loop" /\ queue = <<>>
  BY DEF TxInit, QueueInit
<1>2. Accounts
  BY AccountsInit
<1> QED
  BY <1>1, <1>2 DEF BlocksInv, FramesWithFec, Handed

\* Frames are items, and an item that is no packet is a frame.
LEMMA FramesAreItems ==
  \A item : item \in Frames <=> item \in AnyItem /\ item.kind # "packet"
BY DEF Frames, AnyItem, Kinds

\* The blocks in work satisfy the encoder.
LEMMA BlocksInvIsEnough == BlocksInv => BlocksAreValid
<1> SUFFICES ASSUME BlocksInv, thread = "sending"
             PROVE  BlocksAreValid
  BY DEF BlocksAreValid, SplitIsEven, EncoderAssertions
<1> DEFINE item == Last(taken)
           n == item.shape.n
           max == item.shape.max
           perc == item.shape.perc
<1>1. /\ item \in AnyItem /\ blocks = BlocksOf(item)
      /\ enable_fec => item \in Frames
  <2>1. /\ taken # <<>> /\ blocks = BlocksOf(item)
        /\ enable_fec => item \in Frames
    BY DEF BlocksInv, Handed
  <2>2. taken \in Seq(AnyItem)
    BY DEF BlocksInv, Accounts, CountersType
  <2>3. Last(taken) \in AnyItem
    BY <2>1, <2>2 DEF Last
  <2> QED
    BY <2>1, <2>3
<1> HIDE DEF item
<1>2. /\ n \in Nat \ {0} /\ perc \in Nat \ {0} /\ max \in Nat \ {0}
      /\ max <= MAX_N_P_FRAGMENTS_PER_BLOCK
      /\ MAX_N_P_FRAGMENTS_PER_BLOCK \in Nat
      /\ MAX_N_S_FRAGMENTS_PER_BLOCK \in Nat \ {0}
  BY <1>1, ShapeType, BlockAssumption
<1>3. ASSUME item.kind \in {"block", "idr"}
      PROVE  blocks = BlocksOfFrame(item)
  BY <1>1, <1>3 DEF BlocksOf
<1>4. SplitIsEven
  <2>1. SUFFICES ASSUME item.kind \in {"block", "idr"}
                 PROVE  /\ Cardinality(Places(blocks)) = n
                        /\ (Len(blocks) - 1) * max < n
                        /\ \A i, j \in DOMAIN blocks :
                               /\ blocks[i].nPrimary <= max
                               /\ blocks[i].nPrimary <= blocks[j].nPrimary + 1
    BY DEF SplitIsEven, item
  <2>2. /\ Cardinality(Places(blocks)) = n
        /\ (Len(blocks) - 1) * max < n
        /\ \A i, j \in DOMAIN blocks :
               blocks[i].nPrimary <= blocks[j].nPrimary + 1
        /\ \A i \in DOMAIN blocks : blocks[i].nPrimary \in 1 .. max
    BY <1>1, <1>3, <2>1, FrameBlocks, Zenon
  <2>3. \A i \in DOMAIN blocks : blocks[i].nPrimary <= max
    BY <2>2, <1>2
  <2> QED
    BY <2>2, <2>3
<1>5. EncoderAssertions
  <2>1. SUFFICES ASSUME enable_fec, NEW i \in DOMAIN blocks
                 PROVE  /\ blocks[i].nPrimary >= 1
                        /\ \/ blocks[i].nPrimary <= MAX_N_P_FRAGMENTS_PER_BLOCK
                           \/ /\ item.kind = "frame"
                              /\ item.shape.bytes
                                     > MAX_N_P_FRAGMENTS_PER_BLOCK * MTU
                        /\ blocks[i].nData = blocks[i].nPrimary
                        /\ blocks[i].nSecondary >= 1
                        /\ \/ blocks[i].nSecondary
                                  <= MAX_N_S_FRAGMENTS_PER_BLOCK
                           \/ blocks[i].nPrimary * perc
                                  > 100 * MAX_N_S_FRAGMENTS_PER_BLOCK
    BY DEF EncoderAssertions, item
  <2> DEFINE p == blocks[i].nPrimary
             bytes == item.shape.bytes
  <2>2. item.kind \in {"block", "idr"} \/ item.kind = "frame"
    BY <1>1, <2>1 DEF Frames, Kinds
  <2>3. /\ p \in Nat \ {0} /\ blocks[i].nData = p
        /\ blocks[i].nSecondary = calculate_n_secondary_fragments(p, perc)
        /\ \/ p <= MAX_N_P_FRAGMENTS_PER_BLOCK
           \/ /\ item.kind = "frame"
              /\ bytes > MAX_N_P_FRAGMENTS_PER_BLOCK * MTU
    <3>1. CASE item.kind \in {"block", "idr"}
      <4>1. p \in 1 .. max /\ blocks[i] = Block(item, p)
        BY <1>1, <1>3, <2>1, <3>1, FrameBlocks, Zenon
      <4>2. /\ blocks[i].nData = p
            /\ blocks[i].nSecondary = calculate_n_secondary_fragments(p, perc)
        <5>1. \A x : /\ Block(item, x).nData = x
                     /\ Block(item, x).nSecondary =
                            calculate_n_secondary_fragments(x, perc)
          BY DEF Block
        <5> QED
          BY <4>1, <5>1, Zenon
      <4> HIDE DEF p, perc, max
      <4> QED
        BY <1>2, <4>1, <4>2
    <3>2. CASE item.kind = "frame"
      <4>1. blocks = BlockOfBytes(item)
        BY <1>1, <3>2 DEF BlocksOf
      <4>2. i = 1
        BY <1>1, <2>1, <4>1, BytesBlock, Zenon
      <4> QED
        BY <1>1, <3>2, <4>1, <4>2, BytesBlock, Zenon
    <3> QED
      BY <2>2, <3>1, <3>2
  <2> HIDE DEF p, perc
  <2>4. /\ calculate_n_secondary_fragments(p, perc) >= 1
        /\ \/ calculate_n_secondary_fragments(p, perc)
                  <= MAX_N_S_FRAGMENTS_PER_BLOCK
           \/ p * perc > 100 * MAX_N_S_FRAGMENTS_PER_BLOCK
    BY <1>2, <2>3, SecondaryBounds
  <2>5. p >= 1
    BY <2>3
  <2> QED
    BY <2>3, <2>4, <2>5, Zenon DEF p, perc
<1> QED
  BY <1>4, <1>5 DEF BlocksAreValid

\* An enqueue, or one that clears, keeps a queue of frames.
LEMMA EnqueueKeepsFrames ==
  ASSUME queue \in Seq(Frames), NEW x \in Frames,
         Enqueue(x) \/ ClearEnqueue(x) \/ UNCHANGED queueVars
  PROVE  queue' \in Seq(Frames)
<1>1. CASE Enqueue(x)
  BY <1>1, AppendProperties DEF Enqueue
<1>2. CASE ClearEnqueue(x)
  <2>1. queue' = <<x>>
    BY <1>2 DEF ClearEnqueue
  <2> QED
    BY <2>1
<1>3. CASE UNCHANGED queueVars
  BY <1>3 DEF queueVars
<1> QED
  BY <1>1, <1>2, <1>3

\* A call of the producer touches nothing of the blocks in work.
LEMMA OfferKeepsHanded ==
  ASSUME Handed, Offer(TRUE) \/ Offer(FALSE), taken' = taken
  PROVE  Handed'
<1>1. UNCHANGED <<thread, blocks, taken, enable_fec>>
  BY DEF Offer, threadVars
<1> QED
  BY <1>1 DEF Handed

\* Every step keeps them.
LEMMA BlocksStep == BlocksInv /\ [TxNext]_vars => BlocksInv'
<1> SUFFICES ASSUME BlocksInv, [TxNext]_vars PROVE BlocksInv'
  OBVIOUS
<1>t. /\ Accounts /\ FramesWithFec /\ Handed
      /\ queue \in Seq(AnyItem) /\ taken \in Seq(AnyItem) /\ n_offered \in Nat
  BY DEF BlocksInv, Accounts, CountersType
<1>a. Accounts'
  BY <1>t, AccountsStep
<1>e. ASSUME Offer(TRUE) \/ Offer(FALSE) PROVE enable_fec' = enable_fec
  BY <1>e DEF Offer
<1>f. \A shape \in Shapes : /\ Item("block", shape) \in Frames
                            /\ Item("idr", shape) \in Frames
                            /\ Item("frame", shape) \in Frames
  BY <1>t DEF Item, Frames, Kinds
<1>1. ASSUME Offer(TRUE), NEW x \in Frames,
             Enqueue(x) \/ ClearEnqueue(x) \/ UNCHANGED queueVars
      PROVE  FramesWithFec' /\ Handed'
  <2>1. enable_fec /\ enable_fec'
    BY <1>1, <1>e DEF Offer
  <2>2. queue' \in Seq(Frames)
    BY <1>t, <1>1, <2>1, EnqueueKeepsFrames DEF FramesWithFec
  <2>3. taken' = taken
    BY <1>1 DEF Enqueue, ClearEnqueue, queueVars
  <2> QED
    BY <1>t, <1>1, <2>2, <2>3, OfferKeepsHanded DEF FramesWithFec
<1>2. ASSUME Offer(FALSE), taken' = taken
      PROVE  FramesWithFec' /\ Handed'
  <2>1. ~enable_fec'
    BY <1>2, <1>e DEF Offer
  <2> QED
    BY <1>t, <1>2, <2>1, OfferKeepsHanded DEF FramesWithFec
<1>3. ASSUME Reject PROVE FramesWithFec' /\ Handed'
  <2>1. Offer(TRUE) /\ queue' = queue /\ taken' = taken
    BY <1>3 DEF Reject
  <2> QED
    BY <1>t, <1>e, <2>1, OfferKeepsHanded DEF FramesWithFec
<1>4. ASSUME NEW shape \in Shapes,
             \/ try_enqueue_block(shape) \/ enqueue_block_dropping(shape)
             \/ try_enqueue_frame(shape)
      PROVE  FramesWithFec' /\ Handed'
  <2>1. Offer(TRUE) /\ \E x \in Frames :
            Enqueue(x) \/ ClearEnqueue(x) \/ UNCHANGED queueVars
    BY <1>4, <1>f DEF try_enqueue_block, enqueue_block_dropping,
                      try_enqueue_frame, TryEnqueue
  <2> QED
    BY <1>1, <2>1
<1>5. ASSUME NEW shape \in Shapes,
             try_enqueue_packet(shape) \/ enqueue_packet_dropping(shape)
      PROVE  FramesWithFec' /\ Handed'
  <2>1. Offer(FALSE) /\ taken' = taken
    BY <1>5 DEF try_enqueue_packet, enqueue_packet_dropping, TryEnqueue,
                Enqueue, ClearEnqueue, queueVars
  <2> QED
    BY <1>2, <2>1
<1>6. ASSUME TakeItem PROVE FramesWithFec' /\ Handed'
  <2>1. /\ queue # <<>> /\ queue' = Tail(queue)
        /\ taken' = Append(taken, Head(queue))
        /\ blocks' = BlocksOf(Head(queue)) /\ enable_fec' = enable_fec
    BY <1>6 DEF TakeItem, Dequeue
  <2>2. Head(queue) \in AnyItem
    BY <1>t, <2>1
  <2>3. taken' # <<>> /\ Last(taken') = Head(queue)
    BY <1>t, <2>1, <2>2 DEF Last
  <2>4. ASSUME enable_fec PROVE Head(queue) \in Frames /\ queue' \in Seq(Frames)
    BY <1>t, <2>1, <2>4 DEF FramesWithFec
  <2> QED
    BY <2>1, <2>3, <2>4 DEF FramesWithFec, Handed
<1>7. ASSUME LoopTest \/ Timeout \/ SendBlock \/ Destroy \/ UNCHANGED vars
      PROVE  FramesWithFec' /\ Handed'
  <2>1. /\ UNCHANGED <<queue, taken, enable_fec, blocks>>
        /\ thread' = "sending" => thread = "sending"
    BY <1>7 DEF LoopTest, Timeout, SendBlock, Destroy, vars, queueVars,
                threadVars
  <2> QED
    BY <1>t, <2>1 DEF FramesWithFec, Handed
<1> QED
  BY <1>a, <1>3, <1>4, <1>5, <1>6, <1>7, Zenon DEF TxNext, BlocksInv

\* What the thread hands to the encoder is the whole frame, split evenly into
\* as few blocks as its limit allows, each of a size the tables hold, with
\* correction fragments and with as many data fragments as its header says.
THEOREM EncoderGetsValidBlocks == TxSpec => []BlocksAreValid
<1> QED
  BY BlocksInit, BlocksStep, BlocksInvIsEnough, PTL DEF TxSpec
=============================================================================
