-------------------------- MODULE WBSessionProofs --------------------------
(***************************************************************************)
(* Proofs about WBSession, for any number of cards, sessions, packets and  *)
(* repetitions and any size of the kernel's buffers and of the decoder's   *)
(* map.                                                                    *)
(***************************************************************************)
EXTENDS WBSession, FiniteSetTheorems, WellFoundedInduction,
        SequenceTheorems, TLAPS

\* What a card hears.
Packets ==
    [kind : {"session"}, key : Nat] \cup [kind : {"data"}, key : Nat, seq : Nat]

TypeInv ==
    /\ options \in Configurations
    /\ tx_key \in Nat /\ rx_key \in Nat
    /\ currPacketIndex \in Nat /\ left \in Nat
    /\ left > 0 => currPacketIndex > 0
    /\ backlog \in [Cards -> Seq(Packets)]
    /\ polled \subseteq Cards
    /\ decoder \in [known : SUBSET Nat, first_ever_packet : BOOLEAN]
    /\ IsFiniteSet(decoder.known)
    /\ ~options.enable_threading => m_packet_queue = <<>>
    /\ m_packet_queue \in Seq(Packets)
    /\ \A i \in 1 .. Len(m_packet_queue) : m_packet_queue[i].kind = "data"

\* Without threading the decoder remembers only what was handed up in the
\* session the receiver is in.
KnownForwarded ==
    ~options.enable_threading =>
        /\ accepted \subseteq forwarded
        /\ \A s \in decoder.known : <<rx_key, s>> \in forwarded

\* What the account of the packets is made of.
rxHistory == <<rx_key, m_packet_queue, decoder, accepted, forwarded, refused, late>>

\* With threading or without, what the decoder remembers was handed up in the
\* session the receiver is in or came late from another one, and what it did
\* not hand up it still has to see, was refused, or met another number.
AllFound ==
    /\ Queued \subseteq accepted /\ late \subseteq accepted
    /\ forwarded \subseteq accepted
    /\ accepted \subseteq forwarded \cup Queued \cup refused \cup Met
    /\ late \subseteq forwarded \cup Met
    /\ \A s \in decoder.known :
           \/ <<rx_key, s>> \in forwarded
           \/ \E k \in Nat : k # rx_key /\ <<k, s>> \in late

\* A single card holds the packets in the order in which they were sent, ...
Ordered(q) ==
    \A i, j \in 1 .. Len(q) : i < j =>
        /\ q[i].key <= q[j].key
        /\ q[i].kind = "data" /\ q[j].kind = "data" /\ q[i].key = q[j].key =>
               q[i].seq <= q[j].seq

\* ... none of a session before the receiver's or after the sender's, none
\* that is still to be sent, ...
Recent(q) ==
    \A i \in 1 .. Len(q) :
        /\ rx_key <= q[i].key /\ q[i].key <= tx_key
        /\ q[i].kind = "data" /\ q[i].key = tx_key => q[i].seq < currPacketIndex

\* ... and nothing older than what was handed up.
ForwardedBefore(q) ==
    \A k, s \in Nat : <<k, s>> \in forwarded =>
        /\ k <= rx_key
        /\ k = tx_key => s < currPacketIndex
        /\ k = rx_key => \A i \in 1 .. Len(q) :
               q[i].kind = "data" /\ q[i].key = k => s <= q[i].seq

\* Of what was handed up in the session the decoder remembers the newest.
NewestKnown ==
    (\E s \in Nat : <<rx_key, s>> \in forwarded) =>
        /\ ~decoder.first_ever_packet
        /\ \E m \in decoder.known : \A s \in Nat :
               <<rx_key, s>> \in forwarded => s <= m

OneCard ==
    options.n_cards = 1 /\ ~options.enable_threading =>
        /\ rx_key <= tx_key
        /\ Ordered(backlog[1]) /\ Recent(backlog[1]) /\ ForwardedBefore(backlog[1])
        /\ NewestKnown
        /\ again = {}

----------------------------------------------------------------------------
(* The decoder of a stream without FEC.                                    *)

\* The house keeping keeps numbers that came, and the newest of them.
LEMMA DecoderRemembers ==
    ASSUME NEW d \in [known : SUBSET Nat, first_ever_packet : BOOLEAN],
           IsFiniteSet(d.known), NEW seq \in Nat
    PROVE  LET e == Processed(d, seq)
           IN  /\ e \in [known : SUBSET Nat, first_ever_packet : BOOLEAN]
               /\ IsFiniteSet(e.known) /\ ~e.first_ever_packet
               /\ e.known \subseteq d.known \cup {seq}
               /\ (\A s \in d.known : s <= seq) => seq \in e.known
<1> DEFINE k == IF d.first_ever_packet THEN {seq} ELSE d.known \cup {seq}
           full == Cardinality(k) >= FEC_DISABLED_MAX_SIZE_OF_MAP - 1
           e == Processed(d, seq)
<1>1. /\ k \in SUBSET Nat /\ IsFiniteSet(k)
      /\ k \subseteq d.known \cup {seq} /\ seq \in k
  BY FS_Singleton, FS_AddElement
<1>2. /\ e = [known |-> IF full THEN k \ Oldest(k) ELSE k,
              first_ever_packet |-> FALSE]
  BY DEF Processed
<1>3. Oldest(k) = {s \in k : \A t \in k : s <= t}
  BY Zenon DEF Oldest
<1> HIDE DEF k
<1>4. IsFiniteSet(k \ Oldest(k))
  BY <1>1, FS_Difference
<1>5. /\ e.known = IF full THEN k \ Oldest(k) ELSE k
      /\ e.first_ever_packet = FALSE
  BY <1>2
<1>6. ASSUME \A s \in d.known : s <= seq
      PROVE  seq \in e.known
  <2>1. CASE full
    <3>1. ASSUME seq \in Oldest(k)
          PROVE  FALSE
      <4>1. \A t \in k : t = seq
        <5>1. ASSUME NEW t \in k
              PROVE  t = seq
          <6>1. t <= seq /\ seq <= t /\ t \in Nat
            BY <1>1, <1>3, <1>6, <3>1
          <6>2. QED
            BY <6>1
        <5>2. QED
          BY <5>1
      <4>2. k = {seq}
        BY <1>1, <4>1
      <4>3. Cardinality(k) = 1
        BY <4>2, FS_Singleton
      <4>4. QED
        BY <2>1, <4>3, MapAssumption
    <3>2. QED
      BY <1>1, <1>5, <2>1, <3>1
  <2>2. CASE ~full
    BY <1>1, <1>5, <2>2
  <2>3. QED
    BY <2>1, <2>2
<1>7. e.known \subseteq k /\ IsFiniteSet(e.known)
  BY <1>1, <1>4, <1>5
<1>8. e \in [known : SUBSET Nat, first_ever_packet : BOOLEAN]
  BY <1>1, <1>2, <1>5, <1>7
<1>9. QED
  BY <1>1, <1>5, <1>6, <1>7, <1>8

----------------------------------------------------------------------------
(* The card that is read, and what the cards hear.                         *)

\* A set of numbers has a smallest one.
LEMMA Smallest ==
    ASSUME NEW T \in SUBSET Nat, T # {}
    PROVE  \E x \in T : \A y \in T : x <= y
<1> DEFINE R == OpToRel(<, Nat)
<1>1. IsWellFoundedOn(R, Nat)
  BY NatLessThanWellFounded
<1>2. \A x, y \in Nat : x < y => <<x, y>> \in R
  BY DEF OpToRel
<1> HIDE DEF R
<1>3. PICK x \in T : \A y \in T : ~(<<y, x>> \in R)
  BY <1>1, WFMin
<1>4. ASSUME NEW y \in T
      PROVE  x <= y
  <2>1. x \in Nat /\ y \in Nat
    OBVIOUS
  <2>2. ~(y < x)
    BY <1>2, <1>3, <2>1
  <2>3. QED
    BY <2>1, <2>2
<1>5. QED
  BY <1>4

\* The cards are numbered, and one of those to read is read.
LEMMA CardTypes ==
    ASSUME TypeInv
    PROVE  /\ Cards \subseteq Nat
           /\ polled # {} => Card \in polled /\ Card \in Cards
<1>1. options.n_cards \in Nat
  <2>1. options \in Configurations
    BY DEF TypeInv
  <2>2. options.n_cards \in DOMAIN MaxPackets /\ MaxPackets \in Seq(Nat)
    BY <2>1, SessionAssumption, Zenon
  <2>3. QED
    BY <2>2
<1>2. Cards \subseteq Nat
  BY <1>1 DEF Cards
<1>3. ASSUME polled # {}
      PROVE  Card \in polled
  <2>1. polled \in SUBSET Nat
    BY <1>2 DEF TypeInv
  <2>2. \E c \in polled : \A d \in polled : c <= d
    BY <1>3, <2>1, Smallest
  <2>3. QED
    BY <2>2 DEF Card
<1>4. QED
  BY <1>2, <1>3 DEF TypeInv

\* What a card hears of packets is made of them.
LEMMA HeardPackets ==
    ASSUME NEW S, NEW ps \in Seq(S), NEW got \in Heard(ps)
    PROVE  /\ got \in Seq(S)
           /\ \A i \in 1 .. Len(got) : \E j \in 1 .. Len(ps) : got[i] = ps[j]
<1>1. PICK a \in 1 .. Len(ps) + 1, b \in 0 .. Len(ps) : got = SubSeq(ps, a, b)
  BY DEF Heard
<1>2. CASE a <= b
  <2>1. /\ got \in Seq(S) /\ Len(got) = b - a + 1
        /\ \A i \in 1 .. b - a + 1 : got[i] = ps[a + i - 1]
    BY <1>1, <1>2, SubSeqProperties
  <2>2. \A i \in 1 .. b - a + 1 : a + i - 1 \in 1 .. Len(ps)
    BY <1>1
  <2>3. QED
    BY <2>1, <2>2
<1>3. CASE ~(a <= b)
  <2>1. got = <<>>
    BY <1>1, <1>3, SubSeqEmpty
  <2>2. QED
    BY <2>1
<1>4. QED
  BY <1>2, <1>3

\* The packet that is read is one a card heard; the others stay.
LEMMA PacketTypes ==
    ASSUME TypeInv, NEW kind, ReadPacket(kind)
    PROVE  /\ Packet \in Packets /\ Packet.key \in Nat
           /\ kind = "data" => Packet.kind = "data" /\ Packet.seq \in Nat
           /\ Card \in Cards
           /\ backlog[Card] \in Seq(Packets) /\ backlog[Card] # <<>>
           /\ backlog' = [backlog EXCEPT ![Card] = Tail(backlog[Card])]
           /\ backlog' \in [Cards -> Seq(Packets)]
           /\ UNCHANGED <<options, txVars, polled, sent, lossless>>
<1>1. /\ Card \in Cards /\ backlog[Card] # <<>> /\ Packet.kind = kind
      /\ backlog' = [backlog EXCEPT ![Card] = Tail(backlog[Card])]
      /\ UNCHANGED <<options, txVars, polled, sent, lossless>>
  BY CardTypes DEF ReadPacket
<1>2. backlog \in [Cards -> Seq(Packets)]
  BY DEF TypeInv
<1>3. backlog[Card] \in Seq(Packets)
  BY <1>1, <1>2
<1>4. Packet \in Packets /\ Tail(backlog[Card]) \in Seq(Packets)
  BY <1>1, <1>3, HeadTailProperties DEF Packet
<1>5. Packet.key \in Nat /\ (kind = "data" => Packet.seq \in Nat)
  BY <1>1, <1>4 DEF Packets
<1>6. backlog' \in [Cards -> Seq(Packets)]
  BY <1>1, <1>2, <1>4
<1>7. QED
  BY <1>1, <1>3, <1>4, <1>5, <1>6

\* What is put on air comes to the cards as it is.
LEMMA OnAirTypes ==
    ASSUME TypeInv, NEW ps \in Seq(Packets), OnAir(ps)
    PROVE  backlog' \in [Cards -> Seq(Packets)]
<1>1. PICK got \in [Cards -> Heard(ps)] :
          backlog' = [c \in Cards |-> backlog[c] \o got[c]]
  BY DEF OnAir
<1>2. ASSUME NEW c \in Cards
      PROVE  backlog[c] \o got[c] \in Seq(Packets)
  <2>1. got[c] \in Seq(Packets)
    BY HeardPackets
  <2>2. backlog[c] \in Seq(Packets)
    BY DEF TypeInv
  <2>3. QED
    BY <2>1, <2>2
<1>3. QED
  BY <1>1, <1>2

\* The packets with which a key is announced, or a packet sent.
LEMMA SentTypes ==
    ASSUME TypeInv
    PROVE  /\ <<SessionPacket>> \in Seq(Packets) /\ <<>> \in Seq(Packets)
           /\ left > 0 =>
                  /\ <<DataPacket(currPacketIndex - 1)>> \in Seq(Packets)
                  /\ <<SessionPacket>> \o <<DataPacket(currPacketIndex - 1)>>
                         \in Seq(Packets)
<1>1. SessionPacket \in Packets
  BY DEF SessionPacket, Packets, TypeInv
<1>2. ASSUME left > 0
      PROVE  DataPacket(currPacketIndex - 1) \in Packets
  <2>1. currPacketIndex - 1 \in Nat
    BY <1>2 DEF TypeInv
  <2>2. QED
    BY <2>1 DEF DataPacket, Packets, TypeInv
<1>3. QED
  BY <1>1, <1>2

\* An announcement and what goes with it arrive as they are.
LEMMA AnnounceTypes ==
    ASSUME TypeInv,
           \/ AnnounceFirst(<<>>)
           \/ left > 0 /\ AnnounceFirst(<<DataPacket(currPacketIndex - 1)>>)
    PROVE  backlog' \in [Cards -> Seq(Packets)]
<1>1. PICK qs \in Seq(Packets) : OnAir(qs)
  <2>1. CASE AnnounceFirst(<<>>)
    <3>1. <<SessionPacket>> \o <<>> = <<SessionPacket>>
      OBVIOUS
    <3>2. OnAir(<<SessionPacket>>) \/ OnAir(<<>>)
      BY <2>1, <3>1 DEF AnnounceFirst
    <3>3. QED
      BY <3>2, SentTypes
  <2>2. CASE left > 0 /\ AnnounceFirst(<<DataPacket(currPacketIndex - 1)>>)
    BY <2>2, SentTypes DEF AnnounceFirst
  <2>3. QED
    BY <2>1, <2>2
<1>2. QED
  BY <1>1, OnAirTypes

\* The decoder stays one.
LEMMA DecodeTypes ==
    ASSUME TypeInv, NEW p, p.seq \in Nat, Decode(p)
    PROVE  /\ decoder' \in [known : SUBSET Nat, first_ever_packet : BOOLEAN]
           /\ IsFiniteSet(decoder'.known)
<1>1. decoder' = Processed(decoder, p.seq)
  BY DEF Decode
<1>2. QED
  BY <1>1, DecoderRemembers DEF TypeInv

\* Every step keeps the types.
LEMMA TypeStep ==
    ASSUME TypeInv, [Next]_vars
    PROVE  TypeInv'
<1> USE DEF txVars, rxVars, Cards
<1>1. CASE UNCHANGED vars
  BY <1>1 DEF vars, TypeInv
<1>2. CASE NextPacket
  <2>1. MaxInjections \in Nat
    BY SessionAssumption
  <2>2. /\ currPacketIndex' = currPacketIndex + 1 /\ left' \in 1 .. MaxInjections
        /\ UNCHANGED <<options, tx_key, rxVars, backlog>>
    BY <1>2 DEF NextPacket
  <2>3. currPacketIndex' \in Nat /\ currPacketIndex' > 0 /\ left' \in Nat
    BY <2>1, <2>2 DEF TypeInv
  <2>4. QED
    BY <2>2, <2>3 DEF TypeInv
<1>3. CASE tx_inject_packet
  <2>1. backlog' \in [Cards -> Seq(Packets)]
    BY <1>3, AnnounceTypes DEF tx_inject_packet, TypeInv
  <2>2. QED
    BY <1>3, <2>1 DEF tx_inject_packet, TypeInv
<1>4. CASE InjectOther
  <2>1. backlog' \in [Cards -> Seq(Packets)]
    <3>1. AnnounceFirst(<<>>)
      BY <1>4, Zenon DEF InjectOther
    <3>2. QED
      BY <3>1, AnnounceTypes
  <2>2. QED
    BY <1>4, <2>1 DEF InjectOther, TypeInv
<1>5. CASE AnnounceDue \/ set_passive_mode \/ Restart
  <2>1. tx_key' \in Nat /\ currPacketIndex' \in Nat /\ left' \in Nat
    BY <1>5 DEF AnnounceDue, set_passive_mode, Restart, TypeInv
  <2>2. left' > 0 => currPacketIndex' > 0
    BY <1>5 DEF AnnounceDue, set_passive_mode, Restart, TypeInv
  <2>3. UNCHANGED <<options, rxVars, backlog>>
    BY <1>5 DEF AnnounceDue, set_passive_mode, Restart
  <2>4. QED
    BY <2>1, <2>2, <2>3 DEF TypeInv
<1>6. CASE Poll \/ CardIsEmpty
  BY <1>6 DEF Poll, CardIsEmpty, TypeInv
<1>7. CASE process_session_stream_packet
  <2>1. ReadPacket("session")
    BY <1>7 DEF process_session_stream_packet
  <2>2. /\ decoder' \in [known : SUBSET Nat, first_ever_packet : BOOLEAN]
        /\ IsFiniteSet(decoder'.known)
    BY <1>7, FS_EmptySet
       DEF process_session_stream_packet, reset_packets_map, TypeInv
  <2>3. QED
    BY <1>7, <2>1, <2>2, PacketTypes
       DEF process_session_stream_packet, TypeInv
<1>8. CASE NotAuthentic
  <2>1. ReadPacket("data")
    BY <1>8 DEF NotAuthentic
  <2>2. QED
    BY <1>8, <2>1, PacketTypes DEF NotAuthentic, TypeInv
<1>9. CASE ProcessNow
  <2>1. ReadPacket("data")
    BY <1>9 DEF ProcessNow, Authentic
  <2>2. /\ decoder' \in [known : SUBSET Nat, first_ever_packet : BOOLEAN]
        /\ IsFiniteSet(decoder'.known)
    BY <1>9, <2>1, PacketTypes, DecodeTypes DEF ProcessNow
  <2>3. QED
    BY <1>9, <2>1, <2>2, PacketTypes DEF ProcessNow, Authentic, TypeInv
<1>10. CASE EnqueuePacket
  <2>1. ReadPacket("data")
    BY <1>10 DEF EnqueuePacket, Authentic
  <2>2. /\ m_packet_queue' \in Seq(Packets)
        /\ \A i \in 1 .. Len(m_packet_queue') : m_packet_queue'[i].kind = "data"
    <3>1. Packet \in Packets /\ Packet.kind = "data"
      BY <2>1, PacketTypes
    <3>2. CASE m_packet_queue' = m_packet_queue
      BY <3>2 DEF TypeInv
    <3>3. CASE m_packet_queue' = Append(m_packet_queue, Packet)
      BY <3>1, <3>3, AppendProperties DEF TypeInv
    <3>4. QED
      BY <1>10, <3>2, <3>3 DEF EnqueuePacket
  <2>3. QED
    BY <1>10, <2>1, <2>2, PacketTypes DEF EnqueuePacket, Authentic, TypeInv
<1>11. CASE ProcessQueued
  <2>1. /\ m_packet_queue \in Seq(Packets) /\ m_packet_queue # <<>>
        /\ Head(m_packet_queue) = m_packet_queue[1]
        /\ 1 \in 1 .. Len(m_packet_queue)
    BY <1>11 DEF ProcessQueued, TypeInv
  <2>2. Head(m_packet_queue).seq \in Nat
    BY <2>1 DEF TypeInv, Packets
  <2>3. /\ decoder' \in [known : SUBSET Nat, first_ever_packet : BOOLEAN]
        /\ IsFiniteSet(decoder'.known)
    BY <1>11, <2>2, DecodeTypes DEF ProcessQueued
  <2>4. /\ m_packet_queue' \in Seq(Packets)
        /\ \A i \in 1 .. Len(m_packet_queue') : m_packet_queue'[i].kind = "data"
    BY <1>11, <2>1 DEF ProcessQueued, TypeInv
  <2>5. ~options.enable_threading => FALSE
    BY <2>1 DEF TypeInv
  <2>6. QED
    BY <1>11, <2>3, <2>4, <2>5 DEF ProcessQueued, TypeInv
<1>12. QED
  BY <1>1, <1>2, <1>3, <1>4, <1>5, <1>6, <1>7, <1>8, <1>9, <1>10, <1>11
     DEF Next, ReceiveLoop
----------------------------------------------------------------------------
(* Without threading.                                                      *)

\* What authentic data does: handed up now or before, and remembered.
LEMMA Decoded ==
    ASSUME TypeInv, KnownForwarded, ProcessNow
    PROVE  /\ ReadPacket("data") /\ Packet.key = rx_key
           /\ UNCHANGED <<options, tx_key, currPacketIndex, rx_key>>
           /\ ~options.enable_threading
           /\ accepted' = accepted \cup {<<rx_key, Packet.seq>>}
           /\ decoder' = Processed(decoder, Packet.seq)
           /\ forwarded' = forwarded \cup {<<rx_key, Packet.seq>>}
           /\ Forwards(decoder, Packet.seq) \/ again' = again
           /\ again' = again \/ again' = again \cup ({<<rx_key, Packet.seq>>} \cap forwarded)
<1>1. /\ ReadPacket("data") /\ Packet.key = rx_key
      /\ ~options.enable_threading /\ rx_key' = rx_key
      /\ accepted' = accepted \cup {<<rx_key, Packet.seq>>}
      /\ Decode(Packet)
  BY DEF ProcessNow, Authentic
<1>2. UNCHANGED <<options, tx_key, currPacketIndex>>
  BY <1>1, PacketTypes DEF txVars
<1>3. CASE Forwards(decoder, Packet.seq)
  BY <1>1, <1>2, <1>3 DEF Decode
<1>4. CASE ~Forwards(decoder, Packet.seq)
  <2>1. Packet.seq \in decoder.known
    BY <1>4 DEF Forwards
  <2>2. <<rx_key, Packet.seq>> \in forwarded
    BY <1>1, <2>1 DEF KnownForwarded
  <2>3. forwarded' = forwarded \cup {} /\ again' = again \cup ({} \cap forwarded)
    BY <1>1, <1>4 DEF Decode
  <2>4. QED
    BY <1>1, <1>2, <2>2, <2>3 DEF Decode
<1>5. QED
  BY <1>3, <1>4

\* Every step keeps what the decoder remembers among what was handed up.
LEMMA KnownForwardedStep ==
    ASSUME TypeInv, KnownForwarded, [Next]_vars
    PROVE  KnownForwarded'
<1>1. CASE \/ UNCHANGED vars \/ NextPacket \/ tx_inject_packet \/ InjectOther
           \/ AnnounceDue \/ set_passive_mode \/ Restart
           \/ Poll \/ CardIsEmpty
  <2>1. UNCHANGED <<options, rx_key, decoder, accepted, forwarded>>
    BY <1>1 DEF vars, rxVars, NextPacket, tx_inject_packet, InjectOther, AnnounceDue,
                set_passive_mode, Restart, Poll, CardIsEmpty
  <2>2. QED
    BY <2>1 DEF KnownForwarded
<1>2. CASE process_session_stream_packet
  <2>1. /\ UNCHANGED <<options, accepted, forwarded>> /\ rx_key' = Packet.key
        /\ decoder' = IF Packet.key # rx_key THEN reset_packets_map(decoder)
                      ELSE decoder
    BY <1>2, PacketTypes DEF process_session_stream_packet
  <2>2. reset_packets_map(decoder).known = {}
    BY DEF reset_packets_map, TypeInv
  <2>3. QED
    BY <2>1, <2>2 DEF KnownForwarded
<1>3. CASE NotAuthentic
  BY <1>3, PacketTypes DEF NotAuthentic, KnownForwarded
<1>4. CASE ProcessNow
  <2>1. Packet.seq \in Nat
    BY <1>4, Decoded, PacketTypes
  <2>2. decoder'.known \subseteq decoder.known \cup {Packet.seq}
    BY <1>4, <2>1, Decoded, DecoderRemembers DEF TypeInv
  <2>3. QED
    BY <1>4, <2>2, Decoded DEF KnownForwarded
<1>5. CASE EnqueuePacket
  <2>1. ReadPacket("data") /\ options.enable_threading
    BY <1>5 DEF EnqueuePacket, Authentic
  <2>2. options' = options
    BY <2>1, PacketTypes
  <2>3. QED
    BY <2>1, <2>2 DEF KnownForwarded
<1>6. CASE ProcessQueued
  BY <1>6 DEF ProcessQueued, TypeInv, KnownForwarded
<1>7. QED
  BY <1>1, <1>2, <1>3, <1>4, <1>5, <1>6 DEF Next, ReceiveLoop

----------------------------------------------------------------------------
(* With threading.                                                         *)

\* Two packets of different sessions and the same number meet.
LEMMA TheyMeet ==
    ASSUME NEW k, NEW j, NEW s, k # j, <<k, s>> \in accepted',
           <<j, s>> \in accepted', <<k, s>> \in late' \/ <<j, s>> \in late'
    PROVE  <<k, s>> \in Met'
<1> DEFINE x == <<k, s>>
           y == <<j, s>>
<1>1. x[1] = k /\ x[2] = s /\ y[1] = j /\ y[2] = s
  OBVIOUS
<1>2. x \in accepted' /\ y \in accepted' /\ (x \in late' \/ y \in late')
  OBVIOUS
<1> HIDE DEF x, y
<1>3. y[1] # x[1] /\ y[2] = x[2] /\ {x, y} \cap late' # {}
  BY <1>1, <1>2
<1>4. x \in Met'
  BY <1>2, <1>3 DEF Met
<1>5. QED
  BY <1>4 DEF x

\* Packets that met once have met for ever.
LEMMA MetGrows ==
    ASSUME accepted \subseteq accepted', late \subseteq late'
    PROVE  Met \subseteq Met'
<1> SUFFICES ASSUME NEW x \in Met
             PROVE  x \in Met'
  OBVIOUS
<1>1. PICK y \in accepted : /\ y[1] # x[1] /\ y[2] = x[2]
                           /\ {x, y} \cap late # {}
  BY DEF Met
<1>2. x \in accepted' /\ y \in accepted' /\ {x, y} \cap late' # {}
  BY <1>1 DEF Met
<1>3. QED
  BY <1>1, <1>2 DEF Met

\* The thread of the stream takes the packet that waited longest.
LEMMA QueueTail ==
    ASSUME NEW q \in Seq(Packets), q # <<>>
    PROVE  /\ 1 \in DOMAIN q /\ Head(q) = q[1] /\ Head(q) \in Packets
           /\ \A i \in DOMAIN Tail(q) : i + 1 \in DOMAIN q /\ Tail(q)[i] = q[i + 1]
           /\ \A i \in DOMAIN q : i = 1 \/ (i - 1 \in DOMAIN Tail(q)
                                           /\ q[i] = Tail(q)[i - 1])
<1>1. /\ Len(q) \in Nat \ {0} /\ Len(Tail(q)) = Len(q) - 1
      /\ DOMAIN q = 1 .. Len(q) /\ DOMAIN Tail(q) = 1 .. Len(q) - 1
      /\ \A i \in 1 .. Len(q) - 1 : Tail(q)[i] = q[i + 1]
      /\ Head(q) = q[1]
  OBVIOUS
<1>2. 1 \in DOMAIN q /\ q[1] \in Packets
  BY <1>1
<1>3. ASSUME NEW i \in DOMAIN q, i # 1
      PROVE  i - 1 \in DOMAIN Tail(q) /\ q[i] = Tail(q)[i - 1]
  <2>1. i - 1 \in 1 .. Len(q) - 1 /\ (i - 1) + 1 = i
    BY <1>1, <1>3
  <2>2. QED
    BY <1>1, <2>1
<1>4. QED
  BY <1>1, <1>2, <1>3

\* What the thread of the stream does to a packet.
LEMMA QueuedStep ==
    ASSUME TypeInv, AllFound, ProcessQueued
    PROVE  AllFound'
<1> DEFINE p == Head(m_packet_queue)
           k == p.key
           s == p.seq
           id == <<k, s>>
<1>1. /\ m_packet_queue # <<>> /\ m_packet_queue' = Tail(m_packet_queue)
      /\ decoder' = Processed(decoder, s)
      /\ forwarded' = forwarded \cup (IF Forwards(decoder, s) THEN {id} ELSE {})
      /\ late' = IF k # rx_key THEN late \cup {id} ELSE late
      /\ UNCHANGED <<rx_key, accepted, refused>>
  BY DEF ProcessQueued, Decode
<1>2. m_packet_queue \in Seq(Packets)
  BY DEF TypeInv
<1>3. /\ 1 \in DOMAIN m_packet_queue /\ p = m_packet_queue[1] /\ p \in Packets
      /\ \A i \in DOMAIN m_packet_queue' :
             i + 1 \in DOMAIN m_packet_queue
             /\ m_packet_queue'[i] = m_packet_queue[i + 1]
      /\ \A i \in DOMAIN m_packet_queue :
             i = 1 \/ (i - 1 \in DOMAIN m_packet_queue'
                       /\ m_packet_queue[i] = m_packet_queue'[i - 1])
  BY <1>1, <1>2, QueueTail
<1>4. p.kind = "data"
  BY <1>2, <1>3 DEF TypeInv
<1>5. k \in Nat /\ s \in Nat
  BY <1>3, <1>4 DEF Packets
<1>6. decoder'.known \subseteq decoder.known \cup {s}
  BY <1>1, <1>5, DecoderRemembers DEF TypeInv
<1>7. id \in Queued
  BY <1>3 DEF Queued
<1> HIDE DEF p
<1>8. Queued' \subseteq Queued
  BY <1>3 DEF Queued
<1>9. Queued \subseteq Queued' \cup {id}
  BY <1>3 DEF Queued
<1> HIDE DEF k, s
<1>10. id \in accepted /\ late' \subseteq accepted' /\ late \subseteq late'
       /\ forwarded' \subseteq accepted' /\ forwarded \subseteq forwarded'
  BY <1>1, <1>7 DEF AllFound
<1>11. Met \subseteq Met'
  BY <1>1, <1>10, MetGrows
<1>12. s \in decoder.known \/ id \in forwarded'
  BY <1>1 DEF Forwards
<1>13. ASSUME NEW j, j # k, <<j, s>> \in accepted, <<j, s>> \in late' \/ id \in late'
       PROVE  id \in Met'
  <2>1. <<k, s>> \in accepted' /\ <<j, s>> \in accepted'
    BY <1>1, <1>10, <1>13
  <2>2. QED
    BY <1>13, <2>1, TheyMeet
<1>14. id \in forwarded' \cup Met'
  <2>1. CASE id \in forwarded'
    BY <2>1
  <2>2. CASE s \in decoder.known
    <3>1. CASE <<rx_key, s>> \in forwarded
      <4>1. CASE k = rx_key
        BY <1>10, <3>1, <4>1
      <4>2. CASE k # rx_key
        <5>1. id \in late' /\ <<rx_key, s>> \in accepted
          BY <1>1, <3>1, <4>2 DEF AllFound
        <5>2. QED
          BY <1>13, <4>2, <5>1
      <4>3. QED
        BY <4>1, <4>2
    <3>2. CASE \E j \in Nat : j # rx_key /\ <<j, s>> \in late
      <4>1. PICK j \in Nat : j # rx_key /\ <<j, s>> \in late
        BY <3>2
      <4>2. CASE j = k
        BY <1>10, <1>11, <4>1, <4>2 DEF AllFound
      <4>3. CASE j # k
        <5>1. <<j, s>> \in accepted /\ <<j, s>> \in late'
          BY <1>10, <4>1 DEF AllFound
        <5>2. QED
          BY <1>13, <4>3, <5>1
      <4>4. QED
        BY <4>2, <4>3
    <3>3. QED
      BY <2>2, <3>1, <3>2 DEF AllFound
  <2>3. QED
    BY <1>12, <2>1, <2>2
<1>15. accepted' \subseteq forwarded' \cup Queued' \cup refused' \cup Met'
  BY <1>1, <1>9, <1>10, <1>11, <1>14 DEF AllFound
<1>16. late' \subseteq forwarded' \cup Met'
  BY <1>1, <1>10, <1>11, <1>14 DEF AllFound
<1>17. ASSUME NEW t \in decoder'.known
       PROVE  \/ <<rx_key', t>> \in forwarded'
              \/ \E j \in Nat : j # rx_key' /\ <<j, t>> \in late'
  <2>1. CASE t \in decoder.known
    BY <1>1, <1>10, <2>1 DEF AllFound
  <2>2. CASE t = s /\ t \notin decoder.known
    <3>1. id \in forwarded'
      BY <1>12, <2>2
    <3>2. k # rx_key => id \in late'
      BY <1>1
    <3>3. QED
      BY <1>1, <1>5, <2>2, <3>1, <3>2
  <2>3. QED
    BY <1>6, <1>17, <2>1, <2>2
<1>18. Queued' \subseteq accepted'
  BY <1>1, <1>8 DEF AllFound
<1>19. QED
  BY <1>10, <1>15, <1>16, <1>17, <1>18 DEF AllFound

\* Every step keeps account of what was authenticated.
LEMMA AllFoundStep ==
    ASSUME TypeInv, KnownForwarded, AllFound, [Next]_vars
    PROVE  AllFound'
<1>1. CASE \/ UNCHANGED vars \/ NextPacket \/ tx_inject_packet \/ InjectOther
           \/ AnnounceDue \/ set_passive_mode \/ Restart
           \/ Poll \/ CardIsEmpty
  <2>1. UNCHANGED rxHistory
    BY <1>1 DEF vars, rxVars, NextPacket, tx_inject_packet, InjectOther, AnnounceDue,
                set_passive_mode, Restart, Poll, CardIsEmpty, rxHistory
  <2>2. QED
    BY <2>1 DEF AllFound, Queued, Met, rxHistory
<1>2. CASE process_session_stream_packet
  <2>1. /\ UNCHANGED <<m_packet_queue, accepted, forwarded, refused, late>>
        /\ rx_key' = Packet.key
        /\ decoder' = IF Packet.key # rx_key THEN reset_packets_map(decoder)
                      ELSE decoder
    BY <1>2 DEF process_session_stream_packet
  <2>2. reset_packets_map(decoder).known = {}
    BY DEF reset_packets_map, TypeInv
  <2>3. UNCHANGED <<Queued, Met>>
    BY <2>1 DEF Queued, Met
  <2>4. \A s \in decoder'.known : rx_key' = rx_key /\ s \in decoder.known
    BY <2>1, <2>2
  <2>5. QED
    BY <2>1, <2>3, <2>4 DEF AllFound
<1>3. CASE NotAuthentic
  <2>1. UNCHANGED rxHistory
    BY <1>3 DEF NotAuthentic, rxHistory
  <2>2. QED
    BY <2>1 DEF AllFound, Queued, Met, rxHistory
<1>4. CASE ProcessNow
  <2> DEFINE id == <<rx_key, Packet.seq>>
  <2>1. /\ Packet.key = rx_key /\ rx_key' = rx_key
        /\ accepted' = accepted \cup {id} /\ forwarded' = forwarded \cup {id}
        /\ decoder' = Processed(decoder, Packet.seq)
    BY <1>4, Decoded
  <2>2. Packet.seq \in Nat
    BY <1>4, Decoded, PacketTypes
  <2>3. decoder'.known \subseteq decoder.known \cup {Packet.seq}
    BY <2>1, <2>2, DecoderRemembers DEF TypeInv
  <2>4. late' = late /\ UNCHANGED <<m_packet_queue, refused>>
    BY <1>4, <2>1 DEF ProcessNow, Decode
  <2>5. Queued' = Queued
    BY <2>4 DEF Queued
  <2>6. Met \subseteq Met'
    BY <2>1, <2>4, MetGrows
  <2>7. \A s \in decoder'.known : s \in decoder.known \/ <<rx_key', s>> \in forwarded'
    BY <2>1, <2>3
  <2> HIDE DEF id
  <2>8. QED
    BY <2>1, <2>4, <2>5, <2>6, <2>7 DEF AllFound
<1>5. CASE EnqueuePacket
  <2> DEFINE id == <<Packet.key, Packet.seq>>
  <2>1. /\ accepted' = accepted \cup {id}
        /\ UNCHANGED <<rx_key, decoder, forwarded, late>>
    BY <1>5 DEF EnqueuePacket, Authentic
  <2>2. Met \subseteq Met'
    BY <2>1, MetGrows
  <2>3. \/ m_packet_queue' = Append(m_packet_queue, Packet) /\ refused' = refused
        \/ m_packet_queue' = m_packet_queue /\ refused' = refused \cup {id}
    BY <1>5 DEF EnqueuePacket
  <2>4. m_packet_queue \in Seq(Packets) /\ Packet \in Packets
    BY <1>5, PacketTypes DEF TypeInv, EnqueuePacket, Authentic
  <2>5. Queued \subseteq Queued' /\ Queued' \subseteq Queued \cup {id}
        /\ id \in Queued' \cup refused' /\ refused \subseteq refused'
    <3>1. CASE m_packet_queue' = Append(m_packet_queue, Packet)
               /\ refused' = refused
      <4> DEFINE q == m_packet_queue
                 r == m_packet_queue'
      <4>1. /\ DOMAIN r = DOMAIN q \cup {Len(q) + 1} /\ Len(q) + 1 \in DOMAIN r
            /\ \A i \in DOMAIN q : r[i] = q[i]
            /\ r[Len(q) + 1] = Packet
        BY <2>4, <3>1
      <4>2. QED
        BY <3>1, <4>1 DEF Queued
    <3>2. CASE m_packet_queue' = m_packet_queue /\ refused' = refused \cup {id}
      BY <3>2 DEF Queued
    <3>3. QED
      BY <2>3, <3>1, <3>2
  <2> HIDE DEF id
  <2>6. QED
    BY <2>1, <2>2, <2>5 DEF AllFound
<1>6. CASE ProcessQueued
  BY <1>6, QueuedStep
<1>7. QED
  BY <1>1, <1>2, <1>3, <1>4, <1>5, <1>6 DEF Next, ReceiveLoop

----------------------------------------------------------------------------
(* With one card.                                                          *)

\* What is left when the first packet is taken.
LEMMA OrderedTail ==
    ASSUME NEW q \in Seq(Packets), q # <<>>, Ordered(q)
    PROVE  /\ Ordered(Tail(q))
           /\ \A i \in 1 .. Len(Tail(q)) :
                  /\ i + 1 \in 1 .. Len(q) /\ Tail(q)[i] = q[i + 1]
                  /\ Head(q).key <= Tail(q)[i].key
                  /\ Head(q).kind = "data" /\ Tail(q)[i].kind = "data"
                        /\ Head(q).key = Tail(q)[i].key =>
                         Head(q).seq <= Tail(q)[i].seq
<1>1. /\ Head(q) = q[1] /\ Len(Tail(q)) = Len(q) - 1 /\ Len(q) \in Nat
      /\ 1 \in 1 .. Len(q)
      /\ \A i \in 1 .. Len(Tail(q)) : i + 1 \in 1 .. Len(q) /\ Tail(q)[i] = q[i + 1]
  OBVIOUS
<1>2. ASSUME NEW i \in 1 .. Len(Tail(q)), NEW j \in 1 .. Len(Tail(q)), i < j
      PROVE  i + 1 \in 1 .. Len(q) /\ j + 1 \in 1 .. Len(q) /\ i + 1 < j + 1
  BY <1>1, <1>2
<1>3. Ordered(Tail(q))
  BY <1>1, <1>2 DEF Ordered
<1>4. ASSUME NEW i \in 1 .. Len(Tail(q))
      PROVE  1 < i + 1
  OBVIOUS
<1>5. QED
  BY <1>1, <1>3, <1>4 DEF Ordered

\* Packets of the newest number may follow.
LEMMA OrderedConcat ==
    ASSUME NEW q \in Seq(Packets), NEW g \in Seq(Packets), Ordered(q),
           NEW key \in Nat, NEW seq \in Int,
           \A i \in 1 .. Len(q) :
               /\ q[i].key <= key
               /\ q[i].kind = "data" /\ q[i].key = key => q[i].seq <= seq,
           \A i \in 1 .. Len(g) :
               g[i].key = key /\ (g[i].kind = "data" => g[i].seq = seq)
    PROVE  Ordered(q \o g)
<1>1. /\ Len(q \o g) = Len(q) + Len(g) /\ Len(q) \in Nat /\ Len(g) \in Nat
      /\ \A i \in 1 .. Len(q) : (q \o g)[i] = q[i]
      /\ \A i \in 1 .. Len(q) + Len(g) : i > Len(q) =>
             (q \o g)[i] = g[i - Len(q)] /\ i - Len(q) \in 1 .. Len(g)
  OBVIOUS
<1> DEFINE r == q \o g
<1> HIDE DEF r
<1>2. ASSUME NEW i \in 1 .. Len(r), NEW j \in 1 .. Len(r), i < j
      PROVE  /\ r[i].key <= r[j].key
             /\ r[i].kind = "data" /\ r[j].kind = "data" /\ r[i].key = r[j].key =>
                    r[i].seq <= r[j].seq
  <2>1. CASE j <= Len(q)
    <3>1. i \in 1 .. Len(q) /\ j \in 1 .. Len(q) /\ r[i] = q[i] /\ r[j] = q[j]
      BY <1>1, <1>2, <2>1 DEF r
    <3>2. QED
      BY <1>2, <3>1 DEF Ordered
  <2>2. CASE i <= Len(q) /\ j > Len(q)
    <3>1. i \in 1 .. Len(q) /\ r[i] = q[i]
      BY <1>1, <1>2, <2>2 DEF r
    <3>2. r[j] = g[j - Len(q)] /\ j - Len(q) \in 1 .. Len(g)
      BY <1>1, <1>2, <2>2 DEF r
    <3>3. QED
      BY <3>1, <3>2
  <2>3. CASE i > Len(q)
    <3>1. r[i] = g[i - Len(q)] /\ i - Len(q) \in 1 .. Len(g)
      BY <1>1, <1>2, <2>3 DEF r
    <3>2. r[j] = g[j - Len(q)] /\ j - Len(q) \in 1 .. Len(g)
      BY <1>1, <1>2, <2>3 DEF r
    <3>3. QED
      BY <3>1, <3>2
  <2>4. QED
    BY <1>1, <1>2, <2>1, <2>2, <2>3 DEF r
<1>3. QED
  BY <1>2 DEF Ordered, r

\* With one card, that is the one that is read.
LEMMA TheCard ==
    ASSUME TypeInv, options.n_cards = 1
    PROVE  /\ Cards = {1} /\ backlog[1] \in Seq(Packets)
           /\ \A i \in 1 .. Len(backlog[1]) :
                  /\ backlog[1][i].key \in Nat
                  /\ backlog[1][i].kind = "data" => backlog[1][i].seq \in Nat
<1>1. Cards = {1}
  BY DEF Cards
<1>2. backlog[1] \in Seq(Packets)
  BY <1>1 DEF TypeInv
<1>3. \A i \in 1 .. Len(backlog[1]) : backlog[1][i] \in Packets
  BY <1>2
<1>4. QED
  BY <1>1, <1>2, <1>3 DEF Packets
\* What it hears follows in order: the sender's key, or the newest packet.
LEMMA HeardInOrder ==
    ASSUME TypeInv, options.n_cards = 1,
           \/ AnnounceFirst(<<>>)
           \/ left > 0 /\ AnnounceFirst(<<DataPacket(currPacketIndex - 1)>>)
    PROVE  \E g \in Seq(Packets) :
               /\ backlog'[1] = backlog[1] \o g
               /\ \A i \in 1 .. Len(g) :
                      /\ g[i].key = tx_key
                      /\ g[i].kind = "data" => g[i].seq = currPacketIndex - 1
<1> DEFINE D == DataPacket(currPacketIndex - 1)
<1>1. /\ SessionPacket.key = tx_key /\ SessionPacket.kind = "session"
      /\ D.key = tx_key /\ D.kind = "data" /\ D.seq = currPacketIndex - 1
  BY DEF SessionPacket, DataPacket
<1> HIDE DEF D
<1>2. PICK qs \in Seq(Packets) :
          /\ OnAir(qs)
          /\ \A j \in 1 .. Len(qs) : qs[j] \in {SessionPacket, D}
  <2>1. CASE AnnounceFirst(<<>>)
    <3>1. <<SessionPacket>> \o <<>> = <<SessionPacket>>
      OBVIOUS
    <3>2. OnAir(<<SessionPacket>>) \/ OnAir(<<>>)
      BY <2>1, <3>1 DEF AnnounceFirst
    <3>3. <<SessionPacket>> \in Seq(Packets) /\ <<>> \in Seq(Packets)
      BY SentTypes
    <3>4. \A j \in 1 .. Len(<<SessionPacket>>) :
              <<SessionPacket>>[j] \in {SessionPacket, D}
      OBVIOUS
    <3>5. \A j \in 1 .. Len(<<>>) : <<>>[j] \in {SessionPacket, D}
      OBVIOUS
    <3>6. CASE OnAir(<<SessionPacket>>)
      BY <3>3, <3>4, <3>6
    <3>7. CASE OnAir(<<>>)
      BY <3>3, <3>5, <3>7, Zenon
    <3>8. QED
      BY <3>2, <3>6, <3>7
  <2>2. CASE left > 0 /\ AnnounceFirst(<<D>>)
    <3>1. <<D>> \in Seq(Packets) /\ <<SessionPacket>> \o <<D>> \in Seq(Packets)
      BY <2>2, SentTypes DEF D
    <3>2. \A j \in 1 .. Len(<<SessionPacket>> \o <<D>>) :
              (<<SessionPacket>> \o <<D>>)[j] \in {SessionPacket, D}
      OBVIOUS
    <3>3. \A j \in 1 .. Len(<<D>>) : <<D>>[j] \in {SessionPacket, D}
      OBVIOUS
    <3>4. OnAir(<<SessionPacket>> \o <<D>>) \/ OnAir(<<D>>)
      BY <2>2 DEF AnnounceFirst
    <3>5. QED
      BY <3>1, <3>2, <3>3, <3>4
  <2>3. QED
    BY <2>1, <2>2 DEF D
<1>3. PICK got \in [Cards -> Heard(qs)] :
          backlog' = [c \in Cards |-> backlog[c] \o got[c]]
  BY <1>2 DEF OnAir
<1>4. got[1] \in Heard(qs) /\ backlog'[1] = backlog[1] \o got[1]
  BY <1>3, TheCard
<1>5. /\ got[1] \in Seq(Packets)
      /\ \A i \in 1 .. Len(got[1]) : \E j \in 1 .. Len(qs) : got[1][i] = qs[j]
  BY <1>4, HeardPackets
<1>6. ASSUME NEW i \in 1 .. Len(got[1])
      PROVE  /\ got[1][i].key = tx_key
             /\ got[1][i].kind = "data" => got[1][i].seq = currPacketIndex - 1
  <2>1. got[1][i] \in {SessionPacket, D}
    BY <1>2, <1>5
  <2>2. QED
    BY <1>1, <2>1
<1>7. QED
  BY <1>4, <1>5, <1>6

\* A packet sent keeps the order of what the card holds.
LEMMA OneCardHears ==
    ASSUME TypeInv, OneCard, options.n_cards = 1, ~options.enable_threading,
           \/ AnnounceFirst(<<>>)
           \/ left > 0 /\ AnnounceFirst(<<DataPacket(currPacketIndex - 1)>>),
           UNCHANGED <<options, tx_key, currPacketIndex, rx_key, decoder, forwarded,
                       again>>
    PROVE  OneCard'
<1> DEFINE q == backlog[1]
<1>1. PICK g \in Seq(Packets) :
          /\ backlog'[1] = q \o g
          /\ \A i \in 1 .. Len(g) :
                 /\ g[i].key = tx_key
                 /\ g[i].kind = "data" => g[i].seq = currPacketIndex - 1
  BY HeardInOrder
<1>2. /\ rx_key <= tx_key /\ Ordered(q) /\ Recent(q) /\ ForwardedBefore(q)
      /\ NewestKnown /\ again = {}
  BY DEF OneCard
<1>3. q \in Seq(Packets) /\ rx_key \in Nat /\ tx_key \in Nat /\ currPacketIndex \in Nat
  BY TheCard DEF TypeInv
<1>4. \A i \in 1 .. Len(q) : /\ q[i].key \in Nat
                             /\ q[i].kind = "data" => q[i].seq \in Nat
  BY TheCard
<1> HIDE DEF q
<1>5. Ordered(q \o g)
  <2>1. \A i \in 1 .. Len(q) :
            /\ q[i].key <= tx_key
            /\ q[i].kind = "data" /\ q[i].key = tx_key =>
                   q[i].seq <= currPacketIndex - 1
    BY <1>2, <1>3, <1>4 DEF Recent
  <2>2. currPacketIndex - 1 \in Int
    BY <1>3
  <2>3. QED
    BY <1>1, <1>2, <1>3, <2>1, <2>2, OrderedConcat, Zenon
<1>6. \A i \in 1 .. Len(q \o g) :
          \/ i \in 1 .. Len(q) /\ (q \o g)[i] = q[i]
          \/ i - Len(q) \in 1 .. Len(g) /\ (q \o g)[i] = g[i - Len(q)]
  BY <1>3
<1> DEFINE r == q \o g
<1> HIDE DEF r
<1>7. ASSUME NEW i \in 1 .. Len(r)
      PROVE  \/ \E j \in 1 .. Len(q) : r[i] = q[j]
             \/ /\ r[i].key = tx_key
                /\ r[i].kind = "data" => r[i].seq = currPacketIndex - 1
  BY <1>1, <1>6 DEF r
<1>8. Recent(r)
  BY <1>2, <1>3, <1>7 DEF Recent
<1>9. ForwardedBefore(r)
  <2>1. ASSUME NEW k \in Nat, NEW s \in Nat, <<k, s>> \in forwarded
        PROVE  /\ k <= rx_key
               /\ k = tx_key => s < currPacketIndex
               /\ k = rx_key => \A i \in 1 .. Len(q) :
                      q[i].kind = "data" /\ q[i].key = k => s <= q[i].seq
    BY <1>2, <2>1 DEF ForwardedBefore
  <2>2. ASSUME NEW k \in Nat, NEW s \in Nat, <<k, s>> \in forwarded, k = rx_key,
               NEW i \in 1 .. Len(r), r[i].kind = "data", r[i].key = k
        PROVE  s <= r[i].seq
    <3>1. CASE \E j \in 1 .. Len(q) : r[i] = q[j]
      BY <2>1, <2>2, <3>1
    <3>2. CASE r[i].key = tx_key /\ r[i].seq = currPacketIndex - 1
      <4>1. s < currPacketIndex
        BY <2>1, <2>2, <3>2
      <4>2. QED
        BY <1>3, <3>2, <4>1
    <3>3. QED
      BY <1>7, <2>2, <3>1, <3>2
  <2>3. QED
    BY <2>1, <2>2 DEF ForwardedBefore
<1>10. Recent(backlog[1])' /\ ForwardedBefore(backlog[1])' /\ Ordered(backlog[1])'
  BY <1>1, <1>5, <1>8, <1>9 DEF r, Recent, ForwardedBefore, Ordered
<1>11. QED
  BY <1>2, <1>10 DEF OneCard, NewestKnown

\* Reading it keeps the order too, and each packet is handed up once.
LEMMA OneCardReads ==
    ASSUME TypeInv, OneCard, options.n_cards = 1, ~options.enable_threading,
           NEW kind \in {"session", "data"}, ReadPacket(kind)
    PROVE  /\ Packet.kind = kind
           /\ Packet.key \in Nat /\ rx_key <= Packet.key /\ Packet.key <= tx_key
           /\ Ordered(backlog'[1])
           /\ Len(backlog'[1]) \in Nat
           /\ \A i \in 1 .. Len(backlog'[1]) :
                  LET p == backlog'[1][i]
                  IN  /\ p.key \in Nat /\ Packet.key <= p.key /\ p.key <= tx_key
                      /\ p.kind = "data" =>
                             /\ p.seq \in Nat
                             /\ p.key = tx_key => p.seq < currPacketIndex
                             /\ \A s \in Nat : <<p.key, s>> \in forwarded => s <= p.seq
                             /\ kind = "data" /\ p.key = Packet.key =>
                                    Packet.seq <= p.seq
           /\ kind = "data" =>
                  /\ Packet.seq \in Nat
                  /\ Packet.key = tx_key => Packet.seq < currPacketIndex
                  /\ \A s \in Nat : <<Packet.key, s>> \in forwarded => s <= Packet.seq
<1> DEFINE q == backlog[1]
           t == Tail(q)
<1>1. /\ Card = 1 /\ q # <<>> /\ q \in Seq(Packets) /\ Packet = Head(q)
      /\ backlog'[1] = t
  <2>1. Card = 1
    BY PacketTypes, TheCard
  <2>2. QED
    BY <2>1, PacketTypes, TheCard DEF Packet, TypeInv
<1>2. /\ rx_key <= tx_key /\ Ordered(q) /\ Recent(q) /\ ForwardedBefore(q)
  BY DEF OneCard
<1>3. /\ Packet = q[1] /\ 1 \in 1 .. Len(q) /\ Packet.kind = kind
      /\ Len(t) \in Nat
  BY <1>1 DEF ReadPacket
<1>4. \A i \in 1 .. Len(q) : /\ q[i].key \in Nat
                             /\ q[i].kind = "data" => q[i].seq \in Nat
  BY TheCard
<1>5. \A i \in 1 .. Len(q) :
          /\ q[i].key <= tx_key /\ rx_key <= q[i].key
          /\ q[i].kind = "data" /\ q[i].key = tx_key => q[i].seq < currPacketIndex
  BY <1>2 DEF Recent
<1>6. ASSUME NEW i \in 1 .. Len(q), q[i].kind = "data", NEW s \in Nat,
             <<q[i].key, s>> \in forwarded
      PROVE  s <= q[i].seq
  <2>1. q[i].key <= rx_key /\ rx_key \in Nat
    BY <1>2, <1>4, <1>6 DEF ForwardedBefore, TypeInv
  <2>2. q[i].key = rx_key
    BY <1>4, <1>5, <2>1
  <2>3. QED
    BY <1>2, <1>4, <1>6, <2>2 DEF ForwardedBefore
<1>7. /\ Ordered(t)
      /\ \A i \in 1 .. Len(t) :
             /\ i + 1 \in 1 .. Len(q) /\ t[i] = q[i + 1]
             /\ Packet.key <= t[i].key
             /\ Packet.kind = "data" /\ t[i].kind = "data" /\ Packet.key = t[i].key =>
                    Packet.seq <= t[i].seq
  BY <1>1, <1>2, OrderedTail
<1> HIDE DEF q, t
<1>8. ASSUME NEW i \in 1 .. Len(t)
      PROVE  /\ t[i].key \in Nat /\ Packet.key <= t[i].key /\ t[i].key <= tx_key
             /\ t[i].kind = "data" =>
                    /\ t[i].seq \in Nat
                    /\ t[i].key = tx_key => t[i].seq < currPacketIndex
                    /\ \A s \in Nat : <<t[i].key, s>> \in forwarded => s <= t[i].seq
                    /\ kind = "data" /\ t[i].key = Packet.key => Packet.seq <= t[i].seq
  <2>1. i + 1 \in 1 .. Len(q) /\ t[i] = q[i + 1]
    BY <1>7
  <2>2. QED
    BY <1>3, <1>4, <1>5, <1>6, <1>7, <2>1
<1>9. QED
  BY <1>1, <1>3, <1>4, <1>5, <1>6, <1>7, <1>8
\* Every step keeps the order with one card.
LEMMA OneCardStep ==
    ASSUME TypeInv, KnownForwarded, OneCard, [Next]_vars
    PROVE  OneCard'
<1> SUFFICES ASSUME (options.n_cards = 1 /\ ~options.enable_threading)'
             PROVE  OneCard'
  BY DEF OneCard
<1>0. options' = options
  BY PacketTypes
     DEF Next, ReceiveLoop, vars, NextPacket, tx_inject_packet, InjectOther,
         AnnounceDue, set_passive_mode, Restart, Poll, CardIsEmpty, NotAuthentic,
         process_session_stream_packet, ProcessNow, EnqueuePacket, Authentic,
         ProcessQueued
<1>1. options.n_cards = 1 /\ ~options.enable_threading
  BY <1>0
<1>2. /\ rx_key <= tx_key /\ Ordered(backlog[1]) /\ Recent(backlog[1])
      /\ ForwardedBefore(backlog[1]) /\ NewestKnown /\ again = {}
  BY <1>1 DEF OneCard
<1>3. rx_key \in Nat /\ tx_key \in Nat /\ currPacketIndex \in Nat
  BY DEF TypeInv
<1>4. CASE \/ UNCHANGED vars \/ AnnounceDue \/ set_passive_mode \/ Poll \/ CardIsEmpty
  <2>1. UNCHANGED <<options, tx_key, currPacketIndex, backlog, rx_key, decoder,
                    forwarded, again>>
    BY <1>4 DEF vars, txVars, rxVars, AnnounceDue, set_passive_mode, Poll, CardIsEmpty
  <2>2. QED
    BY <2>1 DEF OneCard, Ordered, Recent, ForwardedBefore, NewestKnown
<1>5. CASE NextPacket
  <2>1. /\ UNCHANGED <<options, tx_key, backlog, rx_key, decoder, forwarded, again>>
        /\ currPacketIndex' = currPacketIndex + 1
    BY <1>5 DEF NextPacket, rxVars
  <2>2. Recent(backlog[1])'
    BY <1>1, <1>2, <1>3, <2>1, TheCard DEF Recent
  <2>3. ForwardedBefore(backlog[1])'
    BY <1>2, <1>3, <2>1 DEF ForwardedBefore
  <2>4. QED
    BY <1>2, <2>1, <2>2, <2>3 DEF OneCard, Ordered, NewestKnown
<1>6. CASE Restart
  <2>1. /\ UNCHANGED <<options, backlog, rx_key, decoder, forwarded, again>>
        /\ tx_key' = tx_key + 1
    BY <1>6 DEF Restart, rxVars
  <2>2. Recent(backlog[1])'
    BY <1>1, <1>2, <1>3, <2>1, TheCard DEF Recent
  <2>3. ForwardedBefore(backlog[1])'
    BY <1>2, <1>3, <2>1 DEF ForwardedBefore
  <2>4. QED
    BY <1>2, <1>3, <2>1, <2>2, <2>3 DEF OneCard, Ordered, NewestKnown
<1>7. CASE tx_inject_packet
  <2>1. UNCHANGED <<options, tx_key, currPacketIndex, rx_key, decoder, forwarded,
                    again>>
    BY <1>7 DEF tx_inject_packet, rxVars
  <2>2. CASE backlog' = backlog
    BY <2>1, <2>2 DEF OneCard, Ordered, Recent, ForwardedBefore, NewestKnown
  <2>3. CASE left > 0 /\ AnnounceFirst(<<DataPacket(currPacketIndex - 1)>>)
    BY <1>1, <2>1, <2>3, OneCardHears
  <2>4. QED
    BY <1>7, <2>2, <2>3 DEF tx_inject_packet
<1>8. CASE InjectOther
  <2>1. UNCHANGED <<options, tx_key, currPacketIndex, rx_key, decoder, forwarded,
                    again>>
    BY <1>8 DEF InjectOther, rxVars
  <2>2. AnnounceFirst(<<>>)
    BY <1>8, Zenon DEF InjectOther
  <2>3. QED
    BY <1>1, <2>1, <2>2, OneCardHears
<1> DEFINE q == backlog'[1]
<1>9. CASE process_session_stream_packet
  <2>1. ReadPacket("session")
    BY <1>9 DEF process_session_stream_packet
  <2>2. /\ UNCHANGED <<options, tx_key, currPacketIndex, forwarded, again>>
        /\ rx_key' = Packet.key
        /\ Packet.key = rx_key => decoder' = decoder
    BY <1>9, <2>1, PacketTypes DEF process_session_stream_packet, txVars
  <2>3. /\ rx_key <= Packet.key /\ Packet.key <= tx_key /\ Packet.key \in Nat
        /\ Ordered(q)
        /\ \A i \in 1 .. Len(q) :
               /\ q[i].key \in Nat /\ Packet.key <= q[i].key /\ q[i].key <= tx_key
               /\ q[i].kind = "data" =>
                      /\ q[i].key = tx_key => q[i].seq < currPacketIndex
                      /\ \A s \in Nat : <<q[i].key, s>> \in forwarded => s <= q[i].seq
    BY <1>1, <2>1, OneCardReads
  <2>4. \A k, s \in Nat : <<k, s>> \in forwarded =>
            k <= rx_key /\ (k = tx_key => s < currPacketIndex)
    BY <1>2 DEF ForwardedBefore
  <2> HIDE DEF q
  <2>5. /\ \A i \in 1 .. Len(q) :
               /\ rx_key' <= q[i].key /\ q[i].key <= tx_key'
               /\ q[i].kind = "data" /\ q[i].key = tx_key' =>
                      q[i].seq < currPacketIndex'
    BY <2>2, <2>3
  <2>6. \A k, s \in Nat : <<k, s>> \in forwarded' =>
            /\ k <= rx_key'
            /\ k = tx_key' => s < currPacketIndex'
            /\ k = rx_key' => \A i \in 1 .. Len(q) :
                   q[i].kind = "data" /\ q[i].key = k => s <= q[i].seq
    BY <1>3, <2>2, <2>3, <2>4
  <2>7. NewestKnown'
    <3>1. CASE Packet.key = rx_key
      BY <1>2, <2>2, <3>1 DEF NewestKnown
    <3>2. CASE Packet.key # rx_key
      <4>1. \A s \in Nat : <<rx_key', s>> \notin forwarded'
        BY <1>3, <2>2, <2>3, <2>4, <3>2
      <4>2. QED
        BY <4>1 DEF NewestKnown
    <3>3. QED
      BY <3>1, <3>2
  <2>8. Recent(backlog[1])' /\ ForwardedBefore(backlog[1])' /\ Ordered(backlog[1])'
    BY <2>3, <2>5, <2>6 DEF Recent, ForwardedBefore, Ordered, q
  <2>9. QED
    BY <1>2, <2>2, <2>3, <2>7, <2>8 DEF OneCard
<1>10. CASE NotAuthentic
  <2>1. ReadPacket("data") /\ UNCHANGED <<rx_key, decoder, forwarded, again>>
    BY <1>10 DEF NotAuthentic
  <2>2. UNCHANGED <<options, tx_key, currPacketIndex>>
    BY <2>1, PacketTypes DEF txVars
  <2>3. /\ rx_key <= Packet.key /\ Packet.key \in Nat /\ Ordered(q)
        /\ \A i \in 1 .. Len(q) :
               /\ q[i].key \in Nat /\ Packet.key <= q[i].key /\ q[i].key <= tx_key
               /\ q[i].kind = "data" =>
                      /\ q[i].key = tx_key => q[i].seq < currPacketIndex
                      /\ \A s \in Nat : <<q[i].key, s>> \in forwarded => s <= q[i].seq
    BY <1>1, <2>1, OneCardReads
  <2>4. \A k, s \in Nat : <<k, s>> \in forwarded =>
            k <= rx_key /\ (k = tx_key => s < currPacketIndex)
    BY <1>2 DEF ForwardedBefore
  <2> HIDE DEF q
  <2>5. \A i \in 1 .. Len(q) : rx_key <= q[i].key
    BY <1>3, <2>3
  <2>6. Recent(backlog[1])'
    BY <2>1, <2>2, <2>3, <2>5 DEF Recent, q
  <2>7. ForwardedBefore(backlog[1])'
    BY <2>1, <2>2, <2>3, <2>4 DEF ForwardedBefore, q
  <2>8. Ordered(backlog[1])'
    BY <2>3 DEF Ordered, q
  <2>9. QED
    BY <1>2, <2>1, <2>2, <2>6, <2>7, <2>8 DEF OneCard, NewestKnown
<1>11. CASE ProcessNow
  <2> DEFINE n == Packet.seq
  <2>1. /\ ReadPacket("data") /\ Packet.key = rx_key
        /\ UNCHANGED <<options, tx_key, currPacketIndex, rx_key>>
        /\ decoder' = Processed(decoder, n)
        /\ forwarded' = forwarded \cup {<<rx_key, n>>}
        /\ Forwards(decoder, n) \/ again' = again
        /\ again' = again \/ again' = again \cup ({<<rx_key, n>>} \cap forwarded)
    BY <1>11, Decoded
  <2>2. /\ Ordered(q) /\ n \in Nat /\ (rx_key = tx_key => n < currPacketIndex)
        /\ \A s \in Nat : <<rx_key, s>> \in forwarded => s <= n
        /\ \A i \in 1 .. Len(q) :
               /\ q[i].key \in Nat /\ rx_key <= q[i].key /\ q[i].key <= tx_key
               /\ q[i].kind = "data" =>
                      /\ q[i].key = tx_key => q[i].seq < currPacketIndex
                      /\ \A s \in Nat : <<q[i].key, s>> \in forwarded => s <= q[i].seq
                      /\ q[i].key = rx_key => n <= q[i].seq
    BY <1>1, <2>1, OneCardReads
  <2>3. \A k, s \in Nat : <<k, s>> \in forwarded =>
            k <= rx_key /\ (k = tx_key => s < currPacketIndex)
    BY <1>2 DEF ForwardedBefore
  <2>4. \A s \in decoder.known : s \in Nat /\ s <= n
    BY <1>1, <2>2 DEF KnownForwarded, TypeInv
  <2>5. ~decoder'.first_ever_packet /\ n \in decoder'.known
    BY <2>1, <2>2, <2>4, DecoderRemembers DEF TypeInv
  <2> HIDE DEF q, n
  <2>6. \A k, s \in Nat : <<k, s>> \in forwarded' =>
            <<k, s>> \in forwarded \/ (k = rx_key /\ s = n)
    BY <2>1
  <2>7. again' = {}
    <3>1. ASSUME <<rx_key, n>> \in forwarded, Forwards(decoder, n)
          PROVE  FALSE
      <4>1. ~decoder.first_ever_packet
        BY <1>2, <2>2, <3>1 DEF NewestKnown
      <4>2. PICK m \in decoder.known : n <= m
        BY <1>2, <2>2, <3>1 DEF NewestKnown
      <4>3. m = n
        BY <2>2, <2>4, <4>2
      <4>4. QED
        BY <3>1, <4>1, <4>2, <4>3 DEF Forwards
    <3>2. CASE Forwards(decoder, n)
      <4>1. {<<rx_key, n>>} \cap forwarded = {}
        BY <3>1, <3>2
      <4>2. QED
        BY <1>2, <2>1, <4>1
    <3>3. QED
      BY <1>2, <2>1, <3>2
  <2>8. NewestKnown'
    <3>1. \A s \in Nat : <<rx_key', s>> \in forwarded' => s <= n
      BY <1>3, <2>1, <2>2, <2>6
    <3>2. QED
      BY <2>5, <3>1 DEF NewestKnown
  <2>9. \A k, s \in Nat : <<k, s>> \in forwarded' =>
            /\ k <= rx_key'
            /\ k = tx_key' => s < currPacketIndex'
            /\ k = rx_key' => \A i \in 1 .. Len(q) :
                   q[i].kind = "data" /\ q[i].key = k => s <= q[i].seq
    BY <1>3, <2>1, <2>2, <2>3, <2>6
  <2>10. Recent(backlog[1])' /\ ForwardedBefore(backlog[1])' /\ Ordered(backlog[1])'
    BY <2>1, <2>2, <2>9 DEF Recent, ForwardedBefore, Ordered, q
  <2>11. QED
    BY <1>2, <2>1, <2>7, <2>8, <2>10 DEF OneCard
<1>12. CASE EnqueuePacket
  BY <1>1, <1>12 DEF EnqueuePacket
<1>13. CASE ProcessQueued
  BY <1>1, <1>13 DEF ProcessQueued, TypeInv
<1>14. QED
  BY <1>4, <1>5, <1>6, <1>7, <1>8, <1>9, <1>10, <1>11, <1>12, <1>13
     DEF Next, ReceiveLoop

----------------------------------------------------------------------------
(* On a link that loses nothing.                                           *)

\* A packet of data follows one of the same session.
Announced(h) ==
    \A i \in 1 .. Len(h) : h[i].kind = "data" =>
        i - 1 \in 1 .. Len(h) /\ h[i - 1].key = h[i].key

\* The key a receiver has after the first i packets.
KeyAfter(h, i) == IF i = 0 THEN 0 ELSE h[i].key

\* Packets h were on air.  Each card's backlog is what remains of them after
\* the first p[c]; the card read furthest had m, and the data among them was
\* handed up.  The receiver has the key after those m, or the one that was in
\* force where the card that is read stands.
History(h, p, m) ==
    /\ Announced(h)
    /\ ~announce_due => h # <<>> /\ h[Len(h)].key = tx_key
    /\ m <= Len(h)
    /\ \A c \in Cards :
           /\ p[c] <= m /\ Len(backlog[c]) = Len(h) - p[c]
           /\ \A j \in 1 .. Len(backlog[c]) : backlog[c][j] = h[p[c] + j]
    /\ \A i \in 1 .. m : h[i].kind = "data" => <<h[i].key, h[i].seq>> \in forwarded
    /\ \A x \in sent : \E i \in 1 .. Len(h) :
           h[i].kind = "data" /\ x = <<h[i].key, h[i].seq>>
    /\ \/ rx_key = KeyAfter(h, m)
       \/ polled # {} /\ rx_key = KeyAfter(h, p[Card])

Lossless ==
    lossless /\ ~options.enable_threading =>
        \E h \in Seq(Packets), p \in [Cards -> Nat], m \in Nat : History(h, p, m)

\* What is put on air when a key is due or not.
LEMMA AnnouncesAlone ==
    ASSUME TypeInv, announce_due, AnnounceFirst(<<>>)
    PROVE  \E qs \in Seq(Packets) :
               /\ OnAir(qs) /\ qs # <<>> /\ qs[1].kind = "session"
               /\ \A i \in 1 .. Len(qs) : qs[i].key = tx_key
<1>1. <<SessionPacket>> \o <<>> = <<SessionPacket>>
  OBVIOUS
<1>2. OnAir(<<SessionPacket>>)
  BY <1>1 DEF AnnounceFirst
<1>3. <<SessionPacket>> \in Seq(Packets) /\ <<SessionPacket>> # <<>>
  BY SentTypes
<1>4. /\ <<SessionPacket>>[1].kind = "session"
      /\ \A i \in 1 .. Len(<<SessionPacket>>) : <<SessionPacket>>[i].key = tx_key
  BY DEF SessionPacket
<1>5. QED
  BY <1>2, <1>3, <1>4

\* The same with a packet of the stream.
LEMMA AnnouncesData ==
    ASSUME TypeInv, left > 0, AnnounceFirst(<<DataPacket(currPacketIndex - 1)>>)
    PROVE  \E qs \in Seq(Packets) :
               /\ OnAir(qs) /\ qs # <<>> /\ (qs[1].kind = "session" \/ ~announce_due)
               /\ \A i \in 1 .. Len(qs) : qs[i].key = tx_key
               /\ qs[Len(qs)] = DataPacket(currPacketIndex - 1)
<1> DEFINE D == DataPacket(currPacketIndex - 1)
           S == SessionPacket
<1>1. S.key = tx_key /\ S.kind = "session" /\ D.key = tx_key /\ D.kind = "data"
  BY DEF SessionPacket, DataPacket
<1>2. <<D>> \in Seq(Packets) /\ <<S>> \o <<D>> \in Seq(Packets)
  BY SentTypes
<1>3. OnAir(IF announce_due THEN <<S>> \o <<D>> ELSE <<D>>)
  BY DEF AnnounceFirst
<1> HIDE DEF S, D
<1>4. CASE announce_due
  <2> DEFINE qs == <<S>> \o <<D>>
  <2>1. Len(qs) = 2 /\ qs[1] = S /\ qs[2] = D
    OBVIOUS
  <2>2. OnAir(qs) /\ qs \in Seq(Packets)
    BY <1>2, <1>3, <1>4
  <2> HIDE DEF qs
  <2>3. \A i \in 1 .. Len(qs) : i = 1 \/ i = 2
    BY <2>1
  <2>4. qs # <<>>
    BY <2>1
  <2>5. QED
    BY <1>1, <2>1, <2>2, <2>3, <2>4 DEF D
<1>5. CASE ~announce_due
  <2> DEFINE qs == <<D>>
  <2>1. Len(qs) = 1 /\ qs[1] = D /\ qs # <<>>
    OBVIOUS
  <2>2. OnAir(qs) /\ qs \in Seq(Packets)
    BY <1>2, <1>3, <1>5
  <2> HIDE DEF qs
  <2>3. \A i \in 1 .. Len(qs) : i = 1
    BY <2>1
  <2>4. QED
    BY <1>1, <1>5, <2>1, <2>2, <2>3 DEF D
<1>6. QED
  BY <1>4, <1>5

\* Packets of the sender's session may follow a history.
LEMMA AnnouncedConcat ==
    ASSUME NEW h \in Seq(Packets), NEW qs \in Seq(Packets), Announced(h),
           NEW key, \A i \in 1 .. Len(qs) : qs[i].key = key, qs # <<>>,
           qs[1].kind = "session" \/ (h # <<>> /\ h[Len(h)].key = key)
    PROVE  Announced(h \o qs) /\ (h \o qs)[Len(h \o qs)].key = key
<1> DEFINE r == h \o qs
<1>1. /\ Len(r) = Len(h) + Len(qs) /\ Len(h) \in Nat /\ Len(qs) \in Nat /\ Len(qs) > 0
      /\ \A i \in 1 .. Len(h) : r[i] = h[i]
      /\ \A i \in 1 .. Len(h) + Len(qs) : i > Len(h) =>
             r[i] = qs[i - Len(h)] /\ i - Len(h) \in 1 .. Len(qs)
  OBVIOUS
<1>2. h # <<>> => Len(h) > 0
  OBVIOUS
<1> HIDE DEF r
<1>3. \A i \in 1 .. Len(r) : i > Len(h) => r[i].key = key
  BY <1>1
<1>4. ASSUME NEW i \in 1 .. Len(r), r[i].kind = "data"
      PROVE  i - 1 \in 1 .. Len(r) /\ r[i - 1].key = r[i].key
  <2>1. CASE i <= Len(h)
    <3>1. i \in 1 .. Len(h) /\ r[i] = h[i]
      BY <1>1, <2>1
    <3>2. i - 1 \in 1 .. Len(h) /\ h[i - 1].key = h[i].key
      BY <1>4, <3>1 DEF Announced
    <3>3. QED
      BY <1>1, <3>1, <3>2
  <2>2. CASE i = Len(h) + 1
    <3>1. r[i] = qs[1]
      BY <1>1, <2>2
    <3>2. h # <<>> /\ h[Len(h)].key = key
      BY <1>4, <3>1
    <3>3. i - 1 = Len(h) /\ Len(h) \in 1 .. Len(h)
      BY <1>1, <1>2, <2>2, <3>2
    <3>4. QED
      BY <1>1, <1>3, <2>2, <3>2, <3>3
  <2>3. CASE i > Len(h) + 1
    BY <1>1, <1>3, <2>3
  <2>4. QED
    BY <1>1, <2>1, <2>2, <2>3
<1>5. Announced(r)
  BY <1>4 DEF Announced
<1>6. r[Len(r)].key = key
  BY <1>1, <1>3
<1>7. QED
  BY <1>5, <1>6 DEF r

\* They are history when all cards heard them.
LEMMA LosslessHears ==
    ASSUME TypeInv, NEW h \in Seq(Packets), NEW p \in [Cards -> Nat], NEW m \in Nat,
           History(h, p, m), NEW qs \in Seq(Packets), OnAir(qs), lossless',
           qs # <<>>, \A i \in 1 .. Len(qs) : qs[i].key = tx_key,
           qs[1].kind = "session" \/ ~announce_due,
           UNCHANGED <<options, tx_key, rx_key, forwarded, polled>>,
           \/ sent' = sent
           \/ /\ qs[Len(qs)].kind = "data"
              /\ sent' = sent \cup {<<qs[Len(qs)].key, qs[Len(qs)].seq>>}
    PROVE  History(h \o qs, p, m)'
<1> DEFINE r == h \o qs
<1>1. PICK got \in [Cards -> Heard(qs)] :
          /\ backlog' = [c \in Cards |-> backlog[c] \o got[c]]
          /\ lossless' = (lossless /\ \A c \in Cards : got[c] = qs)
  BY DEF OnAir
<1>2. \A c \in Cards : backlog'[c] = backlog[c] \o qs
  BY <1>1
<1>3. /\ Len(r) = Len(h) + Len(qs) /\ Len(h) \in Nat /\ Len(qs) \in Nat /\ Len(qs) > 0
      /\ \A i \in 1 .. Len(h) : r[i] = h[i]
      /\ \A i \in 1 .. Len(qs) : r[Len(h) + i] = qs[i]
  OBVIOUS
<1>4. Announced(r) /\ r[Len(r)].key = tx_key
  <2>1. Announced(h) /\ (qs[1].kind = "session" \/ (h # <<>> /\ h[Len(h)].key = tx_key))
    BY DEF History
  <2>2. QED
    BY <2>1, AnnouncedConcat, ZenonT(60)
<1> HIDE DEF r
<1>5. r # <<>>
  BY <1>3
<1>6. ASSUME NEW c \in Cards
      PROVE  /\ Len(backlog'[c]) = Len(r) - p[c]
             /\ \A j \in 1 .. Len(backlog'[c]) : backlog'[c][j] = r[p[c] + j]
  <2> DEFINE b == backlog[c]
  <2>1. /\ b \in Seq(Packets) /\ Len(b) = Len(h) - p[c] /\ p[c] \in Nat
        /\ \A j \in 1 .. Len(b) : b[j] = h[p[c] + j]
    BY DEF History, TypeInv
  <2>2. backlog'[c] = b \o qs
    BY <1>2
  <2> HIDE DEF b
  <2>3. /\ Len(b \o qs) = Len(b) + Len(qs) /\ Len(b) \in Nat
        /\ \A j \in 1 .. Len(b) : (b \o qs)[j] = b[j]
        /\ \A j \in 1 .. Len(b) + Len(qs) : j > Len(b) =>
               (b \o qs)[j] = qs[j - Len(b)] /\ j - Len(b) \in 1 .. Len(qs)
    BY <2>1
  <2>4. ASSUME NEW j \in 1 .. Len(b) + Len(qs)
        PROVE  (b \o qs)[j] = r[p[c] + j]
    <3>1. CASE j <= Len(b)
      <4>1. j \in 1 .. Len(b) /\ p[c] + j \in 1 .. Len(h)
        BY <1>3, <2>1, <2>3, <3>1
      <4>2. QED
        BY <1>3, <2>1, <2>3, <4>1
    <3>2. CASE j > Len(b)
      <4>1. /\ j - Len(b) \in 1 .. Len(qs) /\ (b \o qs)[j] = qs[j - Len(b)]
            /\ p[c] + j = Len(h) + (j - Len(b))
        BY <1>3, <2>1, <2>3, <3>2
      <4>2. QED
        BY <1>3, <4>1
    <3>3. QED
      BY <2>3, <3>1, <3>2
  <2>5. Len(backlog'[c]) = Len(b) + Len(qs)
    BY <2>2, <2>3
  <2>6. Len(b) + Len(qs) = Len(r) - p[c]
    BY <1>3, <2>1
  <2>7. QED
    BY <2>2, <2>4, <2>5, <2>6
<1>7. m <= Len(h) /\ m <= Len(r)
  BY <1>3 DEF History
<1>8. \A i \in 1 .. m : h[i].kind = "data" => <<h[i].key, h[i].seq>> \in forwarded
  BY DEF History
<1>9. \A i \in 1 .. m : r[i].kind = "data" => <<r[i].key, r[i].seq>> \in forwarded'
  <2>1. \A i \in 1 .. m : r[i] = h[i]
    BY <1>3, <1>7
  <2>2. QED
    BY <1>8, <2>1
<1>10. \A i \in 0 .. Len(h) : KeyAfter(r, i) = KeyAfter(h, i)
  BY <1>3 DEF KeyAfter
<1>11. \A x \in sent' : \E i \in 1 .. Len(r) :
           r[i].kind = "data" /\ x = <<r[i].key, r[i].seq>>
  <2>1. ASSUME NEW x \in sent
        PROVE  \E i \in 1 .. Len(r) : r[i].kind = "data" /\ x = <<r[i].key, r[i].seq>>
    <3>1. PICK i \in 1 .. Len(h) : h[i].kind = "data" /\ x = <<h[i].key, h[i].seq>>
      BY DEF History
    <3>2. i \in 1 .. Len(r) /\ r[i] = h[i]
      BY <1>3
    <3>3. QED
      BY <3>1, <3>2
  <2>2. r[Len(r)] = qs[Len(qs)] /\ Len(r) \in 1 .. Len(r)
    BY <1>3
  <2>3. QED
    BY <2>1, <2>2
<1>12. \/ rx_key' = KeyAfter(r, m)
       \/ polled' # {} /\ rx_key' = KeyAfter(r, p[Card'])
  <2>1. Card' = Card
    BY DEF Card
  <2>2. polled # {} => p[Card] \in 0 .. Len(h)
    <3>1. polled # {} => Card \in Cards
      BY CardTypes
    <3>2. \A c \in Cards : p[c] \in Nat /\ p[c] <= m
      BY DEF History
    <3>3. QED
      BY <1>3, <1>7, <3>1, <3>2
  <2>3. m \in 0 .. Len(h)
    BY <1>3, <1>7
  <2>4. QED
    BY <1>10, <2>1, <2>2, <2>3 DEF History
<1>13. \A c \in Cards : p[c] <= m
  BY DEF History
<1>14. Cards' = Cards
  BY DEF Cards
<1>15. History(r, p, m)'
  BY <1>4, <1>5, <1>6, <1>7, <1>9, <1>11, <1>12, <1>13, <1>14 DEF History
<1>16. QED
  BY <1>15 DEF r

\* The card's next packet in the history.
LEMMA LosslessReads ==
    ASSUME TypeInv, NEW h \in Seq(Packets), NEW p \in [Cards -> Nat], NEW m \in Nat,
           History(h, p, m), NEW kind \in {"session", "data"}, ReadPacket(kind)
    PROVE  LET c == Card
               k == p[c] + 1
           IN  /\ c \in Cards /\ k \in 1 .. Len(h) /\ k - 1 <= m
               /\ Packet = h[k] /\ h[k].kind = kind
               /\ kind = "data" => k - 1 \in 1 .. Len(h) /\ h[k - 1].key = h[k].key
               /\ rx_key \in {KeyAfter(h, m), KeyAfter(h, k - 1)}
               /\ [p EXCEPT ![c] = k] \in [Cards -> Nat]
               /\ \A d \in Cards : [p EXCEPT ![c] = k][d] = IF d = c THEN k ELSE p[d]
               /\ \A d \in Cards :
                      LET n == IF d = c THEN k ELSE p[d]
                      IN  /\ Len(backlog'[d]) = Len(h) - n
                          /\ \A j \in 1 .. Len(backlog'[d]) : backlog'[d][j] = h[n + j]
<1> DEFINE c == Card
           k == p[c] + 1
           b == backlog[c]
<1>1. /\ c \in Cards /\ b \in Seq(Packets) /\ b # <<>> /\ Packet = Head(b)
      /\ Packet.kind = kind
      /\ backlog' = [backlog EXCEPT ![c] = Tail(b)]
  BY PacketTypes DEF Packet, ReadPacket
<1>2. /\ p[c] \in Nat /\ p[c] <= m /\ m <= Len(h) /\ Len(h) \in Nat
      /\ Len(b) = Len(h) - p[c]
      /\ \A j \in 1 .. Len(b) : b[j] = h[p[c] + j]
  BY <1>1 DEF History
<1>3. backlog \in [Cards -> Seq(Packets)]
  BY DEF TypeInv
<1>4. rx_key \in {KeyAfter(h, m), KeyAfter(h, k - 1)}
  <2>1. k - 1 = p[c]
    BY <1>2
  <2>2. QED
    BY <2>1 DEF History
<1> HIDE DEF c, b
<1>5. /\ Head(b) = b[1] /\ 1 \in 1 .. Len(b) /\ Len(Tail(b)) = Len(b) - 1
      /\ \A j \in 1 .. Len(Tail(b)) : Tail(b)[j] = b[j + 1] /\ j + 1 \in 1 .. Len(b)
      /\ Len(b) \in Nat
  BY <1>1
<1>6. k \in 1 .. Len(h) /\ k - 1 <= m /\ Packet = h[k] /\ h[k].kind = kind /\ k \in Nat
  BY <1>1, <1>2, <1>5
<1>7. kind = "data" => k - 1 \in 1 .. Len(h) /\ h[k - 1].key = h[k].key
  BY <1>6 DEF History, Announced
<1>8. /\ [p EXCEPT ![c] = k] \in [Cards -> Nat]
      /\ \A d \in Cards : [p EXCEPT ![c] = k][d] = IF d = c THEN k ELSE p[d]
  BY <1>1, <1>6
<1>9. ASSUME NEW d \in Cards
      PROVE  LET n == IF d = c THEN k ELSE p[d]
             IN  /\ Len(backlog'[d]) = Len(h) - n
                 /\ \A j \in 1 .. Len(backlog'[d]) : backlog'[d][j] = h[n + j]
  <2>1. CASE d = c
    <3>1. backlog'[d] = Tail(b)
      BY <1>1, <1>3, <2>1
    <3>2. Len(Tail(b)) = Len(h) - k
      BY <1>2, <1>5
    <3>3. ASSUME NEW j \in 1 .. Len(Tail(b))
          PROVE  Tail(b)[j] = h[k + j]
      <4>1. Tail(b)[j] = b[j + 1] /\ j + 1 \in 1 .. Len(b)
        BY <1>5
      <4>2. b[j + 1] = h[p[c] + (j + 1)]
        BY <1>2, <4>1
      <4>3. p[c] + (j + 1) = k + j
        <5>1. j \in Int /\ p[c] \in Int
          BY <1>2, <1>5
        <5>2. QED
          BY <5>1
      <4>4. QED
        BY <4>1, <4>2, <4>3
    <3>4. QED
      BY <2>1, <3>1, <3>2, <3>3
  <2>2. CASE d # c
    <3>1. backlog'[d] = backlog[d]
      BY <1>1, <1>3, <2>2
    <3>2. QED
      BY <2>2, <3>1 DEF History
  <2>3. QED
    BY <2>1, <2>2
<1>10. QED
  BY <1>1, <1>4, <1>6, <1>7, <1>8, <1>9 DEF c

\* A packet read is one more of the history.
LEMMA HistoryAdvances ==
    ASSUME TypeInv, NEW h \in Seq(Packets), NEW p \in [Cards -> Nat], NEW m \in Nat,
           History(h, p, m), NEW kind \in {"session", "data"}, ReadPacket(kind),
           NEW c, c = Card, NEW n \in Nat, n = IF p[c] = m THEN m + 1 ELSE m,
           forwarded \subseteq forwarded',
           p[c] = m /\ kind = "data" => <<Packet.key, Packet.seq>> \in forwarded',
           rx_key' \in {KeyAfter(h, n), KeyAfter(h, p[c] + 1)}
    PROVE  History(h, [p EXCEPT ![c] = p[c] + 1], n)'
<1> DEFINE k == p[c] + 1
           q == [p EXCEPT ![c] = k]
<1>1. /\ c \in Cards /\ k \in 1 .. Len(h) /\ k - 1 <= m
      /\ Packet = h[k] /\ h[k].kind = kind
      /\ \A d \in Cards : q[d] = IF d = c THEN k ELSE p[d]
      /\ \A d \in Cards :
             LET x == IF d = c THEN k ELSE p[d]
             IN  /\ Len(backlog'[d]) = Len(h) - x
                 /\ \A j \in 1 .. Len(backlog'[d]) : backlog'[d][j] = h[x + j]
  BY LosslessReads
<1>2. UNCHANGED <<announce_due, tx_key, sent, polled, options>>
  BY PacketTypes DEF txVars
<1>3. polled # {}
  BY DEF ReadPacket
<1>4. Cards' = Cards /\ Card' = Card
  BY <1>2 DEF Cards, Card
<1>5. /\ m <= Len(h) /\ \A d \in Cards : p[d] \in Nat /\ p[d] <= m
  BY DEF History
<1>6. \A i \in 1 .. m : h[i].kind = "data" => <<h[i].key, h[i].seq>> \in forwarded
  BY DEF History
<1> HIDE DEF q
<1>7. n <= Len(h) /\ k <= n /\ m <= n
  BY <1>1, <1>5
<1>8. \A d \in Cards : q[d] <= n
  BY <1>1, <1>5, <1>7
<1>9. ASSUME NEW i \in 1 .. n, h[i].kind = "data"
      PROVE  <<h[i].key, h[i].seq>> \in forwarded'
  <2>1. CASE i \in 1 .. m
    BY <1>6, <1>9, <2>1
  <2>2. CASE i \notin 1 .. m
    <3>1. p[c] = m /\ i = k
      BY <1>5, <2>2, <1>1
    <3>2. QED
      BY <1>1, <1>9, <3>1
  <2>3. QED
    BY <2>1, <2>2
<1>10. /\ rx_key' = KeyAfter(h, n) \/ rx_key' = KeyAfter(h, q[Card'])
  BY <1>1, <1>4
<1>11. History(h, q, n)'
  <2>1. /\ Announced(h)
        /\ ~announce_due' => h # <<>> /\ h[Len(h)].key = tx_key'
    BY <1>2 DEF History
  <2>2. \A x \in sent' : \E i \in 1 .. Len(h) :
            h[i].kind = "data" /\ x = <<h[i].key, h[i].seq>>
    BY <1>2 DEF History
  <2>3. \A d \in Cards' :
            /\ q[d] <= n /\ Len(backlog'[d]) = Len(h) - q[d]
            /\ \A j \in 1 .. Len(backlog'[d]) : backlog'[d][j] = h[q[d] + j]
    <3>1. SUFFICES ASSUME NEW d \in Cards
                   PROVE  /\ q[d] <= n /\ Len(backlog'[d]) = Len(h) - q[d]
                          /\ \A j \in 1 .. Len(backlog'[d]) :
                                 backlog'[d][j] = h[q[d] + j]
      BY <1>4
    <3>2. q[d] = (IF d = c THEN k ELSE p[d]) /\ q[d] <= n
      BY <1>1, <1>8
    <3> DEFINE x == IF d = c THEN k ELSE p[d]
    <3>3. /\ Len(backlog'[d]) = Len(h) - x
          /\ \A j \in 1 .. Len(backlog'[d]) : backlog'[d][j] = h[x + j]
      BY <1>1
    <3> HIDE DEF k
    <3>4. q[d] = x
      BY <3>2
    <3> HIDE DEF x
    <3>5. QED
      BY <3>2, <3>3, <3>4
  <2>4. \/ rx_key' = KeyAfter(h, n)
        \/ polled' # {} /\ rx_key' = KeyAfter(h, q[Card'])
    BY <1>2, <1>3, <1>10
  <2>5. QED
    BY <1>7, <1>9, <2>1, <2>2, <2>3, <2>4 DEF History
<1>12. QED
  BY <1>11 DEF q

\* Every step keeps a link that loses nothing complete.
LEMMA LosslessStep ==
    ASSUME TypeInv, KnownForwarded, Lossless, [Next]_vars
    PROVE  Lossless'
<1> SUFFICES ASSUME lossless', ~options'.enable_threading
             PROVE  \E h \in Seq(Packets), p \in [Cards -> Nat], m \in Nat :
                        History(h, p, m)'
  <2>1. options' = options
    BY PacketTypes
       DEF Next, ReceiveLoop, vars, NextPacket, tx_inject_packet, InjectOther,
           AnnounceDue, set_passive_mode, Restart, Poll, CardIsEmpty, NotAuthentic,
           process_session_stream_packet, ProcessNow, EnqueuePacket, Authentic,
           ProcessQueued
  <2>2. Cards' = Cards
    BY <2>1 DEF Cards
  <2>3. QED
    BY <2>2 DEF Lossless
<1>1. options' = options /\ (lossless' => lossless)
  BY PacketTypes
     DEF Next, ReceiveLoop, vars, NextPacket, tx_inject_packet, InjectOther,
         AnnounceDue, set_passive_mode, Restart, Poll, CardIsEmpty, NotAuthentic,
         process_session_stream_packet, ProcessNow, EnqueuePacket, Authentic,
         ProcessQueued, AnnounceFirst, OnAir
<1>2. PICK h \in Seq(Packets), p \in [Cards -> Nat], m \in Nat : History(h, p, m)
  BY <1>1 DEF Lossless
<1>3. Cards' = Cards
  BY <1>1 DEF Cards
<1>4. CASE UNCHANGED vars \/ NextPacket
  <2>1. UNCHANGED <<options, tx_key, announce_due, backlog, rx_key, forwarded, polled,
                    sent>>
    BY <1>4 DEF vars, txVars, rxVars, NextPacket
  <2>2. History(h, p, m)'
    BY <1>2, <1>3, <2>1 DEF History, Card
  <2>3. QED
    BY <2>2
<1>5. CASE AnnounceDue \/ Restart \/ set_passive_mode
  <2>1. /\ UNCHANGED <<options, backlog, rx_key, forwarded, polled, sent>>
        /\ announce_due' = TRUE \/ UNCHANGED <<tx_key, announce_due>>
    BY <1>5 DEF rxVars, AnnounceDue, Restart, set_passive_mode
  <2>2. History(h, p, m)'
    BY <1>2, <1>3, <2>1 DEF History, Card
  <2>3. QED
    BY <2>2
<1>6. CASE tx_inject_packet
  <2> DEFINE D == DataPacket(currPacketIndex - 1)
  <2>1. UNCHANGED <<options, tx_key, rx_key, forwarded, polled>>
    BY <1>6 DEF tx_inject_packet, rxVars
  <2>2. CASE UNCHANGED <<backlog, announce_due, sent>>
    <3>1. History(h, p, m)'
      BY <1>2, <1>3, <2>1, <2>2 DEF History, Card
    <3>2. QED
      BY <3>1
  <2>3. CASE /\ left > 0 /\ AnnounceFirst(<<D>>)
             /\ sent' = sent \cup {<<tx_key, currPacketIndex - 1>>}
    <3>1. PICK qs \in Seq(Packets) :
              /\ OnAir(qs) /\ qs # <<>> /\ (qs[1].kind = "session" \/ ~announce_due)
              /\ \A i \in 1 .. Len(qs) : qs[i].key = tx_key
              /\ qs[Len(qs)] = D
      BY <2>3, AnnouncesData
    <3>2. /\ qs[Len(qs)].kind = "data"
          /\ sent' = sent \cup {<<qs[Len(qs)].key, qs[Len(qs)].seq>>}
      BY <2>3, <3>1 DEF DataPacket
    <3>3. History(h \o qs, p, m)'
      BY <1>2, <2>1, <3>1, <3>2, LosslessHears
    <3>4. h \o qs \in Seq(Packets)
      OBVIOUS
    <3>5. QED
      BY <3>3, <3>4
  <2>4. QED
    BY <1>6, <2>2, <2>3 DEF tx_inject_packet
<1>7. CASE InjectOther
  <2>1. UNCHANGED <<options, tx_key, rx_key, forwarded, polled, sent>>
    BY <1>7 DEF InjectOther, rxVars
  <2>2. announce_due /\ AnnounceFirst(<<>>)
    BY <1>7, Zenon DEF InjectOther
  <2>3. PICK qs \in Seq(Packets) :
            /\ OnAir(qs) /\ qs # <<>> /\ qs[1].kind = "session"
            /\ \A i \in 1 .. Len(qs) : qs[i].key = tx_key
    BY <2>2, AnnouncesAlone
  <2>4. History(h \o qs, p, m)'
    BY <1>2, <2>1, <2>3, LosslessHears
  <2>5. h \o qs \in Seq(Packets)
    OBVIOUS
  <2>6. QED
    BY <2>4, <2>5
<1>8. CASE Poll
  <2>1. UNCHANGED <<options, tx_key, announce_due, backlog, rx_key, forwarded, sent>>
    BY <1>8 DEF Poll, txVars
  <2>2. rx_key = KeyAfter(h, m)
    BY <1>2, <1>8 DEF Poll, History
  <2>3. History(h, p, m)'
    BY <1>2, <1>3, <2>1, <2>2 DEF History
  <2>4. QED
    BY <2>3
<1>9. CASE CardIsEmpty
  <2>1. UNCHANGED <<options, tx_key, announce_due, backlog, rx_key, forwarded, sent>>
    BY <1>9 DEF CardIsEmpty, txVars
  <2>2. rx_key = KeyAfter(h, m)
    <3>1. Card \in Cards /\ backlog[Card] = <<>>
      BY <1>9, CardTypes DEF CardIsEmpty
    <3>2. Len(backlog[Card]) = Len(h) - p[Card] /\ p[Card] <= m /\ m <= Len(h)
      BY <1>2, <3>1 DEF History
    <3>3. p[Card] \in Nat /\ Len(h) \in Nat /\ Len(backlog[Card]) = 0
      BY <3>1
    <3>4. p[Card] = m
      BY <3>2, <3>3
    <3>5. QED
      BY <1>2, <3>4 DEF History
  <2>3. History(h, p, m)'
    BY <1>2, <1>3, <2>1, <2>2 DEF History
  <2>4. QED
    BY <2>3
<1>c. PICK c : c = Card
  OBVIOUS
<1>n. PICK n \in Nat : n = IF p[c] = m THEN m + 1 ELSE m
  OBVIOUS
<1> DEFINE k == p[c] + 1
           q == [p EXCEPT ![c] = k]
<1>10. ASSUME NEW kind \in {"session", "data"}, ReadPacket(kind), History(h, q, n)'
       PROVE  \E x \in Seq(Packets), y \in [Cards -> Nat], z \in Nat : History(x, y, z)'
  <2>1. q \in [Cards -> Nat]
    BY <1>2, <1>c, <1>10, LosslessReads
  <2> HIDE DEF q
  <2>2. QED
    BY <1>2, <1>n, <1>10, <2>1
<1>11. CASE process_session_stream_packet
  <2>1. /\ ReadPacket("session") /\ rx_key' = Packet.key /\ forwarded' = forwarded
    BY <1>11 DEF process_session_stream_packet
  <2>2. k \in 1 .. Len(h) /\ Packet = h[k]
    BY <1>2, <1>c, <2>1, LosslessReads
  <2>3. rx_key' = KeyAfter(h, k)
    BY <2>1, <2>2 DEF KeyAfter
  <2>5. /\ forwarded \subseteq forwarded'
        /\ p[c] = m /\ "session" = "data" => <<Packet.key, Packet.seq>> \in forwarded'
        /\ rx_key' \in {KeyAfter(h, n), KeyAfter(h, k)}
    BY <2>1, <2>3
  <2>6. History(h, q, n)'
    BY <1>2, <1>c, <1>n, <2>1, <2>5, HistoryAdvances, Zenon
  <2>7. QED
    BY <1>10, <2>1, <2>6
<1>12. ASSUME ReadPacket("data")
       PROVE  /\ k \in 1 .. Len(h) /\ Packet = h[k]
              /\ KeyAfter(h, k - 1) = Packet.key /\ KeyAfter(h, k) = Packet.key
              /\ rx_key # Packet.key => p[c] # m /\ rx_key = KeyAfter(h, m)
              /\ p[c] \in Nat
  <2>1. /\ c \in Cards /\ k \in 1 .. Len(h) /\ Packet = h[k]
        /\ k - 1 \in 1 .. Len(h) /\ h[k - 1].key = h[k].key
        /\ rx_key \in {KeyAfter(h, m), KeyAfter(h, k - 1)}
    BY <1>2, <1>c, <1>12, LosslessReads
  <2>2. p[c] \in Nat /\ k - 1 = p[c]
    BY <2>1
  <2>3. KeyAfter(h, k - 1) = Packet.key /\ KeyAfter(h, k) = Packet.key
    BY <2>1 DEF KeyAfter
  <2>4. QED
    BY <2>1, <2>2, <2>3
<1>13. CASE NotAuthentic
  <2>1. /\ ReadPacket("data") /\ Packet.key # rx_key /\ rx_key' = rx_key
        /\ forwarded' = forwarded
    BY <1>13 DEF NotAuthentic
  <2>2. p[c] # m /\ rx_key = KeyAfter(h, m)
    BY <1>12, <2>1
  <2>3. n = m
    BY <1>n, <2>2
  <2>4. rx_key' = KeyAfter(h, n)
    BY <2>1, <2>2, <2>3
  <2>5. /\ forwarded \subseteq forwarded'
        /\ p[c] = m /\ "data" = "data" => <<Packet.key, Packet.seq>> \in forwarded'
        /\ rx_key' \in {KeyAfter(h, n), KeyAfter(h, k)}
    BY <2>1, <2>2, <2>4
  <2>7. History(h, q, n)'
    BY <1>2, <1>c, <1>n, <2>1, <2>5, HistoryAdvances, Zenon
  <2>8. QED
    BY <1>10, <2>1, <2>7
<1>14. CASE ProcessNow
  <2>1. /\ ReadPacket("data") /\ Packet.key = rx_key /\ rx_key' = rx_key
        /\ forwarded' = forwarded \cup {<<rx_key, Packet.seq>>}
    BY <1>14, Decoded
  <2>2. rx_key' = KeyAfter(h, k)
    BY <1>12, <2>1
  <2>4. /\ forwarded \subseteq forwarded'
        /\ <<Packet.key, Packet.seq>> \in forwarded'
    BY <2>1
  <2>5. rx_key' \in {KeyAfter(h, n), KeyAfter(h, k)}
    BY <2>2
  <2>6. History(h, q, n)'
    BY <1>2, <1>c, <1>n, <2>1, <2>4, <2>5, HistoryAdvances, Zenon
  <2>7. QED
    BY <1>10, <2>1, <2>6
<1>15. CASE EnqueuePacket
  BY <1>1, <1>15 DEF EnqueuePacket
<1>16. CASE ProcessQueued
  BY <1>1, <1>16 DEF ProcessQueued, TypeInv
<1>17. QED
  BY <1>4, <1>5, <1>6, <1>7, <1>8, <1>9, <1>11, <1>13, <1>14, <1>15, <1>16
     DEF Next, ReceiveLoop

----------------------------------------------------------------------------
(* What the receiver promises.                                             *)

\* The inductive invariant of sender, air and receiver.
THEOREM Invariance == Spec => [](TypeInv /\ KnownForwarded /\ AllFound /\ OneCard)
<1>1. Init => TypeInv /\ KnownForwarded /\ AllFound /\ OneCard
  <2> SUFFICES ASSUME Init
               PROVE  TypeInv /\ KnownForwarded /\ AllFound /\ OneCard
    OBVIOUS
  <2>1. TypeInv
    BY FS_EmptySet DEF Init, TypeInv, NewDecoder
  <2>2. KnownForwarded
    BY DEF Init, KnownForwarded, NewDecoder
  <2>3. options.n_cards = 1 => backlog[1] = <<>>
    BY DEF Init, Cards
  <2>4. OneCard
    BY <2>3 DEF Init, OneCard, Ordered, Recent, ForwardedBefore, NewestKnown
  <2>5. Queued = {}
    BY DEF Init, Queued
  <2>6. AllFound
    BY <2>5 DEF Init, AllFound, NewDecoder
  <2>7. QED
    BY <2>1, <2>2, <2>4, <2>6
<1>2. TypeInv /\ KnownForwarded /\ AllFound /\ OneCard /\ [Next]_vars =>
          (TypeInv /\ KnownForwarded /\ AllFound /\ OneCard)'
  BY TypeStep, KnownForwardedStep, AllFoundStep, OneCardStep
<1>3. QED
  BY <1>1, <1>2, PTL DEF Spec

\* What was authenticated is handed up, whatever was lost, repeated or delayed
\* by the buffers of several cards and however often the sender restarted; with
\* threading it may also wait, have been refused by the full queue, or have met
\* a packet of another session that was processed late.
THEOREM AcceptedArrive == Spec => []AcceptedAreForwarded
<1>1. KnownForwarded /\ AllFound => AcceptedAreForwarded
  BY DEF KnownForwarded, AllFound, AcceptedAreForwarded
<1>2. QED
  BY <1>1, Invariance, PTL

\* With one card and without threading nothing is handed up twice, although
\* the decoder forgets old numbers and all of them when a session begins.
THEOREM NoDuplicates == Spec => []OneCardNoDuplicates
<1>1. OneCard => OneCardNoDuplicates
  BY DEF OneCard, OneCardNoDuplicates
<1>2. QED
  BY <1>1, Invariance, PTL

\* Without threading and on a link that lost nothing so far, all that was sent
\* is handed up once the cards are read, from the first packet of each session
\* on, although several cards bring back the key of an older one.
THEOREM LosslessArrives == Spec => []LosslessIsComplete
<1>1. Init => Lossless
  <2> SUFFICES ASSUME Init PROVE Lossless
    OBVIOUS
  <2> DEFINE p == [c \in Cards |-> 0]
  <2>1. Announced(<<>>) /\ KeyAfter(<<>>, 0) = 0
    BY DEF Announced, KeyAfter
  <2>2. \A c \in Cards : backlog[c] = <<>> /\ p[c] = 0
    BY DEF Init
  <2>3. p \in [Cards -> Nat]
    OBVIOUS
  <2> HIDE DEF p
  <2>4. Len(<<>>) = 0 /\ announce_due /\ sent = {} /\ rx_key = 0
    BY DEF Init
  <2>5. History(<<>>, p, 0)
    BY <2>1, <2>2, <2>4 DEF History
  <2>6. <<>> \in Seq(Packets) /\ 0 \in Nat
    OBVIOUS
  <2>7. QED
    BY <2>3, <2>5, <2>6, Zenon DEF Lossless
<1>2. TypeInv /\ KnownForwarded /\ Lossless /\ [Next]_vars => Lossless'
  BY LosslessStep
<1>3. TypeInv /\ Lossless => LosslessIsComplete
  <2> SUFFICES ASSUME TypeInv, Lossless, lossless, ~options.enable_threading,
                      \A c \in Cards : backlog[c] = <<>>,
                      NEW x \in sent
               PROVE  x \in forwarded
    BY DEF LosslessIsComplete
  <2>1. PICK h \in Seq(Packets), p \in [Cards -> Nat], m \in Nat : History(h, p, m)
    BY DEF Lossless
  <2>2. 1 \in Cards
    <3>1. options.n_cards \in DOMAIN MaxPackets /\ MaxPackets \in Seq(Nat)
      BY SessionAssumption DEF TypeInv
    <3>2. QED
      BY <3>1 DEF Cards
  <2>3. /\ backlog[1] = <<>> /\ Len(backlog[1]) = Len(h) - p[1] /\ p[1] <= m
        /\ m <= Len(h) /\ p[1] \in Nat
    BY <2>1, <2>2 DEF History
  <2>4. m = Len(h)
    BY <2>3
  <2>5. PICK i \in 1 .. Len(h) : h[i].kind = "data" /\ x = <<h[i].key, h[i].seq>>
    BY <2>1 DEF History
  <2>6. QED
    BY <2>1, <2>4, <2>5 DEF History
<1>4. QED
  BY <1>1, <1>2, <1>3, Invariance, PTL DEF Spec
=============================================================================
