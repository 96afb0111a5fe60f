----------------------------- MODULE WBSession -----------------------------
(***************************************************************************)
(* Sessions of a link in one direction: the injecting side of one WBTxRx,  *)
(* the receiving side of another with one or more cards, and a stream      *)
(* without FEC (telemetry, audio) on top.                                  *)
(*                                                                         *)
(* A sender makes a session key when it starts and announces it before     *)
(* data, again and again.  The receiver accepts only data that was         *)
(* authenticated with the key it knows; a new key resets its streams.  The *)
(* streams either process packets in the receive thread or, with           *)
(* enable_threading, in a thread of their own behind a queue.  Keys are    *)
(* numbered in the order of the sender's restarts; 0 is the zero key a     *)
(* receiver starts with.                                                   *)
(***************************************************************************)
EXTENDS Naturals, Sequences, SimpleStream

CONSTANTS
    Configurations,      \* the receivers considered: [n_cards, enable_threading]
    MaxSessions,         \* bound on the sender's starts
    MaxPackets,          \* bound on the packets of a session, by number of cards
    MaxInjections,       \* a packet is injected up to so many times
    MaxBacklog,          \* packets the kernel keeps for a card, by number of cards
    packet_queue_size

ASSUME SessionAssumption ==
    /\ \A c \in Configurations :
           /\ c.n_cards \in DOMAIN MaxPackets \cap DOMAIN MaxBacklog
           /\ c.enable_threading \in BOOLEAN
    /\ {MaxPackets, MaxBacklog} \subseteq Seq(Nat)
    /\ {MaxSessions, MaxInjections, packet_queue_size}
           \subseteq Nat \ {0}

VARIABLES
    options,         \* the receiver's configuration
    tx_key,          \* the sender's session
    announce_due,    \* m_session_key_next_announce_ts has passed
    m_disable_all_transmissions,
    currPacketIndex, \* sequence number of the next packet
    left,            \* injections left of the packet before it
    backlog,         \* packets received by each card and not yet read
    polled,          \* cards the receive loop still has to read
    rx_key,          \* the receiver's session key
    m_packet_queue,  \* packets on their way to the stream's thread
    decoder,         \* the stream's FECDisabledDecoder
    sent, accepted,  \* packets injected / authenticated, as <<key, seq>>
    forwarded,       \* packets handed up
    again,           \* packets handed up more than once
    refused,         \* packets a full queue has refused
    late,            \* packets whose session was over when they were processed
    lossless         \* no packet was lost so far

txVars == <<tx_key, announce_due, m_disable_all_transmissions,
            currPacketIndex, left>>
rxVars == <<polled, rx_key, m_packet_queue, decoder, accepted, forwarded,
            again, refused, late>>
vars == <<options, txVars, rxVars, backlog, sent, lossless>>

Cards == 1 .. options.n_cards

Init ==
    /\ options \in Configurations
    /\ tx_key = 1
    /\ announce_due = TRUE
    /\ m_disable_all_transmissions = FALSE
    /\ currPacketIndex = 0
    /\ left = 0
    /\ backlog = [c \in Cards |-> <<>>]
    /\ polled = {}
    /\ rx_key = 0
    /\ m_packet_queue = <<>>
    /\ decoder = NewDecoder
    /\ sent = {} /\ accepted = {} /\ forwarded = {} /\ again = {}
    /\ refused = {} /\ late = {}
    /\ lossless = TRUE

-----------------------------------------------------------------------------
(* The sender.                                                             *)

SessionPacket == [kind |-> "session", key |-> tx_key]
DataPacket(seq) == [kind |-> "data", key |-> tx_key, seq |-> seq]

\* Each card hears a packet on air or does not; a full card cannot.  (Of at
\* most two packets, what is heard is a stretch.)
Heard(packets) ==
    {SubSeq(packets, i, j) : i \in 1 .. Len(packets) + 1, j \in 0 .. Len(packets)}

OnAir(packets) ==
    \E got \in [Cards -> Heard(packets)] :
        /\ \A c \in Cards :
               Len(backlog[c]) + Len(got[c]) <= MaxBacklog[options.n_cards]
        /\ backlog' = [c \in Cards |-> backlog[c] \o got[c]]
        /\ lossless' = (lossless /\ \A c \in Cards : got[c] = packets)

\* Mutant: the announcement follows the data.
AnnounceAfter(packets) ==
    /\ OnAir(IF announce_due THEN packets \o <<SessionPacket>> ELSE packets)
    /\ announce_due' = FALSE

\* announce_session_key_if_needed: the key goes first when it is due.
AnnounceFirst(packets) ==
    /\ OnAir(IF announce_due THEN <<SessionPacket>> \o packets ELSE packets)
    /\ announce_due' = FALSE

\* A new packet for the stream's thread (process_enqueued_packet).
NextPacket ==
    /\ left = 0
    /\ currPacketIndex < MaxPackets[options.n_cards]
    /\ currPacketIndex' = currPacketIndex + 1
    /\ left' \in 1 .. MaxInjections
    /\ UNCHANGED <<options, tx_key, announce_due, m_disable_all_transmissions,
                   rxVars, backlog, sent, lossless>>

\* tx_inject_packet for a packet of the stream, under m_tx_mutex.
tx_inject_packet ==
    /\ left > 0
    /\ left' = left - 1
    /\ \/ /\ m_disable_all_transmissions
          /\ UNCHANGED <<backlog, lossless, announce_due, sent>>
       \/ /\ ~m_disable_all_transmissions
          /\ AnnounceFirst(<<DataPacket(currPacketIndex - 1)>>)
          /\ sent' = sent \cup {<<tx_key, currPacketIndex - 1>>}
    /\ UNCHANGED <<options, tx_key, m_disable_all_transmissions,
                   currPacketIndex, rxVars>>

\* tx_inject_packet for a packet of another stream.  Only the announcement it
\* may carry matters here.
InjectOther ==
    /\ ~m_disable_all_transmissions
    /\ announce_due
    /\ AnnounceFirst(<<>>)
    /\ UNCHANGED <<options, tx_key, m_disable_all_transmissions,
                   currPacketIndex, left, rxVars, sent>>

\* Mutant: the key is announced only once.
NeverDue == FALSE /\ UNCHANGED vars

\* session_key_packet_interval has passed since the last announcement.
AnnounceDue ==
    /\ ~announce_due
    /\ announce_due' = TRUE
    /\ UNCHANGED <<options, tx_key, m_disable_all_transmissions,
                   currPacketIndex, left, rxVars, backlog, sent, lossless>>

set_passive_mode ==
    /\ m_disable_all_transmissions' = ~m_disable_all_transmissions
    /\ UNCHANGED <<options, tx_key, announce_due, currPacketIndex, left,
                   rxVars, backlog, sent, lossless>>

\* The sender starts anew: another key, sequence numbers from zero.
Restart ==
    /\ tx_key < MaxSessions
    /\ tx_key' = tx_key + 1
    /\ announce_due' = TRUE
    /\ m_disable_all_transmissions' = FALSE
    /\ currPacketIndex' = 0
    /\ left' = 0
    /\ UNCHANGED <<options, rxVars, backlog, sent, lossless>>

-----------------------------------------------------------------------------
(* The receiver: loop_receive_packets reads each card that has packets, in *)
(* the order of the cards, until it has none left.                         *)

Poll ==
    /\ polled = {}
    /\ \E c \in Cards : backlog[c] # <<>>
    /\ polled' = {c \in Cards : backlog[c] # <<>>}
    /\ UNCHANGED <<options, txVars, backlog, rx_key, m_packet_queue, decoder,
                   accepted, forwarded, again, refused, late, sent, lossless>>

\* The card that is being read.
Card == CHOOSE c \in polled : \A d \in polled : c <= d

CardIsEmpty ==
    /\ polled # {}
    /\ backlog[Card] = <<>>
    /\ polled' = polled \ {Card}
    /\ UNCHANGED <<options, txVars, backlog, rx_key, m_packet_queue, decoder,
                   accepted, forwarded, again, refused, late, sent, lossless>>

Packet == Head(backlog[Card])

ReadPacket(kind) ==
    /\ polled # {}
    /\ backlog[Card] # <<>>
    /\ Packet.kind = kind
    /\ backlog' = [backlog EXCEPT ![Card] = Tail(@)]
    /\ UNCHANGED <<options, txVars, polled, sent, lossless>>

\* process_session_stream_packet: any valid key that is not the current one
\* begins a new session, and on_new_session resets the stream.  Its queue is
\* left alone.
process_session_stream_packet ==
    /\ ReadPacket("session")
    /\ rx_key' = Packet.key
    /\ decoder' = IF Packet.key # rx_key THEN reset_packets_map(decoder)
                  ELSE decoder
    /\ UNCHANGED <<m_packet_queue, accepted, forwarded, again, refused, late>>

\* FECDisabledDecoder::process_packet and the callback to the application.
Decode(packet) ==
    LET id == <<packet.key, packet.seq>>
        up == IF Forwards(decoder, packet.seq) THEN {id} ELSE {}
    IN  /\ decoder' = Processed(decoder, packet.seq)
        /\ forwarded' = forwarded \cup up
        /\ again' = again \cup (up \cap forwarded)
        /\ late' = IF packet.key # rx_key THEN late \cup {id} ELSE late

\* process_received_data_packet: data of another session is not authentic.
NotAuthentic ==
    /\ ReadPacket("data")
    /\ Packet.key # rx_key
    /\ UNCHANGED <<rx_key, m_packet_queue, decoder, accepted, forwarded, again,
                   refused, late>>

Authentic ==
    /\ ReadPacket("data")
    /\ Packet.key = rx_key
    /\ accepted' = accepted \cup {<<Packet.key, Packet.seq>>}
    /\ UNCHANGED rx_key

\* WBStreamRx::on_new_packet without threading.
ProcessNow ==
    /\ ~options.enable_threading
    /\ Authentic
    /\ Decode(Packet)
    /\ UNCHANGED <<m_packet_queue, refused>>

\* WBStreamRx::on_new_packet with threading; a full queue drops the packet.
EnqueuePacket ==
    /\ options.enable_threading
    /\ Authentic
    /\ \/ /\ Len(m_packet_queue) < packet_queue_size
          /\ m_packet_queue' = Append(m_packet_queue, Packet)
          /\ UNCHANGED refused
       \/ /\ Len(m_packet_queue) >= packet_queue_size
          /\ refused' = refused \cup {<<Packet.key, Packet.seq>>}
          /\ UNCHANGED m_packet_queue
    /\ UNCHANGED <<decoder, forwarded, again, late>>

\* The thread of the stream (WBStreamRx::loop_process_data).
ProcessQueued ==
    /\ m_packet_queue # <<>>
    /\ m_packet_queue' = Tail(m_packet_queue)
    /\ Decode(Head(m_packet_queue))
    /\ UNCHANGED <<options, txVars, backlog, polled, rx_key, accepted, refused,
                   sent, lossless>>

ReceiveLoop ==
    \/ Poll \/ CardIsEmpty \/ process_session_stream_packet
    \/ NotAuthentic \/ ProcessNow \/ EnqueuePacket

Next ==
    \/ NextPacket \/ tx_inject_packet \/ InjectOther \/ AnnounceDue
    \/ set_passive_mode \/ Restart
    \/ ReceiveLoop \/ ProcessQueued

\* An announcement that at least one card hears.
AnnouncementHeard ==
    InjectOther /\ \E c \in Cards : backlog'[c] # backlog[c]

\* The threads run, time passes, and an announcement that can be heard again
\* and again is heard at last.
Spec ==
    /\ Init /\ [][Next]_vars
    /\ WF_vars(AnnounceDue)
    /\ SF_vars(AnnouncementHeard)
    /\ WF_vars(ReceiveLoop)
    /\ WF_vars(ProcessQueued)

-----------------------------------------------------------------------------
(* Properties.                                                             *)

\* The packets that wait for the stream's thread.
Queued ==
    {<<m_packet_queue[i].key, m_packet_queue[i].seq>> :
        i \in DOMAIN m_packet_queue}

\* Packets that met one of another session with the same number, because one of
\* the two was processed late.
Met ==
    {x \in accepted :
        \E y \in accepted : /\ y[1] # x[1] /\ y[2] = x[2]
                           /\ {x, y} \cap late # {}}

\* "received packets are quaranteed to be forwarded" (SimpleStream.hpp:24-25):
\* without threading a packet that was authenticated is handed up, also when a
\* new session starts with the sequence numbers of the old one, and also when
\* the backlog of a second card returns to the old session for a while.  With
\* threading it is handed up, waits or was refused by the full queue, although
\* on_new_session resets the decoder while packets of the old session wait
\* (WBStreamRx.cpp:84-92) - but for a packet that meets one of the same number
\* of another session because one of them comes to the decoder late.
AcceptedAreForwarded ==
    /\ ~options.enable_threading => accepted \subseteq forwarded
    /\ accepted \subseteq forwarded \cup Queued \cup refused \cup Met

\* On a link that lost nothing, all that was sent is handed up once the cards
\* are read, from the first packet of a session on: the key is there in time.
LosslessIsComplete ==
    /\ lossless /\ ~options.enable_threading
    /\ \A c \in Cards : backlog[c] = <<>>
    => sent \subseteq forwarded

\* "No duplicates, but packets out of order are possible" (SimpleStream.hpp:91):
\* with one card and without threading no packet is handed up twice, however
\* often it was injected and wherever in between the session changed.
OneCardNoDuplicates ==
    options.n_cards = 1 /\ ~options.enable_threading => again = {}

\* The receiver ends up in the sender's last session, whatever was lost and
\* whatever backlog of an older session its cards still hold, unless the
\* sender stays passive.
SessionsAgree ==
    <>[](~m_disable_all_transmissions) => <>[](rx_key = tx_key)

=============================================================================
