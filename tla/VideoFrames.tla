---------------------------- MODULE VideoFrames ----------------------------
(***************************************************************************)
(* The video path of the air unit, from the packets a GStreamer pipeline   *)
(* makes to the queue of the primary video transmitter: how a camera's     *)
(* thread cuts the RTP packets into "frames" (on_new_rtp_frame_fragment,   *)
(* rtp_eof_helper), and how WBLink enqueues a frame (transmit_video_data,  *)
(* WBStreamTx::try_enqueue_block and enqueue_block_dropping).              *)
(*                                                                         *)
(* The encoder is external: a picture is a number of slices, each one NAL  *)
(* unit, sent as a single packet or as a first, middle and last fragment;  *)
(* an IDR picture follows a packet with the codec's configuration.  The    *)
(* packets are small enough to be enqueued, and the thermal protection     *)
(* leaves video on.                                                        *)
(***************************************************************************)
EXTENDS Integers, SequencesExt

CONSTANTS
    Codecs,        \* codecs the camera may be set to
    Slices,        \* h26x_num_slices
    Packets,       \* packets a slice may take
    FragmentLimit, \* most fragments that may wait for the end of a frame (500)
    QueueSize,     \* block_data_queue_size (2)
    MaxPictures,   \* bound: pictures the encoder makes
    MaxChanges     \* bound: how often the user sets the codec

ASSUME VideoAssumption ==
    /\ Codecs \subseteq {"h264", "h265"} /\ Codecs # {}
    /\ Slices \in Nat \ {0} /\ Packets \subseteq Nat \ {0}
    /\ FragmentLimit \in Nat /\ QueueSize \in Nat \ {0}
    /\ MaxPictures \in Nat /\ MaxChanges \in Nat

VARIABLES
    intraRefresh,      \* h26x_intra_refresh_type # -1, as the unit started
    codec,             \* streamed_video_format.videoCodec of the settings
    pipe,              \* the codec of the running pipeline
    fresh,             \* the pipeline has made no picture yet
    todo,              \* packets the pipeline holds, in order
    pictures,          \* pictures made so far
    packets,           \* packets made so far
    pc,                \* the camera's thread: "check", "pull" or "count"
    m_request_restart,
    user,              \* the user's thread: "idle", or "stored" the new codec
    changes,           \* how often the codec has been set
    m_frame_fragments,
    m_last_fu_s_idr,
    m_air_close_video_in,
    queue,             \* m_block_queue of the primary stream
    lastSent,          \* number of the last packet taken from the queue
    n_dropped_frames,  \* of the call of transmit_video_data in progress, else 0
    m_primary_total_dropped_frames,
    \* History, which no action reads:
    handed,            \* frames that were to be enqueued
    sent,              \* frames the transmitter's thread has taken
    earlier            \* dropped frames that were reported before resets

encoder == <<pipe, fresh, todo, pictures, packets>>
camera == <<pc, m_frame_fragments, m_last_fu_s_idr>>
settings == <<codec, user, changes>>
drops == <<n_dropped_frames, m_primary_total_dropped_frames, earlier>>
link == <<queue, drops, handed, sent>>
vars == <<encoder, camera, settings, m_request_restart, m_air_close_video_in,
          link, lastSent, intraRefresh>>

Kinds == {"single", "start", "middle", "end"}

Init ==
    /\ intraRefresh \in BOOLEAN
    /\ codec \in Codecs /\ pipe = codec /\ fresh = TRUE
    /\ todo = <<>> /\ pictures = 0 /\ packets = 0
    /\ pc = "check" /\ m_frame_fragments = <<>> /\ m_last_fu_s_idr = FALSE
    /\ user = "idle" /\ changes = 0 /\ m_request_restart = FALSE
    /\ m_air_close_video_in = FALSE
    /\ queue = <<>> /\ lastSent = 0 /\ n_dropped_frames = 0
    /\ m_primary_total_dropped_frames = 0
    /\ handed = 0 /\ sent = 0 /\ earlier = 0

-----------------------------------------------------------------------------
(* The encoder and the user.                                               *)

\* The packets of a slice that takes n of them.
SliceKinds(n) ==
    IF n = 1 THEN <<"single">>
    ELSE [i \in 1 .. n |-> IF i = 1 THEN "start"
                           ELSE IF i = n THEN "end" ELSE "middle"]

\* A pipeline begins with an IDR picture.
Encode ==
    /\ todo = <<>> /\ pictures < MaxPictures
    /\ \E idr \in (IF fresh THEN {TRUE} ELSE BOOLEAN), n \in [1 .. Slices -> Packets] :
          LET kinds == (IF idr THEN <<"single">> ELSE <<>>)
                         \o FlattenSeq([s \in 1 .. Slices |-> SliceKinds(n[s])])
          IN /\ todo' = [i \in 1 .. Len(kinds) |->
                           [id |-> packets + i, picture |-> pictures + 1,
                            kind |-> kinds[i], idr |-> idr, codec |-> pipe]]
             /\ packets' = packets + Len(kinds)
    /\ pictures' = pictures + 1 /\ fresh' = FALSE
    /\ UNCHANGED <<pipe, camera, settings, m_request_restart,
                   m_air_close_video_in, link, lastSent>>

\* set_video_codec stores the codec,
SetCodec ==
    /\ user = "idle" /\ changes < MaxChanges
    /\ codec' \in Codecs \ {codec}
    /\ user' = "stored" /\ changes' = changes + 1
    /\ UNCHANGED <<encoder, camera, m_request_restart, m_air_close_video_in,
                   link, lastSent>>

\* and persist calls the listener of the camera's stream.
RequestRestart ==
    /\ user = "stored" /\ user' = "idle"
    /\ m_request_restart' = TRUE
    /\ UNCHANGED <<encoder, camera, codec, changes, m_air_close_video_in, link,
                   lastSent>>

\* The worker thread closes the input while it changes the channel.
CloseOrOpen ==
    /\ m_air_close_video_in' = ~m_air_close_video_in
    /\ UNCHANGED <<encoder, camera, settings, m_request_restart, link, lastSent>>

-----------------------------------------------------------------------------
(* WBLink::transmit_video_data, on the camera's thread.                    *)

\* Mutant: frames that may not be dropped push others out.
DropsAlways(idr) == TRUE

\* use_dropping_enqueue.
UsesDropping(idr) == intraRefresh \/ idr

\* Returns whether there was room for the frame.
try_enqueue_block(frame, res) ==
    /\ res = (Len(queue) < QueueSize)
    /\ queue' = IF res THEN Append(queue, frame) ELSE queue

\* Mutant: the size of the queue is read once it is empty.
CountsAfterClear(frame, ret) ==
    /\ ret = 0
    /\ queue' = IF Len(queue) < QueueSize THEN Append(queue, frame) ELSE <<frame>>

\* Makes room for the frame by clearing a full queue, returns how many frames
\* were in it.
enqueue_block_dropping(frame, ret) ==
    \/ Len(queue) < QueueSize /\ ret = 0 /\ queue' = Append(queue, frame)
    \/ Len(queue) = QueueSize /\ ret = Len(queue) /\ queue' = <<frame>>

\* The part of transmit_video_data up to the count of the dropped frames.
transmit_video_data(frame) ==
    \/ m_air_close_video_in /\ UNCHANGED link
    \/ /\ ~m_air_close_video_in
       /\ \/ /\ UsesDropping(frame.idr)
             /\ \E count_removed \in 0 .. QueueSize :
                   /\ enqueue_block_dropping(frame, count_removed)
                   /\ n_dropped_frames' = count_removed
          \/ /\ ~UsesDropping(frame.idr)
             /\ \E res \in BOOLEAN :
                   /\ try_enqueue_block(frame, res)
                   /\ n_dropped_frames' = IF res THEN 0 ELSE 1
       /\ handed' = handed + 1
       /\ UNCHANGED <<m_primary_total_dropped_frames, sent, earlier>>

\* The end of the call.
CountDrops ==
    /\ pc = "count" /\ pc' = "check"
    /\ m_primary_total_dropped_frames' =
           m_primary_total_dropped_frames + n_dropped_frames
    /\ n_dropped_frames' = 0
    /\ UNCHANGED <<encoder, m_frame_fragments, m_last_fu_s_idr, settings,
                   m_request_restart, m_air_close_video_in, queue, handed, sent,
                   earlier, lastSent>>

\* The worker begins to count anew when the rate or the frequency has changed.
ResetDropped ==
    /\ m_primary_total_dropped_frames' = 0
    /\ earlier' = earlier + m_primary_total_dropped_frames
    /\ UNCHANGED <<encoder, camera, settings, m_request_restart,
                   m_air_close_video_in, queue, n_dropped_frames, handed, sent,
                   lastSent>>

\* The transmitter's thread takes a frame.
Take ==
    /\ queue # <<>> /\ queue' = Tail(queue)
    /\ lastSent' = Last(Head(queue).fragments).id /\ sent' = sent + 1
    /\ UNCHANGED <<encoder, camera, settings, m_request_restart,
                   m_air_close_video_in, drops, handed>>

-----------------------------------------------------------------------------
(* The camera's thread: stream_once.                                       *)

\* Mutant: only fragments of h264 are understood.
MoreInfoH264(p, c) ==
    LET understood == p.codec = c /\ c = "h264"
    IN [is_fu_start |-> understood /\ p.kind = "start",
        is_fu_end |-> understood /\ p.kind = "end",
        is_idr |-> p.idr]

\* h264_more_info, h265_more_info and is_idr_frame. Fragments of one codec
\* are not fragments to the parser of the other; h265_more_info leaves
\* nal_unit_type at -1, which is no IDR frame.
MoreInfo(p, c) ==
    LET understood == p.codec = c
    IN [is_fu_start |-> understood /\ p.kind = "start",
        is_fu_end |-> understood /\ p.kind = "end",
        is_idr |-> c = "h264" /\ p.idr]

\* is_last_fragment_of_frame.
IsLastFragment(fragments, info) ==
    info.is_fu_end \/ Len(fragments) > FragmentLimit

\* m_last_fu_s_idr after a fragment.
LastFuStartIdr(info) ==
    IF info.is_fu_start THEN info.is_idr ELSE m_last_fu_s_idr

\* Mutant: the fragments of the frame are kept.
ForwardKeeps(fragments, idr) ==
    /\ transmit_video_data([fragments |-> fragments, idr |-> idr])
    /\ m_frame_fragments' = fragments /\ m_last_fu_s_idr' = FALSE

\* on_new_rtp_fragmented_frame.
Forward(fragments, idr) ==
    /\ transmit_video_data([fragments |-> fragments, idr |-> idr])
    /\ m_frame_fragments' = <<>> /\ m_last_fu_s_idr' = FALSE

\* on_new_rtp_frame_fragment. The codec it reads is that of the settings.
on_new_rtp_frame_fragment(p) ==
    LET fragments == Append(m_frame_fragments, p)
        info == MoreInfo(p, codec)
        idr == LastFuStartIdr(info)
    IN \/ IsLastFragment(fragments, info) /\ Forward(fragments, idr)
       \/ /\ ~IsLastFragment(fragments, info)
          /\ m_frame_fragments' = fragments /\ m_last_fu_s_idr' = idr
          /\ UNCHANGED link

\* No restart is requested, so a sample is waited for,
Check ==
    /\ pc = "check" /\ ~m_request_restart
    /\ pc' = "pull"
    /\ UNCHANGED <<encoder, m_frame_fragments, m_last_fu_s_idr, settings,
                   m_request_restart, m_air_close_video_in, link, lastSent>>

\* which arrives,
Pull ==
    /\ pc = "pull" /\ todo # <<>>
    /\ todo' = Tail(todo)
    /\ on_new_rtp_frame_fragment(Head(todo))
    /\ pc' = IF n_dropped_frames' = 0 THEN "check" ELSE "count"
    /\ UNCHANGED <<pipe, fresh, pictures, packets, settings, m_request_restart,
                   m_air_close_video_in, lastSent>>

\* or does not within 40 ms.
PullTimesOut ==
    /\ pc = "pull" /\ todo = <<>>
    /\ pc' = "check"
    /\ UNCHANGED <<encoder, m_frame_fragments, m_last_fu_s_idr, settings,
                   m_request_restart, m_air_close_video_in, link, lastSent>>

\* The pipeline is taken down and set up with the settings.
Restart ==
    /\ pc = "check" /\ m_request_restart
    /\ m_request_restart' = FALSE
    /\ pipe' = codec /\ fresh' = TRUE /\ todo' = <<>>
    /\ m_frame_fragments' = <<>>
    /\ UNCHANGED <<pc, m_last_fu_s_idr, pictures, packets, settings,
                   m_air_close_video_in, link, lastSent>>

Next ==
    /\ UNCHANGED intraRefresh
    /\ \/ Encode \/ SetCodec \/ RequestRestart \/ CloseOrOpen
       \/ Take \/ CountDrops \/ ResetDropped
       \/ Check \/ Pull \/ PullTimesOut \/ Restart

Spec == Init /\ [][Next]_vars

-----------------------------------------------------------------------------
Packet == [id : Nat, picture : 1 .. MaxPictures, kind : Kinds, idr : BOOLEAN,
           codec : Codecs]

TypeOK ==
    /\ intraRefresh \in BOOLEAN
    /\ codec \in Codecs /\ pipe \in Codecs /\ fresh \in BOOLEAN
    /\ \A p \in Range(todo) : p \in Packet
    /\ pc \in {"check", "pull", "count"} /\ user \in {"idle", "stored"}
    /\ \A p \in Range(m_frame_fragments) : p \in Packet
    /\ Len(m_frame_fragments) <= FragmentLimit
    /\ Len(queue) <= QueueSize
    /\ m_request_restart \in BOOLEAN /\ m_last_fu_s_idr \in BOOLEAN
    /\ m_air_close_video_in \in BOOLEAN

\* Where packets are, the oldest first: in the queue's frames, in the frame that
\* is put together, in the pipeline.
Places == [i \in DOMAIN queue |-> queue[i].fragments] \o <<m_frame_fragments, todo>>

(***************************************************************************)
(* Whatever is cut, dropped or restarted, the packets are sent in the      *)
(* order of the encoder and once, and a frame has no holes                 *)
(* (gstreamstreamer.cpp:499, 613, 622-659; wb_link.cpp:1260-1327).         *)
(***************************************************************************)
InOrder ==
    \A i \in DOMAIN Places : Places[i] # <<>> =>
        /\ \A j \in 1 .. Len(Places[i]) - 1 :
               Places[i][j + 1].id = Places[i][j].id + 1
        /\ lastSent < Head(Places[i]).id
        /\ \A k \in 1 .. i - 1 :
               Places[k] # <<>> => Last(Places[k]).id < Head(Places[i]).id

(***************************************************************************)
(* A slice whose packets have all been pulled is with the transmitter:     *)
(* "only need to listen for the FU-E (End bit) fragment(s) to properly     *)
(* forward a fragmented frame" (rtp.h:37-38), unless the pipeline is about *)
(* to be restarted. Cutting must not lose its place at a restart, at the   *)
(* limit (gstreamstreamer.cpp:649) or when the codec changes.              *)
(***************************************************************************)
NothingWaits ==
    (todo = <<>> /\ codec = pipe /\ ~m_request_restart)
        => m_frame_fragments = <<>>

MarkedIdr(f) ==
    (Len(f.fragments) <= FragmentLimit
       /\ \E p \in Range(f.fragments) : p.kind = "start" /\ p.idr) => f.idr

(***************************************************************************)
(* "Set to true if this frame is an IDR frame" (video_frame.h:54): a frame *)
(* of an h264 pipeline with an IDR slice has the mark that lets it push    *)
(* out what is queued, also when the codec is changed and the pipeline     *)
(* restarted while it is put together (gstreamstreamer.cpp:622-659). No    *)
(* frame of an h265 pipeline has it (rtp_eof_helper.cpp:136).              *)
(***************************************************************************)
IdrMarkedH264 ==
    \A f \in Range(queue) : Head(f.fragments).codec = "h264" => MarkedIdr(f)

(***************************************************************************)
(* Types, and what the cutting of packets into frames keeps true           *)
(* (gstreamstreamer.cpp:613-682): see the parts above.                     *)
(***************************************************************************)
FramesInv == TypeOK /\ InOrder /\ IdrMarkedH264

PicturesOf(f) == {p.picture : p \in Range(f.fragments)}

(***************************************************************************)
(* "this frame is an IDR frame and therefore we can safely drop previous   *)
(* frame(s) without having complete corruption" (video_frame.h:54-55): a   *)
(* frame that pushes others out pushes out no part of its own picture.     *)
(* With intra refresh every frame may push others out.                     *)
(***************************************************************************)
PictureIntact ==
    [][~intraRefresh =>
       \A new \in Range(queue') \ Range(queue), old \in Range(queue) \ Range(queue') :
          PicturesOf(new) \cap PicturesOf(old) = {}]_vars

(***************************************************************************)
(* Every frame that was to be enqueued was sent, waits in the queue, or is *)
(* reported as dropped, and only once: in the counter of the statistics    *)
(* (wb_link.cpp:937), before its last reset (wb_link.cpp:1161), or by the  *)
(* call that is about to add to it. The two enqueue calls drop different   *)
(* frames and return different things (WBStreamTx.cpp:89-142); what they   *)
(* return becomes a count that is added later, while the transmitter takes *)
(* frames and the worker resets (wb_link.cpp:1281-1326).                   *)
(***************************************************************************)
DropsAreCounted ==
    handed = sent + Len(queue) + n_dropped_frames
               + m_primary_total_dropped_frames + earlier

=============================================================================
