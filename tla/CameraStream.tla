---------------------------- MODULE CameraStream ----------------------------
(***************************************************************************)
(* The cameras of an air unit (OHDVideoAir, GStreamerStream, CameraHolder):*)
(* how the bitrate the link recommends, the user's settings and the arming *)
(* state reach a running GStreamer pipeline.                               *)
(*                                                                         *)
(* Each camera has a thread that builds a pipeline from the settings, pulls*)
(* data from it, changes its bitrate where the encoder can, and builds it  *)
(* anew when asked to.  The threads of the link, of the flight controller  *)
(* and of the user do not wait for it: they make a series of stores to its *)
(* variables, and any of them may fall between two steps of the camera.    *)
(***************************************************************************)
EXTENDS Integers, Sequences

CONSTANTS
    Setups,      \* the air units to look at
    MinBitrate,  \* least bitrate of an encoder (RPi 2000, others 1000 kbit/s)
    PrimaryPerc, \* dualcam_primary_video_allocated_bandwidth_perc
    Recommended, \* what the link recommends
    UserRates,   \* bitrates and
    Formats      \*   formats (size, codec, rotation, ...) the user chooses

\* Only a primary or also a secondary camera, those whose encoder can change
\* its bitrate while running, and a bound on what link, user, flight controller
\* and cameras do.
Ids == {0, 1}
Setup == [cams : {{0}, Ids}, can_change : SUBSET Ids, max_events : Nat]

ASSUME CameraAssumption ==
    /\ Setups \subseteq Setup
    /\ MinBitrate \in {1000, 2000} /\ PrimaryPerc \in 10 .. 90
    /\ Recommended \subseteq Nat \ {0} /\ UserRates \subseteq Nat \ {0}

Off == 0          \* AIR_RECORDING_OFF
On == 1           \* AIR_RECORDING_ON
AutoArm == 2      \* AIR_RECORDING_AUTO_ARM_DISARM
NoBitrate == -1
NoPipeline == [bitrate |-> NoBitrate]

VARIABLES
    setup,      \* the air unit; never changes
    settings,   \* of each camera: bitrate (h26x_bitrate_kbits), format,
                \*   air_recording and enable_streaming
    m_curr_dynamic_bitrate_kbits,
    m_request_restart,
    m_armed_enable_air_recording,
    cam,        \* each camera's thread: its place pc, its pipeline, and
                \*   currently_applied_bitrate
    armed,      \* the flight controller's state
    recommended,\* the link's last recommendation
    space,      \* there is room to record
    m_keep_looping,
    stores,     \* what the threads of link, user and fc still have to store
    n           \* events so far

shared == <<settings, m_curr_dynamic_bitrate_kbits, m_request_restart,
            m_armed_enable_air_recording>>
world == <<armed, recommended, space, m_keep_looping, n>>
vars == <<setup, shared, cam, world, stores>>

Threads == {"link", "user", "fc"}
Cams == setup.cams
CanChange == setup.can_change

Init ==
    /\ setup \in Setups
    /\ \E r \in UserRates, f \in Formats, a \in {Off, AutoArm} :
         settings = [c \in Ids |-> [bitrate |-> r, format |-> f,
                                     air_recording |-> a, enable_streaming |-> TRUE]]
    /\ m_curr_dynamic_bitrate_kbits = [c \in Ids |-> NoBitrate]
    /\ m_request_restart = [c \in Ids |-> FALSE]
    /\ m_armed_enable_air_recording = [c \in Ids |-> FALSE]
    /\ cam = [c \in Ids |-> [pc |-> "begin", pipeline |-> NoPipeline,
                              applied |-> NoBitrate]]
    /\ armed = FALSE /\ space = TRUE /\ m_keep_looping = TRUE
    /\ recommended = NoBitrate
    /\ stores = [t \in Threads |-> <<>>]
    /\ n = 0

Event == n < setup.max_events /\ n' = n + 1

----------------------------------------------------------------------------
(* The other threads.                                                      *)

Store(c, what, value) == [c |-> c, what |-> what, value |-> value]

Begin(t, s) == stores[t] = <<>> /\ stores' = [stores EXCEPT ![t] = s]

\* OHDVideoAir::handle_change_bitrate_request: the primary camera's share,
\* and the rest for the secondary.
Share(c, kbits) ==
    LET primary == (kbits * PrimaryPerc) \div 100
    IN  IF Cams = {0} THEN kbits ELSE IF c = 0 THEN primary ELSE kbits - primary

\* GStreamerStream::handle_change_bitrate_request: "the link might recommend
\* too much / too little".
Clamped(kbits) == IF kbits < MinBitrate THEN MinBitrate ELSE kbits

\* The atomic is stored, then the setting.
BitrateStores(c, kbits) ==
    << Store(c, "dynamic", Clamped(Share(c, kbits))),
       Store(c, "bitrate", Clamped(Share(c, kbits))) >>

RecommendStores(kbits) ==
    IF Cams = {0} THEN BitrateStores(0, kbits)
    ELSE BitrateStores(0, kbits) \o BitrateStores(1, kbits)

Recommend(kbits) ==
    /\ Event
    /\ recommended' = kbits
    /\ Begin("link", RecommendStores(kbits))
    /\ UNCHANGED <<shared, cam, armed, space, m_keep_looping>>

\* "we constantly recommend a bitrate to the encoder" (wb_link.cpp:1200).
RecommendAgain ==
    /\ recommended # NoBitrate
    /\ Begin("link", RecommendStores(recommended))
    /\ UNCHANGED <<shared, cam, world>>

\* The set_ functions of CameraHolder: the setting, then persist(), whose
\* callback requests a restart.
SettingStores(c, what, value) ==
    << Store(c, what, value), Store(c, "restart", TRUE) >>

UserSets(c) ==
    /\ Event
    /\ \/ \E r \in UserRates : Begin("user", SettingStores(c, "bitrate", r))
       \/ \E f \in Formats : Begin("user", SettingStores(c, "format", f))
       \/ \E b \in BOOLEAN : Begin("user", SettingStores(c, "enable_streaming", b))
       \/ \E a \in IF space THEN {Off, On, AutoArm} ELSE {Off} :
              Begin("user", SettingStores(c, "air_recording", a))
    /\ UNCHANGED <<shared, cam, armed, recommended, space, m_keep_looping>>

FcArming ==
    /\ Event
    /\ armed' = ~armed
    /\ Begin("fc", IF Cams = {0} THEN <<Store(0, "armed", armed')>>
                   ELSE <<Store(0, "armed", armed'), Store(1, "armed", armed')>>)
    /\ UNCHANGED <<shared, cam, recommended, space, m_keep_looping>>

\* Mutant: the request for a restart is forgotten.
ArmedNoRestart(c, value) ==
    /\ IF settings[c].air_recording = AutoArm
       THEN m_armed_enable_air_recording' =
                [m_armed_enable_air_recording EXCEPT ![c] = value]
       ELSE UNCHANGED m_armed_enable_air_recording
    /\ stores' = [stores EXCEPT !["fc"] = Tail(@)]
    /\ UNCHANGED <<settings, m_curr_dynamic_bitrate_kbits, m_request_restart>>

\* Only an automatic recording takes notice.
handle_update_arming_state(c, value) ==
    /\ IF settings[c].air_recording = AutoArm
       THEN /\ m_armed_enable_air_recording' =
                   [m_armed_enable_air_recording EXCEPT ![c] = value]
            /\ stores' = [stores EXCEPT !["fc"] =
                              <<Store(c, "restart", TRUE)>> \o Tail(@)]
       ELSE /\ stores' = [stores EXCEPT !["fc"] = Tail(@)]
            /\ UNCHANGED m_armed_enable_air_recording
    /\ UNCHANGED <<settings, m_curr_dynamic_bitrate_kbits, m_request_restart>>

\* The next store of a thread.
Perform(t) ==
    /\ stores[t] # <<>>
    /\ LET s == Head(stores[t]) c == s.c IN
         \/ s.what = "armed" /\ handle_update_arming_state(c, s.value)
         \/ /\ s.what = "dynamic"
            /\ m_curr_dynamic_bitrate_kbits' =
                   [m_curr_dynamic_bitrate_kbits EXCEPT ![c] = s.value]
            /\ stores' = [stores EXCEPT ![t] = Tail(@)]
            /\ UNCHANGED <<settings, m_request_restart, m_armed_enable_air_recording>>
         \/ /\ s.what = "restart"
            /\ m_request_restart' = [m_request_restart EXCEPT ![c] = TRUE]
            /\ stores' = [stores EXCEPT ![t] = Tail(@)]
            /\ UNCHANGED <<settings, m_curr_dynamic_bitrate_kbits,
                           m_armed_enable_air_recording>>
         \/ /\ s.what \in {"bitrate", "format", "air_recording", "enable_streaming"}
            /\ settings' = [settings EXCEPT ![c][s.what] = s.value]
            /\ stores' = [stores EXCEPT ![t] = Tail(@)]
            /\ UNCHANGED <<m_curr_dynamic_bitrate_kbits, m_request_restart,
                           m_armed_enable_air_recording>>
    /\ UNCHANGED <<cam, world>>

\* The disk fills up; the program is ended.
SpaceLow ==
    /\ Event /\ space /\ space' = FALSE
    /\ UNCHANGED <<shared, cam, armed, recommended, m_keep_looping, stores>>

terminate_looping ==
    /\ Event /\ m_keep_looping /\ m_keep_looping' = FALSE
    /\ UNCHANGED <<shared, cam, armed, recommended, space, stores>>

----------------------------------------------------------------------------
(* A camera's thread.                                                      *)

others == <<world, stores>>
At(c, pc) == cam[c].pc = pc
Goto(c, pc) == cam' = [cam EXCEPT ![c].pc = pc]

\* loop_infinite
End(c) ==
    /\ At(c, "begin") /\ ~m_keep_looping
    /\ Goto(c, "ended")
    /\ UNCHANGED <<shared, others>>

\* With the streaming disabled the thread sleeps and looks again.
Streams(c) == At(c, "begin") /\ m_keep_looping /\ settings[c].enable_streaming

\* setup: the source and the encoder from one copy of the settings, ...
SetupEncoder(c) ==
    /\ Streams(c)
    /\ cam' = [cam EXCEPT ![c].pc = "record",
                          ![c].pipeline = [bitrate |-> settings[c].bitrate,
                                           format |-> settings[c].format]]
    /\ UNCHANGED <<shared, others>>

AddRecording(c) ==
    \/ settings[c].air_recording = On
    \/ settings[c].air_recording = AutoArm /\ m_armed_enable_air_recording[c]

\* ... the recording from the settings of the moment; then the pipeline is
\* started.
SetupRecording(c) ==
    /\ At(c, "record")
    /\ cam' = [cam EXCEPT ![c].pc = "started",
                          ![c].pipeline = [bitrate |-> cam[c].pipeline.bitrate,
                                           format |-> cam[c].pipeline.format,
                                           recording |-> AddRecording(c)]]
    /\ UNCHANGED <<shared, others>>

\* The bitrate taken for the one applied is read from the settings once more,
\* and stored where the link stores its recommendation.
ReadApplied(c) ==
    /\ At(c, "started")
    /\ cam' = [cam EXCEPT ![c].pc = "store", ![c].applied = settings[c].bitrate]
    /\ UNCHANGED <<shared, others>>

StoreDynamic(c) ==
    /\ At(c, "store")
    /\ m_curr_dynamic_bitrate_kbits' =
           [m_curr_dynamic_bitrate_kbits EXCEPT ![c] = cam[c].applied]
    /\ Goto(c, "bitrate")
    /\ UNCHANGED <<settings, m_request_restart, m_armed_enable_air_recording, others>>

\* The loop: until the program ends, ...
Quit(c) ==
    /\ At(c, "bitrate") /\ ~m_keep_looping
    /\ Goto(c, "stop")
    /\ UNCHANGED <<shared, others>>

\* ... a new bitrate is given to the encoder, which may fail and is tried
\* again in the next round, or needs a restart ...
NewBitrate(c) == m_curr_dynamic_bitrate_kbits[c] # cam[c].applied

ChangeBitrate(c) ==
    /\ At(c, "bitrate") /\ m_keep_looping /\ NewBitrate(c) /\ c \in CanChange
    /\ cam' = [cam EXCEPT
                 ![c].pc = "restart",
                 ![c].applied = m_curr_dynamic_bitrate_kbits[c],
                 ![c].pipeline.bitrate = m_curr_dynamic_bitrate_kbits[c]]
    /\ UNCHANGED <<shared, others>>

ChangeBitrateFails(c) ==
    /\ At(c, "bitrate") /\ m_keep_looping /\ NewBitrate(c) /\ c \in CanChange
    /\ Event
    /\ Goto(c, "restart")
    /\ UNCHANGED <<shared, armed, recommended, space, m_keep_looping, stores>>

\* Mutant: the flag is not raised.
BitrateNeedsNothing(c) ==
    /\ At(c, "bitrate") /\ m_keep_looping /\ NewBitrate(c) /\ c \notin CanChange
    /\ Goto(c, "restart")
    /\ UNCHANGED <<shared, others>>

BitrateNeedsRestart(c) ==
    /\ At(c, "bitrate") /\ m_keep_looping /\ NewBitrate(c) /\ c \notin CanChange
    /\ m_request_restart' = [m_request_restart EXCEPT ![c] = TRUE]
    /\ Goto(c, "restart")
    /\ UNCHANGED <<settings, m_curr_dynamic_bitrate_kbits,
                   m_armed_enable_air_recording, others>>

BitrateUnchanged(c) ==
    /\ At(c, "bitrate") /\ m_keep_looping /\ ~NewBitrate(c)
    /\ Goto(c, "restart")
    /\ UNCHANGED <<shared, others>>

\* ... or no frame has come for ten seconds, ...
NoFrames(c) ==
    /\ At(c, "bitrate") /\ m_keep_looping /\ Event
    /\ m_request_restart' = [m_request_restart EXCEPT ![c] = TRUE]
    /\ UNCHANGED <<settings, m_curr_dynamic_bitrate_kbits, cam, armed, recommended,
                   space, m_keep_looping, m_armed_enable_air_recording, stores>>

\* ... or a restart was requested ...
Restart(c) ==
    /\ At(c, "restart") /\ m_request_restart[c]
    /\ m_request_restart' = [m_request_restart EXCEPT ![c] = FALSE]
    /\ Goto(c, "stop")
    /\ UNCHANGED <<settings, m_curr_dynamic_bitrate_kbits,
                   m_armed_enable_air_recording, others>>

\* ... and without room a recording is switched off, which needs one too.
check_remaining_space_air_recording(c) ==
    /\ At(c, "restart") /\ ~m_request_restart[c]
    /\ IF ~space /\ settings[c].air_recording # Off
       THEN /\ settings' = [settings EXCEPT ![c].air_recording = Off]
            /\ m_request_restart' = [m_request_restart EXCEPT ![c] = TRUE]
       ELSE UNCHANGED <<settings, m_request_restart>>
    /\ Goto(c, "bitrate")
    /\ UNCHANGED <<m_curr_dynamic_bitrate_kbits, m_armed_enable_air_recording, others>>

\* stop and cleanup_pipe
cleanup_pipe(c) ==
    /\ At(c, "stop")
    /\ cam' = [cam EXCEPT ![c].pc = "begin", ![c].pipeline = NoPipeline,
                          ![c].applied = NoBitrate]
    /\ UNCHANGED <<shared, others>>

Camera(c) ==
    \/ End(c) \/ SetupEncoder(c) \/ SetupRecording(c) \/ ReadApplied(c)
    \/ StoreDynamic(c) \/ Quit(c) \/ ChangeBitrate(c) \/ BitrateNeedsRestart(c)
    \/ BitrateUnchanged(c) \/ Restart(c)
    \/ check_remaining_space_air_recording(c) \/ cleanup_pipe(c)

Next ==
    /\ \/ \E kbits \in Recommended : Recommend(kbits)
       \/ RecommendAgain
       \/ \E t \in Threads : Perform(t)
       \/ FcArming \/ SpaceLow \/ terminate_looping
       \/ \E c \in Cams : UserSets(c) \/ Camera(c) \/ ChangeBitrateFails(c) \/ NoFrames(c)
    /\ UNCHANGED setup

\* The cameras' threads run and threads finish what they began; the link
\* recommends in every round of its worker.
Fairness ==
    /\ \A c \in Ids : WF_vars(c \in Cams /\ Camera(c) /\ UNCHANGED setup)
    /\ \A t \in Threads : WF_vars(Perform(t) /\ UNCHANGED setup)
    /\ WF_vars(RecommendAgain /\ UNCHANGED setup)

Spec == Init /\ [][Next]_vars /\ Fairness

----------------------------------------------------------------------------
(* Properties.                                                             *)

Runs(c) == cam[c].pc \in {"bitrate", "restart"}

Wanted(c) == c \in Cams /\ m_keep_looping /\ settings[c].enable_streaming

\* There are no more events.
Calm == <>[][FALSE]_n

\* No change is lost between threads that only raise a flag: once user,
\* flight controller and disk are calm, a camera that is to stream runs a
\* pipeline with the user's format, and one that records exactly if the
\* setting and the flag of the last arming say so; one that is not to stream
\* has none; and a thread whose program ends can be joined, whatever it was
\* doing (gstreamstreamer.cpp:59-70, 90-97, 423-436, 450-462, 524, 564;
\* camera_holder.cpp:303-324).
PipelineFollows ==
    \A c \in Ids :
        /\ Calm /\ <>[](Wanted(c)) =>
               <>[](/\ Runs(c)
                    /\ cam[c].pipeline.format = settings[c].format
                    /\ cam[c].pipeline.recording = AddRecording(c))
        /\ Calm /\ <>[](~settings[c].enable_streaming) =>
               <>[](cam[c].pipeline = NoPipeline)
        /\ (c \in Cams /\ ~m_keep_looping) ~> (cam[c].pc = "ended")

\* Every recommendation reaches the variable the thread works with: the link
\* repeats itself, so that one that is overwritten by a camera just starting
\* is not lost for good (gstreamstreamer.cpp:501-503, 533-549).
RecommendationArrives ==
    \A c \in Ids :
        Calm /\ <>[](Wanted(c) /\ recommended # NoBitrate) =>
            <>[](Runs(c) /\ cam[c].applied = Clamped(Share(c, recommended)))

=============================================================================
