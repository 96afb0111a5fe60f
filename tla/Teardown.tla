------------------------------ MODULE Teardown ------------------------------
(***************************************************************************)
(* The end of the two programs: what main destroys in which order          *)
(* (wb_link_tx_impv.cpp, wb_link_rx_impv.cpp, ~OHDVideoAir,                 *)
(* ~OHDVideoGround, ~WBLink and the destructors it runs), while the         *)
(* threads of the link, its streams and the cameras go on until each is     *)
(* joined. The question is who is called after its object is gone.          *)
(*                                                                         *)
(* The telemetry module, which would call the arming, RC and settings      *)
(* callbacks, is not part of the repository; its callbacks appear only as  *)
(* registrations that must not outlive their owner.                        *)
(***************************************************************************)
EXTENDS Naturals, Sequences

VARIABLES
  Ground,        \* the receiving program (else the transmitting one); fixed
  main,          \* the step of Shutdown main is at, 0 before the end
  at,            \* where each thread is
  port,          \* radio port of the packet in the receive thread's hands
  running,       \* threads whose run flag is set
  queued,        \* threaded streams with a packet in their queue
  handlers,      \* m_rx_handlers: radio ports with a handler
  registered,    \* callbacks that are set
  alive,         \* objects not yet destroyed
  dangling,      \* objects and callbacks used after their end
  raced          \* handlers erased from the map while it was being searched

vars == <<Ground, main, at, port, running, queued, handlers, registered, alive,
          dangling, raced>>

-----------------------------------------------------------------------------
\* The receiving streams with a thread of their own (enable_threading); the
\* video streams decode and forward in the receive thread.
ThreadedStreams == {"tele"} \cup (IF Ground THEN {"audio"} ELSE {})

Streams == ThreadedStreams \cup (IF Ground THEN {"video_rx"} ELSE {"video_tx"})

\* Radio ports with a handler: the receiving streams and the management frames.
Ports == ThreadedStreams \cup {"mgmt"} \cup (IF Ground THEN {"video_rx"} ELSE {})

Threads == {"recv", "worker", "mgmt_tx"} \cup ThreadedStreams
           \cup (IF Ground THEN {} ELSE {"camera"})

\* video is OHDVideoAir or OHDVideoGround.
Objects == {"video", "link", "mgmt", "txrx"} \cup Streams

\* The callables of LinkActionHandler.
Callables == {"scan", "analyze", "supported"} \cup (IF Ground THEN {} ELSE {"bitrate"})

Callbacks == Callables \cup {"arm_link"}
             \cup (IF Ground THEN {"video_data", "audio_data"} ELSE {"arm_video", "rc"})

Owner(cb) == IF cb \in {"bitrate", "arm_video", "video_data", "audio_data"}
             THEN "video" ELSE "link"

-----------------------------------------------------------------------------
Do(op, what) == <<[op |-> op, what |-> what]>>
JoinOf(thread) == Do("stop", thread) \o Do("join", thread)

\* Both programs do this twice, with a second's sleep after each.
StopCommunication == Do("disable", "all") \o Do("sleep", "1s")

\* ~OHDVideoAir, ~OHDVideoGround
VideoDestructor ==
  IF Ground
  THEN Do("unset", "video_data") \o Do("unset", "audio_data") \o Do("destroy", "video")
  ELSE Do("unset", "arm_video") \o Do("unset", "bitrate") \o JoinOf("camera")
       \o Do("destroy", "video")

\* ~ManagementAir, ~ManagementGround
ManagementDestructor ==
  Do("erase", "mgmt") \o JoinOf("mgmt_tx") \o Do("destroy", "mgmt")

\* ~WBStreamRx; a stream without a thread has none to join.
StreamDestructor(s) ==
  Do("erase", s) \o (IF s \in ThreadedStreams THEN JoinOf(s) ELSE <<>>) \o Do("destroy", s)

\* Mutant: the receive thread is stopped last.
ReceivesToTheEnd ==
  JoinOf("worker") \o ManagementDestructor
  \o Do("unset", "rc") \o Do("unset", "arm_link") \o Do("unset", "scan") \o Do("unset", "analyze")
  \o StreamDestructor("tele")
  \o (IF Ground THEN StreamDestructor("video_rx") \o StreamDestructor("audio")
      ELSE Do("destroy", "video_tx"))
  \o JoinOf("recv") \o Do("destroy", "txrx") \o Do("destroy", "link")

\* ~WBLink; the senders of the air unit stand as one object, their threads
\* are WBStreamTx's.
LinkDestructor ==
  JoinOf("worker") \o ManagementDestructor
  \o Do("unset", "rc") \o Do("unset", "arm_link") \o Do("unset", "scan") \o Do("unset", "analyze")
  \o JoinOf("recv")
  \o StreamDestructor("tele")
  \o (IF Ground THEN StreamDestructor("video_rx") \o StreamDestructor("audio")
      ELSE Do("destroy", "video_tx"))
  \o Do("destroy", "txrx") \o Do("destroy", "link")

\* main after its loop; ~OHDInterface destroys the link and nothing else here.
Shutdown ==
  StopCommunication \o StopCommunication \o VideoDestructor \o LinkDestructor

-----------------------------------------------------------------------------
Init ==
  /\ Ground \in BOOLEAN
  /\ main = 0
  /\ at = [t \in Threads |-> "loop"]
  /\ port = "mgmt"
  /\ running = Threads
  /\ queued = {}
  /\ handlers = Ports
  /\ registered = Callbacks
  /\ alive = Objects
  /\ dangling = {}
  /\ raced = {}

\* A thread uses an object, or calls through a callback.
Uses(things) == dangling' = dangling \cup (things \ (alive \cup registered))

Goto(t, l) == at' = [at EXCEPT ![t] = l]

-----------------------------------------------------------------------------
\* A signal, or TerminateHelper: the loop of main ends.
Quit == main = 0 /\ main' = 1
        /\ UNCHANGED <<at, port, running, queued, handlers, registered, alive, dangling, raced>>

Step == IF main \in 1..Len(Shutdown) THEN Shutdown[main] ELSE [op |-> "none", what |-> "none"]

\* disable_all_callables (remove_all is ExternalDevices')
Disable ==
  /\ Step.op = "disable"
  /\ registered' = registered \ Callables
  /\ UNCHANGED <<at, port, running, queued, handlers, alive, dangling, raced>>

\* "dirty, wait a bit to make sure none of those action(s) are called anymore":
\* a recommendation that has begun ends within the second.
Sleep ==
  /\ Step.op = "sleep"
  /\ at["worker"] # "deliver"
  /\ UNCHANGED <<at, port, running, queued, handlers, registered, alive, dangling, raced>>

Unset ==
  /\ Step.op = "unset"
  /\ registered' = registered \ {Step.what}
  /\ UNCHANGED <<at, port, running, queued, handlers, alive, dangling, raced>>

\* rx_unregister_stream_handler: no lock protects the map.
Erase ==
  /\ Step.op = "erase"
  /\ handlers' = handlers \ {Step.what}
  /\ raced' = IF at["recv"] = "find" THEN raced \cup {Step.what} ELSE raced
  /\ UNCHANGED <<at, port, running, queued, registered, alive, dangling>>

\* Mutant: the thread is joined with its flag still set.
StopForgotten ==
  /\ Step.op = "stop"
  /\ running' = IF Step.what = "tele" THEN running ELSE running \ {Step.what}
  /\ UNCHANGED <<at, port, queued, handlers, registered, alive, dangling, raced>>

Stop ==
  /\ Step.op = "stop"
  /\ running' = running \ {Step.what}
  /\ UNCHANGED <<at, port, queued, handlers, registered, alive, dangling, raced>>

Join ==
  /\ Step.op = "join"
  /\ at[Step.what] = "ended"
  /\ UNCHANGED <<at, port, running, queued, handlers, registered, alive, dangling, raced>>

Destroy ==
  /\ Step.op = "destroy"
  /\ alive' = alive \ {Step.what}
  /\ UNCHANGED <<at, port, running, queued, handlers, registered, dangling, raced>>

MainStep ==
  /\ Disable \/ Sleep \/ Unset \/ Erase \/ Stop \/ Join \/ Destroy
  /\ main' = main + 1

-----------------------------------------------------------------------------
\* WBTxRx::loop_receive_packets gets a packet of a stream and decrypts it.
RxPacket(p) ==
  /\ at["recv"] = "loop"
  /\ Goto("recv", "find")
  /\ port' = p
  /\ Uses({"txrx"})
  /\ UNCHANGED <<main, running, queued, handlers, registered, alive, raced>>

\* on_valid_data_packet finds the handler and keeps a reference to it.
RxFind ==
  /\ at["recv"] = "find"
  /\ Goto("recv", IF port \in handlers THEN "call" ELSE "loop")
  /\ UNCHANGED <<main, port, running, queued, handlers, registered, alive, dangling, raced>>

\* The handler's callback: a threaded stream queues the packet, the video
\* stream of the ground unit decodes it and copies the link's callback,
\* the management object reads it.
RxCall ==
  /\ at["recv"] = "call"
  /\ dangling' = dangling \cup ({port} \ (handlers \cap alive))
  /\ queued' = IF port \in ThreadedStreams THEN queued \cup {port} ELSE queued
  /\ Goto("recv", IF port = "video_rx" /\ "video_data" \in registered THEN "deliver" ELSE "loop")
  /\ UNCHANGED <<main, port, running, handlers, registered, alive, raced>>

\* The copy of the callback is called.
RxDeliver ==
  /\ at["recv"] = "deliver"
  /\ Uses({"video", "video_rx"})
  /\ Goto("recv", "loop")
  /\ UNCHANGED <<main, port, running, queued, handlers, registered, alive, raced>>

\* WBStreamRx::loop_process_data takes a packet; the ground unit's audio goes
\* on to m_audio_data_rx_cb if that is set, which is called without a copy.
StreamTakes(s) ==
  /\ at[s] = "loop" /\ s \in queued
  /\ queued' = queued \ {s}
  /\ Uses({s, "link"})
  /\ Goto(s, IF s = "audio" /\ "audio_data" \in registered THEN "deliver" ELSE "loop")
  /\ UNCHANGED <<main, port, running, handlers, registered, alive, raced>>

StreamDelivers(s) ==
  /\ at[s] = "deliver"
  /\ Uses({s, "audio_data", "video"})
  /\ Goto(s, "loop")
  /\ UNCHANGED <<main, port, running, queued, handlers, registered, alive, raced>>

\* One round of WBLink::loop_do_work, which uses the management object, the
\* streams and the cards, and on the air unit recommends a bitrate:
\* action_request_bitrate_change_handle copies the callback ...
WorkerRound ==
  /\ at["worker"] = "loop"
  /\ Uses({"link", "mgmt", "txrx"} \cup Streams)
  /\ Goto("worker", IF "bitrate" \in registered THEN "deliver" ELSE "loop")
  /\ UNCHANGED <<main, port, running, queued, handlers, registered, alive, raced>>

\* ... and calls the copy.
WorkerDelivers ==
  /\ at["worker"] = "deliver"
  /\ Uses({"video"})
  /\ Goto("worker", "loop")
  /\ UNCHANGED <<main, port, running, queued, handlers, registered, alive, raced>>

\* ManagementAir::loop, ManagementGround::loop: one frame.
MgmtSends ==
  /\ at["mgmt_tx"] = "loop"
  /\ Uses({"mgmt", "txrx"})
  /\ UNCHANGED <<main, at, port, running, queued, handlers, registered, alive, raced>>

\* A camera's frame goes through OHDVideoAir to the link's senders.
CameraFrame ==
  /\ ~Ground /\ at["camera"] = "loop"
  /\ Uses({"video", "link", "video_tx", "txrx"})
  /\ UNCHANGED <<main, at, port, running, queued, handlers, registered, alive, raced>>

\* A thread looks at its flag between two rounds.
End(t) ==
  /\ at[t] = "loop" /\ t \notin running
  /\ Goto(t, "ended")
  /\ UNCHANGED <<main, port, running, queued, handlers, registered, alive, dangling, raced>>

Works ==
  \/ \E p \in Ports : RxPacket(p)
  \/ RxFind \/ RxCall \/ RxDeliver
  \/ \E s \in ThreadedStreams : StreamTakes(s) \/ StreamDelivers(s)
  \/ WorkerRound \/ WorkerDelivers
  \/ MgmtSends \/ CameraFrame

Next ==
  /\ Quit \/ MainStep \/ Works \/ \E t \in Threads : End(t)
  /\ UNCHANGED Ground

\* Every thread goes on; a loop comes back to its flag however many packets,
\* frames or rounds there are (strong fairness of End).
Fairness ==
  /\ WF_vars(MainStep /\ UNCHANGED Ground)
  /\ WF_vars((RxFind \/ RxCall \/ RxDeliver) /\ UNCHANGED Ground)
  /\ WF_vars(WorkerDelivers /\ UNCHANGED Ground)
  /\ \A s \in {"tele", "audio"} :
       WF_vars(s \in ThreadedStreams /\ StreamDelivers(s) /\ UNCHANGED Ground)
  /\ \A t \in {"recv", "worker", "mgmt_tx", "tele", "audio", "camera"} :
       SF_vars(t \in Threads /\ End(t) /\ UNCHANGED Ground)

Spec == Init /\ [][Next]_vars /\ Fairness

-----------------------------------------------------------------------------
TypeOK ==
  /\ Ground \in BOOLEAN
  /\ main \in 0..Len(Shutdown) + 1
  /\ at \in [Threads -> {"loop", "find", "call", "deliver", "ended"}]
  /\ port \in Ports
  /\ running \subseteq Threads /\ queued \subseteq ThreadedStreams
  /\ handlers \subseteq Ports /\ registered \subseteq Callbacks
  /\ alive \subseteq Objects
  /\ dangling \subseteq Objects \cup Callbacks
  /\ raced \subseteq Ports

(***************************************************************************)
(* Whatever the threads do while main destroys, no thread uses the link,   *)
(* the transmitter, a stream or the air unit's OHDVideoAir after its end:  *)
(* only the management object, and on the ground OHDVideoGround and its    *)
(* audio callback, are exposed (wb_link.cpp:333-359, video_air.cpp:104,    *)
(* video_ground.cpp:69).                                                   *)
(***************************************************************************)
OnlyTheseDangle ==
  dangling \subseteq {"mgmt"} \cup (IF Ground THEN {"video", "audio_data"} ELSE {})

(***************************************************************************)
(* The handlers of the streams leave the map, which has no lock, only when *)
(* nobody searches it any more: stop_receiving comes first                 *)
(* (WBTxRx.cpp:290-292, wb_link.cpp:347-355).                              *)
(***************************************************************************)
StreamsNotRaced == raced \subseteq {"mgmt"}

(***************************************************************************)
(* No registration outlives the object it calls, wb_get_supported_channels *)
(* included, which ~WBLink leaves to disable_all_callables                 *)
(* (action_handler.h:155-160, wb_link.cpp:341-346, video_air.cpp:105-107). *)
(***************************************************************************)
NoCallbackOutlives == \A cb \in registered : Owner(cb) \in alive

(***************************************************************************)
(* Types, and what the destructors and the threads owe each other at the   *)
(* end: see the three parts (wb_link.cpp:333-359).                         *)
(***************************************************************************)
EndIsSafe == TypeOK /\ OnlyTheseDangle /\ StreamsNotRaced /\ NoCallbackOutlives

(***************************************************************************)
(* The program ends: every thread main joins has been told to stop and     *)
(* comes back to its flag, in whatever call it was.                        *)
(***************************************************************************)
ShutdownEnds == (main = 1) ~> (main = Len(Shutdown) + 1)

=============================================================================
