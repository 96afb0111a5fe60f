------------------------------- MODULE WBLink -------------------------------
(***************************************************************************)
(* How an air and a ground unit stay on one channel.                       *)
(*                                                                         *)
(* Only the air unit knows where the link is: it broadcasts its frequency  *)
(* and channel width in management frames (ManagementAir), announces a new *)
(* frequency for two seconds before it goes there, and never waits for an  *)
(* answer.  The ground's receive thread notes what the frames say          *)
(* (ManagementGround) in two atomics, one store after the other, and its   *)
(* worker thread (WBLink::loop_do_work) follows them - after the one work  *)
(* item a user may have queued: a change of frequency, a scan for an air   *)
(* unit, an analysis of the channels.  Either unit may be restarted at any *)
(* point and comes back with what it had written to its settings.          *)
(***************************************************************************)
EXTENDS Integers, Sequences, SequencesExt, Functions

CONSTANTS
    Channels,         \* the frequencies a scan visits, in order
    Widths,           \* the channel widths the air unit's card supports
    MaxRequests,      \* bound on the requests the two units accept
    MaxFaults         \* bound on restarts and on commands to a card that
                      \* fail, together

Freqs == Range(Channels)
Tuning == [freq : Freqs, width : Widths]

ASSUME LinkAssumption ==
    /\ Channels \in Seq(Int) /\ Channels # <<>>
    /\ \A f \in Freqs : f > 100
    /\ Widths \subseteq {10, 20, 40} /\ Widths # {}
    /\ {MaxRequests, MaxFaults} \subseteq Nat

VARIABLES
    air,       \* the air unit: settings, mgmt (what it announces), card,
               \* m_air_close_video_in, its work item, the worker's place pc
               \* and res, whether the last command to the card succeeded
    gnd,       \* the ground's settings (frequency), card, m_gnd_curr_rx_*,
               \* its work item and res
    reported,  \* m_air_reported_curr_frequency and _channel_width
    rx,        \* the management packet the receive thread is working on
    wt,        \* the ground worker: its place pc, target of the command to
               \* the card, place after it, channels left to scan, value read
               \* and scan result
    n          \* requests and faults so far

vars == <<air, gnd, reported, rx, wt, n>>

None == [kind |-> "none"]
Unknown == -1
\* ScanResult with success = false.
NotFound == [freq |-> 0, width |-> 0]

\* A unit after its constructor: on the channel its settings name.
AirStarted(settings) ==
    [settings |-> settings, mgmt |-> settings, card |-> settings,
     m_air_close_video_in |-> FALSE, item |-> None, pc |-> "loop", res |-> TRUE]

GndStarted(freq) ==
    [freq |-> freq, card |-> [freq |-> freq, width |-> 40],
     curr |-> [freq |-> freq, width |-> 40], item |-> None, res |-> TRUE]

WorkerStarted ==
    [pc |-> "loop", target |-> NotFound, then |-> "loop", left |-> <<>>,
     seen |-> Unknown, result |-> NotFound]

NothingReported == [freq |-> Unknown, width |-> Unknown]

Init ==
    /\ \E s \in Tuning : air = AirStarted(s)
    /\ \E f \in Freqs : gnd = GndStarted(f)
    /\ reported = NothingReported
    /\ rx = None
    /\ wt = WorkerStarted
    /\ n = [requests |-> 0, faults |-> 0]

----------------------------------------------------------------------------
(* Requests.  try_schedule_work_item takes one only while the queue is     *)
(* empty; an item stays in the queue until it has been executed.           *)

AirItems == [kind : {"SET_FREQ"}, freq : Freqs]
                \cup [kind : {"SET_CHWIDTH"}, width : Widths]
GndItems == [kind : {"SET_FREQ"}, freq : Freqs]
                \cup [kind : {"SCAN_CHANNELS", "ANALYZE_CHANNELS"}]

AirRequest(item) ==
    /\ air.item = None /\ n.requests < MaxRequests
    /\ air' = [air EXCEPT !.item = item]
    /\ n' = [n EXCEPT !.requests = @ + 1]
    /\ UNCHANGED <<gnd, reported, rx, wt>>

GndRequest(item) ==
    /\ gnd.item = None /\ n.requests < MaxRequests
    /\ gnd' = [gnd EXCEPT !.item = item]
    /\ n' = [n EXCEPT !.requests = @ + 1]
    /\ UNCHANGED <<air, reported, rx, wt>>

\* A command to the card takes effect or fails; nobody tries it again.
Command(ok) ==
    /\ ok \/ n.faults < MaxFaults
    /\ n' = [n EXCEPT !.faults = IF ok THEN @ ELSE @ + 1]

----------------------------------------------------------------------------
(* The air unit's worker.                                                  *)

\* SET_FREQ: save and announce the new frequency, without video, for 2 s.
AirSetFrequency ==
    /\ air.pc = "loop" /\ air.item.kind = "SET_FREQ"
    /\ air' = [air EXCEPT !.settings.freq = air.item.freq,
                          !.m_air_close_video_in = TRUE,
                          !.mgmt.freq = air.item.freq,
                          !.pc = "announce"]
    /\ UNCHANGED <<gnd, reported, rx, wt, n>>

\* SET_CHWIDTH: the same for the width, for 100 ms.
AirSetChannelWidth ==
    /\ air.pc = "loop" /\ air.item.kind = "SET_CHWIDTH"
    /\ air' = [air EXCEPT !.settings.width = air.item.width,
                          !.m_air_close_video_in = TRUE,
                          !.mgmt.width = air.item.width,
                          !.pc = "announce"]
    /\ UNCHANGED <<gnd, reported, rx, wt, n>>

\* The pause is over: go to the channel in the settings, let video in again
\* and take the item from the queue.
AirApply ==
    /\ air.pc = "announce"
    /\ \E ok \in BOOLEAN :
        /\ Command(ok)
        /\ air' = [air EXCEPT !.card = IF ok THEN air.settings ELSE @,
                              !.m_air_close_video_in = FALSE,
                              !.item = None, !.pc = "loop", !.res = ok]
    /\ UNCHANGED <<gnd, reported, rx, wt>>

----------------------------------------------------------------------------
(* The ground's receive thread.                                            *)

\* The ground listens at 40 MHz or 20 MHz and gets management frames, which
\* are sent at 20 MHz; only 10 MHz excludes the others.
CanHear ==
    /\ gnd.card.freq = air.card.freq
    /\ (gnd.card.width = 10) <=> (air.card.width = 10)

\* A management frame of the air unit reaches the ground (others are lost).
Hear ==
    /\ rx = None /\ CanHear
    /\ rx' = [kind |-> "width", packet |-> air.mgmt]
    /\ UNCHANGED <<air, gnd, reported, wt, n>>

\* Mutant: any width is stored.
StoreWidthUnchecked ==
    /\ rx.kind = "width"
    /\ reported' = [reported EXCEPT !.width = rx.packet.width]
    /\ rx' = [rx EXCEPT !.kind = "frequency"]
    /\ UNCHANGED <<air, gnd, wt, n>>

\* on_new_management_packet: check and store the width ...
StoreWidth ==
    /\ rx.kind = "width"
    /\ IF rx.packet.width \in {20, 40}
       THEN /\ reported' = [reported EXCEPT !.width = rx.packet.width]
            /\ rx' = [rx EXCEPT !.kind = "frequency"]
       ELSE /\ UNCHANGED reported
            /\ rx' = None
    /\ UNCHANGED <<air, gnd, wt, n>>

\* ... then the frequency.
StoreFrequency ==
    /\ rx.kind = "frequency"
    /\ reported' = [reported EXCEPT !.freq = rx.packet.freq]
    /\ rx' = None
    /\ UNCHANGED <<air, gnd, wt, n>>

----------------------------------------------------------------------------
(* The ground's worker.                                                    *)

\* apply_frequency_and_channel_width begins; the command follows in GndTune.
Apply(w, target, then) ==
    [w EXCEPT !.pc = "tune", !.target = target, !.then = then]

\* apply_frequency_and_channel_width_from_settings of ground state g.
FromSettings(g) == [freq |-> g.freq, width |-> g.curr.width]

\* The command to the cards; then the caller goes on.  A work item that ends
\* with it is taken from the queue.
GndTune ==
    /\ wt.pc = "tune"
    /\ \E ok \in BOOLEAN :
        /\ Command(ok)
        /\ gnd' = [gnd EXCEPT !.card = IF ok THEN wt.target ELSE @,
                              !.res = ok,
                              !.item = IF wt.then = "manage" THEN None ELSE @]
    /\ wt' = [wt EXCEPT !.pc = wt.then]
    /\ UNCHANGED <<air, reported, rx>>

\* The top of loop_do_work: execute the item, if there is one.
GndLoop ==
    /\ wt.pc = "loop" /\ gnd.item = None
    /\ wt' = [wt EXCEPT !.pc = "manage"]
    /\ UNCHANGED <<air, gnd, reported, rx, n>>

GndSetFrequency ==
    /\ wt.pc = "loop" /\ gnd.item.kind = "SET_FREQ"
    /\ gnd' = [gnd EXCEPT !.freq = gnd.item.freq]
    /\ wt' = Apply(wt, FromSettings(gnd'), "manage")
    /\ UNCHANGED <<air, reported, rx, n>>

\* Every channel at 40 MHz and at 10 MHz ...
ScanList ==
    [i \in 1 .. 2 * Len(Channels) |->
        [freq |-> Channels[(i + 1) \div 2],
         width |-> IF i % 2 = 1 THEN 40 ELSE 10]]
\* ... or at 40 MHz only.
AnalyzeList ==
    [i \in 1 .. Len(Channels) |-> [freq |-> Channels[i], width |-> 40]]

GndStartScan ==
    /\ wt.pc = "loop"
    /\ gnd.item.kind \in {"SCAN_CHANNELS", "ANALYZE_CHANNELS"}
    /\ wt' = [wt EXCEPT !.pc = "next", !.result = NotFound,
                        !.left = IF gnd.item.kind = "SCAN_CHANNELS"
                                 THEN ScanList ELSE AnalyzeList]
    /\ UNCHANGED <<air, gnd, reported, rx, n>>

\* Mutant: the loop tries the same channel for ever.
GndScanNextAgain ==
    /\ wt.pc = "next" /\ wt.left # <<>> /\ wt.result = NotFound
    /\ wt' = Apply(wt, Head(wt.left), "listen")
    /\ UNCHANGED <<air, gnd, reported, rx, n>>

\* perform_channel_scan and perform_channel_analyze: the next channel, unless
\* an air unit was found.
GndScanNext ==
    /\ wt.pc = "next" /\ wt.left # <<>> /\ wt.result = NotFound
    /\ wt' = [Apply(wt, Head(wt.left), "listen") EXCEPT !.left = Tail(@)]
    /\ UNCHANGED <<air, gnd, reported, rx, n>>

\* A scan skips a channel it cannot go to and forgets what was reported
\* before; an analysis only counts packets.
GndListen ==
    /\ wt.pc = "listen"
    /\ IF gnd.item.kind = "SCAN_CHANNELS" /\ gnd.res
       THEN /\ reported' = [reported EXCEPT !.freq = Unknown]
            /\ wt' = [wt EXCEPT !.pc = "forget"]
       ELSE /\ UNCHANGED reported
            /\ wt' = [wt EXCEPT !.pc = "next"]
    /\ UNCHANGED <<air, gnd, rx, n>>

GndForget ==
    /\ wt.pc = "forget"
    /\ reported' = [reported EXCEPT !.width = Unknown]
    /\ wt' = [wt EXCEPT !.pc = "read"]
    /\ UNCHANGED <<air, gnd, rx, n>>

\* After two seconds, or up to five more while packets of the air unit come
\* in: read the reported frequency, then the width.
GndScanRead ==
    /\ wt.pc = "read"
    /\ wt' = [wt EXCEPT !.seen = reported.freq, !.pc = "evaluate"]
    /\ UNCHANGED <<air, gnd, reported, rx, n>>

\* (n_valid_packets > 0 once a frame was reported since the reset.)
GndEvaluate ==
    /\ wt.pc = "evaluate"
    /\ wt' = [wt EXCEPT !.pc = "next",
                        !.result = IF /\ wt.seen = wt.target.freq
                                      /\ reported.width \in {10, 20, 40}
                                   THEN [freq |-> wt.seen,
                                         width |-> reported.width]
                                   ELSE @,
                        !.seen = Unknown]
    /\ UNCHANGED <<air, gnd, reported, rx, n>>

\* Mutant: a scan without result leaves the card where it is.
GndScanDoneNoRestore ==
    /\ wt.pc = "next" /\ (wt.left = <<>> \/ wt.result # NotFound)
    /\ IF wt.result = NotFound
       THEN /\ gnd' = [gnd EXCEPT !.item = None]
            /\ wt' = [wt EXCEPT !.pc = "manage"]
       ELSE /\ gnd' = [gnd EXCEPT !.freq = wt.result.freq,
                                  !.curr.width = wt.result.width]
            /\ wt' = [Apply(wt, FromSettings(gnd'), "manage") EXCEPT
                          !.left = <<>>, !.result = NotFound]
    /\ UNCHANGED <<air, reported, rx, n>>

\* The end of a scan: adopt what was found, or return to the settings.
GndScanDone ==
    /\ wt.pc = "next" /\ (wt.left = <<>> \/ wt.result # NotFound)
    /\ gnd' = IF wt.result = NotFound THEN gnd
              ELSE [gnd EXCEPT !.freq = wt.result.freq,
                               !.curr.width = wt.result.width]
    /\ wt' = [Apply(wt, FromSettings(gnd'), "manage") EXCEPT
                  !.left = <<>>, !.result = NotFound]
    /\ UNCHANGED <<air, reported, rx, n>>

\* wt_gnd_perform_channel_management: read the reported width, then the
\* frequency, and follow the air unit if either is new.
GndManage ==
    /\ wt.pc = "manage"
    /\ wt' = [wt EXCEPT !.seen = reported.width, !.pc = "follow"]
    /\ UNCHANGED <<air, gnd, reported, rx, n>>

\* Mutants: only one of the two values is compared.
IsNewWidth(width, freq) ==
    width \in {20, 40} /\ freq > 100 /\ gnd.curr.width # width
IsNewFrequency(width, freq) ==
    width \in {20, 40} /\ freq > 100 /\ gnd.curr.freq # freq

IsNews(width, freq) ==
    /\ width \in {20, 40} /\ freq > 100
    /\ gnd.curr.width # width \/ gnd.curr.freq # freq

GndFollow ==
    /\ wt.pc = "follow"
    /\ LET r == [freq |-> reported.freq, width |-> wt.seen]
           rest == [wt EXCEPT !.seen = Unknown]
       IN  IF IsNews(r.width, r.freq)
           THEN /\ gnd' = [gnd EXCEPT !.curr = r, !.freq = r.freq]
                /\ wt' = Apply(rest, r, "loop")
           ELSE /\ UNCHANGED gnd
                /\ wt' = [rest EXCEPT !.pc = "loop"]
    /\ UNCHANGED <<air, reported, rx, n>>

----------------------------------------------------------------------------
(* Restarts: what was persisted is all that is left.                       *)

Restarts ==
    /\ n.faults < MaxFaults
    /\ n' = [n EXCEPT !.faults = @ + 1]

AirRestart ==
    /\ Restarts
    /\ air' = AirStarted(air.settings)
    /\ UNCHANGED <<gnd, reported, rx, wt>>

GndRestart ==
    /\ Restarts
    /\ gnd' = GndStarted(gnd.freq)
    /\ reported' = NothingReported
    /\ rx' = None
    /\ wt' = WorkerStarted
    /\ UNCHANGED air

AirWorker == AirSetFrequency \/ AirSetChannelWidth \/ AirApply
RxThread == StoreWidth \/ StoreFrequency
GndWorker ==
    \/ GndTune \/ GndLoop \/ GndSetFrequency \/ GndStartScan \/ GndScanNext
    \/ GndListen \/ GndForget \/ GndScanRead \/ GndEvaluate \/ GndScanDone
    \/ GndManage \/ GndFollow

Next ==
    \/ \E item \in AirItems : AirRequest(item)
    \/ \E item \in GndItems : GndRequest(item)
    \/ AirWorker
    \/ Hear \/ RxThread
    \/ GndWorker
    \/ AirRestart \/ GndRestart

\* The threads go on, and of the frames sent over and over while the ground
\* is where it can hear them one gets through.
Fairness ==
    /\ WF_vars(AirWorker) /\ WF_vars(GndWorker)
    /\ WF_vars(Hear) /\ WF_vars(RxThread)

Spec == Init /\ [][Next]_vars /\ Fairness

----------------------------------------------------------------------------
(* Properties.                                                             *)

\* Types: the settings, announcements and cards hold channels of the
\* program; what the ground has been told is one of the widths it follows.
TypeOK ==
    /\ {air.settings, air.mgmt, air.card} \subseteq Tuning
    /\ air.item \in AirItems \cup {None} /\ air.pc \in {"loop", "announce"}
    /\ {air.m_air_close_video_in, air.res, gnd.res} \subseteq BOOLEAN
    /\ {gnd.freq, gnd.card.freq, gnd.curr.freq} \subseteq Freqs
    /\ gnd.card.width \in {10, 20, 40} /\ gnd.curr.width \in {20, 40}
    /\ gnd.item \in GndItems \cup {None}
    /\ reported.freq \in Freqs \cup {Unknown}
    /\ reported.width \in {20, 40, Unknown}
    /\ rx.kind \in {"none", "width", "frequency"}
    /\ rx # None => rx.packet \in Tuning

\* A worker that is not executing anything has left its unit where the
\* settings and, for the air unit, the announcements say, whatever it did
\* before (a scan that found nothing, an analysis, a restart in the middle of
\* a change), unless a command to the card failed; and video flows.
IdleIsTuned ==
    /\ air.pc = "loop" =>
        /\ ~air.m_air_close_video_in
        /\ air.mgmt = air.settings
        /\ air.res => air.card = air.settings
    /\ wt.pc \in {"loop", "manage", "follow"} /\ gnd.res =>
        gnd.card = FromSettings(gnd)

\* The ground has noted what the air unit announces, is not busy with a
\* request of its own user and was not sent elsewhere by him.
Heard ==
    /\ reported = air.mgmt
    /\ gnd.item = None /\ gnd.curr.freq = gnd.freq /\ gnd.res

\* An announcement the ground got is followed, though its two values are
\* stored and read one after the other, between other work.
AnnouncedIsFollowed == Heard ~> (gnd.card = air.mgmt \/ ~Heard)

InSync ==
    /\ gnd.freq = air.card.freq
    /\ gnd.card = air.card /\ gnd.curr = air.card

\* Once nobody changes anything any more, two units that can hear each other
\* end up, for good, on one channel with the width of the air unit: no stale
\* value makes them go back and forth, or stops the ground half way.
Settles ==
    \/ <>[]InSync
    \/ <>[]~CanHear
    \/ <>[]~(air.res /\ gnd.res)

\* A request that was accepted is executed to the end (or forgotten in a
\* restart), so that the next one can be accepted.
AcceptedIsDone ==
    /\ (air.item # None) ~> (air.item = None)
    /\ (gnd.item # None) ~> (gnd.item = None)

=============================================================================
