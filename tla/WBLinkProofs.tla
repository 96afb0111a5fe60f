---------------------------- MODULE WBLinkProofs ----------------------------
(***************************************************************************)
(* Where the two units are, for any channels and widths and any number of  *)
(* requests, restarts and failing commands.                                *)
(***************************************************************************)
EXTENDS WBLink, SequenceTheorems, TLAPS

-----------------------------------------------------------------------------
(* Types.                                                                  *)

Places == {"loop", "tune", "next", "listen", "forget", "read", "evaluate",
           "manage", "follow"}
GndTuning == [freq : Freqs, width : {10, 20, 40}]

AirType ==
    air \in [settings : Tuning, mgmt : Tuning, card : Tuning,
             m_air_close_video_in : BOOLEAN, item : AirItems \cup {None},
             pc : {"loop", "announce"}, res : BOOLEAN]

GndType ==
    gnd \in [freq : Freqs, card : GndTuning,
             curr : [freq : Freqs, width : {20, 40}],
             item : GndItems \cup {None}, res : BOOLEAN]

RxType ==
    /\ reported \in [freq : Freqs \cup {Unknown},
                     width : {20, 40, Unknown}]
    /\ rx \in {None} \cup [kind : {"width", "frequency"}, packet : Tuning]
    /\ rx.kind = "frequency" => rx.packet.width \in {20, 40}

ResultType == [freq : Freqs, width : {20, 40}] \cup {NotFound}

\* The worker's variables, and what it has read at each place.
WorkerType ==
    /\ wt \in [pc : Places, target : GndTuning \cup {NotFound},
               then : {"loop", "manage", "listen"}, left : Seq(GndTuning),
               seen : Int, result : ResultType]
    /\ wt.pc = "tune" => wt.target \in GndTuning
    /\ wt.pc = "evaluate" => wt.seen \in Freqs \cup {Unknown}
    /\ wt.pc = "follow" => wt.seen \in {20, 40, Unknown}

LinkType == AirType /\ GndType /\ RxType /\ WorkerType

\* Frequencies are numbers above 100 and widths are three numbers.
LEMMA Numbers ==
  /\ Freqs \subseteq Int /\ Unknown \notin Freqs /\ 0 \notin Freqs
  /\ \A f \in Freqs : f > 100
  /\ Widths \subseteq {10, 20, 40}
  /\ Unknown \in Int
<1>1. \A f \in Freqs : f \in Int
  BY LinkAssumption DEF Freqs, Range
<1> QED
  BY <1>1, LinkAssumption DEF Unknown

\* The lists of a scan and of an analysis are sequences of channels.
LEMMA Lists == ScanList \in Seq(GndTuning) /\ AnalyzeList \in Seq(GndTuning)
<1> DEFINE L == Len(Channels)
<1>0. L \in Nat /\ \A i \in 1 .. L : Channels[i] \in Freqs
  BY LinkAssumption DEF Freqs, Range
<1>1. \A i \in 1 .. 2 * L : (i + 1) \div 2 \in 1 .. L
  BY <1>0
<1>2. \A i \in 1 .. 2 * L : ScanList[i] \in GndTuning
  BY <1>0, <1>1 DEF ScanList, GndTuning
<1>3. ScanList \in [1 .. 2 * L -> GndTuning]
  BY <1>2 DEF ScanList
<1>4. AnalyzeList \in [1 .. L -> GndTuning]
  BY <1>0 DEF AnalyzeList, GndTuning
<1> QED
  BY <1>0, <1>3, <1>4, 2 * L \in Nat

\* The units start with the types.
LEMMA TypeInit == Init => LinkType
<1> SUFFICES ASSUME Init PROVE LinkType
  OBVIOUS
<1> USE Numbers
<1>1. AirType
  BY DEF Init, AirType, AirStarted, Tuning
<1>2. GndType
  BY DEF Init, GndType, GndStarted, GndTuning
<1>3. RxType
  BY DEF Init, RxType, NothingReported, None, Unknown
<1>4. WorkerType
  BY DEF Init, WorkerType, WorkerStarted, Places, NotFound, ResultType, Unknown
<1> QED
  BY <1>1, <1>2, <1>3, <1>4 DEF LinkType

-----------------------------------------------------------------------------
(* The inductive invariant.                                                *)

\* Where the units are, or are about to go: the air unit announces what its
\* settings say, and a command that ends a piece of the ground's work has the
\* channel of the settings as its target.
Tuned ==
    /\ air.mgmt = air.settings
    /\ air.pc = "loop" =>
        ~air.m_air_close_video_in /\ (air.res => air.card = air.settings)
    /\ wt.pc \in {"loop", "manage", "follow"} /\ gnd.res =>
        gnd.card = FromSettings(gnd)
    /\ wt.pc = "tune" /\ wt.then # "listen" => wt.target = FromSettings(gnd)

LinkInv == LinkType /\ Tuned

\* The units start on the channels of their settings.
LEMMA InvInit == Init => LinkInv
<1> SUFFICES ASSUME Init PROVE LinkInv
  OBVIOUS
<1>1. LinkType
  BY TypeInit
<1>2. Tuned
  BY DEF Init, Tuned, AirStarted, GndStarted, WorkerStarted, FromSettings
<1> QED
  BY <1>1, <1>2 DEF LinkInv

\* Requests only fill the slot of the work item.
LEMMA RequestStep ==
  ASSUME LinkInv,
         \/ \E item \in AirItems : AirRequest(item)
         \/ \E item \in GndItems : GndRequest(item)
  PROVE  LinkInv'
<1>1. CASE \E item \in AirItems : AirRequest(item)
  <2>1. PICK item \in AirItems : AirRequest(item)
    BY <1>1
  <2>2. AirType'
    BY <2>1 DEF LinkInv, LinkType, AirType, AirRequest
  <2>3. Tuned'
    BY <2>1 DEF LinkInv, LinkType, AirType, AirRequest, Tuned, FromSettings
  <2> QED
    BY <2>1, <2>2, <2>3
       DEF LinkInv, LinkType, AirRequest, GndType, RxType, WorkerType
<1>2. CASE \E item \in GndItems : GndRequest(item)
  <2>1. PICK item \in GndItems : GndRequest(item)
    BY <1>2
  <2>2. GndType'
    BY <2>1 DEF LinkInv, LinkType, GndType, GndRequest
  <2>3. Tuned'
    BY <2>1 DEF LinkInv, LinkType, GndType, GndRequest, Tuned, FromSettings
  <2> QED
    BY <2>1, <2>2, <2>3
       DEF LinkInv, LinkType, GndRequest, AirType, RxType, WorkerType
<1> QED
  BY <1>1, <1>2

\* A change of the air unit is announced from its start and applied at its end.
LEMMA AirStep ==
  ASSUME LinkInv, AirWorker
  PROVE  LinkInv'
<1> USE DEF LinkInv, LinkType
<1>1. UNCHANGED <<gnd, reported, rx, wt>>
  BY DEF AirWorker, AirSetFrequency, AirSetChannelWidth, AirApply
<1>2. CASE AirSetFrequency
  <2>1. air.item \in [kind : {"SET_FREQ"}, freq : Freqs]
    BY <1>2 DEF AirSetFrequency, AirType, AirItems, None
  <2>2. AirType'
    BY <1>2, <2>1 DEF AirSetFrequency, AirType, Tuning
  <2>3. Tuned'
    BY <1>1, <1>2, <2>1 DEF AirSetFrequency, AirType, Tuning, Tuned, FromSettings
  <2> QED
    BY <1>1, <2>2, <2>3 DEF GndType, RxType, WorkerType
<1>3. CASE AirSetChannelWidth
  <2>1. air.item \in [kind : {"SET_CHWIDTH"}, width : Widths]
    BY <1>3 DEF AirSetChannelWidth, AirType, AirItems, None
  <2>2. AirType'
    BY <1>3, <2>1 DEF AirSetChannelWidth, AirType, Tuning
  <2>3. Tuned'
    BY <1>1, <1>3, <2>1 DEF AirSetChannelWidth, AirType, Tuning, Tuned, FromSettings
  <2> QED
    BY <1>1, <2>2, <2>3 DEF GndType, RxType, WorkerType
<1>4. CASE AirApply
  <2>1. PICK ok \in BOOLEAN :
            air' = [air EXCEPT !.card = IF ok THEN air.settings ELSE @,
                               !.m_air_close_video_in = FALSE,
                               !.item = None, !.pc = "loop", !.res = ok]
    BY <1>4 DEF AirApply
  <2>2. AirType'
    BY <2>1 DEF AirType
  <2>3. Tuned'
    BY <1>1, <2>1 DEF AirType, Tuned, FromSettings
  <2> QED
    BY <1>1, <2>2, <2>3 DEF GndType, RxType, WorkerType
<1> QED
  BY <1>2, <1>3, <1>4 DEF AirWorker

\* The receive thread only touches the report.
LEMMA RxStep ==
  ASSUME LinkInv, Hear \/ RxThread
  PROVE  LinkInv'
<1> USE DEF LinkInv, LinkType
<1>1. UNCHANGED <<air, gnd, wt>>
  BY DEF Hear, RxThread, StoreWidth, StoreFrequency
<1>2. AirType' /\ GndType' /\ WorkerType' /\ Tuned'
  BY <1>1 DEF AirType, GndType, WorkerType, Tuned, FromSettings
<1>3. CASE Hear
  BY <1>2, <1>3 DEF Hear, RxType, AirType
<1>4. CASE StoreWidth
  <2>1. rx \in [kind : {"width", "frequency"}, packet : Tuning]
    BY <1>4 DEF StoreWidth, RxType, None
  <2>2. RxType'
    <3>1. CASE rx.packet.width \in {20, 40}
      BY <1>4, <2>1, <3>1 DEF StoreWidth, RxType, None
    <3>2. CASE rx.packet.width \notin {20, 40}
      BY <1>4, <3>2 DEF StoreWidth, RxType, None
    <3> QED
      BY <3>1, <3>2
  <2> QED
    BY <1>2, <2>2
<1>5. CASE StoreFrequency
  <2>1. rx \in [kind : {"width", "frequency"}, packet : Tuning]
    BY <1>5 DEF StoreFrequency, RxType, None
  <2>2. rx.packet.freq \in Freqs
    BY <2>1 DEF Tuning
  <2>3. RxType'
    BY <1>5, <2>2 DEF StoreFrequency, RxType, None
  <2> QED
    BY <1>2, <2>3
<1> QED
  BY <1>3, <1>4, <1>5 DEF RxThread

\* A command takes the ground to its target; the end of a piece of work is
\* the channel of the settings.
LEMMA TuneStep ==
  ASSUME LinkInv, GndTune
  PROVE  LinkInv'
<1> USE DEF LinkInv, LinkType
<1>1. /\ wt.pc = "tune" /\ wt.target \in GndTuning
      /\ UNCHANGED <<air, reported, rx>>
      /\ wt' = [wt EXCEPT !.pc = wt.then]
  BY DEF GndTune, WorkerType
<1>2. PICK ok \in BOOLEAN :
        gnd' = [gnd EXCEPT !.card = IF ok THEN wt.target ELSE @,
                           !.res = ok,
                           !.item = IF wt.then = "manage" THEN None ELSE @]
  BY DEF GndTune
<1>3. GndType'
  BY <1>1, <1>2 DEF GndType
<1>4. WorkerType'
  BY <1>1 DEF WorkerType, Places
<1>5. /\ gnd'.freq = gnd.freq /\ gnd'.curr = gnd.curr /\ gnd'.res = ok
      /\ ok => gnd'.card = wt.target
  BY <1>2 DEF GndType
<1>6. /\ wt'.pc = wt.then /\ wt'.pc # "tune"
      /\ wt.then # "listen" => wt.target = FromSettings(gnd)
  BY <1>1 DEF WorkerType, Tuned
<1>7. Tuned'
  BY <1>1, <1>5, <1>6 DEF Tuned, FromSettings, WorkerType
<1> QED
  BY <1>1, <1>3, <1>4, <1>7 DEF AirType, RxType

\* The steps of the worker that change neither the settings nor the card, and
\* go to a place where the ground may be anywhere, or stay idle.
LEMMA QuietStep ==
  ASSUME LinkInv,
         \/ GndLoop \/ GndStartScan \/ GndScanNext \/ GndListen \/ GndForget
         \/ GndScanRead \/ GndEvaluate \/ GndManage
  PROVE  LinkInv'
<1> USE DEF LinkInv, LinkType
<1>1. UNCHANGED <<air, gnd, rx>>
  BY DEF GndLoop, GndStartScan, GndScanNext, GndListen, GndForget, GndScanRead,
         GndEvaluate, GndManage
<1>2. AirType' /\ GndType'
  BY <1>1 DEF AirType, GndType
<1>3. CASE GndLoop
  <2>1. WorkerType' /\ Tuned'
    BY <1>1, <1>3 DEF GndLoop, WorkerType, Places, Tuned, FromSettings
  <2> QED
    BY <1>2, <1>3, <2>1 DEF GndLoop, RxType
<1>4. CASE GndStartScan
  <2>1. WorkerType' /\ Tuned'
    BY <1>1, <1>4, Lists DEF GndStartScan, WorkerType, Places, Tuned, ResultType
  <2> QED
    BY <1>2, <1>4, <2>1 DEF GndStartScan, RxType
<1>5. CASE GndScanNext
  <2>1. Head(wt.left) \in GndTuning /\ Tail(wt.left) \in Seq(GndTuning)
    BY <1>5 DEF GndScanNext, WorkerType
  <2>2. wt' = [wt EXCEPT !.pc = "tune", !.target = Head(wt.left),
                         !.then = "listen", !.left = Tail(wt.left)]
    BY <1>5 DEF GndScanNext, Apply, WorkerType
  <2>3. WorkerType'
    BY <2>1, <2>2 DEF WorkerType, Places
  <2>4. wt'.pc = "tune" /\ wt'.then = "listen"
    BY <2>2 DEF WorkerType
  <2>5. Tuned'
    BY <1>1, <2>4 DEF Tuned
  <2> QED
    BY <1>2, <1>5, <2>3, <2>5 DEF GndScanNext, RxType
<1>6. CASE GndListen
  <2>1. wt'.pc \in {"forget", "next"} /\ WorkerType'
    BY <1>6 DEF GndListen, WorkerType, Places
  <2>2. RxType'
    BY <1>6 DEF GndListen, RxType
  <2>3. Tuned'
    BY <1>1, <2>1 DEF Tuned
  <2> QED
    BY <1>2, <2>1, <2>2, <2>3
<1>7. CASE GndForget
  <2>1. wt'.pc = "read" /\ WorkerType'
    BY <1>7 DEF GndForget, WorkerType, Places
  <2>2. RxType'
    BY <1>7 DEF GndForget, RxType
  <2>3. Tuned'
    BY <1>1, <2>1 DEF Tuned
  <2> QED
    BY <1>2, <2>1, <2>2, <2>3
<1>8. CASE GndScanRead
  <2>1. reported.freq \in Freqs \cup {Unknown}
    BY DEF RxType
  <2>2. reported.freq \in Int
    BY <2>1, Numbers
  <2>3. wt'.pc = "evaluate" /\ WorkerType'
    BY <1>8, <2>1, <2>2 DEF GndScanRead, WorkerType, Places
  <2>4. Tuned'
    BY <1>1, <2>3 DEF Tuned
  <2> QED
    BY <1>2, <1>8, <2>3, <2>4 DEF GndScanRead, RxType
<1>9. CASE GndEvaluate
  <2>1. wt'.pc = "next" /\ UNCHANGED <<reported, rx>>
    BY <1>9 DEF GndEvaluate, WorkerType
  <2>2. Tuned'
    BY <1>1, <2>1 DEF Tuned
  <2>3. WorkerType'
    <3>1. CASE wt.seen = wt.target.freq /\ reported.width \in {10, 20, 40}
      <4>1. reported.width \in {20, 40}
        BY <3>1 DEF RxType, Unknown
      <4>2. wt.target.freq \in Freqs \cup {0}
        BY DEF WorkerType, GndTuning, NotFound
      <4>3. wt.seen \in Freqs
        BY <1>9, <3>1, <4>2, Numbers DEF GndEvaluate, WorkerType, Unknown
      <4>4. wt' = [wt EXCEPT !.pc = "next",
                     !.result = [freq |-> wt.seen, width |-> reported.width],
                     !.seen = Unknown]
        BY <1>9, <3>1 DEF GndEvaluate
      <4>5. [freq |-> wt.seen, width |-> reported.width] \in ResultType
        BY <4>1, <4>3 DEF ResultType
      <4> QED
        BY <4>4, <4>5, Numbers DEF WorkerType, Places
    <3>2. CASE ~(wt.seen = wt.target.freq /\ reported.width \in {10, 20, 40})
      <4>1. wt' = [wt EXCEPT !.pc = "next", !.result = wt.result,
                             !.seen = Unknown]
        BY <1>9, <3>2 DEF GndEvaluate
      <4> QED
        BY <4>1, Numbers DEF WorkerType, Places
    <3> QED
      BY <3>1, <3>2
  <2> QED
    BY <1>2, <2>1, <2>2, <2>3 DEF RxType
<1>10. CASE GndManage
  <2>0. reported.width \in {20, 40, Unknown} /\ reported.width \in Int
    BY DEF RxType, Unknown
  <2>1. wt'.pc = "follow" /\ WorkerType'
    BY <1>10, <2>0 DEF GndManage, WorkerType, Places
  <2>2. Tuned'
    BY <1>1, <1>10, <2>1 DEF GndManage, Tuned, FromSettings
  <2> QED
    BY <1>2, <1>10, <2>1, <2>2 DEF GndManage, RxType
<1> QED
  BY <1>3, <1>4, <1>5, <1>6, <1>7, <1>8, <1>9, <1>10

\* The steps of the worker that change the settings end in a command to go
\* there: a user's request, the end of a scan, a report.
LEMMA RetuneStep ==
  ASSUME LinkInv, GndSetFrequency \/ GndScanDone \/ GndFollow
  PROVE  LinkInv'
<1> USE DEF LinkInv, LinkType
<1>1. UNCHANGED <<air, reported, rx>>
  BY DEF GndSetFrequency, GndScanDone, GndFollow
<1>2. AirType' /\ RxType'
  BY <1>1 DEF AirType, RxType
<1>3. ASSUME GndType', wt'.pc = "tune", wt'.target = FromSettings(gnd')
      PROVE  Tuned'
  BY <1>1, <1>3 DEF Tuned, FromSettings
<1>4. ASSUME GndType' PROVE FromSettings(gnd') \in GndTuning
  BY <1>4 DEF GndType, FromSettings, GndTuning
<1>5. CASE GndSetFrequency
  <2>1. gnd.item \in [kind : {"SET_FREQ"}, freq : Freqs]
    BY <1>5 DEF GndSetFrequency, GndType, GndItems, None
  <2>2. GndType'
    BY <1>5, <2>1 DEF GndSetFrequency, GndType
  <2>3. wt' = [wt EXCEPT !.pc = "tune", !.target = FromSettings(gnd'),
                         !.then = "manage"]
    BY <1>5 DEF GndSetFrequency, Apply
  <2>4. WorkerType' /\ wt'.pc = "tune" /\ wt'.target = FromSettings(gnd')
    BY <1>4, <2>2, <2>3 DEF WorkerType, Places
  <2> QED
    BY <1>2, <1>3, <2>2, <2>4
<1>6. CASE GndScanDone
  <2>1. GndType'
    <3>1. CASE wt.result = NotFound
      BY <1>6, <3>1 DEF GndScanDone, GndType
    <3>2. CASE wt.result # NotFound
      <4>1. wt.result \in [freq : Freqs, width : {20, 40}]
        BY <3>2 DEF WorkerType, ResultType
      <4>2. gnd' = [gnd EXCEPT !.freq = wt.result.freq,
                               !.curr.width = wt.result.width]
        BY <1>6, <3>2 DEF GndScanDone
      <4> QED
        BY <4>1, <4>2 DEF GndType
    <3> QED
      BY <3>1, <3>2
  <2>2. wt' = [wt EXCEPT !.pc = "tune", !.target = FromSettings(gnd'),
                         !.then = "manage", !.left = <<>>, !.result = NotFound]
    BY <1>6 DEF GndScanDone, Apply, WorkerType
  <2>3. <<>> \in Seq(GndTuning) /\ NotFound \in ResultType
    BY DEF ResultType
  <2>4. WorkerType' /\ wt'.pc = "tune" /\ wt'.target = FromSettings(gnd')
    BY <1>4, <2>1, <2>2, <2>3 DEF WorkerType, Places
  <2> QED
    BY <1>2, <1>3, <2>1, <2>4
<1>7. CASE GndFollow
  <2> DEFINE r == [freq |-> reported.freq, width |-> wt.seen]
  <2>1. CASE IsNews(wt.seen, reported.freq)
    <3>1. r \in [freq : Freqs, width : {20, 40}]
      BY <2>1, Numbers DEF IsNews, RxType, Unknown
    <3>2. /\ gnd' = [gnd EXCEPT !.curr = r, !.freq = r.freq]
          /\ wt' = [wt EXCEPT !.seen = Unknown, !.pc = "tune", !.target = r,
                              !.then = "loop"]
      BY <1>7, <2>1 DEF GndFollow, Apply, WorkerType
    <3>3. GndType'
      BY <3>1, <3>2 DEF GndType
    <3>4. FromSettings(gnd') = r
      BY <3>1, <3>2 DEF GndType, FromSettings
    <3>5. WorkerType' /\ wt'.pc = "tune" /\ wt'.target = FromSettings(gnd')
      BY <1>4, <3>2, <3>3, <3>4, Numbers DEF WorkerType, Places
    <3> QED
      BY <1>2, <1>3, <3>3, <3>5
  <2>2. CASE ~IsNews(wt.seen, reported.freq)
    <3>1. /\ gnd' = gnd
          /\ wt' = [wt EXCEPT !.seen = Unknown, !.pc = "loop"]
      BY <1>7, <2>2 DEF GndFollow, WorkerType
    <3>2. GndType' /\ WorkerType' /\ wt'.pc = "loop"
      BY <3>1, Numbers DEF GndType, WorkerType, Places
    <3>3. Tuned'
      BY <1>1, <1>7, <3>1, <3>2 DEF GndFollow, Tuned, FromSettings
    <3> QED
      BY <1>2, <3>2, <3>3
  <2> QED
    BY <2>1, <2>2
<1> QED
  BY <1>5, <1>6, <1>7

\* A restart brings a unit to the channel of its settings.
LEMMA RestartStep ==
  ASSUME LinkInv, AirRestart \/ GndRestart
  PROVE  LinkInv'
<1> USE DEF LinkInv, LinkType
<1>1. CASE AirRestart
  <2>1. air' = AirStarted(air.settings) /\ UNCHANGED <<gnd, reported, rx, wt>>
    BY <1>1 DEF AirRestart
  <2>2. AirType' /\ Tuned'
    BY <2>1 DEF AirStarted, AirType, Tuned, FromSettings
  <2> QED
    BY <2>1, <2>2 DEF GndType, RxType, WorkerType
<1>2. CASE GndRestart
  <2>1. /\ gnd' = GndStarted(gnd.freq) /\ reported' = NothingReported
        /\ rx' = None /\ wt' = WorkerStarted /\ UNCHANGED air
    BY <1>2 DEF GndRestart
  <2>2. GndType'
    BY <2>1 DEF GndStarted, GndType, GndTuning
  <2>3. RxType'
    BY <2>1 DEF RxType, NothingReported, None
  <2>4. WorkerType'
    BY <2>1, Numbers DEF WorkerType, WorkerStarted, Places, ResultType
  <2>5. Tuned'
    BY <2>1 DEF Tuned, WorkerStarted, GndStarted, FromSettings
  <2> QED
    BY <2>1, <2>2, <2>3, <2>4, <2>5 DEF AirType
<1> QED
  BY <1>1, <1>2

-----------------------------------------------------------------------------
(* Theorems.                                                               *)

\* The inductive invariant holds in every state of the two units.
THEOREM LinkInvariance == Spec => []LinkInv
<1>1. Init => LinkInv
  BY InvInit
<1>2. LinkInv /\ [Next]_vars => LinkInv'
  <2>1. LinkInv /\ Next => LinkInv'
    BY RequestStep, AirStep, RxStep, TuneStep, QuietStep, RetuneStep, RestartStep
       DEF Next, GndWorker
  <2>2. LinkInv /\ UNCHANGED vars => LinkInv'
    BY DEF LinkInv, LinkType, AirType, GndType, RxType, WorkerType, Tuned,
           FromSettings, vars
  <2> QED
    BY <2>1, <2>2
<1> QED
  BY <1>1, <1>2, PTL DEF Spec

\* Settings, announcements, cards and reports stay channels of the program, and
\* the ground never adopts a width that reports may not have
\* (wb_link_manager.cpp:180, wb_link.cpp:1625).
THEOREM LinkTypeCorrect == Spec => []TypeOK
<1>1. LinkInv => TypeOK
  BY DEF LinkInv, LinkType, AirType, GndType, RxType, TypeOK, GndTuning, None,
         Unknown
<1> QED
  BY <1>1, LinkInvariance, PTL

\* Whatever requests, scans, restarts and failures came before, an idle worker
\* has left its unit on the channel of its settings, announces just that, and
\* lets video through, unless the last command to the card failed
\* (wb_link.cpp:365-423, 554-593, 1478-1498, 1615-1644).
THEOREM IdleUnitsAreTuned == Spec => []IdleIsTuned
<1>1. LinkInv => IdleIsTuned
  BY DEF LinkInv, Tuned, IdleIsTuned
<1> QED
  BY <1>1, LinkInvariance, PTL
=============================================================================
