----------------------------- MODULE LinkWorker -----------------------------
(***************************************************************************)
(* The worker thread of one unit's WBLink: how changes of the user, of the *)
(* flight controller's arming state and of an RC channel reach the TX      *)
(* power, the MCS index and width of the packets sent, the bitrate told to *)
(* the encoder, and the passive mode of the transmitter.                   *)
(*                                                                         *)
(* Four threads meet here.  The user's thread queues one work item at a    *)
(* time or writes a setting directly; the flight controller's thread       *)
(* stores the arming state and then raises a flag; the RC channels arrive  *)
(* on it too; the worker executes the item and then applies, in this       *)
(* order, power, RC channel, the air unit's channel, bitrate and MCS       *)
(* index.  How the units come to agree on a channel is in WBLink.          *)
(***************************************************************************)
EXTENDS Integers, Sequences, RateHelper

CONSTANTS
    Freqs, Legal40,\* frequencies its card supports; those allowed at 40 MHz
    Indices,       \* TX power indices and
    MilliWatts,    \*   powers the user asks for, 0 ("disabled") if armed only
    McsIndices,    \* MCS indices the user asks for
    FecPercs,      \* FEC percentages and
    RatePercs,     \*   percentages of the rate the user sets
    RcChannels,    \* what the flight controller reports on the RC channel
    Started,       \* units, and the settings they may have been started with
    MaxEvents      \* bound on what users and flight controller do

Widths == {10, 20, 40}
Disabled == 0
Unknown == -1

Settings ==
    [wb_frequency : Freqs, wb_air_tx_channel_width : Widths,
     wb_air_mcs_index : 0 .. 31,
     mw : MilliWatts \ {Disabled}, mw_armed : MilliWatts,
     idx : Indices, idx_armed : Indices,
     wb_video_fec_percentage : FecPercs,
     wb_video_rate_for_mcs_adjustment_percent : RatePercs,
     enable_wb_video_variable_bitrate : BOOLEAN,
     wb_mcs_index_via_rc_channel : {0, 1},
     wb_enable_listen_only_mode : BOOLEAN]

\* An air unit (a ground unit otherwise), whose card is an RTL 88X2AU, or
\* whose platform is an X20.
Units == [IsAir : BOOLEAN, IsAU : BOOLEAN, IsX20 : BOOLEAN]

ASSUME WorkerAssumption ==
    /\ Legal40 \subseteq Freqs /\ Freqs \subseteq Nat
    /\ Indices \subseteq 0 .. 63 /\ MilliWatts \subseteq Nat
    /\ McsIndices \subseteq 0 .. 31 /\ FecPercs \subseteq 1 .. 400
    /\ RatePercs \subseteq 6 .. 1000
    /\ RcChannels \subseteq Nat /\ MaxEvents \in Nat
    /\ Started \subseteq [unit : Units, settings : Settings]

VARIABLES
    unit,       \* what the program runs on; never changes
    settings,   \* m_settings
    armed,      \* ArmingStateHelper's m_is_armed
    m_is_armed, \* the link's copy
    fc,         \* what the flight controller's thread still has to store
    rc,         \* the RC channel as last reported, or Unknown
    request,    \* m_request_apply_tx_power and m_request_apply_air_mcs_index
    item,       \* the work item queued or executed
    asked,      \* the item the user's thread has checked and will queue
    power,      \* m_curr_tx_power_mw and _idx, as given to the cards
    header,     \* MCS index and channel width of m_tx_header_1
    rate,       \* the rate adjustment: max (m_max_video_rate_...), total
                \* (m_max_total_rate_...), recommended, announced to the
                \* encoder, freq_changed (m_rate_adjustment_frequency_changed)
    passive,    \* whether the transmitter drops everything
    user,       \* the passive mode the user's thread is about to set
    wt,         \* the worker: its place pc, the place then after apply_txpower,
                \* the value read, the settings used for the rate, and whether
                \* video is refused (close, m_air_close_video_in)
    n           \* events so far

link == <<settings, request, item, power, header, rate, passive, wt>>
vars == <<unit, link, armed, m_is_armed, fc, rc, asked, user, n>>

None == [kind |-> "none"]

IsAir == unit.IsAir
IsAU == unit.IsAU
IsX20 == unit.IsX20

\* apply_txpower and its choice of the armed values (m_is_armed is read for
\* either value) ...
PowerIndex(s, is_armed) ==
    LET idx == IF is_armed /\ s.idx_armed # Disabled THEN s.idx_armed ELSE s.idx
    IN  IF IsAir /\ IsAU /\ idx > 50 /\ s.wb_air_tx_channel_width = 40 THEN 50
        ELSE idx
PowerMilliWatt(s, is_armed) ==
    IF is_armed /\ s.mw_armed # Disabled THEN s.mw_armed ELSE s.mw

\* The MCS index and the width the streams send with.
TxHeader(s) ==
    IF IsAir THEN [mcs |-> s.wb_air_mcs_index, width |-> s.wb_air_tx_channel_width]
    ELSE [mcs |-> 0, width |-> 20]

\* After the constructor, which applies frequency and power.
Init ==
    /\ \E s \in Started : unit = s.unit /\ settings = s.settings
    /\ armed = FALSE /\ m_is_armed = FALSE /\ fc = <<>>
    /\ rc = Unknown
    /\ request = [tx_power |-> FALSE, air_mcs_index |-> FALSE]
    /\ item = None /\ asked = None
    /\ power = [mw |-> PowerMilliWatt(settings, FALSE),
                idx |-> PowerIndex(settings, FALSE)]
    /\ header = TxHeader(settings)
    /\ rate = [max |-> 0, total |-> 0, recommended |-> 0, announced |-> Unknown,
               freq_changed |-> FALSE]
    /\ passive = (~IsAir /\ settings.wb_enable_listen_only_mode)
    /\ user = <<>>
    /\ wt = [pc |-> "item", then |-> "rc", read |-> Unknown, used |-> None,
             close |-> FALSE]
    /\ n = 0

Event == n < MaxEvents /\ n' = n + 1

----------------------------------------------------------------------------
(* The user's thread.                                                      *)

\* What the request_ functions accept, judged by the settings of the moment.
Items ==
    [kind : {"SET_FREQ"},
     value : {f \in Freqs :
                  /\ settings.wb_air_tx_channel_width = 40 => f \in Legal40
                  /\ IsX20 => f >= 5180}]
    \cup [kind : {"SET_TX_POWER_MW"}, armed : BOOLEAN,
          value : MilliWatts \ {Disabled}]
    \cup [kind : {"SET_TX_POWER_MW"}, armed : {TRUE}, value : MilliWatts]
    \cup [kind : {"SET_TX_POWER_INDEX"}, armed : BOOLEAN, value : Indices]
    \cup (IF IsAir THEN [kind : {"SET_CHWIDTH"}, value : Widths]
                        \cup [kind : {"SET_AIR_MCS"}, value : McsIndices]
          ELSE {})

Ask(i) ==
    /\ asked = None /\ user = <<>> /\ Event
    /\ asked' = i
    /\ UNCHANGED <<link, armed, m_is_armed, fc, rc, user>>

\* try_schedule_work_item: refused while the queue is not empty, which it is
\* until the item in it has been executed, or while the worker looks at it.
try_schedule_work_item ==
    /\ asked # None
    /\ \/ item = None /\ item' = asked
       \/ (item # None \/ wt.pc = "item") /\ UNCHANGED item
    /\ asked' = None
    /\ UNCHANGED <<settings, request, power, header, rate, passive, wt,
                   armed, m_is_armed, fc, rc, user, n>>

\* The settings that are written by the user's thread itself.
SetAir ==
    /\ IsAir /\ asked = None /\ Event
    /\ \/ \E p \in FecPercs :
            settings' = [settings EXCEPT !.wb_video_fec_percentage = p]
       \/ \E p \in RatePercs : settings' =
            [settings EXCEPT !.wb_video_rate_for_mcs_adjustment_percent = p]
       \/ \E b \in BOOLEAN :
            settings' = [settings EXCEPT !.enable_wb_video_variable_bitrate = b]
       \/ \E c \in {0, 1} :
            settings' = [settings EXCEPT !.wb_mcs_index_via_rc_channel = c]
    /\ UNCHANGED <<request, item, power, header, rate, passive, wt,
                   armed, m_is_armed, fc, rc, asked, user>>

\* cb_passive: first the setting, then the transmitter.
SetPassive(value) ==
    /\ ~IsAir /\ asked = None /\ user = <<>> /\ Event
    /\ settings' = [settings EXCEPT !.wb_enable_listen_only_mode = value]
    /\ user' = <<value>>
    /\ UNCHANGED <<request, item, power, header, rate, passive, wt,
                   armed, m_is_armed, fc, rc, asked>>

PassiveTransmitter ==
    /\ user # <<>>
    /\ passive' = Head(user)
    /\ user' = <<>>
    /\ UNCHANGED <<settings, request, item, power, header, rate, wt,
                   armed, m_is_armed, fc, rc, asked, n>>

----------------------------------------------------------------------------
(* The flight controller's thread.                                         *)

\* update_arming_state_if_changed calls update_arming_state ...
FcArming ==
    /\ fc = <<>> /\ Event
    /\ armed' = ~armed
    /\ fc' = <<"m_is_armed", "request">>
    /\ UNCHANGED <<link, m_is_armed, rc, asked, user>>

\* ... which stores the state and raises the flag.
\* Mutant: the other way round.
StoreRequestFirst ==
    /\ fc # <<>>
    /\ IF Len(fc) = 2
       THEN request' = [request EXCEPT !.tx_power = TRUE] /\ UNCHANGED m_is_armed
       ELSE m_is_armed' = armed /\ UNCHANGED request
    /\ fc' = Tail(fc)
    /\ UNCHANGED <<settings, item, power, header, rate, passive, wt, armed, rc,
                   asked, user, n>>
update_arming_state ==
    /\ fc # <<>>
    /\ IF Len(fc) = 2
       THEN m_is_armed' = armed /\ UNCHANGED request
       ELSE request' = [request EXCEPT !.tx_power = TRUE] /\ UNCHANGED m_is_armed
    /\ fc' = Tail(fc)
    /\ UNCHANGED <<settings, item, power, header, rate, passive, wt, armed, rc,
                   asked, user, n>>

set_rc_channels(pwm) ==
    /\ IsAir /\ fc = <<>> /\ Event
    /\ rc' = pwm
    /\ UNCHANGED <<link, armed, m_is_armed, fc, asked, user>>

----------------------------------------------------------------------------
(* The worker: the work item.                                              *)

others == <<armed, m_is_armed, fc, rc, asked, user, n>>

Goto(pc) == wt' = [wt EXCEPT !.pc = pc]

NoItem ==
    /\ wt.pc = "item" /\ item = None
    /\ Goto("power")
    /\ UNCHANGED <<settings, request, item, power, header, rate, passive, others>>

PowerSetting(i) ==
    CASE i.kind = "SET_TX_POWER_MW" /\ i.armed -> "mw_armed"
      [] i.kind = "SET_TX_POWER_MW" /\ ~i.armed -> "mw"
      [] i.kind = "SET_TX_POWER_INDEX" /\ i.armed -> "idx_armed"
      [] i.kind = "SET_TX_POWER_INDEX" /\ ~i.armed -> "idx"

SetTxPower ==
    /\ wt.pc = "item" /\ item.kind \in {"SET_TX_POWER_MW", "SET_TX_POWER_INDEX"}
    /\ settings' = [settings EXCEPT ![PowerSetting(item)] = item.value]
    /\ request' = [request EXCEPT !.tx_power = TRUE]
    /\ item' = None
    /\ Goto("power")
    /\ UNCHANGED <<power, header, rate, passive, others>>

SetAirMcs ==
    /\ wt.pc = "item" /\ item.kind = "SET_AIR_MCS"
    /\ settings' = [settings EXCEPT !.wb_air_mcs_index = item.value]
    /\ request' = [request EXCEPT !.air_mcs_index = TRUE]
    /\ item' = None
    /\ Goto("power")
    /\ UNCHANGED <<power, header, rate, passive, others>>

SetFrequency ==
    /\ wt.pc = "item" /\ item.kind = "SET_FREQ"
    /\ settings' = [settings EXCEPT !.wb_frequency = item.value]
    /\ wt' = [wt EXCEPT !.pc = IF IsAir THEN "announce" ELSE "stop injection",
                        !.then = "power", !.close = IsAir]
    /\ UNCHANGED <<request, item, power, header, rate, passive, others>>

\* For two seconds the air unit announces where it goes, without video.
Announced ==
    /\ wt.pc = "announce"
    /\ wt' = [wt EXCEPT !.pc = "stop injection", !.close = FALSE]
    /\ UNCHANGED <<settings, request, item, power, header, rate, passive, others>>

\* "On ASUS, we have to reduce the TX power when on 40Mhz".
SetChannelWidth ==
    /\ wt.pc = "item" /\ item.kind = "SET_CHWIDTH"
    /\ settings' = [settings EXCEPT !.wb_air_tx_channel_width = item.value]
    /\ wt' = [wt EXCEPT !.pc = "index", !.then = "stop injection",
                        !.close = TRUE]
    /\ UNCHANGED <<request, item, power, header, rate, passive, others>>

\* apply_frequency_and_channel_width: no injection while the cards are told
\* (100 ms for what is on its way), the header's width, ...
StopInjection ==
    /\ wt.pc = "stop injection"
    /\ passive' = TRUE
    /\ Goto("tune")
    /\ UNCHANGED <<settings, request, item, power, header, rate, others>>

\* ... and re_enable_injection_unless_user_passive_mode_enabled, which reads
\* the setting and then sets the transmitter.
Tune ==
    /\ wt.pc = "tune"
    /\ header' = [header EXCEPT !.width = TxHeader(settings).width]
    /\ wt' = [wt EXCEPT !.pc = "inject",
                        !.read = ~IsAir /\ settings.wb_enable_listen_only_mode]
    /\ UNCHANGED <<settings, request, item, power, rate, passive, others>>

\* Whether that was for the work item, which is then done and leaves the queue,
\* or for the air unit's channel.
Executing == wt.then = "power"

\* Mutant: the user's passive mode is forgotten.
ReEnableAlways ==
    /\ wt.pc = "inject"
    /\ passive' = FALSE
    /\ rate' = [rate EXCEPT !.freq_changed =
                    @ \/ (Executing /\ item.kind = "SET_FREQ")]
    /\ item' = IF Executing THEN None ELSE item
    /\ wt' = [wt EXCEPT !.pc = wt.then, !.read = Unknown, !.close = FALSE]
    /\ UNCHANGED <<settings, request, power, header, others>>

ReEnableInjection ==
    /\ wt.pc = "inject"
    /\ passive' = wt.read
    /\ rate' = [rate EXCEPT !.freq_changed =
                    @ \/ (Executing /\ item.kind = "SET_FREQ")]
    /\ item' = IF Executing THEN None ELSE item
    /\ wt' = [wt EXCEPT !.pc = wt.then, !.read = Unknown, !.close = FALSE]
    /\ UNCHANGED <<settings, request, power, header, others>>

----------------------------------------------------------------------------
(* The worker: what follows in every round.                                *)

\* m_request_apply_tx_power is cleared, then the power is applied.
TakePowerRequest ==
    /\ wt.pc = "power"
    /\ request' = [request EXCEPT !.tx_power = FALSE]
    /\ wt' = [wt EXCEPT !.pc = IF request.tx_power THEN "index" ELSE "rc",
                        !.then = "rc"]
    /\ UNCHANGED <<settings, item, power, header, rate, passive, others>>

\* apply_txpower reads the arming state for the index ...
ReadPowerIndex ==
    /\ wt.pc = "index"
    /\ wt' = [wt EXCEPT !.pc = "command", !.read = PowerIndex(settings, m_is_armed)]
    /\ UNCHANGED <<settings, request, item, power, header, rate, passive, others>>

\* ... and again for the milliwatts, and tells the cards.
CommandPower ==
    /\ wt.pc = "command"
    /\ power' = [mw |-> PowerMilliWatt(settings, m_is_armed), idx |-> wt.read]
    /\ wt' = [wt EXCEPT !.pc = wt.then, !.then = "power", !.read = Unknown]
    /\ UNCHANGED <<settings, request, item, header, rate, passive, others>>

\* get_mcs_from_rc_channel: UINT16_MAX and values out of range are ignored.
McsFromRc(pwm) ==
    IF pwm \notin 900 .. 2100 THEN Unknown
    ELSE CASE pwm > 1800 -> 4 [] pwm \in 1601 .. 1800 -> 3
           [] pwm \in 1401 .. 1600 -> 2 [] pwm \in 1201 .. 1400 -> 1
           [] pwm <= 1200 -> 0

RcChangesMcs ==
    /\ IsAir /\ settings.wb_mcs_index_via_rc_channel # 0
    /\ McsFromRc(rc) \notin {Unknown, settings.wb_air_mcs_index}

\* Mutant: the request for the header is forgotten.
McsViaRcUnapplied ==
    /\ wt.pc = "rc"
    /\ settings' = IF RcChangesMcs
                   THEN [settings EXCEPT !.wb_air_mcs_index = McsFromRc(rc)]
                   ELSE settings
    /\ Goto("manage")
    /\ UNCHANGED <<item, request, power, header, rate, passive, others>>

wt_perform_mcs_via_rc_channel_if_enabled ==
    /\ wt.pc = "rc"
    /\ IF RcChangesMcs
       THEN /\ settings' = [settings EXCEPT !.wb_air_mcs_index = McsFromRc(rc)]
            /\ request' = [request EXCEPT !.air_mcs_index = TRUE]
       ELSE UNCHANGED <<settings, request>>
    /\ Goto("manage")
    /\ UNCHANGED <<item, power, header, rate, passive, others>>

\* wt_gnd_perform_channel_management: nothing on the air unit or without
\* news, else the channel f the air unit reported becomes the setting.
NoNews ==
    /\ wt.pc = "manage"
    /\ Goto("rate")
    /\ UNCHANGED <<settings, request, item, power, header, rate, passive, others>>

FollowAir(f) ==
    /\ ~IsAir /\ wt.pc = "manage" /\ Event
    /\ settings' = [settings EXCEPT !.wb_frequency = f]
    /\ wt' = [wt EXCEPT !.pc = "stop injection", !.then = "rate"]
    /\ UNCHANGED <<request, item, power, header, rate, passive, armed, m_is_armed,
                   fc, rc, asked, user>>

TotalRate(s) ==
    calculate_bitrate_for_wifi_config_kbits(
        s.wb_frequency, s.wb_air_tx_channel_width, s.wb_air_mcs_index,
        s.wb_video_rate_for_mcs_adjustment_percent)

VideoRate(s) == deduce_fec_overhead(TotalRate(s), s.wb_video_fec_percentage)

\* Without thermal protection, whose level nothing raises.
X20Rate(kbits, is_armed) ==
    (((kbits * 70) \div 100) * (IF is_armed THEN 100 ELSE 50)) \div 100

\* Mutant: the default is applied only after a change of frequency.
RateOfFrequency(r, s, is_armed) ==
    LET now == [r EXCEPT !.total = TotalRate(s), !.freq_changed = FALSE]
        recommended == IF r.freq_changed \/ r.recommended = 0 THEN VideoRate(s)
                       ELSE r.recommended
    IN  [now EXCEPT !.max = VideoRate(s), !.recommended = recommended,
                    !.announced = recommended]

\* A new configuration gets its default rate; otherwise the rate is told to
\* the encoder again (dropped frames do not lower it at present).
Adjusted(r, s, is_armed) ==
    LET now == [r EXCEPT !.total = TotalRate(s)]
    IN  IF r.max # VideoRate(s) \/ r.freq_changed
        THEN [now EXCEPT !.max = VideoRate(s), !.recommended = VideoRate(s),
                         !.announced = VideoRate(s), !.freq_changed = FALSE]
        ELSE [now EXCEPT !.announced =
                  IF IsX20 THEN X20Rate(r.recommended, is_armed)
                  ELSE r.recommended]

wt_perform_rate_adjustment ==
    /\ wt.pc = "rate"
    /\ LET adjusts == IsAir /\ settings.enable_wb_video_variable_bitrate
       IN  /\ rate' = IF adjusts THEN Adjusted(rate, settings, m_is_armed) ELSE rate
           /\ wt' = [wt EXCEPT !.pc = "header",
                               !.used = IF adjusts THEN settings ELSE None]
    /\ UNCHANGED <<settings, request, item, power, header, passive, others>>

\* "After we've applied the rate, we update the tx header mcs index".
UpdateHeader ==
    /\ wt.pc = "header"
    /\ request' = [request EXCEPT !.air_mcs_index = FALSE]
    /\ header' = [header EXCEPT !.mcs = IF request.air_mcs_index
                                        THEN settings.wb_air_mcs_index ELSE @]
    /\ wt' = [wt EXCEPT !.pc = "item", !.used = None]
    /\ UNCHANGED <<settings, item, power, rate, passive, others>>

Worker ==
    \/ NoItem \/ SetTxPower \/ SetAirMcs \/ SetFrequency \/ Announced
    \/ SetChannelWidth \/ StopInjection \/ Tune \/ ReEnableInjection
    \/ TakePowerRequest \/ ReadPowerIndex \/ CommandPower
    \/ wt_perform_mcs_via_rc_channel_if_enabled
    \/ NoNews \/ wt_perform_rate_adjustment \/ UpdateHeader

Callers == try_schedule_work_item \/ PassiveTransmitter \/ update_arming_state

Next ==
    /\ \/ \E i \in Items : Ask(i)
       \/ SetAir
       \/ \E b \in BOOLEAN : SetPassive(b)
       \/ FcArming
       \/ \E pwm \in RcChannels : set_rc_channels(pwm)
       \/ \E f \in Freqs : FollowAir(f)
       \/ Callers
       \/ Worker
    /\ UNCHANGED unit

\* A thread that has begun something goes on.
Fairness == WF_vars(Worker /\ UNCHANGED unit) /\ WF_vars(Callers /\ UNCHANGED unit)

Spec == Init /\ [][Next]_vars /\ Fairness

----------------------------------------------------------------------------
(* Properties.                                                             *)

TypeOK ==
    /\ unit \in Units /\ settings \in Settings
    /\ {armed, m_is_armed, passive} \subseteq BOOLEAN
    /\ fc \in {<<>>, <<"request">>, <<"m_is_armed", "request">>}
    /\ rc \in RcChannels \cup {Unknown}
    /\ request \in [tx_power : BOOLEAN, air_mcs_index : BOOLEAN]
    /\ power \in [mw : MilliWatts, idx : Indices \cup {50}]
    /\ header \in [mcs : 0 .. 31, width : Widths]

\* The power the settings and the arming state ask for.
PowerWanted == [mw |-> PowerMilliWatt(settings, m_is_armed),
                idx |-> PowerIndex(settings, m_is_armed)]

\* No change of the power is lost, though the flag is cleared before the
\* plain bool m_is_armed is read (twice) and the flight controller's thread
\* writes both at any time (wb_link.cpp:866, 595-622, 1607-1613): a unit that
\* does not send with the power wanted has the request pending, is about to
\* get it, or is applying it.
PowerIsApplied ==
    power # PowerWanted =>
        \/ request.tx_power \/ fc # <<>>
        \/ wt.pc \in {"index", "command"}

\* "On ASUS, we have to reduce the TX power when on 40Mhz" (wb_link.cpp:413):
\* packets are not sent at 40 MHz with a power index above 50, except while the
\* worker leaves 40 MHz and has already told the cards the new power.
ReducedAt40WhenSettled ==
    IsAir /\ IsAU /\ header.width = 40 /\ power.idx > 50 =>
        item.kind = "SET_CHWIDTH" /\ wt.pc \in {"stop injection", "tune"}

\* The types, and what is always true of the power the card was told (see the
\* parts; wb_link.cpp:413-418, 595-622).
PowerInv == TypeOK /\ PowerIsApplied /\ ReducedAt40WhenSettled

\* Video of this rate and its FEC packets fit what the Wi-Fi configuration
\* carries, to a rounding of one kbit/s.
Fits(kbits, s) ==
    kbits * (100 + s.wb_video_fec_percentage) <=
        100 * TotalRate(s) + 100 + s.wb_video_fec_percentage

\* The encoder is told the new rate before packets are sent with a new MCS
\* index, so that it never produces more than the link now carries, however
\* the user's, RC's and FEC changes fall between (wb_link.cpp:876-886).
RateBeforeMcs ==
    [][header'.mcs # header.mcs /\ wt.used # None =>
           Fits(rate.announced, [wt.used EXCEPT !.wb_air_mcs_index = header'.mcs])]_vars

\* What the encoder should be told now.
RateWanted ==
    IF IsX20 THEN X20Rate(VideoRate(settings), m_is_armed) ELSE VideoRate(settings)

\* In the end the unit does what its user, flight controller and RC channel
\* asked for: the power is the one for the arming state, packets are sent with
\* the MCS index and width in the settings, with variable bitrate the encoder
\* is told the rate that goes with them and with the FEC percentage, and an air
\* unit injects and accepts video, whatever made it change the channel
\* (wb_link.cpp:379-420, 554-622, 863-886, 1111-1227).
SettingsTakeEffect ==
    <>[][FALSE]_<<armed, settings>> =>
        <>[](/\ m_is_armed = armed /\ power = PowerWanted
             /\ header = TxHeader(settings)
             /\ IsAir => ~passive /\ ~wt.close
             /\ IsAir /\ settings.enable_wb_video_variable_bitrate =>
                    rate.announced = RateWanted)

\* "set passive mode to disabled (do not drop packets) unless we are ground
\* and passive mode is enabled by the user" (wb_link.h:184-185): a unit whose
\* threads are not at it is passive exactly if it is a ground unit and its
\* user wants that.
PassiveAsSet ==
    user = <<>> /\ wt.pc \notin {"tune", "inject"} =>
        (passive <=> ~IsAir /\ settings.wb_enable_listen_only_mode)

\* Only the worker's re-enabling, with a setting it read before the user
\* changed it, leaves the transmitter in a mode its user does not want.
OnlyStaleReadBreaks ==
    [][PassiveAsSet /\ ~PassiveAsSet' =>
           wt.pc = "inject" /\ wt.read # settings.wb_enable_listen_only_mode]_vars
=============================================================================
