-------------------------- MODULE LinkWorkerProofs --------------------------
(***************************************************************************)
(* Proofs about LinkWorker, for every card, all settings and all requests, *)
(* RC and arming changes, in any number and at any moment.                 *)
(***************************************************************************)
EXTENDS LinkWorker, TLAPS

\* A request the user's thread may make, and None.
ItemOK(i) ==
    /\ i.kind \in {"none", "SET_FREQ", "SET_TX_POWER_MW", "SET_TX_POWER_INDEX",
                   "SET_CHWIDTH", "SET_AIR_MCS"}
    /\ i.kind = "SET_FREQ" => i.value \in Freqs
    /\ i.kind = "SET_TX_POWER_MW" =>
           /\ i.armed \in BOOLEAN
           /\ i.value \in MilliWatts
           /\ ~i.armed => i.value # Disabled
    /\ i.kind = "SET_TX_POWER_INDEX" => i.armed \in BOOLEAN /\ i.value \in Indices
    /\ i.kind = "SET_CHWIDTH" => IsAir /\ i.value \in Widths
    /\ i.kind = "SET_AIR_MCS" => i.value \in McsIndices

\* The worker applies the power for a new channel width, before the width.
PowerForWidth == wt.pc \in {"index", "command"} /\ wt.then = "stop injection"

\* Where the worker is, and what it is doing there.
PlaceOK ==
    /\ wt.pc \in {"item", "announce", "stop injection", "tune", "inject", "power",
                  "index", "command", "rc", "manage", "rate", "header"}
    /\ wt.pc = "announce" => wt.then = "power" /\ item.kind = "SET_FREQ"
    /\ wt.pc \in {"stop injection", "tune", "inject"} =>
           \/ wt.then = "rate" /\ ~IsAir
           \/ wt.then = "power" /\ item.kind \in {"SET_FREQ", "SET_CHWIDTH"}
    /\ wt.pc \in {"index", "command"} =>
           \/ wt.then = "rc"
           \/ wt.then = "stop injection" /\ item.kind = "SET_CHWIDTH"

RecordsOK ==
    /\ wt = [pc |-> wt.pc, then |-> wt.then, read |-> wt.read, used |-> wt.used,
             close |-> wt.close]
    /\ ItemOK(item) /\ (asked # None => ItemOK(asked))

\* The power index read is the one to apply, or it will be read again.
IndexRead ==
    wt.pc = "command" =>
        /\ wt.read \in Indices \cup {50}
        /\ \/ wt.read = PowerIndex(settings, m_is_armed)
           \/ request.tx_power \/ fc # <<>>
        /\ IsAir /\ IsAU /\ settings.wb_air_tx_channel_width = 40 => wt.read <= 50

\* Packets are sent with the width in the settings but for the time a change
\* takes, and with a power that goes with it.
WidthApplied ==
    IsAir /\ header.width # settings.wb_air_tx_channel_width =>
        /\ item.kind = "SET_CHWIDTH"
        /\ PowerForWidth \/ wt.pc \in {"stop injection", "tune"}
ReducedAt40 ==
    IsAir /\ IsAU /\ settings.wb_air_tx_channel_width = 40 /\ ~PowerForWidth =>
        power.idx <= 50

\* A change to 40 MHz sends with the new width only after the power is reduced.
ReducedBefore40 ==
    IsAir /\ IsAU /\ PowerForWidth /\ header.width = 40 => power.idx <= 50

\* The mode the user's thread will set is the one in the settings; the worker
\* sets one the user has wanted.
PassiveOK ==
    /\ user \in {<<>>, <<settings.wb_enable_listen_only_mode>>}
    /\ IsAir => user = <<>>
    /\ wt.pc = "inject" => wt.read \in BOOLEAN /\ (IsAir => ~wt.read)

IInv ==
    /\ TypeOK /\ RecordsOK /\ PlaceOK
    /\ PowerIsApplied /\ IndexRead
    /\ WidthApplied /\ ReducedAt40 /\ ReducedBefore40
    /\ PassiveOK

----------------------------------------------------------------------------
(* The settings and what is computed from them.                            *)

\* The types of the settings.
LEMMA SettingsTypes ==
    ASSUME NEW s \in Settings
    PROVE  /\ s.wb_frequency \in Freqs /\ s.wb_air_tx_channel_width \in Widths
           /\ s.wb_air_mcs_index \in 0 .. 31
           /\ s.mw \in MilliWatts /\ s.mw_armed \in MilliWatts
           /\ s.idx \in Indices /\ s.idx_armed \in Indices
           /\ s.wb_video_fec_percentage \in FecPercs
           /\ s.wb_video_rate_for_mcs_adjustment_percent \in RatePercs
           /\ s.wb_enable_listen_only_mode \in BOOLEAN
<1>1. QED
  BY DEF Settings

\* The power chosen is one a user asked for, or 50; at 40 MHz no more than 50.
LEMMA PowerTypes ==
    ASSUME NEW s \in Settings, NEW a
    PROVE  /\ PowerIndex(s, a) \in Indices \cup {50}
           /\ PowerMilliWatt(s, a) \in MilliWatts
           /\ IsAir /\ IsAU /\ s.wb_air_tx_channel_width = 40 =>
                  PowerIndex(s, a) <= 50
<1>1. s.idx \in Indices /\ s.idx_armed \in Indices /\ Indices \subseteq Int
  BY SettingsTypes, WorkerAssumption
<1>2. s.mw \in MilliWatts /\ s.mw_armed \in MilliWatts
  BY SettingsTypes
<1>3. PowerMilliWatt(s, a) \in MilliWatts
  BY <1>2, Zenon DEF PowerMilliWatt
<1> DEFINE i == IF a /\ s.idx_armed # Disabled THEN s.idx_armed ELSE s.idx
           w == s.wb_air_tx_channel_width
<1>4. i \in Indices
  BY <1>1, Zenon
<1>5. PowerIndex(s, a) = IF IsAir /\ IsAU /\ i > 50 /\ w = 40 THEN 50 ELSE i
  BY Zenon DEF PowerIndex
<1> HIDE DEF i, w
<1>6. /\ PowerIndex(s, a) \in Indices \cup {50}
      /\ IsAir /\ IsAU /\ w = 40 => PowerIndex(s, a) <= 50
  BY <1>1, <1>4, <1>5
<1>7. QED
  BY <1>3, <1>6 DEF w

\* The header is one the card can send.
LEMMA HeaderTypes ==
    ASSUME NEW s \in Settings
    PROVE  TxHeader(s) \in [mcs : 0 .. 31, width : Widths]
<1>1. s.wb_air_tx_channel_width \in Widths /\ s.wb_air_mcs_index \in 0 .. 31
  BY SettingsTypes
<1>2. QED
  BY <1>1 DEF TxHeader, Widths

\* The settings s with one changed that has nothing to do with power or width.
SamePower(s, u) ==
    /\ u \in Settings
    /\ u.mw = s.mw /\ u.mw_armed = s.mw_armed
    /\ u.idx = s.idx /\ u.idx_armed = s.idx_armed
    /\ u.wb_air_tx_channel_width = s.wb_air_tx_channel_width

\* A change of any other setting changes nothing of these, and of the others
\* only the one it is about.
LEMMA OtherSettings ==
    ASSUME NEW s \in Settings
    PROVE  /\ \A v \in Freqs :
                  /\ SamePower(s, [s EXCEPT !.wb_frequency = v])
                  /\ [s EXCEPT !.wb_frequency = v].wb_enable_listen_only_mode
                      = s.wb_enable_listen_only_mode
                  /\ [s EXCEPT !.wb_frequency = v].wb_air_mcs_index
                      = s.wb_air_mcs_index
           /\ \A v \in 0 .. 31 :
                  /\ SamePower(s, [s EXCEPT !.wb_air_mcs_index = v])
                  /\ [s EXCEPT !.wb_air_mcs_index = v].wb_enable_listen_only_mode
                      = s.wb_enable_listen_only_mode
                  /\ [s EXCEPT !.wb_air_mcs_index = v].wb_air_mcs_index = v
           /\ \A v \in FecPercs :
                  /\ SamePower(s, [s EXCEPT !.wb_video_fec_percentage = v])
                  /\ [s EXCEPT !.wb_video_fec_percentage = v].wb_enable_listen_only_mode
                      = s.wb_enable_listen_only_mode
                  /\ [s EXCEPT !.wb_video_fec_percentage = v].wb_air_mcs_index
                      = s.wb_air_mcs_index
           /\ \A v \in RatePercs :
                  /\ SamePower(s, [s EXCEPT !.wb_video_rate_for_mcs_adjustment_percent = v])
                  /\ [s EXCEPT !.wb_video_rate_for_mcs_adjustment_percent = v].wb_enable_listen_only_mode
                      = s.wb_enable_listen_only_mode
                  /\ [s EXCEPT !.wb_video_rate_for_mcs_adjustment_percent = v].wb_air_mcs_index
                      = s.wb_air_mcs_index
           /\ \A v \in BOOLEAN :
                  /\ SamePower(s, [s EXCEPT !.enable_wb_video_variable_bitrate = v])
                  /\ [s EXCEPT !.enable_wb_video_variable_bitrate = v].wb_enable_listen_only_mode
                      = s.wb_enable_listen_only_mode
                  /\ [s EXCEPT !.enable_wb_video_variable_bitrate = v].wb_air_mcs_index
                      = s.wb_air_mcs_index
           /\ \A v \in {0, 1} :
                  /\ SamePower(s, [s EXCEPT !.wb_mcs_index_via_rc_channel = v])
                  /\ [s EXCEPT !.wb_mcs_index_via_rc_channel = v].wb_enable_listen_only_mode
                      = s.wb_enable_listen_only_mode
                  /\ [s EXCEPT !.wb_mcs_index_via_rc_channel = v].wb_air_mcs_index
                      = s.wb_air_mcs_index
           /\ \A v \in BOOLEAN :
                  /\ SamePower(s, [s EXCEPT !.wb_enable_listen_only_mode = v])
                  /\ [s EXCEPT !.wb_enable_listen_only_mode = v].wb_air_mcs_index
                      = s.wb_air_mcs_index
                  /\ [s EXCEPT !.wb_enable_listen_only_mode = v].wb_enable_listen_only_mode = v
<1>1. QED
  BY DEF Settings, SamePower

\* A change of the width or of a power setting.
LEMMA PowerSettings ==
    ASSUME NEW s \in Settings
    PROVE  /\ \A v \in Widths :
                  /\ [s EXCEPT !.wb_air_tx_channel_width = v] \in Settings
                  /\ [s EXCEPT !.wb_air_tx_channel_width = v].wb_enable_listen_only_mode
                      = s.wb_enable_listen_only_mode
                  /\ [s EXCEPT !.wb_air_tx_channel_width = v].wb_air_mcs_index
                      = s.wb_air_mcs_index
                  /\ [s EXCEPT !.wb_air_tx_channel_width = v].wb_air_tx_channel_width = v
           /\ \A v \in MilliWatts \ {Disabled} :
                  /\ [s EXCEPT !.mw = v] \in Settings
                  /\ [s EXCEPT !.mw = v].wb_enable_listen_only_mode
                      = s.wb_enable_listen_only_mode
                  /\ [s EXCEPT !.mw = v].wb_air_mcs_index
                      = s.wb_air_mcs_index
                  /\ [s EXCEPT !.mw = v].wb_air_tx_channel_width
                      = s.wb_air_tx_channel_width
           /\ \A v \in MilliWatts :
                  /\ [s EXCEPT !.mw_armed = v] \in Settings
                  /\ [s EXCEPT !.mw_armed = v].wb_enable_listen_only_mode
                      = s.wb_enable_listen_only_mode
                  /\ [s EXCEPT !.mw_armed = v].wb_air_mcs_index
                      = s.wb_air_mcs_index
                  /\ [s EXCEPT !.mw_armed = v].wb_air_tx_channel_width
                      = s.wb_air_tx_channel_width
           /\ \A v \in Indices :
                  /\ [s EXCEPT !.idx = v] \in Settings
                  /\ [s EXCEPT !.idx = v].wb_enable_listen_only_mode
                      = s.wb_enable_listen_only_mode
                  /\ [s EXCEPT !.idx = v].wb_air_mcs_index
                      = s.wb_air_mcs_index
                  /\ [s EXCEPT !.idx = v].wb_air_tx_channel_width
                      = s.wb_air_tx_channel_width
           /\ \A v \in Indices :
                  /\ [s EXCEPT !.idx_armed = v] \in Settings
                  /\ [s EXCEPT !.idx_armed = v].wb_enable_listen_only_mode
                      = s.wb_enable_listen_only_mode
                  /\ [s EXCEPT !.idx_armed = v].wb_air_mcs_index
                      = s.wb_air_mcs_index
                  /\ [s EXCEPT !.idx_armed = v].wb_air_tx_channel_width
                      = s.wb_air_tx_channel_width
<1>1. QED
  BY DEF Settings

\* While the arming state and the settings it is chosen from stay, so does it.
LEMMA PowerKept ==
    ASSUME unit' = unit, SamePower(settings, settings'), m_is_armed' = m_is_armed
    PROVE  /\ PowerIndex(settings, m_is_armed)' = PowerIndex(settings, m_is_armed)
           /\ PowerWanted' = PowerWanted
<1>1. /\ settings'.mw = settings.mw /\ settings'.mw_armed = settings.mw_armed
      /\ settings'.idx = settings.idx /\ settings'.idx_armed = settings.idx_armed
      /\ settings'.wb_air_tx_channel_width = settings.wb_air_tx_channel_width
  BY DEF SamePower
<1>2. PowerIndex(settings, m_is_armed)' = PowerIndex(settings, m_is_armed)
  BY <1>1 DEF PowerIndex, IsAir, IsAU
<1>3. PowerMilliWatt(settings, m_is_armed)' = PowerMilliWatt(settings, m_is_armed)
  BY <1>1 DEF PowerMilliWatt
<1>4. QED
  BY <1>2, <1>3 DEF PowerWanted

\* The worker leaves the passive mode in the settings alone.
LEMMA ListenOnlyKept ==
    ASSUME TypeOK, RecordsOK,
           \/ SetTxPower \/ SetAirMcs \/ SetFrequency \/ SetChannelWidth
           \/ wt_perform_mcs_via_rc_channel_if_enabled
    PROVE  settings'.wb_enable_listen_only_mode = settings.wb_enable_listen_only_mode
<1>1. settings \in Settings
  BY DEF TypeOK
<1>2. CASE SetTxPower
  <2>1. item.armed \in BOOLEAN
    BY <1>2 DEF SetTxPower, RecordsOK, ItemOK
  <2>2. PowerSetting(item) \in {"mw", "mw_armed", "idx", "idx_armed"}
    BY <1>2, <2>1 DEF SetTxPower, PowerSetting
  <2>3. settings' = [settings EXCEPT ![PowerSetting(item)] = item.value]
    BY <1>2 DEF SetTxPower
  <2>4. QED
    BY <1>1, <2>2, <2>3 DEF Settings
<1>3. CASE SetAirMcs \/ SetFrequency \/ SetChannelWidth
  BY <1>1, <1>3 DEF SetAirMcs, SetFrequency, SetChannelWidth, Settings
<1>4. CASE wt_perform_mcs_via_rc_channel_if_enabled
  BY <1>1, <1>4 DEF wt_perform_mcs_via_rc_channel_if_enabled, Settings
<1>5. QED
  BY <1>2, <1>3, <1>4

\* The settings are the same as themselves.
LEMMA SettingsKept ==
    ASSUME TypeOK, settings' = settings
    PROVE  SamePower(settings, settings')
<1>1. QED
  BY DEF TypeOK, SamePower

----------------------------------------------------------------------------
(* Every step keeps the invariant.                                         *)

\* What the request functions let through.
LEMMA ItemsOK ==
    ASSUME NEW i \in Items
    PROVE  ItemOK(i)
<1>1. CASE i.kind = "SET_FREQ" /\ i.value \in Freqs
  BY <1>1 DEF ItemOK
<1>2. CASE /\ i.kind = "SET_TX_POWER_MW" /\ i.armed \in BOOLEAN
           /\ i.value \in MilliWatts \ {Disabled}
  BY <1>2 DEF ItemOK
<1>3. CASE /\ i.kind = "SET_TX_POWER_MW" /\ i.armed = TRUE /\ i.value \in MilliWatts
  BY <1>3 DEF ItemOK
<1>4. CASE i.kind = "SET_TX_POWER_INDEX" /\ i.armed \in BOOLEAN /\ i.value \in Indices
  BY <1>4 DEF ItemOK
<1>5. CASE i.kind = "SET_CHWIDTH" /\ IsAir /\ i.value \in Widths
  BY <1>5 DEF ItemOK
<1>6. CASE i.kind = "SET_AIR_MCS" /\ i.value \in McsIndices
  BY <1>6 DEF ItemOK
<1> DEFINE Freq == [kind : {"SET_FREQ"},
                    value : {f \in Freqs :
                                 /\ settings.wb_air_tx_channel_width = 40 => f \in Legal40
                                 /\ IsX20 => f >= 5180}]
           Mw == [kind : {"SET_TX_POWER_MW"}, armed : BOOLEAN,
                  value : MilliWatts \ {Disabled}]
           MwArmed == [kind : {"SET_TX_POWER_MW"}, armed : {TRUE}, value : MilliWatts]
           Index == [kind : {"SET_TX_POWER_INDEX"}, armed : BOOLEAN, value : Indices]
           Width == [kind : {"SET_CHWIDTH"}, value : Widths]
           Mcs == [kind : {"SET_AIR_MCS"}, value : McsIndices]
<1>7. /\ i \in Freq => i.kind = "SET_FREQ" /\ i.value \in Freqs
      /\ i \in Mw => /\ i.kind = "SET_TX_POWER_MW" /\ i.armed \in BOOLEAN
                     /\ i.value \in MilliWatts \ {Disabled}
      /\ i \in Index => /\ i.kind = "SET_TX_POWER_INDEX" /\ i.armed \in BOOLEAN
                        /\ i.value \in Indices
      /\ i \in Width => i.kind = "SET_CHWIDTH" /\ i.value \in Widths
      /\ i \in Mcs => i.kind = "SET_AIR_MCS" /\ i.value \in McsIndices
  OBVIOUS
<1>8. i \in MwArmed => /\ i.kind = "SET_TX_POWER_MW" /\ i.armed = TRUE
                      /\ i.value \in MilliWatts
  OBVIOUS
<1>9. Items = (((Freq \cup Mw) \cup MwArmed) \cup Index)
                  \cup (IF IsAir THEN Width \cup Mcs ELSE {})
  BY DEF Items
<1> HIDE DEF Freq, Mw, MwArmed, Index, Width, Mcs
<1>10. QED
  BY <1>1, <1>2, <1>3, <1>4, <1>5, <1>6, <1>7, <1>8, <1>9

\* The worker finds no item,
LEMMA NoItemStep ==
    ASSUME IInv, NoItem, UNCHANGED unit
    PROVE  IInv'
<1> USE DEF NoItem, others, link, Goto, IsAir, IsAU, Event
<1>u. unit' = unit
  OBVIOUS
<1>p. /\ PowerIndex(settings, m_is_armed)' = PowerIndex(settings, m_is_armed)
      /\ PowerWanted' = PowerWanted
  BY <1>u, PowerKept, SettingsKept DEF IInv
<1>1. TypeOK'
  BY <1>u DEF IInv, TypeOK
<1>2. RecordsOK'
  BY <1>u DEF IInv, RecordsOK, ItemOK
<1>3. PlaceOK'
  BY <1>u DEF IInv, RecordsOK, PlaceOK, ItemOK, None
<1>4. PowerIsApplied'
  BY <1>u, <1>p DEF IInv, RecordsOK, TypeOK, PowerIsApplied, IndexRead
<1>5. IndexRead'
  BY <1>u, <1>p DEF IInv, RecordsOK, IndexRead, TypeOK
<1>6. WidthApplied'
  BY <1>u DEF IInv, RecordsOK, PlaceOK, WidthApplied, PowerForWidth, TypeOK, None
<1>7. ReducedAt40'
  BY <1>u DEF IInv, RecordsOK, PlaceOK, ReducedAt40, PowerForWidth, IndexRead, TypeOK
<1>8. ReducedBefore40'
  BY <1>u DEF IInv, RecordsOK, PlaceOK, ReducedBefore40, WidthApplied, ReducedAt40, PowerForWidth, IndexRead, TypeOK
<1>9. PassiveOK'
  BY <1>u DEF IInv, RecordsOK, PassiveOK, TypeOK
<1>10. QED
  BY <1>1, <1>2, <1>3, <1>4, <1>5, <1>6, <1>7, <1>8, <1>9 DEF IInv

\* it has announced a channel,
LEMMA AnnouncedStep ==
    ASSUME IInv, Announced, UNCHANGED unit
    PROVE  IInv'
<1> USE DEF Announced, others, link, Goto, IsAir, IsAU, Event
<1>u. unit' = unit
  OBVIOUS
<1>p. /\ PowerIndex(settings, m_is_armed)' = PowerIndex(settings, m_is_armed)
      /\ PowerWanted' = PowerWanted
  BY <1>u, PowerKept, SettingsKept DEF IInv
<1>1. TypeOK'
  BY <1>u DEF IInv, TypeOK
<1>2. RecordsOK'
  BY <1>u DEF IInv, RecordsOK, ItemOK
<1>3. PlaceOK'
  BY <1>u DEF IInv, RecordsOK, PlaceOK, ItemOK, None
<1>4. PowerIsApplied'
  BY <1>u, <1>p DEF IInv, RecordsOK, TypeOK, PowerIsApplied, IndexRead
<1>5. IndexRead'
  BY <1>u, <1>p DEF IInv, RecordsOK, IndexRead, TypeOK
<1>6. WidthApplied'
  BY <1>u DEF IInv, RecordsOK, PlaceOK, WidthApplied, PowerForWidth, TypeOK, None
<1>7. ReducedAt40'
  BY <1>u DEF IInv, RecordsOK, PlaceOK, ReducedAt40, PowerForWidth, IndexRead, TypeOK
<1>8. ReducedBefore40'
  BY <1>u DEF IInv, RecordsOK, PlaceOK, ReducedBefore40, WidthApplied, ReducedAt40, PowerForWidth, IndexRead, TypeOK
<1>9. PassiveOK'
  BY <1>u DEF IInv, RecordsOK, PassiveOK, TypeOK
<1>10. QED
  BY <1>1, <1>2, <1>3, <1>4, <1>5, <1>6, <1>7, <1>8, <1>9 DEF IInv

\* it stops injection,
LEMMA StopInjectionStep ==
    ASSUME IInv, StopInjection, UNCHANGED unit
    PROVE  IInv'
<1> USE DEF StopInjection, others, link, Goto, IsAir, IsAU, Event
<1>u. unit' = unit
  OBVIOUS
<1>p. /\ PowerIndex(settings, m_is_armed)' = PowerIndex(settings, m_is_armed)
      /\ PowerWanted' = PowerWanted
  BY <1>u, PowerKept, SettingsKept DEF IInv
<1>1. TypeOK'
  BY <1>u DEF IInv, TypeOK
<1>2. RecordsOK'
  BY <1>u DEF IInv, RecordsOK, ItemOK
<1>3. PlaceOK'
  BY <1>u DEF IInv, RecordsOK, PlaceOK, ItemOK, None
<1>4. PowerIsApplied'
  BY <1>u, <1>p DEF IInv, RecordsOK, TypeOK, PowerIsApplied, IndexRead
<1>5. IndexRead'
  BY <1>u, <1>p DEF IInv, RecordsOK, IndexRead, TypeOK
<1>6. WidthApplied'
  BY <1>u DEF IInv, RecordsOK, PlaceOK, WidthApplied, PowerForWidth, TypeOK, None
<1>7. ReducedAt40'
  BY <1>u DEF IInv, RecordsOK, PlaceOK, ReducedAt40, PowerForWidth, IndexRead, TypeOK
<1>8. ReducedBefore40'
  BY <1>u DEF IInv, RecordsOK, PlaceOK, ReducedBefore40, WidthApplied, ReducedAt40, PowerForWidth, IndexRead, TypeOK
<1>9. PassiveOK'
  BY <1>u DEF IInv, RecordsOK, PassiveOK, TypeOK
<1>10. QED
  BY <1>1, <1>2, <1>3, <1>4, <1>5, <1>6, <1>7, <1>8, <1>9 DEF IInv

\* it tells the cards and the header the channel and its width,
LEMMA TuneStep ==
    ASSUME IInv, Tune, UNCHANGED unit
    PROVE  IInv'
<1> USE DEF Tune, others, link, Goto, IsAir, IsAU, Event
<1>u. unit' = unit
  OBVIOUS
<1>p. /\ PowerIndex(settings, m_is_armed)' = PowerIndex(settings, m_is_armed)
      /\ PowerWanted' = PowerWanted
  BY <1>u, PowerKept, SettingsKept DEF IInv
<1>1. TypeOK'
  BY <1>u, HeaderTypes DEF IInv, TypeOK, Widths
<1>2. RecordsOK'
  BY <1>u DEF IInv, RecordsOK, ItemOK
<1>3. PlaceOK'
  BY <1>u DEF IInv, RecordsOK, PlaceOK, ItemOK, None
<1>4. PowerIsApplied'
  BY <1>u, <1>p DEF IInv, RecordsOK, TypeOK, PowerIsApplied, IndexRead
<1>5. IndexRead'
  BY <1>u, <1>p DEF IInv, RecordsOK, IndexRead, TypeOK
<1>6. WidthApplied'
  BY <1>u DEF IInv, RecordsOK, PlaceOK, WidthApplied, PowerForWidth, TypeOK, TxHeader
<1>7. ReducedAt40'
  BY <1>u DEF IInv, RecordsOK, PlaceOK, ReducedAt40, PowerForWidth, IndexRead, TypeOK
<1>8. ReducedBefore40'
  BY <1>u DEF IInv, RecordsOK, PlaceOK, ReducedBefore40, WidthApplied, ReducedAt40, PowerForWidth, IndexRead, TypeOK
<1>9. PassiveOK'
  BY <1>u DEF IInv, RecordsOK, PassiveOK, TypeOK
<1>10. QED
  BY <1>1, <1>2, <1>3, <1>4, <1>5, <1>6, <1>7, <1>8, <1>9 DEF IInv

\* it sets the transmitter as the user wanted it,
LEMMA ReEnableInjectionStep ==
    ASSUME IInv, ReEnableInjection, UNCHANGED unit
    PROVE  IInv'
<1> USE DEF others, link, IsAir, IsAU
<1>u. unit' = unit
  OBVIOUS
<1>a. /\ wt.pc = "inject" /\ passive' = wt.read
      /\ wt'.pc = wt.then /\ wt'.then = wt.then
      /\ wt' = [pc |-> wt'.pc, then |-> wt'.then, read |-> wt'.read,
                used |-> wt'.used, close |-> wt'.close]
      /\ item' = item \/ item' = None
      /\ wt.then = "power" => item' = None
      /\ UNCHANGED <<settings, request, power, header, others>>
  BY DEF ReEnableInjection, Executing, IInv, RecordsOK
<1>p. /\ PowerIndex(settings, m_is_armed)' = PowerIndex(settings, m_is_armed)
      /\ PowerWanted' = PowerWanted
  BY <1>u, <1>a, PowerKept, SettingsKept DEF IInv
<1>1. TypeOK'
  BY <1>u, <1>a DEF IInv, TypeOK, PassiveOK
<1>2. RecordsOK'
  BY <1>u, <1>a DEF IInv, RecordsOK, ItemOK, None
<1>3. PlaceOK'
  BY <1>u, <1>a DEF IInv, RecordsOK, PlaceOK, ItemOK, None
<1>4. PowerIsApplied'
  BY <1>u, <1>a, <1>p DEF IInv, RecordsOK, TypeOK, PowerIsApplied, IndexRead
<1>5. IndexRead'
  BY <1>u, <1>p, <1>a DEF IInv, IndexRead, TypeOK, PlaceOK
<1>6. WidthApplied'
  BY <1>u, <1>a DEF IInv, RecordsOK, PlaceOK, WidthApplied, PowerForWidth, TypeOK, None
<1>7. ReducedAt40'
  BY <1>u, <1>a DEF IInv, RecordsOK, PlaceOK, ReducedAt40, PowerForWidth, IndexRead, TypeOK
<1>8. ReducedBefore40'
  BY <1>u, <1>a DEF IInv, RecordsOK, PlaceOK, ReducedBefore40, WidthApplied, ReducedAt40, PowerForWidth, IndexRead, TypeOK
<1>9. PassiveOK'
  BY <1>u, <1>a DEF IInv, PassiveOK, TypeOK, PlaceOK
<1>10. QED
  BY <1>1, <1>2, <1>3, <1>4, <1>5, <1>6, <1>7, <1>8, <1>9 DEF IInv

\* it looks for a request to apply the power,
LEMMA TakePowerRequestStep ==
    ASSUME IInv, TakePowerRequest, UNCHANGED unit
    PROVE  IInv'
<1> USE DEF TakePowerRequest, others, link, Goto, IsAir, IsAU, Event
<1>u. unit' = unit
  OBVIOUS
<1>p. /\ PowerIndex(settings, m_is_armed)' = PowerIndex(settings, m_is_armed)
      /\ PowerWanted' = PowerWanted
  BY <1>u, PowerKept, SettingsKept DEF IInv
<1>1. TypeOK'
  BY <1>u DEF IInv, TypeOK
<1>2. RecordsOK'
  BY <1>u DEF IInv, RecordsOK, ItemOK
<1>3. PlaceOK'
  BY <1>u DEF IInv, RecordsOK, PlaceOK, ItemOK, None
<1>4. PowerIsApplied'
  BY <1>u, <1>p DEF IInv, RecordsOK, TypeOK, PowerIsApplied, IndexRead
<1>5. IndexRead'
  BY <1>u, <1>p DEF IInv, RecordsOK, IndexRead, TypeOK
<1>6. WidthApplied'
  BY <1>u DEF IInv, RecordsOK, PlaceOK, WidthApplied, PowerForWidth, TypeOK, None
<1>7. ReducedAt40'
  BY <1>u DEF IInv, RecordsOK, PlaceOK, ReducedAt40, PowerForWidth, IndexRead, TypeOK
<1>8. ReducedBefore40'
  BY <1>u DEF IInv, RecordsOK, PlaceOK, ReducedBefore40, WidthApplied, ReducedAt40, PowerForWidth, IndexRead, TypeOK
<1>9. PassiveOK'
  BY <1>u DEF IInv, RecordsOK, PassiveOK, TypeOK
<1>10. QED
  BY <1>1, <1>2, <1>3, <1>4, <1>5, <1>6, <1>7, <1>8, <1>9 DEF IInv

\* it reads the power index,
LEMMA ReadPowerIndexStep ==
    ASSUME IInv, ReadPowerIndex, UNCHANGED unit
    PROVE  IInv'
<1> USE DEF ReadPowerIndex, others, link, Goto, IsAir, IsAU, Event
<1>u. unit' = unit
  OBVIOUS
<1>p. /\ PowerIndex(settings, m_is_armed)' = PowerIndex(settings, m_is_armed)
      /\ PowerWanted' = PowerWanted
  BY <1>u, PowerKept, SettingsKept DEF IInv
<1>1. TypeOK'
  BY <1>u DEF IInv, TypeOK
<1>2. RecordsOK'
  BY <1>u DEF IInv, RecordsOK, ItemOK
<1>3. PlaceOK'
  BY <1>u DEF IInv, RecordsOK, PlaceOK, ItemOK, None
<1>4. PowerIsApplied'
  BY <1>u, <1>p DEF IInv, RecordsOK, TypeOK, PowerIsApplied, IndexRead
<1>5. IndexRead'
  BY <1>u, <1>p, PowerTypes DEF IInv, RecordsOK, IndexRead, TypeOK
<1>6. WidthApplied'
  BY <1>u DEF IInv, RecordsOK, PlaceOK, WidthApplied, PowerForWidth, TypeOK, None
<1>7. ReducedAt40'
  BY <1>u DEF IInv, RecordsOK, PlaceOK, ReducedAt40, PowerForWidth, IndexRead, TypeOK
<1>8. ReducedBefore40'
  BY <1>u DEF IInv, RecordsOK, PlaceOK, ReducedBefore40, WidthApplied, ReducedAt40, PowerForWidth, IndexRead, TypeOK
<1>9. PassiveOK'
  BY <1>u DEF IInv, RecordsOK, PassiveOK, TypeOK
<1>10. QED
  BY <1>1, <1>2, <1>3, <1>4, <1>5, <1>6, <1>7, <1>8, <1>9 DEF IInv

\* it commands the power,
LEMMA CommandPowerStep ==
    ASSUME IInv, CommandPower, UNCHANGED unit
    PROVE  IInv'
<1> USE DEF CommandPower, others, link, Goto, IsAir, IsAU, Event
<1>u. unit' = unit
  OBVIOUS
<1>p. /\ PowerIndex(settings, m_is_armed)' = PowerIndex(settings, m_is_armed)
      /\ PowerWanted' = PowerWanted
  BY <1>u, PowerKept, SettingsKept DEF IInv
<1>1. TypeOK'
  BY <1>u, PowerTypes DEF IInv, TypeOK, IndexRead
<1>2. RecordsOK'
  BY <1>u DEF IInv, RecordsOK, ItemOK
<1>3. PlaceOK'
  BY <1>u DEF IInv, RecordsOK, PlaceOK, ItemOK, None
<1>4. PowerIsApplied'
  <2>1. wt.read = PowerIndex(settings, m_is_armed) => power' = PowerWanted
    BY DEF PowerWanted
  <2>2. wt.pc = "command" /\ request' = request /\ fc' = fc
    OBVIOUS
  <2>3. QED
    BY <1>p, <2>1, <2>2 DEF IInv, PowerIsApplied, IndexRead
<1>5. IndexRead'
  <2>1. wt'.pc # "command"
    BY DEF IInv, RecordsOK, PlaceOK
  <2>2. QED
    BY <2>1 DEF IndexRead
<1>6. WidthApplied'
  BY <1>u DEF IInv, RecordsOK, PlaceOK, WidthApplied, PowerForWidth, TypeOK, None
<1>7. ReducedAt40'
  BY <1>u DEF IInv, RecordsOK, PlaceOK, ReducedAt40, PowerForWidth, IndexRead, TypeOK
<1>8. ReducedBefore40'
  BY <1>u DEF IInv, RecordsOK, PlaceOK, ReducedBefore40, WidthApplied, ReducedAt40, PowerForWidth, IndexRead, TypeOK
<1>9. PassiveOK'
  <2>1. wt'.pc # "inject"
    BY DEF IInv, RecordsOK, PlaceOK
  <2>2. QED
    BY <1>u, <2>1 DEF IInv, PassiveOK
<1>10. QED
  BY <1>1, <1>2, <1>3, <1>4, <1>5, <1>6, <1>7, <1>8, <1>9 DEF IInv

\* it has no news of the air unit,
LEMMA NoNewsStep ==
    ASSUME IInv, NoNews, UNCHANGED unit
    PROVE  IInv'
<1> USE DEF NoNews, others, link, Goto, IsAir, IsAU, Event
<1>u. unit' = unit
  OBVIOUS
<1>p. /\ PowerIndex(settings, m_is_armed)' = PowerIndex(settings, m_is_armed)
      /\ PowerWanted' = PowerWanted
  BY <1>u, PowerKept, SettingsKept DEF IInv
<1>1. TypeOK'
  BY <1>u DEF IInv, TypeOK
<1>2. RecordsOK'
  BY <1>u DEF IInv, RecordsOK, ItemOK
<1>3. PlaceOK'
  BY <1>u DEF IInv, RecordsOK, PlaceOK, ItemOK, None
<1>4. PowerIsApplied'
  BY <1>u, <1>p DEF IInv, RecordsOK, TypeOK, PowerIsApplied, IndexRead
<1>5. IndexRead'
  BY <1>u, <1>p DEF IInv, RecordsOK, IndexRead, TypeOK
<1>6. WidthApplied'
  BY <1>u DEF IInv, RecordsOK, PlaceOK, WidthApplied, PowerForWidth, TypeOK, None
<1>7. ReducedAt40'
  BY <1>u DEF IInv, RecordsOK, PlaceOK, ReducedAt40, PowerForWidth, IndexRead, TypeOK
<1>8. ReducedBefore40'
  BY <1>u DEF IInv, RecordsOK, PlaceOK, ReducedBefore40, WidthApplied, ReducedAt40, PowerForWidth, IndexRead, TypeOK
<1>9. PassiveOK'
  BY <1>u DEF IInv, RecordsOK, PassiveOK, TypeOK
<1>10. QED
  BY <1>1, <1>2, <1>3, <1>4, <1>5, <1>6, <1>7, <1>8, <1>9 DEF IInv

\* it adjusts the rate,
LEMMA wt_perform_rate_adjustmentStep ==
    ASSUME IInv, wt_perform_rate_adjustment, UNCHANGED unit
    PROVE  IInv'
<1> USE DEF wt_perform_rate_adjustment, others, link, Goto, IsAir, IsAU, Event
<1>u. unit' = unit
  OBVIOUS
<1>p. /\ PowerIndex(settings, m_is_armed)' = PowerIndex(settings, m_is_armed)
      /\ PowerWanted' = PowerWanted
  BY <1>u, PowerKept, SettingsKept DEF IInv
<1>1. TypeOK'
  BY <1>u DEF IInv, TypeOK
<1>2. RecordsOK'
  BY <1>u DEF IInv, RecordsOK, ItemOK
<1>3. PlaceOK'
  BY <1>u DEF IInv, RecordsOK, PlaceOK, ItemOK, None
<1>4. PowerIsApplied'
  BY <1>u, <1>p DEF IInv, RecordsOK, TypeOK, PowerIsApplied, IndexRead
<1>5. IndexRead'
  BY <1>u, <1>p DEF IInv, RecordsOK, IndexRead, TypeOK
<1>6. WidthApplied'
  BY <1>u DEF IInv, RecordsOK, PlaceOK, WidthApplied, PowerForWidth, TypeOK, None
<1>7. ReducedAt40'
  BY <1>u DEF IInv, RecordsOK, PlaceOK, ReducedAt40, PowerForWidth, IndexRead, TypeOK
<1>8. ReducedBefore40'
  BY <1>u DEF IInv, RecordsOK, PlaceOK, ReducedBefore40, WidthApplied, ReducedAt40, PowerForWidth, IndexRead, TypeOK
<1>9. PassiveOK'
  BY <1>u DEF IInv, RecordsOK, PassiveOK, TypeOK
<1>10. QED
  BY <1>1, <1>2, <1>3, <1>4, <1>5, <1>6, <1>7, <1>8, <1>9 DEF IInv

\* it updates the header,
LEMMA UpdateHeaderStep ==
    ASSUME IInv, UpdateHeader, UNCHANGED unit
    PROVE  IInv'
<1> USE DEF UpdateHeader, others, link, Goto, IsAir, IsAU, Event
<1>u. unit' = unit
  OBVIOUS
<1>p. /\ PowerIndex(settings, m_is_armed)' = PowerIndex(settings, m_is_armed)
      /\ PowerWanted' = PowerWanted
  BY <1>u, PowerKept, SettingsKept DEF IInv
<1>1. TypeOK'
  BY <1>u, SettingsTypes DEF IInv, TypeOK
<1>2. RecordsOK'
  BY <1>u DEF IInv, RecordsOK, ItemOK
<1>3. PlaceOK'
  BY <1>u DEF IInv, RecordsOK, PlaceOK, ItemOK, None
<1>4. PowerIsApplied'
  BY <1>u, <1>p DEF IInv, RecordsOK, TypeOK, PowerIsApplied, IndexRead
<1>5. IndexRead'
  BY <1>u, <1>p DEF IInv, RecordsOK, IndexRead, TypeOK
<1>6. WidthApplied'
  BY <1>u DEF IInv, RecordsOK, PlaceOK, WidthApplied, PowerForWidth, TypeOK, None
<1>7. ReducedAt40'
  BY <1>u DEF IInv, RecordsOK, PlaceOK, ReducedAt40, PowerForWidth, IndexRead, TypeOK
<1>8. ReducedBefore40'
  BY <1>u DEF IInv, RecordsOK, PlaceOK, ReducedBefore40, WidthApplied, ReducedAt40, PowerForWidth, IndexRead, TypeOK
<1>9. PassiveOK'
  BY <1>u DEF IInv, RecordsOK, PassiveOK, TypeOK
<1>10. QED
  BY <1>1, <1>2, <1>3, <1>4, <1>5, <1>6, <1>7, <1>8, <1>9 DEF IInv

\* a request is queued or refused,
LEMMA try_schedule_work_itemStep ==
    ASSUME IInv, try_schedule_work_item, UNCHANGED unit
    PROVE  IInv'
<1> USE DEF try_schedule_work_item, others, link, Goto, IsAir, IsAU, Event
<1>u. unit' = unit
  OBVIOUS
<1>p. /\ PowerIndex(settings, m_is_armed)' = PowerIndex(settings, m_is_armed)
      /\ PowerWanted' = PowerWanted
  BY <1>u, PowerKept, SettingsKept DEF IInv
<1>1. TypeOK'
  BY <1>u DEF IInv, TypeOK
<1>2. RecordsOK'
  BY <1>u DEF IInv, RecordsOK, ItemOK
<1>3. PlaceOK'
  <2>1. CASE item' = item
    BY <1>u, <2>1 DEF IInv, PlaceOK
  <2>2. CASE item = None
    BY <1>u, <2>2 DEF IInv, PlaceOK, None
  <2>3. QED
    BY <2>1, <2>2
<1>4. PowerIsApplied'
  BY <1>u, <1>p DEF IInv, RecordsOK, TypeOK, PowerIsApplied, IndexRead
<1>5. IndexRead'
  BY <1>u, <1>p DEF IInv, RecordsOK, IndexRead, TypeOK
<1>6. WidthApplied'
  <2>1. CASE item' = item
    BY <1>u, <2>1 DEF IInv, WidthApplied, PowerForWidth
  <2>2. CASE item = None
    BY <1>u, <2>2 DEF IInv, WidthApplied, PowerForWidth, None
  <2>3. QED
    BY <2>1, <2>2
<1>7. ReducedAt40'
  BY <1>u DEF IInv, RecordsOK, PlaceOK, ReducedAt40, PowerForWidth, IndexRead, TypeOK
<1>8. ReducedBefore40'
  BY <1>u DEF IInv, RecordsOK, PlaceOK, ReducedBefore40, WidthApplied, ReducedAt40, PowerForWidth, IndexRead, TypeOK
<1>9. PassiveOK'
  BY <1>u DEF IInv, RecordsOK, PassiveOK, TypeOK
<1>10. QED
  BY <1>1, <1>2, <1>3, <1>4, <1>5, <1>6, <1>7, <1>8, <1>9 DEF IInv

\* the user asks for something,
LEMMA AskStep ==
    ASSUME IInv, NEW i \in Items, Ask(i), UNCHANGED unit
    PROVE  IInv'
<1> USE DEF Ask, others, link, Goto, IsAir, IsAU, Event
<1>u. unit' = unit
  OBVIOUS
<1>p. /\ PowerIndex(settings, m_is_armed)' = PowerIndex(settings, m_is_armed)
      /\ PowerWanted' = PowerWanted
  BY <1>u, PowerKept, SettingsKept DEF IInv
<1>1. TypeOK'
  BY <1>u DEF IInv, TypeOK
<1>2. RecordsOK'
  BY <1>u, ItemsOK DEF IInv, RecordsOK, ItemOK
<1>3. PlaceOK'
  BY <1>u DEF IInv, RecordsOK, PlaceOK, ItemOK, None
<1>4. PowerIsApplied'
  BY <1>u, <1>p DEF IInv, RecordsOK, TypeOK, PowerIsApplied, IndexRead
<1>5. IndexRead'
  BY <1>u, <1>p DEF IInv, RecordsOK, IndexRead, TypeOK
<1>6. WidthApplied'
  BY <1>u DEF IInv, RecordsOK, PlaceOK, WidthApplied, PowerForWidth, TypeOK, None
<1>7. ReducedAt40'
  BY <1>u DEF IInv, RecordsOK, PlaceOK, ReducedAt40, PowerForWidth, IndexRead, TypeOK
<1>8. ReducedBefore40'
  BY <1>u DEF IInv, RecordsOK, PlaceOK, ReducedBefore40, WidthApplied, ReducedAt40, PowerForWidth, IndexRead, TypeOK
<1>9. PassiveOK'
  BY <1>u DEF IInv, RecordsOK, PassiveOK, TypeOK
<1>10. QED
  BY <1>1, <1>2, <1>3, <1>4, <1>5, <1>6, <1>7, <1>8, <1>9 DEF IInv

\* the user sets the transmitter,
LEMMA PassiveTransmitterStep ==
    ASSUME IInv, PassiveTransmitter, UNCHANGED unit
    PROVE  IInv'
<1> USE DEF PassiveTransmitter, others, link, Goto, IsAir, IsAU, Event
<1>u. unit' = unit
  OBVIOUS
<1>p. /\ PowerIndex(settings, m_is_armed)' = PowerIndex(settings, m_is_armed)
      /\ PowerWanted' = PowerWanted
  BY <1>u, PowerKept, SettingsKept DEF IInv
<1>1. TypeOK'
  <2>1. user = <<settings.wb_enable_listen_only_mode>>
    BY DEF IInv, PassiveOK
  <2>2. passive' = settings.wb_enable_listen_only_mode
    BY <2>1
  <2>3. passive' \in BOOLEAN
    BY <2>2, SettingsTypes DEF IInv, TypeOK
  <2>4. QED
    BY <1>u, <2>3 DEF IInv, TypeOK
<1>2. RecordsOK'
  BY <1>u DEF IInv, RecordsOK, ItemOK
<1>3. PlaceOK'
  BY <1>u DEF IInv, RecordsOK, PlaceOK, ItemOK, None
<1>4. PowerIsApplied'
  BY <1>u, <1>p DEF IInv, RecordsOK, TypeOK, PowerIsApplied, IndexRead
<1>5. IndexRead'
  BY <1>u, <1>p DEF IInv, RecordsOK, IndexRead, TypeOK
<1>6. WidthApplied'
  BY <1>u DEF IInv, RecordsOK, PlaceOK, WidthApplied, PowerForWidth, TypeOK, None
<1>7. ReducedAt40'
  BY <1>u DEF IInv, RecordsOK, PlaceOK, ReducedAt40, PowerForWidth, IndexRead, TypeOK
<1>8. ReducedBefore40'
  BY <1>u DEF IInv, RecordsOK, PlaceOK, ReducedBefore40, WidthApplied, ReducedAt40, PowerForWidth, IndexRead, TypeOK
<1>9. PassiveOK'
  BY <1>u DEF IInv, RecordsOK, PassiveOK, TypeOK
<1>10. QED
  BY <1>1, <1>2, <1>3, <1>4, <1>5, <1>6, <1>7, <1>8, <1>9 DEF IInv

\* the arming state changes,
LEMMA FcArmingStep ==
    ASSUME IInv, FcArming, UNCHANGED unit
    PROVE  IInv'
<1> USE DEF FcArming, others, link, Goto, IsAir, IsAU, Event
<1>u. unit' = unit
  OBVIOUS
<1>p. /\ PowerIndex(settings, m_is_armed)' = PowerIndex(settings, m_is_armed)
      /\ PowerWanted' = PowerWanted
  BY <1>u, PowerKept, SettingsKept DEF IInv
<1>1. TypeOK'
  BY <1>u DEF IInv, TypeOK
<1>2. RecordsOK'
  BY <1>u DEF IInv, RecordsOK, ItemOK
<1>3. PlaceOK'
  BY <1>u DEF IInv, RecordsOK, PlaceOK, ItemOK, None
<1>4. PowerIsApplied'
  BY <1>u, <1>p DEF IInv, RecordsOK, TypeOK, PowerIsApplied, IndexRead
<1>5. IndexRead'
  BY <1>u, <1>p DEF IInv, RecordsOK, IndexRead, TypeOK
<1>6. WidthApplied'
  BY <1>u DEF IInv, RecordsOK, PlaceOK, WidthApplied, PowerForWidth, TypeOK, None
<1>7. ReducedAt40'
  BY <1>u DEF IInv, RecordsOK, PlaceOK, ReducedAt40, PowerForWidth, IndexRead, TypeOK
<1>8. ReducedBefore40'
  BY <1>u DEF IInv, RecordsOK, PlaceOK, ReducedBefore40, WidthApplied, ReducedAt40, PowerForWidth, IndexRead, TypeOK
<1>9. PassiveOK'
  BY <1>u DEF IInv, RecordsOK, PassiveOK, TypeOK
<1>10. QED
  BY <1>1, <1>2, <1>3, <1>4, <1>5, <1>6, <1>7, <1>8, <1>9 DEF IInv

\* it reaches the link,
LEMMA update_arming_stateStep ==
    ASSUME IInv, update_arming_state, UNCHANGED unit
    PROVE  IInv'
<1> USE DEF others, link, IsAir, IsAU
<1>u. unit' = unit
  OBVIOUS
<1>a. /\ \/ fc' = <<"request">> /\ m_is_armed' = armed /\ request' = request
         \/ /\ fc' = <<>> /\ m_is_armed' = m_is_armed
            /\ request' = [request EXCEPT !.tx_power = TRUE]
      /\ UNCHANGED <<settings, item, power, header, rate, passive, wt, armed, rc,
                     asked, user, n>>
  <2>1. fc = <<"request">> \/ fc = <<"m_is_armed", "request">>
    BY DEF update_arming_state, IInv, TypeOK
  <2>2. CASE fc = <<"request">>
    <3>1. Len(fc) = 1 /\ Tail(fc) = <<>>
      BY <2>2
    <3>2. QED
      BY <3>1 DEF update_arming_state
  <2>3. CASE fc = <<"m_is_armed", "request">>
    <3>1. Len(fc) = 2 /\ Tail(fc) = <<"request">>
      BY <2>3
    <3>2. QED
      BY <3>1 DEF update_arming_state
  <2>4. QED
    BY <2>1, <2>2, <2>3
<1>k. fc' # <<>> \/ request'.tx_power
  BY <1>a DEF IInv, TypeOK
<1>1. TypeOK'
  BY <1>u, <1>a DEF IInv, TypeOK
<1>2. RecordsOK'
  BY <1>u, <1>a DEF IInv, RecordsOK, ItemOK
<1>3. PlaceOK'
  BY <1>u, <1>a DEF IInv, RecordsOK, PlaceOK, ItemOK, None
<1>4. PowerIsApplied'
  BY <1>u, <1>a, <1>k DEF IInv, PowerIsApplied
<1>5. IndexRead'
  BY <1>u, <1>a, <1>k DEF IInv, IndexRead, TypeOK
<1>6. WidthApplied'
  BY <1>u, <1>a DEF IInv, RecordsOK, PlaceOK, WidthApplied, PowerForWidth, TypeOK, None
<1>7. ReducedAt40'
  BY <1>u, <1>a DEF IInv, RecordsOK, PlaceOK, ReducedAt40, PowerForWidth, IndexRead, TypeOK
<1>8. ReducedBefore40'
  BY <1>u, <1>a DEF IInv, RecordsOK, PlaceOK, ReducedBefore40, WidthApplied, ReducedAt40, PowerForWidth, IndexRead, TypeOK
<1>9. PassiveOK'
  BY <1>u, <1>a DEF IInv, RecordsOK, PassiveOK, TypeOK
<1>10. QED
  BY <1>1, <1>2, <1>3, <1>4, <1>5, <1>6, <1>7, <1>8, <1>9 DEF IInv

\* an RC channel changes,
LEMMA set_rc_channelsStep ==
    ASSUME IInv, NEW pwm \in RcChannels, set_rc_channels(pwm), UNCHANGED unit
    PROVE  IInv'
<1> USE DEF set_rc_channels, others, link, Goto, IsAir, IsAU, Event
<1>u. unit' = unit
  OBVIOUS
<1>p. /\ PowerIndex(settings, m_is_armed)' = PowerIndex(settings, m_is_armed)
      /\ PowerWanted' = PowerWanted
  BY <1>u, PowerKept, SettingsKept DEF IInv
<1>1. TypeOK'
  BY <1>u DEF IInv, TypeOK
<1>2. RecordsOK'
  BY <1>u DEF IInv, RecordsOK, ItemOK
<1>3. PlaceOK'
  BY <1>u DEF IInv, RecordsOK, PlaceOK, ItemOK, None
<1>4. PowerIsApplied'
  BY <1>u, <1>p DEF IInv, RecordsOK, TypeOK, PowerIsApplied, IndexRead
<1>5. IndexRead'
  BY <1>u, <1>p DEF IInv, RecordsOK, IndexRead, TypeOK
<1>6. WidthApplied'
  BY <1>u DEF IInv, RecordsOK, PlaceOK, WidthApplied, PowerForWidth, TypeOK, None
<1>7. ReducedAt40'
  BY <1>u DEF IInv, RecordsOK, PlaceOK, ReducedAt40, PowerForWidth, IndexRead, TypeOK
<1>8. ReducedBefore40'
  BY <1>u DEF IInv, RecordsOK, PlaceOK, ReducedBefore40, WidthApplied, ReducedAt40, PowerForWidth, IndexRead, TypeOK
<1>9. PassiveOK'
  BY <1>u DEF IInv, RecordsOK, PassiveOK, TypeOK
<1>10. QED
  BY <1>1, <1>2, <1>3, <1>4, <1>5, <1>6, <1>7, <1>8, <1>9 DEF IInv

\* the user writes a setting of the video or the RC channel,
LEMMA SetAirStep ==
    ASSUME IInv, SetAir, UNCHANGED unit
    PROVE  IInv'
<1> USE DEF others, link, IsAir, IsAU, Event
<1>u. unit' = unit
  OBVIOUS
<1>s. settings \in Settings
  BY DEF IInv, TypeOK
<1>a. /\ SamePower(settings, settings')
      /\ settings'.wb_enable_listen_only_mode = settings.wb_enable_listen_only_mode
      /\ UNCHANGED <<armed, m_is_armed, fc, rc, power, header, passive>>
      /\ UNCHANGED <<request, item, wt, asked, user>>
  <2>1. ASSUME NEW q \in FecPercs,
                settings' = [settings EXCEPT !.wb_video_fec_percentage = q]
       PROVE  /\ SamePower(settings, settings')
              /\ settings'.wb_enable_listen_only_mode = settings.wb_enable_listen_only_mode
    <3>1. /\ SamePower(settings, [settings EXCEPT !.wb_video_fec_percentage = q])
          /\ [settings EXCEPT !.wb_video_fec_percentage = q].wb_enable_listen_only_mode
                 = settings.wb_enable_listen_only_mode
      BY <1>s, OtherSettings
    <3>2. QED
      BY <2>1, <3>1
  <2>2. ASSUME NEW q \in RatePercs,
                settings' = [settings EXCEPT !.wb_video_rate_for_mcs_adjustment_percent = q]
       PROVE  /\ SamePower(settings, settings')
              /\ settings'.wb_enable_listen_only_mode = settings.wb_enable_listen_only_mode
    <3>1. /\ SamePower(settings, [settings EXCEPT !.wb_video_rate_for_mcs_adjustment_percent = q])
          /\ [settings EXCEPT !.wb_video_rate_for_mcs_adjustment_percent = q].wb_enable_listen_only_mode
                 = settings.wb_enable_listen_only_mode
      BY <1>s, OtherSettings
    <3>2. QED
      BY <2>2, <3>1
  <2>3. ASSUME NEW q \in BOOLEAN,
                settings' = [settings EXCEPT !.enable_wb_video_variable_bitrate = q]
       PROVE  /\ SamePower(settings, settings')
              /\ settings'.wb_enable_listen_only_mode = settings.wb_enable_listen_only_mode
    <3>1. /\ SamePower(settings, [settings EXCEPT !.enable_wb_video_variable_bitrate = q])
          /\ [settings EXCEPT !.enable_wb_video_variable_bitrate = q].wb_enable_listen_only_mode
                 = settings.wb_enable_listen_only_mode
      BY <1>s, OtherSettings
    <3>2. QED
      BY <2>3, <3>1
  <2>4. ASSUME NEW q \in {0, 1},
                settings' = [settings EXCEPT !.wb_mcs_index_via_rc_channel = q]
       PROVE  /\ SamePower(settings, settings')
              /\ settings'.wb_enable_listen_only_mode = settings.wb_enable_listen_only_mode
    <3>1. /\ SamePower(settings, [settings EXCEPT !.wb_mcs_index_via_rc_channel = q])
          /\ [settings EXCEPT !.wb_mcs_index_via_rc_channel = q].wb_enable_listen_only_mode
                 = settings.wb_enable_listen_only_mode
      BY <1>s, OtherSettings
    <3>2. QED
      BY <2>4, <3>1
  <2>5. /\ SamePower(settings, settings')
        /\ settings'.wb_enable_listen_only_mode = settings.wb_enable_listen_only_mode
    BY <2>1, <2>2, <2>3, <2>4 DEF SetAir
  <2>6. QED
    BY <2>5 DEF SetAir
<1>p. /\ PowerIndex(settings, m_is_armed)' = PowerIndex(settings, m_is_armed)
      /\ PowerWanted' = PowerWanted
  BY <1>u, <1>a, PowerKept
<1>w. /\ settings' \in Settings
      /\ settings'.wb_air_tx_channel_width = settings.wb_air_tx_channel_width
  BY <1>a DEF SamePower
<1>1. TypeOK'
  BY <1>u, <1>a, <1>w DEF IInv, TypeOK
<1>2. RecordsOK'
  BY <1>u, <1>a, <1>w DEF IInv, RecordsOK, ItemOK
<1>3. PlaceOK'
  BY <1>u, <1>a, <1>w DEF IInv, RecordsOK, PlaceOK, ItemOK, None
<1>4. PowerIsApplied'
  BY <1>u, <1>a, <1>w, <1>p DEF IInv, RecordsOK, TypeOK, PowerIsApplied, IndexRead
<1>5. IndexRead'
  BY <1>u, <1>a, <1>w, <1>p DEF IInv, RecordsOK, IndexRead, TypeOK
<1>6. WidthApplied'
  BY <1>u, <1>a, <1>w DEF IInv, RecordsOK, PlaceOK, WidthApplied, PowerForWidth, TypeOK, None
<1>7. ReducedAt40'
  BY <1>u, <1>a, <1>w DEF IInv, RecordsOK, PlaceOK, ReducedAt40, PowerForWidth, IndexRead, TypeOK
<1>8. ReducedBefore40'
  BY <1>u, <1>a, <1>w DEF IInv, RecordsOK, PlaceOK, ReducedBefore40, WidthApplied, ReducedAt40, PowerForWidth, IndexRead, TypeOK
<1>9. PassiveOK'
  BY <1>u, <1>a, <1>w DEF IInv, RecordsOK, PassiveOK, TypeOK
<1>10. QED
  BY <1>1, <1>2, <1>3, <1>4, <1>5, <1>6, <1>7, <1>8, <1>9 DEF IInv

\* or the passive mode,
LEMMA SetPassiveStep ==
    ASSUME IInv, NEW value \in BOOLEAN, SetPassive(value), UNCHANGED unit
    PROVE  IInv'
<1> USE DEF others, link, IsAir, IsAU, Event
<1>u. unit' = unit
  OBVIOUS
<1>s. settings \in Settings
  BY DEF IInv, TypeOK
<1>a. /\ SamePower(settings, settings')
      /\ settings'.wb_enable_listen_only_mode = value /\ user' = <<value>> /\ ~IsAir
      /\ UNCHANGED <<armed, m_is_armed, fc, rc, power, header, passive>>
      /\ UNCHANGED <<request, item, wt, asked>>
  BY <1>s, OtherSettings DEF SetPassive
<1>p. /\ PowerIndex(settings, m_is_armed)' = PowerIndex(settings, m_is_armed)
      /\ PowerWanted' = PowerWanted
  BY <1>u, <1>a, PowerKept
<1>w. /\ settings' \in Settings
      /\ settings'.wb_air_tx_channel_width = settings.wb_air_tx_channel_width
  BY <1>a DEF SamePower
<1>1. TypeOK'
  BY <1>u, <1>a, <1>w DEF IInv, TypeOK
<1>2. RecordsOK'
  BY <1>u, <1>a, <1>w DEF IInv, RecordsOK, ItemOK
<1>3. PlaceOK'
  BY <1>u, <1>a, <1>w DEF IInv, RecordsOK, PlaceOK, ItemOK, None
<1>4. PowerIsApplied'
  BY <1>u, <1>a, <1>w, <1>p DEF IInv, RecordsOK, TypeOK, PowerIsApplied, IndexRead
<1>5. IndexRead'
  BY <1>u, <1>a, <1>w, <1>p DEF IInv, RecordsOK, IndexRead, TypeOK
<1>6. WidthApplied'
  BY <1>u, <1>a, <1>w DEF IInv, RecordsOK, PlaceOK, WidthApplied, PowerForWidth, TypeOK, None
<1>7. ReducedAt40'
  BY <1>u, <1>a, <1>w DEF IInv, RecordsOK, PlaceOK, ReducedAt40, PowerForWidth, IndexRead, TypeOK
<1>8. ReducedBefore40'
  BY <1>u, <1>a, <1>w DEF IInv, RecordsOK, PlaceOK, ReducedBefore40, WidthApplied, ReducedAt40, PowerForWidth, IndexRead, TypeOK
<1>9. PassiveOK'
  BY <1>u, <1>a, <1>w DEF IInv, RecordsOK, PassiveOK, TypeOK
<1>10. QED
  BY <1>1, <1>2, <1>3, <1>4, <1>5, <1>6, <1>7, <1>8, <1>9 DEF IInv

\* the worker takes a new MCS index,
LEMMA SetAirMcsStep ==
    ASSUME IInv, SetAirMcs, UNCHANGED unit
    PROVE  IInv'
<1> USE DEF others, link, IsAir, IsAU, Event
<1>u. unit' = unit
  OBVIOUS
<1>s. settings \in Settings
  BY DEF IInv, TypeOK
<1>a. /\ SamePower(settings, settings')
      /\ settings'.wb_enable_listen_only_mode = settings.wb_enable_listen_only_mode
      /\ UNCHANGED <<armed, m_is_armed, fc, rc, power, header, passive>>
      /\ request' = [request EXCEPT !.air_mcs_index = TRUE]
      /\ item' = None /\ wt.pc = "item" /\ wt'.pc = "power"
      /\ wt' = [pc |-> wt'.pc, then |-> wt'.then, read |-> wt'.read,
                used |-> wt'.used, close |-> wt'.close]
      /\ UNCHANGED <<asked, user>>
  <2>1. item.value \in 0 .. 31
    BY WorkerAssumption DEF SetAirMcs, IInv, RecordsOK, ItemOK
  <2>2. QED
    BY <1>s, <2>1, OtherSettings DEF SetAirMcs, Goto, IInv, RecordsOK
<1>p. /\ PowerIndex(settings, m_is_armed)' = PowerIndex(settings, m_is_armed)
      /\ PowerWanted' = PowerWanted
  BY <1>u, <1>a, PowerKept
<1>w. /\ settings' \in Settings
      /\ settings'.wb_air_tx_channel_width = settings.wb_air_tx_channel_width
  BY <1>a DEF SamePower
<1>1. TypeOK'
  BY <1>u, <1>a, <1>w DEF IInv, TypeOK
<1>2. RecordsOK'
  BY <1>u, <1>a, <1>w DEF IInv, RecordsOK, ItemOK, None
<1>3. PlaceOK'
  BY <1>u, <1>a, <1>w DEF IInv, RecordsOK, PlaceOK, ItemOK, None
<1>4. PowerIsApplied'
  BY <1>u, <1>a, <1>w, <1>p DEF IInv, RecordsOK, TypeOK, PowerIsApplied, IndexRead
<1>5. IndexRead'
  BY <1>u, <1>a, <1>w, <1>p DEF IInv, RecordsOK, IndexRead, TypeOK
<1>6. WidthApplied'
  BY <1>u, <1>a, <1>w DEF IInv, RecordsOK, PlaceOK, WidthApplied, PowerForWidth, TypeOK, None
<1>7. ReducedAt40'
  BY <1>u, <1>a, <1>w DEF IInv, RecordsOK, PlaceOK, ReducedAt40, PowerForWidth, IndexRead, TypeOK
<1>8. ReducedBefore40'
  BY <1>u, <1>a, <1>w DEF IInv, RecordsOK, PlaceOK, ReducedBefore40, WidthApplied, ReducedAt40, PowerForWidth, IndexRead, TypeOK
<1>9. PassiveOK'
  BY <1>u, <1>a, <1>w DEF IInv, RecordsOK, PassiveOK, TypeOK
<1>10. QED
  BY <1>1, <1>2, <1>3, <1>4, <1>5, <1>6, <1>7, <1>8, <1>9 DEF IInv

\* a new frequency,
LEMMA SetFrequencyStep ==
    ASSUME IInv, SetFrequency, UNCHANGED unit
    PROVE  IInv'
<1> USE DEF others, link, IsAir, IsAU, Event
<1>u. unit' = unit
  OBVIOUS
<1>s. settings \in Settings
  BY DEF IInv, TypeOK
<1>a. /\ SamePower(settings, settings')
      /\ settings'.wb_enable_listen_only_mode = settings.wb_enable_listen_only_mode
      /\ UNCHANGED <<armed, m_is_armed, fc, rc, power, header, passive>>
      /\ wt.pc = "item" /\ wt'.then = "power" /\ item.kind = "SET_FREQ"
      /\ wt'.pc \in {"announce", "stop injection"}
      /\ wt' = [pc |-> wt'.pc, then |-> wt'.then, read |-> wt'.read,
                used |-> wt'.used, close |-> wt'.close]
      /\ UNCHANGED <<request, item, asked, user>>
  <2>1. item.value \in Freqs
    BY DEF SetFrequency, IInv, RecordsOK, ItemOK
  <2>2. QED
    BY <1>s, <2>1, OtherSettings DEF SetFrequency, IInv, RecordsOK
<1>p. /\ PowerIndex(settings, m_is_armed)' = PowerIndex(settings, m_is_armed)
      /\ PowerWanted' = PowerWanted
  BY <1>u, <1>a, PowerKept
<1>w. /\ settings' \in Settings
      /\ settings'.wb_air_tx_channel_width = settings.wb_air_tx_channel_width
  BY <1>a DEF SamePower
<1>1. TypeOK'
  BY <1>u, <1>a, <1>w DEF IInv, TypeOK
<1>2. RecordsOK'
  BY <1>u, <1>a, <1>w DEF IInv, RecordsOK, ItemOK
<1>3. PlaceOK'
  BY <1>u, <1>a, <1>w DEF IInv, RecordsOK, PlaceOK, ItemOK, None
<1>4. PowerIsApplied'
  BY <1>u, <1>a, <1>w, <1>p DEF IInv, RecordsOK, TypeOK, PowerIsApplied, IndexRead
<1>5. IndexRead'
  BY <1>u, <1>a, <1>w, <1>p DEF IInv, RecordsOK, IndexRead, TypeOK
<1>6. WidthApplied'
  BY <1>u, <1>a, <1>w DEF IInv, RecordsOK, PlaceOK, WidthApplied, PowerForWidth, TypeOK, None
<1>7. ReducedAt40'
  BY <1>u, <1>a, <1>w DEF IInv, RecordsOK, PlaceOK, ReducedAt40, PowerForWidth, IndexRead, TypeOK
<1>8. ReducedBefore40'
  BY <1>u, <1>a, <1>w DEF IInv, RecordsOK, PlaceOK, ReducedBefore40, WidthApplied, ReducedAt40, PowerForWidth, IndexRead, TypeOK
<1>9. PassiveOK'
  BY <1>u, <1>a, <1>w DEF IInv, RecordsOK, PassiveOK, TypeOK
<1>10. QED
  BY <1>1, <1>2, <1>3, <1>4, <1>5, <1>6, <1>7, <1>8, <1>9 DEF IInv

\* the one of the air unit,
LEMMA FollowAirStep ==
    ASSUME IInv, NEW f \in Freqs, FollowAir(f), UNCHANGED unit
    PROVE  IInv'
<1> USE DEF others, link, IsAir, IsAU, Event
<1>u. unit' = unit
  OBVIOUS
<1>s. settings \in Settings
  BY DEF IInv, TypeOK
<1>a. /\ SamePower(settings, settings')
      /\ settings'.wb_enable_listen_only_mode = settings.wb_enable_listen_only_mode
      /\ UNCHANGED <<armed, m_is_armed, fc, rc, power, header, passive>>
      /\ ~IsAir /\ wt.pc = "manage" /\ wt'.then = "rate"
      /\ wt'.pc = "stop injection"
      /\ wt' = [pc |-> wt'.pc, then |-> wt'.then, read |-> wt'.read,
                used |-> wt'.used, close |-> wt'.close]
      /\ UNCHANGED <<request, item, asked, user>>
  BY <1>s, OtherSettings DEF FollowAir, IInv, RecordsOK
<1>p. /\ PowerIndex(settings, m_is_armed)' = PowerIndex(settings, m_is_armed)
      /\ PowerWanted' = PowerWanted
  BY <1>u, <1>a, PowerKept
<1>w. /\ settings' \in Settings
      /\ settings'.wb_air_tx_channel_width = settings.wb_air_tx_channel_width
  BY <1>a DEF SamePower
<1>1. TypeOK'
  BY <1>u, <1>a, <1>w DEF IInv, TypeOK
<1>2. RecordsOK'
  BY <1>u, <1>a, <1>w DEF IInv, RecordsOK, ItemOK
<1>3. PlaceOK'
  BY <1>u, <1>a, <1>w DEF IInv, RecordsOK, PlaceOK, ItemOK, None
<1>4. PowerIsApplied'
  BY <1>u, <1>a, <1>w, <1>p DEF IInv, RecordsOK, TypeOK, PowerIsApplied, IndexRead
<1>5. IndexRead'
  BY <1>u, <1>a, <1>w, <1>p DEF IInv, RecordsOK, IndexRead, TypeOK
<1>6. WidthApplied'
  BY <1>u, <1>a, <1>w DEF IInv, RecordsOK, PlaceOK, WidthApplied, PowerForWidth, TypeOK, None
<1>7. ReducedAt40'
  BY <1>u, <1>a, <1>w DEF IInv, RecordsOK, PlaceOK, ReducedAt40, PowerForWidth, IndexRead, TypeOK
<1>8. ReducedBefore40'
  BY <1>u, <1>a, <1>w DEF IInv, RecordsOK, PlaceOK, ReducedBefore40, WidthApplied, ReducedAt40, PowerForWidth, IndexRead, TypeOK
<1>9. PassiveOK'
  BY <1>u, <1>a, <1>w DEF IInv, RecordsOK, PassiveOK, TypeOK
<1>10. QED
  BY <1>1, <1>2, <1>3, <1>4, <1>5, <1>6, <1>7, <1>8, <1>9 DEF IInv

\* the MCS index of the RC channel,
LEMMA wt_perform_mcs_via_rc_channel_if_enabledStep ==
    ASSUME IInv, wt_perform_mcs_via_rc_channel_if_enabled, UNCHANGED unit
    PROVE  IInv'
<1> USE DEF others, link, IsAir, IsAU, Event
<1>u. unit' = unit
  OBVIOUS
<1>s. settings \in Settings
  BY DEF IInv, TypeOK
<1>a. /\ SamePower(settings, settings')
      /\ settings'.wb_enable_listen_only_mode = settings.wb_enable_listen_only_mode
      /\ UNCHANGED <<armed, m_is_armed, fc, rc, power, header, passive>>
      /\ wt.pc = "rc" /\ wt'.pc = "manage" /\ wt'.then = wt.then
      /\ request' = request \/ request' = [request EXCEPT !.air_mcs_index = TRUE]
      /\ wt' = [pc |-> wt'.pc, then |-> wt'.then, read |-> wt'.read,
                used |-> wt'.used, close |-> wt'.close]
      /\ UNCHANGED <<item, asked, user>>
  <2>1. McsFromRc(rc) # Unknown => McsFromRc(rc) \in 0 .. 31
    BY DEF McsFromRc
  <2>2. CASE RcChangesMcs
    <3>1. McsFromRc(rc) \in 0 .. 31
      BY <2>1, <2>2 DEF RcChangesMcs
    <3>2. /\ settings' = [settings EXCEPT !.wb_air_mcs_index = McsFromRc(rc)]
          /\ request' = [request EXCEPT !.air_mcs_index = TRUE]
      BY <2>2 DEF wt_perform_mcs_via_rc_channel_if_enabled
    <3>3. /\ SamePower(settings, [settings EXCEPT !.wb_air_mcs_index = McsFromRc(rc)])
          /\ [settings EXCEPT !.wb_air_mcs_index = McsFromRc(rc)].wb_enable_listen_only_mode
                 = settings.wb_enable_listen_only_mode
      BY <1>s, <3>1, OtherSettings
    <3>4. QED
      BY <3>2, <3>3
         DEF wt_perform_mcs_via_rc_channel_if_enabled, Goto, IInv, RecordsOK
  <2>3. CASE ~RcChangesMcs
    BY <2>3, SettingsKept
       DEF wt_perform_mcs_via_rc_channel_if_enabled, Goto, IInv, RecordsOK
  <2>4. QED
    BY <2>2, <2>3
<1>p. /\ PowerIndex(settings, m_is_armed)' = PowerIndex(settings, m_is_armed)
      /\ PowerWanted' = PowerWanted
  BY <1>u, <1>a, PowerKept
<1>w. /\ settings' \in Settings
      /\ settings'.wb_air_tx_channel_width = settings.wb_air_tx_channel_width
  BY <1>a DEF SamePower
<1>1. TypeOK'
  BY <1>u, <1>a, <1>w DEF IInv, TypeOK
<1>2. RecordsOK'
  BY <1>u, <1>a, <1>w DEF IInv, RecordsOK, ItemOK
<1>3. PlaceOK'
  BY <1>u, <1>a, <1>w DEF IInv, RecordsOK, PlaceOK, ItemOK, None
<1>4. PowerIsApplied'
  BY <1>u, <1>a, <1>w, <1>p DEF IInv, RecordsOK, TypeOK, PowerIsApplied, IndexRead
<1>5. IndexRead'
  BY <1>u, <1>a, <1>w, <1>p DEF IInv, RecordsOK, IndexRead, TypeOK
<1>6. WidthApplied'
  BY <1>u, <1>a, <1>w DEF IInv, RecordsOK, PlaceOK, WidthApplied, PowerForWidth, TypeOK, None
<1>7. ReducedAt40'
  BY <1>u, <1>a, <1>w DEF IInv, RecordsOK, PlaceOK, ReducedAt40, PowerForWidth, IndexRead, TypeOK
<1>8. ReducedBefore40'
  BY <1>u, <1>a, <1>w DEF IInv, RecordsOK, PlaceOK, ReducedBefore40, WidthApplied, ReducedAt40, PowerForWidth, IndexRead, TypeOK
<1>9. PassiveOK'
  BY <1>u, <1>a, <1>w DEF IInv, RecordsOK, PassiveOK, TypeOK
<1>10. QED
  BY <1>1, <1>2, <1>3, <1>4, <1>5, <1>6, <1>7, <1>8, <1>9 DEF IInv

\* a power,
LEMMA SetTxPowerStep ==
    ASSUME IInv, SetTxPower, UNCHANGED unit
    PROVE  IInv'
<1> USE DEF others, link, IsAir, IsAU, Event
<1>u. unit' = unit
  OBVIOUS
<1>s. settings \in Settings
  BY DEF IInv, TypeOK
<1>a. /\ settings' \in Settings
      /\ settings'.wb_enable_listen_only_mode = settings.wb_enable_listen_only_mode
      /\ settings'.wb_air_tx_channel_width = settings.wb_air_tx_channel_width
      /\ UNCHANGED <<armed, m_is_armed, fc, rc, power, header, passive>>
      /\ request' = [request EXCEPT !.tx_power = TRUE]
      /\ item' = None /\ wt.pc = "item" /\ wt'.pc = "power"
      /\ wt' = [pc |-> wt'.pc, then |-> wt'.then, read |-> wt'.read,
                used |-> wt'.used, close |-> wt'.close]
      /\ UNCHANGED <<asked, user>>
  <2>1. /\ item.kind = "SET_TX_POWER_MW" =>
               /\ item.armed \in BOOLEAN /\ item.value \in MilliWatts
               /\ ~item.armed => item.value # Disabled
        /\ item.kind = "SET_TX_POWER_INDEX" =>
               item.armed \in BOOLEAN /\ item.value \in Indices
    BY DEF IInv, RecordsOK, ItemOK
  <2>2. \/ /\ item.value \in MilliWatts \ {Disabled}
           /\ settings' = [settings EXCEPT !.mw = item.value]
        \/ /\ item.value \in MilliWatts
           /\ settings' = [settings EXCEPT !.mw_armed = item.value]
        \/ /\ item.value \in Indices
           /\ \/ settings' = [settings EXCEPT !.idx = item.value]
              \/ settings' = [settings EXCEPT !.idx_armed = item.value]
    <3>1. CASE item.kind = "SET_TX_POWER_MW" /\ item.armed
      <4>1. PowerSetting(item) = "mw_armed"
        BY <3>1 DEF PowerSetting
      <4>2. QED
        BY <2>1, <3>1, <4>1 DEF SetTxPower
    <3>2. CASE item.kind = "SET_TX_POWER_MW" /\ ~item.armed
      <4>1. PowerSetting(item) = "mw"
        BY <3>2 DEF PowerSetting
      <4>2. QED
        BY <2>1, <3>2, <4>1 DEF SetTxPower
    <3>3. CASE item.kind = "SET_TX_POWER_INDEX" /\ item.armed
      <4>1. PowerSetting(item) = "idx_armed"
        BY <3>3 DEF PowerSetting
      <4>2. QED
        BY <2>1, <3>3, <4>1 DEF SetTxPower
    <3>4. CASE item.kind = "SET_TX_POWER_INDEX" /\ ~item.armed
      <4>1. PowerSetting(item) = "idx"
        BY <3>4 DEF PowerSetting
      <4>2. QED
        BY <2>1, <3>4, <4>1 DEF SetTxPower
    <3>5. QED
      BY <3>1, <3>2, <3>3, <3>4 DEF SetTxPower
  <2>3. /\ settings' \in Settings
        /\ settings'.wb_enable_listen_only_mode = settings.wb_enable_listen_only_mode
        /\ settings'.wb_air_tx_channel_width = settings.wb_air_tx_channel_width
    <3>1. CASE /\ item.value \in MilliWatts \ {Disabled}
               /\ settings' = [settings EXCEPT !.mw = item.value]
      BY <1>s, <3>1, PowerSettings
    <3>2. CASE /\ item.value \in MilliWatts
               /\ settings' = [settings EXCEPT !.mw_armed = item.value]
      BY <1>s, <3>2, PowerSettings
    <3>3. CASE /\ item.value \in Indices
               /\ settings' = [settings EXCEPT !.idx = item.value]
      BY <1>s, <3>3, PowerSettings
    <3>4. CASE /\ item.value \in Indices
               /\ settings' = [settings EXCEPT !.idx_armed = item.value]
      BY <1>s, <3>4, PowerSettings
    <3>5. QED
      BY <2>2, <3>1, <3>2, <3>3, <3>4
  <2>4. QED
    BY <2>3 DEF SetTxPower, Goto, IInv, RecordsOK
<1>1. TypeOK'
  BY <1>u, <1>a DEF IInv, TypeOK
<1>2. RecordsOK'
  BY <1>u, <1>a DEF IInv, RecordsOK, ItemOK, None
<1>3. PlaceOK'
  BY <1>u, <1>a DEF IInv, RecordsOK, PlaceOK, ItemOK, None
<1>4. PowerIsApplied'
  BY <1>u, <1>a DEF IInv, PowerIsApplied, TypeOK
<1>5. IndexRead'
  BY <1>u, <1>a DEF IInv, IndexRead, TypeOK
<1>6. WidthApplied'
  BY <1>u, <1>a DEF IInv, RecordsOK, PlaceOK, WidthApplied, PowerForWidth, TypeOK, None
<1>7. ReducedAt40'
  BY <1>u, <1>a DEF IInv, RecordsOK, PlaceOK, ReducedAt40, PowerForWidth, IndexRead, TypeOK
<1>8. ReducedBefore40'
  BY <1>u, <1>a DEF IInv, RecordsOK, PlaceOK, ReducedBefore40, WidthApplied, ReducedAt40, PowerForWidth, IndexRead, TypeOK
<1>9. PassiveOK'
  BY <1>u, <1>a DEF IInv, RecordsOK, PassiveOK, TypeOK
<1>10. QED
  BY <1>1, <1>2, <1>3, <1>4, <1>5, <1>6, <1>7, <1>8, <1>9 DEF IInv

\* or a channel width.
LEMMA SetChannelWidthStep ==
    ASSUME IInv, SetChannelWidth, UNCHANGED unit
    PROVE  IInv'
<1> USE DEF others, link, IsAir, IsAU, Event
<1>u. unit' = unit
  OBVIOUS
<1>s. settings \in Settings
  BY DEF IInv, TypeOK
<1>a. /\ settings' \in Settings
      /\ settings'.wb_enable_listen_only_mode = settings.wb_enable_listen_only_mode
      /\ UNCHANGED <<armed, m_is_armed, fc, rc, power, header, passive>>
      /\ wt.pc = "item" /\ item.kind = "SET_CHWIDTH"
      /\ wt'.pc = "index" /\ wt'.then = "stop injection"
      /\ wt' = [pc |-> wt'.pc, then |-> wt'.then, read |-> wt'.read,
                used |-> wt'.used, close |-> wt'.close]
      /\ UNCHANGED <<request, item, asked, user>>
  <2>1. item.value \in Widths
    BY DEF SetChannelWidth, IInv, RecordsOK, ItemOK
  <2>2. QED
    BY <1>s, <2>1, PowerSettings DEF SetChannelWidth, IInv, RecordsOK
<1>1. TypeOK'
  BY <1>u, <1>a DEF IInv, TypeOK
<1>2. RecordsOK'
  BY <1>u, <1>a DEF IInv, RecordsOK, ItemOK
<1>3. PlaceOK'
  BY <1>u, <1>a DEF IInv, RecordsOK, PlaceOK, ItemOK, None
<1>4. PowerIsApplied'
  BY <1>u, <1>a DEF IInv, PowerIsApplied
<1>5. IndexRead'
  BY <1>u, <1>a DEF IInv, IndexRead
<1>6. WidthApplied'
  BY <1>u, <1>a DEF IInv, RecordsOK, PlaceOK, WidthApplied, PowerForWidth, TypeOK, None
<1>7. ReducedAt40'
  BY <1>u, <1>a DEF IInv, RecordsOK, PlaceOK, ReducedAt40, PowerForWidth, IndexRead, TypeOK
<1>8. ReducedBefore40'
  BY <1>u, <1>a DEF IInv, RecordsOK, PlaceOK, ReducedBefore40, WidthApplied, ReducedAt40, PowerForWidth, IndexRead, TypeOK
<1>9. PassiveOK'
  BY <1>u, <1>a DEF IInv, RecordsOK, PassiveOK, TypeOK
<1>10. QED
  BY <1>1, <1>2, <1>3, <1>4, <1>5, <1>6, <1>7, <1>8, <1>9 DEF IInv

\* So does every step of the unit.
LEMMA NextStep ==
    ASSUME IInv, [Next]_vars
    PROVE  IInv'
<1>1. CASE Next
  <2>u. UNCHANGED unit
    BY <1>1 DEF Next
  <2>1. CASE (\E i \in Items : Ask(i)) \/ SetAir \/ \E b \in BOOLEAN : SetPassive(b)
    BY <2>1, <2>u, AskStep, SetAirStep, SetPassiveStep
  <2>2. CASE FcArming \/ \E pwm \in RcChannels : set_rc_channels(pwm)
    BY <2>2, <2>u, FcArmingStep, set_rc_channelsStep
  <2>3. CASE \E f \in Freqs : FollowAir(f)
    BY <2>3, <2>u, FollowAirStep
  <2>4. CASE Callers
    BY <2>4, <2>u, try_schedule_work_itemStep, PassiveTransmitterStep,
       update_arming_stateStep DEF Callers
  <2>5. CASE Worker
    BY <2>5, <2>u, NoItemStep, SetTxPowerStep, SetAirMcsStep, SetFrequencyStep,
       AnnouncedStep, SetChannelWidthStep, StopInjectionStep, TuneStep,
       ReEnableInjectionStep, TakePowerRequestStep, ReadPowerIndexStep,
       CommandPowerStep, wt_perform_mcs_via_rc_channel_if_enabledStep, NoNewsStep,
       wt_perform_rate_adjustmentStep, UpdateHeaderStep DEF Worker
  <2>6. QED
    BY <1>1, <2>1, <2>2, <2>3, <2>4, <2>5 DEF Next
<1>2. CASE UNCHANGED vars
  <2>1. /\ PowerIndex(settings, m_is_armed)' = PowerIndex(settings, m_is_armed)
        /\ PowerWanted' = PowerWanted
    BY <1>2, PowerKept, SettingsKept DEF vars, link, IInv
  <2> USE DEF vars, link, IsAir, IsAU
  <2>2. TypeOK' /\ RecordsOK'
    BY <1>2 DEF IInv, TypeOK, RecordsOK, ItemOK
  <2>3. PlaceOK' /\ PassiveOK'
    BY <1>2 DEF IInv, PlaceOK, PassiveOK
  <2>4. PowerIsApplied' /\ IndexRead'
    BY <1>2, <2>1 DEF IInv, PowerIsApplied, IndexRead
  <2>5. WidthApplied' /\ ReducedAt40' /\ ReducedBefore40'
    BY <1>2 DEF IInv, WidthApplied, ReducedAt40, ReducedBefore40, PowerForWidth
  <2>6. QED
    BY <2>2, <2>3, <2>4, <2>5 DEF IInv
<1>3. QED
  BY <1>1, <1>2

\* What the constructor leaves satisfies it.
LEMMA InitInv ==
    ASSUME Init
    PROVE  IInv
<1>s. settings \in Settings /\ unit \in Units
  BY WorkerAssumption DEF Init
<1>1. TypeOK
  <2>1. header \in [mcs : 0 .. 31, width : Widths]
    BY <1>s, HeaderTypes DEF Init
  <2>2. power \in [mw : MilliWatts, idx : Indices \cup {50}]
    BY <1>s, PowerTypes DEF Init
  <2>3. passive \in BOOLEAN
    BY Zenon DEF Init
  <2>4. QED
    BY <1>s, <2>1, <2>2, <2>3 DEF Init, TypeOK
<1>2. RecordsOK
  BY DEF Init, RecordsOK, ItemOK, None
<1>3. PlaceOK
  BY DEF Init, PlaceOK
<1>4. PowerIsApplied
  BY DEF Init, PowerIsApplied, PowerWanted
<1>5. IndexRead
  BY DEF Init, IndexRead
<1>6. WidthApplied
  BY DEF Init, WidthApplied, TxHeader
<1>7. ReducedAt40
  BY <1>s, PowerTypes DEF Init, ReducedAt40
<1>8. ReducedBefore40
  BY DEF Init, ReducedBefore40, PowerForWidth
<1>9. PassiveOK
  BY DEF Init, PassiveOK
<1>10. QED
  BY <1>1, <1>2, <1>3, <1>4, <1>5, <1>6, <1>7, <1>8, <1>9 DEF IInv

\* The inductive invariant of the worker and the threads it meets.
THEOREM Invariance == Spec => []IInv
<1>1. Init => IInv
  BY InitInv
<1>2. IInv /\ [Next]_vars => IInv'
  BY NextStep
<1>3. QED
  BY <1>1, <1>2, PTL DEF Spec

----------------------------------------------------------------------------
(* The power.                                                              *)

\* No change of the power is lost between the worker, which clears the request
\* before it reads the arming state twice, and the flight controller's thread;
\* and an air unit with an RTL 88X2AU never sends at 40 MHz with more power
\* than its card bears, but for the end of a change away from 40 MHz.
THEOREM PowerReachesTheCard == Spec => []PowerInv
<1>1. ASSUME IInv
      PROVE  ReducedAt40WhenSettled
  <2> SUFFICES ASSUME IsAir, IsAU, header.width = 40, power.idx > 50
               PROVE  item.kind = "SET_CHWIDTH" /\ wt.pc \in {"stop injection", "tune"}
    BY DEF ReducedAt40WhenSettled
  <2>1. \A i \in Indices \cup {50} : i \in Int
    BY WorkerAssumption
  <2>2. power.idx \in Indices \cup {50}
    BY <1>1 DEF IInv, TypeOK
  <2>3. ~(power.idx <= 50)
    <3>1. power.idx \in Int
      BY <2>1, <2>2, Zenon
    <3>2. power.idx > 50
      OBVIOUS
    <3>3. QED
      BY <3>1, <3>2
  <2>4. settings.wb_air_tx_channel_width # 40
    BY <1>1, <2>3, Zenon DEF IInv, ReducedAt40, ReducedBefore40
  <2>5. ~PowerForWidth
    BY <1>1, <2>3, Zenon DEF IInv, ReducedBefore40
  <2>6. QED
    BY <1>1, <2>4, <2>5, Zenon DEF IInv, WidthApplied
<1>2. IInv => PowerInv
  BY <1>1 DEF IInv, PowerInv
<1>3. QED
  BY <1>2, Invariance, PTL

----------------------------------------------------------------------------
(* The passive mode.                                                       *)

\* The transmitter leaves the mode its user wants only in the worker's
\* re-enabling, with a setting that was read before the user changed it; an
\* air unit never does.
THEOREM StaleReadsOnly == Spec => OnlyStaleReadBreaks
<1>1. ASSUME IInv, [Next]_vars, PassiveAsSet, ~PassiveAsSet'
      PROVE  wt.pc = "inject" /\ wt.read # settings.wb_enable_listen_only_mode
  <2> USE DEF PassiveAsSet, IsAir, others, link, Goto, Event
  <2>1. CASE UNCHANGED vars
    BY <1>1, <2>1 DEF vars
  <2>u. CASE Next
    <3>u. unit' = unit
      BY <2>u DEF Next
    <3>1. CASE \E i \in Items : Ask(i)
      BY <1>1, <3>u, <3>1 DEF Ask
    <3>2. CASE SetAir
      BY <1>1, <3>u, <3>2 DEF SetAir, IInv, PassiveOK
    <3>3. CASE \E b \in BOOLEAN : SetPassive(b)
      BY <1>1, <3>u, <3>3 DEF SetPassive
    <3>4. CASE FcArming \/ \E pwm \in RcChannels : set_rc_channels(pwm)
      BY <1>1, <3>u, <3>4 DEF FcArming, set_rc_channels
    <3>5. CASE \E f \in Freqs : FollowAir(f)
      BY <1>1, <3>u, <3>5, OtherSettings DEF FollowAir, IInv, TypeOK
    <3>6. CASE try_schedule_work_item
      BY <1>1, <3>u, <3>6 DEF try_schedule_work_item
    <3>7. CASE update_arming_state
      BY <1>1, <3>u, <3>7 DEF update_arming_state
    <3>8. CASE PassiveTransmitter
      <4>1. user = <<settings.wb_enable_listen_only_mode>> /\ ~IsAir
        BY <1>1, <3>8 DEF PassiveTransmitter, IInv, PassiveOK
      <4>2. passive' = settings.wb_enable_listen_only_mode
        BY <3>8, <4>1 DEF PassiveTransmitter
      <4>3. QED
        BY <1>1, <3>u, <3>8, <4>1, <4>2 DEF PassiveTransmitter
    <3>9. CASE NoItem \/ Announced \/ TakePowerRequest \/ ReadPowerIndex \/ NoNews
      BY <1>1, <3>u, <3>9
         DEF NoItem, Announced, TakePowerRequest, ReadPowerIndex, NoNews,
             IInv, RecordsOK
    <3>10. CASE CommandPower
      BY <1>1, <3>u, <3>10 DEF CommandPower, IInv, RecordsOK
    <3>11. CASE wt_perform_rate_adjustment \/ UpdateHeader
      BY <1>1, <3>u, <3>11 DEF wt_perform_rate_adjustment, UpdateHeader, IInv, RecordsOK
    <3>12. CASE StopInjection \/ Tune
      BY <1>1, <3>u, <3>12 DEF StopInjection, Tune, IInv, RecordsOK
    <3>13. CASE ReEnableInjection
      BY <1>1, <3>u, <3>13, SettingsTypes
         DEF ReEnableInjection, IInv, RecordsOK, PassiveOK, TypeOK
    <3>14. CASE \/ SetTxPower \/ SetAirMcs \/ SetFrequency \/ SetChannelWidth
                \/ wt_perform_mcs_via_rc_channel_if_enabled
      <4>1. settings'.wb_enable_listen_only_mode = settings.wb_enable_listen_only_mode
        BY <1>1, <3>14, ListenOnlyKept DEF IInv
      <4>2. UNCHANGED <<passive, user>> /\ wt.pc \notin {"tune", "inject"}
        BY <3>14 DEF SetTxPower, SetAirMcs, SetFrequency, SetChannelWidth,
                     wt_perform_mcs_via_rc_channel_if_enabled
      <4>3. QED
        BY <1>1, <3>u, <4>1, <4>2
    <3>15. QED
      BY <2>u, <3>1, <3>2, <3>3, <3>4, <3>5, <3>6, <3>7, <3>8, <3>9, <3>10, <3>11,
         <3>12, <3>13, <3>14 DEF Next, Worker, Callers
  <2>2. QED
    BY <1>1, <2>1, <2>u
<1>2. IInv /\ [Next]_vars =>
        (PassiveAsSet /\ ~PassiveAsSet' =>
             wt.pc = "inject" /\ wt.read # settings.wb_enable_listen_only_mode)
  BY <1>1
<1>3. QED
  BY <1>2, Invariance, PTL DEF Spec, OnlyStaleReadBreaks

----------------------------------------------------------------------------
(* The rate.                                                               *)

\* Every entry of the table of rates is a natural number, whatever the index.
LEMMA RateOfTable ==
    ASSUME NEW mcs \in Int, NEW width
    PROVE  get_max_rate_possible_5G_kbits(mcs, width) \in Nat
<1> DEFINE r == CASE width = 10 -> 1 [] width = 20 -> 2 [] width = 40 -> 3
<1>1. CASE mcs + 1 \in DOMAIN RateTable /\ width \in {10, 20, 40}
  <2>1. DOMAIN RateTable = 1 .. 13
    BY DEF RateTable
  <2>2. \A i \in 1 .. 13 : \A c \in 1 .. 3 : RateTable[i][c] \in Nat
    BY DEF RateTable
  <2>3. r \in 1 .. 3
    BY <1>1
  <2>4. get_max_rate_possible_5G_kbits(mcs, width) = RateTable[mcs + 1][r]
    BY <1>1 DEF get_max_rate_possible_5G_kbits
  <2> HIDE DEF r
  <2>5. QED
    BY <1>1, <2>1, <2>2, <2>3, <2>4
<1>2. CASE ~(mcs + 1 \in DOMAIN RateTable /\ width \in {10, 20, 40})
  BY <1>2 DEF get_max_rate_possible_5G_kbits, DefaultRate
<1>3. QED
  BY <1>1, <1>2

\* So is what the user leaves of it for video.
LEMMA RateOfConfiguration ==
    ASSUME NEW s \in Settings
    PROVE  TotalRate(s) \in Nat
<1> DEFINE r == get_max_rate_possible_5G_kbits(s.wb_air_mcs_index, s.wb_air_tx_channel_width)
           p == s.wb_video_rate_for_mcs_adjustment_percent
           q == IF Is2G(s.wb_frequency) THEN (r * 100) \div 80 ELSE r
<1>1. r \in Nat
  BY SettingsTypes, RateOfTable
<1>2. p \in Nat
  <2>1. p \in RatePercs /\ RatePercs \subseteq 6 .. 1000
    BY SettingsTypes, WorkerAssumption
  <2> HIDE DEF p
  <2>2. QED
    BY <2>1
<1>3. TotalRate(s) = (q * p) \div 100
  BY DEF TotalRate, calculate_bitrate_for_wifi_config_kbits,
         get_max_rate_possible_2G_kbits
<1> HIDE DEF r, p
<1>4. q \in Nat
  BY <1>1
<1> HIDE DEF q
<1>5. q * p \in Nat
  BY <1>2, <1>4
<1>6. QED
  BY <1>3, <1>5

\* The rate recommended leaves room for the FEC packets.
LEMMA VideoRateFits ==
    ASSUME NEW s \in Settings
    PROVE  VideoRate(s) \in Nat /\ Fits(VideoRate(s), s)
<1> DEFINE T == TotalRate(s)
           f == s.wb_video_fec_percentage
           P == 100 + f
           D == 2 * P
           x == 2 * T * 100 + 100 + f
           q == x \div D
<1>1. VideoRate(s) = q /\ (Fits(q, s) <=> q * P <= 100 * T + 100 + f)
  BY Zenon DEF VideoRate, deduce_fec_overhead, Fits
<1>2. f \in FecPercs /\ FecPercs \subseteq 1 .. 400
  BY SettingsTypes, WorkerAssumption
<1>3. T \in Nat
  BY RateOfConfiguration
<1> HIDE DEF T, f
<1>4. f \in 1 .. 400
  BY <1>2
<1>5. P \in Nat /\ P > 0 /\ x = 200 * T + P /\ 100 * T + 100 + f = 100 * T + P
  BY <1>3, <1>4
<1> HIDE DEF P, x
<1>6. x \in Nat /\ D \in Nat /\ D > 0
  BY <1>3, <1>5
<1>7. q \in Nat /\ D * q <= x
  <2> HIDE DEF D
  <2>1. QED
    BY <1>6
<1> HIDE DEF q
<1>8. D * q = 2 * (q * P) /\ q * P \in Nat
  BY <1>5, <1>7
<1> HIDE DEF D
<1>9. q * P <= 100 * T + P
  BY <1>3, <1>5, <1>7, <1>8
<1>10. QED
  BY <1>1, <1>5, <1>7, <1>9

\* An X20 is told no more than that.
LEMMA X20RateIsLess ==
    ASSUME NEW k \in Nat, NEW a \in BOOLEAN
    PROVE  X20Rate(k, a) \in Nat /\ X20Rate(k, a) <= k
<1> DEFINE m == (k * 70) \div 100
           c == IF a THEN 100 ELSE 50
<1>1. m \in Nat /\ m <= k
  OBVIOUS
<1>2. X20Rate(k, a) = (m * c) \div 100 /\ c \in {50, 100}
  BY DEF X20Rate
<1> HIDE DEF m, c
<1>3. CASE c = 50
  BY <1>1, <1>2, <1>3
<1>4. CASE c = 100
  BY <1>1, <1>2, <1>4
<1>5. QED
  BY <1>2, <1>3, <1>4

\* The rate the encoder was told goes with the settings of the round, or is
\* that of an X20 which runs hot; the next header gets an MCS index that is
\* still the one of these settings.
RateOK ==
    /\ rate = [max |-> rate.max, total |-> rate.total,
               recommended |-> rate.recommended, announced |-> rate.announced,
               freq_changed |-> rate.freq_changed]
    /\ rate.recommended = rate.max
    /\ wt.used # None =>
           /\ wt.used \in Settings /\ wt.pc = "header"
           /\ wt.used.wb_air_mcs_index = settings.wb_air_mcs_index
           /\ \/ rate.announced = VideoRate(wt.used)
              \/ \E b \in BOOLEAN : rate.announced = X20Rate(VideoRate(wt.used), b)

\* Every step keeps that.
LEMMA NextRate ==
    ASSUME IInv, RateOK, [Next]_vars
    PROVE  RateOK'
<1>1. settings \in Settings
  BY DEF IInv, TypeOK
<1> USE DEF RateOK, others, link, Goto, Event
<1>2. CASE UNCHANGED vars
  BY <1>2 DEF vars
<1>3. CASE \/ \E i \in Items : Ask(i)
           \/ FcArming \/ \E pwm \in RcChannels : set_rc_channels(pwm)
           \/ try_schedule_work_item \/ PassiveTransmitter \/ update_arming_state
  BY <1>3 DEF Ask, FcArming, set_rc_channels, try_schedule_work_item,
              PassiveTransmitter, update_arming_state
<1>4. CASE SetAir \/ \E b \in BOOLEAN : SetPassive(b)
  <2>1. settings'.wb_air_mcs_index = settings.wb_air_mcs_index
    BY <1>1, <1>4 DEF SetAir, SetPassive, Settings
  <2>2. UNCHANGED <<rate, wt>>
    BY <1>4 DEF SetAir, SetPassive
  <2>3. QED
    BY <2>1, <2>2
<1>5. CASE \/ NoItem \/ SetTxPower \/ SetAirMcs \/ SetFrequency \/ Announced
           \/ SetChannelWidth \/ StopInjection \/ Tune
           \/ TakePowerRequest \/ ReadPowerIndex \/ CommandPower
           \/ wt_perform_mcs_via_rc_channel_if_enabled \/ NoNews
           \/ \E f \in Freqs : FollowAir(f)
  <2>1. wt.pc # "header" /\ rate' = rate /\ wt'.used = wt.used
    BY <1>5 DEF IInv, RecordsOK,
       NoItem, SetTxPower, SetAirMcs, SetFrequency, Announced, SetChannelWidth,
       StopInjection, Tune, TakePowerRequest, ReadPowerIndex, CommandPower,
       wt_perform_mcs_via_rc_channel_if_enabled, NoNews, FollowAir
  <2>2. QED
    BY <2>1
<1>6. CASE ReEnableInjection
  <2>1. wt.pc # "header" /\ wt'.used = wt.used
    BY <1>6 DEF IInv, RecordsOK, ReEnableInjection
  <2>2. QED
    BY <1>6, <2>1 DEF ReEnableInjection
<1>7. CASE wt_perform_rate_adjustment
  <2>1. CASE IsAir /\ settings.enable_wb_video_variable_bitrate
    <3>1. rate' = Adjusted(rate, settings, m_is_armed) /\ wt'.used = settings
          /\ wt'.pc = "header" /\ settings' = settings
      BY <1>7, <2>1 DEF wt_perform_rate_adjustment, IInv, RecordsOK
    <3>2. /\ rate' = [max |-> rate'.max, total |-> rate'.total,
                     recommended |-> rate'.recommended,
                     announced |-> rate'.announced,
                     freq_changed |-> rate'.freq_changed]
          /\ rate'.recommended = rate'.max
      BY <3>1 DEF Adjusted
    <3>3. rate'.announced = VideoRate(settings) \/ rate'.announced = X20Rate(VideoRate(settings), m_is_armed)
      BY <3>1 DEF Adjusted
    <3>4. m_is_armed \in BOOLEAN
      BY DEF IInv, TypeOK
    <3>5. QED
      BY <1>1, <3>1, <3>2, <3>3, <3>4, Zenon
  <2>2. CASE ~(IsAir /\ settings.enable_wb_video_variable_bitrate)
    BY <1>7, <2>2 DEF wt_perform_rate_adjustment, IInv, RecordsOK
  <2>3. QED
    BY <2>1, <2>2
<1>8. CASE UpdateHeader
  BY <1>8 DEF UpdateHeader, IInv, RecordsOK
<1>9. QED
  BY <1>2, <1>3, <1>4, <1>5, <1>6, <1>7, <1>8 DEF Next, Worker, Callers

\* Whatever user, RC channel and flight controller change in between, packets
\* are sent with a new MCS index only after the encoder was told a rate that
\* fits, with its FEC packets, what the link carries with that index.
THEOREM RateIsToldFirst == Spec => RateBeforeMcs
<1>1. ASSUME IInv, RateOK, [Next]_vars, header'.mcs # header.mcs, wt.used # None
      PROVE  Fits(rate.announced, [wt.used EXCEPT !.wb_air_mcs_index = header'.mcs])
  <2>1. wt.pc = "header" /\ wt.used \in Settings
    BY <1>1 DEF RateOK
  <2>2. UpdateHeader
    <3> USE DEF link, others
    <3>1. CASE UNCHANGED vars
      BY <1>1, <3>1 DEF vars
    <3>2. CASE \/ \E i \in Items : Ask(i)
               \/ SetAir \/ \E b \in BOOLEAN : SetPassive(b)
               \/ FcArming \/ \E pwm \in RcChannels : set_rc_channels(pwm)
               \/ Callers \/ \E f \in Freqs : FollowAir(f)
      BY <1>1, <3>2
         DEF Ask, SetAir, SetPassive, FcArming, set_rc_channels, FollowAir, Callers,
             try_schedule_work_item, PassiveTransmitter, update_arming_state
    <3>3. CASE Worker
      BY <2>1, <3>3
         DEF Worker, NoItem, SetTxPower, SetAirMcs, SetFrequency, Announced,
             SetChannelWidth, StopInjection, Tune, ReEnableInjection,
             TakePowerRequest, ReadPowerIndex, CommandPower,
             wt_perform_mcs_via_rc_channel_if_enabled, NoNews,
             wt_perform_rate_adjustment
    <3>4. QED
      BY <1>1, <3>1, <3>2, <3>3 DEF Next
  <2>3. header'.mcs = wt.used.wb_air_mcs_index
    BY <1>1, <2>2 DEF UpdateHeader, IInv, TypeOK, RateOK
  <2>4. [wt.used EXCEPT !.wb_air_mcs_index = header'.mcs] = wt.used
    BY <2>1, <2>3 DEF Settings
  <2> DEFINE V == VideoRate(wt.used)
  <2>5. V \in Nat /\ Fits(V, wt.used)
    BY <2>1, VideoRateFits
  <2>6. rate.announced \in Nat /\ rate.announced <= V
    <3>1. CASE rate.announced = V
      BY <2>5, <3>1
    <3>2. ASSUME NEW b \in BOOLEAN, rate.announced = X20Rate(V, b)
          PROVE  rate.announced \in Nat /\ rate.announced <= V
      BY <2>5, <3>2, X20RateIsLess
    <3>3. QED
      BY <1>1, <3>1, <3>2, Zenon DEF RateOK
  <2>7. Fits(rate.announced, wt.used)
    <3> DEFINE f == wt.used.wb_video_fec_percentage
               T == TotalRate(wt.used)
               P == 100 + f
               B == 100 * T + 100 + f
    <3>1. V * P <= B
      BY <2>5, Zenon DEF Fits
    <3>2. P \in Nat /\ B \in Nat
      <4>1. f \in FecPercs /\ FecPercs \subseteq 1 .. 400
        BY <2>1, SettingsTypes, WorkerAssumption
      <4>2. T \in Nat
        BY <2>1, RateOfConfiguration
      <4> HIDE DEF f, T
      <4>3. f \in 1 .. 400
        BY <4>1
      <4>4. QED
        BY <4>2, <4>3
    <3> HIDE DEF P, B, V
    <3>3. rate.announced * P <= V * P
      BY <2>5, <2>6, <3>2
    <3>4. rate.announced * P \in Nat /\ V * P \in Nat
      BY <2>5, <2>6, <3>2
    <3>5. rate.announced * P <= B
      BY <3>1, <3>2, <3>3, <3>4
    <3>6. QED
      BY <3>5, Zenon DEF Fits, P, B
  <2>8. QED
    BY <2>4, <2>7
<1>2. Init => RateOK
  BY DEF Init, RateOK
<1>3. IInv /\ RateOK /\ [Next]_vars => RateOK'
  BY NextRate
<1>4. IInv /\ RateOK /\ [Next]_vars =>
        (header'.mcs # header.mcs /\ wt.used # None =>
           Fits(rate.announced, [wt.used EXCEPT !.wb_air_mcs_index = header'.mcs]))
  BY <1>1
<1>5. QED
  BY <1>2, <1>3, <1>4, Invariance, PTL DEF Spec, RateBeforeMcs
=============================================================================
