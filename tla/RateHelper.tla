----------------------------- MODULE RateHelper -----------------------------
(***************************************************************************)
(* How many kbit/s of video the encoder may produce for a Wi-Fi            *)
(* configuration: the tables and functions of wb_link_rate_helper.hpp and  *)
(* what WBLink::wt_perform_rate_adjustment makes of them.  The cards are   *)
(* the ones the program supports (RTL 88X2AU, 88X2BU, emulated).           *)
(***************************************************************************)
EXTENDS Integers, Sequences

\* rtl8812au_get_max_rate_5G_kbits: one row per MCS index, from 0, with the
\* rates at 10, 20 and 40 MHz.
RateTable ==
    << <<2900, 4700, 7400>>,    <<5100, 9800, 15300>>,   <<7600, 13200, 20600>>,
       <<9400, 16200, 25000>>,  <<11000, 20000, 30000>>, <<13000, 23000, 40000>>,
       <<15000, 26000, 50000>>, <<17000, 29000, 55000>>, <<8700, 8700, 18100>>,
       <<13000, 18000, 28000>>, <<15000, 22000, 33000>>, <<18000, 27000, 46000>>,
       <<19000, 27000, 46000>> >>

DefaultRate == 5000

get_max_rate_possible_5G_kbits(mcs, width) ==
    IF mcs + 1 \in DOMAIN RateTable /\ width \in {10, 20, 40}
    THEN RateTable[mcs + 1][CASE width = 10 -> 1 [] width = 20 -> 2 [] width = 40 -> 3]
    ELSE DefaultRate

get_max_rate_possible_2G_kbits(mcs, width) ==
    (get_max_rate_possible_5G_kbits(mcs, width) * 100) \div 80

\* get_space_from_frequency, of the frequencies of wifi_channel.h.
Is2G(freq) == freq < 3000

\* With wb_video_rate_for_mcs_adjustment_percent.
calculate_bitrate_for_wifi_config_kbits(freq, width, mcs, percent) ==
    ((IF Is2G(freq) THEN get_max_rate_possible_2G_kbits(mcs, width)
      ELSE get_max_rate_possible_5G_kbits(mcs, width)) * percent) \div 100

\* kbits * 100 / (100 + perc), rounded to the nearest integer.
deduce_fec_overhead(kbits, perc) ==
    (2 * kbits * 100 + 100 + perc) \div (2 * (100 + perc))
=============================================================================
