---------------------------- MODULE MCLinkWorker ----------------------------
(* Bounded instances of LinkWorker.  2484 MHz is not allowed at 40 MHz, 60 *)
(* is a power index above the limit for 40 MHz, 0 means disabled.          *)
EXTENDS LinkWorker

StartedWith ==
    [wb_frequency |-> 5745, wb_air_tx_channel_width |-> 20,
     wb_air_mcs_index |-> 2, mw |-> 25, mw_armed |-> 0, idx |-> 60,
     idx_armed |-> 0, wb_video_fec_percentage |-> 20,
     wb_video_rate_for_mcs_adjustment_percent |-> 100,
     enable_wb_video_variable_bitrate |-> TRUE,
     wb_mcs_index_via_rc_channel |-> 0, wb_enable_listen_only_mode |-> FALSE]

\* An air unit, new or used with 40 MHz, other power when armed and an RC
\* channel for the MCS index; an X20; a ground unit, passive or not.
MCStarted ==
    LET Unit(air, au, x20) == [IsAir |-> air, IsAU |-> au, IsX20 |-> x20]
    IN  [unit : {Unit(TRUE, TRUE, FALSE)},
         settings :
           {StartedWith,
            [StartedWith EXCEPT !.wb_air_tx_channel_width = 40, !.idx = 0, !.idx_armed = 60,
                                !.mw_armed = 500,
                                !.wb_mcs_index_via_rc_channel = 1]}]
        \cup [unit : {Unit(TRUE, FALSE, TRUE)}, settings : {StartedWith}]
        \cup [unit : {Unit(FALSE, FALSE, FALSE)},
              settings : {StartedWith,
                          [StartedWith EXCEPT !.wb_enable_listen_only_mode = TRUE]}]
=============================================================================
