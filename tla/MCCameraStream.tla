--------------------------- MODULE MCCameraStream ---------------------------
(* A camera that can change its bitrate, one that cannot, and two, one of    *)
(* which can, with three, two and one events.                               *)
EXTENDS CameraStream

Air(cams, can, events) == [cams |-> cams, can_change |-> can, max_events |-> events]

MCSetups == {Air({0}, {0}, 3), Air({0}, {}, 2), Air({0, 1}, {0}, 1)}
=============================================================================
