----------------------------- MODULE MCRtspPads -----------------------------
(* Instances of RtspPads for TLC.                                            *)
EXTENDS RtspPads

Pad(media, encoding, payload) == [media |-> media, encoding |-> encoding, payload |-> payload]

SupportedEncodings == {"H264", "VP8", "PCMU", "opus"}

(* A plain camera; one with streams that have no codec; one with two videos. *)
PlainCameras ==
  { {Pad("video", "H264", 96), Pad("audio", "PCMU", 0)},
    {Pad("video", "H265", 98), Pad("video", "H264", 96), Pad("audio", "opus", 97)},
    {Pad("video", "H264", 96), Pad("video", "VP8", 98), Pad("audio", "opus", 97)},
    {Pad("video", "H265", 98), Pad("audio", "opus", 97)} }

(* A camera that gives streams of one medium the same payload type.          *)
SamePayload ==
  { {Pad("video", "H265", 96), Pad("video", "H264", 96), Pad("audio", "opus", 97)} }
=============================================================================
