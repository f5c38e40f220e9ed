--------------------------- MODULE MCRtppSession ----------------------------
(* The RTP proxy session of one call with two bodies and one prompt or      *)
(* recording.                                                              *)
EXTENDS RtppSession
=============================================================================
