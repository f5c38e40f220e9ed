---------------------------- MODULE MCRtppClient ----------------------------
(* The client of the RTP proxy with one session, two capabilities and the  *)
(* times of the code scaled down.                                          *)
EXTENDS RtppClient
=============================================================================
