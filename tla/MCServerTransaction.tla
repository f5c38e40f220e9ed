----------------------- MODULE MCServerTransaction ------------------------
(* ServerTransaction for a request that may open up to MaxTx transactions. *)
EXTENDS ServerTransaction
=============================================================================
