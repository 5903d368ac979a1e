------------------------- MODULE MCNegativeResponseCode -------------------------
(* An instance of NegativeResponseCode for TLC: every byte and its neighbours. *)
EXTENDS NegativeResponseCode, TLC

MCCodes == -300..600
=============================================================================
