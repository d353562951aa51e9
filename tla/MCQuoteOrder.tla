---------------------------- MODULE MCQuoteOrder ----------------------------
(***************************************************************************)
(* QuoteOrder for TLC.                                                     *)
(***************************************************************************)
EXTENDS QuoteOrder
=============================================================================
