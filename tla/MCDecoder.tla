----------------------------- MODULE MCDecoder -----------------------------
(***************************************************************************)
(* Decoder with payloads of up to seven bytes, blocks of two bytes, chunks *)
(* of two blocks and a counter that wraps after three blocks.              *)
(***************************************************************************)
EXTENDS Decoder
=============================================================================
