---- MODULE MCJukeboxFix ----
(***************************************************************************)
(* Four-bit dwords and a two-bit immediate: of the corrections 4, 6, .. 42 *)
(* those over 32 do not fit, 16 and 32 lie on the borders of a dword, and  *)
(* 14 is the stock one.                                                    *)
(***************************************************************************)
EXTENDS JukeboxFix
====
