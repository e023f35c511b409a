----------------------------- MODULE MCWindows -----------------------------
(* An instance of Windows: four metrics, one with a wide spread, and one   *)
(* so late that several windows fire at its watermark.                     *)
EXTENDS Windows, TLC

MCMetrics == 1 .. 4
MCAt == <<4, 6, 7, 12>>
MCImbalance == <<3, -2, 5, 0>>
MCSpreadBps == <<1, 2, 9, 0>>
MCVolume == <<2, 0, 5, 1>>
=============================================================================
