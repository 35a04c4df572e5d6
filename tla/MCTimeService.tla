---------------------------- MODULE MCTimeService -----------------------------
(* A calendar of two months, of three and of two days.                     *)
EXTENDS TimeService
MCMonthStart == <<0, 3>>
=============================================================================
