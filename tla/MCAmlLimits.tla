----------------------------- MODULE MCAmlLimits -----------------------------
(* Three transfers of one wallet and keyword, two of which fit a day and    *)
(* all of which together break the daily amount; months of two days.        *)
EXTENDS AmlLimits, TLC

CONSTANTS a, b, c

MCTransfer == {a, b, c}
MCAmount   == (a :> 2) @@ (b :> 1) @@ (c :> 2)
=============================================================================
