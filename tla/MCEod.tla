--------------------------------- MODULE MCEod ---------------------------------
(* End-of-day accounting on its own.                                        *)
EXTENDS EodClose, TLC

CONSTANTS i1, i2, o1, gbp, eur

MCScopes == {[running |-> {i1, o1}, days |-> LastDay, requests |-> 1, errors |-> 0],
             [running |-> {i1, i2}, days |-> LastDay, requests |-> 0, errors |-> 1]}
===============================================================================
