---------------------------- MODULE MCWaylandWindow ----------------------------
EXTENDS WaylandWindow

MCModes == {"first", "second"}
MCChosen == [a \in Axes |-> IF a = "horizontal" THEN {"narrow", "wide"} ELSE {"high"}]
===============================================================================
