--------------------------- MODULE MCWaylandLock ---------------------------
(* ---- Instances of WaylandLock ---- *)
EXTENDS WaylandLock
=============================================================================
