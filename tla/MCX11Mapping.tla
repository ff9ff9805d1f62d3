---------------------------- MODULE MCX11Mapping ----------------------------
(***************************************************************************)
(* Instances of X11Mapping, and of the geometry that mapping a window, and *)
(* every action on it afterwards, computes: a behaviour is one of the      *)
(* mapping protocol, or puts a single question about geometry.             *)
(***************************************************************************)
EXTENDS X11Mapping, MCX11Geometry

Protocol == [about |-> "the mapping protocol"]

\* One of the two initial states of the protocol is enough to ask in.
MCInit == Init /\ (question = Protocol \/ (question = NoQuestion /\ ~ wanted))

MCNext == \/ question = Protocol /\ Next /\ UNCHANGED question
          \/ Ask /\ UNCHANGED vars

MCSpec == MCInit /\ [][MCNext]_<<vars, question>>
=============================================================================
