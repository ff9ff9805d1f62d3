--------------------------- MODULE MCX11WindowState ---------------------------
(* Instances of X11WindowState for TLC. *)
EXTENDS X11WindowState, TLC

CONSTANTS o1, o2

OneLength == [a \in Axes |-> {1}]
AllPolicies ==
  {p \in [role : Roles, natural : BOOLEAN] : p.natural => CanDecorate(p.role)}
AllDrags == [keyboard : BOOLEAN, sync : {"None", "Ready"}]

\* With two outputs, the nearest survivor is the only one: no choice tells the
\* outputs apart.
OutputSymmetry == Permutations(Outputs)
===============================================================================
