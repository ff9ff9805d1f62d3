------------------------------ MODULE MCX11Focus ------------------------------
(* ---- Instances of X11Focus ---- *)
EXTENDS X11Focus

CONSTANTS c1, c2, c3

\* A dialog of the first client that has a dialog for both of them; two dialogs of the
\* first client.
ChainOrSiblings == {(c2 :> {c1}) @@ (c3 :> {c1, c2}), (c2 :> {c1}) @@ (c3 :> {c1})}
===============================================================================
