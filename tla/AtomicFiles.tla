----------------------------- MODULE AtomicFiles -----------------------------
(***************************************************************************)
(* Files that are replaced as a whole, whatever fails: what a reader finds *)
(* is one of the documents that were saved, and a loss of power may bring  *)
(* back an older one, but none older than what has been made durable.      *)
(* FileSaving shows that the saving functions of nobox provide this.       *)
(***************************************************************************)
EXTENDS Naturals, Sequences

CONSTANTS
    Files, Documents,
    Durable           \* the files whose savers are told of success only when it is durable

VARIABLES
    past,             \* what each file has held, the present document last
    kept,             \* how many of these a loss of power cannot take away
    acknowledged      \* the documents whose savers were told of success

vars == <<past, kept, acknowledged>>

Init ==
    /\ past \in [Files -> {<<d>> : d \in Documents}]
    /\ kept = [f \in Files |-> 1]
    /\ acknowledged = [f \in Files |-> {}]

Replace(f) ==
    /\ \E d \in Documents : past' = [past EXCEPT ![f] = Append(@, d)]
    /\ UNCHANGED <<kept, acknowledged>>

Settle(f) ==
    /\ \E n \in kept[f]..Len(past[f]) : kept' = [kept EXCEPT ![f] = n]
    /\ UNCHANGED <<past, acknowledged>>

Acknowledge(f) ==
    /\ \E i \in DOMAIN past[f] :
          /\ f \in Durable => i <= kept[f]
          /\ acknowledged' = [acknowledged EXCEPT ![f] = @ \cup {past[f][i]}]
    /\ UNCHANGED <<past, kept>>

LosePower ==
    /\ \A f \in Files : kept'[f] \in kept[f]..Len(past[f])
    /\ past' = [f \in Files |-> SubSeq(past[f], 1, kept'[f])]
    /\ kept' = [f \in Files |-> kept'[f]]
    /\ UNCHANGED acknowledged

Next == (\E f \in Files : Replace(f) \/ Settle(f) \/ Acknowledge(f)) \/ LosePower

Spec == Init /\ [][Next]_vars

\* What a saver was told is saved is there, or was replaced by something saved later.
AcknowledgedIsKept ==
    \A f \in Durable : \A d \in acknowledged[f] : \E i \in 1..kept[f] : past[f][i] = d

=============================================================================
