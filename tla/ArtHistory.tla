----------------------------- MODULE ArtHistory -----------------------------
(***************************************************************************)
(* What an art channel promises: one line of accepted states.  Each new    *)
(* state is put on top of the latest one, differs from it, and keeps every *)
(* cell the latest one has (possibly with new content).                    *)
(***************************************************************************)
EXTENDS Integers, Sequences

CONSTANTS Cells, Contents, Absent

VARIABLE history    \* the accepted states, oldest first

States == [Cells -> Contents \cup {Absent}]
Nothing == [c \in Cells |-> Absent]
Latest == IF history = <<>> THEN Nothing ELSE history[Len(history)]

Init == history = <<>>

Accept(state) ==
    /\ state # Latest
    /\ \A c \in Cells : Latest[c] # Absent => state[c] # Absent
    /\ history' = Append(history, state)

Next == \E state \in States : Accept(state)

Spec == Init /\ [][Next]_history
=============================================================================
