------------------------------ MODULE Custody ------------------------------
(***************************************************************************)
(* What the importer promises about the addons it moves between the folder *)
(* where it found them and the library: each is whole on one side or on    *)
(* both, and a side lets go of one only while the other holds it.          *)
(***************************************************************************)
CONSTANT Addon
VARIABLES theirs, ours      \* the addons that are whole on each side
vars == <<theirs, ours>>

Init == theirs = Addon /\ ours = {}

Import(a) == a \in theirs \ ours /\ ours' = ours \cup {a} /\ UNCHANGED theirs
GiveBack(a) == a \in ours \ theirs /\ theirs' = theirs \cup {a} /\ UNCHANGED ours
LetGo(a) ==
    /\ a \in theirs \cap ours
    /\ \/ theirs' = theirs \ {a} /\ UNCHANGED ours
       \/ ours' = ours \ {a} /\ UNCHANGED theirs

Next == \E a \in Addon : Import(a) \/ GiveBack(a) \/ LetGo(a)

Spec == Init /\ [][Next]_vars
=============================================================================
