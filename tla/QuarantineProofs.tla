-------------------------- MODULE QuarantineProofs --------------------------
(***************************************************************************)
(* That no conflict, swap, admission, restore, failure or crash loses a    *)
(* copy, proved for any contents, categories and number of faults.         *)
(***************************************************************************)
EXTENDS Quarantine, TLAPS

\* A folder that is gone has no files missing, and what is there was once known.
OnlyFoldersAreHalf == \A w \in Where : holds[w] = None => w \notin half
WhatIsThereIsKnown == \A w \in Where : holds[w] # None => holds[w] \in known

\* While a restore is under way there is no other operation.
OneAtATime == op = None \/ restoring = {}

\* The folders an operation is about, as it began with them.
TheirParts ==
    op # None =>
        /\ op.kind = "keepLibrary" => op.winner \in Category /\ op.goal = op.winner
        /\ op.kind \in {"takeBack", "admit"} => op.loser \in Category /\ op.goal = op.loser
        /\ op.kind = "takeBack" => op.winner = "entry"
        /\ op.kind = "swap" => op.winner \in Held
        /\ op.loser = "entry" => op.places = {}
        /\ op.at = "drop" => op.kind = "admit" /\ op.aside
        /\ op.at = "restore" => op.kind \in {"takeBack", "admit"}

\* The loser is in its place until it is quarantined, and its place is free from then
\* on until the other copy takes it.
TheLoserWaits ==
    op # None =>
        /\ op.at \in {"disable", "aside", "write", "move", "empty"} => holds[op.loser] # None
        /\ op.at = "move" => holds[SlotOf(op.loser)] = None
        /\ op.at = "empty" =>
             /\ holds[SlotOf(op.loser)] = holds[op.loser]
             /\ SlotOf(op.loser) \in half => op.loser \in half
        /\ op.at \in {"arrive", "restore"} /\ op.kind \in {"takeBack", "admit"} => holds[op.loser] = None

\* The provenance that is taken back waits in its place, and the earlier copy of an
\* admission in the swap slot.
TheOtherWaits ==
    op # None =>
        /\ op.kind = "takeBack" /\ op.at \in {"disable", "aside", "write", "move", "empty", "arrive"}
             => holds["entry"] # None
        /\ op.kind = "admit" /\ op.at = "aside" => op.aside /\ holds["libSlot"] # None
        /\ op.kind = "admit" /\ op.aside /\ op.at \notin {"aside", "putRecord"} => holds["libSwap"] # None

IInv ==
    /\ TypeOK /\ OnlyFoldersAreHalf /\ WhatIsThereIsKnown
    /\ OneAtATime /\ TheirParts /\ TheLoserWaits /\ TheOtherWaits /\ NoCopyIsLost

-----------------------------------------------------------------------------
\* The slots and the places are apart, and every folder of them is a folder.
LEMMA SlotsAreApart ==
  ASSUME NEW place \in Place
  PROVE  /\ SlotOf(place) \in Slot /\ SlotOf(place) \in Where /\ SlotOf(place) \notin Place
         /\ SwapSlotFor(SlotOf(place)) \in Held /\ SwapSlotFor(SlotOf(place)) \in Where
         /\ SwapSlotFor(SlotOf(place)) \notin Place /\ SwapSlotFor(SlotOf(place)) \notin Slot
  BY QuarantineAssumption DEF SlotOf, SwapSlotFor, Place, Slot, Held, Where

\* A copy that moves into a free place is where it goes as it was where it came from.
LEMMA MoveKeepsTheCopies ==
  ASSUME TypeOK, OnlyFoldersAreHalf, WhatIsThereIsKnown, NoCopyIsLost,
         NEW a \in Where, NEW b \in Where, holds[b] = None,
         Moved(a, b), known' = known, discarded' = discarded
  PROVE  OnlyFoldersAreHalf' /\ WhatIsThereIsKnown' /\ NoCopyIsLost'
<1>1. /\ holds \in [Where -> Maybe(Copy)]
      /\ holds' = [holds EXCEPT ![b] = holds[a], ![a] = None]
      /\ half' = (half \ {a, b}) \cup (IF a \in half THEN {b} ELSE {})
  BY DEF TypeOK, Moved
<1>2. OnlyFoldersAreHalf'
  BY <1>1 DEF OnlyFoldersAreHalf
<1>3. WhatIsThereIsKnown'
  BY <1>1 DEF WhatIsThereIsKnown
<1>4. ASSUME NEW c \in known \ discarded
      PROVE  \E w \in Where : holds'[w] = c /\ w \notin half'
  <2>1. PICK w \in Where : holds[w] = c /\ w \notin half
    BY <1>4 DEF NoCopyIsLost
  <2>2. w # b
    BY <2>1, <1>4, QuarantineAssumption DEF TypeOK, Where
  <2>3. CASE w = a
    BY <1>1, <2>1, <2>2, <2>3
  <2>4. CASE w # a
    BY <1>1, <2>1, <2>2, <2>4
  <2> QED
    BY <2>3, <2>4
<1> QED
  BY <1>2, <1>3, <1>4 DEF NoCopyIsLost

\* A folder that moves leaves each place with a copy or nothing.
LEMMA MoveType ==
  ASSUME TypeOK, NEW a \in Where, NEW b \in Where, Moved(a, b), b \in Held => a \in Held \cup Place
  PROVE  holds' \in [Where -> Maybe(Copy)] /\ half' \subseteq Where /\ came' \in [Held -> Maybe(Place)]
<1>1. holds' \in [Where -> Maybe(Copy)]
  BY DEF TypeOK, Moved, Maybe
<1>2. half' \subseteq Where
  BY DEF TypeOK, Moved
<1>3. came' \in [Held -> Maybe(Place)]
  BY DEF TypeOK, Moved, Maybe
<1> QED
  BY <1>1, <1>2, <1>3

\* The steps of an operation.
At == {"disable", "aside", "write", "move", "empty", "unrecord", "unaside",
       "putRecord", "arrive", "restore", "relink", "drop"}

\* An operation that goes on to a step is an operation.
LEMMA GoesToType ==
  ASSUME op \in Operation, NEW step \in At, GoesTo(step)
  PROVE  op' \in Operation
  BY DEF Operation, GoesTo, At

\* So is one whose other copy lands.
LEMMA LandsType == op \in Operation /\ Lands => op' \in Operation
  BY DEF Operation, Lands


\* An operation begins with what is on the disk.
LEMMA BeginType ==
  ASSUME TypeOK, NEW kind \in {"keepLibrary", "keepProvenance", "takeBack", "admit", "swap"},
         NEW step \in At, NEW loser \in Place, NEW winner \in Where, NEW goal \in Place,
         NEW room \in BOOLEAN, Begin(kind, step, loser, winner, goal, room)
  PROVE  op' \in Operation
<1>1. sidecar[SlotOf(loser)] \in Maybe(Place) /\ LinksPointingAt(loser) \subseteq {"entry", "other"}
  BY SlotsAreApart DEF TypeOK, LinksPointingAt
<1>2. (IF room THEN sidecar[SlotOf(loser)] ELSE None) \in Maybe(Place)
  BY <1>1 DEF Maybe
<1> QED
  BY <1>1, <1>2 DEF Operation, Begin, At

\* Every step keeps the kinds of values the variables hold.
LEMMA TypeStep == IInv /\ [Next]_vars => TypeOK'
<1> SUFFICES ASSUME IInv, [Next]_vars PROVE TypeOK'
  OBVIOUS
<1> USE QuarantineAssumption
<1> USE DEF Over, Fault, At
<1>0. /\ TypeOK /\ TheirParts
      /\ op # None => op \in Operation /\ op.loser \in Place /\ op.goal \in Place /\ op.winner \in Where
  BY DEF IInv, TypeOK, Maybe, Operation
<1>m. /\ Place \subseteq Where /\ Held \subseteq Where /\ Slot \subseteq Held
      /\ Place \cap Held = {} /\ "staged" \in Where \ Held
  BY DEF Place, Where, Held, Slot
<1>f. \A n \in Nat : faults < MaxFaults /\ n = faults + 1 => n \in 0..MaxFaults
  BY <1>0 DEF TypeOK
<1>s. op # None => SlotOf(op.loser) \in Slot /\ SwapSlotFor(SlotOf(op.loser)) \in Held
  BY <1>0, SlotsAreApart
<1>1. ASSUME NEW c \in Copy, NEW w \in Where, Appears(c, w) PROVE TypeOK'
  BY <1>0, <1>1 DEF Appears, TypeOK, Maybe, WithoutLinks
<1>2. ASSUME NEW p \in Place, Enable(p) PROVE TypeOK'
  BY <1>0, <1>2 DEF Enable, TypeOK, Maybe, folders, ghosts
<1>3. ASSUME NEW kind \in {"keepLibrary", "keepProvenance", "takeBack"}, NEW p \in {"entry", "vendor"},
             NEW c \in Category, ResolveConflict(kind, p, c)
      PROVE TypeOK'
  <2> DEFINE loser == IF kind = "keepLibrary" THEN p ELSE c
             winner == IF kind = "keepLibrary" THEN c ELSE p
  <2>0. loser \in Place /\ winner \in Where /\ c \in Place
    BY <1>m DEF Place
  <2>1. op' \in Operation
    <3>1. PICK room \in BOOLEAN : Begin(kind, "disable", loser, winner, c, room)
      BY <1>3 DEF ResolveConflict
    <3> HIDE DEF loser, winner
    <3> QED
      BY <1>0, <2>0, <3>1, BeginType
  <2> QED
    BY <1>0, <1>3, <2>1 DEF ResolveConflict, TypeOK, Maybe, folders, ghosts, disk
<1>4. ASSUME NEW c \in Category, Admit(c) PROVE TypeOK'
  <2>1. op' \in Operation
    BY <1>0, <1>4, <1>m, BeginType DEF Admit, Place, Where
  <2> QED
    BY <1>0, <1>4, <2>1 DEF Admit, TypeOK, Maybe, folders, ghosts, disk
<1>5. ASSUME NEW c \in Category, AdmitIntoTheFreePlace(c) PROVE TypeOK'
  <2>1. holds' \in [Where -> Maybe(Copy)] /\ half' \subseteq Where /\ came' \in [Held -> Maybe(Place)]
    BY <1>0, <1>5, MoveType DEF AdmitIntoTheFreePlace, Where, Place
  <2> QED
    BY <1>0, <1>5, <2>1 DEF AdmitIntoTheFreePlace, TypeOK, ghosts
<1>6. ASSUME NEW i \in Held, Discard(i) PROVE TypeOK'
  <2>1. discarded' \subseteq known' /\ half' \subseteq Where
    BY <1>0, <1>6, <1>m DEF IInv, WhatIsThereIsKnown, Discard, TypeOK, Removed
  <2>2. holds' \in [Where -> Maybe(Copy)] /\ came' \in [Held -> Maybe(Place)]
    BY <1>0, <1>6, <1>m DEF Discard, Removed, TypeOK, Maybe
  <2>3. sidecar' \in [Slot -> Maybe(Place)] /\ faults' \in 0..MaxFaults
    BY <1>0, <1>6, <1>f DEF Discard, TypeOK, Maybe
  <2> QED
    BY <1>0, <1>6, <2>1, <2>2, <2>3 DEF Discard, TypeOK
<1>7. ASSUME NEW i \in Held, NEW p \in Place, Swap(i, p) PROVE TypeOK'
  <2>1. PICK occupant \in Taken(p) : Begin("swap", "disable", occupant, i, p, SlotOf(occupant) = i)
    BY <1>7 DEF Swap
  <2>2. occupant \in Place
    BY <2>1 DEF Taken, Place
  <2>3. op' \in Operation
    BY <1>0, <2>1, <2>2, <1>m, BeginType
  <2> QED
    BY <1>0, <1>7, <2>3 DEF Swap, TypeOK, Maybe, folders, ghosts, disk
<1>8. ASSUME NEW I \in SUBSET Held, Restore(I) PROVE TypeOK'
  <2>1. restoring' \subseteq [item : Held, origin : Place]
    BY <1>8 DEF Restore
  <2> QED
    BY <1>0, <1>8, <2>1 DEF Restore, TypeOK, folders, ghosts, disk
<1>9. ASSUME NEW r \in restoring, RestoreOne(r) PROVE TypeOK'
  <2>1. r.item \in Held /\ r.origin \in Place /\ r.item \in Where /\ r.origin \in Where
    BY <1>0, <1>m DEF TypeOK
  <2>2. CASE PutBack(r.item, r.origin)
    <3>1. holds' \in [Where -> Maybe(Copy)] /\ half' \subseteq Where /\ came' \in [Held -> Maybe(Place)]
      BY <1>0, <2>1, <2>2, MoveType DEF PutBack
    <3>2. /\ link' \in [LinkPlace -> Maybe(Category \cup {"vendor"})]
          /\ sidecar' \in [Slot -> Maybe(Place)] /\ faults' \in 0..MaxFaults
      BY <1>0, <2>1, <2>2, <1>f DEF PutBack, TypeOK, WithoutLinks, Maybe
    <3> QED
      BY <1>0, <1>9, <3>1, <3>2 DEF RestoreOne, TypeOK, ghosts
  <2>3. CASE StaysBehind(r.item, r.origin)
    <3>1. link' \in [LinkPlace -> Maybe(Category \cup {"vendor"})] /\ faults' \in 0..MaxFaults
      BY <1>0, <2>1, <2>3, <1>f DEF StaysBehind, TypeOK, WithoutLinks, Maybe
    <3> QED
      BY <1>0, <1>9, <2>3, <3>1 DEF RestoreOne, StaysBehind, TypeOK, folders, ghosts
  <2> QED
    BY <1>9, <2>2, <2>3 DEF RestoreOne
<1>10. CASE TakeTheLinksDown
  BY <1>0, <1>10, GoesToType DEF TakeTheLinksDown, TypeOK, WithoutLinks, Maybe, folders, ghosts
<1>11. CASE ALinkStaysUp
  BY <1>0, <1>11, <1>f, GoesToType DEF ALinkStaysUp, TypeOK, WithoutLinks, Maybe, folders, ghosts
<1>12. CASE SetAside
  <2> DEFINE slot == SlotOf(op.loser)
  <2>1. slot \in Where /\ slot \in Held /\ SwapSlotFor(slot) \in Where /\ op # None
    BY <1>12, <1>s, <1>m DEF SetAside
  <2>2. op' \in Maybe(Operation)
    BY <1>0, <1>12, GoesToType DEF SetAside, Maybe
  <2>3. holds' \in [Where -> Maybe(Copy)] /\ half' \subseteq Where /\ came' \in [Held -> Maybe(Place)]
    <3>1. CASE Moved(slot, SwapSlotFor(slot))
      BY <1>0, <2>1, <3>1, MoveType
    <3>2. CASE UNCHANGED folders
      BY <1>0, <3>2 DEF folders, TypeOK
    <3> QED
      BY <1>12, <3>1, <3>2 DEF SetAside
  <2> QED
    <3>1. faults' \in 0..MaxFaults
      BY <1>0, <1>12, <1>f DEF SetAside, TypeOK
    <3>2. UNCHANGED <<link, sidecar, journal, restoring, ghosts>>
      BY <1>12 DEF SetAside
    <3> QED
      BY <1>0, <2>2, <2>3, <3>1, <3>2 DEF TypeOK, ghosts
<1>13. CASE WriteTheRecord
  <2>1. op' \in Maybe(Operation)
    BY <1>0, <1>13, GoesToType DEF WriteTheRecord, BackOut, Maybe
  <2>2. sidecar' \in [Slot -> Maybe(Place)]
    BY <1>0, <1>13, <1>s DEF WriteTheRecord, TypeOK, Maybe
  <2> QED
    <3>1. faults' \in 0..MaxFaults
      BY <1>0, <1>13, <1>f DEF WriteTheRecord, TypeOK
    <3>2. UNCHANGED <<folders, link, journal, restoring, ghosts>>
      BY <1>13 DEF WriteTheRecord
    <3> QED
      BY <1>0, <2>1, <2>2, <3>1, <3>2 DEF TypeOK, folders, ghosts
<1>q. ASSUME op # None, IsQuarantined PROVE journal' \in [Slot -> Maybe(Place)] /\ op' \in Maybe(Operation)
  BY <1>0, <1>q, <1>s, GoesToType DEF IsQuarantined, TypeOK, Maybe
<1>14. CASE MoveToTheQuarantine
  <2>1. holds' \in [Where -> Maybe(Copy)] /\ half' \subseteq Where /\ came' \in [Held -> Maybe(Place)]
    BY <1>0, <1>14, <1>m, <1>s, MoveType DEF MoveToTheQuarantine
  <2> QED
    BY <1>0, <1>14, <1>q, <2>1 DEF MoveToTheQuarantine, TypeOK
<1>15. CASE CopyToTheQuarantine
  <2>1. op' \in Operation
    BY <1>0, <1>15, GoesToType DEF CopyToTheQuarantine
  <2>2. holds' \in [Where -> Maybe(Copy)] /\ half' \subseteq Where /\ came' \in [Held -> Maybe(Place)]
    BY <1>0, <1>15, <1>m, <1>s DEF CopyToTheQuarantine, TypeOK, Maybe
  <2> QED
    BY <1>0, <1>15, <2>1, <2>2 DEF CopyToTheQuarantine, TypeOK, Maybe
<1>16. CASE RemoveTheLoser
  BY <1>0, <1>16, <1>m, <1>q DEF RemoveTheLoser, TypeOK, Maybe
<1>17. CASE QuarantineFails
  BY <1>0, <1>17, <1>f, <1>m, GoesToType DEF QuarantineFails, TypeOK, Maybe, ghosts
<1>18. CASE RemoveTheRecord
  BY <1>0, <1>18, <1>f, GoesToType DEF RemoveTheRecord, BackOut, TypeOK, Maybe, folders, ghosts
<1>19. CASE MakeNoRoom
  <2> DEFINE slot == SlotOf(op.loser)
  <2>1. slot \in Where /\ SwapSlotFor(slot) \in Held /\ SwapSlotFor(slot) \in Where /\ op # None
    BY <1>19, <1>s, <1>m DEF MakeNoRoom
  <2>2. op' \in Maybe(Operation)
    BY <1>0, <1>19, GoesToType DEF MakeNoRoom, Maybe
  <2>3. holds' \in [Where -> Maybe(Copy)] /\ half' \subseteq Where /\ came' \in [Held -> Maybe(Place)]
    <3>1. CASE Moved(SwapSlotFor(slot), slot)
      BY <1>0, <2>1, <3>1, MoveType
    <3>2. CASE UNCHANGED folders
      BY <1>0, <3>2 DEF folders, TypeOK
    <3> QED
      BY <1>19, <3>1, <3>2 DEF MakeNoRoom
  <2> QED
    <3>1. faults' \in 0..MaxFaults
      BY <1>0, <1>19, <1>f DEF MakeNoRoom, TypeOK
    <3>2. UNCHANGED <<link, sidecar, journal, restoring, ghosts>>
      BY <1>19 DEF MakeNoRoom
    <3> QED
      BY <1>0, <2>2, <2>3, <3>1, <3>2 DEF TypeOK, ghosts
<1>20. CASE PutTheRecordBack
  <2>1. op' \in Maybe(Operation)
    BY <1>0, <1>20, GoesToType DEF PutTheRecordBack, Maybe
  <2>2. sidecar' \in [Slot -> Maybe(Place)]
    <3>1. op.record \in Maybe(Place)
      BY <1>0, <1>20 DEF PutTheRecordBack, Operation
    <3> QED
      BY <1>0, <1>20, <1>s, <3>1 DEF PutTheRecordBack, TypeOK, Maybe
  <2> QED
    <3>1. faults' \in 0..MaxFaults
      BY <1>0, <1>20, <1>f DEF PutTheRecordBack, TypeOK
    <3>2. UNCHANGED <<folders, link, journal, restoring, ghosts>>
      BY <1>20 DEF PutTheRecordBack
    <3> QED
      BY <1>0, <2>1, <2>2, <3>1, <3>2 DEF TypeOK, folders, ghosts
<1>21. CASE StandIn
  <2>1. op' \in Operation
    BY <1>0, <1>21, GoesToType, LandsType DEF StandIn
  <2>2. link' \in [LinkPlace -> Maybe(Category \cup {"vendor"})]
    BY <1>0, <1>21 DEF StandIn, TheirParts, TypeOK, Maybe
  <2> QED
    BY <1>0, <1>21, <1>f, <2>1, <2>2 DEF StandIn, TypeOK, Maybe, folders, ghosts
<1>22. CASE ImportTheProvenance
  <2>1. op' \in Operation
    BY <1>0, <1>22, GoesToType, LandsType DEF ImportTheProvenance
  <2>2. link' \in [LinkPlace -> Maybe(Category \cup {"vendor"})]
    BY <1>0, <1>22 DEF ImportTheProvenance, TheirParts, TypeOK, Maybe, folders
  <2>3. op.goal \in Where /\ op.winner \in Where /\ op.goal \notin Held
    BY <1>0, <1>22, <1>m DEF ImportTheProvenance
  <2>4. holds' \in [Where -> Maybe(Copy)] /\ half' \subseteq Where /\ came' \in [Held -> Maybe(Place)]
    <3>1. CASE Moved(op.winner, op.goal)
      BY <1>0, <2>3, <3>1, MoveType
    <3>2. CASE /\ holds' = [holds EXCEPT ![op.goal] = holds[op.winner]]
               /\ half' \in {half, half \cup {op.winner}}
               /\ UNCHANGED came
      BY <1>0, <2>3, <3>2 DEF TypeOK
    <3>3. CASE UNCHANGED folders
      BY <1>0, <3>3 DEF folders, TypeOK
    <3> QED
      BY <1>22, <3>1, <3>2, <3>3 DEF ImportTheProvenance
  <2> QED
    BY <1>0, <1>22, <1>f, <2>1, <2>2, <2>4 DEF ImportTheProvenance, TypeOK, Maybe, ghosts
<1>23. CASE MoveTheNewcomerIn
  <2>1. op' \in Operation
    BY <1>0, <1>23, GoesToType, LandsType DEF MoveTheNewcomerIn
  <2>2. op.goal \in Where /\ "staged" \in Where /\ op.goal \notin Held
    BY <1>0, <1>23, <1>m DEF MoveTheNewcomerIn
  <2>3. holds' \in [Where -> Maybe(Copy)] /\ half' \subseteq Where /\ came' \in [Held -> Maybe(Place)]
    <3>1. CASE Moved("staged", op.goal)
      BY <1>0, <2>2, <3>1, MoveType
    <3>2. CASE UNCHANGED folders
      BY <1>0, <3>2 DEF folders, TypeOK
    <3> QED
      BY <1>23, <3>1, <3>2 DEF MoveTheNewcomerIn
  <2> QED
    BY <1>0, <1>23, <1>f, <2>1, <2>3 DEF MoveTheNewcomerIn, TypeOK, Maybe, ghosts
<1>24. CASE RestoreTheLoser
  <2>1. op' \in Operation
    BY <1>0, <1>24, GoesToType DEF RestoreTheLoser
  <2>2. op.loser \in Where /\ op.loser \notin Held /\ SlotOf(op.loser) \in Where /\ SlotOf(op.loser) \in Slot
    BY <1>0, <1>24, <1>m, <1>s DEF RestoreTheLoser
  <2>3. holds' \in [Where -> Maybe(Copy)] /\ half' \subseteq Where /\ came' \in [Held -> Maybe(Place)]
    <3>1. CASE Moved(SlotOf(op.loser), op.loser)
      BY <1>0, <2>2, <3>1, MoveType
    <3>2. CASE UNCHANGED folders
      BY <1>0, <3>2 DEF folders, TypeOK
    <3> QED
      BY <1>24, <3>1, <3>2 DEF RestoreTheLoser
  <2>4. sidecar' \in [Slot -> Maybe(Place)]
    BY <1>0, <1>24, <2>2 DEF RestoreTheLoser, TypeOK, Maybe
  <2> QED
    BY <1>0, <1>24, <1>f, <2>1, <2>3, <2>4 DEF RestoreTheLoser, TypeOK, Maybe, ghosts
<1>25. CASE ItemComesBack
  <2> DEFINE item == IF op.aside THEN SwapSlotFor(SlotOf(op.loser)) ELSE op.winner
  <2>1. op' \in Maybe(Operation)
    BY <1>0, <1>25, LandsType DEF ItemComesBack, Maybe
  <2>2. item \in Where /\ op.goal \in Where /\ op.goal \notin Held
    BY <1>0, <1>25, <1>m, <1>s DEF ItemComesBack
  <2>3. CASE PutBack(item, op.goal)
    <3>1. holds' \in [Where -> Maybe(Copy)] /\ half' \subseteq Where /\ came' \in [Held -> Maybe(Place)]
      BY <1>0, <2>2, <2>3, MoveType DEF PutBack
    <3>2. /\ link' \in [LinkPlace -> Maybe(Category \cup {"vendor"})]
          /\ sidecar' \in [Slot -> Maybe(Place)] /\ faults' \in 0..MaxFaults
      BY <1>0, <2>2, <2>3, <1>f DEF PutBack, TypeOK, WithoutLinks, Maybe
    <3> QED
      BY <1>0, <1>25, <2>1, <3>1, <3>2 DEF ItemComesBack, TypeOK, ghosts
  <2>4. CASE StaysBehind(item, op.goal)
    <3>1. link' \in [LinkPlace -> Maybe(Category \cup {"vendor"})] /\ faults' \in 0..MaxFaults
      BY <1>0, <2>2, <2>4, <1>f DEF StaysBehind, TypeOK, WithoutLinks, Maybe
    <3> QED
      BY <1>0, <1>25, <2>1, <2>4, <3>1 DEF ItemComesBack, StaysBehind, TypeOK, folders, ghosts
  <2> QED
    BY <1>25, <2>3, <2>4 DEF ItemComesBack
<1>26. CASE Relink
  <2> DEFINE free == {l \in op.places : link[l] = None /\ holds[Heir(holds)] # None}
  <2>1. PICK S \in SUBSET free :
          /\ link' = [l \in LinkPlace |-> IF l \in S THEN Heir(holds) ELSE link[l]]
          /\ IF S = free THEN UNCHANGED faults ELSE Fault
          /\ op' = IF op.kind = "admit" /\ op.aside
                   THEN [op EXCEPT !.cut = free \ S, !.at = IF op.landed THEN "drop" ELSE "unaside"]
                   ELSE None
    BY <1>26 DEF Relink
  <2>2. op # None /\ op.places \subseteq {"entry", "other"}
    BY <1>0, <1>26 DEF Relink, Operation
  <2>3. op' \in Maybe(Operation)
    <3>1. free \ S \subseteq {"entry", "other"}
      BY <2>2
    <3> HIDE DEF free
    <3> QED
      BY <1>0, <2>1, <2>2, <3>1 DEF Maybe, Operation
  <2>4. S # {} => Heir(holds) \in Category \cup {"vendor"}
    BY <1>0, <2>1, <2>2 DEF Heir, TheirParts, Place
  <2>5. link' \in [LinkPlace -> Maybe(Category \cup {"vendor"})]
    BY <1>0, <2>1, <2>4 DEF TypeOK, Maybe
  <2>6. faults' \in 0..MaxFaults
    BY <1>0, <1>f, <2>1 DEF TypeOK
  <2> QED
    BY <1>0, <1>26, <2>3, <2>5, <2>6 DEF Relink, TypeOK, folders, ghosts
<1>27. CASE DropTheEarlierCopy
  <2> DEFINE slot == SwapSlotFor(SlotOf(op.loser))
  <2>1. slot = "libSwap" /\ op.kind = "admit" /\ op.aside /\ op.at = "drop" /\ op # None
    BY <1>0, <1>27 DEF DropTheEarlierCopy, TheirParts, SlotOf, SwapSlotFor
  <2>2. holds["libSwap"] # None
    BY <2>1 DEF IInv, TheOtherWaits
  <2>3. discarded' \subseteq known'
    BY <1>0, <1>27, <2>1, <2>2 DEF IInv, WhatIsThereIsKnown, DropTheEarlierCopy, TypeOK, Where, Held
  <2>4. holds' \in [Where -> Maybe(Copy)] /\ half' \subseteq Where /\ came' \in [Held -> Maybe(Place)]
    BY <1>0, <1>27, <1>m, <2>1 DEF DropTheEarlierCopy, Removed, TypeOK, Maybe, Held
  <2> QED
    BY <1>0, <1>27, <1>f, <2>3, <2>4 DEF DropTheEarlierCopy, TypeOK, Maybe
<1>28. CASE Crash
  BY <1>0, <1>28, <1>f DEF Crash, TypeOK, Maybe, disk, folders, ghosts
<1>29. CASE UNCHANGED vars
  BY <1>0, <1>29 DEF vars, disk, folders, ghosts, TypeOK
<1> QED
  BY <1>1, <1>2, <1>3, <1>4, <1>5, <1>6, <1>7, <1>8, <1>9, <1>10, <1>11, <1>12, <1>13, <1>14, <1>15,
     <1>16, <1>17, <1>18, <1>19, <1>20, <1>21, <1>22, <1>23, <1>24, <1>25, <1>26, <1>27, <1>28, <1>29
  DEF Next


-----------------------------------------------------------------------------
\* A folder that loses some of its files, while the same copy is whole elsewhere or
\* the user agreed to discard it, costs no copy.
LEMMA BreakingKeepsTheOthers ==
  ASSUME IInv, NEW w \in Where, holds[w] # None, holds' = holds, half' = half \cup {w}, known' = known,
         \/ discarded' = discarded \cup {holds[w]}
         \/ /\ discarded' = discarded
            /\ w \in half \/ \E v \in Where \ half : v # w /\ holds[v] = holds[w]
  PROVE  OnlyFoldersAreHalf' /\ WhatIsThereIsKnown' /\ NoCopyIsLost'
<1>1. OnlyFoldersAreHalf' /\ WhatIsThereIsKnown'
  BY DEF IInv, OnlyFoldersAreHalf, WhatIsThereIsKnown
<1>2. ASSUME NEW c \in known \ discarded' PROVE \E v \in Where : holds[v] = c /\ v \notin half'
  <2>1. PICK v \in Where : holds[v] = c /\ v \notin half
    BY <1>2 DEF IInv, NoCopyIsLost
  <2>2. CASE v = w
    BY <1>2, <2>1, <2>2
  <2>3. CASE v # w
    BY <2>1, <2>3
  <2> QED
    BY <2>2, <2>3
<1> QED
  BY <1>1, <1>2 DEF NoCopyIsLost

\* A folder that goes, while the same copy is as whole elsewhere or the user agreed to
\* discard it, costs no copy.
LEMMA RemovalKeepsTheOthers ==
  ASSUME IInv, NEW w \in Where, holds' = [holds EXCEPT ![w] = None], half' = half \ {w}, known' = known,
         \/ discarded' = discarded \cup {holds[w]}
         \/ /\ discarded' = discarded
            /\ \E v \in Where : v # w /\ holds[v] = holds[w] /\ (v \in half => w \in half)
  PROVE  OnlyFoldersAreHalf' /\ WhatIsThereIsKnown' /\ NoCopyIsLost'
<1>0. holds \in [Where -> Maybe(Copy)]
  BY DEF IInv, TypeOK
<1>1. OnlyFoldersAreHalf' /\ WhatIsThereIsKnown'
  BY <1>0 DEF IInv, OnlyFoldersAreHalf, WhatIsThereIsKnown
<1>2. ASSUME NEW c \in known \ discarded' PROVE \E v \in Where : holds'[v] = c /\ v \notin half'
  <2>1. PICK v \in Where : holds[v] = c /\ v \notin half
    BY <1>2 DEF IInv, NoCopyIsLost
  <2>2. CASE v = w
    BY <1>0, <1>2, <2>1, <2>2
  <2>3. CASE v # w
    BY <1>0, <2>1, <2>3
  <2> QED
    BY <2>2, <2>3
<1> QED
  BY <1>1, <1>2 DEF NoCopyIsLost

\* A copy made in a free place is as whole as what it was made of, which is still there.
LEMMA CopyingKeepsTheOthers ==
  ASSUME IInv, NEW a \in Where, NEW b \in Where, holds[a] # None, holds[b] = None,
         holds' = [holds EXCEPT ![b] = holds[a]], UNCHANGED ghosts,
         \/ half' = half \cup (IF a \in half THEN {b} ELSE {})
         \/ half' \in {half, half \cup {a}}
  PROVE  OnlyFoldersAreHalf' /\ WhatIsThereIsKnown' /\ NoCopyIsLost'
<1>0. holds \in [Where -> Maybe(Copy)] /\ a # b
  BY DEF IInv, TypeOK
<1>1. OnlyFoldersAreHalf' /\ WhatIsThereIsKnown'
  BY <1>0 DEF IInv, OnlyFoldersAreHalf, WhatIsThereIsKnown, ghosts
<1>2. ASSUME NEW c \in known \ discarded PROVE \E v \in Where : holds'[v] = c /\ v \notin half'
  <2>1. PICK v \in Where : holds[v] = c /\ v \notin half
    BY <1>2 DEF IInv, NoCopyIsLost
  <2>2. v # b /\ b \notin half
    BY <1>2, <2>1, QuarantineAssumption DEF IInv, TypeOK, Where, OnlyFoldersAreHalf
  <2>3. CASE v = a
    BY <1>0, <2>1, <2>2, <2>3
  <2>4. CASE v # a
    BY <1>0, <2>1, <2>2, <2>4
  <2> QED
    BY <2>3, <2>4
<1> QED
  BY <1>1, <1>2 DEF NoCopyIsLost, ghosts

\* Where no folder changes, nothing that is known of folders does.
LEMMA FoldersStay ==
  IInv /\ UNCHANGED <<holds, half, known, discarded>>
    => OnlyFoldersAreHalf' /\ WhatIsThereIsKnown' /\ NoCopyIsLost'
  BY DEF IInv, OnlyFoldersAreHalf, WhatIsThereIsKnown, NoCopyIsLost

\* Every step keeps each copy, and what is half gone or known true to the folders.
LEMMA CopiesStep == IInv /\ [Next]_vars => OnlyFoldersAreHalf' /\ WhatIsThereIsKnown' /\ NoCopyIsLost'
<1> SUFFICES ASSUME IInv, [Next]_vars PROVE OnlyFoldersAreHalf' /\ WhatIsThereIsKnown' /\ NoCopyIsLost'
  OBVIOUS
<1> USE QuarantineAssumption
<1>0. /\ TypeOK /\ OnlyFoldersAreHalf /\ WhatIsThereIsKnown /\ NoCopyIsLost
      /\ TheLoserWaits /\ TheOtherWaits /\ TheirParts
      /\ op # None => /\ op \in Operation /\ op.loser \in Where /\ op.goal \in Where /\ op.winner \in Where
                      /\ SlotOf(op.loser) \in Where /\ SwapSlotFor(SlotOf(op.loser)) \in Where
                      /\ op.loser # SlotOf(op.loser)
  <2>1. /\ TypeOK /\ OnlyFoldersAreHalf /\ WhatIsThereIsKnown /\ NoCopyIsLost
        /\ TheLoserWaits /\ TheOtherWaits /\ TheirParts
        /\ op # None => op \in Operation
    BY DEF IInv, TypeOK, Maybe
  <2>2. op # None => op.loser \in Place /\ op.goal \in Place /\ op.winner \in Where
    BY <2>1 DEF Operation
  <2>3. Place \subseteq Where
    BY DEF Place, Where
  <2> QED
    BY <2>1, <2>2, <2>3, SlotsAreApart
<1>m. ASSUME NEW a \in Where, NEW b \in Where, holds[b] = None, Moved(a, b), UNCHANGED ghosts
      PROVE  OnlyFoldersAreHalf' /\ WhatIsThereIsKnown' /\ NoCopyIsLost'
  BY <1>0, <1>m, MoveKeepsTheCopies DEF ghosts
<1>f. ASSUME UNCHANGED folders, UNCHANGED ghosts
      PROVE  OnlyFoldersAreHalf' /\ WhatIsThereIsKnown' /\ NoCopyIsLost'
  BY <1>f, FoldersStay DEF folders, ghosts
<1>1. ASSUME NEW c \in Copy, NEW w \in Where, Appears(c, w)
      PROVE  OnlyFoldersAreHalf' /\ WhatIsThereIsKnown' /\ NoCopyIsLost'
  <2>1. /\ holds[w] = None /\ holds' = [holds EXCEPT ![w] = c] /\ half' = half
        /\ known' = known \cup {c} /\ discarded' = discarded /\ holds \in [Where -> Maybe(Copy)]
    BY <1>0, <1>1 DEF Appears, TypeOK
  <2>2. OnlyFoldersAreHalf' /\ WhatIsThereIsKnown'
    BY <1>0, <2>1 DEF OnlyFoldersAreHalf, WhatIsThereIsKnown
  <2>3. ASSUME NEW d \in known' \ discarded' PROVE \E v \in Where : holds'[v] = d /\ v \notin half'
    <3>1. CASE d = c
      BY <1>0, <2>1, <3>1 DEF OnlyFoldersAreHalf
    <3>2. CASE d \in known \ discarded
      <4>1. PICK v \in Where : holds[v] = d /\ v \notin half
        BY <1>0, <3>2 DEF NoCopyIsLost
      <4>2. v # w
        BY <1>0, <2>1, <3>2, <4>1 DEF TypeOK, Where
      <4> QED
        BY <2>1, <4>1, <4>2
    <3> QED
      BY <2>1, <2>3, <3>1, <3>2
  <2> QED
    BY <2>2, <2>3 DEF NoCopyIsLost
<1>2. ASSUME NEW c \in Category, AdmitIntoTheFreePlace(c)
      PROVE  OnlyFoldersAreHalf' /\ WhatIsThereIsKnown' /\ NoCopyIsLost'
  <2>1. holds[c] = None
    BY <1>2 DEF AdmitIntoTheFreePlace, Taken
  <2> QED
    BY <1>2, <1>m, <2>1 DEF AdmitIntoTheFreePlace, Where, Place
<1>3. ASSUME NEW i \in Held, Discard(i)
      PROVE  OnlyFoldersAreHalf' /\ WhatIsThereIsKnown' /\ NoCopyIsLost'
  BY <1>0, <1>3, RemovalKeepsTheOthers, BreakingKeepsTheOthers DEF Discard, Removed, Where
<1>4. ASSUME NEW a \in Where, NEW b \in Where, PutBack(a, b), UNCHANGED ghosts
      PROVE  OnlyFoldersAreHalf' /\ WhatIsThereIsKnown' /\ NoCopyIsLost'
  BY <1>4, <1>m DEF PutBack, CanMove
<1>5. ASSUME NEW r \in restoring, RestoreOne(r)
      PROVE  OnlyFoldersAreHalf' /\ WhatIsThereIsKnown' /\ NoCopyIsLost'
  <2>1. r.item \in Where /\ r.origin \in Where
    BY <1>0 DEF TypeOK, Where, Place
  <2> QED
    BY <1>4, <1>5, <1>f, <2>1 DEF RestoreOne, StaysBehind
<1>6. CASE SetAside
  BY <1>0, <1>6, <1>m, <1>f DEF SetAside, CanMove
<1>7. CASE MoveToTheQuarantine
  BY <1>0, <1>7, <1>m DEF MoveToTheQuarantine, CanMove, ghosts
<1>8. CASE CopyToTheQuarantine
  <2>1. holds[op.loser] # None /\ holds[SlotOf(op.loser)] = None
    BY <1>0, <1>8 DEF CopyToTheQuarantine, TheLoserWaits
  <2> QED
    BY <1>0, <1>8, <2>1, CopyingKeepsTheOthers DEF CopyToTheQuarantine, ghosts
<1>9. CASE RemoveTheLoser
  <2>1. holds[SlotOf(op.loser)] = holds[op.loser] /\ (SlotOf(op.loser) \in half => op.loser \in half)
    BY <1>0, <1>9 DEF RemoveTheLoser, TheLoserWaits
  <2> QED
    BY <1>0, <1>9, <2>1, RemovalKeepsTheOthers DEF RemoveTheLoser
<1>10. CASE QuarantineFails
  <2>1. CASE half' = half
    BY <1>10, <2>1, FoldersStay DEF QuarantineFails, ghosts
  <2>2. CASE op.at = "empty" /\ half' = half \cup {op.loser}
    <3>1. /\ holds[SlotOf(op.loser)] = holds[op.loser] /\ (SlotOf(op.loser) \in half => op.loser \in half)
          /\ holds[op.loser] # None
      BY <1>0, <1>10, <2>2 DEF QuarantineFails, TheLoserWaits
    <3>2. op.loser \in half \/ \E v \in Where \ half : v # op.loser /\ holds[v] = holds[op.loser]
      BY <1>0, <1>10, <3>1 DEF QuarantineFails
    <3> QED
      BY <1>0, <1>10, <2>2, <3>1, <3>2, BreakingKeepsTheOthers DEF QuarantineFails, ghosts
  <2> QED
    BY <1>10, <2>1, <2>2 DEF QuarantineFails
<1>11. CASE MakeNoRoom
  BY <1>0, <1>11, <1>m, <1>f DEF MakeNoRoom, CanMove
<1>12. CASE ImportTheProvenance
  <2>1. /\ op.winner = "entry" /\ op.goal = op.loser /\ holds["entry"] # None /\ holds[op.goal] = None
        /\ op # None
    BY <1>0, <1>12 DEF ImportTheProvenance, TheirParts, TheLoserWaits, TheOtherWaits
  <2>2. CASE Moved(op.winner, op.goal)
    BY <1>0, <1>12, <1>m, <2>1, <2>2 DEF ImportTheProvenance
  <2>3. CASE holds' = [holds EXCEPT ![op.goal] = holds[op.winner]] /\ half' \in {half, half \cup {op.winner}}
    BY <1>0, <1>12, <2>1, <2>3, CopyingKeepsTheOthers DEF ImportTheProvenance
  <2>4. CASE UNCHANGED folders
    BY <1>12, <1>f, <2>4 DEF ImportTheProvenance
  <2> QED
    BY <1>12, <2>2, <2>3, <2>4 DEF ImportTheProvenance
<1>13. CASE MoveTheNewcomerIn
  <2>1. holds[op.goal] = None /\ op # None
    BY <1>0, <1>13 DEF MoveTheNewcomerIn, TheirParts, TheLoserWaits
  <2> QED
    BY <1>0, <1>13, <1>m, <1>f, <2>1 DEF MoveTheNewcomerIn, Where
<1>14. CASE RestoreTheLoser
  <2>1. holds[op.loser] = None /\ op # None
    BY <1>0, <1>14 DEF RestoreTheLoser, TheirParts, TheLoserWaits
  <2> QED
    BY <1>0, <1>14, <1>m, <1>f, <2>1 DEF RestoreTheLoser
<1>15. CASE ItemComesBack
  BY <1>0, <1>15, <1>4, <1>f DEF ItemComesBack, StaysBehind
<1>16. CASE DropTheEarlierCopy
  <2> DEFINE slot == SwapSlotFor(SlotOf(op.loser))
  <2>1. slot = "libSwap" /\ op # None
    BY <1>0, <1>16 DEF DropTheEarlierCopy, TheirParts, SlotOf, SwapSlotFor
  <2>2. holds[slot] # None
    BY <1>0, <1>16, <2>1 DEF DropTheEarlierCopy, TheirParts, TheOtherWaits
  <2> QED
    BY <1>0, <1>16, <2>1, <2>2, RemovalKeepsTheOthers, BreakingKeepsTheOthers DEF DropTheEarlierCopy, Removed
<1>17. ASSUME NEW p \in Place, Enable(p)
       PROVE  OnlyFoldersAreHalf' /\ WhatIsThereIsKnown' /\ NoCopyIsLost'
  BY <1>17, <1>f DEF Enable
<1>18. ASSUME NEW kind, NEW p, NEW c, ResolveConflict(kind, p, c)
       PROVE  OnlyFoldersAreHalf' /\ WhatIsThereIsKnown' /\ NoCopyIsLost'
  BY <1>18, <1>f DEF ResolveConflict, disk
<1>19. ASSUME NEW c, Admit(c)
       PROVE  OnlyFoldersAreHalf' /\ WhatIsThereIsKnown' /\ NoCopyIsLost'
  BY <1>19, <1>f DEF Admit, disk
<1>20. ASSUME NEW i, NEW p, Swap(i, p)
       PROVE  OnlyFoldersAreHalf' /\ WhatIsThereIsKnown' /\ NoCopyIsLost'
  BY <1>20, <1>f DEF Swap, disk
<1>21. ASSUME NEW I, Restore(I)
       PROVE  OnlyFoldersAreHalf' /\ WhatIsThereIsKnown' /\ NoCopyIsLost'
  BY <1>21, <1>f DEF Restore, disk
<1>22. CASE TakeTheLinksDown \/ ALinkStaysUp \/ WriteTheRecord \/ RemoveTheRecord
  BY <1>22, <1>f DEF TakeTheLinksDown, ALinkStaysUp, WriteTheRecord, RemoveTheRecord
<1>23. CASE PutTheRecordBack \/ StandIn \/ Relink
  BY <1>23, <1>f DEF PutTheRecordBack, StandIn, Relink
<1>24. CASE Crash \/ UNCHANGED vars
  BY <1>24, <1>f DEF Crash, vars, disk
<1> QED
  BY <1>1, <1>2, <1>3, <1>5, <1>6, <1>7, <1>8, <1>9, <1>10, <1>11, <1>12, <1>13, <1>14, <1>15, <1>16,
     <1>17, <1>18, <1>19, <1>20, <1>21, <1>22, <1>23, <1>24 DEF Next


-----------------------------------------------------------------------------
WhatAStepKnows == OneAtATime /\ TheirParts /\ TheLoserWaits /\ TheOtherWaits

\* A step changes nothing of what its operation is about.
LEMMA Parts ==
  ASSUME op \in Operation, NEW step, GoesTo(step)
  PROVE  /\ op'.kind = op.kind /\ op'.loser = op.loser /\ op'.winner = op.winner /\ op'.goal = op.goal
         /\ op'.places = op.places /\ op'.aside = op.aside /\ op'.at = step
  BY DEF Operation, GoesTo

\* Nor does landing.
LEMMA PartsOfWhatLands ==
  ASSUME op \in Operation, Lands
  PROVE  /\ op'.kind = op.kind /\ op'.loser = op.loser /\ op'.winner = op.winner /\ op'.goal = op.goal
         /\ op'.places = op.places /\ op'.aside = op.aside /\ op'.at = "relink"
  BY DEF Operation, Lands

\* Where no operation is left there is nothing to know of its steps.
LEMMA WhatEnds == OneAtATime /\ op' = None => WhatAStepKnows'
  BY DEF WhatAStepKnows, OneAtATime, TheirParts, TheLoserWaits, TheOtherWaits

\* Every step leaves the next one with what it needs to know.
LEMMA KnowledgeStep == IInv /\ [Next]_vars => WhatAStepKnows'
<1> SUFFICES ASSUME IInv, [Next]_vars PROVE WhatAStepKnows'
  OBVIOUS
<1> USE QuarantineAssumption
<1>0. /\ TypeOK /\ OnlyFoldersAreHalf /\ OneAtATime /\ TheLoserWaits /\ TheOtherWaits /\ TheirParts
      /\ holds \in [Where -> Maybe(Copy)]
      /\ op # None => op \in Operation /\ op.loser \in Place /\ op.goal \in Place
  BY DEF IInv, TypeOK, Maybe, Operation
<1>w. /\ Place \subseteq Where /\ {"entry", "staged", "libSlot", "libSwap"} \subseteq Where
      /\ \A p \in Place : p \notin {"staged", "libSlot", "libSwap"}
      /\ \A c \in Category : c # "entry" /\ SlotOf(c) = "libSlot" /\ SwapSlotFor("libSlot") = "libSwap"
  BY DEF Place, Where, Held, Slot, SlotOf, SwapSlotFor
<1>s. \A p \in Place : /\ SlotOf(p) \in Where /\ SlotOf(p) \notin Place /\ SlotOf(p) # "libSwap"
                       /\ SwapSlotFor(SlotOf(p)) \in Where /\ SwapSlotFor(SlotOf(p)) \notin Place
                       /\ SwapSlotFor(SlotOf(p)) # SlotOf(p)
  BY SlotsAreApart DEF Slot
<1>e. ASSUME op' = None PROVE WhatAStepKnows'
  BY <1>e DEF WhatAStepKnows, OneAtATime, TheirParts, TheLoserWaits, TheOtherWaits
\* A step that leaves the folders as they are may only go on to one that asks no more.
<1>g. ASSUME NEW step \in {"disable", "aside", "write", "unrecord", "unaside", "putRecord", "relink"}, op # None,
             GoesTo(step), UNCHANGED <<holds, restoring>>,
             step \in {"disable", "aside", "write"} => op.at \in {"disable", "aside", "write"},
             step = "aside" => op.kind # "admit",
             op.at = "aside" => step = "relink" /\ op.kind # "admit",
             op.at = "putRecord" => op.kind # "admit"
      PROVE  WhatAStepKnows'
  <2>1. /\ op \in Operation /\ op'.kind = op.kind /\ op'.loser = op.loser /\ op'.winner = op.winner
        /\ op'.goal = op.goal /\ op'.places = op.places /\ op'.aside = op.aside /\ op'.at = step
    BY <1>0, <1>g, Parts
  <2> QED
    BY <1>0, <1>g, <2>1 DEF WhatAStepKnows, OneAtATime, TheirParts, TheLoserWaits, TheOtherWaits
<1>1. ASSUME NEW kind \in {"keepLibrary", "keepProvenance", "takeBack"}, NEW p \in {"entry", "vendor"},
             NEW c \in Category, ResolveConflict(kind, p, c)
      PROVE  WhatAStepKnows'
  <2> DEFINE loser == IF kind = "keepLibrary" THEN p ELSE c
             winner == IF kind = "keepLibrary" THEN c ELSE p
  <2>1. /\ op'.kind = kind /\ op'.at = "disable" /\ op'.loser = loser /\ op'.winner = winner /\ op'.goal = c
        /\ op'.places = LinksPointingAt(loser)
    BY <1>1 DEF ResolveConflict, Begin
  <2>2. holds[loser] # None /\ holds' = holds /\ restoring' = {}
        /\ (kind = "takeBack" => p = "entry" /\ holds["entry"] # None)
    BY <1>1 DEF ResolveConflict, InConflict, disk, folders, Idle
  <2>3. loser = "entry" => LinksPointingAt(loser) = {}
    BY <1>0 DEF LinksPointingAt, TypeOK, Maybe, LinkPlace, Where, Place
  <2>4. TheirParts'
    <3>1. kind = "keepLibrary" => winner = c
      OBVIOUS
    <3>2. kind = "takeBack" => winner = "entry" /\ loser = c
      BY <2>2
    <3>3. kind # "admit"
      OBVIOUS
    <3> HIDE DEF winner, loser
    <3> QED
      BY <2>1, <2>3, <3>1, <3>2, <3>3 DEF TheirParts
  <2>5. TheLoserWaits' /\ TheOtherWaits'
    BY <2>1, <2>2 DEF TheLoserWaits, TheOtherWaits
  <2> QED
    BY <2>2, <2>4, <2>5 DEF WhatAStepKnows, OneAtATime
<1>2. ASSUME NEW c \in Category, Admit(c) PROVE WhatAStepKnows'
  <2> DEFINE earlier == holds["libSlot"] # None
  <2>1. /\ op'.kind = "admit" /\ op'.at = IF earlier THEN "aside" ELSE "disable"
        /\ op'.loser = c /\ op'.goal = c /\ op'.aside = earlier
    BY <1>2 DEF Admit, Begin
  <2>2. holds[c] # None /\ holds' = holds /\ restoring' = {}
    BY <1>2 DEF Admit, disk, folders, Idle
  <2>3. TheirParts'
    BY <1>w, <2>1 DEF TheirParts
  <2>4. TheLoserWaits' /\ TheOtherWaits'
    BY <2>1, <2>2 DEF TheLoserWaits, TheOtherWaits
  <2> QED
    BY <2>2, <2>3, <2>4 DEF WhatAStepKnows, OneAtATime
<1>3. ASSUME NEW i \in Held, NEW p \in Place, Swap(i, p) PROVE WhatAStepKnows'
  <2>1. PICK occupant \in Taken(p) : Begin("swap", "disable", occupant, i, p, SlotOf(occupant) = i)
    BY <1>3 DEF Swap
  <2>2. /\ op'.kind = "swap" /\ op'.at = "disable" /\ op'.loser = occupant /\ op'.winner = i
        /\ op'.places = LinksPointingAt(occupant)
    BY <2>1 DEF Begin
  <2>3. holds[occupant] # None /\ holds' = holds /\ restoring' = {}
    BY <1>3, <2>1 DEF Swap, Taken, disk, folders, Idle
  <2>4. occupant = "entry" => LinksPointingAt(occupant) = {}
    BY <1>0 DEF LinksPointingAt, TypeOK, Maybe, LinkPlace, Where, Place
  <2>5. TheirParts'
    BY <2>2, <2>4 DEF TheirParts
  <2>6. TheLoserWaits' /\ TheOtherWaits'
    BY <2>2, <2>3 DEF TheLoserWaits, TheOtherWaits
  <2> QED
    BY <2>3, <2>5, <2>6 DEF WhatAStepKnows, OneAtATime
<1>4. CASE TakeTheLinksDown
  BY <1>4, <1>g DEF TakeTheLinksDown, folders
<1>5. CASE ALinkStaysUp
  BY <1>5, <1>g DEF ALinkStaysUp, folders
<1>6. CASE SetAside
  <2> DEFINE slot == SlotOf(op.loser)
  <2>1. op # None /\ op.at = "aside"
    BY <1>6 DEF SetAside
  <2>2. CASE /\ CanMove(slot, SwapSlotFor(slot)) /\ Moved(slot, SwapSlotFor(slot))
             /\ GoesTo(IF op.kind = "swap" THEN "write" ELSE "disable")
    <3>1. /\ op'.kind = op.kind /\ op'.loser = op.loser /\ op'.winner = op.winner
          /\ op'.goal = op.goal /\ op'.places = op.places /\ op'.aside = op.aside
          /\ op'.at \in {"write", "disable"}
      BY <1>0, <2>1, <2>2, Parts
    <3>2. holds' = [holds EXCEPT ![SwapSlotFor(slot)] = holds[slot], ![slot] = None]
      BY <2>2 DEF Moved
    <3>3. holds'[op.loser] = holds[op.loser] /\ holds'["entry"] = holds["entry"]
      BY <1>0, <1>w, <1>s, <2>1, <3>2 DEF Place
    <3>4. op.kind = "admit" => holds'["libSwap"] # None
      BY <1>0, <1>w, <1>s, <2>1, <3>2 DEF TheOtherWaits, TheirParts
    <3>5. TheirParts'
      BY <1>0, <2>1, <3>1 DEF TheirParts
    <3>6. TheLoserWaits' /\ TheOtherWaits'
      BY <1>0, <2>1, <3>1, <3>3, <3>4 DEF TheLoserWaits, TheOtherWaits
    <3> QED
      BY <1>0, <1>6, <2>1, <3>5, <3>6 DEF WhatAStepKnows, OneAtATime, SetAside
  <2>3. CASE UNCHANGED folders /\ IF op.kind = "swap" THEN GoesTo("relink") ELSE Over
    <3>1. CASE op.kind = "swap"
      BY <1>6, <1>g, <2>1, <2>3, <3>1 DEF SetAside, folders
    <3>2. CASE op.kind # "swap"
      BY <1>e, <2>3, <3>2 DEF Over
    <3> QED
      BY <3>1, <3>2
  <2> QED
    BY <1>6, <2>2, <2>3 DEF SetAside
<1>7. CASE WriteTheRecord
  <2>1. CASE GoesTo("move")
    <3>1. /\ op # None /\ op.at = "write" /\ holds[SlotOf(op.loser)] = None /\ holds' = holds /\ restoring' = restoring
      BY <1>7 DEF WriteTheRecord, folders
    <3>2. /\ op'.kind = op.kind /\ op'.loser = op.loser /\ op'.winner = op.winner
          /\ op'.goal = op.goal /\ op'.places = op.places /\ op'.aside = op.aside /\ op'.at = "move"
      BY <1>0, <2>1, <3>1, Parts
    <3> QED
      BY <1>0, <3>1, <3>2 DEF WhatAStepKnows, OneAtATime, TheirParts, TheLoserWaits, TheOtherWaits
  <2>2. CASE GoesTo(BackOut)
    BY <1>7, <1>g, <2>2 DEF WriteTheRecord, BackOut, folders
  <2> QED
    BY <1>7, <2>1, <2>2 DEF WriteTheRecord
\* The loser has just gone from its place.
<1>q. ASSUME op # None, op.at \in {"move", "empty"}, IsQuarantined, restoring' = restoring, holds'[op.loser] = None,
             holds'["libSwap"] = holds["libSwap"], op.loser # "entry" => holds'["entry"] = holds["entry"]
      PROVE  WhatAStepKnows'
  <2>1. CASE op.kind = "keepProvenance"
    BY <1>e, <1>q, <2>1 DEF IsQuarantined, Over
  <2>2. CASE op.kind # "keepProvenance"
    <3>1. /\ op'.kind = op.kind /\ op'.loser = op.loser /\ op'.winner = op.winner
          /\ op'.goal = op.goal /\ op'.places = op.places /\ op'.aside = op.aside /\ op'.at = "arrive"
      BY <1>0, <1>q, <2>2, Parts DEF IsQuarantined
    <3>2. TheirParts' /\ TheLoserWaits'
      BY <1>0, <1>q, <3>1 DEF TheirParts, TheLoserWaits
    <3>3. op.kind = "takeBack" => holds'["entry"] # None
      BY <1>0, <1>q, <1>w DEF TheirParts, TheOtherWaits
    <3>4. op.kind = "admit" /\ op.aside => holds'["libSwap"] # None
      BY <1>0, <1>q DEF TheOtherWaits
    <3>5. TheOtherWaits'
      BY <3>1, <3>3, <3>4 DEF TheOtherWaits
    <3> QED
      BY <1>0, <1>q, <3>2, <3>5 DEF WhatAStepKnows, OneAtATime
  <2> QED
    BY <2>1, <2>2
<1>8. CASE MoveToTheQuarantine
  <2>1. /\ op # None /\ op.at = "move" /\ IsQuarantined /\ restoring' = restoring
        /\ holds' = [holds EXCEPT ![SlotOf(op.loser)] = holds[op.loser], ![op.loser] = None]
    BY <1>8 DEF MoveToTheQuarantine, Moved
  <2>2. /\ holds'[op.loser] = None /\ holds'["libSwap"] = holds["libSwap"]
        /\ op.loser # "entry" => holds'["entry"] = holds["entry"]
    BY <1>0, <1>w, <1>s, <2>1 DEF Place
  <2> QED
    BY <1>q, <2>1, <2>2
<1>9. CASE CopyToTheQuarantine
  <2>1. /\ op # None /\ op.at = "move" /\ restoring' = restoring
        /\ holds' = [holds EXCEPT ![SlotOf(op.loser)] = holds[op.loser]]
        /\ half' = half \cup (IF op.loser \in half THEN {SlotOf(op.loser)} ELSE {})
    BY <1>9 DEF CopyToTheQuarantine
  <2>2. /\ op'.kind = op.kind /\ op'.loser = op.loser /\ op'.winner = op.winner
        /\ op'.goal = op.goal /\ op'.places = op.places /\ op'.aside = op.aside /\ op'.at = "empty"
    BY <1>0, <1>9, <2>1, Parts DEF CopyToTheQuarantine
  <2>3. /\ holds'[op.loser] = holds[op.loser] /\ holds'[SlotOf(op.loser)] = holds[op.loser]
        /\ holds'["entry"] = holds["entry"] /\ holds'["libSwap"] = holds["libSwap"]
    BY <1>0, <1>w, <1>s, <2>1 DEF Place
  <2>4. SlotOf(op.loser) \in half' => op.loser \in half'
    BY <1>0, <1>s, <2>1 DEF OnlyFoldersAreHalf, TheLoserWaits
  <2>5. TheirParts'
    BY <1>0, <2>1, <2>2 DEF TheirParts
  <2>6. TheLoserWaits'
    BY <1>0, <2>1, <2>2, <2>3, <2>4 DEF TheLoserWaits
  <2>7. TheOtherWaits'
    BY <1>0, <2>1, <2>2, <2>3 DEF TheOtherWaits
  <2> QED
    BY <1>0, <2>1, <2>5, <2>6, <2>7 DEF WhatAStepKnows, OneAtATime
<1>10. CASE RemoveTheLoser
  <2>1. /\ op # None /\ op.at = "empty" /\ IsQuarantined /\ restoring' = restoring
        /\ holds' = [holds EXCEPT ![op.loser] = None]
    BY <1>10 DEF RemoveTheLoser
  <2>2. /\ holds'[op.loser] = None /\ holds'["libSwap"] = holds["libSwap"]
        /\ op.loser # "entry" => holds'["entry"] = holds["entry"]
    BY <1>0, <1>w, <2>1
  <2> QED
    BY <1>q, <2>1, <2>2
<1>11. CASE QuarantineFails
  BY <1>11, <1>g DEF QuarantineFails
<1>12. CASE RemoveTheRecord
  BY <1>12, <1>g DEF RemoveTheRecord, BackOut, folders
<1>13. CASE MakeNoRoom
  <2> DEFINE slot == SlotOf(op.loser)
  <2>1. op # None /\ op.at = "unaside" /\ restoring' = restoring
    BY <1>13 DEF MakeNoRoom
  <2>2. CASE Moved(SwapSlotFor(slot), slot) /\ GoesTo("putRecord")
    <3>1. /\ op'.kind = op.kind /\ op'.loser = op.loser /\ op'.winner = op.winner
          /\ op'.goal = op.goal /\ op'.places = op.places /\ op'.aside = op.aside /\ op'.at = "putRecord"
      BY <1>0, <2>1, <2>2, Parts
    <3> QED
      BY <1>0, <2>1, <3>1 DEF WhatAStepKnows, OneAtATime, TheirParts, TheLoserWaits, TheOtherWaits
  <2>3. CASE UNCHANGED folders /\ IF op.kind = "swap" THEN GoesTo("relink") ELSE Over
    <3>1. CASE op.kind = "swap"
      BY <1>g, <2>1, <2>3, <3>1 DEF folders
    <3>2. CASE op.kind # "swap"
      BY <1>e, <2>3, <3>2 DEF Over
    <3> QED
      BY <3>1, <3>2
  <2> QED
    BY <1>13, <2>2, <2>3 DEF MakeNoRoom
<1>14. CASE PutTheRecordBack
  <2>1. CASE op.kind = "swap"
    BY <1>14, <1>g, <2>1 DEF PutTheRecordBack, folders
  <2>2. CASE op.kind # "swap"
    BY <1>14, <1>e, <2>2 DEF PutTheRecordBack, Over
  <2> QED
    BY <2>1, <2>2
\* The other copy has arrived, or it has not and nothing waits for it any more.
<1>l. ASSUME op # None, op.at \in {"arrive", "restore"}, Lands \/ GoesTo("relink"), restoring' = restoring,
             holds'["libSwap"] = holds["libSwap"] \/ op.kind # "admit"
      PROVE  WhatAStepKnows'
  <2>1. /\ op'.kind = op.kind /\ op'.loser = op.loser /\ op'.winner = op.winner
        /\ op'.goal = op.goal /\ op'.places = op.places /\ op'.aside = op.aside /\ op'.at = "relink"
    BY <1>0, <1>l, Parts, PartsOfWhatLands
  <2> QED
    BY <1>0, <1>l, <2>1 DEF WhatAStepKnows, OneAtATime, TheirParts, TheLoserWaits, TheOtherWaits
\* It has not, and the loser comes back.
<1>r. ASSUME op # None, op.at = "arrive", op.kind \in {"takeBack", "admit"}, GoesTo("restore"),
             UNCHANGED <<holds, restoring>>
      PROVE  WhatAStepKnows'
  <2>1. /\ op'.kind = op.kind /\ op'.loser = op.loser /\ op'.winner = op.winner
        /\ op'.goal = op.goal /\ op'.places = op.places /\ op'.aside = op.aside /\ op'.at = "restore"
    BY <1>0, <1>r, Parts
  <2> QED
    BY <1>0, <1>r, <2>1 DEF WhatAStepKnows, OneAtATime, TheirParts, TheLoserWaits, TheOtherWaits
<1>15. CASE StandIn
  BY <1>15, <1>l DEF StandIn, folders
<1>16. CASE ImportTheProvenance
  BY <1>16, <1>l, <1>r DEF ImportTheProvenance, folders
<1>17. CASE MoveTheNewcomerIn
  <2>1. CASE Moved("staged", op.goal) /\ Lands
    <3>1. op.goal # "libSwap" /\ op.goal \in Where /\ op # None
      BY <1>0, <1>17, <1>w DEF MoveTheNewcomerIn
    <3>2. holds'["libSwap"] = holds["libSwap"]
      BY <1>0, <1>w, <2>1, <3>1 DEF Moved
    <3> QED
      BY <1>17, <1>l, <2>1, <3>2 DEF MoveTheNewcomerIn
  <2>2. CASE GoesTo("restore") /\ UNCHANGED folders
    BY <1>17, <1>r, <2>2 DEF MoveTheNewcomerIn, folders
  <2> QED
    BY <1>17, <2>1, <2>2 DEF MoveTheNewcomerIn
<1>18. CASE RestoreTheLoser
  <2> DEFINE slot == SlotOf(op.loser)
  <2>1. op # None /\ op.at = "restore" /\ GoesTo("relink") /\ restoring' = restoring /\ op.loser \in Place
    BY <1>0, <1>18 DEF RestoreTheLoser
  <2>2. CASE Moved(slot, op.loser)
    <3>1. slot # "libSwap" /\ op.loser # "libSwap"
      BY <1>w, <1>s, <2>1
    <3>2. holds'["libSwap"] = holds["libSwap"]
      BY <1>0, <1>w, <2>2, <3>1 DEF Moved
    <3> QED
      BY <1>l, <2>1, <3>2
  <2>3. CASE UNCHANGED folders
    BY <1>l, <2>1, <2>3 DEF folders
  <2> QED
    BY <1>18, <2>2, <2>3 DEF RestoreTheLoser
<1>19. CASE ItemComesBack
  BY <1>19, <1>e, <1>l DEF ItemComesBack, Over
<1>20. CASE Relink
  <2>1. CASE op' = None
    BY <1>e, <2>1
  <2>2. CASE op.kind = "admit" /\ op.aside
    <3>1. PICK cut : op' = [op EXCEPT !.cut = cut, !.at = IF op.landed THEN "drop" ELSE "unaside"]
      BY <1>20, <2>2 DEF Relink
    <3>2. /\ op \in Operation /\ op # None /\ op.at = "relink" /\ holds' = holds /\ restoring' = restoring
      BY <1>0, <1>20 DEF Relink, folders
    <3>3. /\ op'.kind = op.kind /\ op'.loser = op.loser /\ op'.winner = op.winner
          /\ op'.goal = op.goal /\ op'.places = op.places /\ op'.aside = op.aside /\ op'.at \in {"drop", "unaside"}
      BY <3>1, <3>2 DEF Operation
    <3> QED
      BY <1>0, <2>2, <3>2, <3>3 DEF WhatAStepKnows, OneAtATime, TheirParts, TheLoserWaits, TheOtherWaits
  <2> QED
    BY <1>20, <2>1, <2>2 DEF Relink
<1>21. CASE DropTheEarlierCopy \/ Crash
  BY <1>21, <1>e DEF DropTheEarlierCopy, Crash, Over
<1>22. ASSUME op = None, op' = op PROVE WhatAStepKnows'
  BY <1>e, <1>22
<1>23. CASE \/ \E c \in Copy, w \in Where : Appears(c, w)
            \/ \E p \in Place : Enable(p)
            \/ \E c \in Category : AdmitIntoTheFreePlace(c)
            \/ \E i \in Held : Discard(i)
            \/ \E I \in SUBSET Held : Restore(I)
  BY <1>22, <1>23 DEF Appears, Enable, AdmitIntoTheFreePlace, Discard, Restore, Idle, disk
<1>24. ASSUME NEW r \in restoring, RestoreOne(r) PROVE WhatAStepKnows'
  BY <1>0, <1>22, <1>24 DEF OneAtATime, RestoreOne
<1>25. CASE UNCHANGED vars
  <2>1. UNCHANGED <<holds, half, op, restoring>>
    BY <1>25 DEF vars, disk, folders
  <2> QED
    BY <1>0, <2>1 DEF WhatAStepKnows, OneAtATime, TheirParts, TheLoserWaits, TheOtherWaits
<1> QED
  BY <1>1, <1>2, <1>3, <1>4, <1>5, <1>6, <1>7, <1>8, <1>9, <1>10, <1>11, <1>12, <1>13, <1>14, <1>15,
     <1>16, <1>17, <1>18, <1>19, <1>20, <1>21, <1>23, <1>24, <1>25 DEF Next

-----------------------------------------------------------------------------
\* The invariant holds when the program starts.
LEMMA InitIsGood == Init => IInv
<1> SUFFICES ASSUME Init PROVE IInv
  OBVIOUS
<1>1. TypeOK
  BY QuarantineAssumption DEF Init, TypeOK, Maybe
<1>2. OnlyFoldersAreHalf /\ WhatIsThereIsKnown /\ NoCopyIsLost
  BY DEF Init, OnlyFoldersAreHalf, WhatIsThereIsKnown, NoCopyIsLost
<1>3. OneAtATime /\ TheirParts /\ TheLoserWaits /\ TheOtherWaits
  BY DEF Init, OneAtATime, TheirParts, TheLoserWaits, TheOtherWaits
<1> QED
  BY <1>1, <1>2, <1>3 DEF IInv

\* The inductive invariant holds in every reachable state.
LEMMA Inductive == Spec => []IInv
<1>1. IInv /\ [Next]_vars => IInv'
  BY TypeStep, CopiesStep, KnowledgeStep DEF IInv, WhatAStepKnows
<1> QED
  BY <1>1, InitIsGood, PTL DEF Spec

\* For any contents, categories and number of faults, each variable keeps its kind
\* and the user is only ever taken to have discarded what was there.
THEOREM QuarantineTypeCorrect == Spec => []TypeOK
<1>1. IInv => TypeOK
  BY DEF IInv
<1> QED
  BY <1>1, Inductive, PTL

\* No conflict, admission, swap or restore, nor any failure or crash between two of
\* their steps, loses a copy the user has not agreed to discard.
THEOREM NoCopyIsEverLost == Spec => []NoCopyIsLost
<1>1. IInv => NoCopyIsLost
  BY DEF IInv
<1> QED
  BY <1>1, Inductive, PTL


-----------------------------------------------------------------------------
(* Links, and the newcomer of an admission. *)

\* The links to the loser are among those the operation takes down, and are down
\* before the loser moves.
TheLinksAreDown ==
    op # None =>
        /\ op.at = "disable" \/ (op.at = "aside" /\ op.kind # "swap")
             => \A l \in {"entry", "other"} : link[l] = op.loser => l \in op.places
        /\ op.at \in {"write", "move", "empty"} \/ (op.at = "aside" /\ op.kind = "swap")
             => \A l \in {"entry", "other"} : link[l] # op.loser

\* The copy of the library that is kept stands where a link will lead to it.
TheWinnerStands ==
    op # None /\ op.kind = "keepLibrary" =>
        /\ op.loser \notin Category
        /\ op.at \in {"disable", "aside", "write", "move", "empty", "arrive"} => holds[op.winner] # None

\* What an installation extracted waits until it is moved in, and is then in its place.
TheNewcomer ==
    op # None /\ op.kind = "admit" =>
        IF op.landed THEN op.at \in {"relink", "drop"} /\ holds[op.goal] # None /\ holds["staged"] = None
        ELSE op.at # "drop" /\ holds["staged"] # None

\* The only folders that leave their places are the loser, on its way to the
\* quarantine, and the provenance that is taken back.
LEMMA OnlyTheseLeave ==
  ASSUME IInv, [Next]_vars, NEW p \in Place \cup {"staged"}, holds[p] # None, holds'[p] = None
  PROVE  \/ op # None /\ p = op.loser /\ op.at \in {"move", "empty"}
         \/ op # None /\ p = "entry" /\ op.kind = "takeBack" /\ op.at = "arrive"
         \/ op # None /\ p = "staged" /\ op.kind = "admit" /\ op.at = "arrive" /\ Lands /\ Moved("staged", op.goal)
         \/ op = None /\ op' = None /\ p = "staged"
<1> USE QuarantineAssumption
<1>0. /\ holds \in [Where -> Maybe(Copy)] /\ OneAtATime /\ TheirParts /\ TheLoserWaits /\ p \in Where
      /\ op # None => op.loser \in Place /\ op.goal \in Place /\ op.winner \in Where
  BY DEF IInv, TypeOK, Maybe, Operation, Place, Where
<1>w. /\ \A i \in Held : i \in Where /\ i # p
      /\ \A q \in Place : q \in Where /\ SlotOf(q) \in Held /\ SwapSlotFor(SlotOf(q)) \in Held
  BY SlotsAreApart DEF Place, Where, Held, Slot
<1>u. holds' # holds
  OBVIOUS
\* What comes into a free place replaces nothing.
<1>m. ASSUME NEW a \in Where, NEW b \in Where, Moved(a, b), holds[b] = None
      PROVE  a = p
  BY <1>0, <1>m DEF Moved
<1>1. CASE \/ \E c \in Copy, w \in Where : Appears(c, w)
           \/ CopyToTheQuarantine
  BY <1>0, <1>1, <1>w DEF Appears, CopyToTheQuarantine, TheLoserWaits, IInv, TypeOK
<1>2. ASSUME NEW c \in Category, AdmitIntoTheFreePlace(c) PROVE p = "staged" /\ op = None /\ op' = None
  <2>1. holds[c] = None /\ c \in Where /\ "staged" \in Where /\ Moved("staged", c) /\ op = None /\ op' = None
    BY <1>2 DEF AdmitIntoTheFreePlace, Taken, Place, Where, Idle
  <2> QED
    BY <1>m, <2>1
<1>3. ASSUME NEW i \in Held, Discard(i) PROVE FALSE
  BY <1>0, <1>3, <1>w DEF Discard, Removed
<1>4. ASSUME NEW r \in restoring, RestoreOne(r) PROVE FALSE
  <2>1. r.item \in Held /\ r.origin \in Where
    BY DEF IInv, TypeOK, Place, Where
  <2> QED
    BY <1>4, <1>m, <1>u, <1>w, <2>1 DEF RestoreOne, PutBack, StaysBehind, CanMove, folders
<1>5. CASE SetAside
  BY <1>0, <1>5, <1>m, <1>u, <1>w DEF SetAside, CanMove, folders
<1>6. CASE MoveToTheQuarantine
  BY <1>0, <1>6, <1>m, <1>w DEF MoveToTheQuarantine, CanMove
<1>7. CASE RemoveTheLoser
  BY <1>0, <1>7 DEF RemoveTheLoser
<1>8. CASE MakeNoRoom
  BY <1>0, <1>8, <1>m, <1>u, <1>w DEF MakeNoRoom, CanMove, folders
<1>9. CASE ImportTheProvenance
  <2>1. op # None /\ op.goal = op.loser /\ op.winner = "entry" /\ holds[op.goal] = None
        /\ op.kind = "takeBack" /\ op.at = "arrive"
    BY <1>0, <1>9 DEF ImportTheProvenance, TheirParts, TheLoserWaits
  <2>2. CASE Moved(op.winner, op.goal)
    BY <1>0, <1>m, <1>w, <2>1, <2>2
  <2>3. CASE holds' = [holds EXCEPT ![op.goal] = holds[op.winner]]
    BY <1>0, <1>w, <2>1, <2>3
  <2> QED
    BY <1>9, <1>u, <2>2, <2>3 DEF ImportTheProvenance, folders
<1>10. CASE MoveTheNewcomerIn
  <2>1. op # None /\ op.goal = op.loser /\ holds[op.goal] = None /\ "staged" \in Where
    BY <1>0, <1>10 DEF MoveTheNewcomerIn, TheirParts, TheLoserWaits, Where
  <2> QED
    BY <1>0, <1>10, <1>m, <1>u, <1>w, <2>1 DEF MoveTheNewcomerIn, folders
<1>11. CASE RestoreTheLoser
  <2>1. op # None /\ holds[op.loser] = None
    BY <1>0, <1>11 DEF RestoreTheLoser, TheirParts, TheLoserWaits
  <2> QED
    BY <1>0, <1>11, <1>m, <1>u, <1>w, <2>1 DEF RestoreTheLoser, folders
<1>12. CASE ItemComesBack
  <2>1. op # None /\ (IF op.aside THEN SwapSlotFor(SlotOf(op.loser)) ELSE op.winner) \in Held
    BY <1>0, <1>12, <1>w DEF ItemComesBack, TheirParts
  <2> QED
    BY <1>0, <1>12, <1>m, <1>u, <1>w, <2>1 DEF ItemComesBack, PutBack, StaysBehind, CanMove, folders
<1>13. CASE DropTheEarlierCopy
  BY <1>0, <1>13, <1>w DEF DropTheEarlierCopy, Removed
<1>14. CASE \/ \E q \in Place : Enable(q)
            \/ \E kind, q, c : ResolveConflict(kind, q, c)
            \/ \E c : Admit(c)
            \/ \E i, q : Swap(i, q)
            \/ \E I : Restore(I)
  BY <1>u, <1>14 DEF Enable, ResolveConflict, Admit, Swap, Restore, disk, folders
<1>15. CASE \/ TakeTheLinksDown \/ ALinkStaysUp \/ WriteTheRecord \/ QuarantineFails \/ RemoveTheRecord
            \/ PutTheRecordBack \/ StandIn \/ Relink \/ Crash \/ UNCHANGED vars
  BY <1>u, <1>15 DEF TakeTheLinksDown, ALinkStaysUp, WriteTheRecord, QuarantineFails, RemoveTheRecord,
     PutTheRecordBack, StandIn, Relink, Crash, vars, disk, folders
<1> QED
  BY <1>1, <1>2, <1>3, <1>4, <1>5, <1>6, <1>7, <1>8, <1>9, <1>10, <1>11, <1>12, <1>13, <1>14, <1>15 DEF Next

\* Going on to another step leaves it as it was whether the other copy has landed.
LEMMA WhatLands ==
  ASSUME op \in Operation, NEW step, GoesTo(step)
  PROVE  op'.landed = op.landed
  BY DEF Operation, GoesTo

\* The links to the loser stay down while it moves.
LEMMA LinksAreDownStep == IInv /\ TheLinksAreDown /\ [Next]_vars => TheLinksAreDown'
<1> SUFFICES ASSUME IInv, TheLinksAreDown, [Next]_vars PROVE TheLinksAreDown'
  OBVIOUS
<1> USE QuarantineAssumption
<1>0. /\ TypeOK /\ OneAtATime
      /\ op # None => op \in Operation
      /\ link \in [LinkPlace -> Maybe(Category \cup {"vendor"})] /\ {"entry", "other"} \subseteq LinkPlace
  BY DEF IInv, TypeOK, Maybe, LinkPlace
<1>e. ASSUME op' = None PROVE TheLinksAreDown'
  BY <1>e DEF TheLinksAreDown
\* A step that neither changes the links nor begins to move the loser.
<1>g. ASSUME NEW step \in {"move", "empty", "unrecord", "unaside", "putRecord", "arrive", "restore", "relink", "drop"},
             op # None, GoesTo(step), step \in {"move", "empty"} => op.at \in {"write", "move"},
             UNCHANGED link \/ step \notin {"move", "empty"}
      PROVE  TheLinksAreDown'
  <2>1. op'.loser = op.loser /\ op'.places = op.places /\ op'.kind = op.kind /\ op'.at = step
    BY <1>0, <1>g, Parts
  <2> QED
    BY <1>g, <2>1 DEF TheLinksAreDown
<1>l. ASSUME op # None, Lands PROVE TheLinksAreDown'
  <2>1. op'.at = "relink"
    BY <1>0, <1>l, PartsOfWhatLands
  <2> QED
    BY <2>1 DEF TheLinksAreDown
<1>1. ASSUME NEW kind, NEW p, NEW c, ResolveConflict(kind, p, c) PROVE TheLinksAreDown'
  <2>1. PICK loser, winner : Begin(kind, "disable", loser, winner, c, FALSE)
    BY <1>1 DEF ResolveConflict
  <2>2. op'.at = "disable" /\ op'.loser = loser /\ op'.places = LinksPointingAt(loser)
    BY <2>1 DEF Begin
  <2> QED
    BY <1>1, <2>2 DEF ResolveConflict, TheLinksAreDown, LinksPointingAt, disk
<1>2. ASSUME NEW c, Admit(c) PROVE TheLinksAreDown'
  <2>1. op'.at \in {"aside", "disable"} /\ op'.loser = c /\ op'.places = LinksPointingAt(c) /\ op'.kind = "admit"
    BY <1>2 DEF Admit, Begin
  <2> QED
    BY <1>2, <2>1 DEF Admit, TheLinksAreDown, LinksPointingAt, disk
<1>3. ASSUME NEW i, NEW p, Swap(i, p) PROVE TheLinksAreDown'
  <2>1. PICK occupant : Begin("swap", "disable", occupant, i, p, SlotOf(occupant) = i)
    BY <1>3 DEF Swap
  <2>2. op'.at = "disable" /\ op'.loser = occupant /\ op'.places = LinksPointingAt(occupant)
    BY <2>1 DEF Begin
  <2> QED
    BY <1>3, <2>2 DEF Swap, TheLinksAreDown, LinksPointingAt, disk
<1>4. CASE TakeTheLinksDown
  <2>1. /\ op # None /\ op.at = "disable" /\ link' = WithoutLinks(op.places)
        /\ GoesTo(IF op.kind = "swap" /\ op.aside THEN "aside" ELSE "write")
    BY <1>4 DEF TakeTheLinksDown
  <2>2. /\ op'.loser = op.loser /\ op'.kind = op.kind /\ op'.at \in {"aside", "write"}
        /\ op'.at = "aside" => op.kind = "swap"
    BY <1>0, <2>1, Parts
  <2>3. op.loser # None
    BY <1>0, <2>1 DEF Operation, Place, Where
  <2>4. \A l \in {"entry", "other"} : link'[l] # op.loser
    BY <1>0, <2>1, <2>3 DEF WithoutLinks, TheLinksAreDown
  <2> QED
    BY <2>2, <2>4 DEF TheLinksAreDown
<1>5. CASE ALinkStaysUp
  BY <1>5, <1>g DEF ALinkStaysUp
<1>6. CASE SetAside
  <2>1. op # None /\ op.at = "aside" /\ link' = link
    BY <1>6 DEF SetAside
  <2>2. CASE GoesTo(IF op.kind = "swap" THEN "write" ELSE "disable")
    <3>1. /\ op'.loser = op.loser /\ op'.places = op.places /\ op'.kind = op.kind
          /\ op'.at = IF op.kind = "swap" THEN "write" ELSE "disable"
      BY <1>0, <2>1, <2>2, Parts
    <3> QED
      BY <2>1, <3>1 DEF TheLinksAreDown
  <2>3. CASE IF op.kind = "swap" THEN GoesTo("relink") ELSE Over
    BY <1>e, <1>g, <2>1, <2>3 DEF Over
  <2> QED
    BY <1>6, <2>2, <2>3 DEF SetAside
<1>7. CASE WriteTheRecord
  <2>1. CASE GoesTo("move")
    BY <1>7, <1>g, <2>1 DEF WriteTheRecord
  <2>2. CASE GoesTo(BackOut)
    BY <1>7, <1>g, <2>2 DEF WriteTheRecord, BackOut
  <2> QED
    BY <1>7, <2>1, <2>2 DEF WriteTheRecord
<1>8. CASE MoveToTheQuarantine \/ RemoveTheLoser
  BY <1>8, <1>e, <1>g DEF MoveToTheQuarantine, RemoveTheLoser, IsQuarantined, Over
<1>9. CASE CopyToTheQuarantine \/ QuarantineFails
  BY <1>9, <1>g DEF CopyToTheQuarantine, QuarantineFails
<1>10. CASE RemoveTheRecord
  BY <1>10, <1>g DEF RemoveTheRecord, BackOut
<1>11. CASE MakeNoRoom \/ PutTheRecordBack
  BY <1>11, <1>e, <1>g DEF MakeNoRoom, PutTheRecordBack, Over
<1>12. CASE StandIn \/ ImportTheProvenance \/ MoveTheNewcomerIn
  BY <1>12, <1>l, <1>g DEF StandIn, ImportTheProvenance, MoveTheNewcomerIn
<1>13. CASE RestoreTheLoser \/ ItemComesBack
  BY <1>13, <1>l, <1>e, <1>g DEF RestoreTheLoser, ItemComesBack, Over
<1>14. CASE Relink
  <2>1. CASE op' = None
    BY <1>e, <2>1
  <2>2. CASE op' # None
    <3>1. PICK cut : op' = [op EXCEPT !.cut = cut, !.at = IF op.landed THEN "drop" ELSE "unaside"]
      BY <1>14, <2>2 DEF Relink
    <3>2. op'.at \in {"drop", "unaside"}
      BY <1>0, <1>14, <3>1 DEF Relink, Operation
    <3> QED
      BY <3>2 DEF TheLinksAreDown
  <2> QED
    BY <2>1, <2>2
<1>15. CASE DropTheEarlierCopy \/ Crash
  BY <1>15, <1>e DEF DropTheEarlierCopy, Crash, Over
<1>16. CASE \/ \E c \in Copy, w \in Where : Appears(c, w)
            \/ \E p \in Place : Enable(p)
            \/ \E c \in Category : AdmitIntoTheFreePlace(c)
            \/ \E i \in Held : Discard(i)
            \/ \E I \in SUBSET Held : Restore(I)
  BY <1>16, <1>e DEF Appears, Enable, AdmitIntoTheFreePlace, Discard, Restore, Idle, disk
<1>17. ASSUME NEW r \in restoring, RestoreOne(r) PROVE TheLinksAreDown'
  BY <1>0, <1>17, <1>e DEF OneAtATime, RestoreOne
<1>18. CASE UNCHANGED vars
  BY <1>18 DEF vars, disk, TheLinksAreDown
<1> QED
  BY <1>1, <1>2, <1>3, <1>4, <1>5, <1>6, <1>7, <1>8, <1>9, <1>10, <1>11, <1>12, <1>13, <1>14, <1>15,
     <1>16, <1>17, <1>18 DEF Next

\* The copy of the library that is kept stands until the links lead to it.
LEMMA WinnerStandsStep == IInv /\ TheWinnerStands /\ [Next]_vars => TheWinnerStands'
<1> SUFFICES ASSUME IInv, TheWinnerStands, [Next]_vars PROVE TheWinnerStands'
  OBVIOUS
<1> USE QuarantineAssumption
<1>0. /\ TypeOK /\ OneAtATime /\ TheirParts /\ holds \in [Where -> Maybe(Copy)]
      /\ op # None => op \in Operation
  BY DEF IInv, TypeOK, Maybe
<1>e. ASSUME op' = None PROVE TheWinnerStands'
  BY <1>e DEF TheWinnerStands
<1>p. /\ Category \subseteq Place /\ "entry" \notin Category /\ "vendor" \notin Category
  BY DEF Place
\* The winner is no loser, so it does not leave.
<1>g. ASSUME op # None, op' # None, op'.kind = op.kind, op'.loser = op.loser, op'.winner = op.winner,
             op'.at \in {"disable", "aside", "write", "move", "empty", "arrive"}
               => op.at \in {"disable", "aside", "write", "move", "empty"}
      PROVE  TheWinnerStands'
  <2> SUFFICES ASSUME op.kind = "keepLibrary"
               PROVE  /\ op.loser \notin Category
                      /\ op'.at \in {"disable", "aside", "write", "move", "empty", "arrive"} => holds'[op.winner] # None
    BY <1>g DEF TheWinnerStands
  <2>1. op.loser \notin Category /\ op.winner \in Category
    BY <1>0, <1>g DEF TheWinnerStands, TheirParts
  <2>2. ASSUME op.at \in {"disable", "aside", "write", "move", "empty"} PROVE holds'[op.winner] # None
    <3>1. holds[op.winner] # None /\ op.winner \in Place
      BY <1>g, <1>p, <2>1, <2>2 DEF TheWinnerStands
    <3>2. op.winner # op.loser /\ op.winner # "entry" /\ op.winner # "staged"
      BY <1>p, <2>1
    <3> QED
      BY <1>g, <3>1, <3>2, OnlyTheseLeave
  <2> QED
    BY <1>g, <2>1, <2>2
<1>n. ASSUME op' # None, op'.kind # "keepLibrary" PROVE TheWinnerStands'
  BY <1>n DEF TheWinnerStands
<1>t. ASSUME NEW step \in At, op # None, GoesTo(step),
             step \in {"disable", "aside", "write", "move", "empty", "arrive"}
               => op.at \in {"disable", "aside", "write", "move", "empty"}
      PROVE  TheWinnerStands'
  <2>1. /\ op'.loser = op.loser /\ op'.winner = op.winner /\ op'.kind = op.kind /\ op'.at = step
    BY <1>0, <1>t, Parts
  <2> QED
    BY <1>e, <1>g, <1>t, <2>1
<1>l. ASSUME op # None, Lands PROVE TheWinnerStands'
  <2>1. op'.loser = op.loser /\ op'.winner = op.winner /\ op'.kind = op.kind /\ op'.at = "relink"
    BY <1>0, <1>l, PartsOfWhatLands
  <2> QED
    BY <1>e, <1>g, <1>l, <2>1
<1> USE DEF At
<1>1. ASSUME NEW kind \in {"keepLibrary", "keepProvenance", "takeBack"}, NEW p \in {"entry", "vendor"},
             NEW c \in Category, ResolveConflict(kind, p, c)
      PROVE  TheWinnerStands'
  <2>1. op'.kind = kind /\ (kind = "keepLibrary" => op'.loser = p /\ op'.winner = c)
    BY <1>1 DEF ResolveConflict, Begin
  <2>2. holds'[c] # None
    BY <1>1 DEF ResolveConflict, InConflict, disk, folders
  <2> QED
    BY <1>p, <2>1, <2>2 DEF TheWinnerStands
<1>2. ASSUME NEW c \in Category, Admit(c) PROVE TheWinnerStands'
  <2>1. op'.kind = "admit"
    BY <1>2 DEF Admit, Begin
  <2> QED
    BY <2>1 DEF TheWinnerStands
<1>3. ASSUME NEW i \in Held, NEW p \in Place, Swap(i, p) PROVE TheWinnerStands'
  <2>1. op'.kind = "swap"
    BY <1>3 DEF Swap, Begin
  <2> QED
    BY <2>1 DEF TheWinnerStands
<1>4. CASE TakeTheLinksDown \/ ALinkStaysUp \/ WriteTheRecord \/ RemoveTheRecord
  BY <1>4, <1>t DEF TakeTheLinksDown, ALinkStaysUp, WriteTheRecord, RemoveTheRecord, BackOut
<1>5. CASE SetAside \/ MakeNoRoom \/ PutTheRecordBack
  BY <1>5, <1>e, <1>t DEF SetAside, MakeNoRoom, PutTheRecordBack, Over
<1>6. CASE MoveToTheQuarantine \/ CopyToTheQuarantine \/ RemoveTheLoser \/ QuarantineFails
  BY <1>6, <1>e, <1>t DEF MoveToTheQuarantine, CopyToTheQuarantine, RemoveTheLoser, QuarantineFails, IsQuarantined, Over
<1>7. CASE StandIn \/ ImportTheProvenance \/ MoveTheNewcomerIn \/ RestoreTheLoser \/ ItemComesBack
  BY <1>7, <1>e, <1>l, <1>t DEF StandIn, ImportTheProvenance, MoveTheNewcomerIn, RestoreTheLoser, ItemComesBack, Over
<1>8. CASE Relink
  <2>1. CASE op' = None
    BY <1>e, <2>1
  <2>2. CASE op' # None
    <3>1. PICK cut : op' = [op EXCEPT !.cut = cut, !.at = IF op.landed THEN "drop" ELSE "unaside"]
      BY <1>8, <2>2 DEF Relink
    <3>2. op'.at \in {"drop", "unaside"} /\ op'.kind = "admit"
      BY <1>0, <1>8, <2>2, <3>1 DEF Relink, Operation
    <3> QED
      BY <3>2 DEF TheWinnerStands
  <2> QED
    BY <2>1, <2>2
<1>9. CASE DropTheEarlierCopy \/ Crash
  BY <1>9, <1>e DEF DropTheEarlierCopy, Crash, Over
<1>10. CASE \/ \E c \in Copy, w \in Where : Appears(c, w)
            \/ \E p \in Place : Enable(p)
            \/ \E c \in Category : AdmitIntoTheFreePlace(c)
            \/ \E i \in Held : Discard(i)
            \/ \E I \in SUBSET Held : Restore(I)
  BY <1>10, <1>e DEF Appears, Enable, AdmitIntoTheFreePlace, Discard, Restore, Idle, disk
<1>11. ASSUME NEW r \in restoring, RestoreOne(r) PROVE TheWinnerStands'
  BY <1>0, <1>11, <1>e DEF OneAtATime, RestoreOne
<1>12. CASE UNCHANGED vars
  BY <1>12 DEF vars, disk, folders, TheWinnerStands
<1> QED
  BY <1>1, <1>2, <1>3, <1>4, <1>5, <1>6, <1>7, <1>8, <1>9, <1>10, <1>11, <1>12 DEF Next

\* Every link that a step makes, or leaves, leads to a folder that is there.
LEMMA LinksStep ==
  IInv /\ TheLinksAreDown /\ TheWinnerStands /\ LinksLeadSomewhere /\ [Next]_vars => LinksLeadSomewhere'
<1> SUFFICES ASSUME IInv, TheLinksAreDown, TheWinnerStands, LinksLeadSomewhere, [Next]_vars,
                    NEW l \in {"entry", "other"}, link'[l] # None
             PROVE  holds'[link'[l]] # None
  BY DEF LinksLeadSomewhere
<1> USE QuarantineAssumption
<1>0. /\ TypeOK /\ OneAtATime /\ TheirParts /\ TheLoserWaits /\ TheOtherWaits
      /\ holds \in [Where -> Maybe(Copy)] /\ l \in LinkPlace
      /\ link \in [LinkPlace -> Maybe(Category \cup {"vendor"})]
      /\ op # None => op \in Operation /\ op.loser \in Place /\ op.goal \in Place /\ op.winner \in Where
  BY DEF IInv, TypeOK, Maybe, LinkPlace, Operation
<1>p. /\ Category \cup {"vendor"} \subseteq Place \ {"entry"} /\ Place \subseteq Where /\ "staged" \notin Place
  BY DEF Place, Where
\* A link that stays leads where it did, and that folder stays.
<1>k. ASSUME link'[l] = link[l] PROVE holds'[link'[l]] # None
  <2>1. link[l] \in Place \ {"entry"} /\ holds[link[l]] # None
    BY <1>0, <1>k, <1>p DEF Maybe, LinksLeadSomewhere
  <2>2. CASE op # None /\ link[l] = op.loser /\ op.at \in {"move", "empty"}
    BY <2>2 DEF TheLinksAreDown
  <2>3. CASE ~(op # None /\ link[l] = op.loser /\ op.at \in {"move", "empty"})
    BY <1>k, <1>p, <2>1, <2>3, OnlyTheseLeave
  <2> QED
    BY <2>2, <2>3
<1>d. ASSUME NEW S, link' = WithoutLinks(S) PROVE holds'[link'[l]] # None
  BY <1>0, <1>d, <1>k DEF WithoutLinks
<1>1. ASSUME NEW c \in Copy, NEW w \in Where, Appears(c, w) PROVE holds'[link'[l]] # None
  BY <1>1, <1>d DEF Appears
<1>2. ASSUME NEW p \in Place, Enable(p) PROVE holds'[link'[l]] # None
  <2>1. link' = [link EXCEPT !["other"] = p] /\ holds' = holds /\ holds[p] # None
    BY <1>2 DEF Enable, folders
  <2> QED
    BY <1>0, <1>k, <2>1
<1>3. CASE TakeTheLinksDown \/ ALinkStaysUp
  BY <1>3, <1>d DEF TakeTheLinksDown, ALinkStaysUp
<1>4. ASSUME NEW item, NEW origin, PutBack(item, origin) \/ StaysBehind(item, origin) PROVE holds'[link'[l]] # None
  BY <1>4, <1>d, <1>k DEF PutBack, StaysBehind
<1>5. CASE ItemComesBack \/ \E r \in restoring : RestoreOne(r)
  BY <1>4, <1>5 DEF ItemComesBack, RestoreOne
<1>6. CASE StandIn
  <2>1. CASE link' = [link EXCEPT ![op.loser] = op.winner]
    <3>1. holds' = holds /\ op # None /\ holds[op.winner] # None
      BY <1>6 DEF StandIn, TheWinnerStands, folders
    <3> QED
      BY <1>0, <1>k, <2>1, <3>1
  <2>2. CASE link' = link
    BY <1>k, <2>2
  <2> QED
    BY <1>6, <2>1, <2>2 DEF StandIn
<1>7. CASE ImportTheProvenance
  <2>1. /\ op # None /\ op.winner = "entry" /\ op.goal = op.loser /\ holds["entry"] # None
        /\ op.goal \in Category
    BY <1>0, <1>7 DEF ImportTheProvenance, TheirParts, TheOtherWaits
  <2>2. CASE Moved(op.winner, op.goal) /\ link' = [link EXCEPT ![op.winner] = op.goal]
    <3>1. holds'[op.goal] = holds["entry"]
      BY <1>0, <1>p, <2>1, <2>2 DEF Moved
    <3> QED
      BY <1>0, <1>k, <2>1, <2>2, <3>1
  <2>3. CASE link' = link
    BY <1>k, <2>3
  <2> QED
    BY <1>7, <2>2, <2>3 DEF ImportTheProvenance
<1>8. CASE Relink
  <2>1. PICK S \in SUBSET {m \in op.places : link[m] = None /\ holds[Heir(holds)] # None} :
          link' = [m \in LinkPlace |-> IF m \in S THEN Heir(holds) ELSE link[m]]
    BY <1>8 DEF Relink
  <2>2. holds' = holds
    BY <1>8 DEF Relink, folders
  <2> QED
    BY <1>0, <1>k, <2>1, <2>2
<1>9. CASE \/ \E kind, p, c : ResolveConflict(kind, p, c)
           \/ \E c : Admit(c) \/ AdmitIntoTheFreePlace(c)
           \/ \E i : Discard(i) \/ \E p : Swap(i, p)
           \/ \E I : Restore(I)
  BY <1>9, <1>k DEF ResolveConflict, Admit, AdmitIntoTheFreePlace, Discard, Swap, Restore, disk
<1>10. CASE \/ SetAside \/ WriteTheRecord \/ MoveToTheQuarantine \/ CopyToTheQuarantine \/ RemoveTheLoser
            \/ QuarantineFails \/ RemoveTheRecord \/ MakeNoRoom \/ PutTheRecordBack
  BY <1>10, <1>k DEF SetAside, WriteTheRecord, MoveToTheQuarantine, CopyToTheQuarantine, RemoveTheLoser,
     QuarantineFails, RemoveTheRecord, MakeNoRoom, PutTheRecordBack
<1>11. CASE MoveTheNewcomerIn \/ RestoreTheLoser \/ DropTheEarlierCopy \/ Crash \/ UNCHANGED vars
  BY <1>11, <1>k DEF MoveTheNewcomerIn, RestoreTheLoser, DropTheEarlierCopy, Crash, vars, disk
<1> QED
  BY <1>1, <1>2, <1>3, <1>5, <1>6, <1>7, <1>8, <1>9, <1>10, <1>11 DEF Next

\* Whatever is quarantined, restored, swapped or admitted, and however far it came, no
\* link of a destination is left leading to a folder that is not there.
THEOREM LinksAlwaysLeadSomewhere == Spec => []LinksLeadSomewhere
<1> DEFINE LInv == IInv /\ TheLinksAreDown /\ TheWinnerStands /\ LinksLeadSomewhere
<1>1. Init => LInv
  <2> SUFFICES ASSUME Init PROVE TheLinksAreDown /\ TheWinnerStands /\ LinksLeadSomewhere
    BY InitIsGood
  <2> QED
    BY DEF Init, TheLinksAreDown, TheWinnerStands, LinksLeadSomewhere, LinkPlace
<1>2. LInv /\ [Next]_vars => LInv'
  <2>1. IInv /\ [Next]_vars => IInv'
    BY TypeStep, CopiesStep, KnowledgeStep DEF IInv, WhatAStepKnows
  <2> QED
    BY <2>1, LinksAreDownStep, WinnerStandsStep, LinksStep
<1>3. LInv => LinksLeadSomewhere
  OBVIOUS
<1> QED
  BY <1>1, <1>2, <1>3, PTL DEF Spec

-----------------------------------------------------------------------------
\* What an installation extracted waits until it is moved in, and then stands.
LEMMA NewcomerStep == IInv /\ TheNewcomer /\ [Next]_vars => TheNewcomer'
<1> SUFFICES ASSUME IInv, TheNewcomer, [Next]_vars PROVE TheNewcomer'
  OBVIOUS
<1> USE QuarantineAssumption
<1>0. /\ TypeOK /\ OneAtATime /\ TheirParts /\ TheLoserWaits
      /\ holds \in [Where -> Maybe(Copy)] /\ "staged" \in Where
      /\ op # None => op \in Operation /\ op.loser \in Place /\ op.goal \in Place /\ op.goal \in Where
      /\ "staged" \notin Place /\ {"staged"} \cap Held = {}
  BY DEF IInv, TypeOK, Maybe, Operation, Place, Where, Held, Slot
<1>e. ASSUME op' = None PROVE TheNewcomer'
  BY <1>e DEF TheNewcomer
<1>o. ASSUME op' # None, op'.kind # "admit" PROVE TheNewcomer'
  BY <1>o DEF TheNewcomer
\* Before the newcomer is moved in, and after it could not be.
<1>g. ASSUME NEW step \in At \ {"drop"}, op # None, GoesTo(step), op.at \notin {"relink", "drop"}
      PROVE  TheNewcomer'
  <2>1. op'.kind = op.kind /\ op'.at = step /\ op'.landed = op.landed /\ op'.goal = op.goal
    BY <1>0, <1>g, Parts, WhatLands
  <2>2. op.kind = "admit" => ~op.landed /\ holds["staged"] # None
    BY <1>g DEF TheNewcomer
  <2>3. op.kind = "admit" => holds'["staged"] # None
    <3>1. CASE Lands
      <4>1. op'.landed
        BY <1>0, <1>g, <3>1 DEF Operation, Lands
      <4> QED
        BY <2>1, <2>2, <4>1
    <3>2. CASE ~Lands
      BY <1>0, <1>g, <2>2, <3>2, OnlyTheseLeave
    <3> QED
      BY <3>1, <3>2
  <2> QED
    BY <1>g, <2>1, <2>2, <2>3 DEF TheNewcomer
<1> USE DEF At
<1>1. ASSUME NEW kind \in {"keepLibrary", "keepProvenance", "takeBack"}, NEW p, NEW c, ResolveConflict(kind, p, c)
      PROVE  TheNewcomer'
  <2>1. op'.kind = kind
    BY <1>1 DEF ResolveConflict, Begin
  <2> QED
    BY <2>1 DEF TheNewcomer
<1>2. ASSUME NEW c, Admit(c) PROVE TheNewcomer'
  <2>1. op'.landed = FALSE /\ op'.at \in {"aside", "disable"} /\ holds'["staged"] # None
    BY <1>2 DEF Admit, Begin, disk, folders
  <2> QED
    BY <2>1 DEF TheNewcomer
<1>3. ASSUME NEW i, NEW p, Swap(i, p) PROVE TheNewcomer'
  <2>1. op'.kind = "swap"
    BY <1>3 DEF Swap, Begin
  <2> QED
    BY <2>1 DEF TheNewcomer
<1>4. CASE TakeTheLinksDown \/ ALinkStaysUp \/ WriteTheRecord \/ RemoveTheRecord
  BY <1>4, <1>g DEF TakeTheLinksDown, ALinkStaysUp, WriteTheRecord, RemoveTheRecord, BackOut
<1>5. CASE SetAside \/ MakeNoRoom \/ PutTheRecordBack
  BY <1>5, <1>e, <1>g DEF SetAside, MakeNoRoom, PutTheRecordBack, Over
<1>6. CASE MoveToTheQuarantine \/ CopyToTheQuarantine \/ RemoveTheLoser \/ QuarantineFails
  BY <1>6, <1>e, <1>g DEF MoveToTheQuarantine, CopyToTheQuarantine, RemoveTheLoser, QuarantineFails, IsQuarantined, Over
<1>7. ASSUME op # None, op.kind # "admit", Lands \/ Over PROVE TheNewcomer'
  <2>1. CASE Lands
    <3>1. op'.kind = op.kind
      BY <1>0, <1>7, <2>1, PartsOfWhatLands
    <3> QED
      BY <1>7, <3>1 DEF TheNewcomer
  <2>2. CASE Over
    BY <1>e, <2>2 DEF Over
  <2> QED
    BY <1>7, <2>1, <2>2
<1>8. CASE StandIn \/ ImportTheProvenance \/ ItemComesBack
  BY <1>7, <1>8, <1>g DEF StandIn, ImportTheProvenance, ItemComesBack
<1>9. CASE MoveTheNewcomerIn
  <2>1. op # None /\ op.kind = "admit" /\ op.at = "arrive"
    BY <1>9 DEF MoveTheNewcomerIn
  <2>2. CASE Moved("staged", op.goal) /\ Lands
    <3>1. holds["staged"] # None
      BY <2>1 DEF TheNewcomer
    <3>2. holds'[op.goal] # None /\ holds'["staged"] = None
      <4>1. op.goal # "staged"
        BY <1>0, <2>1
      <4>2. holds' = [holds EXCEPT ![op.goal] = holds["staged"], !["staged"] = None]
        BY <2>2 DEF Moved
      <4> QED
        BY <1>0, <2>1, <3>1, <4>1, <4>2
    <3>3. op'.at = "relink" /\ op'.goal = op.goal /\ op'.landed
      BY <1>0, <2>1, <2>2 DEF Operation, Lands
    <3> QED
      BY <3>2, <3>3 DEF TheNewcomer
  <2>3. CASE GoesTo("restore")
    BY <1>g, <2>1, <2>3
  <2> QED
    BY <1>9, <2>2, <2>3 DEF MoveTheNewcomerIn
<1>10. CASE RestoreTheLoser
  BY <1>10, <1>g DEF RestoreTheLoser
<1>11. CASE Relink
  <2>1. CASE op' = None
    BY <1>e, <2>1
  <2>2. CASE op' # None
    <3>1. PICK cut : op' = [op EXCEPT !.cut = cut, !.at = IF op.landed THEN "drop" ELSE "unaside"]
      BY <1>11, <2>2 DEF Relink
    <3>2. op # None /\ op.kind = "admit" /\ holds' = holds
      BY <1>11, <2>2 DEF Relink, folders
    <3>3. /\ op'.landed = op.landed /\ op'.goal = op.goal /\ op'.kind = op.kind
          /\ op'.at = IF op.landed THEN "drop" ELSE "unaside"
      BY <1>0, <3>1, <3>2 DEF Operation
    <3> QED
      BY <3>2, <3>3 DEF TheNewcomer
  <2> QED
    BY <2>1, <2>2
<1>12. CASE DropTheEarlierCopy \/ Crash
  BY <1>12, <1>e DEF DropTheEarlierCopy, Crash, Over
<1>13. CASE \/ \E c \in Copy, w \in Where : Appears(c, w)
            \/ \E p \in Place : Enable(p)
            \/ \E c \in Category : AdmitIntoTheFreePlace(c)
            \/ \E i \in Held : Discard(i)
            \/ \E I \in SUBSET Held : Restore(I)
  BY <1>13, <1>e DEF Appears, Enable, AdmitIntoTheFreePlace, Discard, Restore, Idle, disk
<1>14. ASSUME NEW r \in restoring, RestoreOne(r) PROVE TheNewcomer'
  BY <1>0, <1>14, <1>e DEF OneAtATime, RestoreOne
<1>15. CASE UNCHANGED vars
  BY <1>15 DEF vars, disk, folders, TheNewcomer
<1> QED
  BY <1>1, <1>2, <1>3, <1>4, <1>5, <1>6, <1>8, <1>9, <1>10, <1>11, <1>12, <1>13, <1>14, <1>15 DEF Next

\* In an admission the earlier copy is discarded only when what was extracted is in
\* its place, however the steps before it failed.
THEOREM TheEarlierCopyOutlivesAFailedAdmission == Spec => DiscardedOnlyForTheNewcomer
<1> DEFINE NInv == IInv /\ TheNewcomer
           Kept == discarded' # discarded /\ op # None => holds[op.goal] # None /\ holds["staged"] = None
<1>1. Init => NInv
  BY InitIsGood DEF Init, TheNewcomer
<1>2. NInv /\ [Next]_vars => NInv'
  <2>1. IInv /\ [Next]_vars => IInv'
    BY TypeStep, CopiesStep, KnowledgeStep DEF IInv, WhatAStepKnows
  <2> QED
    BY <2>1, NewcomerStep
<1>3. NInv /\ [Next]_vars => [Kept]_vars
  <2> SUFFICES ASSUME NInv, Next, discarded' # discarded, op # None
               PROVE  holds[op.goal] # None /\ holds["staged"] = None
    OBVIOUS
  <2>1. CASE DropTheEarlierCopy
    <3>1. op.at = "drop" /\ op.kind = "admit"
      BY <2>1 DEF DropTheEarlierCopy, IInv, TheirParts
    <3> QED
      BY <3>1 DEF TheNewcomer
  <2>2. ASSUME UNCHANGED ghosts \/ discarded' = discarded PROVE FALSE
    BY <2>2 DEF ghosts
  <2>3. CASE \/ \E c \in Copy, w \in Where : Appears(c, w)
             \/ \E p \in Place : Enable(p)
             \/ \E kind \in {"keepLibrary", "keepProvenance", "takeBack"}, p \in {"entry", "vendor"}, c \in Category :
                  ResolveConflict(kind, p, c)
             \/ \E c \in Category : Admit(c) \/ AdmitIntoTheFreePlace(c)
             \/ \E i \in Held : Discard(i) \/ \E p \in Place : Swap(i, p)
             \/ \E I \in SUBSET Held : Restore(I)
             \/ \E r \in restoring : RestoreOne(r)
    BY <2>2, <2>3 DEF Appears, Enable, ResolveConflict, Admit, AdmitIntoTheFreePlace, Discard, Swap, Restore,
       RestoreOne, Idle
  <2>4. CASE \/ TakeTheLinksDown \/ ALinkStaysUp \/ SetAside \/ WriteTheRecord
             \/ MoveToTheQuarantine \/ CopyToTheQuarantine \/ RemoveTheLoser \/ QuarantineFails
             \/ RemoveTheRecord \/ MakeNoRoom \/ PutTheRecordBack
    BY <2>2, <2>4 DEF TakeTheLinksDown, ALinkStaysUp, SetAside, WriteTheRecord, MoveToTheQuarantine,
       CopyToTheQuarantine, RemoveTheLoser, QuarantineFails, RemoveTheRecord, MakeNoRoom, PutTheRecordBack
  <2>5. CASE \/ StandIn \/ ImportTheProvenance \/ MoveTheNewcomerIn \/ RestoreTheLoser \/ ItemComesBack
             \/ Relink \/ Crash
    BY <2>2, <2>5 DEF StandIn, ImportTheProvenance, MoveTheNewcomerIn, RestoreTheLoser, ItemComesBack,
       Relink, Crash
  <2> QED
    BY <2>1, <2>3, <2>4, <2>5 DEF Next
<1> HIDE DEF NInv
<1> QED
  BY <1>1, <1>2, <1>3, PTL DEF Spec, DiscardedOnlyForTheNewcomer
====
