---------------------- MODULE QuarantineRecordsProofs ----------------------
(***************************************************************************)
(* That a failure or a crash leaves every item of the quarantine its record *)
(* of where it came from, and that however an operation ends it puts back   *)
(* the links it took down, proved for any contents and categories.          *)
(***************************************************************************)
EXTENDS QuarantineProofs

\* A record that tells where a folder came from, or none for one of another
\* volume that could not be emptied.
Right(record, from) == record = from \/ (record = None /\ from = "vendor")
RightFor(slot) == holds[slot] # None => Right(sidecar[slot], came[slot])

\* Up to the first failure the records are right throughout; after it, the slot of
\* an operation is put right before the operation ends.
TheRecordsAreRight ==
    faults < 2 =>
        \A s \in Slot : \/ RightFor(s)
                        \/ /\ op # None /\ faults = 1 /\ op.at \in {"unrecord", "putRecord"}
                           /\ s = SlotOf(op.loser)

\* The steps between the one that makes room in the slot and the one that ends it.
StepsMadeRoomFor ==
    IF op.kind = "admit" THEN At \ {"aside", "putRecord"}
    ELSE {"write", "move", "empty", "unrecord", "unaside"}

\* What the steps of an operation know of the record in the slot of its loser, and
\* of the one they hold of the item that made room.
TheRecordInHand ==
    faults < 2 /\ op # None =>
        LET slot == SlotOf(op.loser)
            swap == SwapSlotFor(slot)
        IN  /\ op.aside => op.kind \in {"admit", "swap"}
            /\ op.at \in {"unaside", "putRecord"} => op.aside
            /\ op.at \in {"unrecord", "unaside", "putRecord", "restore"} => faults = 1
            /\ op.at \in {"relink", "unaside"} /\ op.kind = "admit" /\ ~op.landed => faults = 1
            /\ op.at \in {"move", "empty"} => sidecar[slot] = op.loser
            /\ op.at = "empty" => came[slot] = op.loser /\ op.loser = "vendor"
            /\ op.at = "unrecord" /\ holds[slot] # None => came[slot] = "vendor"
            /\ op.at = "putRecord" /\ holds[slot] # None => Right(op.record, came[slot])
            /\ op.at = "aside" \/ (op.at = "disable" /\ op.kind = "swap" /\ op.aside)
                 => sidecar[slot] = op.record
            /\ op.aside /\ op.at \in StepsMadeRoomFor /\ holds[swap] # None => Right(op.record, came[swap])

\* What the steps of an operation know of each link it took down.
TheLinksInHand ==
    op # None => \A l \in op.places :
        /\ op.at = "disable" \/ (op.at = "aside" /\ op.kind # "swap") => link[l] = op.loser
        /\ op.at \in {"write", "move", "empty", "unrecord", "arrive", "restore"} => link[l] = None
        /\ op.at \in {"aside", "unaside", "putRecord"} /\ op.kind = "swap" => link[l] = None
        /\ op.at = "relink" => link[l] \in {None, Heir(holds)}
        /\ op.at \in {"unaside", "putRecord", "drop"} /\ op.kind # "swap"
             => op.kind = "admit" /\ (l \in op.cut \/ holds[op.loser] = None \/ link[l] = op.loser)

\* The place of a loser that was quarantined is free until the other copy takes it.
TheLoserHasGone == op # None /\ op.at = "arrive" => holds[op.loser] = None

\* What an operation goes on with when it takes a step, and when the other copy lands.
LEMMA WhatGoesOn ==
  ASSUME op \in Operation, NEW step, GoesTo(step)
  PROVE  op' # None => op'.record = op.record /\ op'.landed = op.landed /\ op'.cut = op.cut
  BY DEF Operation, GoesTo

\* Landing changes nothing of the record or of the links in hand.
LEMMA WhatGoesOnWhenItLands ==
  ASSUME op \in Operation, Lands
  PROVE  op'.record = op.record /\ op'.landed /\ op'.cut = op.cut
  BY DEF Operation, Lands

\* The item that makes room, and the slot it makes room in.
LEMMA SlotsOfAPlace ==
  ASSUME NEW place \in Place
  PROVE  /\ SwapSlotFor(SlotOf(place)) \in Where \ (Place \cup Slot \cup {"staged"})
         /\ SlotOf(place) \in Slot \ Place /\ SlotOf(place) \in Where
         /\ SlotOf(place) # SwapSlotFor(SlotOf(place)) /\ SlotOf(place) # "staged"
  BY QuarantineAssumption DEF SlotOf, SwapSlotFor, Place, Slot, Held, Where

\* A folder that moves is where it came to, and what it was is known; the others stay.
LEMMA WhatMoves ==
  ASSUME TypeOK, NEW a \in Where, NEW b \in Where, a # b, Moved(a, b)
  PROVE  /\ holds'[a] = None /\ holds'[b] = holds[a]
         /\ b \in Held => came'[b] = IF a \in Held THEN came[a] ELSE a
         /\ \A w \in Where \ {a, b} : holds'[w] = holds[w]
         /\ \A i \in Held \ {a, b} : came'[i] = came[i]
  BY DEF TypeOK, Moved

\* The place of the loser stays free until the other copy takes it.
LEMMA LoserHasGoneStep == IInv /\ TheLoserHasGone /\ [Next]_vars => TheLoserHasGone'
<1> SUFFICES ASSUME IInv, TheLoserHasGone, [Next]_vars PROVE TheLoserHasGone'
  OBVIOUS
<1> USE QuarantineAssumption
<1>0. /\ TypeOK /\ OneAtATime /\ holds \in [Where -> Maybe(Copy)]
      /\ op # None => op \in Operation /\ op.loser \in Place /\ op.loser \in Where
  BY DEF IInv, TypeOK, Maybe, Operation, Place, Where
<1>e. ASSUME op' = None \/ op'.at # "arrive" PROVE TheLoserHasGone'
  BY <1>e DEF TheLoserHasGone
<1>g. ASSUME op # None, NEW step \in At \ {"arrive"}, GoesTo(step) PROVE TheLoserHasGone'
  BY <1>0, <1>e, <1>g, Parts
<1>l. ASSUME op # None, Lands PROVE TheLoserHasGone'
  BY <1>0, <1>e, <1>l, PartsOfWhatLands
<1>q. ASSUME op # None, holds'[op.loser] = None, IsQuarantined PROVE TheLoserHasGone'
  <2>1. CASE Over
    BY <1>e, <2>1 DEF Over
  <2>2. CASE GoesTo("arrive")
    BY <1>0, <1>q, <2>2, Parts DEF TheLoserHasGone
  <2> QED
    BY <1>q, <2>1, <2>2 DEF IsQuarantined
<1> USE DEF At
<1>1. ASSUME NEW kind, NEW p, NEW c, ResolveConflict(kind, p, c) PROVE TheLoserHasGone'
  BY <1>1, <1>e DEF ResolveConflict, Begin
<1>2. ASSUME NEW c, Admit(c) PROVE TheLoserHasGone'
  BY <1>2, <1>e DEF Admit, Begin
<1>3. ASSUME NEW i, NEW p, Swap(i, p) PROVE TheLoserHasGone'
  BY <1>3, <1>e DEF Swap, Begin
<1>4. CASE TakeTheLinksDown \/ ALinkStaysUp \/ WriteTheRecord \/ RemoveTheRecord
  BY <1>4, <1>g DEF TakeTheLinksDown, ALinkStaysUp, WriteTheRecord, RemoveTheRecord, BackOut
<1>5. CASE SetAside \/ MakeNoRoom \/ PutTheRecordBack
  BY <1>5, <1>e, <1>g DEF SetAside, MakeNoRoom, PutTheRecordBack, Over
<1>6. CASE MoveToTheQuarantine
  <2>1. SlotOf(op.loser) \in Where /\ SlotOf(op.loser) # op.loser /\ op # None
    BY <1>0, <1>6, SlotsAreApart DEF MoveToTheQuarantine
  <2>2. holds'[op.loser] = None
    BY <1>0, <1>6, <2>1, WhatMoves DEF MoveToTheQuarantine
  <2> QED
    BY <1>6, <1>q, <2>1, <2>2 DEF MoveToTheQuarantine
<1>7. CASE RemoveTheLoser
  BY <1>0, <1>7, <1>q DEF RemoveTheLoser
<1>8. CASE CopyToTheQuarantine \/ QuarantineFails \/ RestoreTheLoser
  BY <1>8, <1>g DEF CopyToTheQuarantine, QuarantineFails, RestoreTheLoser
<1>9. CASE StandIn \/ ImportTheProvenance \/ MoveTheNewcomerIn \/ ItemComesBack
  BY <1>9, <1>e, <1>g, <1>l DEF StandIn, ImportTheProvenance, MoveTheNewcomerIn, ItemComesBack, Over
<1>10. CASE Relink
  <2>1. CASE op' = None
    BY <1>e, <2>1
  <2>2. CASE op' # None
    <3>1. PICK cut : op' = [op EXCEPT !.cut = cut, !.at = IF op.landed THEN "drop" ELSE "unaside"]
      BY <1>10, <2>2 DEF Relink
    <3>2. op'.at \in {"drop", "unaside"}
      BY <1>0, <1>10, <3>1 DEF Relink, Operation
    <3> QED
      BY <1>e, <3>2
  <2> QED
    BY <2>1, <2>2
<1>11. CASE DropTheEarlierCopy \/ Crash
  BY <1>11, <1>e DEF DropTheEarlierCopy, Crash, Over
<1>12. CASE \/ \E c \in Copy, w \in Where : Appears(c, w)
            \/ \E p \in Place : Enable(p)
            \/ \E c \in Category : AdmitIntoTheFreePlace(c)
            \/ \E i \in Held : Discard(i)
            \/ \E I \in SUBSET Held : Restore(I)
  BY <1>12, <1>e DEF Appears, Enable, AdmitIntoTheFreePlace, Discard, Restore, Idle, disk
<1>13. ASSUME NEW r \in restoring, RestoreOne(r) PROVE TheLoserHasGone'
  BY <1>0, <1>13, <1>e DEF OneAtATime, RestoreOne
<1>14. CASE UNCHANGED vars
  BY <1>14 DEF vars, disk, folders, TheLoserHasGone
<1> QED
  BY <1>1, <1>2, <1>3, <1>4, <1>5, <1>6, <1>7, <1>8, <1>9, <1>10, <1>11, <1>12, <1>13, <1>14 DEF Next

-----------------------------------------------------------------------------
\* Every step knows of each link whether it is down, or where it leads.
LEMMA LinksInHandStep ==
  IInv /\ TheLoserHasGone /\ TheLinksInHand /\ [Next]_vars => TheLinksInHand'
<1> SUFFICES ASSUME IInv, TheLoserHasGone, TheLinksInHand, [Next]_vars PROVE TheLinksInHand'
  OBVIOUS
<1> USE QuarantineAssumption
<1>0. /\ TypeOK /\ OneAtATime /\ TheirParts /\ TheLoserWaits /\ holds \in [Where -> Maybe(Copy)]
      /\ link \in [LinkPlace -> Maybe(Category \cup {"vendor"})] /\ {"entry", "other"} \subseteq LinkPlace
      /\ op # None => op \in Operation /\ op.loser \in Place /\ op.loser \in Where /\ op.goal \in Place
                      /\ op.winner \in Where /\ op.places \subseteq LinkPlace
  BY DEF IInv, TypeOK, Maybe, Operation, Place, Where, LinkPlace
<1>e. ASSUME op' = None PROVE TheLinksInHand'
  BY <1>e DEF TheLinksInHand
\* A step that leaves the links down.
<1>d. ASSUME op # None, NEW step \in {"write", "move", "empty", "unrecord", "arrive", "restore", "relink"},
             GoesTo(step) \/ (Lands /\ step = "relink"), \A l \in op.places : link'[l] = None
      PROVE  TheLinksInHand'
  <2>1. op'.places = op.places /\ op'.at = step
    BY <1>0, <1>d, Parts, PartsOfWhatLands
  <2> QED
    BY <1>d, <2>1 DEF TheLinksInHand
\* One of a swap, that leaves them down.
<1>w. ASSUME op # None, op.kind = "swap", NEW step \in {"aside", "write", "unaside", "putRecord", "relink"},
             GoesTo(step), \A l \in op.places : link'[l] = None
      PROVE  TheLinksInHand'
  <2>1. op'.places = op.places /\ op'.at = step /\ op'.kind = "swap"
    BY <1>0, <1>w, Parts
  <2> QED
    BY <1>w, <2>1 DEF TheLinksInHand
\* Before they are put back: they are down, or lead to what they belong to.
<1>r. ASSUME op # None, GoesTo("relink") \/ Lands, \A l \in op.places : link'[l] \in {None, Heir(holds')}
      PROVE  TheLinksInHand'
  <2>1. op'.places = op.places /\ op'.at = "relink" /\ op'.kind = op.kind /\ op'.loser = op.loser
        /\ op'.goal = op.goal
    BY <1>0, <1>r, Parts, PartsOfWhatLands
  <2>2. (Heir(holds))' = Heir(holds')
    BY <2>1 DEF Heir
  <2> QED
    BY <1>r, <2>1, <2>2 DEF TheLinksInHand
<1>1. ASSUME NEW kind, NEW p, NEW c, ResolveConflict(kind, p, c) PROVE TheLinksInHand'
  <2>1. PICK loser, winner : Begin(kind, "disable", loser, winner, c, FALSE)
    BY <1>1 DEF ResolveConflict
  <2>2. op'.at = "disable" /\ op'.loser = loser /\ op'.places = LinksPointingAt(loser) /\ link' = link
    BY <1>1, <2>1 DEF Begin, ResolveConflict, disk
  <2> QED
    BY <2>2 DEF TheLinksInHand, LinksPointingAt
<1>2. ASSUME NEW c, Admit(c) PROVE TheLinksInHand'
  <2>1. op'.at \in {"aside", "disable"} /\ op'.loser = c /\ op'.places = LinksPointingAt(c) /\ op'.kind = "admit"
        /\ link' = link
    BY <1>2 DEF Admit, Begin, disk
  <2> QED
    BY <2>1 DEF TheLinksInHand, LinksPointingAt
<1>3. ASSUME NEW i, NEW p, Swap(i, p) PROVE TheLinksInHand'
  <2>1. PICK occupant : Begin("swap", "disable", occupant, i, p, SlotOf(occupant) = i)
    BY <1>3 DEF Swap
  <2>2. op'.at = "disable" /\ op'.loser = occupant /\ op'.places = LinksPointingAt(occupant) /\ link' = link
    BY <1>3, <2>1 DEF Begin, Swap, disk
  <2> QED
    BY <2>2 DEF TheLinksInHand, LinksPointingAt
<1>4. CASE TakeTheLinksDown
  <2>1. op # None /\ \A l \in op.places : link'[l] = None
    BY <1>0, <1>4 DEF TakeTheLinksDown, WithoutLinks
  <2>2. CASE op.kind = "swap" /\ op.aside
    BY <1>4, <1>w, <2>1, <2>2 DEF TakeTheLinksDown
  <2>3. CASE ~(op.kind = "swap" /\ op.aside)
    BY <1>4, <1>d, <2>1, <2>3 DEF TakeTheLinksDown
  <2> QED
    BY <2>2, <2>3
<1>5. CASE ALinkStaysUp
  <2>1. PICK down \in SUBSET op.places : link' = WithoutLinks(down)
    BY <1>5 DEF ALinkStaysUp
  <2>2. op # None /\ op.at = "disable" /\ GoesTo("relink") /\ holds' = holds
    BY <1>5 DEF ALinkStaysUp, folders
  <2>3. Heir(holds') = op.loser
    BY <1>0, <2>2 DEF TheLoserWaits, Heir
  <2>4. \A l \in op.places : link[l] = op.loser
    BY <2>2 DEF TheLinksInHand
  <2> QED
    BY <1>0, <1>r, <2>1, <2>2, <2>3, <2>4 DEF WithoutLinks
<1>6. CASE SetAside
  <2>1. op # None /\ op.at = "aside" /\ link' = link
    BY <1>6 DEF SetAside
  <2>2. CASE op.kind = "swap"
    <3>1. \A l \in op.places : link'[l] = None
      BY <2>1, <2>2 DEF TheLinksInHand
    <3> QED
      BY <1>6, <1>w, <2>1, <2>2, <3>1 DEF SetAside
  <2>3. CASE op.kind # "swap"
    <3>1. CASE Over
      BY <1>e, <3>1 DEF Over
    <3>2. CASE GoesTo("disable")
      <4>1. op'.places = op.places /\ op'.at = "disable" /\ op'.loser = op.loser
        BY <1>0, <2>1, <3>2, Parts
      <4>2. \A l \in op.places : link'[l] = op.loser
        BY <2>1, <2>3 DEF TheLinksInHand
      <4> QED
        BY <4>1, <4>2 DEF TheLinksInHand
    <3> QED
      BY <1>6, <2>3, <3>1, <3>2 DEF SetAside
  <2> QED
    BY <2>2, <2>3
\* The steps of the quarantine, and those of the other copy, know that they are down.
<1>n. ASSUME op # None, op.at \in {"write", "move", "empty", "unrecord", "arrive", "restore"}
      PROVE  \A l \in op.places : link[l] = None
  BY <1>n DEF TheLinksInHand
<1>b. ASSUME op # None, GoesTo(BackOut), \A l \in op.places : link'[l] = None PROVE TheLinksInHand'
  BY <1>b, <1>d, <1>w DEF BackOut
<1>7. CASE WriteTheRecord \/ RemoveTheRecord
  BY <1>7, <1>b, <1>d, <1>n DEF WriteTheRecord, RemoveTheRecord
<1>8. CASE MoveToTheQuarantine \/ RemoveTheLoser
  <2>1. op # None /\ op.at \in {"move", "empty"} /\ IsQuarantined /\ link' = link
    BY <1>8 DEF MoveToTheQuarantine, RemoveTheLoser
  <2> QED
    BY <1>d, <1>e, <1>n, <2>1 DEF IsQuarantined, Over
<1>9. CASE CopyToTheQuarantine \/ QuarantineFails
  BY <1>9, <1>d, <1>n DEF CopyToTheQuarantine, QuarantineFails
<1>10. CASE MakeNoRoom
  <2> DEFINE slot == SlotOf(op.loser)
  <2>1. op # None /\ op.at = "unaside" /\ link' = link
    BY <1>10 DEF MakeNoRoom
  <2>2. CASE op.kind = "swap"
    <3>1. \A l \in op.places : link'[l] = None
      BY <2>1, <2>2 DEF TheLinksInHand
    <3> QED
      BY <1>10, <1>w, <2>1, <2>2, <3>1 DEF MakeNoRoom
  <2>3. CASE op.kind # "swap" /\ Over
    BY <1>e, <2>3 DEF Over
  <2>4. CASE op.kind # "swap" /\ Moved(SwapSlotFor(slot), slot) /\ GoesTo("putRecord")
    <3>1. holds'[op.loser] = holds[op.loser]
      BY <1>0, <2>1, <2>4, SlotsOfAPlace, WhatMoves
    <3>2. op'.places = op.places /\ op'.at = "putRecord" /\ op'.kind = op.kind /\ op'.loser = op.loser
          /\ op'.cut = op.cut
      BY <1>0, <2>1, <2>4, Parts DEF Operation, GoesTo
    <3> QED
      BY <2>1, <2>4, <3>1, <3>2 DEF TheLinksInHand
  <2> QED
    BY <1>10, <2>2, <2>3, <2>4 DEF MakeNoRoom
<1>11. CASE PutTheRecordBack
  <2>1. op # None /\ op.at = "putRecord" /\ link' = link
    BY <1>11 DEF PutTheRecordBack
  <2>2. CASE op.kind = "swap"
    <3>1. \A l \in op.places : link'[l] = None
      BY <2>1, <2>2 DEF TheLinksInHand
    <3> QED
      BY <1>11, <1>w, <2>1, <2>2, <3>1 DEF PutTheRecordBack
  <2>3. CASE op.kind # "swap"
    BY <1>11, <1>e, <2>3 DEF PutTheRecordBack, Over
  <2> QED
    BY <2>2, <2>3
<1>12. CASE StandIn
  <2>1. /\ op # None /\ op.at = "arrive" /\ op.kind = "keepLibrary" /\ holds' = holds
        /\ op.goal = op.winner /\ holds[op.loser] = None
    BY <1>0, <1>12 DEF StandIn, folders, TheirParts, TheLoserHasGone
  <2>2. Heir(holds') = op.winner
    BY <2>1 DEF Heir
  <2>3. \A l \in op.places : link'[l] \in {None, op.winner}
    BY <1>0, <1>12, <1>n, <2>1 DEF StandIn
  <2> QED
    BY <1>12, <1>r, <2>1, <2>2, <2>3 DEF StandIn
<1>13. CASE ImportTheProvenance
  <2>1. op # None /\ op.at = "arrive" /\ op.kind = "takeBack" /\ op.goal = op.loser /\ op.winner = "entry"
    BY <1>0, <1>13 DEF ImportTheProvenance, TheirParts
  <2>2. Heir(holds') = op.loser
    BY <2>1 DEF Heir
  <2>3. CASE link' = [link EXCEPT ![op.winner] = op.goal] /\ Lands
    <3>1. \A l \in op.places : link'[l] \in {None, op.loser}
      BY <1>0, <1>n, <2>1, <2>3
    <3> QED
      BY <1>r, <2>1, <2>2, <2>3, <3>1
  <2>4. CASE UNCHANGED link /\ \E step \in {"relink", "restore"} : GoesTo(step)
    BY <1>d, <1>n, <2>1, <2>4
  <2> QED
    BY <1>13, <2>3, <2>4 DEF ImportTheProvenance
<1>14. CASE MoveTheNewcomerIn \/ RestoreTheLoser
  BY <1>14, <1>d, <1>n DEF MoveTheNewcomerIn, RestoreTheLoser
<1>15. CASE ItemComesBack
  <2>1. op # None /\ op.at = "arrive"
    BY <1>15 DEF ItemComesBack
  <2>2. CASE Over
    BY <1>e, <2>2 DEF Over
  <2>3. ASSUME NEW item, PutBack(item, op.goal) PROVE \A l \in op.places : link'[l] = None
    BY <1>0, <1>n, <2>1, <2>3 DEF PutBack, WithoutLinks
  <2> QED
    BY <1>15, <1>d, <2>1, <2>2, <2>3 DEF ItemComesBack
<1>16. CASE Relink
  <2> DEFINE free == {l \in op.places : link[l] = None /\ holds[Heir(holds)] # None}
  <2>1. CASE op' = None
    BY <1>e, <2>1
  <2>2. CASE op' # None
    <3>1. op # None /\ op.at = "relink" /\ holds' = holds /\ op.kind = "admit" /\ Heir(holds) = op.loser
      BY <1>16, <2>2 DEF Relink, folders, Heir
    <3>2. PICK S \in SUBSET free :
            /\ link' = [l \in LinkPlace |-> IF l \in S THEN op.loser ELSE link[l]]
            /\ op' = [op EXCEPT !.cut = free \ S, !.at = IF op.landed THEN "drop" ELSE "unaside"]
      BY <1>16, <2>2, <3>1 DEF Relink
    <3>3. /\ op'.places = op.places /\ op'.kind = "admit" /\ op'.loser = op.loser /\ op'.cut = free \ S
          /\ op'.at \in {"drop", "unaside"}
      BY <1>0, <3>1, <3>2 DEF Operation
    <3>4. ASSUME NEW l \in op.places PROVE l \in free \ S \/ holds[op.loser] = None \/ link'[l] = op.loser
      <4>1. link[l] \in {None, op.loser} /\ l \in LinkPlace
        BY <1>0, <3>1 DEF TheLinksInHand
      <4> QED
        BY <3>1, <3>2, <4>1
    <3> HIDE DEF free
    <3> QED
      BY <3>1, <3>3, <3>4 DEF TheLinksInHand
  <2> QED
    BY <2>1, <2>2
<1>17. CASE DropTheEarlierCopy \/ Crash
  BY <1>17, <1>e DEF DropTheEarlierCopy, Crash, Over
<1>18. CASE \/ \E c \in Copy, w \in Where : Appears(c, w)
            \/ \E p \in Place : Enable(p)
            \/ \E c \in Category : AdmitIntoTheFreePlace(c)
            \/ \E i \in Held : Discard(i)
            \/ \E I \in SUBSET Held : Restore(I)
  BY <1>18, <1>e DEF Appears, Enable, AdmitIntoTheFreePlace, Discard, Restore, Idle, disk
<1>19. ASSUME NEW r \in restoring, RestoreOne(r) PROVE TheLinksInHand'
  BY <1>0, <1>19, <1>e DEF OneAtATime, RestoreOne
<1>20. CASE UNCHANGED vars
  BY <1>20 DEF vars, disk, folders, TheLinksInHand, Heir
<1> QED
  BY <1>1, <1>2, <1>3, <1>4, <1>5, <1>6, <1>7, <1>8, <1>9, <1>10, <1>11, <1>12, <1>13, <1>14, <1>15,
     <1>16, <1>17, <1>18, <1>19, <1>20 DEF Next
-----------------------------------------------------------------------------
\* A step that fails leaves at most one failure when there was none before it.
LEMMA AfterAFault ==
  ASSUME TypeOK, faults' < 2, faults' = faults \/ Fault
  PROVE  /\ faults \in Nat /\ faults < 2
         /\ Fault => faults = 0 /\ faults' = 1
         /\ faults' # faults => faults = 0 /\ faults' = 1
  BY DEF TypeOK, Fault

\* Every step counts its failures.
LEMMA FaultsAreCounted == [Next]_vars => faults' = faults \/ Fault
<1> SUFFICES ASSUME [Next]_vars PROVE faults' = faults \/ Fault
  OBVIOUS
<1>1. CASE \/ \E c \in Copy, w \in Where : Appears(c, w)
           \/ \E p \in Place : Enable(p)
           \/ \E kind, p, c : ResolveConflict(kind, p, c)
           \/ \E c \in Category : Admit(c) \/ AdmitIntoTheFreePlace(c)
           \/ \E i \in Held : Discard(i) \/ \E p \in Place : Swap(i, p)
           \/ \E I \in SUBSET Held : Restore(I)
  BY <1>1 DEF Appears, Enable, ResolveConflict, Admit, AdmitIntoTheFreePlace, Discard, Swap, Restore
<1>2. CASE ItemComesBack \/ \E r \in restoring : RestoreOne(r)
  BY <1>2 DEF ItemComesBack, RestoreOne, PutBack, StaysBehind
<1>3. CASE \/ TakeTheLinksDown \/ ALinkStaysUp \/ SetAside \/ WriteTheRecord
           \/ MoveToTheQuarantine \/ CopyToTheQuarantine \/ RemoveTheLoser \/ QuarantineFails
  BY <1>3 DEF TakeTheLinksDown, ALinkStaysUp, SetAside, WriteTheRecord,
     MoveToTheQuarantine, CopyToTheQuarantine, RemoveTheLoser, QuarantineFails
<1>4. CASE \/ RemoveTheRecord \/ MakeNoRoom \/ PutTheRecordBack
           \/ StandIn \/ ImportTheProvenance \/ MoveTheNewcomerIn \/ RestoreTheLoser
           \/ Relink \/ DropTheEarlierCopy \/ Crash
  BY <1>4 DEF RemoveTheRecord, MakeNoRoom, PutTheRecordBack, StandIn, ImportTheProvenance, MoveTheNewcomerIn,
     RestoreTheLoser, Relink, DropTheEarlierCopy, Crash
<1>5. CASE UNCHANGED vars
  BY <1>5 DEF vars
<1> QED
  BY <1>1, <1>2, <1>3, <1>4, <1>5 DEF Next

\* Whatever a step moves, removes or records, the records stay right.
LEMMA RecordsStep ==
  IInv /\ TheRecordsAreRight /\ TheRecordInHand /\ [Next]_vars => TheRecordsAreRight'
<1> DEFINE Shown(s) == \/ RightFor(s)'
                       \/ /\ op' # None /\ faults' = 1 /\ op'.at \in {"unrecord", "putRecord"}
                          /\ s = SlotOf(op'.loser)
           slot == SlotOf(op.loser)
           swap == SwapSlotFor(slot)
<1> SUFFICES ASSUME IInv, TheRecordsAreRight, TheRecordInHand, [Next]_vars, faults' < 2, NEW s \in Slot
             PROVE  Shown(s)
  BY DEF TheRecordsAreRight
<1> HIDE DEF Shown, slot, swap
<1> USE QuarantineAssumption
<1>0. /\ TypeOK /\ OneAtATime /\ TheirParts /\ TheLoserWaits
      /\ holds \in [Where -> Maybe(Copy)] /\ came \in [Held -> Maybe(Place)] /\ sidecar \in [Slot -> Maybe(Place)]
      /\ s \in Where /\ s \in Held /\ s \notin Place /\ s # "staged"
      /\ op # None => op \in Operation /\ op.loser \in Place /\ op.goal \in Place /\ op.winner \in Where
  BY DEF IInv, TypeOK, Maybe, Operation, Place, Where, Held, Slot
<1>f. /\ faults \in Nat /\ faults < 2
      /\ Fault => faults = 0 /\ faults' = 1
      /\ faults' # faults => faults = 0 /\ faults' = 1
  BY <1>0, AfterAFault, FaultsAreCounted
<1>p. /\ Place \subseteq Where /\ "staged" \in Where /\ Held \subseteq Where /\ "staged" \notin Held
      /\ Place \cap Held = {}
      /\ op # None => /\ slot \in Slot /\ slot \in Where /\ slot \notin Place /\ swap \in Where
                      /\ swap \in Held /\ swap \notin Slot /\ swap \notin Place
  BY <1>0, SlotsAreApart DEF Place, Where, Held, Slot, slot, swap
<1>a. \/ RightFor(s)
      \/ op # None /\ faults = 1 /\ op.at \in {"unrecord", "putRecord"} /\ s = slot
  BY <1>f DEF TheRecordsAreRight, slot
<1>k. ASSUME RightFor(s), holds'[s] = holds[s], came'[s] = came[s], sidecar'[s] = sidecar[s] PROVE Shown(s)
  BY <1>k DEF RightFor, Shown
<1>n. ASSUME holds'[s] = None PROVE Shown(s)
  BY <1>n DEF RightFor, Shown
<1>m. ASSUME NEW a \in Where, NEW b \in Where, a # b, Moved(a, b), b # s, RightFor(s),
             a = s \/ sidecar'[s] = sidecar[s]
      PROVE  Shown(s)
  <2>1. CASE a = s
    BY <1>0, <1>m, <1>n, <2>1, WhatMoves
  <2>2. CASE a # s
    BY <1>0, <1>k, <1>m, <2>2, WhatMoves
  <2> QED
    BY <2>1, <2>2
<1>u. ASSUME op = None \/ op.at \notin {"unrecord", "putRecord"} PROVE RightFor(s)
  BY <1>a, <1>u
<1>s. ASSUME RightFor(s), UNCHANGED <<folders, sidecar>> PROVE Shown(s)
  BY <1>k, <1>s DEF folders
<1>1. ASSUME NEW c \in Copy, NEW w \in Where, Appears(c, w) PROVE Shown(s)
  <2>1. op = None /\ holds'[s] = holds[s] /\ came'[s] = came[s] /\ sidecar'[s] = sidecar[s]
    BY <1>0, <1>1 DEF Appears, Idle
  <2> QED
    BY <1>k, <1>u, <2>1
<1>2. CASE \/ \E p : Enable(p) \/ \E kind, q, c : ResolveConflict(kind, q, c)
           \/ \E c : Admit(c) \/ \E i, q : Swap(i, q) \/ \E I : Restore(I)
  BY <1>2, <1>s, <1>u DEF Enable, ResolveConflict, Admit, Swap, Restore, Idle, disk
<1>3. ASSUME NEW c \in Category, AdmitIntoTheFreePlace(c) PROVE Shown(s)
  <2>1. op = None /\ c \in Place /\ Moved("staged", c) /\ sidecar' = sidecar
    BY <1>3 DEF AdmitIntoTheFreePlace, Idle, Place
  <2> QED
    BY <1>0, <1>m, <1>p, <1>u, <2>1
<1>4. ASSUME NEW i \in Held, Discard(i) PROVE Shown(s)
  <2>1. CASE i = s /\ Removed(i)
    BY <1>0, <1>n, <2>1 DEF Removed
  <2>2. CASE UNCHANGED <<holds, came, sidecar>>
    BY <1>4, <1>k, <1>u, <2>2 DEF Discard, Idle
  <2>3. CASE i # s /\ Removed(i) /\ sidecar' = [t \in Slot |-> IF t = i THEN None ELSE sidecar[t]]
    <3>1. holds'[s] = holds[s] /\ came'[s] = came[s] /\ sidecar'[s] = sidecar[s]
      BY <1>0, <2>3 DEF Removed
    <3> QED
      BY <1>4, <1>k, <1>u, <3>1 DEF Discard, Idle
  <2> QED
    BY <1>4, <2>1, <2>2, <2>3 DEF Discard
\* The record goes with the item that comes back.
<1>b. ASSUME NEW item \in Held, NEW origin \in Place, PutBack(item, origin) \/ StaysBehind(item, origin), RightFor(s)
      PROVE  Shown(s)
  <2>1. CASE PutBack(item, origin)
    <3>1. item \in Where /\ origin \in Where /\ item # origin /\ origin # s /\ Moved(item, origin)
      BY <1>0, <1>p, <2>1 DEF PutBack
    <3>2. item = s \/ sidecar'[s] = sidecar[s]
      BY <1>0, <2>1 DEF PutBack
    <3> QED
      BY <1>b, <1>m, <3>1, <3>2
  <2>2. CASE StaysBehind(item, origin)
    BY <1>b, <1>s, <2>2 DEF StaysBehind
  <2> QED
    BY <1>b, <2>1, <2>2
<1>5. ASSUME NEW r \in restoring, RestoreOne(r) PROVE Shown(s)
  <2>1. r.item \in Held /\ r.origin \in Place
    BY <1>0 DEF TypeOK
  <2>2. op = None
    BY <1>0, <1>5 DEF OneAtATime
  <2> QED
    BY <1>5, <1>b, <1>u, <2>1, <2>2 DEF RestoreOne
<1>6. CASE ItemComesBack
  <2> DEFINE item == IF op.aside THEN SwapSlotFor(SlotOf(op.loser)) ELSE op.winner
  <2>1. op # None /\ op.at = "arrive" /\ (PutBack(item, op.goal) \/ StaysBehind(item, op.goal))
    BY <1>6 DEF ItemComesBack
  <2>2. item \in Held
    BY <1>0, <1>6, <1>p DEF ItemComesBack, TheirParts, swap, slot
  <2> HIDE DEF item
  <2> QED
    BY <1>0, <1>b, <1>u, <2>1, <2>2
<1>7. CASE \/ TakeTheLinksDown \/ ALinkStaysUp \/ StandIn \/ Relink \/ Crash
  <2>1. UNCHANGED <<folders, sidecar>>
    BY <1>7 DEF TakeTheLinksDown, ALinkStaysUp, StandIn, Relink, Crash, disk
  <2>2. CASE Crash
    <3>1. faults = 0
      BY <1>f, <2>2 DEF Crash
    <3> QED
      BY <1>a, <1>s, <2>1, <3>1
  <2>3. CASE ~Crash
    BY <1>7, <1>s, <1>u, <2>1, <2>3 DEF TakeTheLinksDown, ALinkStaysUp, StandIn, Relink
  <2> QED
    BY <2>2, <2>3
<1>8. CASE SetAside
  <2>1. op # None /\ op.at = "aside" /\ sidecar' = sidecar /\ (Moved(slot, swap) \/ UNCHANGED folders)
    BY <1>8 DEF SetAside, slot, swap
  <2> QED
    BY <1>0, <1>m, <1>p, <1>s, <1>u, <2>1
<1>9. CASE WriteTheRecord
  <2>1. op # None /\ op.at = "write" /\ holds[slot] = None /\ UNCHANGED folders
        /\ \E text : sidecar' = [sidecar EXCEPT ![slot] = text]
    BY <1>9 DEF WriteTheRecord, slot
  <2>2. CASE s = slot
    BY <1>n, <2>1, <2>2 DEF folders
  <2>3. CASE s # slot
    BY <1>0, <1>k, <1>u, <2>1, <2>3 DEF folders
  <2> QED
    BY <2>2, <2>3
\* What comes to the slot was at the place the record names.
<1>10. ASSUME op # None, op.at = "move", came'[slot] = op.loser, sidecar' = sidecar,
              s # slot => holds'[s] = holds[s] /\ came'[s] = came[s]
       PROVE  Shown(s)
  <2>1. CASE s = slot
    <3>1. sidecar[slot] = op.loser
      BY <1>10, <1>f DEF TheRecordInHand, slot
    <3> QED
      BY <1>10, <2>1, <3>1 DEF RightFor, Right, Shown
  <2>2. CASE s # slot
    BY <1>10, <1>k, <1>u, <2>2
  <2> QED
    BY <2>1, <2>2
<1>11. CASE MoveToTheQuarantine
  <2>1. op # None /\ op.at = "move" /\ Moved(op.loser, slot) /\ sidecar' = sidecar
    BY <1>11 DEF MoveToTheQuarantine, slot
  <2>2. /\ op.loser \in Where /\ op.loser \notin Held /\ slot \in Where /\ slot \in Held /\ op.loser # slot
        /\ op.loser # s
    BY <1>0, <1>p, <2>1 DEF Slot, Held
  <2> QED
    BY <1>0, <1>10, <2>1, <2>2, WhatMoves
<1>12. CASE CopyToTheQuarantine
  <2>1. /\ op # None /\ op.at = "move" /\ sidecar' = sidecar
        /\ holds' = [holds EXCEPT ![slot] = holds[op.loser]] /\ came' = [came EXCEPT ![slot] = op.loser]
    BY <1>12 DEF CopyToTheQuarantine, slot
  <2> QED
    BY <1>0, <1>10, <1>p, <2>1 DEF Slot, Held
<1>13. CASE RemoveTheLoser \/ QuarantineFails
  <2>1. op # None /\ op.at \in {"move", "empty"} /\ came' = came /\ sidecar' = sidecar
        /\ (holds' = [holds EXCEPT ![op.loser] = None] \/ holds' = holds)
    BY <1>13 DEF RemoveTheLoser, QuarantineFails
  <2>2. op.loser # s
    BY <1>0, <2>1
  <2> QED
    BY <1>0, <1>k, <1>u, <2>1, <2>2
<1>14. CASE RemoveTheRecord
  <2>1. op # None /\ op.at = "unrecord" /\ UNCHANGED folders
    BY <1>14 DEF RemoveTheRecord
  <2>2. faults = 1 /\ (holds[slot] # None => came[slot] = "vendor")
    BY <1>f, <2>1 DEF TheRecordInHand, slot
  <2>3. sidecar' = [sidecar EXCEPT ![slot] = None]
    BY <1>14, <1>f, <2>2 DEF RemoveTheRecord, slot
  <2>4. CASE s = slot
    <3>1. sidecar'[s] = None /\ holds' = holds /\ came' = came
      BY <1>0, <2>1, <2>3, <2>4 DEF folders
    <3> QED
      BY <2>2, <2>4, <3>1 DEF Shown, RightFor, Right
  <2>5. CASE s # slot
    BY <1>0, <1>a, <1>k, <2>1, <2>3, <2>5 DEF folders
  <2> QED
    BY <2>4, <2>5
<1>15. CASE MakeNoRoom
  <2>1. op # None /\ op.at = "unaside" /\ sidecar' = sidecar
    BY <1>15 DEF MakeNoRoom
  <2>2. faults = 1
    BY <1>f, <2>1 DEF TheRecordInHand
  <2>3. CASE UNCHANGED folders
    BY <1>s, <1>u, <2>1, <2>3
  <2>4. CASE Moved(swap, slot) /\ GoesTo("putRecord")
    <3>1. CASE s = slot
      <4>1. faults' = 1
        BY <1>f, <2>2
      <4>2. op'.at = "putRecord" /\ op'.loser = op.loser
        BY <1>0, <2>1, <2>4, Parts
      <4>3. op' # None
        <5>2. op' = [op EXCEPT !.at = "putRecord"]
          BY <2>4 DEF GoesTo
        <5> QED
          BY <1>0, <2>1, <5>2, NoneIsNoOperation DEF Operation
      <4> QED
        BY <3>1, <4>1, <4>2, <4>3 DEF Shown, slot
    <3>2. CASE s # slot
      BY <1>m, <1>p, <1>u, <2>1, <2>4, <3>2
    <3> QED
      BY <3>1, <3>2
  <2> QED
    BY <1>15, <2>3, <2>4 DEF MakeNoRoom, slot, swap
<1>16. CASE PutTheRecordBack
  <2>1. op # None /\ op.at = "putRecord" /\ UNCHANGED folders
    BY <1>16 DEF PutTheRecordBack
  <2>2. faults = 1 /\ (holds[slot] # None => Right(op.record, came[slot]))
    BY <1>f, <2>1 DEF TheRecordInHand, slot
  <2>3. sidecar' = [sidecar EXCEPT ![slot] = op.record]
    BY <1>16, <1>f, <2>2 DEF PutTheRecordBack, slot
  <2>4. CASE s = slot
    <3>1. sidecar'[s] = op.record /\ holds' = holds /\ came' = came
      BY <1>0, <2>1, <2>3, <2>4 DEF folders
    <3> QED
      BY <2>2, <2>4, <3>1 DEF Shown, RightFor
  <2>5. CASE s # slot
    BY <1>0, <1>a, <1>k, <2>1, <2>3, <2>5 DEF folders
  <2> QED
    BY <2>4, <2>5
<1>17. CASE ImportTheProvenance
  <2>1. op # None /\ op.at = "arrive" /\ op.winner = "entry" /\ op.goal = op.loser /\ op.goal \in Category
        /\ sidecar' = sidecar
    BY <1>0, <1>17 DEF ImportTheProvenance, TheirParts
  <2>2. op.goal \in Where /\ op.winner \in Where /\ op.goal # s /\ op.winner # s /\ op.winner # op.goal
    BY <1>0, <1>p, <2>1 DEF Place
  <2>3. CASE Moved(op.winner, op.goal)
    BY <1>m, <1>u, <2>1, <2>2, <2>3
  <2>4. CASE holds' = [holds EXCEPT ![op.goal] = holds[op.winner]] /\ came' = came
    BY <1>0, <1>k, <1>u, <2>1, <2>2, <2>4
  <2>5. CASE UNCHANGED folders
    BY <1>s, <1>u, <2>1, <2>5
  <2> QED
    BY <1>17, <2>3, <2>4, <2>5 DEF ImportTheProvenance
<1>18. CASE MoveTheNewcomerIn
  <2>1. op # None /\ op.at = "arrive" /\ sidecar' = sidecar /\ (Moved("staged", op.goal) \/ UNCHANGED folders)
    BY <1>18 DEF MoveTheNewcomerIn
  <2>2. op.goal \in Where /\ op.goal # s /\ "staged" # op.goal
    BY <1>0, <1>p, <2>1 DEF Place, Held
  <2> QED
    BY <1>m, <1>p, <1>s, <1>u, <2>1, <2>2
<1>19. CASE RestoreTheLoser
  <2>1. op # None /\ op.at = "restore"
    BY <1>19 DEF RestoreTheLoser
  <2>2. CASE Moved(slot, op.loser)
    <3>1. op.loser \in Where /\ op.loser # s /\ slot # op.loser
      BY <1>0, <1>p, <2>1
    <3>2. slot = s \/ sidecar'[s] = sidecar[s]
      BY <1>0, <1>19, <1>p, <2>1 DEF RestoreTheLoser, slot
    <3> QED
      BY <1>m, <1>p, <1>u, <2>1, <2>2, <3>1, <3>2
  <2>3. CASE UNCHANGED <<folders, sidecar>>
    BY <1>s, <1>u, <2>1, <2>3
  <2> QED
    BY <1>19, <2>2, <2>3 DEF RestoreTheLoser, slot
<1>20. CASE DropTheEarlierCopy
  <2>1. op # None /\ op.at = "drop" /\ sidecar' = sidecar /\ (Removed(swap) \/ UNCHANGED <<holds, came>>)
    BY <1>20 DEF DropTheEarlierCopy, swap, slot
  <2>2. swap # s
    BY <1>p, <2>1
  <2> QED
    BY <1>0, <1>k, <1>u, <2>1, <2>2 DEF Removed
<1>21. CASE UNCHANGED vars
  <2>1. UNCHANGED <<folders, sidecar, op, faults>>
    BY <1>21 DEF vars, disk
  <2> QED
    BY <1>a, <1>s, <2>1 DEF Shown, slot
<1> QED
  BY <1>1, <1>2, <1>3, <1>4, <1>5, <1>6, <1>7, <1>8, <1>9, <1>11, <1>12, <1>13, <1>14, <1>15,
     <1>16, <1>17, <1>18, <1>19, <1>20, <1>21 DEF Next
\* Every step leaves the next one with what it needs to know of the records.
LEMMA RecordInHandStep ==
  IInv /\ TheRecordsAreRight /\ TheRecordInHand /\ [Next]_vars => TheRecordInHand'
<1> DEFINE slot == SlotOf(op.loser)
           swap == SwapSlotFor(slot)
           Kept(step) == op.aside /\ step \in StepsMadeRoomFor /\ holds'[swap] # None => Right(op.record, came'[swap])
<1> HIDE DEF slot, swap, Kept
<1> SUFFICES ASSUME IInv, TheRecordsAreRight, TheRecordInHand, [Next]_vars, faults' < 2 PROVE TheRecordInHand'
  BY DEF TheRecordInHand
<1> USE QuarantineAssumption
<1>0. /\ TypeOK /\ OneAtATime /\ TheirParts /\ TheLoserWaits
      /\ holds \in [Where -> Maybe(Copy)] /\ came \in [Held -> Maybe(Place)] /\ sidecar \in [Slot -> Maybe(Place)]
      /\ op # None => op \in Operation /\ op.loser \in Place /\ op.goal \in Place /\ op.winner \in Where
  BY DEF IInv, TypeOK, Maybe, Operation
<1>f. /\ faults \in Nat /\ faults < 2
      /\ Fault => faults = 0 /\ faults' = 1
      /\ faults' # faults => faults = 0 /\ faults' = 1
  BY <1>0, AfterAFault, FaultsAreCounted
<1>p. /\ Place \subseteq Where /\ "staged" \in Where /\ Held \subseteq Where /\ "staged" \notin Held
      /\ Slot \subseteq Held /\ Place \cap Held = {}
      /\ op # None => /\ slot \in Slot /\ slot \in Where /\ slot \in Held /\ slot \notin Place /\ swap \in Where
                      /\ swap \in Held /\ swap \notin Slot /\ swap \notin Place /\ swap # slot
  BY <1>0, SlotsAreApart DEF Place, Where, Held, Slot, slot, swap
<1>h. op # None =>
        /\ op.aside => op.kind \in {"admit", "swap"}
        /\ op.at \in {"unaside", "putRecord"} => op.aside
        /\ op.at \in {"unrecord", "unaside", "putRecord", "restore"} => faults = 1
        /\ op.at \in {"relink", "unaside"} /\ op.kind = "admit" /\ ~op.landed => faults = 1
        /\ op.at \in {"move", "empty"} => sidecar[slot] = op.loser
        /\ op.at = "empty" => came[slot] = op.loser /\ op.loser = "vendor"
        /\ op.at = "unrecord" /\ holds[slot] # None => came[slot] = "vendor"
        /\ op.at = "aside" \/ (op.at = "disable" /\ op.kind = "swap" /\ op.aside)
             => sidecar[slot] = op.record
        /\ op.aside /\ op.at \in StepsMadeRoomFor /\ holds[swap] # None => Right(op.record, came[swap])
  BY <1>f DEF TheRecordInHand, slot, swap
<1>e. ASSUME op' = None PROVE TheRecordInHand'
  BY <1>e DEF TheRecordInHand
\* The parts of an operation stay while it goes on.
<1>o. ASSUME op # None, op' # None, NEW step, GoesTo(step)
      PROVE  /\ op'.kind = op.kind /\ op'.loser = op.loser /\ op'.aside = op.aside /\ op'.at = step
             /\ op'.record = op.record /\ op'.landed = op.landed
  BY <1>0, <1>o, Parts, WhatGoesOn
<1>g. ASSUME op # None, NEW step, GoesTo(step),
             step \in {"unaside", "putRecord"} => op.aside,
             step \in {"unrecord", "unaside", "putRecord", "restore"} => faults' = 1,
             step \in {"relink", "unaside"} /\ op.kind = "admit" /\ ~op.landed => faults' = 1,
             step \in {"move", "empty"} => sidecar'[slot] = op.loser,
             step = "empty" => came'[slot] = op.loser /\ op.loser = "vendor",
             step = "unrecord" /\ holds'[slot] # None => came'[slot] = "vendor",
             step = "putRecord" /\ holds'[slot] # None => Right(op.record, came'[slot]),
             step = "aside" \/ (step = "disable" /\ op.kind = "swap" /\ op.aside) => sidecar'[slot] = op.record,
             Kept(step)
      PROVE  TheRecordInHand'
  <2> SUFFICES ASSUME op' # None PROVE TheRecordInHand'
    BY <1>e
  <2>1. /\ op'.kind = op.kind /\ op'.loser = op.loser /\ op'.aside = op.aside /\ op'.at = step
        /\ op'.record = op.record /\ op'.landed = op.landed
    BY <1>g, <1>o
  <2>2. StepsMadeRoomFor' = StepsMadeRoomFor
    BY <2>1 DEF StepsMadeRoomFor
  <2> QED
    BY <1>g, <1>h, <2>1, <2>2 DEF TheRecordInHand, Right, slot, swap, Kept
\* The item that made room stays where it is, or the operation no longer needs it.
<1>k. ASSUME op # None, op.at \in StepsMadeRoomFor \/ ~op.aside, holds'[swap] = holds[swap], came'[swap] = came[swap],
             NEW step
      PROVE  Kept(step)
  BY <1>h, <1>k DEF Kept
<1>s. ASSUME op # None, op.at \in StepsMadeRoomFor \/ ~op.aside, UNCHANGED folders, NEW step
      PROVE  Kept(step)
  BY <1>k, <1>s DEF folders
<1>i. ASSUME op # None, op.kind = "swap" \/ ~op.aside, NEW step \in {"aside", "putRecord", "disable", "restore", "relink"}
      PROVE  Kept(step)
  BY <1>i DEF Kept, StepsMadeRoomFor
<1>j. ASSUME op # None, op.aside, op.at \in At \ {"aside", "putRecord"}, op.kind = "admit"
      PROVE  op.at \in StepsMadeRoomFor
  BY <1>j DEF StepsMadeRoomFor
<1>q. ASSUME op # None, op.at \in {"write", "move", "empty", "unrecord", "unaside"}
      PROVE  op.at \in StepsMadeRoomFor
  BY <1>q DEF StepsMadeRoomFor, At
<1>1. ASSUME NEW kind \in {"keepLibrary", "keepProvenance", "takeBack"}, NEW p, NEW c, ResolveConflict(kind, p, c)
      PROVE  TheRecordInHand'
  <2>1. op'.at = "disable" /\ op'.kind = kind /\ op'.aside = FALSE
    BY <1>1 DEF ResolveConflict, Begin
  <2> QED
    BY <2>1 DEF TheRecordInHand
<1>2. ASSUME NEW c, Admit(c) PROVE TheRecordInHand'
  <2>1. PICK earlier \in BOOLEAN : Begin("admit", IF earlier THEN "aside" ELSE "disable", c, "staged", c, earlier)
    BY <1>2 DEF Admit
  <2>2. /\ op'.kind = "admit" /\ op'.aside = earlier /\ op'.loser = c
        /\ op'.at = IF earlier THEN "aside" ELSE "disable"
        /\ earlier => op'.record = sidecar[SlotOf(c)]
    BY <2>1 DEF Begin
  <2>3. sidecar' = sidecar
    BY <1>2 DEF Admit, disk
  <2> QED
    BY <2>2, <2>3 DEF TheRecordInHand, StepsMadeRoomFor
<1>3. ASSUME NEW i, NEW p, Swap(i, p) PROVE TheRecordInHand'
  <2>1. PICK occupant : Begin("swap", "disable", occupant, i, p, SlotOf(occupant) = i)
    BY <1>3 DEF Swap
  <2>2. /\ op'.kind = "swap" /\ op'.loser = occupant /\ op'.at = "disable"
        /\ op'.aside => op'.record = sidecar[SlotOf(occupant)]
    BY <2>1 DEF Begin
  <2>3. sidecar' = sidecar
    BY <1>3, <2>1 DEF Swap, disk
  <2> QED
    BY <2>2, <2>3 DEF TheRecordInHand, StepsMadeRoomFor
<1>4. CASE TakeTheLinksDown
  <2>1. op # None /\ op.at = "disable" /\ UNCHANGED folders /\ sidecar' = sidecar
    BY <1>4 DEF TakeTheLinksDown
  <2>2. CASE op.kind = "swap" /\ op.aside
    <3>1. GoesTo("aside") /\ Kept("aside")
      BY <1>4, <1>i, <2>1, <2>2 DEF TakeTheLinksDown
    <3> QED
      BY <1>g, <1>h, <2>1, <2>2, <3>1
  <2>3. CASE ~(op.kind = "swap" /\ op.aside)
    <3>1. GoesTo("write") /\ Kept("write")
      BY <1>4, <1>h, <1>j, <1>s, <2>1, <2>3 DEF TakeTheLinksDown, At
    <3> QED
      BY <1>g, <2>1, <3>1
  <2> QED
    BY <2>2, <2>3
<1>5. CASE ALinkStaysUp
  <2>1. op # None /\ op.at = "disable" /\ UNCHANGED folders /\ GoesTo("relink") /\ Fault
    BY <1>5 DEF ALinkStaysUp
  <2>2. Kept("relink")
    BY <1>h, <1>i, <1>j, <1>s, <2>1 DEF At
  <2> QED
    BY <1>f, <1>g, <2>1, <2>2
<1>6. CASE SetAside
  <2>1. op # None /\ op.at = "aside" /\ sidecar' = sidecar /\ sidecar[slot] = op.record
    BY <1>6, <1>h DEF SetAside
  <2>2. CASE Moved(slot, swap) /\ GoesTo(IF op.kind = "swap" THEN "write" ELSE "disable")
    <3>1. holds'[swap] = holds[slot] /\ came'[swap] = came[slot]
      BY <1>0, <1>p, <2>1, <2>2, WhatMoves
    <3>2. holds[slot] # None => Right(op.record, came[slot])
      <4>1. RightFor(slot)
        BY <1>f, <1>p, <2>1 DEF TheRecordsAreRight
      <4> QED
        BY <2>1, <4>1 DEF RightFor
    <3>3. ASSUME NEW step PROVE Kept(step)
      BY <3>1, <3>2 DEF Kept
    <3> QED
      BY <1>g, <2>1, <2>2, <3>3
  <2>3. CASE op.kind = "swap" /\ GoesTo("relink")
    BY <1>g, <1>i, <2>1, <2>3
  <2>4. CASE Over
    BY <1>e, <2>4 DEF Over
  <2> QED
    BY <1>6, <2>2, <2>3, <2>4 DEF SetAside, slot, swap
\* Backing out of a quarantine, with what made room to come back first.
<1>b. ASSUME op # None, op.at \in {"write", "unrecord"}, GoesTo(BackOut), faults' = 1, UNCHANGED folders
      PROVE  TheRecordInHand'
  <2>1. Kept("unaside") /\ Kept("relink")
    BY <1>b, <1>q, <1>s
  <2>2. CASE op.kind = "swap" /\ op.aside
    BY <1>b, <1>g, <2>1, <2>2 DEF BackOut
  <2>3. CASE ~(op.kind = "swap" /\ op.aside)
    BY <1>b, <1>g, <2>1, <2>3 DEF BackOut
  <2> QED
    BY <2>2, <2>3
<1>7. CASE WriteTheRecord
  <2>1. op # None /\ op.at = "write" /\ UNCHANGED folders
    BY <1>7 DEF WriteTheRecord
  <2>2. CASE sidecar' = [sidecar EXCEPT ![slot] = op.loser] /\ GoesTo("move")
    <3>1. Kept("move") /\ sidecar'[slot] = op.loser
      BY <1>0, <1>p, <1>q, <1>s, <2>1, <2>2
    <3> QED
      BY <1>g, <2>1, <2>2, <3>1
  <2>3. CASE Fault /\ GoesTo(BackOut)
    BY <1>b, <1>f, <2>1, <2>3
  <2> QED
    BY <1>7, <2>2, <2>3 DEF WriteTheRecord, slot
<1>8. CASE MoveToTheQuarantine \/ RemoveTheLoser
  <2>1. op # None /\ op.at \in {"move", "empty"} /\ IsQuarantined
    BY <1>8 DEF MoveToTheQuarantine, RemoveTheLoser
  <2>2. holds'[swap] = holds[swap] /\ came'[swap] = came[swap]
    <3>1. op.loser \in Where /\ op.loser # slot /\ op.loser # swap
      BY <1>0, <1>p, <2>1
    <3>2. CASE Moved(op.loser, slot)
      BY <1>0, <1>p, <2>1, <3>1, <3>2, WhatMoves
    <3>3. CASE holds' = [holds EXCEPT ![op.loser] = None] /\ came' = came
      BY <1>0, <1>p, <2>1, <3>1, <3>3
    <3> QED
      BY <1>8, <3>2, <3>3 DEF MoveToTheQuarantine, RemoveTheLoser, slot
  <2>3. Kept("arrive")
    BY <1>k, <1>q, <2>1, <2>2
  <2>4. CASE Over
    BY <1>e, <2>4 DEF Over
  <2>5. CASE GoesTo("arrive")
    BY <1>g, <2>1, <2>3, <2>5
  <2> QED
    BY <2>1, <2>4, <2>5 DEF IsQuarantined
<1>9. CASE CopyToTheQuarantine
  <2>1. /\ op # None /\ op.at = "move" /\ ~CanMove(op.loser, slot) /\ GoesTo("empty") /\ sidecar' = sidecar
        /\ holds' = [holds EXCEPT ![slot] = holds[op.loser]] /\ came' = [came EXCEPT ![slot] = op.loser]
    BY <1>9 DEF CopyToTheQuarantine, slot
  <2>2. op.loser = "vendor"
    <3>1. holds[slot] = None
      BY <1>0, <2>1 DEF TheLoserWaits, slot
    <3>2. "vendor" \in {op.loser, slot}
      BY <2>1, <3>1 DEF CanMove
    <3>3. slot # "vendor"
      BY <1>p, <2>1 DEF Place
    <3> QED
      BY <3>2, <3>3
  <2>3. Kept("empty") /\ came'[slot] = op.loser
    BY <1>0, <1>k, <1>p, <1>q, <2>1
  <2> QED
    BY <1>g, <1>h, <2>1, <2>2, <2>3
<1>10. CASE QuarantineFails
  <2>1. op # None /\ op.at \in {"move", "empty"} /\ Fault /\ GoesTo("unrecord") /\ UNCHANGED <<holds, came>>
    BY <1>10 DEF QuarantineFails
  <2>2. Kept("unrecord")
    BY <1>k, <1>q, <2>1
  <2>3. holds[slot] # None => came[slot] = "vendor"
    BY <1>0, <1>h, <2>1 DEF TheLoserWaits, slot
  <2> QED
    BY <1>f, <1>g, <2>1, <2>2, <2>3
<1>11. CASE RemoveTheRecord
  <2>1. op # None /\ op.at = "unrecord" /\ UNCHANGED folders /\ GoesTo(BackOut)
    BY <1>11 DEF RemoveTheRecord
  <2>2. faults' = 1
    BY <1>f, <1>h, <2>1
  <2> QED
    BY <1>b, <2>1, <2>2
<1>12. CASE MakeNoRoom
  <2>1. op # None /\ op.at = "unaside" /\ faults' = 1
    BY <1>12, <1>f, <1>h DEF MakeNoRoom
  <2>2. CASE Moved(swap, slot) /\ GoesTo("putRecord")
    <3>1. holds'[slot] = holds[swap] /\ came'[slot] = came[swap] /\ holds'[swap] = None
      BY <1>0, <1>p, <2>1, <2>2, WhatMoves
    <3>2. Kept("putRecord")
      BY <3>1 DEF Kept
    <3>3. holds[swap] # None => Right(op.record, came[swap])
      BY <1>h, <1>q, <2>1
    <3>4. holds'[slot] # None => Right(op.record, came'[slot])
      BY <3>1, <3>3
    <3> QED
      BY <1>g, <1>h, <2>1, <2>2, <3>2, <3>4
  <2>3. CASE op.kind = "swap" /\ GoesTo("relink")
    BY <1>g, <1>i, <2>1, <2>3
  <2>4. CASE Over
    BY <1>e, <2>4 DEF Over
  <2> QED
    BY <1>12, <2>2, <2>3, <2>4 DEF MakeNoRoom, slot, swap
<1>13. CASE PutTheRecordBack
  <2>1. op # None /\ op.at = "putRecord"
    BY <1>13 DEF PutTheRecordBack
  <2>2. CASE op.kind = "swap" /\ GoesTo("relink")
    BY <1>g, <1>i, <2>1, <2>2
  <2>3. CASE Over
    BY <1>e, <2>3 DEF Over
  <2> QED
    BY <1>13, <2>2, <2>3 DEF PutTheRecordBack
\* The other copy lands.
<1>l. ASSUME op # None, Lands, Kept("relink") PROVE TheRecordInHand'
  <2>1. op'.kind = op.kind /\ op'.loser = op.loser /\ op'.aside = op.aside /\ op'.at = "relink"
        /\ op'.record = op.record /\ op'.landed
    BY <1>0, <1>l, PartsOfWhatLands, WhatGoesOnWhenItLands
  <2>2. StepsMadeRoomFor' = StepsMadeRoomFor
    BY <2>1 DEF StepsMadeRoomFor
  <2> QED
    BY <1>l, <1>h, <2>1, <2>2 DEF TheRecordInHand, slot, swap, Kept
<1>14. CASE StandIn \/ ImportTheProvenance
  <2>1. op # None /\ op.at = "arrive" /\ op.kind \in {"keepLibrary", "takeBack"} /\ ~op.aside
    BY <1>14, <1>h DEF StandIn, ImportTheProvenance
  <2>2. Kept("relink") /\ Kept("restore")
    BY <1>i, <2>1
  <2>3. CASE Lands
    BY <1>l, <2>1, <2>2, <2>3
  <2>4. CASE GoesTo("relink")
    BY <1>g, <2>1, <2>2, <2>4
  <2>5. CASE GoesTo("restore") /\ Fault
    BY <1>f, <1>g, <2>1, <2>2, <2>5
  <2> QED
    BY <1>14, <2>3, <2>4, <2>5 DEF StandIn, ImportTheProvenance
<1>15. CASE MoveTheNewcomerIn
  <2>1. op # None /\ op.at = "arrive" /\ op.kind = "admit"
    BY <1>15 DEF MoveTheNewcomerIn
  <2>2. op.at \in StepsMadeRoomFor \/ ~op.aside
    BY <1>j, <2>1 DEF At
  <2>3. CASE Moved("staged", op.goal) /\ Lands
    <3>1. op.goal \in Where /\ op.goal # swap /\ "staged" # swap /\ "staged" # op.goal
      BY <1>0, <1>p, <2>1 DEF Place, Held
    <3>2. holds'[swap] = holds[swap] /\ came'[swap] = came[swap]
      BY <1>0, <1>p, <2>1, <2>3, <3>1, WhatMoves
    <3> QED
      BY <1>k, <1>l, <2>1, <2>2, <2>3, <3>2
  <2>4. CASE Fault /\ GoesTo("restore") /\ UNCHANGED folders
    BY <1>f, <1>g, <1>s, <2>1, <2>2, <2>4
  <2> QED
    BY <1>15, <2>3, <2>4 DEF MoveTheNewcomerIn
<1>16. CASE RestoreTheLoser
  <2>1. op # None /\ op.at = "restore" /\ GoesTo("relink") /\ op.kind \in {"takeBack", "admit"} /\ faults' = 1
    BY <1>0, <1>16, <1>f, <1>h DEF RestoreTheLoser, TheirParts
  <2>2. holds'[swap] = holds[swap] /\ came'[swap] = came[swap]
    <3>1. CASE Moved(slot, op.loser)
      BY <1>0, <1>p, <2>1, <3>1, WhatMoves
    <3>2. CASE UNCHANGED folders
      BY <3>2 DEF folders
    <3> QED
      BY <1>16, <3>1, <3>2 DEF RestoreTheLoser, slot
  <2>3. Kept("relink")
    BY <1>h, <1>j, <1>k, <2>1, <2>2 DEF At
  <2> QED
    BY <1>g, <2>1, <2>3
<1>17. CASE ItemComesBack
  <2>1. op # None /\ op.kind = "swap"
    BY <1>17 DEF ItemComesBack
  <2> QED
    BY <1>17, <1>e, <1>i, <1>l, <2>1 DEF ItemComesBack, Over
<1>18. CASE Relink
  <2>1. CASE op' = None
    BY <1>e, <2>1
  <2>2. CASE op' # None
    <3>1. PICK cut : op' = [op EXCEPT !.cut = cut, !.at = IF op.landed THEN "drop" ELSE "unaside"]
      BY <1>18, <2>2 DEF Relink
    <3>2. /\ op # None /\ op.at = "relink" /\ op.kind = "admit" /\ op.aside /\ UNCHANGED folders
          /\ ~op.landed => faults' = 1
      BY <1>18, <1>f, <1>h, <2>2 DEF Relink
    <3>3. /\ op'.kind = "admit" /\ op'.loser = op.loser /\ op'.aside /\ op'.record = op.record
          /\ op'.landed = op.landed /\ op'.at = IF op.landed THEN "drop" ELSE "unaside"
      BY <1>0, <3>1, <3>2 DEF Operation
    <3>4. Kept("drop")
      BY <1>j, <1>s, <3>2 DEF At
    <3>5. holds'[swap] # None => Right(op.record, came'[swap])
      BY <3>2, <3>4 DEF Kept, StepsMadeRoomFor, At
    <3> QED
      BY <3>2, <3>3, <3>5 DEF TheRecordInHand, slot, swap
  <2> QED
    BY <2>1, <2>2
<1>19. CASE DropTheEarlierCopy \/ Crash
  BY <1>19, <1>e DEF DropTheEarlierCopy, Crash, Over
<1>20. CASE \/ \E c \in Copy, w \in Where : Appears(c, w)
            \/ \E p \in Place : Enable(p)
            \/ \E c \in Category : AdmitIntoTheFreePlace(c)
            \/ \E i \in Held : Discard(i)
            \/ \E I \in SUBSET Held : Restore(I)
  BY <1>20, <1>e DEF Appears, Enable, AdmitIntoTheFreePlace, Discard, Restore, Idle, disk
<1>21. ASSUME NEW r \in restoring, RestoreOne(r) PROVE TheRecordInHand'
  BY <1>0, <1>21, <1>e DEF OneAtATime, RestoreOne
<1>22. CASE UNCHANGED vars
  BY <1>22 DEF vars, disk, folders, TheRecordInHand, StepsMadeRoomFor
<1> QED
  BY <1>1, <1>2, <1>3, <1>4, <1>5, <1>6, <1>7, <1>8, <1>9, <1>10, <1>11, <1>12, <1>13, <1>14, <1>15,
     <1>16, <1>17, <1>18, <1>19, <1>20, <1>21, <1>22 DEF Next
-----------------------------------------------------------------------------
\* One failure or crash, wherever it comes, leaves every item of the quarantine the
\* record it came with, for any contents and categories.
THEOREM OneFailureLeavesTheRecords == Spec => []TheRecordStaysWithIt
<1> DEFINE RInv == IInv /\ TheRecordsAreRight /\ TheRecordInHand
<1>1. Init => RInv
  BY InitIsGood DEF Init, TheRecordsAreRight, TheRecordInHand, RightFor, Slot, Where, Held
<1>2. RInv /\ [Next]_vars => RInv'
  <2>1. IInv /\ [Next]_vars => IInv'
    BY TypeStep, CopiesStep, KnowledgeStep DEF IInv, WhatAStepKnows
  <2> QED
    BY <2>1, RecordsStep, RecordInHandStep
<1>3. RInv => TheRecordStaysWithIt
  BY DEF TheRecordStaysWithIt, TheRecordsAreRight, RightFor, Right
<1> HIDE DEF RInv
<1> QED
  BY <1>1, <1>2, <1>3, PTL DEF Spec

\* However an operation ends, short of a failure of that very step, each link it took
\* down leads to what now stands for the loser, or is one it could not put back.
THEOREM EveryLinkComesBack == Spec => LinksComeBack
<1> DEFINE LInv == IInv /\ TheLoserHasGone /\ TheLinksInHand
           Back == op # None /\ op' = None /\ holds'[Heir(holds')] # None /\ faults' = faults
                     => \A l \in op.places \ op.cut : link'[l] = Heir(holds')
<1>1. Init => LInv
  BY InitIsGood DEF Init, TheLoserHasGone, TheLinksInHand
<1>2. LInv /\ [Next]_vars => LInv'
  <2>1. IInv /\ [Next]_vars => IInv'
    BY TypeStep, CopiesStep, KnowledgeStep DEF IInv, WhatAStepKnows
  <2> QED
    BY <2>1, LoserHasGoneStep, LinksInHandStep
<1>3. LInv /\ [Next]_vars => [Back]_vars
  <2> SUFFICES ASSUME LInv, Next, op # None, op' = None, holds'[Heir(holds')] # None, faults' = faults,
                      NEW l \in op.places \ op.cut
               PROVE  link'[l] = Heir(holds')
    OBVIOUS
  <2> USE QuarantineAssumption
  <2>0. /\ TypeOK /\ OneAtATime /\ TheirParts /\ TheLoserWaits
        /\ holds \in [Where -> Maybe(Copy)]
        /\ link \in [LinkPlace -> Maybe(Category \cup {"vendor"})] /\ l \in LinkPlace /\ l \in op.places
        /\ op \in Operation /\ op.loser \in Place /\ op.loser \in Where /\ op.goal \in Place /\ op.winner \in Where
    BY DEF IInv, TypeOK, Maybe, Operation, Place, Where, LinkPlace
  <2>f. ~Fault
    BY <2>0 DEF Fault, TypeOK
  <2>h. /\ op.at = "aside" /\ op.kind # "swap" => link[l] = op.loser
        /\ op.at = "relink" => link[l] \in {None, Heir(holds)}
        /\ op.at \in {"unaside", "putRecord", "drop"} /\ op.kind # "swap"
             => op.kind = "admit" /\ (holds[op.loser] = None \/ link[l] = op.loser)
    BY <2>0 DEF TheLinksInHand
  \* A step after which the operation goes on.
  <2>o. ASSUME NEW step \in At, GoesTo(step) PROVE FALSE
    BY <2>0, <2>o, GoesToType, NoneIsNoOperation
  <2>l. ~Lands
    BY <2>0, LandsType, NoneIsNoOperation
  <2>n. op.kind # "keepLibrary" => Heir(holds') = op.loser
    BY DEF Heir
  <2> USE DEF At
  <2>1. CASE SetAside
    <3>1. op.at = "aside" /\ op.kind # "swap" /\ holds' = holds /\ link' = link
      BY <2>1, <2>o DEF SetAside, folders
    <3>2. Heir(holds') = op.loser
      BY <2>0, <3>1 DEF TheLoserWaits, Heir
    <3> QED
      BY <2>h, <3>1, <3>2
  <2>2. CASE MoveToTheQuarantine \/ RemoveTheLoser
    <3>1. IsQuarantined /\ op.kind = "keepProvenance"
      BY <2>2, <2>o DEF MoveToTheQuarantine, RemoveTheLoser, IsQuarantined
    <3>2. holds'[op.loser] = None
      <4>1. SlotOf(op.loser) \in Where /\ SlotOf(op.loser) # op.loser
        BY <2>0, SlotsAreApart
      <4> QED
        BY <2>0, <2>2, <4>1, WhatMoves DEF MoveToTheQuarantine, RemoveTheLoser
    <3> QED
      BY <2>n, <3>1, <3>2
  <2>3. CASE MakeNoRoom \/ PutTheRecordBack
    <3>1. op.at \in {"unaside", "putRecord"} /\ op.kind # "swap" /\ holds' = holds /\ link' = link
      BY <2>3, <2>o DEF MakeNoRoom, PutTheRecordBack, folders
    <3> QED
      BY <2>h, <2>n, <3>1
  <2>4. CASE DropTheEarlierCopy
    <3>1. op.at = "drop" /\ op.kind = "admit" /\ link' = link
      BY <2>0, <2>4 DEF DropTheEarlierCopy, TheirParts
    <3>2. holds'[op.loser] = holds[op.loser]
      BY <2>0, <2>4, SlotsAreApart DEF DropTheEarlierCopy, Removed
    <3> QED
      BY <2>h, <2>n, <3>1, <3>2
  <2>5. CASE ItemComesBack
    <3>1. op.at = "arrive" /\ op.kind = "swap" /\ holds' = holds
      BY <2>5, <2>l DEF ItemComesBack, StaysBehind, folders
    <3> QED
      BY <2>n, <3>1 DEF TheLoserHasGone
  <2>6. CASE Relink
    <3>1. op.at = "relink" /\ holds' = holds
      BY <2>6 DEF Relink, folders
    <3>2. link' = [m \in LinkPlace |-> IF m \in op.places /\ link[m] = None /\ holds[Heir(holds)] # None
                                       THEN Heir(holds) ELSE link[m]]
      BY <2>6, <2>f DEF Relink
    <3> QED
      BY <2>0, <2>h, <3>1, <3>2
  <2>7. CASE \/ TakeTheLinksDown \/ ALinkStaysUp \/ WriteTheRecord \/ CopyToTheQuarantine \/ QuarantineFails
             \/ RemoveTheRecord \/ StandIn \/ ImportTheProvenance \/ MoveTheNewcomerIn \/ RestoreTheLoser
    BY <2>7, <2>l, <2>o DEF TakeTheLinksDown, ALinkStaysUp, WriteTheRecord, CopyToTheQuarantine, QuarantineFails,
       RemoveTheRecord, BackOut, StandIn, ImportTheProvenance, MoveTheNewcomerIn, RestoreTheLoser
  <2>8. CASE Crash
    BY <2>8, <2>f DEF Crash
  <2>9. CASE \/ \E c \in Copy, w \in Where : Appears(c, w)
             \/ \E p \in Place : Enable(p)
             \/ \E kind \in {"keepLibrary", "keepProvenance", "takeBack"}, p \in {"entry", "vendor"}, c \in Category :
                  ResolveConflict(kind, p, c)
             \/ \E c \in Category : Admit(c) \/ AdmitIntoTheFreePlace(c)
             \/ \E i \in Held : Discard(i) \/ \E p \in Place : Swap(i, p)
             \/ \E I \in SUBSET Held : Restore(I)
    BY <2>9 DEF Appears, Enable, ResolveConflict, Admit, AdmitIntoTheFreePlace, Discard, Swap, Restore, Idle
  <2>10. CASE \E r \in restoring : RestoreOne(r)
    BY <2>0, <2>10 DEF OneAtATime
  <2> QED
    BY <2>1, <2>2, <2>3, <2>4, <2>5, <2>6, <2>7, <2>8, <2>9, <2>10 DEF Next
<1> HIDE DEF LInv
<1> QED
  BY <1>1, <1>2, <1>3, PTL DEF Spec, LinksComeBack
=============================================================================
