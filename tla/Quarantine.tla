----------------------------- MODULE Quarantine -----------------------------
(***************************************************************************)
(* Two copies of one addon: resolving a conflict, taking back a folder that *)
(* replaced a link, admitting a newcomer over an installed addon, and the   *)
(* restore, swap and discard of what the quarantine holds (ImportService.cpp *)
(* and ImportEngine::Quarantine).                                           *)
(*                                                                         *)
(* Every folder here has the same name, so those of a library share one     *)
(* slot of its quarantine.  An operation that changes the disk is an action *)
(* for each call it makes; the links it takes down or puts back one by one  *)
(* are one action that may stop anywhere.                                   *)
(***************************************************************************)
EXTENDS FiniteSets, Naturals
CONSTANTS
    Copy,            \* contents a folder of that name may have
    Category,        \* the places for it in the library
    Adopted,         \* those whose addon was imported from the other program's folder
    VendorElsewhere, \* whether the other program's folder is on another volume
    None,
    MaxFaults        \* bound: calls that fail, and crashes

\* "entry" is the place in a destination, "vendor" another program's folder and
\* "staged" what an installation has extracted.
Place == Category \cup {"entry", "vendor"}
Slot == {"libSlot", "destSlot"}
Held == Slot \cup {"libSwap", "destSwap"}
Where == Place \cup Held \cup {"staged"}
\* "other" is the place for it in a second destination, which only links use.
LinkPlace == {"entry", "other", "vendor"}

ASSUME QuarantineAssumption ==
    /\ Category \cap ({"entry", "vendor", "staged", "other"} \cup Held) = {}
    /\ Adopted \subseteq Category /\ VendorElsewhere \in BOOLEAN /\ MaxFaults \in Nat
    /\ None \notin Copy \cup Where

VARIABLES
    holds,     \* the copy in each folder
    half,      \* the folders some files of which were removed
    came,      \* where each item of the quarantine was when it was quarantined
    link,      \* what the link at each place points at
    sidecar,   \* the origin in the record beside each slot
    journal,   \* the origin in the last quarantine recorded as successful for each slot
    op,        \* the operation in hand
    restoring, \* the items a restore has checked and not yet put back, with their origins
    known, discarded, \* copies that were ever there, and that the user agreed to discard
    faults

folders == <<holds, half, came>>
disk == <<folders, link, sidecar, journal>>
ghosts == <<known, discarded>>
vars == <<disk, op, restoring, ghosts, faults>>

Maybe(S) == S \cup {None}
SlotOf(place) == IF place = "entry" THEN "destSlot" ELSE "libSlot"
SwapSlotFor(slot) == IF slot = "destSlot" THEN "destSwap" ELSE "libSwap"
ItemOf(held) == CASE held = "libSwap" -> "libSlot" [] held = "destSwap" -> "destSlot" [] OTHER -> held

Operation ==
    [kind : {"keepLibrary", "keepProvenance", "takeBack", "admit", "swap"},
     at : {"disable", "aside", "write", "move", "empty", "unrecord", "unaside",
           "putRecord", "arrive", "restore", "relink", "drop"},
     loser : Place,            \* the copy that goes to the quarantine
     winner : Where,           \* where the other copy is when it starts
     goal : Place,             \* and where it goes
     places : SUBSET {"entry", "other"}, \* the links that pointed at the loser
     aside : BOOLEAN,          \* something in the slot makes room for the loser
     record : Maybe(Place),    \* its record, to be put back
     landed : BOOLEAN,
     cut : SUBSET {"entry", "other"}] \* those that could not be put back

ASSUME NoneIsNoOperation == None \notin Operation

\* Every variable holds a value of its kind; in particular an operation's record and
\* the journal name places outside the quarantine (QuarantineInto).
TypeOK ==
    /\ holds \in [Where -> Maybe(Copy)] /\ half \subseteq Where
    /\ link \in [LinkPlace -> Maybe(Category \cup {"vendor"})]
    /\ sidecar \in [Slot -> Maybe(Place)] /\ journal \in [Slot -> Maybe(Place)]
    /\ op \in Maybe(Operation)
    /\ restoring \subseteq [item : Held, origin : Place]
    /\ known \subseteq Copy /\ discarded \subseteq known
    /\ came \in [Held -> Maybe(Place)] /\ faults \in 0..MaxFaults

Init ==
    /\ holds = [w \in Where |-> None] /\ half = {}
    /\ link = [l \in LinkPlace |-> None]
    /\ sidecar = [s \in Slot |-> None] /\ journal = [s \in Slot |-> None]
    /\ op = None /\ restoring = {}
    /\ known = {} /\ discarded = {} /\ came = [i \in Held |-> None] /\ faults = 0

-----------------------------------------------------------------------------
(* What the steps share. *)

Idle == op = None /\ restoring = {}

Fault == faults < MaxFaults /\ faults' = faults + 1

\* FileOperations::Move never replaces what holds the name, nor crosses volumes.
\* (The slips named here and below are the mutants the runs are tested with.)
CanMoveOver(a, b) == VendorElsewhere => "vendor" \notin {a, b}
CanMove(a, b) == holds[b] = None /\ (VendorElsewhere => "vendor" \notin {a, b})

Moved(a, b) ==
    /\ holds' = [holds EXCEPT ![b] = holds[a], ![a] = None]
    /\ half' = (half \ {a, b}) \cup (IF a \in half THEN {b} ELSE {})
    /\ came' = [i \in Held |-> CASE i = a -> None
                               [] i = b -> IF a \in Held THEN came[a] ELSE a
                               [] OTHER -> came[i]]

\* RemoveTree on an item.
Removed(item) ==
    /\ holds' = [holds EXCEPT ![item] = None] /\ half' = half \ {item}
    /\ came' = [came EXCEPT ![item] = None]

GoesTo(step) == op' = [op EXCEPT !.at = step]
Over == op' = None

LinksPointingAtInTheFirst(place) == {l \in {"entry"} : link[l] = place}

\* LinksPointingAt: the entries of the destinations.
LinksPointingAt(place) == {l \in {"entry", "other"} : link[l] = place}
WithoutLinks(S) == [l \in LinkPlace |-> IF l \in S THEN None ELSE link[l]]

\* AddonHoldingTheIdentity: an addon of that name anywhere in the library.
Taken(origin) == {p \in (IF origin \in Category THEN Category ELSE {origin}) : holds[p] # None}

\* WhereItCameFrom and Quarantined: the record beside the item, or else the journal.
Listed(item) ==
    LET slot == ItemOf(item) IN IF sidecar[slot] # None THEN sidecar[slot] ELSE journal[slot]

\* The places the user may choose for an item whose origin is unknown (PlacesIn).
OriginsOf(item) ==
    IF Listed(item) # None THEN {Listed(item)}
    ELSE IF ItemOf(item) = "destSlot" THEN {"entry"} ELSE Category

\* Failing before the loser moved: the item that made room comes back first.
BackOut == IF op.kind = "swap" /\ op.aside THEN "unaside" ELSE "relink"

-----------------------------------------------------------------------------
(* The user and the other programs, between operations. *)

Appears(c, w) ==
    /\ Idle /\ c \notin known
    /\ w \in Place \cup {"staged"} /\ holds[w] = None
    /\ holds' = [holds EXCEPT ![w] = c]
    /\ link' = WithoutLinks({w})
    /\ known' = known \cup {c}
    /\ UNCHANGED <<half, came, sidecar, journal, op, restoring, discarded, faults>>

Enable(place) ==
    /\ Idle /\ place \in Category \cup {"vendor"}
    /\ link["other"] = None /\ holds[place] # None
    /\ link' = [link EXCEPT !["other"] = place]
    /\ UNCHANGED <<folders, sidecar, journal, op, restoring, ghosts, faults>>

Begin(kind, at, loser, winner, goal, aside) ==
    op' = [kind |-> kind, at |-> at, loser |-> loser, winner |-> winner, goal |-> goal,
           places |-> LinksPointingAt(loser), aside |-> aside,
           record |-> IF aside THEN sidecar[SlotOf(loser)] ELSE None,
           landed |-> FALSE, cut |-> {}]

\* FindCopyConflicts: the other program has its folder back, or a folder of the
\* destination has the name of an addon of the library.
InConflict(provenance, library) ==
    /\ holds[provenance] # None /\ holds[library] # None
    /\ \/ provenance = "entry"
       \/ provenance = "vendor" /\ library \in Adopted
          /\ LinksPointingAt("vendor") \cup LinksPointingAt(library) # {}

\* WhyTheQuarantineRefuses
ResolveConflict(kind, provenance, library) ==
    LET loser == IF kind = "keepLibrary" THEN provenance ELSE library
    IN  /\ Idle /\ InConflict(provenance, library)
        /\ kind = "takeBack" => provenance = "entry"
        /\ holds[SlotOf(loser)] = None
        /\ Begin(kind, "disable", loser, IF kind = "keepLibrary" THEN library ELSE provenance, library, FALSE)
        /\ UNCHANGED <<disk, restoring, ghosts, faults>>

\* AdmitOne over an occupant, the earlier copy in its slot being discarded at the end.
Admit(occupant) ==
    /\ Idle /\ holds["staged"] # None /\ holds[occupant] # None
    /\ LET earlier == holds["libSlot"] # None
       IN  Begin("admit", IF earlier THEN "aside" ELSE "disable", occupant, "staged", occupant, earlier)
    /\ UNCHANGED <<disk, restoring, ghosts, faults>>

\* AdmitOne into a place nothing holds.
AdmitIntoTheFreePlace(target) ==
    /\ Idle /\ holds["staged"] # None /\ Taken(target) = {}
    /\ Moved("staged", target)
    /\ UNCHANGED <<link, sidecar, journal, op, restoring, ghosts, faults>>

\* Swap, when something holds the origin; otherwise it is a restore.
Swap(item, origin) ==
    /\ Idle /\ holds[item] # None /\ origin \in OriginsOf(item) \ {"vendor"}
    /\ \E occupant \in Taken(origin) :
         /\ SlotOf(occupant) # item => holds[SlotOf(occupant)] = None
         /\ Begin("swap", "disable", occupant, item, origin, SlotOf(occupant) = item)
    /\ UNCHANGED <<disk, restoring, ghosts, faults>>

-----------------------------------------------------------------------------
(* The steps of an operation, in the order of a swap. *)

TakeTheLinksDown ==
    /\ op # None /\ op.at = "disable"
    /\ link' = WithoutLinks(op.places)
    /\ GoesTo(IF op.kind = "swap" /\ op.aside THEN "aside" ELSE "write")
    /\ UNCHANGED <<folders, sidecar, journal, restoring, ghosts, faults>>

ALinkStaysUp ==
    /\ op # None /\ op.at = "disable" /\ op.places # {}
    /\ Fault
    /\ \E down \in SUBSET op.places : down # op.places /\ link' = WithoutLinks(down)
    /\ GoesTo("relink")
    /\ UNCHANGED <<folders, sidecar, journal, restoring, ghosts>>

\* SetTheEarlierCopyAside, or the item of a swap making room.
SetAside ==
    LET slot == SlotOf(op.loser) IN
    /\ op # None /\ op.at = "aside"
    /\ \/ /\ CanMove(slot, SwapSlotFor(slot))
          /\ Moved(slot, SwapSlotFor(slot))
          /\ GoesTo(IF op.kind = "swap" THEN "write" ELSE "disable")
          /\ UNCHANGED faults
       \/ /\ IF CanMove(slot, SwapSlotFor(slot)) THEN Fault ELSE UNCHANGED faults
          /\ IF op.kind = "swap" THEN GoesTo("relink") ELSE Over
          /\ UNCHANGED folders
    /\ UNCHANGED <<link, sidecar, journal, restoring, ghosts>>

\* QuarantineInto writes the record first; a write that fails may have emptied it.
WriteTheRecord ==
    /\ op # None /\ op.at = "write" /\ holds[SlotOf(op.loser)] = None
    /\ \/ /\ sidecar' = [sidecar EXCEPT ![SlotOf(op.loser)] = op.loser]
          /\ GoesTo("move") /\ UNCHANGED faults
       \/ /\ Fault
          /\ \E text \in {sidecar[SlotOf(op.loser)], None} :
               sidecar' = [sidecar EXCEPT ![SlotOf(op.loser)] = text]
          /\ GoesTo(BackOut)
    /\ UNCHANGED <<folders, link, journal, restoring, ghosts>>

IsQuarantinedAndRecordedBackwards ==
    /\ journal' = [journal EXCEPT ![SlotOf(op.loser)] = SlotOf(op.loser)]
    /\ IF op.kind = "keepProvenance" THEN Over ELSE GoesTo("arrive")

\* The quarantine is over and recorded: only keeping the provenance ends here.
IsQuarantined ==
    /\ journal' = [journal EXCEPT ![SlotOf(op.loser)] = op.loser]
    /\ IF op.kind = "keepProvenance" THEN Over ELSE GoesTo("arrive")

MoveToTheQuarantine ==
    /\ op # None /\ op.at = "move" /\ CanMove(op.loser, SlotOf(op.loser))
    /\ Moved(op.loser, SlotOf(op.loser))
    /\ IsQuarantined
    /\ UNCHANGED <<link, sidecar, restoring, known, discarded, faults>>

\* Another volume: copied, verified and placed, then the loser is removed.
CopyToTheQuarantine ==
    /\ op # None /\ op.at = "move" /\ ~CanMove(op.loser, SlotOf(op.loser))
    /\ holds' = [holds EXCEPT ![SlotOf(op.loser)] = holds[op.loser]]
    /\ half' = half \cup (IF op.loser \in half THEN {SlotOf(op.loser)} ELSE {})
    /\ came' = [came EXCEPT ![SlotOf(op.loser)] = op.loser]
    /\ GoesTo("empty")
    /\ UNCHANGED <<link, sidecar, journal, restoring, known, discarded, faults>>

RemoveTheLoser ==
    /\ op # None /\ op.at = "empty"
    /\ holds' = [holds EXCEPT ![op.loser] = None] /\ half' = half \ {op.loser}
    /\ IsQuarantined
    /\ UNCHANGED <<came, link, sidecar, restoring, known, discarded, faults>>

QuarantineFails ==
    /\ op # None /\ op.at \in {"move", "empty"}
    /\ Fault
    /\ half' \in {half} \cup (IF op.at = "empty" THEN {half \cup {op.loser}} ELSE {})
    /\ GoesTo("unrecord")
    /\ UNCHANGED <<holds, came, link, sidecar, journal, restoring, ghosts>>

RemoveTheRecord ==
    /\ op # None /\ op.at = "unrecord"
    /\ \/ sidecar' = [sidecar EXCEPT ![SlotOf(op.loser)] = None] /\ UNCHANGED faults
       \/ Fault /\ UNCHANGED sidecar
    /\ GoesTo(BackOut)
    /\ UNCHANGED <<folders, link, journal, restoring, ghosts>>

\* PutTheEarlierCopyBack, and the item of a swap that could not go on.
MakeNoRoom ==
    LET slot == SlotOf(op.loser) IN
    /\ op # None /\ op.at = "unaside"
    /\ \/ /\ CanMove(SwapSlotFor(slot), slot)
          /\ Moved(SwapSlotFor(slot), slot)
          /\ GoesTo("putRecord") /\ UNCHANGED faults
       \/ /\ IF CanMove(SwapSlotFor(slot), slot) THEN Fault ELSE UNCHANGED faults
          /\ IF op.kind = "swap" THEN GoesTo("relink") ELSE Over
          /\ UNCHANGED folders
    /\ UNCHANGED <<link, sidecar, journal, restoring, ghosts>>

PutNoRecordBack ==
    /\ op # None /\ op.at = "putRecord"
    /\ IF op.kind = "swap" THEN GoesTo("relink") ELSE Over
    /\ UNCHANGED <<disk, restoring, ghosts, faults>>

PutTheRecordBack ==
    LET slot == SlotOf(op.loser) IN
    /\ op # None /\ op.at = "putRecord"
    /\ \/ sidecar' = [sidecar EXCEPT ![slot] = op.record] /\ UNCHANGED faults
       \/ /\ Fault
          /\ \E text \in {sidecar[slot], None} : sidecar' = [sidecar EXCEPT ![slot] = text]
    /\ IF op.kind = "swap" THEN GoesTo("relink") ELSE Over
    /\ UNCHANGED <<folders, link, journal, restoring, ghosts>>

-----------------------------------------------------------------------------
(* The other copy takes the loser's place. *)

Lands == op' = [op EXCEPT !.landed = TRUE, !.at = "relink"]

\* TheWinnerTakesTheirPlaces: a link stands in for the loser.
StandIn ==
    /\ op # None /\ op.at = "arrive" /\ op.kind = "keepLibrary"
    /\ \/ link' = [link EXCEPT ![op.loser] = op.winner] /\ Lands /\ UNCHANGED faults
       \/ Fault /\ GoesTo("relink") /\ UNCHANGED link
    /\ UNCHANGED <<folders, sidecar, journal, restoring, ghosts>>

\* TakeBackWhatWasReplaced: ImportEngine::Import of the provenance, which may stop
\* before the copy is in place, before the original is gone or before the link.
ImportTheProvenance ==
    /\ op # None /\ op.at = "arrive" /\ op.kind = "takeBack"
    /\ \/ /\ Moved(op.winner, op.goal)
          /\ \/ link' = [link EXCEPT ![op.winner] = op.goal] /\ Lands /\ UNCHANGED faults
             \/ Fault /\ GoesTo("relink") /\ UNCHANGED link
       \/ /\ Fault
          /\ holds' = [holds EXCEPT ![op.goal] = holds[op.winner]]
          /\ half' \in {half, half \cup {op.winner}}
          /\ GoesTo("relink") /\ UNCHANGED <<came, link>>
       \/ Fault /\ GoesTo("restore") /\ UNCHANGED <<folders, link>>
    /\ UNCHANGED <<sidecar, journal, restoring, ghosts>>

MoveTheNewcomerInOrNot ==
    /\ op # None /\ op.at = "arrive" /\ op.kind = "admit"
    /\ \/ Moved("staged", op.goal) /\ UNCHANGED faults
       \/ Fault /\ UNCHANGED folders
    /\ Lands
    /\ UNCHANGED <<link, sidecar, journal, restoring, ghosts>>

\* ExchangeTheFolders
MoveTheNewcomerIn ==
    /\ op # None /\ op.at = "arrive" /\ op.kind = "admit"
    /\ \/ Moved("staged", op.goal) /\ Lands /\ UNCHANGED faults
       \/ Fault /\ GoesTo("restore") /\ UNCHANGED folders
    /\ UNCHANGED <<link, sidecar, journal, restoring, ghosts>>

\* The newcomer did not make it: RestoreOne on the loser.
RestoreTheLoser ==
    LET slot == SlotOf(op.loser) IN
    /\ op # None /\ op.at = "restore"
    /\ \/ /\ Moved(slot, op.loser)
          /\ \/ sidecar' = [sidecar EXCEPT ![slot] = None] /\ UNCHANGED faults
             \/ Fault /\ UNCHANGED sidecar
       \/ Fault /\ UNCHANGED <<folders, sidecar>>
    /\ GoesTo("relink")
    /\ UNCHANGED <<link, journal, restoring, ghosts>>

\* RestoreOne and PutTheItemBack: a link at the origin goes, then the item moves;
\* ForgetTheOriginOf may fail silently.
PutBack(item, origin) ==
    /\ CanMove(item, origin)
    /\ Moved(item, origin)
    /\ link' = WithoutLinks({origin})
    /\ \/ /\ sidecar' = [s \in Slot |-> IF s = item THEN None ELSE sidecar[s]]
          /\ UNCHANGED faults
       \/ item \in Slot /\ Fault /\ UNCHANGED sidecar

StaysBehind(item, origin) ==
    /\ IF CanMove(item, origin) THEN Fault ELSE UNCHANGED faults
    /\ link' \in {link, WithoutLinks({origin})}
    /\ UNCHANGED <<folders, sidecar>>

\* TheItemComesBack: if it does not, it stays where it is and nothing is undone.
ItemComesBack ==
    LET item == IF op.aside THEN SwapSlotFor(SlotOf(op.loser)) ELSE op.winner IN
    /\ op # None /\ op.at = "arrive" /\ op.kind = "swap"
    /\ \/ PutBack(item, op.goal) /\ Lands
       \/ StaysBehind(item, op.goal) /\ Over
    /\ UNCHANGED <<journal, restoring, ghosts>>

\* The folder the links of an operation belong to when it ends.
Heir(after) == IF op.kind = "keepLibrary" /\ after[op.loser] = None THEN op.goal ELSE op.loser

RelinkOnlyWhatLanded ==
    /\ op # None /\ op.at = "relink"
    /\ link' = [l \in LinkPlace |-> IF op.landed /\ l \in op.places THEN Heir(holds) ELSE link[l]]
    /\ IF op.kind = "admit" /\ op.aside THEN GoesTo(IF op.landed THEN "drop" ELSE "unaside") ELSE Over
    /\ UNCHANGED <<folders, sidecar, journal, restoring, ghosts, faults>>

\* PutTheLinksBack and LinkTheFolderAt: onto whatever now stands where the loser
\* stood, or onto the winner of a conflict whose loser has gone.
Relink ==
    LET free == {l \in op.places : link[l] = None /\ holds[Heir(holds)] # None} IN
    /\ op # None /\ op.at = "relink"
    /\ \E S \in SUBSET free :
         /\ link' = [l \in LinkPlace |-> IF l \in S THEN Heir(holds) ELSE link[l]]
         /\ IF S = free THEN UNCHANGED faults ELSE Fault
         /\ op' = IF op.kind = "admit" /\ op.aside
                  THEN [op EXCEPT !.cut = free \ S, !.at = IF op.landed THEN "drop" ELSE "unaside"]
                  ELSE None
    /\ UNCHANGED <<folders, sidecar, journal, restoring, ghosts>>

\* The newcomer is in: the earlier copy is discarded from the swap slot.
DropTheEarlierCopy ==
    LET slot == SwapSlotFor(SlotOf(op.loser)) IN
    /\ op # None /\ op.at = "drop"
    /\ discarded' = discarded \cup {holds[slot]}
    /\ \/ Removed(slot) /\ UNCHANGED faults
       \/ Fault /\ half' = half \cup {slot} /\ UNCHANGED <<holds, came>>
    /\ Over
    /\ UNCHANGED <<link, sidecar, journal, restoring, known>>

-----------------------------------------------------------------------------
(* What the quarantine holds. *)

\* CheckRestore checks every item before the first of them moves.
Restore(items) ==
    /\ Idle /\ items # {} /\ \A i \in items : holds[i] # None
    /\ \E origin \in [items -> Place] :
         /\ \A i \in items : origin[i] \in OriginsOf(i)
         /\ restoring' = {[item |-> i, origin |-> origin[i]] : i \in {j \in items : Taken(origin[j]) = {}}}
    /\ UNCHANGED <<disk, op, ghosts, faults>>

RestoreOne(r) ==
    /\ r \in restoring
    /\ PutBack(r.item, r.origin) \/ StaysBehind(r.item, r.origin)
    /\ restoring' = restoring \ {r}
    /\ UNCHANGED <<journal, op, ghosts>>

Discard(item) ==
    /\ Idle /\ holds[item] # None
    /\ discarded' = discarded \cup {holds[item]}
    /\ \/ /\ Removed(item)
          /\ sidecar' = [s \in Slot |-> IF s = item THEN None ELSE sidecar[s]]
          /\ UNCHANGED faults
       \/ Fault /\ half' = half \cup {item} /\ UNCHANGED <<holds, came, sidecar>>
    /\ UNCHANGED <<link, journal, op, restoring, known>>

\* The process dies; what it had on disk stays.
Crash ==
    /\ ~Idle /\ Fault
    /\ op' = None /\ restoring' = {}
    /\ UNCHANGED <<disk, ghosts>>

-----------------------------------------------------------------------------
Next ==
    \/ \E c \in Copy, w \in Where : Appears(c, w)
    \/ \E p \in Place : Enable(p)
    \/ \E kind \in {"keepLibrary", "keepProvenance", "takeBack"}, p \in {"entry", "vendor"}, c \in Category :
         ResolveConflict(kind, p, c)
    \/ \E c \in Category : Admit(c) \/ AdmitIntoTheFreePlace(c)
    \/ \E i \in Held : Discard(i) \/ \E p \in Place : Swap(i, p)
    \/ \E I \in SUBSET Held : Restore(I)
    \/ \E r \in restoring : RestoreOne(r)
    \/ TakeTheLinksDown \/ ALinkStaysUp \/ SetAside \/ WriteTheRecord
    \/ MoveToTheQuarantine \/ CopyToTheQuarantine \/ RemoveTheLoser \/ QuarantineFails
    \/ RemoveTheRecord \/ MakeNoRoom \/ PutTheRecordBack
    \/ StandIn \/ ImportTheProvenance \/ MoveTheNewcomerIn \/ RestoreTheLoser \/ ItemComesBack
    \/ Relink \/ DropTheEarlierCopy \/ Crash

Spec == Init /\ [][Next]_vars

-----------------------------------------------------------------------------
(* Properties *)

\* Whatever fails or crashes, a copy the user has not agreed to discard is whole
\* somewhere (QuarantineInto, ExchangeTheFolders, Swap, RestoreOne).
NoCopyIsLost ==
    \A c \in known \ discarded : \E w \in Where : holds[w] = c /\ w \notin half

\* No link of a destination leads to a folder that has gone to the quarantine,
\* come back from it or been replaced (DisableEveryLink, PutTheItemBack).
LinksLeadSomewhere ==
    \A l \in {"entry", "other"} : link[l] # None => holds[link[l]] # None

\* A single failure, or a crash, never takes from an item of the quarantine the
\* record of where it came from, nor leaves it that of another; but for a folder
\* of another volume the original of which could not be removed (QuarantineInto,
\* PutTheRecordBack).
TheRecordStaysWithIt ==
    faults < 2 /\ op = None =>
        \A s \in Slot : holds[s] # None =>
            \/ sidecar[s] = came[s]
            \/ sidecar[s] = None /\ came[s] = "vendor"

\* An operation that ends, however far it came, leaves each link it took down
\* leading to what it belongs to, unless that very link could not be put back
\* (PutTheLinksBack, TheWinnerTakesTheirPlaces, ExchangeAndRelink).
LinksComeBack ==
    [][op # None /\ op' = None /\ holds'[Heir(holds')] # None /\ faults' = faults
         => \A l \in op.places \ op.cut : link'[l] = Heir(holds')]_vars

\* The earlier copy is discarded only once the newcomer has its place (Admit).
DiscardedOnlyForTheNewcomer ==
    [][discarded' # discarded /\ op # None => holds[op.goal] # None /\ holds["staged"] = None]_vars
=============================================================================
