------------------------- MODULE ImportPlacesProofs -------------------------
(***************************************************************************)
(* That links lead to whole addons, that another program can get its folder*)
(* back, that a half copy beside its folder is listed and that an import   *)
(* reported as completed is complete, for every set of requests and places.*)
(*                                                                         *)
(* All four rest on where a folder can be: whichever step of an import, a  *)
(* give back or a recovery failed, its tree, the links to it, its stagings *)
(* and the records of it stand at its own place and at no other.           *)
(***************************************************************************)
EXTENDS ImportEngineProofs

\* Where a folder goes, and whose folders the records of a place name.
TheirTargets ==
    /\ \A t \in Target : \A r \in {announced[t], sidecar[t], origins[t]} \ {"none"} :
         r \in External /\ TargetOf[r] = t
    /\ \A t \in Target : copied[t] # "none" => TargetOf[copied[t]] = t
    /\ \A t \in Target : library[t] \notin {"absent", "part"}
         => library[t] \in Request /\ TargetOf[library[t]] = t
    /\ at \in InHand => lib = TargetOf[req] /\ (giving => req \in External)
    /\ at \in {"removeSource", "link"} => req \notin External
    /\ at \in {"announce", "prepare", "moveAside", "standIn", "moveBack", "unlink", "relink", "dropAside"}
         => req \in External

\* A folder of the destination: in its entry, or in the library once it is not
\* whole there, and its entry is linked to nothing else.
OwnFolder(r) ==
    /\ outside[r] = "absent" /\ outsideLink[r] = "none" /\ aside[r] = "absent" /\ staging[r] = "absent"
    /\ entry[r] \in {r, "part", "absent"} /\ entryLink[r] \in {"none", TargetOf[r]}
    /\ (entry[r] # r \/ entryLink[r] = TargetOf[r]) => library[TargetOf[r]] = r

\* What can stand at the places of another program's folder.
TheirPlaces(r) ==
    /\ entry[r] = "absent" /\ entryLink[r] \in {"none", r, TargetOf[r]}
    /\ outside[r] \in {r, "part", "absent"} /\ aside[r] \in {r, "part", "absent"}
    /\ outsideLink[r] \in {"none", TargetOf[r]}
    /\ outsideLink[r] # "none" => outside[r] = "absent"

\* While its name is free, or a link leads there, the library has it whole.
TheLibraryHasIt(r) ==
    (entryLink[r] = TargetOf[r] \/ outside[r] = "absent") => library[TargetOf[r]] = r

\* A folder some files of which are gone is one whose entry leads to the library.
HalvesAreSuperseded(r) ==
    /\ outside[r] = "part" => entryLink[r] = TargetOf[r]
    /\ outside[r] = "absent" /\ aside[r] = "part" => entryLink[r] = TargetOf[r]

\* What a give back needs, or what undoing the swap needs.
TheWayBack(r) ==
    /\ outside[r] = "absent" /\ outsideLink[r] = "none" => aside[r] = r \/ origins[TargetOf[r]] = r
    /\ staging[r] # "absent" => library[TargetOf[r]] = r /\ origins[TargetOf[r]] = r

OwnFolders == \A r \in Request \ External : OwnFolder(r)
OthersPlaces == \A r \in External : TheirPlaces(r)
OthersInLibrary == \A r \in External : TheLibraryHasIt(r)
OthersHalves == \A r \in External : HalvesAreSuperseded(r)
OthersWayBack == \A r \in External : TheWayBack(r)

Importing == at \in InHand /\ ~giving
GivingBack == at \in InHand /\ giving

\* What an import knows of the places of its folder, from one call to the next.
ImportsGoByTheirSteps ==
    /\ Importing /\ req \in External /\ at \notin {"relink", "dropAside"} => entryLink[req] = req
    /\ Importing /\ req \in External
         /\ at \in {"announce", "copy", "copying", "record", "verify", "prepare", "place", "moveAside"}
         => outside[req] # "absent"
    /\ at \in {"removeSource", "link", "moveAside", "standIn", "moveBack", "unlink", "relink", "dropAside"}
         => library[lib] = req /\ staging[lib] = "absent"
    /\ at = "link" => entry[req] = "absent"
    /\ at \in {"standIn", "moveBack"} => outsideLink[req] = "none"
    /\ at \in {"standIn", "moveBack", "unlink", "relink"} => aside[req] = req /\ outside[req] = "absent"
    /\ at \in {"unlink", "relink", "dropAside"} => outsideLink[req] = lib
    /\ at = "relink" => entryLink[req] = "none"
    /\ at = "dropAside" => entryLink[req] = lib
    /\ Importing /\ req \in External
         /\ at \in {"place", "moveAside", "standIn", "moveBack", "unlink", "relink", "dropAside"}
         => sidecar[lib] = req

\* What a give back knows of them.
GiveBacksGoByTheirSteps ==
    /\ GivingBack => origins[lib] = req
    /\ GivingBack /\ at \in {"copy", "copying", "record", "verify", "clear", "place"}
         => outside[req] = "absent" /\ library[lib] = req
    /\ GivingBack /\ at = "place" => outsideLink[req] = "none"
    /\ at \in {"repoint", "dropLibrary", "forget"}
         => outside[req] = req /\ staging[req] = "absent" /\ outsideLink[req] = "none"
    /\ at = "repoint" => library[lib] = req /\ down \in {"none", req}
    /\ at = "dropLibrary" => library[lib] \in {req, "part"} /\ entryLink[req] # lib
    /\ at \in {"forget", "went"} => library[lib] = "absent"
    /\ at # "repoint" => down = "none"

\* A batch takes nothing to a place where something of it arrived.
TheBatch ==
    /\ (at \in {"idle", "went"} \/ giving) => arrived = {}
    /\ \A r \in arrived : TargetOf[r] \in occupied /\ library[TargetOf[r]] = r
    /\ Importing => \A r \in arrived : TargetOf[r] # lib

\* The invariant the four theorems rest on.
PInv ==
    /\ TheirTargets /\ OwnFolders
    /\ OthersPlaces /\ OthersInLibrary /\ OthersHalves /\ OthersWayBack
    /\ ImportsGoByTheirSteps /\ GiveBacksGoByTheirSteps
    /\ TheBatch /\ CompletedIsComplete

-----------------------------------------------------------------------------
\* The folder in hand goes to its own place, each step belongs to one of the two
\* operations, and only a folder of another program is given back.
HandIsInOrder ==
    at \in InHand =>
        /\ req \in Request /\ lib \in Target /\ lib = TargetOf[req] /\ lib \notin Request
        /\ Destination = IF giving THEN req ELSE lib
        /\ at \in {"clear", "repoint", "dropLibrary", "forget"} => giving
        /\ at \in {"announce", "prepare", "removeSource", "link", "moveAside", "standIn",
                   "moveBack", "unlink", "relink", "dropAside"} => ~giving
        /\ at \in {"removeSource", "link"} => req \notin External
        /\ giving \/ at \in {"announce", "prepare", "moveAside", "standIn", "moveBack", "unlink",
                             "relink", "dropAside"} => req \in External

\* The places of the disk hold what a place of their kind can hold.
DiskIsTyped ==
    /\ entry \in [Request -> Tree] /\ entryLink \in [Request -> Folder \cup {"none"}]
    /\ outside \in [Request -> Tree] /\ outsideLink \in [Request -> Target \cup {"none"}]
    /\ aside \in [Request -> Tree] /\ library \in [Target -> Tree] /\ staging \in [Folder -> Tree]

\* Both hold of every state the invariants allow.
LEMMA FolderInHand == IInv /\ PInv => HandIsInOrder /\ DiskIsTyped
<1> SUFFICES ASSUME IInv, PInv PROVE HandIsInOrder /\ DiskIsTyped
  OBVIOUS
<1>1. DiskIsTyped
  BY DEF IInv, TypeOK, DiskIsTyped
<1>2. HandIsInOrder
  BY ImportAssumption DEF HandIsInOrder, IInv, TypeOK, StepsBelong, PInv, TheirTargets, Destination
<1> QED
  BY <1>1, <1>2

\* The only staging a step touches is its destination's, or the one recovery is
\* asked to throw away.
LEMMA OnlyTheDestination ==
  ASSUME IInv, PInv, [Next]_vars, NEW f \in Folder, staging'[f] # staging[f]
  PROVE  \/ at \in {"copy", "copying", "verify", "prepare", "place", "clear"} /\ f = Destination
         \/ (f \in Target /\ Resume(f)) \/ DiscardStaging(f)
<1>0. staging \in [Folder -> Tree]
  BY DEF IInv, TypeOK
<1>1. ASSUME NEW t \in Target, Resume(t) PROVE f = t
  BY <1>0, <1>1 DEF Resume
<1>2. ASSUME NEW g \in Folder, DiscardStaging(g) PROVE f = g
  BY <1>0, <1>2 DEF DiscardStaging
<1>3. CASE at \in InHand
  <2>1. CASE UNCHANGED staging
    BY <2>1
  <2>2. CASE PlaceInLibrary
    BY <1>0, <1>3, <2>2 DEF PlaceInLibrary, Destination
  <2>3. CASE PlaceOutside
    BY <1>0, <1>3, <2>3 DEF PlaceOutside, Destination
  <2>4. CASE BeginCopy \/ CopyFails \/ CopyCompletes
    BY <1>0, <1>3, <2>4 DEF BeginCopy, CopyFails, CopyCompletes
  <2>5. CASE CopyIsCancelled \/ VerifyFails \/ VerifyIsCancelled \/ PrepareFails \/ ClearFails
    BY <1>0, <1>3, <2>5 DEF StagingIsRemoved, CopyIsCancelled, VerifyFails, VerifyIsCancelled,
         PrepareFails, ClearFails
  <2> QED BY <1>1, <1>2, <1>3, <2>1, <2>2, <2>3, <2>4, <2>5
        DEF Next, vars, disk, saved, hand, batch, GoesTo, Over, EmptyHanded, Arrives, StartImport,
            StopBatch, Adopt, AdoptWhatWentBack, Crash, Announce, RecordCopy, VerifyPasses,
            PlaceFails, RemoveSomeOfSource, RemoveSourceEnds, LinkEntry, StepFails, Prepare,
            MoveAside, StandIn, StandInFails, MoveBack, Unlink, Relink, DropSomeOfAside,
            DropAsideEnds, Clear, RepointOn, Repointed, DropSomeOfLibrary, DropLibraryEnds, Forget,
            TakeRequest, RefuseRequest, UndoSwap, StartGiveBack, RepointOff
<1>4. CASE at \notin InHand
  BY <1>1, <1>2, <1>4
     DEF Next, vars, disk, saved, hand, batch, GoesTo, Over, EmptyHanded, Arrives,
         StagingIsRemoved, InHand, StartImport, StopBatch, Adopt, AdoptWhatWentBack, Crash,
         Announce, BeginCopy, CopyFails, CopyIsCancelled, CopyCompletes, RecordCopy, VerifyPasses,
         VerifyFails, VerifyIsCancelled, PlaceFails, PlaceInLibrary, PlaceOutside,
         RemoveSomeOfSource, RemoveSourceEnds, LinkEntry, StepFails, Prepare, PrepareFails,
         MoveAside, StandIn, StandInFails, MoveBack, Unlink, Relink, DropSomeOfAside,
         DropAsideEnds, Clear, ClearFails, RepointOn, Repointed, DropSomeOfLibrary,
         DropLibraryEnds, Forget, TakeRequest, RefuseRequest, UndoSwap, StartGiveBack, RepointOff
<1> QED
  BY <1>3, <1>4

\* The journal, the records and the profile learn of a folder only at its place.
LEMMA TheirTargetsStep == IInv /\ PInv /\ [Next]_vars => TheirTargets'
<1> SUFFICES ASSUME IInv, PInv, [Next]_vars PROVE TheirTargets'
  OBVIOUS
<1> USE ImportAssumption DEF IInv, TypeOK, PInv, TheirTargets, InHand, Folder, Markers, GoesTo,
           Over, EmptyHanded, hand, disk, saved, batch
<1>1. CASE UNCHANGED <<announced, copied, origins, sidecar, library, at, hand>>
  BY <1>1
<1>2. CASE Adopt
  BY <1>2 DEF Adopt
<1>3. CASE Announce
  BY <1>3 DEF Announce
<1>4. CASE RecordCopy
  BY <1>4 DEF RecordCopy, Destination
<1>5. CASE Prepare
  BY <1>5 DEF Prepare
<1>6. CASE PrepareFails
  BY <1>6 DEF PrepareFails, StagingIsRemoved, Destination
<1>7. CASE DropSomeOfLibrary
  BY <1>7 DEF DropSomeOfLibrary
<1>8. CASE DropLibraryEnds
  BY <1>8 DEF DropLibraryEnds
<1>9. ASSUME NEW t \in Target, StartGiveBack(t) PROVE TheirTargets'
  BY <1>9 DEF StartGiveBack
<1>10. ASSUME NEW t \in Target, Resume(t) PROVE TheirTargets'
  BY <1>10 DEF Resume, LeftoverCanBeImported, CanBeResumed, LeftoverSource, LeftoverProgram,
       OfAnotherProgram, SourceIsAsRequested
<1>11. ASSUME NEW q \in Request, TakeRequest(q) PROVE TheirTargets'
  BY <1>11 DEF TakeRequest, SourceIsAsRequested
<1>12. CASE Forget
  BY <1>12 DEF Forget
<1>13. CASE AdoptWhatWentBack
  BY <1>13 DEF AdoptWhatWentBack
<1>14. CASE VerifyPasses
  BY <1>14 DEF VerifyPasses
<1>15. CASE PlaceInLibrary
  <2>1. library' = [library EXCEPT ![lib] = Bytes(req)] /\ ~giving
    BY <1>15, FolderInHand DEF PlaceInLibrary, StagingIsTheSource, Source, HandIsInOrder
  <2>2. Bytes(req) \in {"absent", "part"} \/ Bytes(req) = req
    BY FolderInHand, <1>15 DEF HandIsInOrder, PlaceInLibrary, Bytes, OwnFolders, OwnFolder,
         OthersPlaces, TheirPlaces
  <2>3. lib = TargetOf[req] /\ req \in Request
    BY FolderInHand, <1>15 DEF HandIsInOrder, PlaceInLibrary
  <2> QED
    BY <1>15, <2>1, <2>2, <2>3 DEF PlaceInLibrary
<1> QED BY SMTT(30), <1>1, <1>2, <1>3, <1>4, <1>5, <1>6, <1>7, <1>8, <1>9, <1>10, <1>11, <1>12, <1>13,
           <1>14, <1>15
     DEF Next, vars, disk, saved, hand, batch, GoesTo, Over, EmptyHanded, Arrives,
         StagingIsRemoved, StartImport, StopBatch, Crash, BeginCopy, CopyFails, CopyIsCancelled,
         CopyCompletes, VerifyFails, VerifyIsCancelled, PlaceFails, PlaceOutside,
         RemoveSomeOfSource, RemoveSourceEnds, LinkEntry, StepFails, MoveAside, StandIn,
         StandInFails, MoveBack, Unlink, Relink, DropSomeOfAside, DropAsideEnds, Clear,
         ClearFails, RepointOn, Repointed, RefuseRequest, UndoSwap, DiscardStaging, RepointOff

\* A folder of the destination leaves its entry only for its place in the library,
\* and it never leaves the library.
LEMMA OwnFoldersStep == IInv /\ PInv /\ [Next]_vars => OwnFolders'
<1> SUFFICES ASSUME IInv, PInv, [Next]_vars, NEW r \in Request \ External PROVE OwnFolder(r)'
  BY DEF OwnFolders
<1>r. OwnFolder(r) /\ TargetOf[r] \in Target /\ r \in Folder
  BY ImportAssumption DEF PInv, OwnFolders, Folder
<1>h. HandIsInOrder /\ DiskIsTyped
  BY FolderInHand
<1>m. /\ at \in {"removeSource", "link"} => library[lib] = req
      /\ at = "link" => entry[req] = "absent"
      /\ at = "dropLibrary" => library[lib] \in {req, "part"}
      /\ at = "repoint" => down \in {"none", req}
  BY DEF PInv, ImportsGoByTheirSteps, GiveBacksGoByTheirSteps
<1>o. staging'[r] # staging[r] => (at \in InHand /\ r = Destination) \/ r \in Target \/ DiscardStaging(r)
  BY OnlyTheDestination, <1>r DEF InHand
<1>q. ~DiscardStaging(r) /\ r \notin Target
  <2>1. \A t \in Target : origins[t] # r
    BY ImportAssumption DEF PInv, TheirTargets, Markers
  <2> QED
    BY ImportAssumption, <1>r, <2>1 DEF DiscardStaging, Listed, Resume, OwnFolder
<1>s. staging'[r] = "absent"
  BY <1>h, <1>o, <1>q, <1>r DEF OwnFolder, HandIsInOrder, InHand
<1> USE ImportAssumption, <1>r, <1>s, <1>h, <1>m DEF OwnFolder, InHand, Markers, HandIsInOrder,
           DiskIsTyped
<1>1. CASE UNCHANGED <<entry, entryLink, outside, outsideLink, aside, library>>
  BY <1>1
<1>2. CASE RemoveSomeOfSource
  BY <1>2 DEF RemoveSomeOfSource
<1>3. CASE RemoveSourceEnds
  BY <1>3 DEF RemoveSourceEnds
<1>4. CASE LinkEntry
  BY <1>4 DEF LinkEntry
<1>5. CASE MoveAside
  BY <1>5 DEF MoveAside
<1>6. CASE StandIn
  BY <1>6 DEF StandIn
<1>7. CASE MoveBack
  BY <1>7 DEF MoveBack
<1>8. CASE Unlink
  BY <1>8 DEF Unlink
<1>9. CASE Relink
  BY <1>9 DEF Relink
<1>10. CASE DropSomeOfAside
  BY <1>10 DEF DropSomeOfAside
<1>11. CASE DropAsideEnds
  BY <1>11 DEF DropAsideEnds
<1>12. CASE Clear
  BY <1>12 DEF Clear
<1>13. ASSUME NEW q \in Request, RepointOff(q) PROVE OwnFolder(r)'
  BY <1>13 DEF RepointOff
<1>14. CASE RepointOn
  BY <1>14 DEF RepointOn
<1>15. CASE DropSomeOfLibrary
  BY <1>15 DEF DropSomeOfLibrary
<1>16. CASE DropLibraryEnds
  BY <1>16 DEF DropLibraryEnds
<1>17. CASE PlaceInLibrary
  BY <1>17 DEF PlaceInLibrary
<1>18. CASE PlaceOutside
  BY <1>18 DEF PlaceOutside
<1>19. ASSUME NEW q \in Request, UndoSwap(q) PROVE OwnFolder(r)'
  BY <1>19 DEF UndoSwap
<1> QED BY <1>1, <1>2, <1>3, <1>4, <1>5, <1>6, <1>7, <1>8, <1>9, <1>10, <1>11, <1>12, <1>13,
           <1>14, <1>15, <1>16, <1>17, <1>18, <1>19
     DEF Next, vars, disk, saved, hand, batch, GoesTo, Over, EmptyHanded, Arrives,
         StagingIsRemoved, StartImport, StopBatch, Adopt, AdoptWhatWentBack, Crash, Announce,
         BeginCopy, CopyFails, CopyIsCancelled, CopyCompletes, RecordCopy, VerifyPasses,
         VerifyFails, VerifyIsCancelled, PlaceFails, StepFails, Prepare, PrepareFails,
         StandInFails, ClearFails, Repointed, Forget, TakeRequest, RefuseRequest, StartGiveBack,
         Resume, DiscardStaging

\* Each step moves another program's folder, or a link to it, from one of its
\* places to another.
LEMMA OthersPlacesStep == IInv /\ PInv /\ [Next]_vars => OthersPlaces'
<1> SUFFICES ASSUME IInv, PInv, [Next]_vars, NEW r \in External PROVE TheirPlaces(r)'
  BY DEF OthersPlaces
<1>r. TheirPlaces(r) /\ TargetOf[r] \in Target /\ r \in Request
  BY ImportAssumption DEF PInv, OthersPlaces
<1>h. HandIsInOrder /\ DiskIsTyped
  BY FolderInHand
<1>m. /\ ImportsGoByTheirSteps /\ GiveBacksGoByTheirSteps
      /\ at = "place" => staging[Destination] = Source
  BY DEF PInv, IInv, StagingIsTheSource
<1> USE ImportAssumption, <1>r, <1>h, <1>m DEF TheirPlaces, InHand, Markers, HandIsInOrder,
           DiskIsTyped
<1>1. CASE UNCHANGED <<entry, entryLink, outside, outsideLink, aside>>
  BY <1>1
<1>2. CASE RemoveSomeOfSource
  BY <1>2 DEF RemoveSomeOfSource
<1>3. CASE RemoveSourceEnds
  BY <1>3 DEF RemoveSourceEnds
<1>4. CASE LinkEntry
  BY <1>4 DEF LinkEntry
<1>5. CASE MoveAside
  BY <1>5 DEF MoveAside, ImportsGoByTheirSteps, Importing
<1>6. CASE StandIn
  BY <1>6 DEF StandIn, ImportsGoByTheirSteps
<1>7. CASE MoveBack
  BY <1>7 DEF MoveBack, ImportsGoByTheirSteps
<1>8. CASE Unlink
  BY <1>8 DEF Unlink
<1>9. CASE Relink
  BY <1>9 DEF Relink
<1>10. CASE DropSomeOfAside
  BY <1>10 DEF DropSomeOfAside
<1>11. CASE DropAsideEnds
  BY <1>11 DEF DropAsideEnds
<1>12. CASE Clear
  BY <1>12 DEF Clear
<1>13. ASSUME NEW q \in Request, RepointOff(q) PROVE TheirPlaces(r)'
  BY <1>13 DEF RepointOff
<1>14. CASE RepointOn
  BY <1>14 DEF RepointOn, GiveBacksGoByTheirSteps
<1>15. CASE PlaceOutside
  BY <1>15 DEF PlaceOutside, GiveBacksGoByTheirSteps, GivingBack, Source
<1>16. ASSUME NEW q \in Request, UndoSwap(q) PROVE TheirPlaces(r)'
  BY <1>16 DEF UndoSwap, Interrupted
<1> QED BY <1>1, <1>2, <1>3, <1>4, <1>5, <1>6, <1>7, <1>8, <1>9, <1>10, <1>11, <1>12, <1>13,
           <1>14, <1>15, <1>16
     DEF Next, vars, disk, saved, hand, batch, GoesTo, Over, EmptyHanded, Arrives,
         StagingIsRemoved, StartImport, StopBatch, Adopt, AdoptWhatWentBack, Crash, Announce,
         BeginCopy, CopyFails, CopyIsCancelled, CopyCompletes, RecordCopy, VerifyPasses,
         VerifyFails, VerifyIsCancelled, PlaceFails, PlaceInLibrary, StepFails, Prepare,
         PrepareFails, StandInFails, ClearFails, Repointed, DropSomeOfLibrary, DropLibraryEnds,
         Forget, TakeRequest, RefuseRequest, StartGiveBack, Resume, DiscardStaging

\* Nothing leads to the library, and the name outside is not freed, before the
\* library has the folder whole, and the library lets go of it last.
LEMMA OthersInLibraryStep == IInv /\ PInv /\ [Next]_vars => OthersInLibrary'
<1> SUFFICES ASSUME IInv, PInv, [Next]_vars, NEW r \in External PROVE TheLibraryHasIt(r)'
  BY DEF OthersInLibrary
<1>r. TheLibraryHasIt(r) /\ TheirPlaces(r) /\ TargetOf[r] \in Target /\ r \in Request
  BY ImportAssumption DEF PInv, OthersInLibrary, OthersPlaces
<1>h. HandIsInOrder /\ DiskIsTyped
  BY FolderInHand
<1>m. ImportsGoByTheirSteps /\ GiveBacksGoByTheirSteps
  BY DEF PInv
<1> USE ImportAssumption, <1>r, <1>h, <1>m DEF TheLibraryHasIt, InHand, Markers, HandIsInOrder,
           DiskIsTyped
<1>1. CASE UNCHANGED <<entryLink, outside, library>>
  BY <1>1
<1>2. CASE LinkEntry
  BY <1>2 DEF LinkEntry
<1>3. CASE MoveAside
  BY <1>3 DEF MoveAside, ImportsGoByTheirSteps
<1>4. CASE MoveBack
  BY <1>4 DEF MoveBack
<1>5. CASE Unlink
  BY <1>5 DEF Unlink
<1>6. CASE Relink
  BY <1>6 DEF Relink, ImportsGoByTheirSteps
<1>7. ASSUME NEW q \in Request, RepointOff(q) PROVE TheLibraryHasIt(r)'
  BY <1>7 DEF RepointOff
<1>8. CASE RepointOn
  BY <1>8 DEF RepointOn, GiveBacksGoByTheirSteps
<1>9. CASE PlaceInLibrary
  BY <1>9 DEF PlaceInLibrary
<1>10. CASE PlaceOutside
  BY <1>10 DEF PlaceOutside, GiveBacksGoByTheirSteps, GivingBack, Source
<1>11. ASSUME NEW q \in Request, UndoSwap(q) PROVE TheLibraryHasIt(r)'
  BY <1>11 DEF UndoSwap, Interrupted
<1>12. CASE DropSomeOfLibrary
  BY <1>12 DEF DropSomeOfLibrary, GiveBacksGoByTheirSteps
<1>13. CASE DropLibraryEnds
  BY <1>13 DEF DropLibraryEnds, GiveBacksGoByTheirSteps
<1> QED BY <1>1, <1>2, <1>3, <1>4, <1>5, <1>6, <1>7, <1>8, <1>9, <1>10, <1>11, <1>12, <1>13
     DEF Next, vars, disk, saved, hand, batch, GoesTo, Over, EmptyHanded, Arrives,
         StagingIsRemoved, StartImport, StopBatch, Adopt, AdoptWhatWentBack, Crash, Announce,
         BeginCopy, CopyFails, CopyIsCancelled, CopyCompletes, RecordCopy, VerifyPasses,
         VerifyFails, VerifyIsCancelled, PlaceFails, RemoveSomeOfSource, RemoveSourceEnds,
         StepFails, Prepare, PrepareFails, StandIn, StandInFails, DropSomeOfAside, DropAsideEnds,
         Clear, ClearFails, Repointed, Forget, TakeRequest, RefuseRequest, StartGiveBack, Resume,
         DiscardStaging

\* Files of another program's folder are removed only once its entry leads to the
\* library, and the entry is led elsewhere only when the folder is whole again.
LEMMA OthersHalvesStep == IInv /\ PInv /\ [Next]_vars => OthersHalves'
<1> SUFFICES ASSUME IInv, PInv, [Next]_vars, NEW r \in External PROVE HalvesAreSuperseded(r)'
  BY DEF OthersHalves
<1>r. HalvesAreSuperseded(r) /\ TheirPlaces(r) /\ TargetOf[r] \in Target /\ r \in Request
  BY ImportAssumption DEF PInv, OthersHalves, OthersPlaces
<1>h. HandIsInOrder /\ DiskIsTyped
  BY FolderInHand
<1>m. /\ ImportsGoByTheirSteps /\ GiveBacksGoByTheirSteps
      /\ at = "place" => staging[Destination] = Source
  BY DEF PInv, IInv, StagingIsTheSource
<1> USE ImportAssumption, <1>r, <1>h, <1>m DEF HalvesAreSuperseded, InHand, Markers, HandIsInOrder,
           DiskIsTyped
<1>1. CASE UNCHANGED <<entryLink, outside, aside>>
  BY <1>1
<1>2. CASE LinkEntry
  BY <1>2 DEF LinkEntry
<1>3. CASE MoveAside
  BY <1>3 DEF MoveAside, ImportsGoByTheirSteps, Importing, TheirPlaces
<1>4. CASE MoveBack
  BY <1>4 DEF MoveBack, ImportsGoByTheirSteps
<1>5. CASE Unlink
  BY <1>5 DEF Unlink, ImportsGoByTheirSteps
<1>6. CASE Relink
  BY <1>6 DEF Relink, ImportsGoByTheirSteps
<1>7. CASE DropSomeOfAside
  BY <1>7 DEF DropSomeOfAside, ImportsGoByTheirSteps
<1>8. CASE DropAsideEnds
  BY <1>8 DEF DropAsideEnds
<1>9. ASSUME NEW q \in Request, RepointOff(q) PROVE HalvesAreSuperseded(r)'
  <2>1. library[lib] = req /\ outside[req] = req
    BY <1>9 DEF RepointOff, GiveBacksGoByTheirSteps
  <2>2. entryLink[r] = lib => r = req
    BY <2>1, <1>9 DEF RepointOff, PInv, OthersInLibrary, TheLibraryHasIt, TheirPlaces
  <2>3. outside[r] \in {"part", "absent"} => entryLink'[r] = entryLink[r]
    BY <2>1, <2>2, <1>9 DEF RepointOff
  <2> QED
    BY <1>9, <2>3 DEF RepointOff
<1>10. CASE RepointOn
  BY <1>10 DEF RepointOn, GiveBacksGoByTheirSteps
<1>11. CASE PlaceOutside
  BY <1>11 DEF PlaceOutside, GiveBacksGoByTheirSteps, GivingBack, Source
<1>12. ASSUME NEW q \in Request, UndoSwap(q) PROVE HalvesAreSuperseded(r)'
  BY <1>12 DEF UndoSwap, Interrupted
<1> QED BY <1>1, <1>2, <1>3, <1>4, <1>5, <1>6, <1>7, <1>8, <1>9, <1>10, <1>11, <1>12
     DEF Next, vars, disk, saved, hand, batch, GoesTo, Over, EmptyHanded, Arrives,
         StagingIsRemoved, StartImport, StopBatch, Adopt, AdoptWhatWentBack, Crash, Announce,
         BeginCopy, CopyFails, CopyIsCancelled, CopyCompletes, RecordCopy, VerifyPasses,
         VerifyFails, VerifyIsCancelled, PlaceFails, PlaceInLibrary, RemoveSomeOfSource,
         RemoveSourceEnds, StepFails, Prepare, PrepareFails, StandIn, StandInFails, Clear,
         ClearFails, Repointed, DropSomeOfLibrary, DropLibraryEnds, Forget, TakeRequest,
         RefuseRequest, StartGiveBack, Resume, DiscardStaging

\* The profile forgets whose folder a place holds only when it is whole under its
\* own name again.
LEMMA OthersWayBackStep == IInv /\ PInv /\ [Next]_vars => OthersWayBack'
<1> SUFFICES ASSUME IInv, PInv, [Next]_vars, NEW r \in External PROVE TheWayBack(r)'
  BY DEF OthersWayBack
<1>r. /\ TheWayBack(r) /\ TheirPlaces(r) /\ TheLibraryHasIt(r)
      /\ TargetOf[r] \in Target /\ r \in Request /\ r \in Folder
  BY ImportAssumption DEF PInv, OthersWayBack, OthersPlaces, OthersInLibrary, Folder
<1>h. HandIsInOrder /\ DiskIsTyped
  BY FolderInHand
<1>m. /\ ImportsGoByTheirSteps /\ GiveBacksGoByTheirSteps
      /\ origins \in [Target -> Request \cup {"none"}]
  BY DEF PInv, IInv, TypeOK
<1>o. staging'[r] # staging[r] => \/ at \in {"copy", "copying", "verify", "clear", "place"} /\ giving /\ r = req
                                  \/ DiscardStaging(r)
  BY OnlyTheDestination, ImportAssumption, <1>r, <1>h DEF InHand, HandIsInOrder
<1>q. staging'[r] # "absent" => library[TargetOf[r]] = r /\ origins[TargetOf[r]] = r
  BY <1>o, <1>r, <1>m, <1>h DEF HandIsInOrder, DiscardStaging, Listed, TheWayBack,
       GiveBacksGoByTheirSteps, GivingBack, InHand
<1> USE ImportAssumption, <1>r, <1>h, <1>m, <1>q DEF TheWayBack, InHand, Markers, HandIsInOrder,
           DiskIsTyped, disk, saved
<1>1. CASE UNCHANGED <<outside, outsideLink, aside, library, origins>>
  BY <1>1
<1>2. CASE Adopt
  <2> DEFINE Here == {q \in arrived \cap External : TargetOf[q] = TargetOf[r]}
  <2>1. origins'[TargetOf[r]] = IF Here # {} THEN CHOOSE q \in arrived \cap External : TargetOf[q] = TargetOf[r]
                                ELSE origins[TargetOf[r]]
    BY <1>2 DEF Adopt
  <2>2. CASE library[TargetOf[r]] = r
    <3>1. \A q \in Here : q = r
      BY <2>2 DEF PInv, TheBatch
    <3> HIDE DEF Here
    <3>2. Here # {} => (CHOOSE q \in arrived \cap External : TargetOf[q] = TargetOf[r]) \in Here
      BY DEF Here
    <3>3. origins'[TargetOf[r]] \in {r, origins[TargetOf[r]]}
      BY <2>1, <3>1, <3>2
    <3> QED
      BY <1>2, <3>3 DEF Adopt
  <2>3. CASE library[TargetOf[r]] # r
    BY <1>2, <2>3 DEF Adopt, TheLibraryHasIt
  <2> QED
    BY <2>2, <2>3
<1>3. CASE AdoptWhatWentBack
  <2>1. library[lib] = "absent" /\ lib \in Target
    BY <1>3 DEF AdoptWhatWentBack, GiveBacksGoByTheirSteps, IInv, TypeOK
  <2>2. CASE TargetOf[r] = lib
    BY <1>3, <2>1, <2>2 DEF AdoptWhatWentBack, TheLibraryHasIt
  <2>3. CASE TargetOf[r] # lib
    BY <1>3, <2>1, <2>3 DEF AdoptWhatWentBack
  <2> QED
    BY <2>2, <2>3
<1>4. CASE MoveAside
  BY <1>4 DEF MoveAside, ImportsGoByTheirSteps, Importing, PInv, OthersHalves, HalvesAreSuperseded,
       TheirPlaces
<1>5. CASE StandIn
  BY <1>5 DEF StandIn
<1>6. CASE MoveBack
  BY <1>6 DEF MoveBack, ImportsGoByTheirSteps
<1>7. CASE DropSomeOfAside
  BY <1>7 DEF DropSomeOfAside, ImportsGoByTheirSteps
<1>8. CASE DropAsideEnds
  BY <1>8 DEF DropAsideEnds, ImportsGoByTheirSteps
<1>9. CASE Clear
  BY <1>9 DEF Clear, GiveBacksGoByTheirSteps, GivingBack
<1>10. CASE PlaceInLibrary
  BY <1>10 DEF PlaceInLibrary
<1>11. CASE PlaceOutside
  BY <1>11 DEF PlaceOutside
<1>12. ASSUME NEW q \in Request, UndoSwap(q) PROVE TheWayBack(r)'
  BY <1>12 DEF UndoSwap, Interrupted
<1>13. CASE DropSomeOfLibrary
  BY <1>13 DEF DropSomeOfLibrary, GiveBacksGoByTheirSteps
<1>14. CASE DropLibraryEnds
  BY <1>14 DEF DropLibraryEnds, GiveBacksGoByTheirSteps
<1> QED BY <1>1, <1>2, <1>3, <1>4, <1>5, <1>6, <1>7, <1>8, <1>9, <1>10, <1>11, <1>12, <1>13, <1>14
     DEF Next, vars, disk, saved, hand, batch, GoesTo, Over, EmptyHanded, Arrives,
         StagingIsRemoved, StartImport, StopBatch, Crash, Announce, BeginCopy, CopyFails,
         CopyIsCancelled, CopyCompletes, RecordCopy, VerifyPasses, VerifyFails, VerifyIsCancelled,
         PlaceFails, RemoveSomeOfSource, RemoveSourceEnds, LinkEntry, StepFails, Prepare,
         PrepareFails, StandInFails, Unlink, Relink, ClearFails, RepointOn, Repointed, Forget,
         TakeRequest, RefuseRequest, StartGiveBack, Resume, DiscardStaging, RepointOff

\* Each call of an import leaves what the next one counts on.
LEMMA ImportsGoByTheirStepsStep == IInv /\ PInv /\ [Next]_vars => ImportsGoByTheirSteps'
<1> SUFFICES ASSUME IInv, PInv, [Next]_vars PROVE ImportsGoByTheirSteps'
  OBVIOUS
<1>h. HandIsInOrder /\ DiskIsTyped
  BY FolderInHand
<1>r. at \in InHand => /\ req \notin External => OwnFolder(req)
                       /\ req \in External => /\ TheirPlaces(req) /\ TheLibraryHasIt(req)
                                            /\ TheWayBack(req) /\ HalvesAreSuperseded(req)
  BY <1>h DEF HandIsInOrder, PInv, OwnFolders, OthersPlaces, OthersInLibrary, OthersWayBack,
       OthersHalves
<1>t. TypeOK /\ StagingIsTheSource
  BY DEF IInv
<1>m. PInv /\ TheirTargets /\ ImportsGoByTheirSteps
  BY DEF PInv
<1> USE ImportAssumption, <1>h, <1>r, <1>t, <1>m DEF TypeOK, ImportsGoByTheirSteps, Importing,
           GivingBack, InHand, Markers, HandIsInOrder, DiskIsTyped, Resting, Folder, GoesTo, Over,
           EmptyHanded, hand, disk, saved, batch
<1>1. CASE UNCHANGED vars
  BY <1>1 DEF vars
<1>2. ASSUME NEW q \in Request, TakeRequest(q) PROVE ImportsGoByTheirSteps'
  BY <1>2 DEF TakeRequest, SourceIsAsRequested
<1>3. ASSUME NEW t \in Target, Resume(t) PROVE ImportsGoByTheirSteps'
  BY <1>3 DEF Resume, LeftoverCanBeImported, CanBeResumed, LeftoverSource, LeftoverProgram,
       OfAnotherProgram, SourceIsAsRequested
<1>4. CASE Announce
  BY <1>4 DEF Announce
<1>5. CASE BeginCopy
  BY <1>5 DEF BeginCopy, Destination
<1>6. CASE CopyCompletes
  BY <1>6 DEF CopyCompletes, Destination, Source, Bytes
<1>7. CASE RecordCopy
  BY <1>7 DEF RecordCopy, Destination
<1>8. CASE VerifyPasses
  BY <1>8 DEF VerifyPasses
<1>9. CASE Prepare
  BY <1>9 DEF Prepare
<1>10. CASE PlaceInLibrary
  <2>1. library'[lib] = Bytes(req) /\ ~giving /\ staging'[lib] = "absent"
    BY <1>10 DEF PlaceInLibrary, StagingIsTheSource, Destination, Source
  <2>2. req \in External => outside[req] = req
    BY <1>10 DEF PlaceInLibrary, TheirPlaces, HalvesAreSuperseded
  <2>3. req \notin External => entry[req] = req
    BY <1>10 DEF PlaceInLibrary, OwnFolder
  <2>4. library'[lib] = req
    BY <2>1, <2>2, <2>3 DEF Bytes
  <2> QED
    BY <1>10, <2>1, <2>4 DEF PlaceInLibrary
<1>11. CASE RemoveSomeOfSource
  BY <1>11 DEF RemoveSomeOfSource
<1>12. CASE RemoveSourceEnds
  BY <1>12 DEF RemoveSourceEnds
<1>13. CASE MoveAside
  <2>1. outside[req] = req /\ req \in External
    BY <1>13 DEF MoveAside, TheirPlaces, HalvesAreSuperseded
  <2>2. outsideLink[req] = "none"
    BY <1>13, <2>1 DEF MoveAside, TheirPlaces
  <2>3. aside'[req] = req /\ outside'[req] = "absent"
    BY <1>13, <2>1 DEF MoveAside
  <2> QED
    BY <1>13, <2>1, <2>2, <2>3 DEF MoveAside
<1>14. CASE StandIn
  BY <1>14 DEF StandIn
<1>15. CASE StandInFails
  BY <1>15 DEF StandInFails
<1>16. CASE Unlink
  BY <1>16 DEF Unlink
<1>17. CASE Relink
  BY <1>17 DEF Relink
<1>18. CASE DropSomeOfAside
  BY <1>18 DEF DropSomeOfAside
<1> QED BY SMTT(30), <1>1, <1>2, <1>3, <1>4, <1>5, <1>6, <1>7, <1>8, <1>9, <1>10, <1>11, <1>12, <1>13,
           <1>14, <1>15, <1>16, <1>17, <1>18
     DEF Next, vars, disk, saved, hand, batch, GoesTo, Over, EmptyHanded, Arrives,
         StagingIsRemoved, StartImport, StopBatch, Adopt, AdoptWhatWentBack, Crash, CopyFails,
         CopyIsCancelled, VerifyFails, VerifyIsCancelled, PlaceFails, PlaceOutside, LinkEntry,
         StepFails, PrepareFails, MoveBack, DropAsideEnds, Clear, ClearFails, RepointOn,
         Repointed, DropSomeOfLibrary, DropLibraryEnds, Forget, RefuseRequest, UndoSwap,
         StartGiveBack, DiscardStaging, RepointOff

\* Each call of a give back leaves what the next one counts on.
LEMMA GiveBacksGoByTheirStepsStep == IInv /\ PInv /\ [Next]_vars => GiveBacksGoByTheirSteps'
<1> SUFFICES ASSUME IInv, PInv, [Next]_vars PROVE GiveBacksGoByTheirSteps'
  OBVIOUS
<1>h. HandIsInOrder /\ DiskIsTyped
  BY FolderInHand
<1>r. at \in InHand => /\ req \notin External => OwnFolder(req)
                       /\ req \in External => /\ TheirPlaces(req) /\ TheLibraryHasIt(req)
                                            /\ TheWayBack(req) /\ HalvesAreSuperseded(req)
  BY <1>h DEF HandIsInOrder, PInv, OwnFolders, OthersPlaces, OthersInLibrary, OthersWayBack,
       OthersHalves
<1>t. TypeOK /\ StagingIsTheSource
  BY DEF IInv
<1>m. PInv /\ TheirTargets /\ GiveBacksGoByTheirSteps
  BY DEF PInv
<1> USE ImportAssumption, <1>h, <1>r, <1>t, <1>m DEF TypeOK, GiveBacksGoByTheirSteps, Importing,
           GivingBack, InHand, Markers, HandIsInOrder, DiskIsTyped, Resting, Folder, GoesTo, Over,
           EmptyHanded, hand, disk, saved, batch
<1>1. CASE UNCHANGED vars
  BY <1>1 DEF vars
<1>2. ASSUME NEW t \in Target, StartGiveBack(t) PROVE GiveBacksGoByTheirSteps'
  <2>1. origins[t] \in External /\ TargetOf[origins[t]] = t
    BY <1>2 DEF StartGiveBack, TheirTargets
  <2>2. library[t] = origins[t]
    BY <1>2, <2>1 DEF StartGiveBack, PInv, OthersInLibrary, TheLibraryHasIt
  <2> QED
    BY <1>2, <2>1, <2>2 DEF StartGiveBack
<1>3. CASE BeginCopy
  BY <1>3 DEF BeginCopy, Destination
<1>4. CASE CopyCompletes
  BY <1>4 DEF CopyCompletes, Destination, Source, Bytes
<1>5. CASE RecordCopy
  BY <1>5 DEF RecordCopy, Destination
<1>6. CASE VerifyPasses
  BY <1>6 DEF VerifyPasses
<1>7. CASE Clear
  BY <1>7 DEF Clear
<1>8. CASE PlaceOutside
  <2>1. outside'[req] = req /\ staging'[req] = "absent" /\ library[lib] = req
    BY <1>8 DEF PlaceOutside, StagingIsTheSource, Destination, Source
  <2> QED
    BY <1>8, <2>1 DEF PlaceOutside
<1>9. ASSUME NEW q \in Request, RepointOff(q) PROVE GiveBacksGoByTheirSteps'
  <2>1. q \notin External => OwnFolder(q)
    BY DEF PInv, OwnFolders
  <2>2. q \in External => TheirPlaces(q) /\ TheLibraryHasIt(q)
    BY DEF PInv, OthersPlaces, OthersInLibrary
  <2>3. entryLink[q] = lib /\ at = "repoint" /\ library[lib] = req
    BY <1>9 DEF RepointOff
  <2>4. q = req
    BY <2>1, <2>2, <2>3 DEF OwnFolder, TheirPlaces, TheLibraryHasIt
  <2> QED
    BY <1>9, <2>4 DEF RepointOff
<1>10. CASE RepointOn
  BY <1>10 DEF RepointOn
<1>11. CASE Repointed
  BY <1>11 DEF Repointed
<1>12. CASE DropSomeOfLibrary
  BY <1>12 DEF DropSomeOfLibrary
<1>13. CASE DropLibraryEnds
  BY <1>13 DEF DropLibraryEnds
<1>14. CASE Forget
  BY <1>14 DEF Forget
<1> QED BY SMTT(30), <1>1, <1>2, <1>3, <1>4, <1>5, <1>6, <1>7, <1>8, <1>9, <1>10, <1>11, <1>12, <1>13, <1>14
     DEF Next, vars, disk, saved, hand, batch, GoesTo, Over, EmptyHanded, Arrives,
         StagingIsRemoved, StartImport, StopBatch, Adopt, AdoptWhatWentBack, Crash, Announce,
         CopyFails, CopyIsCancelled, VerifyFails, VerifyIsCancelled, PlaceFails, PlaceInLibrary,
         RemoveSomeOfSource, RemoveSourceEnds, LinkEntry, StepFails, Prepare, PrepareFails,
         MoveAside, StandIn, StandInFails, MoveBack, Unlink, Relink, DropSomeOfAside,
         DropAsideEnds, ClearFails, TakeRequest, RefuseRequest, UndoSwap, Resume, DiscardStaging

\* A request is taken only while its place is free, and arrives there.
LEMMA TheBatchStep == IInv /\ PInv /\ [Next]_vars => TheBatch'
<1> SUFFICES ASSUME IInv, PInv, [Next]_vars PROVE TheBatch'
  OBVIOUS
<1>h. HandIsInOrder /\ DiskIsTyped
  BY FolderInHand
<1>m. /\ TheBatch /\ TypeOK
      /\ at \in {"removeSource", "link", "moveAside", "standIn", "moveBack", "unlink", "relink", "dropAside"}
           => library[lib] = req
  BY DEF PInv, IInv, ImportsGoByTheirSteps
<1> USE ImportAssumption, <1>h, <1>m DEF TheBatch, TypeOK, Importing, InHand, Markers,
           HandIsInOrder, DiskIsTyped, Resting, GoesTo, Over, EmptyHanded, hand, disk, saved, batch
<1>1. CASE UNCHANGED <<at, giving, lib, library, occupied, arrived>>
  BY <1>1
<1>2. CASE StartImport
  BY <1>2 DEF StartImport
<1>3. CASE Adopt
  BY <1>3 DEF Adopt
<1>4. CASE AdoptWhatWentBack
  BY <1>4 DEF AdoptWhatWentBack
<1>5. CASE Crash
  BY <1>5 DEF Crash
<1>6. ASSUME NEW q \in Request, TakeRequest(q) PROVE TheBatch'
  BY <1>6 DEF TakeRequest
<1>7. ASSUME NEW q \in Request, RefuseRequest(q) PROVE TheBatch'
  BY <1>7 DEF RefuseRequest
<1>8. ASSUME NEW t \in Target, StartGiveBack(t) PROVE TheBatch'
  BY <1>8 DEF StartGiveBack
<1>9. ASSUME NEW t \in Target, Resume(t) PROVE TheBatch'
  BY <1>9 DEF Resume
<1>10. CASE PlaceInLibrary
  BY <1>10 DEF PlaceInLibrary
<1>11. CASE LinkEntry
  BY <1>11 DEF LinkEntry, Arrives
<1>12. CASE DropAsideEnds
  BY <1>12 DEF DropAsideEnds, Arrives
<1>13. CASE DropSomeOfLibrary
  BY <1>13 DEF DropSomeOfLibrary
<1>14. CASE DropLibraryEnds
  BY <1>14 DEF DropLibraryEnds
<1>15. CASE Forget
  BY <1>15 DEF Forget
<1> QED BY SMTT(30), <1>1, <1>2, <1>3, <1>4, <1>5, <1>6, <1>7, <1>8, <1>9, <1>10, <1>11, <1>12, <1>13,
           <1>14, <1>15
     DEF Next, vars, disk, saved, hand, batch, GoesTo, Over, EmptyHanded, Arrives,
         StagingIsRemoved, StopBatch, Announce, BeginCopy, CopyFails, CopyIsCancelled,
         CopyCompletes, RecordCopy, VerifyPasses, VerifyFails, VerifyIsCancelled, PlaceFails,
         PlaceOutside, RemoveSomeOfSource, RemoveSourceEnds, StepFails, Prepare, PrepareFails,
         MoveAside, StandIn, StandInFails, MoveBack, Unlink, Relink, DropSomeOfAside, Clear,
         ClearFails, RepointOn, Repointed, UndoSwap, DiscardStaging, RepointOff

\* What has arrived is left alone until the profile has learnt of it: no other
\* folder of the batch goes to its place.
LEMMA CompletedIsCompleteStep == IInv /\ PInv /\ [Next]_vars => CompletedIsComplete'
<1> DEFINE Complete(r) == /\ library[TargetOf[r]] # "absent" /\ entryLink[r] = TargetOf[r]
                          /\ staging[TargetOf[r]] = "absent" /\ entry[r] = "absent"
                          /\ r \in External => /\ outsideLink[r] = TargetOf[r] /\ aside[r] = "absent"
                                               /\ sidecar[TargetOf[r]] = r
<1> SUFFICES ASSUME IInv, PInv, [Next]_vars, NEW r \in arrived' PROVE Complete(r)'
  BY DEF CompletedIsComplete
<1>h. HandIsInOrder /\ DiskIsTyped
  BY FolderInHand
<1>m. /\ TheBatch /\ ImportsGoByTheirSteps /\ sidecar \in [Target -> Request \cup {"none"}]
  BY DEF PInv, IInv, TypeOK
<1>a. r \in arrived => /\ Complete(r) /\ at \notin {"idle", "went"} /\ ~giving
                       /\ r \in Request /\ TargetOf[r] \in Target
                       /\ library[TargetOf[r]] = r
                       /\ at \in InHand => req # r /\ lib # TargetOf[r]
  BY <1>h, ImportAssumption DEF HandIsInOrder, PInv, CompletedIsComplete, TheBatch, Importing, IInv,
       TypeOK
<1>s. r \in arrived => staging'[TargetOf[r]] = "absent"
  BY OnlyTheDestination, <1>h, <1>a DEF HandIsInOrder, InHand, Folder, Resume, DiscardStaging
<1> HIDE DEF Complete
<1>n. r \in arrived \/ LinkEntry \/ DropAsideEnds
  BY DEF Next, vars, disk, saved, hand, batch, GoesTo, Over, EmptyHanded, Arrives,
         StagingIsRemoved, StartImport, StopBatch, Adopt, AdoptWhatWentBack, Crash, Announce,
         BeginCopy, CopyFails, CopyIsCancelled, CopyCompletes, RecordCopy, VerifyPasses,
         VerifyFails, VerifyIsCancelled, PlaceFails, PlaceInLibrary, PlaceOutside,
         RemoveSomeOfSource, RemoveSourceEnds, StepFails, Prepare, PrepareFails, MoveAside,
         StandIn, StandInFails, MoveBack, Unlink, Relink, DropSomeOfAside, Clear, ClearFails,
         RepointOn, Repointed, DropSomeOfLibrary, DropLibraryEnds, Forget, TakeRequest,
         RefuseRequest, UndoSwap, StartGiveBack, Resume, DiscardStaging, RepointOff
<1>b. r \in arrived \/ (r = req /\ at \in {"link", "dropAside"} /\ (LinkEntry \/ DropAsideEnds))
  BY <1>n DEF LinkEntry, DropAsideEnds, Arrives
<1> USE ImportAssumption, <1>h, <1>m, <1>a, <1>s, <1>b DEF InHand, Markers, HandIsInOrder,
           DiskIsTyped, Complete
<1>1. CASE UNCHANGED <<entry, entryLink, outsideLink, aside, library, sidecar>>
  BY <1>1 DEF LinkEntry, DropAsideEnds, ImportsGoByTheirSteps, Importing
<1>2. CASE LinkEntry
  <2>1. CASE r = req
    BY <1>2, <2>1, FolderInHand DEF LinkEntry, ImportsGoByTheirSteps
  <2>2. CASE r \in arrived /\ r # req
    BY <1>2, <2>2 DEF LinkEntry
  <2> QED
    BY <1>2, <2>1, <2>2
<1>3. CASE DropAsideEnds
  <2>1. CASE r = req
    <3>1. /\ library[lib] = req /\ staging[lib] = "absent" /\ outsideLink[req] = lib /\ entryLink[req] = lib
          /\ sidecar[lib] = req /\ entry[req] = "absent" /\ r \in Request /\ lib \in Target /\ lib = TargetOf[r]
      BY <1>3, <2>1 DEF DropAsideEnds, ImportsGoByTheirSteps, Importing, PInv, OthersPlaces,
           TheirPlaces
    <3> QED
      BY <1>3, <2>1, <3>1 DEF DropAsideEnds
  <2>2. CASE r \in arrived /\ r # req
    BY <1>3, <2>2 DEF DropAsideEnds
  <2> QED
    BY <1>3, <2>1, <2>2
<1>4. CASE DropSomeOfAside
  <2>1. r \in arrived /\ r # req
    BY <1>4 DEF DropSomeOfAside, DropAsideEnds, Over, LinkEntry
  <2> QED
    BY <1>4, <2>1 DEF DropSomeOfAside
<1>5. CASE RemoveSomeOfSource
  BY <1>5 DEF RemoveSomeOfSource
<1>6. CASE RemoveSourceEnds
  BY <1>6 DEF RemoveSourceEnds
<1>7. CASE PlaceInLibrary
  BY <1>7 DEF PlaceInLibrary
<1>8. CASE Prepare
  BY <1>8 DEF Prepare
<1>9. CASE PrepareFails
  BY <1>9 DEF PrepareFails
<1>10. CASE MoveAside
  BY <1>10 DEF MoveAside
<1>11. CASE StandIn
  BY <1>11 DEF StandIn
<1>12. CASE MoveBack
  BY <1>12 DEF MoveBack
<1>13. CASE Unlink
  BY <1>13 DEF Unlink
<1>14. CASE Relink
  BY <1>14 DEF Relink
<1>15. CASE Clear
  BY <1>15 DEF Clear
<1>16. ASSUME NEW q \in Request, RepointOff(q) PROVE Complete(r)'
  BY <1>16 DEF RepointOff
<1>17. CASE RepointOn
  BY <1>17 DEF RepointOn
<1>18. CASE DropSomeOfLibrary
  BY <1>18 DEF DropSomeOfLibrary
<1>19. CASE DropLibraryEnds
  BY <1>19 DEF DropLibraryEnds
<1>20. CASE Forget
  BY <1>20 DEF Forget
<1>21. ASSUME NEW q \in Request, UndoSwap(q) PROVE Complete(r)'
  BY <1>21 DEF UndoSwap
<1> QED BY <1>1, <1>2, <1>3, <1>4, <1>5, <1>6, <1>7, <1>8, <1>9, <1>10, <1>11, <1>12, <1>13,
           <1>14, <1>15, <1>16, <1>17, <1>18, <1>19, <1>20, <1>21
     DEF Next, vars, disk, saved, hand, batch, GoesTo, Over, EmptyHanded, Arrives,
         StagingIsRemoved, StartImport, StopBatch, Adopt, AdoptWhatWentBack, Crash, Announce,
         BeginCopy, CopyFails, CopyIsCancelled, CopyCompletes, RecordCopy, VerifyPasses,
         VerifyFails, VerifyIsCancelled, PlaceFails, PlaceOutside, StepFails, StandInFails,
         ClearFails, Repointed, TakeRequest, RefuseRequest, StartGiveBack, Resume, DiscardStaging

-----------------------------------------------------------------------------
\* The first state has every folder in its own place and nothing on record.
LEMMA InitIsInPlace == Init => PInv
<1> SUFFICES ASSUME Init PROVE PInv
  OBVIOUS
<1> USE ImportAssumption DEF Init, Markers, InHand, Folder
<1>1. TheirTargets
  BY DEF TheirTargets
<1>2. OwnFolders
  BY DEF OwnFolders, OwnFolder
<1>3. OthersPlaces /\ OthersInLibrary /\ OthersHalves /\ OthersWayBack
  BY DEF OthersPlaces, OthersInLibrary, OthersHalves, OthersWayBack, TheirPlaces, TheLibraryHasIt,
     HalvesAreSuperseded, TheWayBack
<1>4. ImportsGoByTheirSteps /\ GiveBacksGoByTheirSteps
  BY DEF ImportsGoByTheirSteps, GiveBacksGoByTheirSteps, Importing, GivingBack
<1>5. TheBatch /\ CompletedIsComplete
  BY DEF TheBatch, CompletedIsComplete, Importing
<1> QED
  BY <1>1, <1>2, <1>3, <1>4, <1>5 DEF PInv

\* Every reachable state has every folder in its places.
LEMMA InPlace == Spec => [](IInv /\ PInv)
<1>1. Init => IInv /\ PInv
  BY InitIsGood, InitIsInPlace
<1>2. (IInv /\ PInv) /\ [Next]_vars => (IInv /\ PInv)'
  <2> SUFFICES ASSUME IInv, PInv, [Next]_vars PROVE IInv' /\ PInv'
    OBVIOUS
  <2>1. IInv'
    BY TypeStep, NothingMangledStep, StepsBelongStep, StagingIsTheSourceStep, RemovedIsElsewhereStep,
       NothingIsLostStep DEF IInv
  <2>2. PInv'
    BY TheirTargetsStep, OwnFoldersStep, OthersPlacesStep, OthersInLibraryStep, OthersHalvesStep,
       OthersWayBackStep, ImportsGoByTheirStepsStep, GiveBacksGoByTheirStepsStep, TheBatchStep,
       CompletedIsCompleteStep DEF PInv
  <2> QED
    BY <2>1, <2>2
<1> QED
  BY <1>1, <1>2, PTL DEF Spec


\* Whatever failed, was cancelled or crashed, in any order, every link into a
\* library leads to a folder that is whole.
THEOREM NoLinkLeadsToAHalf == Spec => []LinksLeadToWholeAddons
<1>1. IInv /\ PInv => LinksLeadToWholeAddons
  <2> SUFFICES ASSUME IInv, PInv, NEW q \in Request, NEW l \in {entryLink[q], outsideLink[q]} \cap Target
               PROVE  library[l] \notin {"absent", "part"}
    BY DEF LinksLeadToWholeAddons
  <2>1. CASE q \in External
    <3>1. TheirPlaces(q) /\ TheLibraryHasIt(q)
      BY <2>1 DEF PInv, OthersPlaces, OthersInLibrary
    <3> QED
      BY <3>1, ImportAssumption DEF TheirPlaces, TheLibraryHasIt, Markers
  <2>2. CASE q \notin External
    <3>1. OwnFolder(q)
      BY <2>2 DEF PInv, OwnFolders
    <3> QED
      BY <3>1, ImportAssumption DEF OwnFolder, Markers
  <2> QED
    BY <2>1, <2>2
<1> QED
  BY <1>1, InPlace, PTL

\* While nothing stands under another program's name, its folder is whole in the
\* swap slot, or the profile still knows which library copy to give back.
THEOREM TheWayBackStays == Spec => []TheOtherProgramCanGetItBack
<1>1. PInv => TheOtherProgramCanGetItBack
  BY ImportAssumption DEF PInv, OthersInLibrary, TheLibraryHasIt, OthersWayBack, TheWayBack,
     TheOtherProgramCanGetItBack
<1> QED
  BY <1>1, InPlace, PTL

\* Every half copy beside another program's folder is one that Leftovers lists.
THEOREM EveryHalfCopyIsListed == Spec => []BesideOthersIsListed
<1>1. PInv => BesideOthersIsListed
  BY ImportAssumption DEF PInv, OwnFolders, OwnFolder, OthersWayBack, TheWayBack,
     BesideOthersIsListed, Listed
<1> QED
  BY <1>1, InPlace, PTL

\* An import reported as completed left everything it set out to leave, and
\* nothing else of its batch takes any of it away.
THEOREM ReportedIsComplete == Spec => []CompletedIsComplete
<1>1. PInv => CompletedIsComplete
  BY DEF PInv
<1> QED
  BY <1>1, InPlace, PTL
=============================================================================
