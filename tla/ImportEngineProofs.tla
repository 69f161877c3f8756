------------------------- MODULE ImportEngineProofs -------------------------
(***************************************************************************)
(* That no import, give back, crash or recovery loses an addon, proved for *)
(* every set of requests and places: type correctness, the inductive       *)
(* invariant behind NothingIsLost, and the refinement of Custody.          *)
(***************************************************************************)
EXTENDS ImportEngine, TLAPS

\* A copy whose sizes agree is right wherever sizes are all that is compared.
NothingMangled ==
    Verification = "ByStructure" =>
        /\ \A r \in Request : "mangled" \notin {entry[r], outside[r], aside[r]}
        /\ \A t \in Target : library[t] # "mangled"
        /\ \A f \in Folder : staging[f] # "mangled"

\* Which of the two operations a step belongs to.
StepsBelong ==
    /\ at \in {"announce", "prepare", "removeSource", "link", "moveAside", "standIn",
               "moveBack", "unlink", "relink", "dropAside"} => ~giving
    /\ at \in {"clear", "repoint", "dropLibrary", "forget"} => giving

\* Past the verification the staging is the folder it was copied from.
StagingIsTheSource == at \in {"prepare", "clear", "place"} => staging[Destination] = Source

\* What is about to be removed is whole on the other side.
RemovedIsElsewhere ==
    /\ at = "removeSource" /\ entry[req] \in Request => library[lib] = entry[req]
    /\ at = "moveAside" /\ outside[req] \in Request => library[lib] = outside[req]
    /\ at \in {"standIn", "unlink", "relink", "dropAside"} /\ aside[req] \in Request
           => library[lib] = aside[req]
    /\ at \in {"repoint", "dropLibrary"} /\ library[lib] \in Request => outside[req] = library[lib]

IInv == TypeOK /\ NothingMangled /\ StepsBelong /\ StagingIsTheSource /\ RemovedIsElsewhere /\ NothingIsLost

-----------------------------------------------------------------------------
\* With a folder in hand, the staging it fills is one of the stagings.
LEMMA DestinationType == TypeOK /\ at \in InHand => Destination \in Folder
  BY DEF TypeOK, Destination, Folder

\* Whatever a staging is left as, the stagings keep their kind.
LEMMA StagingType ==
  ASSUME TypeOK, at \in InHand, NEW left \in Tree,
         staging' = [staging EXCEPT ![Destination] = left]
  PROVE  staging' \in [Folder -> Tree]
<1>1. Destination \in Folder
  BY DestinationType
<1>2. staging \in [Folder -> Tree]
  BY DEF TypeOK
<1> QED
  BY <1>1, <1>2

\* The partial removal of a staging included.
LEMMA RemovalType == TypeOK /\ at \in InHand /\ StagingIsRemoved => staging' \in [Folder -> Tree]
<1> SUFFICES ASSUME TypeOK, at \in InHand, StagingIsRemoved PROVE staging' \in [Folder -> Tree]
  OBVIOUS
<1>1. PICK left \in {"absent", "part"} : staging' = [staging EXCEPT ![Destination] = left]
  BY DEF StagingIsRemoved
<1>2. left \in Tree
  BY DEF Tree
<1> QED
  BY <1>1, <1>2, StagingType

\* Every step keeps the kinds of values the variables hold.
LEMMA TypeStep == TypeOK /\ [Next]_vars => TypeOK'
<1> SUFFICES ASSUME TypeOK, [Next]_vars PROVE TypeOK'
  OBVIOUS
<1> USE ImportAssumption DEF TypeOK, Tree, Folder, Markers, Resting, InHand, vars, disk, saved,
                               batch, hand, Over, EmptyHanded, GoesTo
<1>1. CASE StartImport
  BY <1>1 DEF StartImport, Scanned
<1>2. CASE StopBatch
  BY <1>2 DEF StopBatch
<1>3. CASE Adopt
  BY <1>3 DEF Adopt
<1>4. CASE AdoptWhatWentBack
  BY <1>4 DEF AdoptWhatWentBack
<1>5. CASE Crash
  BY <1>5 DEF Crash
<1>6. ASSUME NEW r \in Request, TakeRequest(r) PROVE TypeOK'
  BY <1>6 DEF TakeRequest
<1>7. ASSUME NEW r \in Request, RefuseRequest(r) PROVE TypeOK'
  BY <1>7 DEF RefuseRequest
<1>8. ASSUME NEW r \in Request, UndoSwap(r) PROVE TypeOK'
  BY <1>8 DEF UndoSwap
<1>9. ASSUME NEW t \in Target, StartGiveBack(t) PROVE TypeOK'
  BY <1>9 DEF StartGiveBack
<1>10. ASSUME NEW t \in Target, Resume(t) PROVE TypeOK'
  <2>1. LeftoverSource(t) \in Request \cup {"none"}
    BY DEF LeftoverSource
  <2>2. LeftoverCanBeImported(t) => LeftoverSource(t) \in Request
    BY <2>1 DEF LeftoverCanBeImported, CanBeResumed
  <2>3. PICK left \in {"absent", "part"} :
            /\ staging' = [staging EXCEPT ![t] = left]
            /\ IF left = "absent" /\ LeftoverCanBeImported(t)
               THEN /\ req' = LeftoverSource(t) /\ lib' = t /\ giving' = FALSE /\ UNCHANGED down
                    /\ at' = IF LeftoverSource(t) \in External THEN "announce" ELSE "copy"
               ELSE /\ at' = "batch" /\ UNCHANGED hand
    BY <1>10 DEF Resume
  <2>4. staging' \in [Folder -> Tree]
    BY <2>3
  <2>5. CASE left = "absent" /\ LeftoverCanBeImported(t)
    <3>1. /\ req' \in Request /\ lib' = t /\ giving' = FALSE /\ UNCHANGED down
          /\ at' \in {"announce", "copy"}
      BY <2>2, <2>3, <2>5
    <3> QED
      BY <1>10, <2>4, <3>1 DEF Resume
  <2>6. CASE ~(left = "absent" /\ LeftoverCanBeImported(t))
    <3>1. at' = "batch" /\ UNCHANGED hand
      BY <2>3, <2>6
    <3> QED
      BY <1>10, <2>4, <3>1 DEF Resume
  <2> QED
    BY <2>5, <2>6
<1>11. ASSUME NEW f \in Folder, DiscardStaging(f) PROVE TypeOK'
  BY <1>11 DEF DiscardStaging, Listed
<1>12. CASE Announce
  BY <1>12 DEF Announce
<1>13. CASE BeginCopy
  BY <1>13 DEF BeginCopy, Destination, Source, Bytes
<1>14. CASE CopyFails
  <2>1. at \in InHand
    BY <1>14 DEF CopyFails
  <2>2. PICK left \in {staging[Destination], "part"} : staging' = [staging EXCEPT ![Destination] = left]
    BY <1>14 DEF CopyFails
  <2>3. left \in Tree
    <3>1. Destination \in Folder /\ staging \in [Folder -> Tree]
      BY <2>1, DestinationType
    <3> QED
      BY <3>1
  <2>4. staging' \in [Folder -> Tree]
    BY <2>1, <2>2, <2>3, StagingType
  <2> QED
    BY <1>14, <2>4 DEF CopyFails
<1>15. CASE CopyIsCancelled
  BY <1>15, RemovalType DEF CopyIsCancelled
<1>16. CASE CopyCompletes
  BY <1>16 DEF CopyCompletes, Destination, Source, Bytes
<1>17. CASE RecordCopy
  BY <1>17 DEF RecordCopy, Destination, Source, Bytes
<1>18. CASE VerifyPasses
  BY <1>18 DEF VerifyPasses
<1>19. CASE VerifyFails
  BY ZenonT(30), <1>19, RemovalType DEF VerifyFails
<1>20. CASE VerifyIsCancelled
  BY <1>20, RemovalType DEF VerifyIsCancelled
<1>21. CASE PlaceFails
  BY <1>21 DEF PlaceFails
<1>22. CASE PlaceInLibrary
  BY <1>22 DEF PlaceInLibrary
<1>23. CASE PlaceOutside
  BY <1>23 DEF PlaceOutside
<1>24. CASE RemoveSomeOfSource
  BY <1>24 DEF RemoveSomeOfSource
<1>25. CASE RemoveSourceEnds
  BY <1>25 DEF RemoveSourceEnds
<1>26. CASE LinkEntry
  BY ZenonT(30), <1>26 DEF LinkEntry, Arrives
<1>27. CASE StepFails
  BY <1>27 DEF StepFails
<1>28. CASE Prepare
  BY <1>28 DEF Prepare
<1>29. CASE PrepareFails
  <2>1. staging' \in [Folder -> Tree]
    BY <1>29, RemovalType DEF PrepareFails
  <2>2. sidecar' \in [Target -> Request \cup {"none"}]
    BY <1>29 DEF PrepareFails
  <2> QED
    BY <1>29, <2>1, <2>2 DEF PrepareFails
<1>30. CASE MoveAside
  BY <1>30 DEF MoveAside
<1>31. CASE StandIn
  BY <1>31 DEF StandIn
<1>32. CASE StandInFails
  BY <1>32 DEF StandInFails
<1>33. CASE MoveBack
  BY <1>33 DEF MoveBack
<1>34. CASE Unlink
  BY <1>34 DEF Unlink
<1>35. CASE Relink
  BY <1>35 DEF Relink
<1>36. CASE DropSomeOfAside
  BY <1>36 DEF DropSomeOfAside
<1>37. CASE DropAsideEnds
  BY <1>37 DEF DropAsideEnds, Arrives
<1>38. CASE Clear
  BY <1>38 DEF Clear
<1>39. CASE ClearFails
  BY <1>39, RemovalType DEF ClearFails
<1>40. ASSUME NEW q \in Request, RepointOff(q) PROVE TypeOK'
  BY <1>40 DEF RepointOff
<1>41. CASE RepointOn
  BY <1>41 DEF RepointOn
<1>42. CASE Repointed
  BY <1>42 DEF Repointed
<1>43. CASE DropSomeOfLibrary
  BY <1>43 DEF DropSomeOfLibrary
<1>44. CASE DropLibraryEnds
  BY <1>44 DEF DropLibraryEnds
<1>45. CASE Forget
  BY <1>45 DEF Forget
<1>46. CASE UNCHANGED vars
  BY <1>46
<1> QED
  BY <1>1, <1>2, <1>3, <1>4, <1>5, <1>6, <1>7, <1>8, <1>9, <1>10, <1>11, <1>12,
     <1>13, <1>14, <1>15, <1>16, <1>17, <1>18, <1>19, <1>20, <1>21, <1>22, <1>23, <1>24,
     <1>25, <1>26, <1>27, <1>28, <1>29, <1>30, <1>31, <1>32, <1>33, <1>34, <1>35, <1>36,
     <1>37, <1>38, <1>39, <1>40, <1>41, <1>42, <1>43, <1>44, <1>45, <1>46 DEF Next
\* No step makes a mangled tree where copies cannot be mangled.
LEMMA NothingMangledStep == IInv /\ [Next]_vars => NothingMangled'
<1> SUFFICES ASSUME IInv, [Next]_vars PROVE NothingMangled'
  OBVIOUS
<1> USE ImportAssumption, DestinationType DEF IInv, TypeOK, NothingMangled, Folder, InHand
<1>1. CASE UNCHANGED <<entry, outside, aside, library, staging>>
  BY <1>1 DEF NothingMangled
<1>2. ASSUME NEW r \in Request, UndoSwap(r) PROVE NothingMangled'
  BY <1>2 DEF UndoSwap
<1>3. ASSUME NEW t \in Target, Resume(t) PROVE NothingMangled'
  BY <1>3 DEF Resume
<1>4. ASSUME NEW f \in Folder, DiscardStaging(f) PROVE NothingMangled'
  BY <1>4 DEF DiscardStaging
<1>5. CASE BeginCopy
  BY <1>5 DEF BeginCopy
<1>6. CASE CopyFails
  BY <1>6 DEF CopyFails
<1>7. CASE CopyIsCancelled
  BY <1>7 DEF CopyIsCancelled, StagingIsRemoved
<1>8. CASE CopyCompletes
  BY <1>8 DEF CopyCompletes, Source, Bytes
<1>9. CASE VerifyFails
  BY <1>9 DEF VerifyFails, StagingIsRemoved
<1>10. CASE VerifyIsCancelled
  BY <1>10 DEF VerifyIsCancelled, StagingIsRemoved
<1>11. CASE PlaceInLibrary
  BY <1>11 DEF PlaceInLibrary
<1>12. CASE PlaceOutside
  BY <1>12 DEF PlaceOutside
<1>13. CASE RemoveSomeOfSource
  BY <1>13 DEF RemoveSomeOfSource
<1>14. CASE RemoveSourceEnds
  BY <1>14 DEF RemoveSourceEnds
<1>15. CASE PrepareFails
  BY <1>15 DEF PrepareFails, StagingIsRemoved
<1>16. CASE MoveAside
  BY <1>16 DEF MoveAside
<1>17. CASE MoveBack
  BY <1>17 DEF MoveBack
<1>18. CASE DropSomeOfAside
  BY <1>18 DEF DropSomeOfAside
<1>19. CASE DropAsideEnds
  BY <1>19 DEF DropAsideEnds
<1>20. CASE ClearFails
  BY <1>20 DEF ClearFails, StagingIsRemoved
<1>21. CASE DropSomeOfLibrary
  BY <1>21 DEF DropSomeOfLibrary
<1>22. CASE DropLibraryEnds
  BY <1>22 DEF DropLibraryEnds
<1> QED
  BY <1>1, <1>2, <1>3, <1>4, <1>5, <1>6, <1>7, <1>8, <1>9, <1>10, <1>11, <1>12, <1>13, <1>14,
      <1>15, <1>16, <1>17, <1>18, <1>19, <1>20, <1>21, <1>22
     DEF Next, vars, disk, saved, hand, batch, GoesTo, Over, EmptyHanded, Arrives, StartImport,
        StopBatch, Adopt, AdoptWhatWentBack, Crash, TakeRequest, RefuseRequest, StartGiveBack,
        Announce, RecordCopy, VerifyPasses, PlaceFails, LinkEntry, StepFails, Prepare, StandIn,
        StandInFails, Unlink, Relink, Clear, RepointOff, RepointOn, Repointed, Forget

\* A step of an import leads to a step of an import, one of a give back to one.
LEMMA StepsBelongStep == IInv /\ [Next]_vars => StepsBelong'
<1> SUFFICES ASSUME IInv, [Next]_vars PROVE StepsBelong'
  OBVIOUS
<1> QED
  BY DEF IInv, TypeOK, StepsBelong, Next, vars, hand, GoesTo, Over, EmptyHanded, StartImport,
        StopBatch, Adopt, AdoptWhatWentBack, Crash, TakeRequest, RefuseRequest, UndoSwap,
        StartGiveBack, Resume, DiscardStaging, Announce, BeginCopy, CopyFails, CopyIsCancelled,
        CopyCompletes, RecordCopy, VerifyPasses, VerifyFails, VerifyIsCancelled, PlaceFails,
        PlaceInLibrary, PlaceOutside, RemoveSomeOfSource, RemoveSourceEnds, LinkEntry, StepFails,
        Prepare, PrepareFails, MoveAside, StandIn, StandInFails, MoveBack, Unlink, Relink,
        DropSomeOfAside, DropAsideEnds, Clear, ClearFails, RepointOff, RepointOn, Repointed,
        DropSomeOfLibrary, DropLibraryEnds, Forget

\* The staging is not touched between the verification and the rename.
LEMMA StagingIsTheSourceStep == IInv /\ [Next]_vars => StagingIsTheSource'
<1> SUFFICES ASSUME IInv, [Next]_vars, at' \in {"prepare", "clear", "place"}
             PROVE  staging'[Destination'] = Source'
  BY DEF StagingIsTheSource
<1>1. CASE VerifyPasses
  <2>1. staging[Destination] = Source
    BY <1>1, DestinationType DEF VerifyPasses, Matches, IInv, NothingMangled, InHand
  <2> QED
    BY <1>1, <2>1 DEF VerifyPasses, GoesTo, Destination, Source, Bytes, disk, hand
<1>2. CASE Prepare
  BY <1>2 DEF Prepare, GoesTo, IInv, StagingIsTheSource, Destination, Source, Bytes, hand
<1>3. CASE Clear
  BY <1>3 DEF Clear, GoesTo, IInv, StagingIsTheSource, Destination, Source, Bytes, hand
<1>4. CASE UNCHANGED vars
  BY <1>4 DEF vars, disk, hand, IInv, StagingIsTheSource, Destination, Source, Bytes
<1> QED
  BY <1>1, <1>2, <1>3, <1>4
     DEF Next, IInv, TypeOK, hand, GoesTo, Over, StartImport, StopBatch, Adopt,
        AdoptWhatWentBack, Crash, TakeRequest, RefuseRequest, UndoSwap, StartGiveBack, Resume,
        DiscardStaging, Announce, BeginCopy, CopyFails, CopyIsCancelled, CopyCompletes,
        RecordCopy, VerifyFails, VerifyIsCancelled, PlaceFails, PlaceInLibrary, PlaceOutside,
        RemoveSomeOfSource, RemoveSourceEnds, LinkEntry, StepFails, PrepareFails, MoveAside,
        StandIn, StandInFails, MoveBack, Unlink, Relink, DropSomeOfAside, DropAsideEnds,
        ClearFails, RepointOff, RepointOn, Repointed, DropSomeOfLibrary, DropLibraryEnds, Forget

\* What a step is about to remove, or to move to where it will be removed, is
\* the folder the staging it has just renamed was copied from.
LEMMA RemovedIsElsewhereStep == IInv /\ [Next]_vars => RemovedIsElsewhere'
<1> SUFFICES ASSUME IInv, [Next]_vars,
                    at' \in {"removeSource", "moveAside", "standIn", "unlink", "relink",
                            "dropAside", "repoint", "dropLibrary"}
             PROVE  RemovedIsElsewhere'
  BY DEF RemovedIsElsewhere
<1> USE ImportAssumption DEF IInv, TypeOK, RemovedIsElsewhere, hand, GoesTo, InHand, Markers
<1>1. CASE PlaceInLibrary
  <2>1. library'[lib] = Source /\ ~giving
    BY <1>1 DEF PlaceInLibrary, StagingIsTheSource, Destination
  <2> QED
    BY <1>1, <2>1 DEF PlaceInLibrary, Source, Bytes
<1>2. CASE PlaceOutside
  <2>1. outside'[req] = library[lib]
    BY <1>2 DEF PlaceOutside, StagingIsTheSource, Destination, Source
  <2> QED
    BY <1>2, <2>1 DEF PlaceOutside
<1>3. CASE RemoveSomeOfSource
  BY <1>3 DEF RemoveSomeOfSource, disk
<1>4. CASE MoveAside
  BY <1>4 DEF MoveAside, disk
<1>5. CASE StandIn
  BY <1>5 DEF StandIn, disk
<1>6. CASE Unlink
  BY <1>6 DEF Unlink, disk
<1>7. CASE Relink
  BY <1>7 DEF Relink, disk
<1>8. CASE DropSomeOfAside
  BY <1>8 DEF DropSomeOfAside, disk
<1>9. CASE RepointOn
  BY <1>9 DEF RepointOn, disk
<1>10. CASE Repointed
  BY <1>10 DEF Repointed, disk
<1>11. CASE DropSomeOfLibrary
  BY <1>11 DEF DropSomeOfLibrary, disk
<1>12. ASSUME NEW q \in Request, RepointOff(q) PROVE RemovedIsElsewhere'
  BY <1>12 DEF RepointOff
<1>13. CASE UNCHANGED vars
  BY <1>13 DEF vars, disk
<1> QED
  BY <1>1, <1>2, <1>3, <1>4, <1>5, <1>6, <1>7, <1>8, <1>9, <1>10, <1>11, <1>12, <1>13
     DEF Next, Over, StartImport, StopBatch, Adopt, AdoptWhatWentBack, Crash, TakeRequest,
        RefuseRequest, UndoSwap, StartGiveBack, Resume, DiscardStaging, Announce, BeginCopy,
        CopyFails, CopyIsCancelled, CopyCompletes, RecordCopy, VerifyPasses, VerifyFails,
        VerifyIsCancelled, PlaceFails, RemoveSourceEnds, LinkEntry, StepFails, Prepare,
        PrepareFails, StandInFails, MoveBack, DropAsideEnds, Clear, ClearFails, DropLibraryEnds,
        Forget

-----------------------------------------------------------------------------
\* A side that gives up one tree lets go of an addon the other side holds, or of
\* nothing that was whole.
LEMMA OriginalsLetGo ==
  ASSUME NEW a, a \in Request => a \in Copies,
         Copies' \cap Request = Copies \cap Request,
         Originals' \cap Request \subseteq Originals,
         (Originals \cap Request) \ {a} \subseteq Originals'
  PROVE  [C!Next]_C!vars
<1>1. CASE a \in Request /\ a \in Originals /\ a \notin Originals'
  <2>1. Originals' \cap Request = (Originals \cap Request) \ {a}
    BY <1>1
  <2> QED
    BY <1>1, <2>1 DEF C!Next, C!LetGo
<1>2. CASE ~(a \in Request /\ a \in Originals /\ a \notin Originals')
  <2>1. Originals' \cap Request = Originals \cap Request
    BY <1>2
  <2> QED
    BY <2>1 DEF C!vars
<1> QED
  BY <1>1, <1>2

\* A step by which the libraries let go of at most one addon is one of Custody.
LEMMA CopiesLetGo ==
  ASSUME NEW a, a \in Request => a \in Originals,
         Originals' \cap Request = Originals \cap Request,
         Copies' \cap Request \subseteq Copies,
         (Copies \cap Request) \ {a} \subseteq Copies'
  PROVE  [C!Next]_C!vars
<1>1. CASE a \in Request /\ a \in Copies /\ a \notin Copies'
  <2>1. Copies' \cap Request = (Copies \cap Request) \ {a}
    BY <1>1
  <2> QED
    BY <1>1, <2>1 DEF C!Next, C!LetGo
<1>2. CASE ~(a \in Request /\ a \in Copies /\ a \notin Copies')
  <2>1. Copies' \cap Request = Copies \cap Request
    BY <1>2
  <2> QED
    BY <2>1 DEF C!vars
<1> QED
  BY <1>1, <1>2

\* Every step of the engine is a step of Custody, or changes neither side.
LEMMA CustodyStep == IInv /\ [Next]_vars => [C!Next]_C!vars
<1> SUFFICES ASSUME IInv, [Next]_vars PROVE [C!Next]_C!vars
  OBVIOUS
<1> USE ImportAssumption DEF IInv, TypeOK, Markers, InHand
<1>1. CASE UNCHANGED <<entry, outside, aside, library>>
  BY <1>1 DEF Originals, Copies, C!vars
<1>2. ASSUME NEW r \in Request, UndoSwap(r) PROVE [C!Next]_C!vars
  <2>1. Originals' \cap Request = Originals \cap Request
    BY <1>2 DEF UndoSwap, Interrupted, Originals
  <2>2. Copies' = Copies
    BY <1>2 DEF UndoSwap, Copies
  <2> QED
    BY <2>1, <2>2 DEF C!vars
<1>3. CASE PlaceInLibrary
  <2> DEFINE a == Source
  <2>1. library' = [library EXCEPT ![lib] = a] /\ library[lib] = "absent" /\ lib \in Target
    BY <1>3 DEF PlaceInLibrary, StagingIsTheSource, Destination
  <2>2. a \in Originals /\ Originals' = Originals
    BY <1>3 DEF PlaceInLibrary, Originals, Source, Bytes
  <2>3. Copies' \cap Request = (Copies \cap Request) \cup ({a} \cap Request)
    BY <2>1 DEF Copies
  <2> QED
    BY <2>2, <2>3 DEF C!Next, C!Import, C!vars
<1>4. CASE PlaceOutside
  <2> DEFINE a == library[lib]
  <2>1. outside' = [outside EXCEPT ![req] = a] /\ outside[req] = "absent" /\ req \in Request /\ lib \in Target
    BY <1>4 DEF PlaceOutside, StagingIsTheSource, Destination, Source
  <2>2. a \in Copies /\ Copies' = Copies
    BY <1>4 DEF PlaceOutside, Copies
  <2>3. Originals' \cap Request = (Originals \cap Request) \cup ({a} \cap Request)
    BY <1>4, <2>1 DEF Originals, PlaceOutside
  <2> QED
    BY <2>2, <2>3 DEF C!Next, C!GiveBack, C!vars
<1>5. CASE RemoveSomeOfSource
  <2>1. entry[req] \in Request => entry[req] \in Copies
    BY <1>5 DEF RemoveSomeOfSource, RemovedIsElsewhere, Copies
  <2>2. Originals' \cap Request \subseteq Originals /\ (Originals \cap Request) \ {entry[req]} \subseteq Originals'
    BY <1>5 DEF RemoveSomeOfSource, Originals
  <2>3. Copies' = Copies
    BY <1>5 DEF RemoveSomeOfSource, Copies
  <2> QED
    BY <2>1, <2>2, <2>3, OriginalsLetGo
<1>6. CASE RemoveSourceEnds
  <2>1. Originals' \cap Request = Originals \cap Request
    BY <1>6 DEF RemoveSourceEnds, Originals
  <2> QED
    BY <1>6, <2>1 DEF RemoveSourceEnds, Copies, C!vars
<1>7. CASE MoveAside
  <2>1. Originals' \cap Request = Originals \cap Request
    BY <1>7 DEF MoveAside, Originals
  <2> QED
    BY <1>7, <2>1 DEF MoveAside, Copies, C!vars
<1>8. CASE MoveBack
  <2>1. Originals' \cap Request = Originals \cap Request
    BY <1>8 DEF MoveBack, Originals
  <2> QED
    BY <1>8, <2>1 DEF MoveBack, Copies, C!vars
<1>9. CASE DropSomeOfAside
  <2>1. aside[req] \in Request => aside[req] \in Copies
    BY <1>9 DEF DropSomeOfAside, RemovedIsElsewhere, Copies
  <2>2. Originals' \cap Request \subseteq Originals /\ (Originals \cap Request) \ {aside[req]} \subseteq Originals'
    BY <1>9 DEF DropSomeOfAside, Originals
  <2>3. Copies' = Copies
    BY <1>9 DEF DropSomeOfAside, Copies
  <2> QED
    BY <2>1, <2>2, <2>3, OriginalsLetGo
<1>10. CASE DropAsideEnds
  <2>1. Originals' \cap Request = Originals \cap Request
    BY <1>10 DEF DropAsideEnds, Originals
  <2> QED
    BY <1>10, <2>1 DEF DropAsideEnds, Copies, C!vars
<1>11. CASE DropSomeOfLibrary
  <2>1. library[lib] \in Request => library[lib] \in Originals
    BY <1>11 DEF DropSomeOfLibrary, RemovedIsElsewhere, Originals
  <2>2. Copies' \cap Request \subseteq Copies /\ (Copies \cap Request) \ {library[lib]} \subseteq Copies'
    BY <1>11 DEF DropSomeOfLibrary, Copies
  <2>3. Originals' = Originals
    BY <1>11 DEF DropSomeOfLibrary, Originals
  <2> QED
    BY <2>1, <2>2, <2>3, CopiesLetGo
<1>12. CASE DropLibraryEnds
  <2>1. Copies' \cap Request = Copies \cap Request
    BY <1>12 DEF DropLibraryEnds, Copies
  <2> QED
    BY <1>12, <2>1 DEF DropLibraryEnds, Originals, C!vars
<1> QED
  BY <1>1, <1>2, <1>3, <1>4, <1>5, <1>6, <1>7, <1>8, <1>9, <1>10, <1>11, <1>12
     DEF Next, vars, disk, saved, hand, batch, GoesTo, Over, StartImport, StopBatch, Adopt,
        AdoptWhatWentBack, Crash, TakeRequest, RefuseRequest, StartGiveBack, Resume,
        DiscardStaging, Announce, BeginCopy, CopyFails, CopyIsCancelled, CopyCompletes,
        RecordCopy, VerifyPasses, VerifyFails, VerifyIsCancelled, PlaceFails, LinkEntry,
        StepFails, Prepare, PrepareFails, StandIn, StandInFails, Unlink, Relink, Clear,
        ClearFails, RepointOff, RepointOn, Repointed, Forget

\* A step of Custody leaves every addon on one side or the other.
LEMMA NothingIsLostStep == IInv /\ [Next]_vars => NothingIsLost'
<1> SUFFICES ASSUME IInv, [Next]_vars PROVE NothingIsLost'
  OBVIOUS
<1>1. Request \subseteq Originals \cup Copies
  BY DEF IInv, NothingIsLost
<1>2. [C!Next]_C!vars
  BY CustodyStep
<1>3. CASE UNCHANGED C!vars
  BY <1>1, <1>3 DEF C!vars, NothingIsLost
<1>4. CASE C!Next
  BY <1>1, <1>4 DEF C!Next, C!Import, C!GiveBack, C!LetGo, NothingIsLost
<1> QED
  BY <1>2, <1>3, <1>4

-----------------------------------------------------------------------------
\* The first state has every folder where the scan found it, and no copy.
LEMMA InitIsGood == Init => IInv /\ C!Init
<1> SUFFICES ASSUME Init PROVE IInv /\ C!Init
  OBVIOUS
<1> USE ImportAssumption DEF Init, Markers
<1>1. TypeOK
  <2>1. /\ entry \in [Request -> Tree] /\ outside \in [Request -> Tree]
        /\ aside \in [Request -> Tree] /\ library \in [Target -> Tree] /\ staging \in [Folder -> Tree]
    BY DEF Tree
  <2>2. /\ entryLink \in [Request -> Folder \cup {"none"}]
        /\ outsideLink \in [Request -> Target \cup {"none"}]
    BY DEF Folder
  <2>3. /\ sidecar \in [Target -> Request \cup {"none"}]
        /\ announced \in [Target -> Request \cup {"none"}]
        /\ copied \in [Folder -> Request \cup {"none"}]
        /\ origins \in [Target -> Request \cup {"none"}]
    OBVIOUS
  <2> QED
    BY <2>1, <2>2, <2>3 DEF TypeOK, Resting, InHand
<1>2. NothingMangled
  BY DEF NothingMangled, Folder
<1>3. StepsBelong /\ StagingIsTheSource /\ RemovedIsElsewhere
  BY DEF StepsBelong, StagingIsTheSource, RemovedIsElsewhere
<1>4. \A r \in Request : r \in Originals
  BY DEF Originals
<1>5. Copies \cap Request = {}
  BY DEF Copies
<1> QED
  BY <1>1, <1>2, <1>3, <1>4, <1>5 DEF IInv, NothingIsLost, C!Init

\* The inductive invariant holds in every reachable state.
LEMMA Inductive == Spec => []IInv
<1>1. Init => IInv
  BY InitIsGood
<1>2. IInv /\ [Next]_vars => IInv'
  BY TypeStep, NothingMangledStep, StepsBelongStep, StagingIsTheSourceStep, RemovedIsElsewhereStep,
     NothingIsLostStep DEF IInv
<1> QED
  BY <1>1, <1>2, PTL DEF Spec

\* For every set of requests and places, each variable keeps its kind and the
\* worker has a folder in hand whenever it is in the middle of one.
THEOREM TypeCorrect == Spec => []TypeOK
<1>1. IInv => TypeOK
  BY DEF IInv
<1> QED
  BY <1>1, Inductive, PTL

\* No import, give back, recovery, failure or crash, in any order, leaves an
\* addon whole nowhere.
THEOREM NoAddonIsLost == Spec => []NothingIsLost
<1>1. IInv => NothingIsLost
  BY DEF IInv
<1> QED
  BY <1>1, Inductive, PTL

\* The engine implements Custody: each of its steps copies one addon to the side
\* that lacks it, lets go of one the other side holds whole, or does neither.
THEOREM ImplementsCustody == Spec => Custody
<1>1. Init => C!Init
  BY InitIsGood
<1>2. IInv /\ [Next]_vars => [C!Next]_C!vars
  BY CustodyStep
<1> QED
  BY <1>1, <1>2, Inductive, PTL DEF Spec, Custody, C!Spec
=============================================================================
