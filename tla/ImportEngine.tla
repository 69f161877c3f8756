---------------------------- MODULE ImportEngine ----------------------------
(***************************************************************************)
(* Importing a folder into a library, giving one back to the program that  *)
(* installed it, and the recovery the application offers when it starts    *)
(* again (ImportEngine.cpp, and the Import, GiveBack, Leftovers, Resume    *)
(* and InterruptedSwaps parts of ImportService.cpp).                       *)
(*                                                                         *)
(* The disk is what survives: every call the engine makes to FileOperations*)
(* is an action of its own, and Crash may come between any two of them.    *)
(* A tree of files is its owner's name when it is a faithful whole copy of *)
(* that request's folder, "mangled" when the files have the right names    *)
(* and sizes and the wrong bytes, "part" when some are missing or extra.   *)
(***************************************************************************)
CONSTANTS
    Request,        \* the folders that can be imported, one per entry of a destination
    External,       \* those that are links to a folder another program installed
    Target,         \* the places in the libraries
    TargetOf,       \* where each request lands, ImportRequest::Target()
    Verification,   \* the option "verify after copying"
    CopiesCanMangle \* whether a copy that reports success may hold wrong bytes

Markers == {"absent", "part", "mangled", "none"}

ASSUME ImportAssumption ==
    /\ External \subseteq Request
    /\ TargetOf \in [Request -> Target]
    /\ Request \cap Target = {}
    /\ (Request \cup Target) \cap Markers = {}
    /\ Verification \in {"ByStructure", "ByHash"}
    /\ CopiesCanMangle \in BOOLEAN
    \* the default check reads names and sizes only: it is sound when the copy is
    /\ CopiesCanMangle => Verification = "ByHash"

VARIABLES
    \* the disk
    entry,       \* the physical folder at the destination entry of a request
    entryLink,   \* what the link at that entry points at: a library place, the
                 \* other program's folder (named by its request) or "none"
    outside,     \* the other program's folder
    outsideLink, \* the library place a link under that folder's name points at
    aside,       \* the other program's folder under its ".fsorg-swap" name
    library,     \* the addon folder in the library
    staging,     \* "<folder>.fsorg-partial", beside a library place or an outside folder
    sidecar,     \* whose folder the record beside a library place names
    \* the journal, as far as recovery reads it, and the saved profile
    announced,   \* source of the last ImportFromAnotherProgram record of a staging
    copied,      \* source of its last ImportCopyToStaging record that succeeded
    origins,     \* SimulatorProfile::externalOrigins, in settings.json
    \* the worker
    at,          \* the call it makes next
    req, lib,    \* the folder in hand and its library place
    giving,      \* TRUE in GiveBack, FALSE in Import
    down,        \* the link RepointTheLinks has taken down and not yet put back
    todo,        \* the requests of the batch not yet reached
    occupied,    \* identities taken: the scan at the start and what landed since
    arrived      \* results of the batch that succeeded, not yet adopted

disk == <<entry, entryLink, outside, outsideLink, aside, library, staging, sidecar>>
saved == <<announced, copied, origins>>
batch == <<todo, occupied, arrived>>
hand == <<req, lib, giving, down>>
vars == <<disk, saved, at, hand, batch>>

Tree == Request \cup {"absent", "part", "mangled"}
Folder == Target \cup Request

Resting == {"idle", "batch", "went"}
InHand == {"announce", "copy", "copying", "record", "verify", "prepare", "place",
           "removeSource", "link", "moveAside", "standIn", "moveBack", "unlink",
           "relink", "dropAside", "clear", "repoint", "dropLibrary", "forget"}

\* Every variable holds a value of its kind, and the worker has a folder in hand
\* in the middle of an import or a give back (ImportEngine.cpp).
TypeOK ==
    /\ entry \in [Request -> Tree]
    /\ entryLink \in [Request -> Folder \cup {"none"}]
    /\ outside \in [Request -> Tree]
    /\ outsideLink \in [Request -> Target \cup {"none"}]
    /\ aside \in [Request -> Tree]
    /\ library \in [Target -> Tree]
    /\ staging \in [Folder -> Tree]
    /\ sidecar \in [Target -> Request \cup {"none"}]
    /\ announced \in [Target -> Request \cup {"none"}]
    /\ copied \in [Folder -> Request \cup {"none"}]
    /\ origins \in [Target -> Request \cup {"none"}]
    /\ at \in Resting \cup InHand
    /\ req \in Request \cup {"none"}
    /\ lib \in Target \cup {"none"}
    /\ giving \in BOOLEAN
    /\ down \in Request \cup {"none"}
    /\ todo \subseteq Request
    /\ occupied \subseteq Target
    /\ arrived \subseteq Request
    /\ at \in InHand => req \in Request /\ lib \in Target
    /\ at = "went" => lib \in Target

Init ==
    /\ entry = [r \in Request |-> IF r \in External THEN "absent" ELSE r]
    /\ entryLink = [r \in Request |-> IF r \in External THEN r ELSE "none"]
    /\ outside = [r \in Request |-> IF r \in External THEN r ELSE "absent"]
    /\ outsideLink = [r \in Request |-> "none"]
    /\ aside = [r \in Request |-> "absent"]
    /\ library = [t \in Target |-> "absent"]
    /\ staging = [f \in Folder |-> "absent"]
    /\ sidecar = [t \in Target |-> "none"]
    /\ announced = [t \in Target |-> "none"]
    /\ copied = [f \in Folder |-> "none"]
    /\ origins = [t \in Target |-> "none"]
    /\ at = "idle"
    /\ req = "none" /\ lib = "none" /\ giving = FALSE /\ down = "none"
    /\ todo = {} /\ occupied = {} /\ arrived = {}

-----------------------------------------------------------------------------
(* What a call reads and where it leads. *)

\* ImportRequest::Bytes(): the folder an import copies.
Bytes(r) == IF r \in External THEN outside[r] ELSE entry[r]

\* The folder CopyAndVerify reads, and the one whose staging it fills.
Source == IF giving THEN library[lib] ELSE Bytes(req)
Destination == IF giving THEN req ELSE lib

\* The catalog calls a folder an addon when it finds its manifest: a whole tree
\* has one, a tree some files of which are gone may have kept it.
Scanned(S) ==
    /\ {t \in Target : library[t] \in Request \cup {"mangled"}} \subseteq S
    /\ S \subseteq {t \in Target : library[t] # "absent"}

\* CheckTheSource, and the walk of MeasureTheSource finding the folder there.
SourceIsAsRequested(r) ==
    IF r \in External
    THEN entryLink[r] = r /\ outside[r] # "absent"
    ELSE entryLink[r] = "none" /\ entry[r] # "absent"

\* The worker leaves the folder in hand: the batch goes on, a give back is over.
EmptyHanded == req' = "none" /\ lib' = "none" /\ giving' = FALSE /\ down' = "none"

Over ==
    /\ at' = IF giving THEN "idle" ELSE "batch"
    /\ EmptyHanded

GoesTo(step) == at' = step /\ UNCHANGED hand

\* RemoveTree on a staging is not atomic and may stop partway.
StagingIsRemoved == \E left \in {"absent", "part"} : staging' = [staging EXCEPT ![Destination] = left]

-----------------------------------------------------------------------------
(* ImportService::Import, Resume and GiveBack: what the worker is given. *)

\* A batch of imports starts with a scan of the libraries.
StartImport ==
    /\ at = "idle"
    /\ at' = "batch"
    /\ \E R \in (SUBSET Request) \ {{}} : todo' = R
    /\ occupied' \in SUBSET Target /\ Scanned(occupied')
    /\ arrived' = {}
    /\ UNCHANGED <<disk, saved, hand>>

\* WhyTheBatchStopsAt: the user cancelled or the simulator is running.
StopBatch ==
    /\ at = "batch" /\ todo # {}
    /\ todo' = {}
    /\ UNCHANGED <<disk, saved, at, hand, occupied, arrived>>

\* The identity is taken, the source is not what was asked for, it cannot be
\* read or there is no room: nothing was touched.
RefuseRequest(r) ==
    /\ at = "batch" /\ r \in todo
    /\ todo' = todo \ {r}
    /\ UNCHANGED <<disk, saved, at, hand, occupied, arrived>>

TakeRequest(r) ==
    /\ at = "batch" /\ r \in todo
    /\ TargetOf[r] \notin occupied
    /\ SourceIsAsRequested(r)
    /\ todo' = todo \ {r}
    /\ req' = r /\ lib' = TargetOf[r] /\ giving' = FALSE /\ UNCHANGED down
    /\ at' = IF r \in External THEN "announce" ELSE "copy"
    /\ UNCHANGED <<disk, saved, occupied, arrived>>

\* CheckTheFolderWeAreGivingBack: the profile knows whose folder it is, and the
\* other program's name is free or is the link that stands in for it.
StartGiveBack(t) ==
    /\ at = "idle"
    /\ origins[t] # "none" /\ library[t] # "absent"
    /\ outside[origins[t]] = "absent"
    /\ outsideLink[origins[t]] \in {"none", t}
    /\ req' = origins[t] /\ lib' = t /\ giving' = TRUE /\ UNCHANGED down
    /\ at' = "copy"
    /\ UNCHANGED <<disk, saved, batch>>

\* Leftovers: what the journal and the record beside the library place say of a
\* staging. Empty paths are "none".
OfAnotherProgram(t) == announced[t] # "none" \/ sidecar[t] # "none"
LeftoverSource(t) == IF OfAnotherProgram(t) THEN announced[t] ELSE copied[t]
LeftoverProgram(t) ==
    IF ~OfAnotherProgram(t) THEN "none"
    ELSE IF sidecar[t] # "none" THEN sidecar[t] ELSE copied[t]
CanBeResumed(t) == LeftoverSource(t) # "none"

\* The request Resume builds from a leftover passes CheckTheSource.
LeftoverCanBeImported(t) ==
    LET r == LeftoverSource(t) IN
    /\ CanBeResumed(t)
    /\ IF LeftoverProgram(t) = "none" THEN r \notin External ELSE LeftoverProgram(t) = r /\ r \in External
    /\ SourceIsAsRequested(r)

\* Resume throws the half copy away before the engine looks at the source.
Resume(t) ==
    /\ at = "idle"
    /\ staging[t] # "absent" /\ CanBeResumed(t)
    /\ library[t] \in {"absent", "part"}
    /\ \E left \in {"absent", "part"} :
         /\ staging' = [staging EXCEPT ![t] = left]
         /\ IF left = "absent" /\ LeftoverCanBeImported(t)
            THEN /\ req' = LeftoverSource(t) /\ lib' = t /\ giving' = FALSE /\ UNCHANGED down
                 /\ at' = IF LeftoverSource(t) \in External THEN "announce" ELSE "copy"
            ELSE /\ at' = "batch" /\ UNCHANGED hand
    /\ todo' = {} /\ occupied' = {} /\ arrived' = {}
    /\ UNCHANGED <<entry, entryLink, outside, outsideLink, aside, library, sidecar, saved>>

\* Leftovers lists the stagings of every library, and beside the folders of
\* other programs those whose origin the profile remembers.
Listed(f) == staging[f] # "absent" /\ (f \in Request => \E t \in Target : origins[t] = f)

DiscardStaging(f) ==
    /\ at = "idle" /\ Listed(f)
    /\ \E left \in {"absent", "part"} : staging' = [staging EXCEPT ![f] = left]
    /\ UNCHANGED <<entry, entryLink, outside, outsideLink, aside, library, sidecar>>
    /\ UNCHANGED <<saved, at, hand, batch>>

\* InterruptedSwaps: the swap slots beside the folders the profile remembers.
Interrupted(r) ==
    /\ \E t \in Target : origins[t] = r
    /\ aside[r] # "absent"
    /\ outside[r] = "absent" /\ outsideLink[r] = "none"

UndoSwap(r) ==
    /\ at = "idle" /\ Interrupted(r)
    /\ outside' = [outside EXCEPT ![r] = aside[r]]
    /\ aside' = [aside EXCEPT ![r] = "absent"]
    /\ UNCHANGED <<entry, entryLink, outsideLink, library, staging, sidecar>>
    /\ UNCHANGED <<saved, at, hand, batch>>

-----------------------------------------------------------------------------
(* CopyAndVerify, for an import and for a give back. *)

Announce ==
    /\ at = "announce"
    /\ announced' = [announced EXCEPT ![lib] = req]
    /\ GoesTo("copy")
    /\ UNCHANGED <<disk, copied, origins, batch>>

\* The first file of the copy. A file already there is never written over, so
\* a staging that still holds a tree makes the copy fail.
BeginCopy ==
    /\ at = "copy" /\ staging[Destination] \in {"absent", "part"}
    /\ staging' = [staging EXCEPT ![Destination] = "part"]
    /\ GoesTo("copying")
    /\ UNCHANGED <<entry, entryLink, outside, outsideLink, aside, library, sidecar, saved, batch>>

\* Whatever was copied stays where it is.
CopyFails ==
    /\ at \in {"copy", "copying"}
    /\ \E left \in {staging[Destination]} \cup (IF staging[Destination] = "absent" THEN {} ELSE {"part"}) :
         staging' = [staging EXCEPT ![Destination] = left]
    /\ Over
    /\ UNCHANGED <<entry, entryLink, outside, outsideLink, aside, library, sidecar, saved, batch>>

\* The copy asks to go on after every block; the rest of the batch is cancelled too.
CopyIsCancelled ==
    /\ at = "copying"
    /\ StagingIsRemoved
    /\ todo' = {}
    /\ Over
    /\ UNCHANGED <<entry, entryLink, outside, outsideLink, aside, library, sidecar, saved, occupied, arrived>>

CopyCompletes ==
    /\ at = "copying"
    /\ \E tree \in {Source, "part"} \cup (IF CopiesCanMangle THEN {"mangled"} ELSE {}) :
         staging' = [staging EXCEPT ![Destination] = tree]
    /\ GoesTo("record")
    /\ UNCHANGED <<entry, entryLink, outside, outsideLink, aside, library, sidecar, saved, batch>>

\* The journal learns of the copy once it is over.
RecordCopy ==
    /\ at = "record"
    /\ copied' = [copied EXCEPT ![Destination] = req]
    /\ GoesTo("verify")
    /\ UNCHANGED <<disk, announced, origins, batch>>

\* CheckTheStaging: the names and sizes of the source, and its bytes when asked.
\* (The slips named here and below are the mutants the runs are tested with.)
MatchesWhateverItHolds(tree) == TRUE
Matches(tree) == tree = Source \/ (tree = "mangled" /\ Verification = "ByStructure")

VerifyPasses ==
    /\ at = "verify" /\ Matches(staging[Destination])
    /\ GoesTo(IF giving THEN "clear" ELSE IF req \in External THEN "prepare" ELSE "place")
    /\ UNCHANGED <<disk, saved, batch>>

\* The copy differs or cannot be read: an import leaves it, GiveBack removes it.
VerifyFails ==
    /\ at = "verify"
    /\ IF giving THEN StagingIsRemoved ELSE UNCHANGED staging
    /\ Over
    /\ UNCHANGED <<entry, entryLink, outside, outsideLink, aside, library, sidecar, saved, batch>>

VerifyIsCancelled ==
    /\ at = "verify" /\ Verification = "ByHash"
    /\ StagingIsRemoved
    /\ todo' = {}
    /\ Over
    /\ UNCHANGED <<entry, entryLink, outside, outsideLink, aside, library, sidecar, saved, occupied, arrived>>

\* PutIntoPlace renames and never replaces what holds the name.
PlaceFails ==
    /\ at = "place"
    /\ Over
    /\ UNCHANGED <<disk, saved, batch>>

PlaceOverTheOccupant ==
    /\ at = "place" /\ ~giving
    /\ library' = [library EXCEPT ![lib] = staging[lib]]
    /\ staging' = [staging EXCEPT ![lib] = "absent"]
    /\ GoesTo(IF req \in External THEN "moveAside" ELSE "removeSource")
    /\ UNCHANGED <<entry, entryLink, outside, outsideLink, aside, sidecar, saved, batch>>

PlaceInLibrary ==
    /\ at = "place" /\ ~giving /\ library[lib] = "absent"
    /\ library' = [library EXCEPT ![lib] = staging[lib]]
    /\ staging' = [staging EXCEPT ![lib] = "absent"]
    /\ GoesTo(IF req \in External THEN "moveAside" ELSE "removeSource")
    /\ UNCHANGED <<entry, entryLink, outside, outsideLink, aside, sidecar, saved, batch>>

PlaceOutside ==
    /\ at = "place" /\ giving /\ outside[req] = "absent" /\ outsideLink[req] = "none"
    /\ outside' = [outside EXCEPT ![req] = staging[req]]
    /\ staging' = [staging EXCEPT ![req] = "absent"]
    /\ GoesTo("repoint")
    /\ UNCHANGED <<entry, entryLink, outsideLink, aside, library, sidecar, saved, batch>>

-----------------------------------------------------------------------------
(* The end of Import, for a folder of the destination. *)

\* RemoveTree takes the files one by one and may stop at any of them.
RemoveSomeOfSource ==
    /\ at = "removeSource" /\ entry[req] # "absent"
    /\ entry' = [entry EXCEPT ![req] = "part"]
    /\ UNCHANGED <<entryLink, outside, outsideLink, aside, library, staging, sidecar, saved, at, hand, batch>>

RemoveSourceEnds ==
    /\ at = "removeSource" /\ entry[req] = "part"
    /\ entry' = [entry EXCEPT ![req] = "absent"]
    /\ GoesTo("link")
    /\ UNCHANGED <<entryLink, outside, outsideLink, aside, library, staging, sidecar, saved, batch>>

\* A step after PutIntoPlace fails: nothing done before it is undone.
StepFails ==
    /\ at \in {"removeSource", "link", "moveAside", "moveBack", "unlink", "relink", "dropAside",
               "repoint", "dropLibrary"}
    /\ Over
    /\ UNCHANGED <<disk, saved, batch>>

Arrives ==
    /\ arrived' = arrived \cup {req}
    /\ occupied' = occupied \cup {lib}
    /\ UNCHANGED todo

LinkEntryUnchecked ==
    /\ at = "link"
    /\ \E made \in {entryLink[req], lib} : entryLink' = [entryLink EXCEPT ![req] = made]
    /\ Arrives
    /\ Over
    /\ UNCHANGED <<entry, outside, outsideLink, aside, library, staging, sidecar, saved>>

LinkEntry ==
    /\ at = "link"
    /\ entryLink' = [entryLink EXCEPT ![req] = lib]
    /\ Arrives
    /\ Over
    /\ UNCHANGED <<entry, outside, outsideLink, aside, library, staging, sidecar, saved>>

-----------------------------------------------------------------------------
(* The end of Import, for another program's folder:                        *)
(* PrepareTheOtherProgramsFolder and TakeOverTheOtherProgramsFolder.       *)

Prepare ==
    /\ at = "prepare"
    /\ sidecar' = [sidecar EXCEPT ![lib] = req]
    /\ GoesTo("place")
    /\ UNCHANGED <<entry, entryLink, outside, outsideLink, aside, library, staging, saved, batch>>

\* The folder refuses writes or the record cannot be written: the copy goes. A
\* write that fails has already truncated the record that was there.
PrepareFails ==
    /\ at = "prepare"
    /\ StagingIsRemoved
    /\ \E text \in {sidecar[lib], "none"} : sidecar' = [sidecar EXCEPT ![lib] = text]
    /\ Over
    /\ UNCHANGED <<entry, entryLink, outside, outsideLink, aside, library, saved, batch>>

DeleteInsteadOfMovingAside ==
    /\ at = "moveAside" /\ aside[req] = "absent" /\ outside[req] # "absent"
    /\ outside' = [outside EXCEPT ![req] = "absent"]
    /\ GoesTo("standIn")
    /\ UNCHANGED <<entry, entryLink, outsideLink, aside, library, staging, sidecar, saved, batch>>

MoveAside ==
    /\ at = "moveAside" /\ aside[req] = "absent" /\ outside[req] # "absent"
    /\ aside' = [aside EXCEPT ![req] = outside[req]]
    /\ outside' = [outside EXCEPT ![req] = "absent"]
    /\ GoesTo("standIn")
    /\ UNCHANGED <<entry, entryLink, outsideLink, library, staging, sidecar, saved, batch>>

StandIn ==
    /\ at = "standIn"
    /\ outsideLink' = [outsideLink EXCEPT ![req] = lib]
    /\ GoesTo("unlink")
    /\ UNCHANGED <<entry, entryLink, outside, aside, library, staging, sidecar, saved, batch>>

StandInFails ==
    /\ at = "standIn"
    /\ GoesTo("moveBack")
    /\ UNCHANGED <<disk, saved, batch>>

MoveBack ==
    /\ at = "moveBack" /\ outside[req] = "absent"
    /\ outside' = [outside EXCEPT ![req] = aside[req]]
    /\ aside' = [aside EXCEPT ![req] = "absent"]
    /\ Over
    /\ UNCHANGED <<entry, entryLink, outsideLink, library, staging, sidecar, saved, batch>>

Unlink ==
    /\ at = "unlink" /\ entryLink[req] # "none"
    /\ entryLink' = [entryLink EXCEPT ![req] = "none"]
    /\ GoesTo("relink")
    /\ UNCHANGED <<entry, outside, outsideLink, aside, library, staging, sidecar, saved, batch>>

Relink ==
    /\ at = "relink"
    /\ entryLink' = [entryLink EXCEPT ![req] = lib]
    /\ GoesTo("dropAside")
    /\ UNCHANGED <<entry, outside, outsideLink, aside, library, staging, sidecar, saved, batch>>

DropSomeOfAside ==
    /\ at = "dropAside" /\ aside[req] # "absent"
    /\ aside' = [aside EXCEPT ![req] = "part"]
    /\ UNCHANGED <<entry, entryLink, outside, outsideLink, library, staging, sidecar, saved, at, hand, batch>>

DropAsideEnds ==
    /\ at = "dropAside" /\ aside[req] = "part"
    /\ aside' = [aside EXCEPT ![req] = "absent"]
    /\ Arrives
    /\ Over
    /\ UNCHANGED <<entry, entryLink, outside, outsideLink, library, staging, sidecar, saved>>

-----------------------------------------------------------------------------
(* The end of GiveBack: TheOtherProgramTakesItsFolderBack, RepointTheLinks. *)

\* The link under the other program's name goes, when there is one.
Clear ==
    /\ at = "clear"
    /\ outsideLink' = [outsideLink EXCEPT ![req] = "none"]
    /\ GoesTo("place")
    /\ UNCHANGED <<entry, entryLink, outside, aside, library, staging, sidecar, saved, batch>>

ClearFails ==
    /\ at = "clear" /\ outsideLink[req] # "none"
    /\ StagingIsRemoved
    /\ Over
    /\ UNCHANGED <<entry, entryLink, outside, outsideLink, aside, library, sidecar, saved, batch>>

\* Each entry that led to the library copy is disabled, then led to the folder.
RepointOff(q) ==
    /\ at = "repoint" /\ down = "none" /\ entryLink[q] = lib
    /\ entryLink' = [entryLink EXCEPT ![q] = "none"]
    /\ down' = q
    /\ UNCHANGED <<entry, outside, outsideLink, aside, library, staging, sidecar, saved>>
    /\ UNCHANGED <<at, req, lib, giving, batch>>

RepointOn ==
    /\ at = "repoint" /\ down # "none"
    /\ entryLink' = [entryLink EXCEPT ![down] = req]
    /\ down' = "none"
    /\ UNCHANGED <<entry, outside, outsideLink, aside, library, staging, sidecar, saved>>
    /\ UNCHANGED <<at, req, lib, giving, batch>>

RepointedTheFirst ==
    /\ at = "repoint" /\ down = "none"
    /\ GoesTo("dropLibrary")
    /\ UNCHANGED <<disk, saved, batch>>

Repointed ==
    /\ at = "repoint" /\ down = "none"
    /\ \A q \in Request : entryLink[q] # lib
    /\ GoesTo("dropLibrary")
    /\ UNCHANGED <<disk, saved, batch>>

DropSomeOfLibrary ==
    /\ at = "dropLibrary" /\ library[lib] # "absent"
    /\ library' = [library EXCEPT ![lib] = "part"]
    /\ UNCHANGED <<entry, entryLink, outside, outsideLink, aside, staging, sidecar, saved, at, hand, batch>>

DropLibraryEndsUnnamed ==
    /\ at = "dropLibrary" /\ library[lib] = "part"
    /\ library' = [library EXCEPT ![lib] = "absent"]
    /\ at' = "went" /\ EmptyHanded
    /\ UNCHANGED <<entry, entryLink, outside, outsideLink, aside, staging, sidecar, saved, batch>>

DropLibraryEnds ==
    /\ at = "dropLibrary" /\ library[lib] = "part"
    /\ library' = [library EXCEPT ![lib] = "absent"]
    /\ GoesTo("forget")
    /\ UNCHANGED <<entry, entryLink, outside, outsideLink, aside, staging, sidecar, saved, batch>>

\* ImportService::GiveBack forgets the record beside the folder; a failure is ignored.
Forget ==
    /\ at = "forget"
    /\ \E text \in {sidecar[lib], "none"} : sidecar' = [sidecar EXCEPT ![lib] = text]
    /\ at' = "went"
    /\ UNCHANGED <<entry, entryLink, outside, outsideLink, aside, library, staging, saved, hand, batch>>

-----------------------------------------------------------------------------
(* What the window does when the worker is done, and what a crash undoes.  *)

AdoptOnlyThis ==
    /\ at = "batch" /\ todo = {}
    /\ origins' = [t \in Target |->
           IF \E r \in arrived \cap External : TargetOf[r] = t
           THEN CHOOSE r \in arrived \cap External : TargetOf[r] = t
           ELSE "none"]
    /\ at' = "idle"
    /\ arrived' = {} /\ occupied' = {}
    /\ UNCHANGED <<disk, announced, copied, hand, todo>>

\* ImportViewModel::Adopt: the profile remembers what succeeded, and only that.
Adopt ==
    /\ at = "batch" /\ todo = {}
    /\ origins' = [t \in Target |->
           IF \E r \in arrived \cap External : TargetOf[r] = t
           THEN CHOOSE r \in arrived \cap External : TargetOf[r] = t
           ELSE origins[t]]
    /\ at' = "idle"
    /\ arrived' = {} /\ occupied' = {}
    /\ UNCHANGED <<disk, announced, copied, hand, todo>>

\* ImportViewModel::AdoptWhatWentBack
AdoptWhatWentBack ==
    /\ at = "went"
    /\ origins' = [origins EXCEPT ![lib] = "none"]
    /\ at' = "idle" /\ EmptyHanded
    /\ UNCHANGED <<disk, announced, copied, batch>>

Crash ==
    /\ at # "idle"
    /\ at' = "idle" /\ EmptyHanded
    /\ todo' = {} /\ occupied' = {} /\ arrived' = {}
    /\ UNCHANGED <<disk, saved>>

Next ==
    \/ StartImport \/ StopBatch \/ Adopt \/ AdoptWhatWentBack \/ Crash
    \/ \E r \in Request : TakeRequest(r) \/ RefuseRequest(r) \/ UndoSwap(r)
    \/ \E t \in Target : StartGiveBack(t) \/ Resume(t)
    \/ \E f \in Folder : DiscardStaging(f)
    \/ Announce \/ BeginCopy \/ CopyFails \/ CopyIsCancelled \/ CopyCompletes \/ RecordCopy
    \/ VerifyPasses \/ VerifyFails \/ VerifyIsCancelled
    \/ PlaceFails \/ PlaceInLibrary \/ PlaceOutside
    \/ RemoveSomeOfSource \/ RemoveSourceEnds \/ LinkEntry \/ StepFails
    \/ Prepare \/ PrepareFails \/ MoveAside \/ StandIn \/ StandInFails \/ MoveBack
    \/ Unlink \/ Relink \/ DropSomeOfAside \/ DropAsideEnds
    \/ Clear \/ ClearFails \/ (\E q \in Request : RepointOff(q)) \/ RepointOn
    \/ Repointed \/ DropSomeOfLibrary \/ DropLibraryEnds \/ Forget

Spec == Init /\ [][Next]_vars

-----------------------------------------------------------------------------
(* Properties *)

\* The whole trees under a name a person or a program looks for. Stagings are
\* not counted: recovery throws them away.
Originals == {entry[q] : q \in Request} \cup {outside[q] : q \in Request} \cup {aside[q] : q \in Request}
Copies == {library[t] : t \in Target}

\* Whatever fails, is cancelled or crashes, each addon is whole somewhere it
\* will be looked for (ImportEngine::Import, GiveBack, and every recovery).
NothingIsLost == Request \subseteq Originals \cup Copies

\* "The original is removed only after the copy has been verified", in both
\* directions: an addon gains a holder or loses one, and a side lets go of it
\* only while the other has it whole. No folder is ever replaced by another.
C == INSTANCE Custody WITH Addon <- Request,
                           theirs <- Originals \cap Request,
                           ours <- Copies \cap Request
Custody == C!Spec

\* No link leads into a library place that is empty or half removed, whichever
\* step of a take-over or a give back failed (RepointTheLinks, RemoveTree).
LinksLeadToWholeAddons ==
    \A q \in Request : \A l \in {entryLink[q], outsideLink[q]} \cap Target :
        library[l] \notin {"absent", "part"}

\* When nothing stands under the other program's name, its folder is whole in
\* the swap slot beside it, or the profile still knows that the library copy is
\* its, so that giving it back can be tried again.
TheOtherProgramCanGetItBack ==
    \A r \in External : outside[r] = "absent" /\ outsideLink[r] = "none" =>
        aside[r] = r \/ \E t \in Target : library[t] = r /\ origins[t] = r

\* A half copy beside another program's folder, which no sweep of the libraries
\* meets, is always one that Leftovers lists.
BesideOthersIsListed == \A r \in Request : staging[r] # "absent" => Listed(r)

\* An import reported as completed left the addon in the library, its entry
\* enabled, the record beside it when it was another program's, and no residue.
CompletedIsComplete ==
    \A r \in arrived :
        /\ library[TargetOf[r]] # "absent" /\ entryLink[r] = TargetOf[r]
        /\ staging[TargetOf[r]] = "absent" /\ entry[r] = "absent"
        /\ r \in External => /\ outsideLink[r] = TargetOf[r] /\ aside[r] = "absent"
                             /\ sidecar[TargetOf[r]] = r

-----------------------------------------------------------------------------
(* What the documents and tests say of recovery, and the code does not do. *)

\* manual/fs-organizer-en.tex: "Cancelling deletes nothing: what was already
\* copied is kept, so the import can be resumed later."
CancellingDeletesNothing ==
    [][CopyIsCancelled \/ VerifyIsCancelled => staging'[Destination] # "absent"]_vars

\* tst_import_service.cpp, ASwapThatDiedHalfwayIsFoundInTheOtherProgramsFolder:
\* a folder left under its temporary name is one InterruptedSwaps finds.
ALostSwapIsFound ==
    \A r \in Request : at = "idle" /\ aside[r] # "absent" /\ outside[r] = "absent"
                          /\ outsideLink[r] = "none" => Interrupted(r)

\* tst_import_service.cpp, ALeftoverOfAnExternalImportKnowsTheEntryItWasImportingFrom:
\* "a crash during the copy is still resumable" for a leftover whose take-over
\* the journal announced, while its folder is as it was.
ACrashDuringTheCopyIsResumable ==
    \A t \in Target : /\ at = "idle" /\ staging[t] # "absent"
                      /\ announced[t] # "none"
                      /\ SourceIsAsRequested(announced[t])
                      => LeftoverCanBeImported(t)
=============================================================================
