------------------------------ MODULE Session ------------------------------
(***************************************************************************)
(* The session: the profile on screen and what was read from disk for it   *)
(* (Session.cpp).  Every handler runs on the window's thread; scans, reads  *)
(* of the entries, link batches and registrations run in threads of their  *)
(* own and hand their result back to that thread when they end.            *)
(*                                                                         *)
(* A profile is its id and the edits it carries.  What a read found is the *)
(* set of link batches whose effect it saw.  The counters profileChanges_  *)
(* and snapshotsAdopted_ are only ever compared with an earlier value of   *)
(* theirs, so work in flight carries "fresh": nothing was counted since.   *)
(***************************************************************************)
EXTENDS Naturals
CONSTANTS
    Profile,       \* ids of the profiles in settings.json
    Edit,          \* what the user edits: the libraries (Unregister, Repoint, a
                   \* reorganization), the library a worker registers, where an
                   \* addon came from, an override
    Batch,         \* view models that change links, each with a worker of its own
    None,
    SavesCanFail,  \* whether writing settings.json may fail
    MaxAsks        \* bound: how many things the user asks for

Value == [id : Profile, edits : SUBSET Edit]

ASSUME SessionAssumption ==
    /\ Edit \subseteq {"library", "registration", "origin", "override"}
    /\ SavesCanFail \in BOOLEAN /\ MaxAsks \in Nat
    /\ None \notin Profile \cup Batch \cup Value


VARIABLES
    profiles, stored, active,  \* settings_: the ids, their edits, activeProfileId
    profile,                   \* profile_
    snapshot,                  \* snapshot_: the profile its trees were read for, what it saw
    scanning, scanned, queued, \* the scan in flight, what its worker read, the next one
    refresh, again,            \* the entries read in flight, readEntriesAgain_
    batch,                     \* the link batch each view model has in flight
    registration,              \* the library registration in flight
    disk,                      \* the batches whose links are on disk
    asks

settings == <<profiles, stored, active>>
scan == <<scanning, scanned, queued>>
reads == <<refresh, again>>
vars == <<settings, profile, snapshot, scan, reads, batch, registration, disk, asks>>

Maybe(S) == S \cup {None}
Seen == SUBSET Batch
Read == [of : Value, fresh : BOOLEAN, saw : Maybe(Seen)]
Report == {"awaited", "Accepted", "RejectedInsideAnotherLibrary"}

TypeOK ==
    /\ profiles \subseteq Profile /\ active \in profiles
    /\ stored \in [Profile -> SUBSET Edit]
    /\ profile \in Value
    /\ snapshot \in [of : Value, saw : Seen]
    /\ scanning \in Maybe(Value) /\ scanned \in Maybe(Seen) /\ queued \in Maybe(Value)
    /\ refresh \in Maybe(Read) /\ again \in BOOLEAN
    /\ batch \in [Batch -> Maybe([of : Value, fresh : BOOLEAN, before : Maybe(Seen), saw : Maybe(Seen)])]
    /\ registration \in Maybe([of : Value, fresh : BOOLEAN, report : Report])
    /\ disk \in Seen /\ asks \in 0..MaxAsks

\* The first scan of the profile in use has landed.
Init ==
    /\ profiles = Profile /\ active \in Profile
    /\ stored = [p \in Profile |-> {}]
    /\ profile = [id |-> active, edits |-> {}]
    /\ snapshot = [of |-> profile, saw |-> {}]
    /\ scanning = None /\ scanned = None /\ queued = None
    /\ refresh = None /\ again = FALSE
    /\ batch = [b \in Batch |-> None] /\ registration = None
    /\ disk = {} /\ asks = 0

-----------------------------------------------------------------------------
(* What the handlers share. *)

Asks == asks < MaxAsks /\ asks' = asks + 1

\* (The slips named here and below are the mutants the runs are tested with.)
LatestProfileOnScreen == profile

LatestProfile == IF profile.id \in profiles THEN [profile EXCEPT !.edits = stored[profile.id]] ELSE profile

With(p, e) == [p EXCEPT !.edits = @ \cup {e}]

\* What was in flight when something was counted.
Stale(r) == IF r = None THEN None ELSE [r EXCEPT !.fresh = FALSE]

\* ++profileChanges_ and ++snapshotsAdopted_
ProfileChanges == registration' = Stale(registration)
SnapshotIsAdopted(B) == batch' = [b \in Batch |-> Stale(B[b])]

Scan(p) ==
    IF scanning # None
    THEN queued' = p /\ UNCHANGED <<scanning, scanned>>
    ELSE scanning' = p /\ scanned' = None /\ UNCHANGED queued

Save(p) ==
    /\ ProfileChanges
    /\ \/ stored' = IF p.id \in profiles THEN [stored EXCEPT ![p.id] = p.edits] ELSE stored
       \/ SavesCanFail /\ UNCHANGED stored
    /\ UNCHANGED <<profiles, active>>

KeepWithoutAScan(p) ==
    /\ Save(p)
    /\ profile' = p /\ UNCHANGED scan

Keep(p) ==
    /\ Save(p)
    /\ IF scanning # None
       THEN Scan(p) /\ UNCHANGED profile
       ELSE profile' = p /\ UNCHANGED scan

\* The start of a read of the entries, unless one is in flight.
RefreshEntries(r, p) ==
    IF r # None
    THEN again' = TRUE /\ refresh' = r
    ELSE again' = FALSE /\ refresh' = [of |-> p, fresh |-> TRUE, saw |-> None]

\* SameEntriesComeOutOf: overrides do not matter to what the entries are.
SameEntriesComeOutOf(p, q) == p.id = q.id /\ p.edits \ {"override"} = q.edits \ {"override"}

StillCurrentWhateverWasAdopted(r) == SameEntriesComeOutOf(r.of, profile)

StillCurrent(r) == r.fresh /\ SameEntriesComeOutOf(r.of, profile)

-----------------------------------------------------------------------------
(* The user, and the handlers that end with a scan. *)

ShowActiveProfile ==
    /\ Asks
    /\ ProfileChanges
    /\ Scan([id |-> active, edits |-> stored[active]])
    /\ UNCHANGED <<settings, profile, snapshot, reads, batch, disk>>

ChooseProfile(p) ==
    /\ p \in profiles
    /\ Asks
    /\ active' = p
    /\ ProfileChanges
    /\ Scan([id |-> p, edits |-> stored[p]])
    /\ UNCHANGED <<profiles, stored, profile, snapshot, reads, batch, disk>>

RemoveProfileInUse(p) ==
    /\ Asks
    /\ p \in profiles /\ profiles # {p}
    /\ profiles' = profiles \ {p}
    /\ UNCHANGED <<active, registration, scan, stored, profile, snapshot, reads, batch, disk>>

RemoveProfile(p) ==
    /\ Asks
    /\ p \in profiles /\ profiles # {p}
    /\ profiles' = profiles \ {p}
    /\ IF p = active
       THEN /\ active' \in profiles'
            /\ ProfileChanges
            /\ Scan([id |-> active', edits |-> stored[active']])
       ELSE UNCHANGED <<active, registration, scan>>
    /\ UNCHANGED <<stored, profile, snapshot, reads, batch, disk>>

ChangeTheLibrariesWithoutAScan ==
    /\ Asks
    /\ "library" \in Edit \ LatestProfile.edits
    /\ Keep(With(LatestProfile, "library"))
    /\ UNCHANGED <<snapshot, reads, batch, disk>>

\* UnregisterLibrary, RepointDestination and AdoptTheReorganization
ChangeTheLibraries ==
    /\ Asks
    /\ "library" \in Edit \ LatestProfile.edits
    /\ Save(With(LatestProfile, "library"))
    /\ Scan(With(LatestProfile, "library"))
    /\ UNCHANGED <<profile, snapshot, reads, batch, disk>>

\* CreateCategory, AdoptTheStructureOf and TakeBackTheMarkersOf save nothing.
ChangeTheCategories ==
    /\ Asks
    /\ Scan(LatestProfile)
    /\ UNCHANGED <<settings, profile, snapshot, reads, batch, registration, disk>>

OverrideDestination ==
    /\ Asks
    /\ "override" \in Edit \ LatestProfile.edits
    /\ Keep(With(LatestProfile, "override"))
    /\ UNCHANGED <<snapshot, reads, batch, disk>>

\* DropOverridesPointingNowhere reads the entries again as well.
DropOverrides ==
    /\ Asks
    /\ "override" \in Edit \ LatestProfile.edits
    /\ Keep(With(LatestProfile, "override"))
    /\ RefreshEntries(refresh, profile')
    /\ UNCHANGED <<snapshot, batch, disk>>

\* RememberWhatCameFromAnotherProgram, or Forget..., and the scan that follows.
RememberTheOrigin ==
    LET next == With(LatestProfile, "origin") IN
    /\ Asks
    /\ "origin" \in Edit \ LatestProfile.edits
    /\ Save(next)
    /\ profile' = IF scanning # None THEN profile ELSE next
    /\ Scan([id |-> active, edits |-> stored'[active]])
    /\ UNCHANGED <<snapshot, reads, batch, disk>>

RequestRefresh ==
    /\ Asks
    /\ RefreshEntries(refresh, profile)
    /\ UNCHANGED <<settings, profile, snapshot, scan, batch, registration, disk>>

-----------------------------------------------------------------------------
(* Registering a library, or importing a legacy one, in a worker. *)

\* A registration on the latest profile, at the changes counted until now.
Registration == [of |-> LatestProfile, fresh |-> TRUE, report |-> "awaited"]

BeginRegistration ==
    /\ Asks
    /\ registration = None /\ "registration" \in Edit
    /\ registration' = Registration
    /\ UNCHANGED <<settings, profile, snapshot, scan, reads, batch, disk>>

\* A profile that has the library already takes no other inside it.
RegisterLibraryOn ==
    /\ registration # None /\ registration.report = "awaited"
    /\ registration' = [registration EXCEPT
         !.report = IF "registration" \in registration.of.edits
                    THEN "RejectedInsideAnotherLibrary" ELSE "Accepted",
         !.of = With(@, "registration")]
    /\ UNCHANGED <<settings, profile, snapshot, scan, reads, batch, disk, asks>>

AdoptAStaleRegistration ==
    /\ registration # None /\ registration.report = "Accepted"
    /\ stored' = IF registration.of.id \in profiles
                 THEN [stored EXCEPT ![registration.of.id] = registration.of.edits] ELSE stored
    /\ Scan(registration.of)
    /\ registration' = None
    /\ UNCHANGED <<profiles, active, profile, snapshot, reads, batch, disk, asks>>

AdoptTheRegistration ==
    /\ registration # None /\ registration.report = "Accepted"
    /\ registration.fresh
    /\ \/ stored' = IF registration.of.id \in profiles
                    THEN [stored EXCEPT ![registration.of.id] = registration.of.edits] ELSE stored
       \/ SavesCanFail /\ UNCHANGED stored
    /\ Scan(registration.of)
    /\ registration' = None
    /\ UNCHANGED <<profiles, active, profile, snapshot, reads, batch, disk, asks>>

\* Nothing was registered: nothing is saved and nothing is scanned.  An import
\* that found nothing does not ask whether the profile changed meanwhile.
NothingIsRegistered ==
    /\ registration # None /\ registration.report = "RejectedInsideAnotherLibrary"
    /\ registration' = None
    /\ UNCHANGED <<settings, profile, snapshot, scan, reads, batch, disk, asks>>

RefusedAsItStarted ==
    /\ registration # None /\ registration.report # "awaited" /\ ~registration.fresh
    /\ registration' = [registration EXCEPT !.report = "awaited"]
    /\ UNCHANGED <<settings, profile, snapshot, scan, reads, batch, disk, asks>>

\* Something was saved, or another profile shown, since it began: the view model
\* that asked for it begins it again, by itself, on the latest profile.
RefuseTheRegistration ==
    /\ registration # None /\ registration.report # "awaited" /\ ~registration.fresh
    /\ registration' = Registration
    /\ UNCHANGED <<settings, profile, snapshot, scan, reads, batch, disk, asks>>

-----------------------------------------------------------------------------
(* The workers, and the handlers of their results. *)

\* ProfileService::Scan reads the entries once the trees are read.
ScanReads ==
    /\ scanning # None /\ scanned = None
    /\ scanned' = disk
    /\ UNCHANGED <<settings, profile, snapshot, scanning, queued, reads, batch, registration, disk, asks>>

\* A scan that was overtaken hands over to the next one, whatever it read.
AdoptNothing ==
    /\ scanning # None /\ queued # None
    /\ scanning' = queued /\ queued' = None /\ scanned' = None
    /\ UNCHANGED <<settings, profile, snapshot, reads, batch, registration, disk, asks>>

Adopt ==
    /\ scanning # None /\ queued = None /\ scanned # None
    /\ profile' = scanning
    /\ snapshot' = [of |-> scanning, saw |-> scanned]
    /\ refresh' = Stale(refresh)
    /\ SnapshotIsAdopted(batch)
    /\ scanning' = None /\ scanned' = None
    /\ UNCHANGED <<settings, queued, again, registration, disk, asks>>

ReadEntries ==
    /\ refresh # None /\ refresh.saw = None
    /\ refresh' = [refresh EXCEPT !.saw = disk]
    /\ UNCHANGED <<settings, profile, snapshot, scan, again, batch, registration, disk, asks>>

FinishTheRefresh ==
    /\ refresh # None /\ refresh.saw # None
    /\ snapshot' = IF StillCurrent(refresh) THEN [snapshot EXCEPT !.saw = refresh.saw] ELSE snapshot
    /\ IF again
       THEN RefreshEntries(None, profile)
       ELSE refresh' = None /\ again' = FALSE
    /\ UNCHANGED <<settings, profile, scan, batch, registration, disk, asks>>

\* SetEnabled, UndoLastBatch, Repair and the presets: the worker reads the
\* entries, changes links, and derives what the entries are afterwards.
StartBatch(b) ==
    /\ Asks
    /\ batch[b] = None /\ b \notin disk
    /\ batch' = [batch EXCEPT ![b] = [of |-> profile, fresh |-> TRUE, before |-> None, saw |-> None]]
    /\ UNCHANGED <<settings, profile, snapshot, scan, reads, registration, disk>>

BatchReads(b) ==
    /\ batch[b] # None /\ batch[b].before = None
    /\ batch' = [batch EXCEPT ![b].before = disk]
    /\ UNCHANGED <<settings, profile, snapshot, scan, reads, registration, disk, asks>>

BatchLinks(b) ==
    /\ batch[b] # None /\ batch[b].before # None /\ batch[b].saw = None
    /\ disk' = disk \cup {b}
    /\ batch' = [batch EXCEPT ![b].saw = batch[b].before \cup {b}]
    /\ UNCHANGED <<settings, profile, snapshot, scan, reads, registration, asks>>

AdoptTheEntriesRead(b) ==
    /\ batch[b] # None /\ batch[b].saw # None
    /\ IF StillCurrent(batch[b])
       THEN /\ snapshot' = [snapshot EXCEPT !.saw = batch[b].saw]
            /\ SnapshotIsAdopted([batch EXCEPT ![b] = None])
            /\ refresh' = Stale(refresh) /\ UNCHANGED again
       ELSE /\ RefreshEntries(refresh, profile)
            /\ batch' = [batch EXCEPT ![b] = None]
            /\ UNCHANGED snapshot
    /\ UNCHANGED <<settings, profile, scan, registration, disk, asks>>

-----------------------------------------------------------------------------
User ==
    \/ ShowActiveProfile \/ ChangeTheLibraries \/ ChangeTheCategories \/ OverrideDestination
    \/ DropOverrides \/ RememberTheOrigin \/ RequestRefresh \/ BeginRegistration
    \/ \E p \in Profile : ChooseProfile(p) \/ RemoveProfile(p)
    \/ \E b \in Batch : StartBatch(b)

Lands ==
    \/ RegisterLibraryOn \/ AdoptTheRegistration \/ NothingIsRegistered \/ RefuseTheRegistration
    \/ ScanReads \/ AdoptNothing \/ Adopt \/ ReadEntries \/ FinishTheRefresh
    \/ \E b \in Batch : BatchReads(b) \/ BatchLinks(b) \/ AdoptTheEntriesRead(b)

Next == User \/ Lands

\* Threads that were started run, and the window's thread handles what they post.
Spec == Init /\ [][Next]_vars /\ WF_vars(Lands)

-----------------------------------------------------------------------------
(* Properties *)

AtRest ==
    /\ scanning = None /\ refresh = None /\ registration = None
    /\ \A b \in Batch : batch[b] = None

\* No registration or import that ends in a worker, and no edit on the profile
\* on screen, takes a saved edit away (LatestProfile, profileChanges_); a profile
\* that was removed stays removed.
NoSavedEditIsLost ==
    [][profiles' \subseteq profiles /\ \A p \in profiles' : stored[p] \subseteq stored'[p]]_vars

\* Once the scans have landed the profile on screen is the one in settings.json,
\* with every edit saved while they ran (Keep, Scan, queued_).
AtRestTheProfileIsSaved ==
    scanning = None /\ profile.id \in profiles => profile.edits = stored[profile.id]

\* An edit made on a profile stays on it: no scan started earlier, no read and no
\* other edit brings back the profile as it was.
AppliedEditsStay ==
    [][profile'.id = profile.id /\ profile.id \in profiles' => profile.edits \subseteq profile'.edits]_vars

\* The trees on screen and the profile land together (Adopt): both are of the
\* same profile with the same libraries, and once the scans have landed with the
\* same origins.
TheyLandTogether ==
    /\ snapshot.of.id = profile.id
    /\ \A e \in {"library", "registration"} : e \in snapshot.of.edits <=> e \in profile.edits
    /\ scanning = None => SameEntriesComeOutOf(snapshot.of, profile)

\* A refresh that was overtaken by a scan or a batch is dropped: it never hides the
\* effect of a batch already on screen (EntriesStamp::adoptions).
ARefreshNeverGoesBack == [][FinishTheRefresh => snapshot.saw \subseteq snapshot'.saw]_vars

\* Handlers that start work when work ends always stop doing so: no read asks for
\* the next forever, no registration is refused and begun again forever
\* (profileChanges_), and no request is left waiting (readEntriesAgain_, queued_).
EverythingLands == <>[](AtRest /\ queued = None /\ ~again)

(* What the documents and tests say, and the code does not do. *)

\* manual/fs-organizer-en.tex: "The program only changes the profile in use,
\* which you choose": once all has landed, the one on screen is the one chosen.
TheChosenProfileIsShown == AtRest => profile.id = active

\* tst_session.cpp: EntriesReadBeforeAnotherAdoptionAreDiscardedAndTheCurrentOneIsRead
TheCurrentEntriesAreRead == AtRest => snapshot.saw = disk
=============================================================================
