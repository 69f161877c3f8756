--------------------------- MODULE SessionProofs ---------------------------
(***************************************************************************)
(* That the session keeps settings, screen and disk in step, proved for any *)
(* profiles, view models and number of requests: no saved edit is lost and   *)
(* no refresh goes back whatever the saves do, and where saves succeed the   *)
(* profile at rest is the saved one and lands together with its trees.      *)
(***************************************************************************)
EXTENDS Session, TLAPS

Registering == [of : Value, fresh : BOOLEAN, report : Report]
Linking == [of : Value, fresh : BOOLEAN, before : Maybe(Seen), saw : Maybe(Seen)]

\* Nothing is registered where registrations are not among the edits.
OnlyLibrariesAreRegistered == registration # None => "registration" \in Edit

\* A registration that may still be adopted carries every edit that is saved.
TheRegistrationKnowsTheEdits ==
    registration # None /\ registration.fresh /\ registration.of.id \in profiles =>
        stored[registration.of.id] \subseteq registration.of.edits

\* Whatever was read is on disk, and a read nothing overtook saw what is on screen.
ReadsAreOfTheDisk ==
    /\ snapshot.saw \subseteq disk
    /\ scanned # None => scanned \subseteq disk
    /\ refresh # None /\ refresh.saw # None =>
         refresh.saw \subseteq disk /\ (refresh.fresh => snapshot.saw \subseteq refresh.saw)
    /\ \A b \in Batch : batch[b] # None =>
         /\ batch[b].before # None => batch[b].before \subseteq disk
         /\ batch[b].saw # None => batch[b].saw \subseteq disk

IInv == TypeOK /\ OnlyLibrariesAreRegistered /\ TheRegistrationKnowsTheEdits /\ ReadsAreOfTheDisk

\* A profile that settings.json still holds is as it is saved there.
Saved(p) == p.id \in profiles => p.edits = stored[p.id]

\* The last scan that was asked for is of a profile as it is saved, and the profile
\* on screen has no edit that is not saved.
TheLastScanIsOfWhatIsSaved ==
    /\ scanning # None => Saved(IF queued # None THEN queued ELSE scanning)
    /\ queued # None => scanning # None
    /\ profile.id \in profiles => profile.edits \subseteq stored[profile.id]

\* What holds where every save succeeds.
SavedInv == IInv /\ TheLastScanIsOfWhatIsSaved /\ AtRestTheProfileIsSaved /\ TheyLandTogether

-----------------------------------------------------------------------------
\* An edit of a profile is a profile.
LEMMA WithType == ASSUME NEW p \in Value, NEW e \in Edit PROVE With(p, e) \in Value
  BY DEF With, Value

\* What settings.json says of the profile on screen is a profile.
LEMMA LatestType == TypeOK => LatestProfile \in Value /\ LatestProfile.id = profile.id
  BY DEF TypeOK, LatestProfile, Value

\* What is begun is a registration on the latest profile, with every edit saved of it.
LEMMA RegistrationType ==
  TypeOK => /\ Registration \in Registering
            /\ Registration.of.id \in profiles => Registration.of.edits = stored[Registration.of.id]
<1> SUFFICES ASSUME TypeOK
             PROVE  /\ Registration \in Registering
                    /\ Registration.of.id \in profiles => Registration.of.edits = stored[Registration.of.id]
  OBVIOUS
<1>1. Registration \in Registering
  BY LatestType DEF Registration, Registering, Report
<1>2. LatestProfile.id \in profiles => LatestProfile.edits = stored[LatestProfile.id]
  BY DEF TypeOK, LatestProfile, Value
<1> QED
  BY <1>1, <1>2 DEF Registration

\* What is saved of a profile in settings.json is one.
LEMMA StoredType ==
  ASSUME TypeOK, NEW p \in profiles
  PROVE  [id |-> p, edits |-> stored[p]] \in Value
  BY DEF TypeOK, Value

\* A scan that is asked for is queued or begins.
LEMMA ScanType ==
  ASSUME TypeOK, NEW p \in Value, Scan(p)
  PROVE  scanning' \in Maybe(Value) /\ scanned' \in Maybe(Seen) /\ queued' \in Maybe(Value)
  BY DEF TypeOK, Scan, Maybe

\* What was in flight only stops being fresh.
LEMMA StaleType ==
  /\ \A r \in Maybe(Read) : Stale(r) \in Maybe(Read)
  /\ \A r \in Maybe(Registering) : Stale(r) \in Maybe(Registering)
  /\ \A r \in Maybe(Linking) : Stale(r) \in Maybe(Linking)
  BY DEF Stale, Maybe, Read, Registering, Linking

\* A save changes the edits of one profile in settings.json, or fails.
LEMMA SaveType ==
  ASSUME TypeOK, NEW p \in Value, Save(p)
  PROVE  /\ profiles' = profiles /\ active' = active
         /\ stored' \in [Profile -> SUBSET Edit]
         /\ registration' \in Maybe(Registering)
<1>1. registration \in Maybe(Registering)
  BY DEF TypeOK, Registering
<1>2. registration' \in Maybe(Registering)
  BY <1>1, StaleType DEF Save, ProfileChanges
<1>3. p.edits \in SUBSET Edit
  BY DEF Value
<1> QED
  BY <1>2, <1>3 DEF TypeOK, Save

\* A profile that is kept is shown at once, or by the scan that is queued.
LEMMA KeepType ==
  ASSUME TypeOK, NEW p \in Value, Keep(p)
  PROVE  /\ profiles' = profiles /\ active' = active
         /\ stored' \in [Profile -> SUBSET Edit]
         /\ registration' \in Maybe(Registering)
         /\ scanning' \in Maybe(Value) /\ scanned' \in Maybe(Seen) /\ queued' \in Maybe(Value)
         /\ profile' \in Value
<1>1. Save(p)
  BY DEF Keep
<1>2. CASE Scan(p) /\ profile' = profile
  BY <1>1, <1>2, SaveType, ScanType DEF TypeOK
<1>3. CASE profile' = p /\ UNCHANGED scan
  BY <1>1, <1>3, SaveType DEF TypeOK, scan
<1> QED
  BY <1>2, <1>3 DEF Keep

\* A read of the entries that is asked for begins, or the one in flight goes on.
LEMMA RefreshType ==
  ASSUME NEW r \in Maybe(Read), NEW p \in Value, again \in BOOLEAN, RefreshEntries(r, p)
  PROVE  refresh' \in Maybe(Read) /\ again' \in BOOLEAN
<1>1. [of |-> p, fresh |-> TRUE, saw |-> None] \in Read
  BY DEF Read, Maybe
<1> QED
  BY <1>1 DEF RefreshEntries, Maybe

\* Every handler and every worker keeps the kinds of values the variables hold.
LEMMA TypeStep == TypeOK /\ OnlyLibrariesAreRegistered /\ [Next]_vars => TypeOK'
<1> SUFFICES ASSUME TypeOK, OnlyLibrariesAreRegistered, [Next]_vars PROVE TypeOK'
  OBVIOUS
<1>t. /\ batch \in [Batch -> Maybe(Linking)] /\ registration \in Maybe(Registering)
      /\ profile \in Value /\ refresh \in Maybe(Read) /\ LatestProfile \in Value
      /\ scanning \in Maybe(Value)
  BY LatestType DEF TypeOK, Linking, Registering
<1>q. ASSUME Asks PROVE asks' \in 0..MaxAsks
  BY <1>q, SessionAssumption DEF Asks, TypeOK
<1> USE DEF settings, scan, reads, Registering, Linking
<1>1. CASE ShowActiveProfile
  <2>1. [id |-> active, edits |-> stored[active]] \in Value
    BY StoredType DEF TypeOK
  <2> QED
    BY <1>1, <1>q, <1>t, <2>1, ScanType, StaleType DEF ShowActiveProfile, ProfileChanges, TypeOK
<1>2. CASE ChangeTheLibraries
  <2>1. With(LatestProfile, "library") \in Value
    BY <1>2, <1>t, WithType DEF ChangeTheLibraries
  <2>2. Save(With(LatestProfile, "library")) /\ Scan(With(LatestProfile, "library"))
    BY <1>2 DEF ChangeTheLibraries
  <2>3. /\ profiles' = profiles /\ active' = active /\ stored' \in [Profile -> SUBSET Edit]
        /\ registration' \in Maybe(Registering)
    BY <2>1, <2>2, SaveType
  <2>4. scanning' \in Maybe(Value) /\ scanned' \in Maybe(Seen) /\ queued' \in Maybe(Value)
    BY <2>1, <2>2, ScanType
  <2> QED
    BY <1>2, <1>q, <2>3, <2>4 DEF ChangeTheLibraries, TypeOK
<1>3. CASE ChangeTheCategories
  BY <1>3, <1>q, <1>t, ScanType DEF ChangeTheCategories, TypeOK
<1>4. CASE OverrideDestination
  <2>1. With(LatestProfile, "override") \in Value
    BY <1>4, <1>t, WithType DEF OverrideDestination
  <2>2. /\ profiles' = profiles /\ active' = active /\ stored' \in [Profile -> SUBSET Edit]
        /\ registration' \in Maybe(Registering)
        /\ scanning' \in Maybe(Value) /\ scanned' \in Maybe(Seen) /\ queued' \in Maybe(Value)
        /\ profile' \in Value
    BY <1>4, <2>1, KeepType DEF OverrideDestination
  <2> QED
    BY <1>4, <1>q, <2>2 DEF OverrideDestination, TypeOK
<1>5. CASE DropOverrides
  <2>1. With(LatestProfile, "override") \in Value
    BY <1>5, <1>t, WithType DEF DropOverrides
  <2>2. /\ profiles' = profiles /\ active' = active /\ stored' \in [Profile -> SUBSET Edit]
        /\ registration' \in Maybe(Registering)
        /\ scanning' \in Maybe(Value) /\ scanned' \in Maybe(Seen) /\ queued' \in Maybe(Value)
        /\ profile' \in Value
    BY <1>5, <2>1, KeepType DEF DropOverrides
  <2>3. refresh' \in Maybe(Read) /\ again' \in BOOLEAN
    BY <1>5, <1>t, <2>2, RefreshType DEF DropOverrides, TypeOK
  <2> QED
    BY <1>5, <1>q, <2>2, <2>3 DEF DropOverrides, TypeOK
<1>6. CASE RememberTheOrigin
  <2>1. With(LatestProfile, "origin") \in Value
    BY <1>6, <1>t, WithType DEF RememberTheOrigin
  <2>2. stored' \in [Profile -> SUBSET Edit] /\ UNCHANGED <<profiles, active>>
    BY <1>6, <2>1, SaveType DEF RememberTheOrigin
  <2>3. [id |-> active, edits |-> stored'[active]] \in Value
    BY <2>2 DEF TypeOK, Value
  <2>4. profile' \in Value
    BY <1>6, <1>t, <2>1 DEF RememberTheOrigin
  <2> QED
    BY <1>6, <1>q, <2>1, <2>2, <2>3, <2>4, SaveType, ScanType DEF RememberTheOrigin, TypeOK
<1>7. CASE RequestRefresh
  BY <1>7, <1>q, <1>t, RefreshType DEF RequestRefresh, TypeOK
<1>8. CASE BeginRegistration
  BY <1>8, <1>q, RegistrationType DEF BeginRegistration, TypeOK, Maybe
<1>9. ASSUME NEW p \in Profile, ChooseProfile(p) PROVE TypeOK'
  <2>1. [id |-> p, edits |-> stored[p]] \in Value
    BY <1>9, StoredType DEF ChooseProfile
  <2> QED
    BY <1>9, <1>q, <1>t, <2>1, ScanType, StaleType DEF ChooseProfile, ProfileChanges, TypeOK
<1>10. ASSUME NEW p \in Profile, RemoveProfile(p) PROVE TypeOK'
  <2>1. CASE p = active
    <3>1. active' \in profiles' /\ profiles' \subseteq profiles
      BY <1>10, <2>1 DEF RemoveProfile
    <3>2. [id |-> active', edits |-> stored[active']] \in Value
      BY <3>1, StoredType
    <3> QED
      BY <1>10, <1>q, <1>t, <2>1, <3>1, <3>2, ScanType, StaleType DEF RemoveProfile, ProfileChanges, TypeOK
  <2>2. CASE p # active
    BY <1>10, <1>q, <2>2 DEF RemoveProfile, TypeOK
  <2> QED
    BY <2>1, <2>2
<1>11. ASSUME NEW b \in Batch, StartBatch(b) PROVE TypeOK'
  <2>1. batch' \in [Batch -> Maybe(Linking)]
    BY <1>11, <1>t DEF StartBatch, Maybe
  <2> QED
    BY <1>11, <1>q, <2>1 DEF StartBatch, TypeOK
<1>12. CASE RegisterLibraryOn
  <2>1. registration \in Registering
    BY <1>12, <1>t DEF RegisterLibraryOn, Maybe
  <2>2. With(registration.of, "registration") \in Value
    BY <1>12, <2>1, WithType DEF RegisterLibraryOn, OnlyLibrariesAreRegistered
  <2>3. registration' \in Registering
    BY <1>12, <2>1, <2>2 DEF RegisterLibraryOn, Report
  <2> QED
    BY <1>12, <2>3 DEF RegisterLibraryOn, TypeOK, Maybe
<1>13. CASE AdoptTheRegistration
  <2>1. registration \in Registering
    BY <1>13, <1>t DEF AdoptTheRegistration, Maybe
  <2>2. registration.of \in Value
    BY <2>1
  <2>3. stored' \in [Profile -> SUBSET Edit]
    BY <1>13, <2>2 DEF AdoptTheRegistration, TypeOK, Value
  <2>4. scanning' \in Maybe(Value) /\ scanned' \in Maybe(Seen) /\ queued' \in Maybe(Value)
    BY <1>13, <2>2, ScanType DEF AdoptTheRegistration
  <2> QED
    BY <1>13, <2>3, <2>4 DEF AdoptTheRegistration, TypeOK, Maybe
<1>14. CASE RefuseTheRegistration
  BY <1>14, RegistrationType DEF RefuseTheRegistration, TypeOK, Maybe
<1>15. CASE ScanReads
  BY <1>15 DEF ScanReads, TypeOK, Maybe
<1>16. CASE AdoptNothing
  BY <1>16 DEF AdoptNothing, TypeOK, Maybe
<1>17. CASE Adopt
  <2>1. scanning \in Value /\ scanned \in Seen
    BY <1>17 DEF Adopt, TypeOK, Maybe
  <2>2. batch' \in [Batch -> Maybe(Linking)]
    BY <1>17, <1>t, StaleType DEF Adopt, SnapshotIsAdopted
  <2>3. refresh' \in Maybe(Read)
    BY <1>17, <1>t, StaleType DEF Adopt
  <2> QED
    BY <1>17, <2>1, <2>2, <2>3 DEF Adopt, TypeOK, Maybe
<1>18. CASE ReadEntries
  <2>1. refresh' \in Read
    BY <1>18, <1>t DEF ReadEntries, TypeOK, Maybe, Read
  <2> QED
    BY <1>18, <2>1 DEF ReadEntries, TypeOK, Maybe
<1>19. CASE FinishTheRefresh
  <2>1. refresh.saw \in Seen
    BY <1>19, <1>t DEF FinishTheRefresh, Maybe, Read
  <2>2. snapshot' \in [of : Value, saw : Seen]
    BY <1>19, <2>1 DEF FinishTheRefresh, TypeOK
  <2>3. None \in Maybe(Read)
    BY DEF Maybe
  <2>4. refresh' \in Maybe(Read) /\ again' \in BOOLEAN
    BY <1>19, <1>t, <2>3, RefreshType DEF FinishTheRefresh, TypeOK
  <2> QED
    BY <1>19, <2>2, <2>4 DEF FinishTheRefresh, TypeOK
<1>20. ASSUME NEW b \in Batch, BatchReads(b) PROVE TypeOK'
  <2>1. batch[b] \in Linking
    BY <1>20, <1>t DEF BatchReads, Maybe
  <2>2. batch' \in [Batch -> Maybe(Linking)]
    BY <1>20, <1>t, <2>1 DEF BatchReads, TypeOK, Maybe
  <2> QED
    BY <1>20, <2>2 DEF BatchReads, TypeOK
<1>21. ASSUME NEW b \in Batch, BatchLinks(b) PROVE TypeOK'
  <2>1. batch[b] \in Linking /\ batch[b].before \cup {b} \in Seen
    BY <1>21, <1>t DEF BatchLinks, Maybe, Seen
  <2>2. batch' \in [Batch -> Maybe(Linking)]
    BY <1>21, <1>t, <2>1 DEF BatchLinks, TypeOK, Maybe
  <2> QED
    BY <1>21, <2>2 DEF BatchLinks, TypeOK, Seen
<1>22. ASSUME NEW b \in Batch, AdoptTheEntriesRead(b) PROVE TypeOK'
  <2>1. batch[b].saw \in Seen
    BY <1>22, <1>t DEF AdoptTheEntriesRead, Maybe
  <2>2. [batch EXCEPT ![b] = None] \in [Batch -> Maybe(Linking)]
    BY <1>t DEF Maybe
  <2>3. CASE StillCurrent(batch[b])
    <3>1. batch' \in [Batch -> Maybe(Linking)]
      BY <1>22, <2>2, <2>3, StaleType DEF AdoptTheEntriesRead, SnapshotIsAdopted
    <3>2. refresh' \in Maybe(Read)
      BY <1>22, <1>t, <2>3, StaleType DEF AdoptTheEntriesRead
    <3>3. snapshot' \in [of : Value, saw : Seen]
      BY <1>22, <2>1, <2>3 DEF AdoptTheEntriesRead, TypeOK
    <3> QED
      BY <1>22, <2>3, <3>1, <3>2, <3>3 DEF AdoptTheEntriesRead, TypeOK
  <2>4. CASE ~StillCurrent(batch[b])
    <3>1. refresh' \in Maybe(Read) /\ again' \in BOOLEAN
      BY <1>22, <1>t, <2>4, RefreshType DEF AdoptTheEntriesRead, TypeOK
    <3> QED
      BY <1>22, <2>2, <2>4, <3>1 DEF AdoptTheEntriesRead, TypeOK
  <2> QED
    BY <2>3, <2>4
<1>23. CASE NothingIsRegistered
  BY <1>23 DEF NothingIsRegistered, TypeOK, Maybe
<1>24. CASE UNCHANGED vars
  BY <1>24 DEF vars, TypeOK
<1> QED
  BY <1>1, <1>2, <1>3, <1>4, <1>5, <1>6, <1>7, <1>8, <1>9, <1>10, <1>11, <1>12, <1>13, <1>14,
     <1>15, <1>16, <1>17, <1>18, <1>19, <1>20, <1>21, <1>22, <1>23, <1>24 DEF Next, User, Lands

-----------------------------------------------------------------------------
(* Whether saves succeed or not. *)

\* An edit of the latest profile is saved with those that were, or not at all.
LEMMA SavesGrow ==
  ASSUME TypeOK, NEW e \in Edit, Save(With(LatestProfile, e))
  PROVE  /\ \A q \in profiles : stored[q] \subseteq stored'[q]
         /\ registration' = Stale(registration) /\ profiles' = profiles
<1>1. LatestProfile.id \in profiles => LatestProfile.edits = stored[LatestProfile.id]
  BY DEF LatestProfile, TypeOK, Value
<1>2. With(LatestProfile, e).id = LatestProfile.id
      /\ With(LatestProfile, e).edits = LatestProfile.edits \cup {e}
  BY LatestType DEF With, Value
<1> QED
  BY <1>1, <1>2 DEF Save, ProfileChanges, TypeOK

\* Handlers that save, and those that count a change of the profile.
LEMMA EditsStep ==
  IInv /\ [Next]_vars =>
    /\ profiles' \subseteq profiles /\ \A p \in profiles' : stored[p] \subseteq stored'[p]
    /\ OnlyLibrariesAreRegistered' /\ TheRegistrationKnowsTheEdits'
<1> DEFINE Goal == /\ profiles' \subseteq profiles /\ \A p \in profiles' : stored[p] \subseteq stored'[p]
                   /\ OnlyLibrariesAreRegistered' /\ TheRegistrationKnowsTheEdits'
<1> SUFFICES ASSUME IInv, [Next]_vars PROVE Goal
  OBVIOUS
<1> USE DEF IInv, OnlyLibrariesAreRegistered, TheRegistrationKnowsTheEdits
<1>a. ASSUME registration' = Stale(registration), profiles' \subseteq profiles,
             \A p \in profiles' : stored[p] \subseteq stored'[p]
      PROVE  Goal
  <2>1. registration # None => registration \in Registering
    BY DEF TypeOK, Maybe, Registering
  <2> QED
    BY <1>a, <2>1 DEF Stale, Registering
<1>b. ASSUME NEW e \in Edit, Save(With(LatestProfile, e)) PROVE Goal
  BY <1>a, <1>b, SavesGrow
<1>c. ASSUME UNCHANGED <<stored, registration>>, profiles' \subseteq profiles PROVE Goal
  BY <1>c DEF TypeOK
<1>1. CASE ShowActiveProfile
  BY <1>1, <1>a DEF ShowActiveProfile, settings, ProfileChanges
<1>2. CASE ChangeTheLibraries
  BY <1>2, <1>b DEF ChangeTheLibraries
<1>3. CASE OverrideDestination
  BY <1>3, <1>b DEF OverrideDestination, Keep
<1>4. CASE DropOverrides
  BY <1>4, <1>b DEF DropOverrides, Keep
<1>5. CASE RememberTheOrigin
  BY <1>5, <1>b DEF RememberTheOrigin
<1>6. CASE BeginRegistration
  BY <1>6, RegistrationType DEF BeginRegistration, settings
<1>7. ASSUME NEW p \in Profile, ChooseProfile(p) PROVE Goal
  BY <1>7, <1>a DEF ChooseProfile, ProfileChanges
<1>8. ASSUME NEW p \in Profile, RemoveProfile(p) PROVE Goal
  BY <1>8, <1>a, <1>c DEF RemoveProfile, ProfileChanges
<1>9. CASE RegisterLibraryOn
  <2>1. registration \in Registering
    BY <1>9 DEF RegisterLibraryOn, TypeOK, Maybe, Registering
  <2> QED
    BY <1>9, <2>1 DEF RegisterLibraryOn, settings, With, Registering, Value
<1>10. CASE AdoptTheRegistration
  <2>1. registration \in Registering
    BY <1>10 DEF AdoptTheRegistration, TypeOK, Maybe, Registering
  <2> QED
    BY <1>10, <2>1 DEF AdoptTheRegistration, TypeOK, Registering, Value
<1>11. CASE RefuseTheRegistration
  BY <1>11, RegistrationType DEF RefuseTheRegistration, settings
<1>12. CASE NothingIsRegistered
  BY <1>12 DEF NothingIsRegistered, settings
<1>13. CASE UNCHANGED <<settings, registration>>
  BY <1>13, <1>c DEF settings
<1> HIDE DEF Goal
<1> QED
  BY <1>1, <1>2, <1>3, <1>4, <1>5, <1>6, <1>7, <1>8, <1>9, <1>10, <1>11, <1>12, <1>13
     DEF Next, User, Lands, vars, ChangeTheCategories, RequestRefresh, StartBatch, ScanReads,
         AdoptNothing, Adopt, ReadEntries, FinishTheRefresh, BatchReads, BatchLinks,
         AdoptTheEntriesRead

\* What is read comes from the disk, and from it only the batches of links take and add.
LEMMA ReadsStep == IInv /\ [Next]_vars => ReadsAreOfTheDisk'
<1> SUFFICES ASSUME IInv, [Next]_vars PROVE ReadsAreOfTheDisk'
  OBVIOUS
<1> USE DEF IInv, ReadsAreOfTheDisk
<1>b. \A b \in Batch : batch[b] # None => batch[b] \in Linking
  BY DEF TypeOK, Maybe, Linking
<1>r. refresh # None => refresh \in Read
  BY DEF TypeOK, Maybe
<1>1. ASSUME UNCHANGED <<snapshot, disk, batch>>, scanned' # None => scanned' \subseteq disk,
             refresh' = refresh \/ refresh' = None \/ refresh'.saw = None
      PROVE  ReadsAreOfTheDisk'
  BY <1>1
<1>2. ASSUME NEW p \in Value, Scan(p) PROVE scanned' # None => scanned' \subseteq disk
  BY <1>2 DEF Scan
<1>3. ASSUME NEW r, r = refresh \/ r = None, NEW p, RefreshEntries(r, p)
      PROVE  refresh' = refresh \/ refresh' = None \/ refresh'.saw = None
  BY <1>3 DEF RefreshEntries
<1>4. CASE ShowActiveProfile
  BY <1>4, <1>1 DEF ShowActiveProfile, Scan, reads
<1>5. CASE ChangeTheLibraries
  BY <1>5, <1>1 DEF ChangeTheLibraries, Scan, reads
<1>6. CASE ChangeTheCategories
  BY <1>6, <1>1 DEF ChangeTheCategories, Scan, reads
<1>7. CASE OverrideDestination
  BY <1>7, <1>1 DEF OverrideDestination, Keep, Scan, scan, reads
<1>8. CASE DropOverrides
  BY <1>8, <1>1, <1>3 DEF DropOverrides, Keep, Scan, scan
<1>9. CASE RememberTheOrigin
  BY <1>9, <1>1 DEF RememberTheOrigin, Scan, reads
<1>10. CASE RequestRefresh
  BY <1>10, <1>1, <1>3 DEF RequestRefresh, scan
<1>11. ASSUME NEW p \in Profile, ChooseProfile(p) PROVE ReadsAreOfTheDisk'
  BY <1>11, <1>1 DEF ChooseProfile, Scan, reads
<1>12. ASSUME NEW p \in Profile, RemoveProfile(p) PROVE ReadsAreOfTheDisk'
  BY <1>12, <1>1 DEF RemoveProfile, Scan, scan, reads
<1>13. CASE AdoptTheRegistration
  BY <1>13, <1>1 DEF AdoptTheRegistration, Scan, reads
<1>14. CASE ScanReads
  BY <1>14, <1>1 DEF ScanReads, reads
<1>15. CASE AdoptNothing
  BY <1>15, <1>1 DEF AdoptNothing, reads
<1>16. CASE Adopt
  <2>1. \A b \in Batch : batch'[b] # None =>
           batch[b] # None /\ batch'[b].before = batch[b].before /\ batch'[b].saw = batch[b].saw
    BY <1>16, <1>b DEF Adopt, SnapshotIsAdopted, Stale, Linking
  <2>2. refresh' # None => refresh # None /\ refresh'.saw = refresh.saw /\ ~refresh'.fresh
    BY <1>16, <1>r DEF Adopt, Stale, Read
  <2> QED
    BY <1>16, <2>1, <2>2 DEF Adopt
<1>17. CASE ReadEntries
  BY <1>17, <1>r DEF ReadEntries, scan, Read
<1>18. CASE FinishTheRefresh
  <2>1. refresh' = None \/ refresh'.saw = None
    BY <1>18 DEF FinishTheRefresh, RefreshEntries
  <2>2. snapshot'.saw \subseteq disk
    BY <1>18 DEF FinishTheRefresh, TypeOK
  <2> QED
    BY <1>18, <2>1, <2>2 DEF FinishTheRefresh, scan
<1>19. ASSUME NEW b \in Batch, StartBatch(b) PROVE ReadsAreOfTheDisk'
  BY <1>19 DEF StartBatch, TypeOK, scan, reads
<1>20. ASSUME NEW b \in Batch, BatchReads(b) PROVE ReadsAreOfTheDisk'
  BY <1>20, <1>b DEF BatchReads, TypeOK, scan, reads, Linking
<1>21. ASSUME NEW b \in Batch, BatchLinks(b) PROVE ReadsAreOfTheDisk'
  BY <1>21, <1>b DEF BatchLinks, TypeOK, scan, reads, Linking
<1>22. ASSUME NEW b \in Batch, AdoptTheEntriesRead(b) PROVE ReadsAreOfTheDisk'
  <2>1. CASE StillCurrent(batch[b])
    <3>1. \A c \in Batch : batch'[c] # None =>
             batch[c] # None /\ batch'[c].before = batch[c].before /\ batch'[c].saw = batch[c].saw
      BY <1>22, <1>b, <2>1 DEF AdoptTheEntriesRead, SnapshotIsAdopted, Stale, Linking, TypeOK
    <3>2. refresh' # None => refresh # None /\ refresh'.saw = refresh.saw /\ ~refresh'.fresh
      BY <1>22, <1>r, <2>1 DEF AdoptTheEntriesRead, Stale, Read
    <3>3. snapshot'.saw \subseteq disk
      BY <1>22, <2>1 DEF AdoptTheEntriesRead, TypeOK
    <3> QED
      BY <1>22, <3>1, <3>2, <3>3 DEF AdoptTheEntriesRead, scan
  <2>2. CASE ~StillCurrent(batch[b])
    <3>1. refresh' = refresh \/ refresh' = None \/ refresh'.saw = None
      BY <1>22, <1>3, <2>2 DEF AdoptTheEntriesRead
    <3>2. \A c \in Batch : batch'[c] # None => batch'[c] = batch[c]
      BY <1>22, <2>2 DEF AdoptTheEntriesRead, TypeOK
    <3> QED
      BY <1>22, <2>2, <3>1, <3>2 DEF AdoptTheEntriesRead, scan
  <2> QED
    BY <2>1, <2>2
<1>23. CASE UNCHANGED <<snapshot, scan, reads, batch, disk>>
  BY <1>23 DEF scan, reads
<1> QED
  BY <1>4, <1>5, <1>6, <1>7, <1>8, <1>9, <1>10, <1>11, <1>12, <1>13, <1>14, <1>15, <1>16,
     <1>17, <1>18, <1>19, <1>20, <1>21, <1>22, <1>23
     DEF Next, User, Lands, vars, BeginRegistration, RegisterLibraryOn, NothingIsRegistered,
         RefuseTheRegistration

-----------------------------------------------------------------------------
(* Where saves succeed. *)

Together == TheLastScanIsOfWhatIsSaved /\ AtRestTheProfileIsSaved /\ TheyLandTogether

\* A profile that was saved is the one in settings.json.
LEMMA WhatIsSaved ==
  ASSUME ~SavesCanFail, TypeOK, NEW p \in Value, Save(p)
  PROVE  p.id \in profiles' => p.edits = stored'[p.id]
  BY DEF Save, TypeOK, Value

\* After a scan of a saved profile was asked for, it is the last one.
LEMMA AScanOfWhatIsSaved ==
  ASSUME SavedInv, NEW p \in Value, Scan(p), p.id \in profiles' => p.edits = stored'[p.id],
         profiles' \subseteq profiles, \A q \in profiles' : stored[q] \subseteq stored'[q],
         UNCHANGED <<profile, snapshot>>
  PROVE  Together'
<1> USE DEF SavedInv, Together, TheLastScanIsOfWhatIsSaved
<1>1. p # None
  BY SessionAssumption
<1>2. scanning' # None /\ (IF queued' # None THEN queued' ELSE scanning') = p
  BY <1>1 DEF Scan
<1>3. TheLastScanIsOfWhatIsSaved'
  BY <1>2 DEF Saved
<1>4. AtRestTheProfileIsSaved' /\ TheyLandTogether'
  BY <1>2 DEF AtRestTheProfileIsSaved, TheyLandTogether
<1> QED
  BY <1>3, <1>4

\* With nothing to be scanned, the profile on screen is the latest one.
LEMMA AtRestTheLatestIsOnScreen ==
  SavedInv /\ scanning = None => LatestProfile = profile
  BY DEF SavedInv, IInv, TypeOK, AtRestTheProfileIsSaved, LatestProfile, Value

\* An edit that no scan waits for, which the trees do not depend on.
LEMMA AnEditAtRest ==
  ASSUME ~SavesCanFail, SavedInv, scanning = None,
         NEW e \in Edit \ {"library", "registration"}, Save(With(LatestProfile, e)),
         profile' = With(LatestProfile, e), UNCHANGED snapshot
  PROVE  /\ profile'.id \in profiles' => profile'.edits = stored'[profile'.id]
         /\ snapshot'.of.id = profile'.id
         /\ \A d \in {"library", "registration"} : d \in snapshot'.of.edits <=> d \in profile'.edits
         /\ e = "override" => SameEntriesComeOutOf(snapshot'.of, profile')
<1>1. profile' = With(profile, e) /\ profile' \in Value
  BY AtRestTheLatestIsOnScreen, WithType DEF SavedInv, IInv, TypeOK
<1>2. profile'.id = profile.id /\ profile'.edits = profile.edits \cup {e}
  BY <1>1 DEF With, SavedInv, IInv, TypeOK, Value
<1>3. profile'.id \in profiles' => profile'.edits = stored'[profile'.id]
  BY <1>1, WhatIsSaved DEF SavedInv, IInv
<1> QED
  BY <1>2, <1>3 DEF SavedInv, TheyLandTogether, SameEntriesComeOutOf

\* Keep, of an override.
LEMMA AnOverrideIsKept ==
  ASSUME ~SavesCanFail, SavedInv, "override" \in Edit, Keep(With(LatestProfile, "override")), UNCHANGED snapshot
  PROVE  Together'
<1>1. TypeOK /\ With(LatestProfile, "override") \in Value /\ Save(With(LatestProfile, "override"))
  BY LatestType, WithType DEF Keep, SavedInv, IInv
<1>2. CASE scanning # None
  BY <1>1, <1>2, SavesGrow, WhatIsSaved, AScanOfWhatIsSaved DEF Keep
<1>3. CASE scanning = None
  <2>1. profile' = With(LatestProfile, "override") /\ UNCHANGED scan
    BY <1>3 DEF Keep
  <2> QED
    BY <1>1, <1>3, <2>1, AnEditAtRest
       DEF Together, TheLastScanIsOfWhatIsSaved, AtRestTheProfileIsSaved, TheyLandTogether, scan, SavedInv
<1> QED
  BY <1>2, <1>3

\* Every handler that asks for a scan asks for one of what is saved, and those that
\* do not leave the last one as it is.
LEMMA TogetherStep == ~SavesCanFail /\ SavedInv /\ [Next]_vars => Together'
<1> SUFFICES ASSUME ~SavesCanFail, SavedInv, [Next]_vars PROVE Together'
  OBVIOUS
<1>t. TypeOK /\ IInv
  BY DEF SavedInv, IInv
<1>g. profiles' \subseteq profiles /\ \A p \in profiles' : stored[p] \subseteq stored'[p]
  BY <1>t, EditsStep
<1>1. CASE ShowActiveProfile
  <2>1. [id |-> active, edits |-> stored[active]] \in Value
    BY <1>t, StoredType DEF TypeOK
  <2> QED
    BY <1>1, <1>g, <2>1, AScanOfWhatIsSaved DEF ShowActiveProfile, settings
<1>2. CASE ChangeTheLibraries
  <2>1. With(LatestProfile, "library") \in Value
    BY <1>2, <1>t, LatestType, WithType DEF ChangeTheLibraries
  <2> QED
    BY <1>2, <1>g, <1>t, <2>1, WhatIsSaved, AScanOfWhatIsSaved DEF ChangeTheLibraries
<1>3. CASE ChangeTheCategories
  <2>1. LatestProfile \in Value /\ (LatestProfile.id \in profiles' => LatestProfile.edits = stored'[LatestProfile.id])
    BY <1>3, <1>t, LatestType DEF ChangeTheCategories, settings, LatestProfile, TypeOK, Value
  <2> QED
    BY <1>3, <1>g, <2>1, AScanOfWhatIsSaved DEF ChangeTheCategories
<1>4. CASE OverrideDestination
  BY <1>4, AnOverrideIsKept DEF OverrideDestination
<1>5. CASE DropOverrides
  BY <1>5, AnOverrideIsKept DEF DropOverrides
<1>6. CASE RememberTheOrigin
  <2> DEFINE next == With(LatestProfile, "origin")
             shown == [id |-> active, edits |-> stored'[active]]
  <2>1. next \in Value /\ "origin" \in Edit /\ Save(next)
    BY <1>6, <1>t, LatestType, WithType DEF RememberTheOrigin
  <2>2. shown \in Value /\ Scan(shown) /\ (shown.id \in profiles' => shown.edits = stored'[shown.id])
    BY <1>6, <1>t, <2>1, SaveType DEF RememberTheOrigin, Value, TypeOK
  <2>3. CASE scanning # None
    BY <1>6, <1>g, <2>2, <2>3, AScanOfWhatIsSaved DEF RememberTheOrigin
  <2>4. CASE scanning = None
    <3>1. scanning' = shown /\ queued' = None /\ shown # None
      BY <2>2, <2>4, SessionAssumption DEF Scan, SavedInv, TheLastScanIsOfWhatIsSaved
    <3>2. profile' = next /\ snapshot' = snapshot
      BY <1>6, <2>4 DEF RememberTheOrigin
    <3>3. /\ profile'.id \in profiles' => profile'.edits = stored'[profile'.id]
          /\ snapshot'.of.id = profile'.id
          /\ \A d \in {"library", "registration"} : d \in snapshot'.of.edits <=> d \in profile'.edits
      BY <2>1, <2>4, <3>2, AnEditAtRest
    <3> QED
      BY <2>2, <3>1, <3>3 DEF Together, TheLastScanIsOfWhatIsSaved, Saved, AtRestTheProfileIsSaved, TheyLandTogether
  <2> QED
    BY <2>3, <2>4
<1>7. ASSUME NEW p \in Profile, ChooseProfile(p) PROVE Together'
  <2>1. [id |-> p, edits |-> stored[p]] \in Value
    BY <1>7, <1>t, StoredType DEF ChooseProfile
  <2> QED
    BY <1>7, <1>g, <2>1, AScanOfWhatIsSaved DEF ChooseProfile
<1>8. ASSUME NEW p \in Profile, RemoveProfile(p) PROVE Together'
  <2>1. CASE p = active
    <3>1. [id |-> active', edits |-> stored[active']] \in Value
      BY <1>8, <1>t, <2>1, StoredType DEF RemoveProfile
    <3> QED
      BY <1>8, <1>g, <2>1, <3>1, AScanOfWhatIsSaved DEF RemoveProfile
  <2>2. CASE p # active
    BY <1>8, <2>2 DEF RemoveProfile, scan, SavedInv, Together, TheLastScanIsOfWhatIsSaved, Saved,
                      AtRestTheProfileIsSaved, TheyLandTogether
  <2> QED
    BY <2>1, <2>2
<1>9. CASE AdoptTheRegistration
  <2>1. registration.of \in Value
    BY <1>9, <1>t DEF AdoptTheRegistration, TypeOK, Maybe
  <2>2. registration.of.id \in profiles' => registration.of.edits = stored'[registration.of.id]
    BY <1>9, <1>t, <2>1 DEF AdoptTheRegistration, TypeOK, Value
  <2> QED
    BY <1>9, <1>g, <2>1, <2>2, AScanOfWhatIsSaved DEF AdoptTheRegistration
<1>10. CASE AdoptNothing
  BY <1>10 DEF AdoptNothing, settings, SavedInv, Together, TheLastScanIsOfWhatIsSaved, Saved,
               AtRestTheProfileIsSaved, TheyLandTogether
<1>11. CASE Adopt
  BY <1>11 DEF Adopt, settings, SavedInv, Together, TheLastScanIsOfWhatIsSaved, Saved,
               AtRestTheProfileIsSaved, TheyLandTogether, SameEntriesComeOutOf
<1>12. CASE /\ UNCHANGED <<settings, profile, scanning, queued>> /\ snapshot'.of = snapshot.of
  BY <1>12 DEF settings, SavedInv, Together, TheLastScanIsOfWhatIsSaved, Saved,
               AtRestTheProfileIsSaved, TheyLandTogether
<1>13. CASE FinishTheRefresh
  <2>1. snapshot'.of = snapshot.of
    BY <1>13, <1>t DEF FinishTheRefresh, TypeOK
  <2> QED
    BY <1>12, <1>13, <2>1 DEF FinishTheRefresh, scan
<1>14. ASSUME NEW b \in Batch, AdoptTheEntriesRead(b) PROVE Together'
  <2>1. snapshot'.of = snapshot.of
    BY <1>14, <1>t DEF AdoptTheEntriesRead, TypeOK
  <2> QED
    BY <1>12, <1>14, <2>1 DEF AdoptTheEntriesRead, scan
<1> QED
  BY <1>1, <1>2, <1>3, <1>4, <1>5, <1>6, <1>7, <1>8, <1>9, <1>10, <1>11, <1>12, <1>13, <1>14
     DEF Next, User, Lands, vars, scan, RequestRefresh, BeginRegistration, RegisterLibraryOn,
         NothingIsRegistered, RefuseTheRegistration, ScanReads, ReadEntries, StartBatch, BatchReads,
         BatchLinks

-----------------------------------------------------------------------------
\* The session begins with the profile in use scanned and nothing in flight.
LEMMA InitIsGood == Init => SavedInv
<1> SUFFICES ASSUME Init PROVE SavedInv
  OBVIOUS
<1> USE SessionAssumption DEF Init
<1>1. TypeOK
  <2>1. profile \in Value /\ snapshot \in [of : Value, saw : Seen]
    BY DEF Value, Seen
  <2>2. batch \in [Batch -> Maybe(Linking)] /\ stored \in [Profile -> SUBSET Edit]
    BY DEF Maybe
  <2>3. None \in Maybe(Value) /\ None \in Maybe(Seen) /\ None \in Maybe(Read) /\ None \in Maybe(Registering)
    BY DEF Maybe
  <2>4. disk \in Seen /\ asks \in 0..MaxAsks
    BY DEF Seen
  <2> QED
    BY <2>1, <2>2, <2>3, <2>4 DEF TypeOK, Linking, Registering
<1>2. OnlyLibrariesAreRegistered /\ TheRegistrationKnowsTheEdits /\ ReadsAreOfTheDisk
  BY DEF OnlyLibrariesAreRegistered, TheRegistrationKnowsTheEdits, ReadsAreOfTheDisk
<1>3. TheLastScanIsOfWhatIsSaved /\ AtRestTheProfileIsSaved /\ TheyLandTogether
  BY DEF TheLastScanIsOfWhatIsSaved, AtRestTheProfileIsSaved, TheyLandTogether, SameEntriesComeOutOf
<1> QED
  BY <1>1, <1>2, <1>3 DEF SavedInv, IInv

\* The invariant that does not depend on the saves holds in every reachable state.
LEMMA Inductive == Spec => []IInv
<1>1. Init => IInv
  BY InitIsGood DEF SavedInv
<1>2. IInv /\ [Next]_vars => IInv'
  BY TypeStep, EditsStep, ReadsStep DEF IInv
<1> QED
  BY <1>1, <1>2, PTL DEF Spec

\* And the one that does, where they succeed.
LEMMA InductiveWhereSavesSucceed == ~SavesCanFail => (Spec => []SavedInv)
<1> SUFFICES ASSUME ~SavesCanFail PROVE Spec => []SavedInv
  OBVIOUS
<1>1. Init => SavedInv
  BY InitIsGood
<1>2. SavedInv /\ [Next]_vars => SavedInv'
  BY TypeStep, EditsStep, ReadsStep, TogetherStep DEF SavedInv, IInv, Together
<1> QED
  BY <1>1, <1>2, PTL DEF Spec

\* For any profiles, edits and view models, each variable of the session keeps its
\* kind, whatever lands in whatever order.
THEOREM SessionTypeCorrect == Spec => []TypeOK
<1>1. IInv => TypeOK
  BY DEF IInv
<1> QED
  BY <1>1, Inductive, PTL

\* No handler, and no registration that ends in a worker, takes a saved edit or a
\* removal back, even when saves fail.
THEOREM SavedEditsStay == Spec => NoSavedEditIsLost
<1>1. IInv /\ [Next]_vars =>
        [profiles' \subseteq profiles /\ \A p \in profiles' : stored[p] \subseteq stored'[p]]_vars
  BY EditsStep
<1> QED
  BY <1>1, Inductive, PTL DEF Spec, NoSavedEditIsLost

\* A read of the entries that lands never hides a batch that is on screen.
THEOREM RefreshesGoForward == Spec => ARefreshNeverGoesBack
<1>1. IInv => (FinishTheRefresh => snapshot.saw \subseteq snapshot'.saw)
  BY DEF IInv, TypeOK, ReadsAreOfTheDisk, FinishTheRefresh, StillCurrent
<1> QED
  BY <1>1, Inductive, PTL DEF ARefreshNeverGoesBack

\* Where saves succeed, the profile on screen is the saved one once the scans landed.
THEOREM TheScreenShowsWhatIsSaved == ~SavesCanFail => (Spec => []AtRestTheProfileIsSaved)
<1>1. SavedInv => AtRestTheProfileIsSaved
  BY DEF SavedInv
<1> QED
  BY <1>1, InductiveWhereSavesSucceed, PTL

\* Where saves succeed, the trees on screen are of the profile on screen.
THEOREM TreesAndProfileLandTogether == ~SavesCanFail => (Spec => []TheyLandTogether)
<1>1. SavedInv => TheyLandTogether
  BY DEF SavedInv
<1> QED
  BY <1>1, InductiveWhereSavesSucceed, PTL

\* Where saves succeed, no scan and no edit takes an edit off the profile on screen.
THEOREM EditsOnScreenStay == ~SavesCanFail => (Spec => AppliedEditsStay)
<1> SUFFICES ASSUME ~SavesCanFail PROVE Spec => AppliedEditsStay
  OBVIOUS
<1>1. SavedInv /\ [Next]_vars =>
        [profile'.id = profile.id /\ profile.id \in profiles' => profile.edits \subseteq profile'.edits]_vars
  <2> SUFFICES ASSUME SavedInv, [Next]_vars, profile'.id = profile.id, profile.id \in profiles'
               PROVE  profile.edits \subseteq profile'.edits
    OBVIOUS
  <2>1. TypeOK /\ SavedInv'
    BY TypeStep, EditsStep, ReadsStep, TogetherStep DEF SavedInv, IInv, Together
  <2>2. ASSUME NEW e \in Edit, scanning = None, profile' = With(LatestProfile, e)
        PROVE  profile.edits \subseteq profile'.edits
    BY <2>1, <2>2, AtRestTheLatestIsOnScreen DEF With, TypeOK, Value
  <2>3. CASE Adopt
    <3>1. profile'.edits = stored'[profile'.id]
      BY <2>1, <2>3 DEF Adopt, SavedInv, AtRestTheProfileIsSaved
    <3>2. profile.edits \subseteq stored[profile.id] /\ UNCHANGED stored
      BY <2>3 DEF Adopt, settings, SavedInv, TheLastScanIsOfWhatIsSaved
    <3> QED
      BY <3>1, <3>2
  <2>4. CASE RememberTheOrigin
    BY <2>2, <2>4 DEF RememberTheOrigin
  <2>5. CASE OverrideDestination
    BY <2>2, <2>5 DEF OverrideDestination, Keep
  <2>6. CASE DropOverrides
    BY <2>2, <2>6 DEF DropOverrides, Keep
  <2>7. CASE profile' = profile
    BY <2>7
  <2> QED
    BY <2>3, <2>4, <2>5, <2>6, <2>7
       DEF Next, User, Lands, vars, ShowActiveProfile, ChangeTheLibraries, ChangeTheCategories,
           RequestRefresh, BeginRegistration, ChooseProfile, RemoveProfile, StartBatch,
           RegisterLibraryOn, AdoptTheRegistration, NothingIsRegistered, RefuseTheRegistration,
           ScanReads, AdoptNothing, ReadEntries, FinishTheRefresh, BatchReads, BatchLinks, AdoptTheEntriesRead
<1> QED
  BY <1>1, InductiveWhereSavesSucceed, PTL DEF Spec, AppliedEditsStay
=============================================================================
