------------------------------ MODULE Linking ------------------------------
(***************************************************************************)
(* Batches of links: enabling, disabling and swapping addons, relinking     *)
(* them, repairing broken links, applying a preset or going back to the     *)
(* previous set, and undoing the last batch (ProfileService.cpp,            *)
(* LinkingEngine.cpp, EntryClassifier.cpp, PresetService.cpp).              *)
(*                                                                         *)
(* Each view model runs one batch at a time on a thread of its own: it reads *)
(* the disk and plans the steps outside the lock, and runs them under it.    *)
(* Every addon here has the same folder name, in libraries of their own or   *)
(* at several paths of one, so that any may be linked at any place.          *)
(***************************************************************************)
EXTENDS SequencesExt
CONSTANTS
    Addon,      \* the addons, by the paths of their folders
    Removable,  \* the addons on a drive that may be disconnected
    Vacant,     \* paths of their libraries where no folder stands at first
    Starter,    \* those with a program that starts with the simulator
    FirstPlace, SecondPlace, \* where each profile may have a link
    Default,    \* the place in the default destination of each profile
    Chosen,       \* those in the destinations an override may name
    Worker,     \* the view models that run batches
    None, Folder,
    MaxMishaps, \* bound: steps that fail, changes by other programs and of the profile
    MaxBatches  \* bound: batches asked for

Profile == {"first", "second"}
Place == FirstPlace \cup SecondPlace
PlacesOf(p) == IF p = "first" THEN FirstPlace ELSE SecondPlace

ASSUME LinkingAssumption ==
    /\ FirstPlace \cap SecondPlace = {} /\ Default \cup Chosen \subseteq Place
    /\ IsFiniteSet(Addon) /\ IsFiniteSet(Place)
    /\ \A p \in Profile : \E d \in Default : Default \cap PlacesOf(p) = {d}
    /\ Removable \cup Starter \cup Vacant \subseteq Addon
    /\ None \notin Addon \cup {Folder} \cup Worker /\ Folder \notin Addon
    /\ Worker \subseteq {"tree", "community", "presets"}
    /\ MaxMishaps \in Nat /\ MaxBatches \in Nat

VARIABLES
    link,     \* what stands at each place: an addon a link points at, or a folder
    there,    \* the addons whose folder can be read
    gone,     \* the paths no addon stands at, whatever drives are connected
    starts,   \* the startup entries that are on
    profile,  \* the profile in use
    pinned,   \* the destinations each profile overrides for each addon
    work,     \* the batch of each view model
    undo,     \* the steps that undo the last batch
    previous, \* the return preset of each profile
    base, replaced, strange, \* what the last batch found, took from dead links, and what others or a mistake changed
    mishaps, batches

world == <<link, there, starts>>
ghosts == <<base, replaced, strange>>
vars == <<world, gone, profile, pinned, work, undo, previous, ghosts, mishaps, batches>>

Maybe(S) == S \cup {None}
\* What a profile overrides for the folder of an addon, and for the categories above it.
Override == [own : Maybe(Chosen), above : Maybe(Chosen)]
\* "was" is the dead target a repair replaces.
Step == [does : {"link", "unlink"}, addon : Addon, place : Place, was : Maybe(Addon)]
        \cup [does : {"turnOn", "turnOff"}, addon : Addon, place : {None}, was : {None}]
Targets == Addon \cup {None, Folder}
Disks == [Place -> Targets]
\* What a batch finds, to be put back.
Found == [link : Disks, starts : SUBSET Starter]
\* What the entries say of each place of a profile.
Classes == {"nothing", "unmanaged", "managed", "duplicated", "unavailable", "broken"}
Readings == UNION {[PlacesOf(p) -> [target : Targets, class : Classes]] : p \in Profile}
\* A batch, with the steps that are left and, in "done", those that undo what it did; the
\* code remembers no more than what failed of "ran", "unlucky", "taken", "start" and "alone".
Batch == [kind : {"toggle", "relink", "repair", "apply", "back", "undo"}, at : {"read", "running"},
          profile : Profile, seen : Readings, steps : Seq(Step), off : SUBSET Addon, on : SUBSET Addon,
          done : Seq(Step), ran : SUBSET (Place \cup {None}), failed : SUBSET Step, unlucky : SUBSET Step,
          taken : SUBSET Place, start : Maybe(Found), alone : BOOLEAN]
ASSUME NoneIsNoBatch == None \notin Batch \cup Found

Dead == Addon \ there
Standing == Addon \ gone

\* ClassifyLink and CountsAsEnabled.
Class(seen, seenThere, p) ==
    CASE seen[p] = None -> "nothing"
      [] seen[p] = Folder -> "unmanaged"
      [] seen[p] \in seenThere -> "managed"
      [] seen[p] \in Removable \ (gone \cup seenThere) -> "unavailable"
      [] OTHER -> "broken"

\* MarkDuplicates
Marked(seen, class, places) ==
    [p \in places |->
        IF class[p] = "managed" /\ \E q \in places \ {p} : class[q] \in {"managed", "duplicated"} /\ seen[q] = seen[p]
        THEN "duplicated" ELSE class[p]]

\* Resolve
Entries(seen, seenThere, places) ==
    LET marks == Marked(seen, [p \in places |-> Class(seen, seenThere, p)], places)
    IN  [p \in places |-> [target |-> seen[p], class |-> marks[p]]]

Enabled(entries) == {entries[p].target : p \in {q \in DOMAIN entries : entries[q].class \in {"managed", "duplicated"}}}
LinksTo(entries, a) == {p \in DOMAIN entries : entries[p].target = a /\ entries[p].class \in {"managed", "duplicated"}}
EnabledNow(p) == Enabled(Entries(link, there, PlacesOf(p)))

\* EffectiveDestination: the override of the folder, of what is above it, or the default.
Destination(p, o) ==
    IF o.own # None THEN o.own ELSE IF o.above # None THEN o.above ELSE CHOOSE d \in Default : d \in PlacesOf(p)
Planned(p) == [a \in Addon |-> Destination(p, pinned[p][a])]

Init ==
    /\ link \in [Place -> (Addon \ Vacant) \cup {None}] /\ \A p \in SecondPlace : link[p] = None
    /\ there = Addon \ Vacant /\ gone = Vacant /\ starts = Starter
    /\ profile = "first"
    /\ pinned = [p \in Profile |-> [a \in Addon |-> [own |-> None, above |-> None]]]
    /\ work = [w \in Worker |-> None] /\ undo = <<>>
    /\ previous = [p \in Profile |-> None]
    /\ base = None /\ replaced = {} /\ strange = {}
    /\ mishaps = 0 /\ batches = 0

RefreshedUnmarked(known, changed, places) ==
    [p \in places |-> [target |-> link[p],
                       class |-> IF link[p] = None THEN "nothing"
                                 ELSE IF p \in changed THEN Class(link, there, p) ELSE known[p].class]]

\* Refresh: what is derived of the entries that were read when some places changed.
Refreshed(known, changed, places) ==
    LET present == {p \in places : link[p] # None}
        fresh == {p \in present : p \in changed \/ known[p].class = "nothing"}
        retargeted == {known[p].target : p \in {q \in places : q \in changed \/ q \notin present}}
                      \cup {link[p] : p \in fresh}
        read == fresh \cup {p \in present : known[p].target \in retargeted}
        class == [p \in places |-> IF p \notin present THEN "nothing"
                                   ELSE IF p \in read THEN Class(link, there, p) ELSE known[p].class]
        marks == Marked(link, class, places)
    IN  [p \in places |-> [target |-> IF p \in present /\ p \notin read THEN known[p].target ELSE link[p],
                           class |-> marks[p]]]

-----------------------------------------------------------------------------
(* Planning. *)

Does(does, a, p) == [does |-> does, addon |-> a, place |-> p, was |-> None]

OffStepsOfOneLink(entries, order, agreed) ==
    FlattenSeq([i \in DOMAIN order |->
        IF order[i] \in Enabled(entries)
        THEN <<Does("unlink", order[i], CHOOSE p \in LinksTo(entries, order[i]) : TRUE)>>
             \o [j \in 1..Cardinality(agreed) |-> Does("turnOff", SetToSeq(agreed)[j], None)]
        ELSE <<>>])

\* PlanSteps, to disable: every link of each addon that is enabled, then the
\* startup entries agreed to, which are looked up by the name of the folder.
OffSteps(entries, order, agreed) ==
    FlattenSeq([i \in DOMAIN order |->
        IF order[i] \in Enabled(entries)
        THEN [j \in 1..Cardinality(LinksTo(entries, order[i])) |->
                 Does("unlink", order[i], SetToSeq(LinksTo(entries, order[i]))[j])]
             \o [j \in 1..Cardinality(agreed) |-> Does("turnOff", SetToSeq(agreed)[j], None)]
        ELSE <<>>])

\* PlanSteps, to enable: one link, where the profile plans it.
OnSteps(entries, order, pins) ==
    FlattenSeq([i \in DOMAIN order |->
        IF order[i] \in Enabled(entries) THEN <<>> ELSE <<Does("link", order[i], pins[order[i]])>>])

\* Relink: those that were unlinked are linked where the profile plans it.
RelinkSteps(entries, order, pins) ==
    OffSteps(entries, order, {})
    \o FlattenSeq([i \in DOMAIN order |->
          IF order[i] \in Enabled(entries) THEN <<Does("link", order[i], pins[order[i]])>> ELSE <<>>])

RepairStepsAsRequested(entries, requests) ==
    [i \in 1..Cardinality(requests) |->
        LET r == SetToSeq(requests)[i]
        IN  [does |-> IF r.to = None THEN "unlink" ELSE "link",
             addon |-> IF r.to = None THEN r.was ELSE r.to, place |-> r.place, was |-> r.was]]

RepairStepsToTheNewTarget(entries, requests) ==
    LET held == {r \in requests : entries[r.place] = [target |-> r.was, class |-> "broken"]}
    IN  [i \in 1..Cardinality(held) |->
            LET r == SetToSeq(held)[i]
            IN  [does |-> IF r.to = None THEN "unlink" ELSE "link",
                 addon |-> r.to, place |-> r.place, was |-> r.was]]

\* PlanRepair on what StillBrokenAsShown: a request names the dead target it was shown.
RepairSteps(entries, requests) ==
    LET held == {r \in requests : entries[r.place] = [target |-> r.was, class |-> "broken"]}
    IN  [i \in 1..Cardinality(held) |->
            LET r == SetToSeq(held)[i]
            IN  [does |-> IF r.to = None THEN "unlink" ELSE "link",
                 addon |-> IF r.to = None THEN r.was ELSE r.to, place |-> r.place, was |-> r.was]]

\* TheOppositeOf
Opposite(does) ==
    CASE does = "link" -> "unlink" [] does = "unlink" -> "link"
      [] does = "turnOn" -> "turnOff" [] does = "turnOff" -> "turnOn"

InverseWhereItIsPlanned(s) ==
    [s EXCEPT !.does = Opposite(s.does), !.place = IF @ = None THEN None ELSE Planned(profile)[s.addon]]

\* Inverse, of a step and of a repair.
InverseOf(s) == [s EXCEPT !.does = Opposite(s.does)]
InverseOfARepair(s) ==
    (IF s.does = "link" THEN <<Does("unlink", s.addon, s.place)>> ELSE <<>>)
    \o <<Does("link", s.was, s.place)>>

\* RunAsOneBatch and RepairWhatStillHolds: what is added to the undo of a batch.
WithTheInverse(kind, done, s) ==
    CASE kind = "undo" -> done
      [] kind = "repair" -> done \o InverseOfARepair(s)
      [] OTHER -> <<InverseOf(s)>> \o done

\* PlanPresetApplication, of a preset that names some addons.
PresetOff(entries, preset, mode) ==
    {a \in Enabled(entries) : CASE preset[a] = "enable" -> mode = "disable"
                               [] preset[a] = "disable" -> mode # "disable"
                               [] OTHER -> mode = "replace"}
PresetOn(preset, mode) == {a \in DOMAIN preset : preset[a] = "enable" /\ mode # "disable"}
\* EntriesForWhatIsEnabled
Naming(on) == [a \in Standing |-> IF a \in on THEN "enable" ELSE "unnamed"]

-----------------------------------------------------------------------------
(* A view model asks, and its thread reads the disk and plans (ReadLinksNow).   *)
(* What changes in between is as if it had changed before or after.            *)

Mishap == mishaps < MaxMishaps /\ mishaps' = mishaps + 1

Guarded == \E w \in Worker : work[w] # None /\ work[w].at = "running"
Known == Entries(link, there, PlacesOf(profile))

MayAsk(w) == work[w] = None /\ batches < MaxBatches

Ask(w, kind, steps, off, on) ==
    /\ batches' = batches + 1
    /\ work' = [work EXCEPT ![w] =
            [kind |-> kind, at |-> "read", profile |-> profile, seen |-> Known, steps |-> steps,
             off |-> off, on |-> on, done |-> <<>>, ran |-> {}, failed |-> {}, unlucky |-> {}, taken |-> {},
             start |-> None, alone |-> TRUE]]
    /\ UNCHANGED <<world, profile, pinned, undo, ghosts, mishaps>>

SetEnabled(w, kind, off, on, agreed) ==
    /\ MayAsk(w)
    /\ \E order \in SetToSeqs(on) :
         Ask(w, kind, OffSteps(Known, SetToSeq(off), agreed) \o OnSteps(Known, order, Planned(profile)), off, on)

\* Toggle: the occupants of the places wanted may be disabled in the same batch.
Toggle(off, on, agreed) ==
    /\ off \cup on # {} /\ off \cap on = {} /\ (off = {} => agreed = {})
    /\ SetEnabled("tree", "toggle", off, on, agreed)
    /\ UNCHANGED previous

\* Relink, of those NeedingRelinkUnder finds.
RelinkToTheProfileDestination(nodes) ==
    /\ MayAsk("tree") /\ nodes \cap Enabled(Known) # {}
    /\ \E order \in SetToSeqs(nodes) :
         Ask("tree", "relink", RelinkSteps(Known, order, Planned(profile)), {}, nodes \cap Enabled(Known))
    /\ UNCHANGED previous

\* The requests were made on the entries on screen, whatever those were.
Repair(requests) ==
    /\ MayAsk("community")
    /\ Ask("community", "repair", RepairSteps(Known, requests), {}, {})
    /\ UNCHANGED previous

\* Apply saves what is enabled as the return preset first, or is refused.
Apply(preset, mode) ==
    /\ SetEnabled("presets", "apply", PresetOff(Known, preset, mode), PresetOn(preset, mode), {})
    /\ previous' = [previous EXCEPT ![profile] = Enabled(Known)]

\* ApplyTheReturn
ApplyReturn ==
    /\ previous[profile] # None
    /\ LET preset == Naming(previous[profile])
       IN  SetEnabled("presets", "back", PresetOff(Known, preset, "replace"), PresetOn(preset, "replace"), {})
    /\ UNCHANGED previous

UndoLastBatch(w) ==
    /\ w \in {"tree", "presets"} /\ undo # <<>> /\ MayAsk(w) /\ Ask(w, "undo", <<>>, {}, {})
    /\ UNCHANGED previous

\* ShowActiveProfile
ChooseProfile(p) ==
    /\ Mishap /\ p # profile /\ profile' = p
    /\ UNCHANGED <<world, pinned, work, undo, previous, ghosts, batches>>

Forgotten == undo' = <<>> /\ base' = None /\ replaced' = {}

\* RememberTheDestination sets or erases the override of one folder.
Overriding(o, places) ==
    {[o EXCEPT !.own = d] : d \in Maybe(places)} \cup {[o EXCEPT !.above = d] : d \in Maybe(places)}

\* OverrideDestination, of an addon or a category: the undo is forgotten, which waits for a
\* batch that runs.
OverrideDestination(a) ==
    /\ Mishap /\ ~Guarded
    /\ \E o \in Overriding(pinned[profile][a], Chosen \cap PlacesOf(profile)) \ {pinned[profile][a]} :
         /\ a \in Standing \/ o.own = pinned[profile][a].own
         /\ pinned' = [pinned EXCEPT ![profile][a] = o]
    /\ Forgotten
    /\ UNCHANGED <<world, profile, work, previous, strange, batches>>

\* An import, the quarantine, a deletion or a change of the libraries.
ForgetUndo ==
    /\ ~Guarded /\ undo # <<>> /\ Forgotten
    /\ UNCHANGED <<world, profile, pinned, work, previous, strange, mishaps, batches>>

-----------------------------------------------------------------------------
(* The threads, under the lock. *)

\* RunTheUndo takes the steps before they run.
UndoLeft(w) == IF work[w].kind = "undo" THEN <<>> ELSE undo

TakeTheGuard(w) ==
    /\ work[w] # None /\ work[w].at = "read" /\ ~Guarded
    /\ work' = [work EXCEPT ![w].at = "running", ![w].start = [link |-> link, starts |-> starts],
                            ![w].steps = IF work[w].kind = "undo" THEN undo ELSE @]
    /\ undo' = UndoLeft(w)
    /\ UNCHANGED <<world, profile, pinned, previous, ghosts, mishaps, batches>>

\* LinkAt replaces a dead link and nothing else; Disable removes any link.
LinkAt(s) ==
    /\ s.does = "link" /\ link[s.place] \in {None} \cup Dead
    /\ link' = [link EXCEPT ![s.place] = s.addon] /\ UNCHANGED starts
Disable(s) ==
    /\ s.does = "unlink" /\ link[s.place] \in Addon
    /\ link' = [link EXCEPT ![s.place] = None] /\ UNCHANGED starts
Switch(s) ==
    /\ s.does \in {"turnOn", "turnOff"} /\ s.addon \in Starter
    /\ starts' = IF s.does = "turnOn" THEN starts \cup {s.addon} ELSE starts \ {s.addon}
    /\ UNCHANGED link

CanSucceed(s) ==
    CASE s.does = "link" -> link[s.place] \in {None} \cup Dead
      [] s.does = "unlink" -> link[s.place] \in Addon
      [] OTHER -> s.addon \in Starter

\* Where a dead link was replaced.
Taken(s) == IF s.does = "link" /\ link[s.place] \in Dead THEN {s.place} ELSE {}

\* Disable takes any link, and a repair replaces any that is dead: what the step was planned
\* for, before the lock was taken, may have gone since.
Mistaken(kind, s) ==
    LET plannedFor == IF kind = "repair" THEN s.was ELSE s.addon
    IN  IF (s.does = "unlink" \/ kind = "repair") /\ kind # "undo" /\ link[s.place] # plannedFor THEN {s.place} ELSE {}

\* The others that are between their reading and their end.
Disturbed(b, w) == [v \in Worker |-> IF v # w /\ b[v] # None THEN [b[v] EXCEPT !.alone = FALSE] ELSE b[v]]

StepSucceeds(w) ==
    /\ work[w] # None /\ work[w].at = "running" /\ work[w].steps # <<>>
    /\ LET s == Head(work[w].steps) IN
         /\ LinkAt(s) \/ Disable(s) \/ Switch(s)
         /\ work' = Disturbed([work EXCEPT ![w].steps = Tail(@), ![w].ran = @ \cup {s.place},
                                           ![w].taken = @ \cup Taken(s),
                                           ![w].done = WithTheInverse(work[w].kind, @, s)], w)
         /\ strange' = strange \cup Mistaken(work[w].kind, s)
    /\ UNCHANGED <<there, profile, pinned, undo, previous, base, replaced, mishaps, batches>>

\* A failed step is reported and the next one runs; a dead link may be gone by then.
StepFails(w) ==
    /\ work[w] # None /\ work[w].at = "running" /\ work[w].steps # <<>>
    /\ LET s == Head(work[w].steps) IN
         /\ IF CanSucceed(s) THEN Mishap ELSE UNCHANGED mishaps
         /\ link' \in {link} \cup (IF Taken(s) # {} THEN {[link EXCEPT ![s.place] = None]} ELSE {})
         /\ work' = Disturbed([work EXCEPT ![w].steps = Tail(@), ![w].ran = @ \cup {s.place},
                                           ![w].taken = @ \cup Taken(s),
                                           ![w].failed = @ \cup {s},
                                           ![w].unlucky = @ \cup (IF CanSucceed(s) THEN {s} ELSE {})], w)
    /\ UNCHANGED <<there, starts, profile, pinned, undo, previous, ghosts, batches>>

Ends(w) == work[w] # None /\ work[w].at = "running" /\ work[w].steps = <<>>

\* A batch that did nothing leaves the undo of the one before.
UndoAfter(w) == IF work[w].done # <<>> THEN work[w].done ELSE undo

End(w) ==
    /\ Ends(w)
    /\ work' = [work EXCEPT ![w] = None]
    /\ undo' = UndoAfter(w)
    /\ IF work[w].done # <<>> THEN base' = work[w].start /\ replaced' = work[w].taken
       ELSE IF work[w].kind = "undo" THEN base' = None /\ replaced' = {}
       ELSE base' = base /\ replaced' = replaced \cup work[w].taken
    /\ UNCHANGED <<world, profile, pinned, previous, strange, mishaps, batches>>

-----------------------------------------------------------------------------
(* Other programs. *)

Nobody == [v \in Worker |-> IF work[v] # None THEN [work[v] EXCEPT !.alone = FALSE] ELSE None]

SomeoneLinks(p, target) ==
    /\ Mishap /\ link[p] # target /\ link' = [link EXCEPT ![p] = target]
    /\ strange' = strange \cup {p} /\ work' = Nobody
    /\ UNCHANGED <<there, starts, profile, pinned, undo, previous, base, replaced, batches>>

FolderGoesOrComes(a) ==
    /\ Mishap /\ there' = IF a \in there THEN there \ {a} ELSE there \cup {a}
    /\ work' = Nobody
    /\ UNCHANGED <<link, starts, profile, pinned, undo, previous, ghosts, batches>>

SomeoneSwitches(s) ==
    /\ Mishap /\ starts' = IF s \in starts THEN starts \ {s} ELSE starts \cup {s}
    /\ strange' = strange \cup {s} /\ work' = Nobody
    /\ UNCHANGED <<link, there, profile, pinned, undo, previous, base, replaced, batches>>

-----------------------------------------------------------------------------
Requests == [place : FirstPlace, was : Addon, to : Standing \cup {None}]

SomeoneAsks ==
    \/ "tree" \in Worker /\ \E off, on \in SUBSET Standing : \E agreed \in {{}, starts} : Toggle(off, on, agreed)
    \/ "tree" \in Worker /\ \E nodes \in SUBSET Standing : RelinkToTheProfileDestination(nodes)
    \/ "community" \in Worker /\ \E r \in Requests : r.place \in PlacesOf(profile) /\ Repair({r})
    \/ "presets" \in Worker /\ \E preset \in [Standing -> {"enable", "disable", "unnamed"}],
                              mode \in {"replace", "cumulative", "disable"} : Apply(preset, mode)
    \/ "presets" \in Worker /\ ApplyReturn
    \/ \E w \in Worker : UndoLastBatch(w)

SomeoneElseActs ==
    \/ \E p \in Profile : ChooseProfile(p)
    \/ \E a \in Addon : OverrideDestination(a)
    \/ \E p \in Place, target \in Standing \cup {None, Folder} : SomeoneLinks(p, target)
    \/ \E a \in Standing : FolderGoesOrComes(a)
    \/ \E s \in Starter : SomeoneSwitches(s)

Next ==
    /\ UNCHANGED gone
    /\ \/ batches < MaxBatches /\ SomeoneAsks
       \/ \E w \in Worker : TakeTheGuard(w) \/ StepSucceeds(w) \/ StepFails(w) \/ End(w)
       \/ mishaps < MaxMishaps /\ SomeoneElseActs
       \/ ForgetUndo

Spec == Init /\ [][Next]_vars

-----------------------------------------------------------------------------
(* Properties *)

\* Every variable holds a value of its kind; in particular each step that is planned
\* or kept to undo names an addon and a place (PlanSteps, Inverse).
TypeOK ==
    /\ link \in Disks /\ gone \subseteq Addon
    /\ there \subseteq Standing /\ starts \subseteq Starter
    /\ profile \in Profile /\ pinned \in [Profile -> [Addon -> Override]]
    /\ work \in [Worker -> Maybe(Batch)] /\ undo \in Seq(Step)
    /\ previous \in [Profile -> Maybe(SUBSET Addon)]
    /\ base \in Maybe(Found) /\ replaced \subseteq Place /\ strange \subseteq Place \cup Starter

\* When an undo has run, every place is as the batch found it, but for the dead links the batch
\* replaced, where no other program changed anything, the steps of the batch took what they were
\* planned for, and no step of the undo failed that could have succeeded; and so is every startup
\* entry (RunAsOneBatch, RepairWhatStillHolds, RunTheUndo).
UndoPutsTheLastBatchBack ==
    \A w \in Worker : Ends(w) /\ work[w].kind = "undo" /\ base # None =>
        /\ \A p \in Place \ (strange \cup {s.place : s \in work[w].unlucky}) :
             link[p] = base.link[p] \/ (p \in replaced /\ link[p] = None)
        /\ \A a \in Starter \ (strange \cup {s.addon : s \in work[w].unlucky}) :
             a \in starts <=> a \in base.starts

\* An undisturbed batch that ends leaves what it was asked for so, but for the
\* steps it reports as failed (SetEnabled, Relink, PresetService::Apply).
WhatWasAskedIsSo ==
    \A w \in Worker : Ends(w) /\ work[w].alone =>
        LET b == work[w]
            now == Entries(link, there, PlacesOf(b.profile))
        IN  /\ \A a \in b.on \cap there : a \in Enabled(now) \/ \E s \in b.failed : s.addon = a
            /\ \A a \in b.off : LinksTo(now, a) \subseteq {s.place : s \in b.failed}

\* The entries derived from what an undisturbed batch read and what it changed
\* are those a new reading would find (AfterTheBatch, Refresh).
WhatIsDerivedIsOnDisk ==
    \A w \in Worker : Ends(w) /\ work[w].alone =>
        Refreshed(work[w].seen, work[w].ran, PlacesOf(work[w].profile))
            = Entries(link, there, PlacesOf(work[w].profile))

\* A repair nobody disturbed takes only links that are dead, however long ago it
\* was that they were shown (StillBrokenAsShown).
ARepairTakesOnlyDeadLinks ==
    [][\A w \in Worker, p \in Place :
         work[w] # None /\ work[w].kind = "repair" /\ work[w].alone
         /\ work'[w] # None /\ work'[w].steps # work[w].steps /\ link'[p] # link[p]
         => link[p] \in Dead]_vars
=============================================================================
