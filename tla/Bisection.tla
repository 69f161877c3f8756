----------------------------- MODULE Bisection -----------------------------
(***************************************************************************)
(* The search for the addon that crashes the simulator (BisectionService.cpp, *)
(* BisectionRounds.cpp, CoupledUnits.cpp, BisectionDrift.cpp,                *)
(* JsonBisectionStore.cpp, BisectionViewModel.cpp), for one profile.         *)
(*                                                                         *)
(* A procedure runs on a thread: it reads the disk, decides and stores the   *)
(* run, applies the round and reads the disk again as the baseline of the    *)
(* next. Other programs and the other pages of this one change the disk in   *)
(* between, a step may fail, and the process may die anywhere.               *)
(***************************************************************************)
EXTENDS FiniteSets, Integers, SequencesExt

CONSTANTS
    Addon,     \* the addons, numbered in the order of their paths
    Foreign,   \* an entry of the destination that is no addon of a library
    None,
    Hangar,    \* how the addons may be coupled: what CouplingScan finds
    Latecomer, \* those that may join the libraries only later
    Culprit,   \* what may be crashing the simulator
    MaxMishaps \* bound: crashes, failures and changes made by others

Key == {"model", "path"}
\* What FactsAboutOne reads of an addon; model folders and written paths are keys
\* the addons share.
Facts == [shares : SUBSET Key, declares : SUBSET Addon, satellite : BOOLEAN]

\* What a read of the disk finds: the entries of the destination, and the addons.
Reading == [entries : SUBSET (Addon \cup {Foreign}), library : SUBSET Addon]
Maybe(S) == S \cup {None}
\* A SearchUnit, a BisectionRun, and a procedure: the step it is at and what it holds.
Unit == [addons : SUBSET Addon, base : Maybe(Addon)]
Run ==
    [units : SUBSET Unit, suspects : SUBSET Unit, cleared : SUBSET Unit, alwaysOn : SUBSET Addon,
     round : Nat, pass : {"units", "inside"}, crashed : BOOLEAN, start : SUBSET Addon]
Procedure ==
    [op : {"begin", "answer", "refine", "accept", "startOver", "stop", "resume", "forget", "told", "apply"},
     at : {"read", "decide", "apply", "adopt", "putBack", "forget", "again", "tell"},
     reading : Maybe(Reading), next : Maybe(Run), news : {"told", "gained", "drifted"},
     seen : Maybe(Reading), loaded : SUBSET (Addon \cup {Foreign})]

ASSUME BisectionAssumption ==
    /\ Addon \subseteq Nat /\ IsFiniteSet(Addon) /\ Addon # {}
    /\ Foreign \notin Addon /\ None \notin Addon \cup Reading \cup Procedure \cup Run
    /\ Hangar \subseteq [Addon -> Facts] /\ Latecomer \subseteq Addon /\ MaxMishaps \in Nat
    /\ Culprit \subseteq Addon \cup {Foreign}

VARIABLES
    facts, culprit,   \* of the addons; the one that crashes the simulator
    entries, library, \* what the destination and the libraries hold
    shown,            \* the snapshot the session shows
    store,            \* the stored run
    baseline,         \* leftBehind_, when weLeftARound_
    work,             \* the procedure that runs
    stage, held, offer, \* the panel, the answer it holds and the question at startup
    setup, fair,      \* what was on when the search began, and whether it could come back
    inPlace, trusted, \* whether the round is on disk, and every answer was about one that was
    mishaps

disk == <<entries, library>>
memory == <<shown, baseline, work, stage, held, offer>>
ghosts == <<setup, fair, inPlace, trusted>>
vars == <<facts, culprit, disk, store, memory, ghosts, mishaps>>

Now == [entries |-> entries, library |-> library]
Enabled(reading) == reading.entries \cap reading.library
\* What the simulator loads: a link to an addon that is gone leads nowhere.
Loaded == entries \cap (library \cup {Foreign})

-----------------------------------------------------------------------------
(* CoupledUnits.cpp *)

Coupled(a, b) ==
    \/ facts[a].shares \cap facts[b].shares # {}
    \/ b \in facts[a].declares \/ a \in facts[b].declares

JoinOnlyTheOne(owner, pair) ==
    [owner EXCEPT ![pair[1]] = IF owner[pair[2]] < @ THEN owner[pair[2]] ELSE @]

\* Join, and what OwnerOf answers after it.
Join(owner, pair) ==
    LET left == owner[pair[1]]
        right == owner[pair[2]]
        least == IF left < right THEN left ELSE right
    IN  [m \in DOMAIN owner |-> IF owner[m] \in {left, right} THEN least ELSE owner[m]]

Owners(on) ==
    FoldLeft(Join, [a \in on |-> a], SetToSeq({p \in on \X on : p[1] # p[2] /\ Coupled(p[1], p[2])}))

\* BaseOf: the only member that declares no base container.
BaseOf(members) ==
    LET bases == {a \in members : ~facts[a].satellite}
    IN  IF Cardinality(members) > 1 /\ Cardinality(bases) = 1 THEN CHOOSE a \in bases : TRUE ELSE None

UnitsFrom(on) ==
    LET owner == Owners(on)
        members(o) == {a \in on : owner[a] = o}
    IN  {[addons |-> members(o), base |-> BaseOf(members(o))] : o \in {owner[a] : a \in on}}

First(unit) == CHOOSE a \in unit.addons : \A b \in unit.addons : a <= b

-----------------------------------------------------------------------------
(* BisectionRounds.cpp *)

Addons(units) == UNION {u.addons : u \in units}

ThirdOf(suspects) ==
    {u \in suspects : Cardinality({v \in suspects : First(v) < First(u)}) < Cardinality(suspects) \div 3}

\* TheHalfToTurnOn
HalfOf(suspects) ==
    {u \in suspects : Cardinality({v \in suspects : First(v) < First(u)}) < Cardinality(suspects) \div 2}

\* TheRound
Round(run) == IF run.round = 0 THEN {} ELSE run.alwaysOn \cup Addons(HalfOf(run.suspects))

OutcomeOf(run) ==
    CASE run.crashed -> "notAmongTheManagedOnes"
      [] ~run.crashed /\ (run.round = 0 \/ Cardinality(run.suspects) # 1) -> "searching"
      [] OTHER -> IF \A u \in run.suspects : Cardinality(u.addons) = 1 THEN "oneAddon" ELSE "group"

AfterTheReferenceRound(run, crashed) ==
    IF crashed THEN [run EXCEPT !.crashed = TRUE] ELSE [run EXCEPT !.suspects = run.units, !.round = 1]

AfterAnsweringTheOtherWay(run, crashed) ==
    LET on == HalfOf(run.suspects)
        off == run.suspects \ on
    IN  CASE OutcomeOf(run) # "searching" -> run
          [] OutcomeOf(run) = "searching" /\ run.round = 0 -> AfterTheReferenceRound(run, crashed)
          [] OTHER -> [run EXCEPT !.suspects = IF crashed THEN off ELSE on,
                                  !.cleared = @ \cup (IF crashed THEN on ELSE off), !.round = @ + 1]

AfterAnswering(run, crashed) ==
    LET on == HalfOf(run.suspects)
        off == run.suspects \ on
    IN  CASE OutcomeOf(run) # "searching" -> run
          [] OutcomeOf(run) = "searching" /\ run.round = 0 -> AfterTheReferenceRound(run, crashed)
          [] OTHER -> [run EXCEPT !.suspects = IF crashed THEN on ELSE off,
                                  !.cleared = @ \cup (IF crashed THEN off ELSE on), !.round = @ + 1]

TheOnlySuspect(run) == CHOOSE u \in run.suspects : TRUE

ASecondPassIsPossible(run) ==
    run.pass = "units" /\ OutcomeOf(run) = "group" /\ TheOnlySuspect(run).base # None

IntoTheSecondPassWithTheCleared(run) ==
    LET group == TheOnlySuspect(run)
        alone == {[addons |-> {a}, base |-> None] : a \in group.addons \ {group.base}}
    IN  [run EXCEPT !.units = alone, !.suspects = alone, !.alwaysOn = {group.base}, !.pass = "inside"]

IntoTheSecondPassWithoutTheSetup(run) ==
    LET group == TheOnlySuspect(run)
        alone == {[addons |-> {a}, base |-> None] : a \in group.addons \ {group.base}}
    IN  [run EXCEPT !.units = alone, !.suspects = alone, !.cleared = {}, !.start = {},
                    !.alwaysOn = {group.base}, !.pass = "inside"]

IntoTheSecondPass(run) ==
    LET group == TheOnlySuspect(run)
        alone == {[addons |-> {a}, base |-> None] : a \in group.addons \ {group.base}}
    IN  [run EXCEPT !.units = alone, !.suspects = alone, !.cleared = {},
                    !.alwaysOn = {group.base}, !.pass = "inside"]

RoundsInTheWorstCase(units) == CHOOSE n \in 0..units : 2^n >= units /\ \A m \in 0..(n - 1) : 2^m < units

-----------------------------------------------------------------------------
(* BisectionDrift.cpp *)

DriftOfWhatIsGone(before, now) ==
    (before.entries \ now.entries) \X {"loaded"}
    \cup (before.library \ now.library) \X {"loaded"}
    \cup (now.library \ before.library) \X {"joined"}

\* DriftBetween: the entries, then the addons, that are not the same.
Drift(before, now) ==
    ((before.entries \ now.entries) \cup (now.entries \ before.entries)) \X {"loaded"}
    \cup (before.library \ now.library) \X {"loaded"}
    \cup (now.library \ before.library) \X {"joined"}

NothingThatLoadedMoved(drift) == \A d \in drift : d[2] = "joined"

\* WhatMovedSince
Moved(now) == IF baseline = None THEN {} ELSE Drift(baseline, now)

-----------------------------------------------------------------------------
(* BisectionService.cpp *)

TheSearchSpace(run) == run.alwaysOn \cup Addons(run.units)

\* RunFor
RunFor(snapshot) ==
    [units |-> UnitsFrom(Enabled(snapshot)), suspects |-> {}, cleared |-> {}, alwaysOn |-> {},
     round |-> 0, pass |-> "units", crashed |-> FALSE, start |-> Enabled(snapshot)]

\* What ApplyTheRound and PutBack turn on and off, as read.
RoundBatch(run, reading) ==
    LET found == TheSearchSpace(run) \cap reading.library
    IN  [on |-> found \cap Round(run), off |-> found \ Round(run)]
PutBackBatch(run, reading) ==
    [on |-> (run.start \cap reading.library) \ Enabled(reading), off |-> Enabled(reading) \ run.start]

\* SetEnabled on the disk as it is by then, some steps of which may fail.
After(batch, failed) == (entries \ ((batch.off \cap library) \ failed)) \cup (batch.on \ failed)

\* Whether nobody changed the disk since it was read.
Undisturbed == work.reading = Now

Idle == work = None /\ ~offer
Start(op) ==
    [op |-> op, at |-> "read", reading |-> None, next |-> None, news |-> "told",
     seen |-> IF op = "begin" THEN shown ELSE None,
     loaded |-> IF op = "answer" THEN Loaded ELSE {}]

Init ==
    /\ facts \in Hangar /\ culprit \in Culprit
    /\ library \in {Addon \ late : late \in SUBSET Latecomer} /\ entries = library \cup {Foreign}
    /\ shown = Now /\ store = None /\ baseline = None /\ work = None
    /\ stage = "notStarted" /\ held = None /\ offer = FALSE
    /\ setup = None /\ fair = TRUE /\ inPlace = FALSE /\ trusted = TRUE
    /\ mishaps = 0

\* What TellAbout and Take make of the stored run.
StageOf(run) == IF run = None THEN "notStarted" ELSE IF OutcomeOf(run) = "searching" THEN "asking" ELSE "finished"

\* RunTheProcedure: what the panel offers at each stage.
Ask(op, from) ==
    /\ Idle /\ stage \in from
    /\ work' = Start(op)
    /\ held' = CASE op \in {"answer", "refine"} -> Start(op) [] OTHER -> held
    /\ UNCHANGED <<facts, culprit, disk, store, shown, baseline, stage, offer, ghosts, mishaps>>

Begin == Ask("begin", {"notStarted"})
Answer == Ask("answer", {"asking"})
Refine == store # None /\ ASecondPassIsPossible(store) /\ Ask("refine", {"finished"})
CarryOn == Ask("accept", {"gained"})
StartOver == Ask("startOver", {"drifted"})
Stop == Ask("stop", {"asking", "drifted", "gained", "finished"})

\* OfferToCarryOnTheSearchThatWasLeftHalfway. Whoever closes the question finds the
\* panel where the search stands: it reads that before it offers anything (Show).
Resume(choice) ==
    /\ offer /\ offer' = FALSE
    /\ work' = CASE choice = "carryOn" -> Start("resume")
                 [] choice = "putBack" -> Start("stop")
                 [] choice = "forget" -> [Start("stop") EXCEPT !.at = "forget", !.op = "forget"]
                 [] choice = "neither" -> None
    /\ stage' = IF choice = "neither" THEN StageOf(store) ELSE stage
    /\ UNCHANGED <<facts, culprit, disk, store, shown, baseline, held, ghosts, mishaps>>

ReadTheDisk ==
    /\ work # None /\ work.at = "read"
    /\ work' = [work EXCEPT !.reading = Now,
                            !.at = IF work.op \in {"stop", "startOver"} THEN "putBack" ELSE "decide"]
    /\ UNCHANGED <<facts, culprit, disk, store, shown, baseline, stage, held, offer, ghosts, mishaps>>

Deciding(op) == work # None /\ work.at = "decide" /\ work.op = op
Tell(news) == work' = [Start("told") EXCEPT !.at = "tell", !.news = news]
Refused(drift) == Tell(IF NothingThatLoadedMoved(drift) THEN "gained" ELSE "drifted")

\* TakeTheNextRound: nothing is applied when the run is over or cannot be written.
TakeTheNextRound(next) ==
    /\ store' = next
    /\ IF OutcomeOf(next) = "searching"
       THEN work' = [Start("apply") EXCEPT !.at = "apply", !.reading = work.reading, !.next = next]
       ELSE Tell("told")
    /\ UNCHANGED mishaps
CannotBeWritten == mishaps < MaxMishaps /\ mishaps' = mishaps + 1 /\ Tell("told") /\ UNCHANGED store

DecideToBegin ==
    /\ Deciding("begin")
    /\ IF Enabled(work.seen) = {}
       THEN Tell("told") /\ setup' = None /\ fair' = TRUE /\ UNCHANGED <<store, inPlace, trusted, mishaps>>
       ELSE \/ /\ TakeTheNextRound(RunFor(work.seen))
               /\ setup' = IF setup = None THEN Enabled(work.reading) ELSE setup
               /\ fair' = IF setup = None THEN work.seen = work.reading /\ work.reading.library = library ELSE fair
               /\ inPlace' = FALSE /\ trusted' = TRUE
            \/ CannotBeWritten /\ setup' = None /\ fair' = TRUE /\ UNCHANGED <<inPlace, trusted>>
    /\ UNCHANGED <<facts, culprit, disk, shown, baseline, stage, held, offer>>

DecideToAnswer ==
    /\ Deciding("answer") /\ store # None
    /\ LET drift == Moved(work.reading) IN
         \/ drift # {} /\ Refused(drift) /\ UNCHANGED <<store, trusted, inPlace, mishaps>>
         \/ drift = {} /\ OutcomeOf(store) # "searching" /\ Tell("told")
            /\ UNCHANGED <<store, trusted, inPlace, mishaps>>
         \/ /\ drift = {} /\ OutcomeOf(store) = "searching"
            /\ TakeTheNextRound(AfterAnswering(store, culprit \in work.loaded))
            /\ trusted' = (trusted /\ inPlace /\ work.loaded = Loaded /\ Undisturbed)
            /\ inPlace' = FALSE
         \/ drift = {} /\ OutcomeOf(store) = "searching" /\ CannotBeWritten /\ UNCHANGED <<trusted, inPlace>>
    /\ UNCHANGED <<facts, culprit, disk, shown, baseline, stage, held, offer, setup, fair>>

DecideToRefine ==
    /\ Deciding("refine") /\ store # None /\ ASecondPassIsPossible(store)
    /\ LET drift == Moved(work.reading) IN
         \/ drift # {} /\ Refused(drift) /\ UNCHANGED <<store, inPlace, mishaps>>
         \/ drift = {} /\ TakeTheNextRound(IntoTheSecondPass(store)) /\ inPlace' = FALSE
         \/ drift = {} /\ CannotBeWritten /\ UNCHANGED inPlace
    /\ UNCHANGED <<facts, culprit, disk, shown, baseline, stage, held, offer, setup, fair, trusted>>

\* AcceptWhatJoinedTheLibrary, and then what was held is asked again.
DecideToAccept ==
    /\ Deciding("accept") /\ store # None
    /\ LET drift == Moved(work.reading) IN
         IF NothingThatLoadedMoved(drift)
         THEN /\ baseline' = IF drift = {} THEN baseline ELSE work.reading
              /\ IF held = None THEN Tell("told") ELSE work' = held
         ELSE Refused(drift) /\ UNCHANGED baseline
    /\ UNCHANGED <<facts, culprit, disk, store, shown, stage, held, offer, ghosts, mishaps>>

\* Resume applies the stored round again, over whatever it left half done.
DecideToResume ==
    /\ Deciding("resume") /\ store # None
    /\ work' = [work EXCEPT !.at = "apply", !.next = store]
    /\ inPlace' = FALSE
    /\ UNCHANGED <<facts, culprit, disk, store, shown, baseline, stage, held, offer, setup, fair, trusted, mishaps>>

Running(at) == work # None /\ work.at = at
Planned == IF work.at = "apply" THEN RoundBatch(work.next, work.reading) ELSE PutBackBatch(store, work.reading)

\* SetEnabled, in ApplyTheRound.
Apply(failed) ==
    /\ Running("apply") /\ failed \subseteq Planned.on \cup Planned.off
    /\ mishaps' = mishaps + (IF failed = {} THEN 0 ELSE 1) /\ mishaps' <= MaxMishaps
    /\ entries' = After(Planned, failed)
    /\ inPlace' = (failed = {} /\ Undisturbed /\ TheSearchSpace(work.next) \subseteq library)
    /\ work' = [work EXCEPT !.at = "adopt",
                            !.reading = [Now EXCEPT !.entries = After(Planned, failed)]]
    /\ UNCHANGED <<facts, culprit, library, store, shown, baseline, stage, held, offer, setup, fair, trusted>>

AdoptAsTheBaseline ==
    /\ Running("adopt")
    /\ baseline' = Now /\ inPlace' = (inPlace /\ Undisturbed)
    /\ Tell("told")
    /\ UNCHANGED <<facts, culprit, disk, store, shown, stage, held, offer, setup, fair, trusted, mishaps>>

\* SetEnabled, in PutBack.
PutBack(failed) ==
    /\ Running("putBack") /\ store # None /\ failed \subseteq Planned.on \cup Planned.off
    /\ mishaps' = mishaps + (IF failed = {} THEN 0 ELSE 1) /\ mishaps' <= MaxMishaps
    /\ entries' = After(Planned, failed)
    /\ fair' = (fair /\ failed = {} /\ Undisturbed)
    /\ work' = [work EXCEPT !.at = "forget", !.reading = None]
    /\ UNCHANGED <<facts, culprit, library, store, shown, baseline, stage, held, offer, setup, inPlace, trusted>>

\* The end of Stop. StartOver begins again from what is on the disk then.
Forget ==
    /\ Running("forget")
    /\ store' = None /\ baseline' = None
    /\ inPlace' = FALSE
    /\ work' = [Start(work.op) EXCEPT !.at = IF work.op = "startOver" THEN "again" ELSE "tell"]
    /\ setup' = IF work.op = "startOver" THEN setup ELSE None
    /\ fair' = IF work.op = "startOver" THEN fair ELSE TRUE
    /\ UNCHANGED <<facts, culprit, disk, shown, stage, held, offer, trusted, mishaps>>

ReadToBeginAgain ==
    /\ Running("again")
    /\ work' = [work EXCEPT !.op = "begin", !.at = "decide", !.seen = Now, !.reading = Now]
    /\ fair' = (fair /\ Enabled(Now) = setup)
    /\ UNCHANGED <<facts, culprit, disk, store, shown, baseline, stage, held, offer, setup, inPlace, trusted, mishaps>>

Take ==
    /\ Running("tell")
    /\ stage' = IF work.news = "told" THEN StageOf(store) ELSE work.news
    /\ held' = IF stage' = "gained" THEN held ELSE None
    /\ work' = None
    /\ UNCHANGED <<facts, culprit, disk, store, shown, baseline, offer, ghosts, mishaps>>

\* Show: the panel reads where the search stands.
Show ==
    /\ Idle /\ stage' = StageOf(store) /\ held' = None
    /\ UNCHANGED <<facts, culprit, disk, store, shown, baseline, work, offer, ghosts, mishaps>>

-----------------------------------------------------------------------------
(* Everything else. *)

\* RefreshEntries, when a page that shows them opens; it changes nothing if nothing changed.
RefreshEntries ==
    /\ shown # Now /\ shown' = Now
    /\ UNCHANGED <<facts, culprit, disk, store, baseline, work, stage, held, offer, ghosts, mishaps>>

Mishap == mishaps < MaxMishaps /\ mishaps' = mishaps + 1

\* Another program, or another page of this one, which then shows what it did.
SomeoneChangesTheEntry(e) ==
    /\ Mishap /\ entries' = IF e \in entries THEN entries \ {e} ELSE entries \cup {e}
    /\ shown' \in {shown, [Now EXCEPT !.entries = entries']}
    /\ UNCHANGED <<facts, culprit, library, store, baseline, work, stage, held, offer, ghosts>>

AnAddonLeavesOrJoins(a) ==
    /\ Mishap /\ library' = IF a \in library THEN library \ {a} ELSE library \cup {a}
    /\ fair' = FALSE
    /\ UNCHANGED <<facts, culprit, entries, store, shown, baseline, work, stage, held, offer, setup, inPlace, trusted>>

\* What a batch that dies halfway may have done.
Halfway ==
    IF work # None /\ (work.at = "apply" \/ (work.at = "putBack" /\ store # None))
    THEN {After(Planned, undone) : undone \in SUBSET (Planned.on \cup Planned.off)}
    ELSE {entries}

\* The program starts again, reads the disk and asks what to do with a stored run.
Crash ==
    /\ Mishap
    /\ entries' \in Halfway
    /\ shown' = [Now EXCEPT !.entries = entries']
    /\ baseline' = None /\ work' = None /\ stage' = "notStarted" /\ held' = None
    /\ offer' = (store # None)
    /\ inPlace' = FALSE
    /\ setup' = IF store = None THEN None ELSE setup
    /\ fair' = IF store = None THEN TRUE ELSE fair
    /\ UNCHANGED <<facts, culprit, library, store, trusted>>

Next ==
    \/ Begin \/ Answer \/ Refine \/ CarryOn \/ StartOver \/ Stop
    \/ \E choice \in {"carryOn", "putBack", "forget", "neither"} : Resume(choice)
    \/ ReadTheDisk \/ DecideToBegin \/ DecideToAnswer \/ DecideToRefine \/ DecideToAccept \/ DecideToResume
    \/ \E failed \in SUBSET Addon : Apply(failed) \/ PutBack(failed)
    \/ AdoptAsTheBaseline \/ Forget \/ ReadToBeginAgain \/ Take \/ Show \/ RefreshEntries
    \/ \E e \in Addon \cup {Foreign} : SomeoneChangesTheEntry(e)
    \/ \E a \in Addon : AnAddonLeavesOrJoins(a)
    \/ Crash

Spec == Init /\ [][Next]_vars

-----------------------------------------------------------------------------
(* Properties *)

\* Every variable holds a value of its kind; in particular the suspects and the
\* cleared of a stored run are disjoint and between them all its units (AfterAnswering).
TypeOK ==
    /\ facts \in Hangar /\ culprit \in Addon \cup {Foreign}
    /\ Now \in Reading /\ shown \in Reading /\ baseline \in Maybe(Reading)
    /\ work \in Maybe(Procedure) /\ held \in Maybe(Procedure) /\ offer \in BOOLEAN
    /\ stage \in {"notStarted", "asking", "drifted", "gained", "finished"}
    /\ held # None => stage \in {"asking", "finished", "gained"}
    /\ setup \in Maybe(SUBSET Addon) /\ {fair, inPlace, trusted} \subseteq BOOLEAN
    /\ mishaps \in 0..MaxMishaps
    /\ store \in Maybe(Run)
    /\ store # None =>
         /\ store.suspects \subseteq store.units /\ store.cleared \subseteq store.units
         /\ store.suspects \cap store.cleared = {}
         /\ store.round > 0 => store.suspects \cup store.cleared = store.units

\* The units are the classes of the coupling: two coupled addons are in one unit,
\* and no unit falls in two parts that nothing couples (UnitsFrom).
TheUnitsAreTheCoupledOnes ==
    store # None /\ store.pass = "units" =>
        /\ \A u, v \in store.units : u = v \/ \A a \in u.addons, b \in v.addons : ~Coupled(a, b) /\ a # b
        /\ \A u \in store.units : \A part \in (SUBSET u.addons) \ {{}, u.addons} :
             \E a \in part, b \in u.addons \ part : Coupled(a, b)
        /\ Addons(store.units) = store.start

\* An addon that crashes the simulator alone is never ruled out, as long as each
\* round was in place when it was answered: whatever other programs did in
\* between was found or changed nothing (AfterAnswering, IntoTheSecondPass).
TheCulpritIsNeverRuledOut ==
    store # None /\ trusted /\ culprit \in TheSearchSpace(store) =>
        /\ ~store.crashed
        /\ store.round > 0 => culprit \in store.alwaysOn \cup Addons(store.suspects)

\* An answer that is taken is about the round the program put in place, and not
\* about a disk that changed since it was (Answer, WhatMovedSince).
AnAnswerIsAboutTheRound ==
    Deciding("answer") /\ store # None /\ inPlace /\ Moved(work.reading) = {} =>
        work.reading.entries \cap TheSearchSpace(store) = Round(store) \cap TheSearchSpace(store)

\* When a search ends with nothing failing as it puts the setup back, what is
\* enabled is what was when it began: over crashes, resumed rounds, searches
\* started over and links other programs changed (Stop, PutBack, StartOver).  It says
\* nothing once an addon left or joined the libraries: fair is FALSE from then on.
TheSetupComesBack ==
    [][Running("putBack") /\ work' # None /\ work'.at = "forget" /\ fair' => Enabled(Now)' = setup]_vars

\* The first pass never needs more rounds than were announced, and no answer clears
\* the last suspect (TheHalfToTurnOn, RoundsInTheWorstCase).
TheAnnouncedRoundsAreEnough ==
    store # None /\ store.pass = "units" /\ OutcomeOf(store) = "searching" =>
        /\ store.round <= RoundsInTheWorstCase(Cardinality(store.units))
        /\ store.round > 0 => store.suspects # {}

(* What the manual says, and the code does not do. *)

\* manual/fs-organizer-en.tex: "Your setup is saved before the first round and
\* restored when the search ends, however it ends." Begin saves what the session
\* shows, which no search refreshes.
TheSetupIsRestoredHoweverItEnds ==
    [][Running("putBack") /\ work' # None /\ work'.at = "forget" /\ mishaps' = 0 => Enabled(Now)' = setup]_vars
=============================================================================
