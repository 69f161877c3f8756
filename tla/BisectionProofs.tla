-------------------------- MODULE BisectionProofs ---------------------------
(***************************************************************************)
(* That the search never rules out the addon that crashes the simulator,   *)
(* puts back what was on when it began, asks about the classes of the      *)
(* coupling, and ends within the rounds it announced, proved for any       *)
(* addons, couplings, crashes, failures and changes made by other programs, *)
(* in any number.                                                          *)
(***************************************************************************)
EXTENDS Bisection, FiniteSetTheorems, SequenceTheorems, WellFoundedInduction, TLAPS

\* The suspects and the cleared of a run divide its units.
Divided(run) ==
    /\ run.suspects \subseteq run.units /\ run.cleared \subseteq run.units
    /\ run.suspects \cap run.cleared = {}
    /\ run.round > 0 => run.suspects \cup run.cleared = run.units
    /\ run.round = 0 => run.cleared = {}

\* The culprit, if the search is over it at all, is still in it.
StillSearched(run) ==
    culprit \in TheSearchSpace(run) =>
        /\ ~run.crashed
        /\ run.round > 0 => culprit \in run.alwaysOn \cup Addons(run.suspects)

\* The round is what a read of the disk found.
Matches(reading, run) ==
    /\ reading.entries \cap TheSearchSpace(run) = Round(run) \cap TheSearchSpace(run)
    /\ TheSearchSpace(run) \subseteq reading.library

\* What each procedure has read, seen and stored by the time it needs it.
ReadBefore ==
    /\ work # None =>
         /\ work.at \in {"decide", "apply", "adopt", "putBack"} => work.reading \in Reading
         /\ work.op = "begin" => work.seen \in Reading
         /\ work.at \in {"apply", "adopt"} => work.next \in Run /\ work.next = store
    /\ held # None => held.at = "read" /\ held.op \in {"answer", "refine"}
    /\ offer => work = None /\ held = None

\* A round that is in place is the stored one, and the baseline shows it.
InPlaceIsTheRound ==
    inPlace /\ store # None =>
        IF work # None /\ work.at = "adopt" THEN Matches(work.reading, store)
        ELSE baseline \in Reading /\ Matches(baseline, store)

StoredIsDivided == store # None => Divided(store)
StoredStillSearches == store # None /\ trusted => StillSearched(store)

IInv == TypeOK /\ ReadBefore /\ StoredIsDivided /\ InPlaceIsTheRound /\ StoredStillSearches

-----------------------------------------------------------------------------
(* What the operators of the rounds return. *)

\* The half that is turned on is a part of the suspects.
LEMMA HalfOfIsAPart == ASSUME NEW S PROVE HalfOf(S) \subseteq S
  BY DEF HalfOf

\* Units are made of addons.
LEMMA AddonsOfUnits == ASSUME NEW S \in SUBSET Unit PROVE Addons(S) \subseteq Addon
  BY DEF Addons, Unit

\* The base of a group is one of its members, if it has one.
LEMMA BaseIsAMember ==
  ASSUME NEW members \in SUBSET Addon
  PROVE  BaseOf(members) \in Maybe(Addon)
<1> DEFINE bases == {a \in members : ~facts[a].satellite}
<1>1. IsFiniteSet(bases)
  BY BisectionAssumption, FS_Subset
<1>2. CASE Cardinality(members) > 1 /\ Cardinality(bases) = 1
  <2>1. \E a : bases = {a}
    BY <1>1, <1>2, FS_Singleton
  <2>2. (CHOOSE a \in bases : TRUE) \in members
    BY <2>1
  <2> QED
    BY <1>2, <2>2 DEF BaseOf, Maybe
<1>3. CASE ~(Cardinality(members) > 1 /\ Cardinality(bases) = 1)
  BY <1>3 DEF BaseOf, Maybe
<1> QED
  BY <1>2, <1>3

\* What the coupling joins are units, for any coupling.
LEMMA UnitsAreUnits == ASSUME NEW on \in SUBSET Addon PROVE UnitsFrom(on) \subseteq Unit
<1> DEFINE owner == Owners(on)
           members(o) == {a \in on : owner[a] = o}
<1>1. \A o : members(o) \in SUBSET Addon
  OBVIOUS
<1>2. \A o : BaseOf(members(o)) \in Maybe(Addon)
  BY <1>1, BaseIsAMember
<1>3. \A o : [addons |-> members(o), base |-> BaseOf(members(o))] \in Unit
  BY <1>1, <1>2 DEF Unit
<1>4. UnitsFrom(on) = {[addons |-> members(o), base |-> BaseOf(members(o))] : o \in {owner[a] : a \in on}}
  BY DEF UnitsFrom
<1> HIDE DEF members, owner
<1> QED
  BY <1>3, <1>4

\* A run starts well formed and with nothing ruled out.
LEMMA ANewRun ==
  ASSUME NEW seen \in Reading
  PROVE  RunFor(seen) \in Run /\ Divided(RunFor(seen)) /\ StillSearched(RunFor(seen))
<1>1. Enabled(seen) \in SUBSET Addon
  BY DEF Enabled, Reading
<1>2. UnitsFrom(Enabled(seen)) \in SUBSET Unit
  BY <1>1, UnitsAreUnits
<1>3. RunFor(seen) \in Run
  BY <1>1, <1>2 DEF RunFor, Run
<1> QED
  BY <1>3 DEF RunFor, Divided, StillSearched

\* A run that goes on did not crash with everything off.
LEMMA Searching ==
  ASSUME NEW run \in Run, OutcomeOf(run) = "searching"
  PROVE  ~run.crashed
  BY DEF OutcomeOf, Run

\* An answer leaves a run, the units of which are still divided.
LEMMA AnswerKeepsItARun ==
  ASSUME NEW run \in Run, Divided(run), NEW crashed \in BOOLEAN, OutcomeOf(run) = "searching"
  PROVE  AfterAnswering(run, crashed) \in Run /\ Divided(AfterAnswering(run, crashed))
<1> DEFINE on == HalfOf(run.suspects)
           off == run.suspects \ on
           next == AfterAnswering(run, crashed)
<1>1. CASE run.round = 0
  <2>1. next = AfterTheReferenceRound(run, crashed)
    BY <1>1 DEF AfterAnswering
  <2>2. CASE crashed
    BY ZenonT(30), <1>1, <2>1, <2>2 DEF AfterTheReferenceRound, Run, Divided
  <2>3. CASE ~crashed
    <3>1. next = [run EXCEPT !.suspects = run.units, !.round = 1]
      BY <2>1, <2>3 DEF AfterTheReferenceRound
    <3> HIDE DEF next
    <3>2. next \in Run
      BY <3>1 DEF Run
    <3>3. /\ next.suspects = run.units /\ next.units = run.units /\ next.cleared = run.cleared
          /\ next.round = 1
      BY <3>1 DEF Run
    <3> QED
      BY <1>1, <3>2, <3>3 DEF Divided, next
  <2> QED
    BY <2>2, <2>3
<1>2. CASE run.round # 0
  <2>1. next = [run EXCEPT !.suspects = IF crashed THEN on ELSE off,
                           !.cleared = @ \cup (IF crashed THEN off ELSE on), !.round = @ + 1]
    BY <1>2 DEF AfterAnswering
  <2>2. on \subseteq run.suspects /\ off = run.suspects \ on
    BY HalfOfIsAPart
  <2> HIDE DEF on, off, next
  <2>3. next \in Run
    <3>1. on \in SUBSET Unit /\ off \in SUBSET Unit /\ run.cleared \in SUBSET Unit /\ run.round \in Nat
      BY <2>2 DEF Run
    <3>2. (IF crashed THEN on ELSE off) \in SUBSET Unit
          /\ run.cleared \cup (IF crashed THEN off ELSE on) \in SUBSET Unit
      BY <3>1
    <3>3. run.round + 1 \in Nat
      BY <3>1
    <3> QED
      BY <2>1, <3>2, <3>3 DEF Run
  <2>4. /\ next.suspects = (IF crashed THEN on ELSE off) /\ next.units = run.units
        /\ next.cleared = run.cleared \cup (IF crashed THEN off ELSE on)
        /\ next.round = run.round + 1 /\ run.round \in Nat
    BY <2>1 DEF Run
  <2>5. Divided(next)
    BY <1>2, <2>2, <2>4 DEF Divided
  <2> QED
    BY <2>3, <2>5 DEF next
<1> QED
  BY <1>1, <1>2

\* An answer that tells whether the culprit was loaded keeps it in the search.
LEMMA AnswerKeepsTheCulprit ==
  ASSUME NEW run \in Run, Divided(run), StillSearched(run), OutcomeOf(run) = "searching",
         NEW crashed \in BOOLEAN, culprit \in TheSearchSpace(run) => (crashed <=> culprit \in Round(run))
  PROVE  StillSearched(AfterAnswering(run, crashed))
<1> DEFINE on == HalfOf(run.suspects)
           off == run.suspects \ on
           next == AfterAnswering(run, crashed)
<1>1. CASE run.round = 0
  <2>1. next = AfterTheReferenceRound(run, crashed)
    BY <1>1 DEF AfterAnswering
  <2>2. TheSearchSpace(next) = TheSearchSpace(run) /\ next.alwaysOn = run.alwaysOn
    BY <2>1 DEF AfterTheReferenceRound, TheSearchSpace, Run
  <2>3. SUFFICES ASSUME culprit \in TheSearchSpace(run)
                 PROVE  ~next.crashed /\ culprit \in next.alwaysOn \cup Addons(next.suspects)
    BY <2>2 DEF StillSearched
  <2>4. ~crashed
    BY <1>1, <2>3 DEF Round
  <2>5. next.crashed = run.crashed /\ next.suspects = run.units
    BY <2>1, <2>4 DEF AfterTheReferenceRound, Run
  <2> QED
    BY <2>2, <2>3, <2>5 DEF StillSearched, TheSearchSpace
<1>2. CASE run.round # 0
  <2>1. next = [run EXCEPT !.suspects = IF crashed THEN on ELSE off,
                           !.cleared = @ \cup (IF crashed THEN off ELSE on), !.round = @ + 1]
    BY <1>2 DEF AfterAnswering
  <2>2. /\ next.suspects = (IF crashed THEN on ELSE off) /\ next.units = run.units
        /\ next.alwaysOn = run.alwaysOn /\ next.crashed = run.crashed
    BY <2>1 DEF Run
  <2>3. TheSearchSpace(next) = TheSearchSpace(run)
    BY <2>2 DEF TheSearchSpace
  <2>4. SUFFICES ASSUME culprit \in TheSearchSpace(run)
                 PROVE  ~next.crashed /\ culprit \in next.alwaysOn \cup Addons(next.suspects)
    BY <2>3 DEF StillSearched
  <2>5. ~run.crashed /\ culprit \in run.alwaysOn \cup Addons(run.suspects)
    BY <1>2, <2>4 DEF StillSearched, Run
  <2>6. crashed <=> culprit \in run.alwaysOn \cup Addons(on)
    BY <1>2, <2>4 DEF Round
  <2>7. Addons(run.suspects) \subseteq Addons(on) \cup Addons(off)
    BY DEF Addons
  <2> QED
    BY <2>2, <2>5, <2>6, <2>7
<1> QED
  BY <1>1, <1>2

\* The second pass searches the group the first one found, and all of it.
LEMMA TheSecondPass ==
  ASSUME NEW run \in Run, ASecondPassIsPossible(run)
  PROVE  LET next == IntoTheSecondPass(run)
         IN  next \in Run /\ Divided(next) /\ StillSearched(next)
<1> DEFINE group == TheOnlySuspect(run)
           alone == {[addons |-> {a}, base |-> None] : a \in group.addons \ {group.base}}
           next == IntoTheSecondPass(run)
<1>1. next = [run EXCEPT !.units = alone, !.suspects = alone, !.cleared = {},
                         !.alwaysOn = {group.base}, !.pass = "inside"]
  BY DEF IntoTheSecondPass
<1>2. run.suspects # {}
  <2>1. OutcomeOf(run) = "group"
    BY DEF ASecondPassIsPossible
  <2> QED
    BY <2>1 DEF OutcomeOf
<1>3. group \in Unit /\ group.base # None
  <2>1. group \in run.suspects
    BY <1>2 DEF TheOnlySuspect
  <2> QED
    BY <2>1 DEF Run, ASecondPassIsPossible
<1>4. alone \subseteq Unit /\ group.base \in Addon
  BY <1>3 DEF Unit, Maybe
<1>5. ~run.crashed
  BY DEF ASecondPassIsPossible, OutcomeOf, Run
<1> HIDE DEF alone, group, next
<1>6. next \in Run
  BY <1>1, <1>4 DEF Run
<1>7. /\ next.units = alone /\ next.suspects = alone /\ next.cleared = {} /\ next.alwaysOn = {group.base}
      /\ next.crashed = run.crashed
  BY <1>1 DEF Run
<1>8. Divided(next)
  BY <1>7 DEF Divided
<1>9. StillSearched(next)
  BY <1>5, <1>7 DEF StillSearched, TheSearchSpace
<1> QED
  BY <1>6, <1>8, <1>9 DEF next

-----------------------------------------------------------------------------
(* What no drift, and only addons that joined, leave as it was. *)

\* No drift means the same entries and the same addons.
LEMMA NoDrift ==
  ASSUME NEW before \in Reading, NEW now \in Reading, Drift(before, now) = {}
  PROVE  before.entries = now.entries /\ before.library = now.library
<1>1. ASSUME NEW e, e \in before.entries \/ e \in now.entries PROVE e \in before.entries /\ e \in now.entries
  <2>1. <<e, "loaded">> \notin Drift(before, now)
    OBVIOUS
  <2> QED
    BY <1>1, <2>1 DEF Drift
<1>2. ASSUME NEW a, a \in before.library PROVE a \in now.library
  <2>1. <<a, "loaded">> \notin Drift(before, now)
    OBVIOUS
  <2> QED
    BY <1>2, <2>1 DEF Drift
<1>3. ASSUME NEW a, a \in now.library PROVE a \in before.library
  <2>1. <<a, "joined">> \notin Drift(before, now)
    OBVIOUS
  <2> QED
    BY <1>3, <2>1 DEF Drift
<1> QED
  BY <1>1, <1>2, <1>3 DEF Reading

\* When all that moved are addons that joined, the entries are the same.
LEMMA OnlyJoined ==
  ASSUME NEW before \in Reading, NEW now \in Reading, NothingThatLoadedMoved(Drift(before, now))
  PROVE  before.entries = now.entries /\ before.library \subseteq now.library
<1>0. \A x : <<x, "loaded">> \notin Drift(before, now)
  BY DEF NothingThatLoadedMoved
<1>1. ASSUME NEW e, e \in before.entries \/ e \in now.entries PROVE e \in before.entries /\ e \in now.entries
  <2>1. <<e, "loaded">> \notin Drift(before, now)
    BY <1>0
  <2> QED
    BY <1>1, <2>1 DEF Drift
<1>2. ASSUME NEW a, a \in before.library PROVE a \in now.library
  <2>1. <<a, "loaded">> \notin Drift(before, now)
    BY <1>0
  <2> QED
    BY <1>2, <2>1 DEF Drift
<1> QED
  BY <1>1, <1>2 DEF Reading

\* A round that was turned on and off with nothing failing, on a disk nobody changed,
\* is in place.
LEMMA AppliedIsInPlace ==
  ASSUME NEW run, NEW reading \in Reading, reading.library = library, reading.entries = entries,
         TheSearchSpace(run) \subseteq library
  PROVE  Matches([entries |-> After(RoundBatch(run, reading), {}), library |-> library], run)
<1> DEFINE S == TheSearchSpace(run)
           batch == RoundBatch(run, reading)
<1>1. batch.on = S \cap Round(run) /\ batch.off = S \ Round(run)
  BY DEF RoundBatch
<1>2. After(batch, {}) = (entries \ ((S \ Round(run)) \cap library)) \cup (S \cap Round(run))
  BY <1>1 DEF After
<1>3. After(batch, {}) \cap S = Round(run) \cap S
  BY <1>2
<1> QED
  BY <1>3 DEF Matches

-----------------------------------------------------------------------------
(* The steps. *)

Ops == {"begin", "answer", "refine", "accept", "startOver", "stop", "resume", "forget", "told", "apply"}
At == {"read", "decide", "apply", "adopt", "putBack", "forget", "again", "tell"}

\* A procedure starts by reading.
LEMMA StartType ==
  ASSUME TypeOK, NEW op \in Ops
  PROVE  /\ Start(op) \in Procedure /\ Start(op).op = op /\ Start(op).at = "read"
         /\ op = "begin" => Start(op).seen = shown
<1>1. (IF op = "begin" THEN shown ELSE None) \in Maybe(Reading)
  BY DEF TypeOK, Maybe
<1>2. (IF op = "answer" THEN Loaded ELSE {}) \in SUBSET (Addon \cup {Foreign})
  BY DEF TypeOK, Loaded, Now, Reading
<1> QED
  BY <1>1, <1>2 DEF Start, Procedure, Ops, Maybe

\* What is told to the panel is a procedure at its last step.
LEMMA TellType ==
  ASSUME TypeOK, NEW news \in {"told", "gained", "drifted"}, Tell(news)
  PROVE  /\ work' \in Procedure /\ work'.op = "told" /\ work'.at = "tell"
<1>1. Start("told") \in Procedure /\ Start("told").op = "told"
  BY StartType DEF Ops
<1>2. work' = [Start("told") EXCEPT !.at = "tell", !.news = news]
  BY DEF Tell
<1> QED
  BY <1>1, <1>2 DEF Procedure

\* So is a refusal.
LEMMA RefusedType ==
  ASSUME TypeOK, NEW drift, Refused(drift)
  PROVE  work' \in Procedure /\ work'.op = "told" /\ work'.at = "tell"
<1>1. PICK news \in {"told", "gained", "drifted"} : Tell(news)
  BY DEF Refused
<1> QED
  BY <1>1, TellType

\* The next round is stored, and applied on what was read or told.
LEMMA TakeTheNextRoundType ==
  ASSUME TypeOK, work # None, work.reading \in Reading, NEW next \in Run, TakeTheNextRound(next)
  PROVE  /\ store' = next /\ work' \in Procedure /\ work'.op \in {"told", "apply"}
         /\ work'.at \in {"tell", "apply"}
         /\ work'.at = "apply" => work'.reading = work.reading /\ work'.next = next
<1>1. CASE OutcomeOf(next) = "searching"
  <2>1. Start("apply") \in Procedure /\ Start("apply").op = "apply"
    BY StartType DEF Ops
  <2>2. work' = [Start("apply") EXCEPT !.at = "apply", !.reading = work.reading, !.next = next]
    BY <1>1 DEF TakeTheNextRound
  <2>3. work' \in Procedure
    BY <2>1, <2>2 DEF Procedure, Maybe
  <2> QED
    BY <2>1, <2>2, <2>3 DEF TakeTheNextRound, Procedure
<1>2. CASE OutcomeOf(next) # "searching"
  <2>1. Tell("told")
    BY <1>2 DEF TakeTheNextRound
  <2> QED
    BY <2>1, TellType DEF TakeTheNextRound
<1> QED
  BY <1>1, <1>2

\* What a batch turns on and off are addons, so what it leaves are entries.
LEMMA BatchesAreOfAddons ==
  ASSUME TypeOK, work # None, work.reading \in Reading, NEW failed
  PROVE  After(Planned, failed) \subseteq Addon \cup {Foreign}
<1>1. work.reading.library \subseteq Addon
  BY DEF Reading
<1>2. Planned.on \subseteq Addon
  BY <1>1 DEF Planned, RoundBatch, PutBackBatch
<1>3. entries \subseteq Addon \cup {Foreign}
  BY DEF TypeOK, Now, Reading
<1> QED
  BY <1>2, <1>3 DEF After

\* What each step that decides makes of the stored run and of its procedure.
LEMMA DecisionsGive ==
  ASSUME IInv, DecideToBegin \/ DecideToAnswer \/ DecideToRefine
  PROVE  /\ work' \in Procedure /\ work'.op # "begin" /\ work'.at \in {"tell", "apply"}
         /\ work'.at = "apply" => work'.reading \in Reading /\ work'.next \in Run /\ work'.next = store'
         /\ \/ store' = store /\ work'.at = "tell" /\ trusted' = trusted /\ inPlace' = inPlace
            \/ store' \in Run /\ Divided(store') /\ inPlace' = FALSE /\ (trusted' => StillSearched(store'))
<1> USE DEF Maybe
<1>0. TypeOK /\ ReadBefore /\ StoredIsDivided /\ InPlaceIsTheRound /\ StoredStillSearches
  BY DEF IInv
<1>1. /\ work # None /\ work \in Procedure /\ work.at = "decide" /\ work.reading \in Reading
      /\ store # None => store \in Run /\ Divided(store)
  BY <1>0 DEF TypeOK, ReadBefore, DecideToBegin, DecideToAnswer, DecideToRefine, Deciding, StoredIsDivided
<1>t. ASSUME NEW news \in {"told", "gained", "drifted"}, Tell(news), UNCHANGED <<store, trusted, inPlace>>
      PROVE  /\ work' \in Procedure /\ work'.op # "begin" /\ work'.at = "tell"
             /\ store' = store /\ trusted' = trusted /\ inPlace' = inPlace
  BY <1>0, <1>t, TellType
<1>r. ASSUME NEW drift, Refused(drift), UNCHANGED <<store, trusted, inPlace>>
      PROVE  /\ work' \in Procedure /\ work'.op # "begin" /\ work'.at = "tell"
             /\ store' = store /\ trusted' = trusted /\ inPlace' = inPlace
  BY <1>0, <1>r, RefusedType
<1>n. ASSUME NEW next \in Run, Divided(next), TakeTheNextRound(next), inPlace' = FALSE
      PROVE  /\ work' \in Procedure /\ work'.op # "begin" /\ work'.at \in {"tell", "apply"}
             /\ work'.at = "apply" => work'.reading \in Reading /\ work'.next \in Run /\ work'.next = store'
             /\ store' \in Run /\ Divided(store') /\ inPlace' = FALSE
  BY <1>0, <1>1, <1>n, TakeTheNextRoundType
<1>2. CASE DecideToBegin
  <2>1. work.seen \in Reading
    BY <1>0, <1>1, <1>2 DEF ReadBefore, DecideToBegin, Deciding
  <2>2. CASE Tell("told") /\ UNCHANGED <<store, inPlace, trusted>>
    BY <1>t, <2>2
  <2>3. CASE TakeTheNextRound(RunFor(work.seen)) /\ inPlace' = FALSE
    <3>1. RunFor(work.seen) \in Run /\ Divided(RunFor(work.seen)) /\ StillSearched(RunFor(work.seen))
      BY <2>1, ANewRun
    <3>2. store' = RunFor(work.seen) /\ culprit' = culprit
      BY <1>2, <2>3 DEF TakeTheNextRound, DecideToBegin
    <3> QED
      BY <1>n, <2>3, <3>1, <3>2
  <2> QED
    BY <1>2, <2>2, <2>3 DEF DecideToBegin, CannotBeWritten
<1>3. CASE DecideToAnswer
  <2> DEFINE drift == Moved(work.reading)
  <2>0. store # None
    BY <1>3 DEF DecideToAnswer
  <2>1. CASE Refused(drift) /\ UNCHANGED <<store, trusted, inPlace>>
    BY <1>r, <2>1
  <2>2. CASE Tell("told") /\ UNCHANGED <<store, trusted, inPlace>>
    BY <1>t, <2>2
  <2>3. CASE /\ drift = {} /\ OutcomeOf(store) = "searching"
             /\ TakeTheNextRound(AfterAnswering(store, culprit \in work.loaded))
             /\ trusted' = (trusted /\ inPlace /\ work.loaded = Loaded /\ Undisturbed)
             /\ inPlace' = FALSE
    <3> DEFINE crashed == culprit \in work.loaded
               next == AfterAnswering(store, crashed)
    <3>1. crashed \in BOOLEAN
      OBVIOUS
    <3>2. next \in Run /\ Divided(next)
      BY <1>1, <2>0, <2>3, <3>1, AnswerKeepsItARun
    <3>3. store' = next /\ culprit' = culprit
      BY <1>3, <2>3 DEF TakeTheNextRound, DecideToAnswer
    <3>4. ASSUME trusted' PROVE StillSearched(next)
      <4>1. trusted /\ inPlace /\ work.loaded = Loaded /\ work.reading = Now
        BY <2>3, <3>4 DEF Undisturbed
      <4>2. baseline \in Reading /\ Matches(baseline, store)
        BY <1>0, <1>1, <2>0, <4>1 DEF InPlaceIsTheRound
      <4>3. baseline # None
        BY <4>2, BisectionAssumption
      <4>4. Now.entries = baseline.entries /\ Now.library = baseline.library
        BY <1>1, <2>3, <4>1, <4>2, <4>3, NoDrift DEF Moved
      <4>5. culprit \in TheSearchSpace(store) => (crashed <=> culprit \in Round(store))
        BY <4>1, <4>2, <4>4 DEF Matches, Loaded, Now
      <4>6. StillSearched(store)
        BY <1>0, <2>0, <4>1 DEF StoredStillSearches
      <4> QED
        BY <1>1, <2>0, <2>3, <3>1, <4>5, <4>6, AnswerKeepsTheCulprit
    <3> HIDE DEF next
    <3> QED
      BY <1>n, <2>3, <3>2, <3>3, <3>4 DEF next
  <2> QED
    BY <1>3, <2>1, <2>2, <2>3 DEF DecideToAnswer, CannotBeWritten
<1>4. CASE DecideToRefine
  <2> DEFINE drift == Moved(work.reading)
             next == IntoTheSecondPass(store)
  <2>0. store # None /\ ASecondPassIsPossible(store) /\ trusted' = trusted /\ culprit' = culprit
    BY <1>4 DEF DecideToRefine
  <2>1. CASE Refused(drift) /\ UNCHANGED <<store, inPlace>>
    BY <1>r, <2>0, <2>1
  <2>2. CASE Tell("told") /\ UNCHANGED <<store, inPlace>>
    BY <1>t, <2>0, <2>2
  <2>3. CASE TakeTheNextRound(next) /\ inPlace' = FALSE
    <3>1. next \in Run /\ Divided(next)
      BY <1>1, <2>0, TheSecondPass
    <3>2. trusted' => StillSearched(next)
      BY <1>0, <1>1, <2>0, TheSecondPass DEF StoredStillSearches
    <3>3. store' = next
      BY <2>3 DEF TakeTheNextRound
    <3> HIDE DEF next
    <3> QED
      BY <1>n, <2>0, <2>3, <3>1, <3>2, <3>3
  <2> QED
    BY <1>4, <2>1, <2>2, <2>3 DEF DecideToRefine, CannotBeWritten
<1> QED
  BY <1>2, <1>3, <1>4

\* Every step keeps the kinds of values, but for the parts of a stored run.
Kinds ==
    /\ facts \in Hangar /\ culprit \in Addon \cup {Foreign}
    /\ Now \in Reading /\ shown \in Reading /\ baseline \in Maybe(Reading)
    /\ work \in Maybe(Procedure) /\ held \in Maybe(Procedure) /\ offer \in BOOLEAN
    /\ stage \in {"notStarted", "asking", "drifted", "gained", "finished"}
    /\ held # None => stage \in {"asking", "finished", "gained"}
    /\ setup \in Maybe(SUBSET Addon) /\ {fair, inPlace, trusted} \subseteq BOOLEAN
    /\ mishaps \in 0..MaxMishaps
    /\ store \in Maybe(Run)

\* The panel stands where the stored run does.
LEMMA StageOfAStore == StageOf(store) \in {"notStarted", "asking", "finished"}
  BY DEF StageOf

\* Forgetting at once is a procedure too.
LEMMA ProcedureTurns ==
  ASSUME NEW p \in Procedure
  PROVE  [p EXCEPT !.at = "forget", !.op = "forget"] \in Procedure
  BY DEF Procedure

\* Every step keeps the kinds of values.
LEMMA KindsStep == IInv /\ [Next]_vars => Kinds'
<1> SUFFICES ASSUME IInv, [Next]_vars PROVE Kinds'
  OBVIOUS
<1> USE BisectionAssumption DEF Maybe
<1>0. /\ TypeOK /\ ReadBefore /\ Kinds
      /\ work # None => work \in Procedure
  BY DEF IInv, TypeOK, Kinds
<1>m. \A n \in Nat : n \in {0, 1} /\ mishaps' = mishaps + n /\ mishaps' <= MaxMishaps => mishaps' \in 0..MaxMishaps
  BY <1>0 DEF Kinds
<1>f. mishaps < MaxMishaps /\ mishaps' = mishaps + 1 => mishaps' \in 0..MaxMishaps
  BY <1>0 DEF Kinds
<1>e. ASSUME NEW E \in SUBSET (Addon \cup {Foreign}), NEW L \in SUBSET Addon
      PROVE [entries |-> E, library |-> L] \in Reading
  BY DEF Reading
<1>n. entries \in SUBSET (Addon \cup {Foreign}) /\ library \in SUBSET Addon
  BY <1>0 DEF Kinds, Now, Reading
<1>w. ASSUME NEW at \in At, work # None PROVE [work EXCEPT !.at = at] \in Procedure
  BY <1>0, <1>w DEF Procedure, At
<1>1. ASSUME NEW op \in Ops, NEW from, Ask(op, from),
            op \in {"answer", "refine"} => from \subseteq {"asking", "finished"}
      PROVE  Kinds'
  <2>1. Start(op) \in Procedure
    BY <1>0, StartType
  <2>2. stage' = stage /\ (held' = held \/ (held' = Start(op) /\ op \in {"answer", "refine"}))
        /\ work' = Start(op) /\ stage \in from
    BY <1>1 DEF Ask
  <2>3. UNCHANGED <<facts, culprit, disk, store, shown, baseline, stage, offer, ghosts, mishaps>>
    BY <1>1 DEF Ask
  <2> QED
    BY <1>0, <1>1, <2>1, <2>2, <2>3 DEF Kinds, disk, ghosts, Now
<1>2. ASSUME NEW choice \in {"carryOn", "putBack", "forget", "neither"}, Resume(choice) PROVE Kinds'
  <2>1. Start("resume") \in Procedure /\ Start("stop") \in Procedure
    BY <1>0, StartType DEF Ops
  <2>2. [Start("stop") EXCEPT !.at = "forget", !.op = "forget"] \in Procedure
    BY <2>1, ProcedureTurns
  <2>3. work' \in Maybe(Procedure)
    BY <1>2, <2>1, <2>2 DEF Resume
  <2>4. held = None /\ held' = held /\ offer' = FALSE
    BY <1>0, <1>2 DEF Resume, ReadBefore
  <2>5. stage' \in {"notStarted", "asking", "drifted", "gained", "finished"}
    BY <1>0, <1>2, StageOfAStore DEF Resume, Kinds
  <2> QED
    BY <1>0, <1>2, <2>3, <2>4, <2>5 DEF Kinds, Resume, disk, ghosts, Now
<1>3. CASE ReadTheDisk
  <2>1. work' \in Procedure
    BY <1>0, <1>3 DEF ReadTheDisk, Kinds, Procedure
  <2> QED
    BY <1>0, <1>3, <2>1 DEF Kinds, ReadTheDisk, disk, ghosts, Now
<1>4. CASE DecideToBegin \/ DecideToAnswer \/ DecideToRefine
  <2>1. work' \in Procedure /\ store' \in Maybe(Run) /\ (inPlace' = inPlace \/ inPlace' = FALSE)
    BY <1>0, <1>4, DecisionsGive DEF Kinds
  <2>2. UNCHANGED <<facts, culprit, disk, shown, baseline, stage, held, offer>>
    BY <1>4 DEF DecideToBegin, DecideToAnswer, DecideToRefine
  <2>3. mishaps' \in 0..MaxMishaps
    BY <1>0, <1>4, <1>f DEF DecideToBegin, DecideToAnswer, DecideToRefine, TakeTheNextRound, CannotBeWritten, Kinds
  <2>4. setup' \in Maybe(SUBSET Addon) /\ fair' \in BOOLEAN
    <3>1. CASE DecideToBegin
      <4>1. Enabled(work.reading) \in SUBSET Addon
        BY <1>0, <3>1 DEF ReadBefore, DecideToBegin, Deciding, Enabled, Reading
      <4> QED
        BY <1>0, <3>1, <4>1 DEF Kinds, DecideToBegin
    <3>2. CASE DecideToAnswer \/ DecideToRefine
      BY <1>0, <3>2 DEF Kinds, DecideToAnswer, DecideToRefine
    <3> QED
      BY <1>4, <3>1, <3>2
  <2>5. trusted' \in BOOLEAN
    BY <1>0, <1>4 DEF Kinds, DecideToBegin, DecideToAnswer, DecideToRefine
  <2>6. Now' \in Reading
    BY <1>0, <2>2 DEF Kinds, disk, Now
  <2> QED
    BY <1>0, <2>1, <2>2, <2>3, <2>4, <2>5, <2>6 DEF Kinds
<1>5. CASE DecideToAccept
  <2>1. work' \in Maybe(Procedure) /\ baseline' \in Maybe(Reading)
    <3>1. work.reading \in Reading
      BY <1>0, <1>5 DEF DecideToAccept, Deciding, ReadBefore
    <3> QED
      BY <1>0, <1>5, <3>1, TellType, RefusedType DEF DecideToAccept, Kinds
  <2> QED
    BY <1>0, <1>5, <2>1 DEF Kinds, DecideToAccept, disk, ghosts, Now
<1>6. CASE DecideToResume
  <2>1. work' \in Procedure
    BY <1>0, <1>6 DEF DecideToResume, Deciding, Kinds, Procedure
  <2> QED
    BY <1>0, <1>6, <2>1 DEF Kinds, DecideToResume, disk, ghosts, Now
<1>7. ASSUME NEW failed \in SUBSET Addon, Apply(failed) PROVE Kinds'
  <2>1. work # None /\ work.reading \in Reading
    BY <1>0, <1>7 DEF Apply, Running, ReadBefore
  <2>2. After(Planned, failed) \in SUBSET (Addon \cup {Foreign})
    BY <1>0, <2>1, BatchesAreOfAddons
  <2>3. [Now EXCEPT !.entries = After(Planned, failed)] \in Reading /\ Now' \in Reading
    BY <1>7, <1>n, <2>2 DEF Apply, Now, Reading
  <2>4. work' \in Procedure
    BY <1>0, <1>7, <2>1, <2>3 DEF Apply, Procedure
  <2>5. mishaps' \in 0..MaxMishaps /\ inPlace' \in BOOLEAN
    BY <1>7, <1>m DEF Apply
  <2>6. UNCHANGED <<facts, culprit, store, shown, baseline, stage, held, offer, setup, fair, trusted>>
    BY <1>7 DEF Apply
  <2> QED
    BY <1>0, <2>3, <2>4, <2>5, <2>6 DEF Kinds
<1>8. CASE AdoptAsTheBaseline
  <2>1. work' \in Procedure
    BY <1>0, <1>8, TellType DEF AdoptAsTheBaseline
  <2>2. inPlace' \in BOOLEAN
    BY <1>8 DEF AdoptAsTheBaseline
  <2> QED
    BY <1>0, <1>8, <2>1, <2>2 DEF Kinds, AdoptAsTheBaseline, disk, Now
<1>9. ASSUME NEW failed \in SUBSET Addon, PutBack(failed) PROVE Kinds'
  <2>1. work # None /\ work.reading \in Reading
    BY <1>0, <1>9 DEF PutBack, Running, ReadBefore
  <2>2. After(Planned, failed) \in SUBSET (Addon \cup {Foreign})
    BY <1>0, <2>1, BatchesAreOfAddons
  <2>3. Now' \in Reading
    BY <1>9, <1>n, <2>2 DEF PutBack, Now, Reading
  <2>4. work' \in Procedure
    BY <1>0, <1>9, <2>1 DEF PutBack, Procedure
  <2>5. mishaps' \in 0..MaxMishaps /\ fair' \in BOOLEAN
    BY <1>9, <1>m DEF PutBack
  <2>6. UNCHANGED <<facts, culprit, store, shown, baseline, stage, held, offer, setup, inPlace, trusted>>
    BY <1>9 DEF PutBack
  <2> QED
    BY <1>0, <2>3, <2>4, <2>5, <2>6 DEF Kinds
<1>10. CASE Forget
  <2>1. work # None /\ work.op \in Ops
    BY <1>0, <1>10 DEF Forget, Running, Procedure, Ops
  <2>2. Start(work.op) \in Procedure
    BY <1>0, <2>1, StartType
  <2>3. work' \in Procedure
    BY <1>10, <2>2 DEF Forget, Procedure
  <2>4. setup' \in Maybe(SUBSET Addon) /\ fair' \in BOOLEAN
    BY <1>0, <1>10 DEF Forget, Kinds
  <2> QED
    BY <1>0, <1>10, <2>3, <2>4 DEF Kinds, Forget, disk, Now
<1>11. CASE ReadToBeginAgain
  <2>1. work' \in Procedure
    BY <1>0, <1>11 DEF ReadToBeginAgain, Running, Kinds, Procedure
  <2>2. fair' \in BOOLEAN
    BY <1>11 DEF ReadToBeginAgain
  <2> QED
    BY <1>0, <1>11, <2>1, <2>2 DEF Kinds, ReadToBeginAgain, disk, Now
<1>12. CASE Take
  <2>1. stage' \in {"notStarted", "asking", "drifted", "gained", "finished"}
    BY <1>0, <1>12, StageOfAStore DEF Take, Running, Procedure
  <2>2. held' \in Maybe(Procedure) /\ (held' # None => stage' = "gained") /\ work' = None
    BY <1>0, <1>12 DEF Take, Kinds
  <2>3. UNCHANGED <<facts, culprit, disk, store, shown, baseline, offer, ghosts, mishaps>>
    BY <1>12 DEF Take
  <2> QED
    BY <1>0, <2>1, <2>2, <2>3 DEF Kinds, disk, ghosts, Now
<1>13. CASE Show
  <2>1. stage' \in {"notStarted", "asking", "drifted", "gained", "finished"} /\ held' = None
    BY <1>13, StageOfAStore DEF Show
  <2> QED
    BY <1>0, <1>13, <2>1 DEF Kinds, Show, disk, ghosts, Now
<1>14. CASE RefreshEntries
  BY <1>0, <1>14 DEF Kinds, RefreshEntries, disk, ghosts, Now
<1>15. ASSUME NEW e \in Addon \cup {Foreign}, SomeoneChangesTheEntry(e) PROVE Kinds'
  <2>1. entries' \in SUBSET (Addon \cup {Foreign}) /\ library' = library
    BY <1>15, <1>n DEF SomeoneChangesTheEntry
  <2>2. Now' \in Reading /\ [Now EXCEPT !.entries = entries'] \in Reading
    BY <1>n, <2>1 DEF Now, Reading
  <2>3. shown' \in Reading
    BY <1>0, <1>15, <2>2 DEF SomeoneChangesTheEntry, Kinds
  <2> QED
    BY <1>0, <1>15, <1>f, <2>2, <2>3 DEF Kinds, SomeoneChangesTheEntry, Mishap, ghosts
<1>16. ASSUME NEW a \in Addon, AnAddonLeavesOrJoins(a) PROVE Kinds'
  <2>1. library' \in SUBSET Addon /\ entries' = entries
    BY <1>16, <1>n DEF AnAddonLeavesOrJoins
  <2>2. Now' \in Reading
    BY <1>n, <2>1 DEF Now, Reading
  <2> QED
    BY <1>0, <1>16, <1>f, <2>2 DEF Kinds, AnAddonLeavesOrJoins, Mishap
<1>17. CASE Crash
  <2>1. entries' \in SUBSET (Addon \cup {Foreign})
    <3>1. CASE work # None /\ (work.at = "apply" \/ (work.at = "putBack" /\ store # None))
      <4>1. work.reading \in Reading
        BY <1>0, <3>1 DEF ReadBefore
      <4>2. \A undone : After(Planned, undone) \in SUBSET (Addon \cup {Foreign})
        BY <1>0, <3>1, <4>1, BatchesAreOfAddons
      <4> QED
        BY <1>17, <3>1, <4>2 DEF Crash, Halfway
    <3>2. CASE ~(work # None /\ (work.at = "apply" \/ (work.at = "putBack" /\ store # None)))
      BY <1>17, <1>n, <3>2 DEF Crash, Halfway
    <3> QED
      BY <3>1, <3>2
  <2>2. Now' \in Reading /\ shown' \in Reading
    BY <1>17, <1>n, <2>1 DEF Crash, Now, Reading
  <2>3. setup' \in Maybe(SUBSET Addon) /\ fair' \in BOOLEAN /\ offer' \in BOOLEAN
    BY <1>0, <1>17 DEF Crash, Kinds
  <2> QED
    BY <1>0, <1>17, <1>f, <2>2, <2>3 DEF Kinds, Crash, Mishap
<1>18. CASE UNCHANGED vars
  BY <1>0, <1>18 DEF Kinds, vars, disk, memory, ghosts, Now
<1>19. CASE Begin \/ Answer \/ Refine \/ CarryOn \/ StartOver \/ Stop
  BY <1>1, <1>19 DEF Begin, Answer, Refine, CarryOn, StartOver, Stop, Ops
<1> QED
  BY <1>2, <1>3, <1>4, <1>5, <1>6, <1>7, <1>8, <1>9, <1>10, <1>11, <1>12, <1>13, <1>14, <1>15, <1>16,
     <1>17, <1>18, <1>19 DEF Next

\* Every step leaves a procedure with what its next one needs.
LEMMA ReadBeforeStep == IInv /\ [Next]_vars => ReadBefore'
<1> SUFFICES ASSUME IInv, [Next]_vars PROVE ReadBefore'
  OBVIOUS
<1>0. /\ TypeOK /\ ReadBefore /\ Now \in Reading /\ shown \in Reading
      /\ work # None => work \in Procedure
  BY DEF IInv, TypeOK, Maybe
\* A procedure that has just begun, or is about to tell what came of it.
<1>w. ASSUME work' # None => work'.op # "begin" /\ work'.at \in {"read", "forget", "again", "tell"},
             held' = held, offer' = FALSE
      PROVE  ReadBefore'
  BY <1>0, <1>w DEF ReadBefore
<1>o. work # None => offer = FALSE
  BY <1>0 DEF ReadBefore, TypeOK
<1>1. ASSUME NEW op \in Ops, NEW from, Ask(op, from) PROVE ReadBefore'
  <2>1. Start(op).at = "read" /\ Start(op).op = op /\ (op = "begin" => Start(op).seen = shown)
    BY <1>0, StartType
  <2> QED
    BY <1>0, <1>1, <2>1 DEF Ask, Idle, ReadBefore
<1>2. ASSUME NEW choice \in {"carryOn", "putBack", "forget", "neither"}, Resume(choice) PROVE ReadBefore'
  <2>1. /\ Start("resume").at = "read" /\ Start("resume").op = "resume"
        /\ Start("stop").at = "read" /\ Start("stop").op = "stop" /\ Start("stop") \in Procedure
    BY <1>0, StartType DEF Ops
  <2>2. /\ [Start("stop") EXCEPT !.at = "forget", !.op = "forget"].at = "forget"
        /\ [Start("stop") EXCEPT !.at = "forget", !.op = "forget"].op = "forget"
    BY <2>1 DEF Procedure
  <2>3. work' # None => work'.op # "begin" /\ work'.at \in {"read", "forget"}
    BY <1>2, <2>1, <2>2 DEF Resume
  <2> QED
    BY <1>2, <1>w, <2>3 DEF Resume
<1>3. CASE ReadTheDisk
  <2>1. work # None /\ work \in Procedure
    BY <1>0, <1>3 DEF ReadTheDisk
  <2>2. work'.reading \in Reading /\ work'.op = work.op /\ work'.seen = work.seen /\ work'.at \in {"putBack", "decide"}
    BY <1>0, <1>3, <2>1 DEF ReadTheDisk, Procedure
  <2> QED
    BY <1>0, <1>3, <1>o, <2>1, <2>2 DEF ReadTheDisk, ReadBefore
<1>4. CASE DecideToBegin \/ DecideToAnswer \/ DecideToRefine
  <2>1. work # None /\ UNCHANGED <<held, offer>>
    BY <1>4 DEF DecideToBegin, DecideToAnswer, DecideToRefine, Deciding
  <2> QED
    BY <1>0, <1>4, <1>o, <2>1, DecisionsGive DEF ReadBefore
<1>5. CASE DecideToAccept
  <2>1. work' # None => work'.op # "begin" /\ work'.at \in {"read", "tell"}
    BY <1>0, <1>5, TellType, RefusedType DEF DecideToAccept, ReadBefore
  <2> QED
    BY <1>5, <1>o, <1>w, <2>1 DEF DecideToAccept, Deciding
<1>6. CASE DecideToResume
  <2>1. work # None /\ work \in Procedure /\ work.op = "resume" /\ work.reading \in Reading /\ store \in Run
    BY <1>0, <1>6 DEF DecideToResume, Deciding, ReadBefore, TypeOK, Maybe
  <2>2. work'.reading = work.reading /\ work'.op = work.op /\ work'.at = "apply" /\ work'.next = store
    BY <1>6, <2>1 DEF DecideToResume, Procedure
  <2> QED
    BY <1>0, <1>6, <1>o, <2>1, <2>2 DEF DecideToResume, ReadBefore
<1>7. ASSUME NEW failed \in SUBSET Addon, Apply(failed) PROVE ReadBefore'
  <2>1. work # None /\ work \in Procedure /\ work.at = "apply" /\ work.reading \in Reading
    BY <1>0, <1>7 DEF Apply, Running, ReadBefore
  <2>2. After(Planned, failed) \in SUBSET (Addon \cup {Foreign})
    BY <1>0, <2>1, BatchesAreOfAddons
  <2>3. [Now EXCEPT !.entries = After(Planned, failed)] \in Reading
    BY <1>0, <2>2 DEF Now, Reading
  <2>4. work'.reading \in Reading /\ work'.op = work.op /\ work'.seen = work.seen
        /\ work'.next = work.next /\ work'.at = "adopt"
    BY <1>7, <2>1, <2>3 DEF Apply, Procedure
  <2> QED
    BY <1>0, <1>7, <1>o, <2>1, <2>4 DEF Apply, ReadBefore
<1>8. CASE AdoptAsTheBaseline
  <2>1. work'.op = "told" /\ work'.at = "tell"
    BY <1>0, <1>8, TellType DEF AdoptAsTheBaseline
  <2> QED
    BY <1>8, <1>o, <1>w, <2>1 DEF AdoptAsTheBaseline, Running
<1>9. ASSUME NEW failed \in SUBSET Addon, PutBack(failed) PROVE ReadBefore'
  <2>1. work # None /\ work \in Procedure
    BY <1>0, <1>9 DEF PutBack, Running
  <2>2. work'.at = "forget" /\ work'.op = work.op /\ work'.seen = work.seen
    BY <1>9, <2>1 DEF PutBack, Procedure
  <2> QED
    BY <1>0, <1>9, <1>o, <2>1, <2>2 DEF PutBack, ReadBefore
<1>10. CASE Forget
  <2>1. work # None /\ work.op \in Ops
    BY <1>0, <1>10 DEF Forget, Running, Procedure, Ops
  <2>2. Start(work.op) \in Procedure /\ Start(work.op).op = work.op
        /\ (work.op = "begin" => Start(work.op).seen = shown)
    BY <1>0, <2>1, StartType
  <2>3. work'.at \in {"again", "tell"} /\ work'.op = work.op /\ (work.op = "begin" => work'.seen = shown)
    BY <1>10, <2>2 DEF Forget, Procedure
  <2> QED
    BY <1>0, <1>10, <1>o, <2>1, <2>3 DEF Forget, ReadBefore
<1>11. CASE ReadToBeginAgain
  <2>1. work # None /\ work \in Procedure
    BY <1>0, <1>11 DEF ReadToBeginAgain, Running
  <2>2. work'.at = "decide" /\ work'.seen \in Reading /\ work'.reading \in Reading
    BY <1>0, <1>11, <2>1 DEF ReadToBeginAgain, Procedure
  <2> QED
    BY <1>0, <1>11, <1>o, <2>1, <2>2 DEF ReadToBeginAgain, ReadBefore
<1>12. CASE Take
  BY <1>0, <1>12, <1>o DEF Take, Running, ReadBefore
<1>13. CASE Show \/ RefreshEntries
  BY <1>0, <1>13 DEF Show, RefreshEntries, Idle, ReadBefore
<1>14. CASE \/ \E e \in Addon \cup {Foreign} : SomeoneChangesTheEntry(e)
            \/ \E a \in Addon : AnAddonLeavesOrJoins(a)
  BY <1>0, <1>14 DEF SomeoneChangesTheEntry, AnAddonLeavesOrJoins, ReadBefore
<1>15. CASE Crash
  BY <1>15 DEF Crash, ReadBefore
<1>16. CASE UNCHANGED vars
  BY <1>0, <1>16 DEF vars, memory, ReadBefore
<1>17. CASE Begin \/ Answer \/ Refine \/ CarryOn \/ StartOver \/ Stop
  BY <1>1, <1>17 DEF Begin, Answer, Refine, CarryOn, StartOver, Stop, Ops
<1> QED
  BY <1>2, <1>3, <1>4, <1>5, <1>6, <1>7, <1>8, <1>9, <1>10, <1>11, <1>12, <1>13, <1>14, <1>15, <1>16,
     <1>17 DEF Next

\* Only the decisions, and forgetting it, change the stored run.
LEMMA OnlyDecisionsChangeTheRun ==
  ASSUME IInv, [Next]_vars, ~(DecideToBegin \/ DecideToAnswer \/ DecideToRefine)
  PROVE  culprit' = culprit /\ trusted' = trusted /\ (store' = store \/ store' = None)
<1>1. CASE \/ \E op, from : Ask(op, from)
           \/ \E choice : Resume(choice)
           \/ ReadTheDisk \/ DecideToAccept \/ DecideToResume \/ AdoptAsTheBaseline \/ Forget
           \/ \E failed : Apply(failed) \/ PutBack(failed)
  BY <1>1 DEF Ask, Resume, ReadTheDisk, DecideToAccept, DecideToResume, AdoptAsTheBaseline, Forget, Apply,
     PutBack, ghosts
<1>2. CASE \/ ReadToBeginAgain \/ Take \/ Show \/ RefreshEntries \/ Crash \/ UNCHANGED vars
           \/ \E e : SomeoneChangesTheEntry(e)
           \/ \E a : AnAddonLeavesOrJoins(a)
  BY <1>2 DEF ReadToBeginAgain, Take, Show, RefreshEntries, Crash, SomeoneChangesTheEntry, AnAddonLeavesOrJoins,
     ghosts, vars
<1> QED
  BY <1>1, <1>2 DEF Next, Begin, Answer, Refine, CarryOn, StartOver, Stop

\* Every step leaves the stored run divided and the culprit searched for.
LEMMA RunStep == IInv /\ [Next]_vars => StoredIsDivided' /\ StoredStillSearches'
<1> SUFFICES ASSUME IInv, [Next]_vars PROVE StoredIsDivided' /\ StoredStillSearches'
  OBVIOUS
<1>0. StoredIsDivided /\ StoredStillSearches
  BY DEF IInv
<1>1. CASE DecideToBegin \/ DecideToAnswer \/ DecideToRefine
  <2>1. culprit' = culprit
    BY <1>1 DEF DecideToBegin, DecideToAnswer, DecideToRefine
  <2>2. ASSUME store' # None PROVE Divided(store')
    BY <1>0, <1>1, <2>2, DecisionsGive DEF StoredIsDivided
  <2>3. ASSUME store' # None, trusted' PROVE StillSearched(store')
    <3>1. CASE trusted' => StillSearched(store')
      BY <2>3, <3>1
    <3>2. CASE store' = store /\ trusted' = trusted
      BY <1>0, <2>3, <3>2 DEF StoredStillSearches
    <3> QED
      BY <1>1, <3>1, <3>2, DecisionsGive
  <2>4. ASSUME StillSearched(store') PROVE StillSearched(store)'
    BY <2>1, <2>4 DEF StillSearched, TheSearchSpace, Addons
  <2> QED
    BY <2>2, <2>3, <2>4 DEF StoredIsDivided, StoredStillSearches, Divided
<1>2. CASE ~(DecideToBegin \/ DecideToAnswer \/ DecideToRefine)
  <2>1. culprit' = culprit /\ trusted' = trusted /\ (store' = store \/ store' = None)
    BY <1>2, OnlyDecisionsChangeTheRun
  <2> QED
    BY <1>0, <2>1 DEF StoredIsDivided, StoredStillSearches, StillSearched, Divided, TheSearchSpace, Addons
<1> QED
  BY <1>1, <1>2

\* Nothing but the procedure that applies a round puts one in place, and nothing
\* changes the baseline, or the run, under it.
LEMMA InPlaceStep == IInv /\ [Next]_vars => InPlaceIsTheRound'
<1> SUFFICES ASSUME IInv, [Next]_vars PROVE InPlaceIsTheRound'
  OBVIOUS
<1>0. /\ TypeOK /\ ReadBefore /\ InPlaceIsTheRound /\ Now \in Reading
      /\ work # None => work \in Procedure
  BY DEF IInv, TypeOK, Maybe
<1>r. ASSUME NEW run, NEW reading, Matches(reading, run) PROVE Matches(reading, run)'
  BY <1>r DEF Matches, Round, TheSearchSpace, Addons
<1>g. ASSUME inPlace' = inPlace, store' = store, baseline' = baseline,
             ~(work # None /\ work.at = "adopt"), ~(work' # None /\ work'.at = "adopt")
      PROVE  InPlaceIsTheRound'
  BY <1>0, <1>g DEF InPlaceIsTheRound, Matches, Round, TheSearchSpace, Addons
<1>f. ASSUME ~inPlace' PROVE InPlaceIsTheRound'
  BY <1>f DEF InPlaceIsTheRound
<1>1. ASSUME NEW op \in Ops, NEW from, Ask(op, from) PROVE InPlaceIsTheRound'
  <2>1. Start(op).at = "read"
    BY <1>0, StartType
  <2> QED
    BY <1>1, <1>g, <2>1 DEF Ask, Idle, ghosts
<1>2. ASSUME NEW choice \in {"carryOn", "putBack", "forget", "neither"}, Resume(choice) PROVE InPlaceIsTheRound'
  <2>1. /\ Start("resume").at = "read" /\ Start("stop").at = "read"
        /\ [Start("stop") EXCEPT !.at = "forget", !.op = "forget"].at = "forget"
    BY <1>0, StartType DEF Ops, Procedure
  <2>2. work' # None => work'.at \in {"read", "forget"}
    BY <1>2, <2>1 DEF Resume
  <2>3. work = None
    BY <1>0, <1>2 DEF Resume, ReadBefore
  <2> QED
    BY <1>2, <1>g, <2>2, <2>3 DEF Resume, ghosts
<1>3. CASE ReadTheDisk
  <2>1. work.at = "read" /\ work'.at \in {"putBack", "decide"}
    BY <1>0, <1>3 DEF ReadTheDisk, Procedure
  <2> QED
    BY <1>3, <1>g, <2>1 DEF ReadTheDisk, ghosts
<1>4. CASE DecideToBegin \/ DecideToAnswer \/ DecideToRefine
  <2>1. work.at = "decide" /\ baseline' = baseline /\ work'.at \in {"tell", "apply"}
    BY <1>4, DecisionsGive DEF DecideToBegin, DecideToAnswer, DecideToRefine, Deciding
  <2>2. inPlace' = FALSE \/ (inPlace' = inPlace /\ store' = store)
    BY <1>4, DecisionsGive
  <2> QED
    BY <1>f, <1>g, <2>1, <2>2
<1>5. CASE DecideToAccept
  <2> DEFINE drift == Moved(work.reading)
  <2>1. /\ work # None /\ work.at = "decide" /\ work.reading \in Reading /\ UNCHANGED <<store, inPlace>>
    BY <1>0, <1>5 DEF DecideToAccept, Deciding, ReadBefore, ghosts
  <2>2. work' # None => work'.at \in {"read", "tell"}
    BY <1>0, <1>5, TellType, RefusedType DEF DecideToAccept, ReadBefore
  <2>3. CASE baseline' = baseline
    BY <1>g, <2>1, <2>2, <2>3
  <2>4. CASE NothingThatLoadedMoved(drift) /\ drift # {} /\ baseline' = work.reading
    <3>1. SUFFICES ASSUME inPlace, store # None PROVE Matches(work.reading, store)
      BY <2>1, <2>2, <2>4 DEF InPlaceIsTheRound, Matches, Round, TheSearchSpace, Addons
    <3>2. baseline \in Reading /\ Matches(baseline, store)
      BY <1>0, <2>1, <3>1 DEF InPlaceIsTheRound
    <3>3. baseline.entries = work.reading.entries /\ baseline.library \subseteq work.reading.library
      BY <2>1, <2>4, <3>2, OnlyJoined DEF Moved
    <3> QED
      BY <3>2, <3>3 DEF Matches
  <2> QED
    BY <1>5, <2>3, <2>4 DEF DecideToAccept
<1>6. CASE DecideToResume \/ Forget \/ Crash
  BY <1>6, <1>f DEF DecideToResume, Forget, Crash
<1>7. ASSUME NEW failed \in SUBSET Addon, Apply(failed) PROVE InPlaceIsTheRound'
  <2>1. work # None /\ work \in Procedure /\ work.at = "apply" /\ work.next = store /\ store' = store
    BY <1>0, <1>7 DEF Apply, Running, ReadBefore
  <2>2. work'.reading = [Now EXCEPT !.entries = After(Planned, failed)] /\ work' # None /\ work'.at = "adopt"
    <3>1. work' \in Procedure
      <4>1. After(Planned, failed) \in SUBSET (Addon \cup {Foreign})
        BY <1>0, <2>1, BatchesAreOfAddons DEF ReadBefore
      <4>2. [Now EXCEPT !.entries = After(Planned, failed)] \in Reading
        BY <1>0, <4>1 DEF Now, Reading
      <4> QED
        BY <1>7, <2>1, <4>2 DEF Apply, Procedure, Maybe
    <3>2. work'.reading = [Now EXCEPT !.entries = After(Planned, failed)] /\ work'.at = "adopt"
      BY <1>7, <2>1 DEF Apply, Procedure
    <3>3. work' # None
      BY <3>1, BisectionAssumption
    <3> QED
      BY <3>2, <3>3
  <2>3. ASSUME inPlace' PROVE Matches(work'.reading, store)
    <3>1. failed = {} /\ work.reading = Now /\ TheSearchSpace(store) \subseteq library
      BY <1>7, <2>1, <2>3 DEF Apply, Undisturbed
    <3>2. Planned = RoundBatch(store, work.reading)
      BY <2>1 DEF Planned
    <3>3. work'.reading = [entries |-> After(RoundBatch(store, work.reading), {}), library |-> library]
      BY <2>2, <3>1, <3>2 DEF Now
    <3>4. work.reading \in Reading /\ work.reading.library = library /\ work.reading.entries = entries
      BY <1>0, <3>1 DEF Now
    <3> QED
      BY <3>1, <3>3, <3>4, AppliedIsInPlace
  <2> QED
    BY <2>1, <2>2, <2>3 DEF InPlaceIsTheRound, Matches, Round, TheSearchSpace, Addons
<1>8. CASE AdoptAsTheBaseline
  <2>1. /\ work # None /\ work.at = "adopt" /\ store' = store /\ baseline' = Now
        /\ inPlace' => inPlace /\ work.reading = Now
    BY <1>8 DEF AdoptAsTheBaseline, Running, Undisturbed
  <2>2. work'.at = "tell"
    BY <1>0, <1>8, TellType DEF AdoptAsTheBaseline
  <2> QED
    BY <1>0, <2>1, <2>2 DEF InPlaceIsTheRound, Matches, Round, TheSearchSpace, Addons
<1>9. ASSUME NEW failed \in SUBSET Addon, PutBack(failed) PROVE InPlaceIsTheRound'
  <2>1. work.at = "putBack" /\ work'.at = "forget"
    BY <1>0, <1>9 DEF PutBack, Running, Procedure
  <2> QED
    BY <1>9, <1>g, <2>1 DEF PutBack
<1>10. CASE ReadToBeginAgain
  <2>1. work.at = "again" /\ work'.at = "decide"
    BY <1>0, <1>10 DEF ReadToBeginAgain, Running, Procedure
  <2> QED
    BY <1>10, <1>g, <2>1 DEF ReadToBeginAgain
<1>11. CASE Take \/ Show
  BY <1>11, <1>g DEF Take, Show, Running, Idle, ghosts
<1>12. ASSUME UNCHANGED <<inPlace, store, baseline, work>> PROVE InPlaceIsTheRound'
  BY <1>0, <1>12 DEF InPlaceIsTheRound, Matches, Round, TheSearchSpace, Addons
<1>13. CASE \/ RefreshEntries \/ UNCHANGED vars
            \/ \E e \in Addon \cup {Foreign} : SomeoneChangesTheEntry(e)
            \/ \E a \in Addon : AnAddonLeavesOrJoins(a)
  BY <1>12, <1>13 DEF RefreshEntries, SomeoneChangesTheEntry, AnAddonLeavesOrJoins, ghosts, vars, memory
<1>14. CASE Begin \/ Answer \/ Refine \/ CarryOn \/ StartOver \/ Stop
  BY <1>1, <1>14 DEF Begin, Answer, Refine, CarryOn, StartOver, Stop, Ops
<1> QED
  BY <1>2, <1>3, <1>4, <1>5, <1>6, <1>7, <1>8, <1>9, <1>10, <1>11, <1>13, <1>14 DEF Next

-----------------------------------------------------------------------------
\* The invariant holds when the program starts.
LEMMA InitIsGood == Init => IInv
<1> SUFFICES ASSUME Init PROVE IInv
  OBVIOUS
<1>1. library \in SUBSET Addon /\ entries \in SUBSET (Addon \cup {Foreign})
  BY BisectionAssumption DEF Init
<1>2. Now \in Reading
  BY <1>1 DEF Now, Reading
<1>3. TypeOK
  <2>0. mishaps \in 0..MaxMishaps
    <3>1. mishaps = 0 /\ MaxMishaps \in Nat
      BY BisectionAssumption DEF Init
    <3> QED
      BY <3>1
  <2>1. {fair, inPlace, trusted} \subseteq BOOLEAN
    BY DEF Init
  <2>2. shown \in Reading /\ facts \in Hangar /\ culprit \in Addon \cup {Foreign}
    BY <1>2, BisectionAssumption DEF Init
  <2> QED
    BY <1>2, <2>0, <2>1, <2>2 DEF Init, TypeOK, Maybe
<1>4. ReadBefore /\ StoredIsDivided /\ InPlaceIsTheRound /\ StoredStillSearches
  BY DEF Init, ReadBefore, StoredIsDivided, InPlaceIsTheRound, StoredStillSearches
<1> QED
  BY <1>3, <1>4 DEF IInv

\* The inductive invariant holds in every reachable state.
LEMMA Inductive == Spec => []IInv
<1>1. IInv /\ [Next]_vars => IInv'
  <2> SUFFICES ASSUME IInv, [Next]_vars PROVE IInv'
    OBVIOUS
  <2>1. Kinds' /\ StoredIsDivided'
    BY KindsStep, RunStep
  <2>2. TypeOK'
    BY <2>1 DEF Kinds, StoredIsDivided, Divided, TypeOK
  <2> QED
    BY <2>2, ReadBeforeStep, RunStep, InPlaceStep DEF IInv
<1> QED
  BY <1>1, InitIsGood, PTL DEF Spec

\* For any addons and couplings, each variable keeps its kind, and the suspects and
\* the cleared of the stored run divide its units.
THEOREM BisectionTypeCorrect == Spec => []TypeOK
<1>1. IInv => TypeOK
  BY DEF IInv
<1> QED
  BY <1>1, Inductive, PTL

\* For any addons, couplings and number of mishaps, the addon that crashes the
\* simulator stays under suspicion for as long as each answer was about a round that
\* was in place.
THEOREM TheCulpritStaysUnderSuspicion == Spec => []TheCulpritIsNeverRuledOut
<1>1. IInv => TheCulpritIsNeverRuledOut
  BY DEF IInv, StoredStillSearches, StillSearched, TheCulpritIsNeverRuledOut
<1> QED
  BY <1>1, Inductive, PTL

\* Whatever other programs and other pages changed in between, an answer that no
\* drift refuses is about the round that was put in place.
THEOREM AnswersAreAboutTheirRound == Spec => []AnAnswerIsAboutTheRound
<1>1. IInv => AnAnswerIsAboutTheRound
  <2> SUFFICES ASSUME IInv, Deciding("answer"), store # None, inPlace, Moved(work.reading) = {}
               PROVE  work.reading.entries \cap TheSearchSpace(store) = Round(store) \cap TheSearchSpace(store)
    BY DEF AnAnswerIsAboutTheRound
  <2>1. work.reading \in Reading
    BY DEF IInv, ReadBefore, Deciding
  <2>2. baseline \in Reading /\ Matches(baseline, store)
    BY DEF IInv, InPlaceIsTheRound, Deciding
  <2>3. baseline # None
    BY <2>2, BisectionAssumption
  <2>4. baseline.entries = work.reading.entries
    BY <2>1, <2>2, <2>3, NoDrift DEF Moved
  <2> QED
    BY <2>2, <2>4 DEF Matches
<1> QED
  BY <1>1, Inductive, PTL

-----------------------------------------------------------------------------
(* The setup. *)

\* A stored run holds the setup, as long as it can come back.
StoreHoldsTheSetup == store # None /\ fair => setup = store.start /\ setup \subseteq library

\* There is a setup only while a run is stored, or a search starts over.
StartingOver == work # None /\ (work.at = "again" \/ (work.at = "decide" /\ work.op = "begin"))
NoRunNoSetup == store = None => setup = None \/ StartingOver

\* A search begins while none is stored, and over again only from the setup.
Beginning == work # None /\ (work.at = "again" \/ (work.at \in {"read", "decide"} /\ work.op = "begin"))
BeginsWithNoRun ==
    /\ Beginning => store = None
    /\ Idle /\ stage = "notStarted" => store = None
BeginsFromTheSetup ==
    work # None /\ work.at = "decide" /\ work.op = "begin" /\ fair /\ setup # None =>
        Enabled(work.seen) = setup /\ setup \subseteq library

SetupInv == StoreHoldsTheSetup /\ NoRunNoSetup /\ BeginsWithNoRun /\ BeginsFromTheSetup

\* No answer and no second pass changes what was on when the search began.
LEMMA TheStartIsKept ==
  ASSUME NEW run \in Run, NEW crashed \in BOOLEAN
  PROVE  AfterAnswering(run, crashed).start = run.start /\ IntoTheSecondPass(run).start = run.start
<1>1. IntoTheSecondPass(run).start = run.start
  BY DEF IntoTheSecondPass, Run
<1>2. AfterTheReferenceRound(run, crashed).start = run.start
  BY DEF AfterTheReferenceRound, Run
<1>3. CASE OutcomeOf(run) # "searching" \/ run.round = 0
  BY <1>1, <1>2, <1>3 DEF AfterAnswering
<1>4. CASE ~(OutcomeOf(run) # "searching" \/ run.round = 0)
  <2> DEFINE on == HalfOf(run.suspects)
             off == run.suspects \ on
  <2>1. AfterAnswering(run, crashed)
          = [run EXCEPT !.suspects = IF crashed THEN on ELSE off,
                        !.cleared = @ \cup (IF crashed THEN off ELSE on), !.round = @ + 1]
    BY <1>4 DEF AfterAnswering
  <2> HIDE DEF on, off
  <2> QED
    BY <1>1, <2>1 DEF Run
<1> QED
  BY <1>3, <1>4

\* What is put back over a disk nobody changed, with no step failing, is all of the
\* setup that is still there.
LEMMA PutBackIsTheStart ==
  ASSUME NEW run \in Run, NEW reading \in Reading, reading = Now
  PROVE  After(PutBackBatch(run, reading), {}) \cap library = run.start \cap library
<1>1. reading.entries = entries /\ reading.library = library
  BY DEF Now
<1>2. PutBackBatch(run, reading).on = (run.start \cap library) \ (entries \cap library)
  BY <1>1 DEF PutBackBatch, Enabled
<1>3. PutBackBatch(run, reading).off = (entries \cap library) \ run.start
  BY <1>1 DEF PutBackBatch, Enabled
<1> HIDE DEF PutBackBatch
<1> QED
  BY <1>2, <1>3 DEF After

\* Only a panel with no run offers to begin.
LEMMA StageOfARun == ASSUME StageOf(store) = "notStarted" PROVE store = None
  BY DEF StageOf

\* Every step keeps the setup with the run that will put it back.
LEMMA SetupStep == IInv /\ SetupInv /\ [Next]_vars => SetupInv'
<1> SUFFICES ASSUME IInv, SetupInv, [Next]_vars PROVE SetupInv'
  OBVIOUS
<1> USE BisectionAssumption
<1>0. /\ TypeOK /\ ReadBefore /\ StoreHoldsTheSetup /\ NoRunNoSetup /\ BeginsWithNoRun /\ BeginsFromTheSetup
      /\ work # None => work \in Procedure
  BY DEF IInv, TypeOK, Maybe, SetupInv
<1>p. ASSUME work' \in Procedure PROVE work' # None /\ ~Idle'
  BY <1>p DEF Idle
<1>q. ASSUME UNCHANGED <<store, setup, library>>, fair' => fair, ~Beginning', ~StartingOver,
             Idle' /\ stage' = "notStarted" => store' = None
      PROVE  SetupInv'
  BY <1>0, <1>q DEF SetupInv, StoreHoldsTheSetup, NoRunNoSetup, BeginsWithNoRun, BeginsFromTheSetup, Beginning,
     StartingOver
<1>s. ASSUME UNCHANGED <<store, setup, work, stage, offer>>, fair' => fair /\ library' = library
      PROVE  SetupInv'
  BY <1>0, <1>s DEF SetupInv, StoreHoldsTheSetup, NoRunNoSetup, BeginsWithNoRun, BeginsFromTheSetup, Beginning,
     StartingOver, Idle, Enabled
<1>1. ASSUME NEW op \in Ops, NEW from, Ask(op, from), op = "begin" => from = {"notStarted"} PROVE SetupInv'
  <2>1. work' = Start(op) /\ Start(op) \in Procedure /\ work'.op = op /\ work'.at = "read"
    BY <1>0, <1>1, StartType DEF Ask
  <2>2. UNCHANGED <<store, setup, library, fair>> /\ work = None
    BY <1>1 DEF Ask, Idle, disk, ghosts
  <2>3. CASE op # "begin"
    BY <1>p, <1>q, <2>1, <2>2, <2>3 DEF Beginning, StartingOver
  <2>4. CASE op = "begin"
    <3>1. store = None /\ setup = None
      BY <1>0, <1>1, <2>2, <2>4 DEF Ask, BeginsWithNoRun, NoRunNoSetup, StartingOver
    <3> QED
      BY <1>p, <2>1, <2>2, <3>1 DEF SetupInv, StoreHoldsTheSetup, NoRunNoSetup, BeginsWithNoRun, BeginsFromTheSetup
  <2> QED
    BY <2>3, <2>4
<1>2. ASSUME NEW choice \in {"carryOn", "putBack", "forget", "neither"}, Resume(choice) PROVE SetupInv'
  <2>1. work = None /\ UNCHANGED <<store, setup, library, fair>>
    BY <1>0, <1>2 DEF Resume, ReadBefore, disk, ghosts
  <2>2. /\ Start("resume") \in Procedure /\ Start("resume").at = "read" /\ Start("resume").op = "resume"
        /\ Start("stop") \in Procedure /\ Start("stop").at = "read" /\ Start("stop").op = "stop"
    BY <1>0, StartType DEF Ops
  <2>3. /\ [Start("stop") EXCEPT !.at = "forget", !.op = "forget"] \in Procedure
        /\ [Start("stop") EXCEPT !.at = "forget", !.op = "forget"].at = "forget"
    BY <2>2, ProcedureTurns DEF Procedure
  <2>4. CASE choice = "neither"
    <3>1. work' = None /\ stage' = StageOf(store)
      BY <1>2, <2>4 DEF Resume
    <3> QED
      BY <1>q, <2>1, <3>1, StageOfARun DEF Beginning, StartingOver
  <2>5. CASE choice # "neither"
    <3>1. work' \in Procedure /\ ~Beginning'
      BY <1>2, <2>2, <2>3, <2>5 DEF Resume, Beginning
    <3> QED
      BY <1>p, <1>q, <2>1, <3>1 DEF StartingOver
  <2> QED
    BY <2>4, <2>5
<1>3. CASE ReadTheDisk
  <2>1. /\ work \in Procedure /\ work.at = "read" /\ UNCHANGED <<store, setup, library, fair>>
        /\ work' \in Procedure /\ work'.op = work.op /\ work'.at \in {"putBack", "decide"}
    BY ZenonT(30), <1>0, <1>3 DEF ReadTheDisk, Procedure, TypeOK, Maybe, disk, ghosts
  <2>2. CASE work.op # "begin"
    BY <1>p, <1>q, <2>1, <2>2 DEF Beginning, StartingOver
  <2>3. CASE work.op = "begin"
    <3>1. store = None /\ setup = None
      BY <1>0, <1>3, <2>1, <2>3 DEF ReadTheDisk, BeginsWithNoRun, NoRunNoSetup, Beginning, StartingOver
    <3> QED
      BY <1>p, <2>1, <3>1 DEF SetupInv, StoreHoldsTheSetup, NoRunNoSetup, BeginsWithNoRun, BeginsFromTheSetup
  <2> QED
    BY <2>2, <2>3
<1>4. CASE DecideToBegin
  <2>1. /\ work \in Procedure /\ work.at = "decide" /\ work.op = "begin" /\ work # None /\ store = None
        /\ work.seen \in Reading /\ work.reading \in Reading /\ library' = library
    BY <1>0, <1>4 DEF DecideToBegin, Deciding, ReadBefore, BeginsWithNoRun, Beginning, disk
  <2>2. work' \in Procedure /\ work'.at \in {"tell", "apply"}
    BY <1>4, DecisionsGive
  <2>3. ~Beginning' /\ ~Idle'
    BY <1>p, <2>2 DEF Beginning
  <2>4. CASE setup' = None /\ store' = store
    BY <2>1, <2>3, <2>4 DEF SetupInv, StoreHoldsTheSetup, NoRunNoSetup, BeginsWithNoRun, BeginsFromTheSetup,
       Beginning
  <2>5. CASE /\ TakeTheNextRound(RunFor(work.seen))
             /\ setup' = IF setup = None THEN Enabled(work.reading) ELSE setup
             /\ fair' = IF setup = None THEN work.seen = work.reading /\ work.reading.library = library ELSE fair
    <3>1. store' = RunFor(work.seen) /\ RunFor(work.seen) \in Run /\ store' # None
      BY <2>1, <2>5, ANewRun DEF TakeTheNextRound
    <3>2. store'.start = Enabled(work.seen)
      BY <3>1 DEF RunFor
    <3>3. ASSUME fair' PROVE setup' = store'.start /\ setup' \subseteq library
      <4>1. CASE setup = None
        BY <2>5, <3>2, <3>3, <4>1 DEF Enabled
      <4>2. CASE setup # None
        BY <1>0, <2>1, <2>5, <3>2, <3>3, <4>2 DEF BeginsFromTheSetup
      <4> QED
        BY <4>1, <4>2
    <3> QED
      BY <2>1, <2>3, <3>1, <3>3 DEF SetupInv, StoreHoldsTheSetup, NoRunNoSetup, BeginsWithNoRun,
         BeginsFromTheSetup, Beginning
  <2> QED
    BY <1>4, <2>4, <2>5 DEF DecideToBegin, CannotBeWritten
<1>5. CASE DecideToAnswer \/ DecideToRefine
  <2>1. /\ work # None /\ work.at = "decide" /\ work.op # "begin" /\ store # None /\ store \in Run
        /\ UNCHANGED <<setup, fair, library>>
    BY <1>0, <1>5 DEF DecideToAnswer, DecideToRefine, Deciding, TypeOK, Maybe, disk
  <2>2. work' \in Procedure /\ work'.at \in {"tell", "apply"}
    BY <1>5, DecisionsGive
  <2>3. ~Beginning' /\ ~Idle' /\ ~StartingOver
    BY <1>p, <2>1, <2>2 DEF Beginning, StartingOver
  <2>4. store' = store \/ (store' \in Run /\ store'.start = store.start)
    <3>1. CASE DecideToAnswer
      <4>1. (culprit \in work.loaded) \in BOOLEAN
        OBVIOUS
      <4> QED
        BY ZenonT(30), <2>1, <3>1, <4>1, TheStartIsKept, DecisionsGive
           DEF DecideToAnswer, TakeTheNextRound, CannotBeWritten
    <3>2. CASE DecideToRefine
      BY <2>1, <3>2, TheStartIsKept, DecisionsGive DEF DecideToRefine, TakeTheNextRound, CannotBeWritten
    <3> QED
      BY <1>5, <3>1, <3>2
  <2>5. store' # None
    BY <2>1, <2>4
  <2> QED
    BY <1>0, <2>1, <2>3, <2>4, <2>5 DEF SetupInv, StoreHoldsTheSetup, NoRunNoSetup, BeginsWithNoRun,
       BeginsFromTheSetup, Beginning
<1>6. CASE DecideToAccept
  <2>1. /\ work # None /\ work.at = "decide" /\ work.op # "begin" /\ work.reading \in Reading
        /\ UNCHANGED <<store, setup, fair, library>>
    BY <1>0, <1>6 DEF DecideToAccept, Deciding, ReadBefore, disk, ghosts
  <2>2. work' \in Procedure /\ ~Beginning'
    <3>1. CASE held # None /\ work' = held
      BY <1>0, <3>1 DEF TypeOK, Maybe, ReadBefore, Beginning
    <3>2. CASE Tell("told") \/ Refused(Moved(work.reading))
      BY <1>0, <3>2, TellType, RefusedType DEF Beginning
    <3> QED
      BY <1>6, <3>1, <3>2 DEF DecideToAccept
  <2> QED
    BY <1>p, <1>q, <2>1, <2>2 DEF StartingOver
<1>7. CASE DecideToResume
  <2>1. /\ work \in Procedure /\ work.op = "resume" /\ UNCHANGED <<store, setup, fair, library>>
        /\ work' \in Procedure /\ work'.op = "resume" /\ work'.at = "apply"
    BY <1>0, <1>7 DEF DecideToResume, Deciding, Procedure, TypeOK, Maybe, disk
  <2>2. work.at = "decide"
    BY <1>7 DEF DecideToResume, Deciding
  <2> QED
    BY <1>p, <1>q, <2>1, <2>2 DEF Beginning, StartingOver
<1>8. ASSUME NEW failed \in SUBSET Addon, Apply(failed) \/ PutBack(failed) PROVE SetupInv'
  <2>1. /\ work \in Procedure /\ work.at \in {"apply", "putBack"} /\ work.reading \in Reading
        /\ UNCHANGED <<store, setup, library>> /\ (fair' => fair)
    <3>1. CASE Apply(failed)
      BY <1>0, <3>1 DEF Apply, Running, ReadBefore
    <3>2. CASE PutBack(failed)
      <4>1. fair' => fair
        BY <3>2 DEF PutBack
      <4> QED
        BY <1>0, <3>2, <4>1 DEF PutBack, Running, ReadBefore
    <3> QED
      BY <1>8, <3>1, <3>2
  <2>2. After(Planned, failed) \in SUBSET (Addon \cup {Foreign})
    BY <1>0, <2>1, BatchesAreOfAddons
  <2>3. [Now EXCEPT !.entries = After(Planned, failed)] \in Reading
    BY <1>0, <2>2 DEF TypeOK, Now, Reading
  <2>4. work' \in Procedure /\ work'.at \in {"adopt", "forget"}
    <3>1. CASE Apply(failed)
      BY <2>1, <2>3, <3>1 DEF Apply, Procedure, Maybe
    <3>2. CASE PutBack(failed)
      BY <2>1, <3>2 DEF PutBack, Procedure, Maybe
    <3> QED
      BY <1>8, <3>1, <3>2
  <2> QED
    BY <1>p, <1>q, <2>1, <2>4 DEF Beginning, StartingOver
<1>9. CASE AdoptAsTheBaseline
  <2>1. work' \in Procedure /\ work'.at = "tell"
    BY <1>0, <1>9, TellType DEF AdoptAsTheBaseline
  <2> QED
    BY <1>9, <1>p, <1>q, <2>1 DEF AdoptAsTheBaseline, Running, Beginning, StartingOver, disk
<1>10. CASE Forget
  <2>1. work # None /\ work.op \in Ops /\ store' = None
    BY <1>0, <1>10 DEF Forget, Running, Procedure, Ops
  <2>2. Start(work.op) \in Procedure
    BY <1>0, <2>1, StartType
  <2>3. work' \in Procedure /\ work'.at = IF work.op = "startOver" THEN "again" ELSE "tell"
    BY <1>10, <2>2 DEF Forget, Procedure
  <2>4. work.op # "startOver" => setup' = None
    BY <1>10 DEF Forget
  <2> QED
    BY <1>p, <2>1, <2>3, <2>4 DEF SetupInv, StoreHoldsTheSetup, NoRunNoSetup, BeginsWithNoRun, BeginsFromTheSetup,
       StartingOver
<1>11. CASE ReadToBeginAgain
  <2>1. /\ work \in Procedure /\ store = None /\ UNCHANGED <<store, setup, library>>
        /\ fair' => Enabled(Now) = setup
    BY <1>0, <1>11 DEF ReadToBeginAgain, Running, BeginsWithNoRun, Beginning, disk
  <2>2. work' \in Procedure /\ work'.op = "begin" /\ work'.at = "decide" /\ work'.seen = Now
    BY <1>0, <1>11, <2>1 DEF ReadToBeginAgain, TypeOK, Procedure, Maybe
  <2>3. ~Idle' /\ StartingOver'
    BY <1>p, <2>2 DEF StartingOver
  <2>4. Enabled(Now) \subseteq library
    BY DEF Enabled, Now
  <2>5. fair' => Enabled(work'.seen) = setup' /\ setup' \subseteq library'
    BY <2>1, <2>2, <2>4
  <2> QED
    BY <2>1, <2>3, <2>5 DEF SetupInv, StoreHoldsTheSetup, NoRunNoSetup, BeginsWithNoRun, BeginsFromTheSetup, Enabled
<1>12. CASE Take \/ Show
  <2>1. UNCHANGED <<store, setup, library, fair>> /\ work' = None /\ ~StartingOver
    BY <1>12 DEF Take, Show, Running, Idle, StartingOver, disk, ghosts
  <2>2. stage' = "notStarted" => stage' = StageOf(store)
    BY <1>0, <1>12 DEF Take, Show, Running, Procedure
  <2> QED
    BY <1>q, <2>1, <2>2, StageOfARun DEF Beginning
<1>13. CASE \/ RefreshEntries \/ UNCHANGED vars
            \/ \E e \in Addon \cup {Foreign} : SomeoneChangesTheEntry(e)
            \/ \E a \in Addon : AnAddonLeavesOrJoins(a)
  BY <1>13, <1>s DEF RefreshEntries, SomeoneChangesTheEntry, AnAddonLeavesOrJoins, vars, memory, disk, ghosts
<1>14. CASE Crash
  BY <1>0, <1>14 DEF Crash, SetupInv, StoreHoldsTheSetup, NoRunNoSetup, BeginsWithNoRun, BeginsFromTheSetup,
     Beginning, StartingOver, Idle
<1>15. CASE Begin \/ Answer \/ Refine \/ CarryOn \/ StartOver \/ Stop
  BY <1>1, <1>15 DEF Begin, Answer, Refine, CarryOn, StartOver, Stop, Ops
<1> QED
  BY <1>2, <1>3, <1>4, <1>5, <1>6, <1>7, <1>8, <1>9, <1>10, <1>11, <1>12, <1>13, <1>14, <1>15 DEF Next

\* What is known of the setup holds in every reachable state.
LEMMA TheSetupIsKept == Spec => []SetupInv
<1>1. Init => SetupInv
  BY DEF Init, SetupInv, StoreHoldsTheSetup, NoRunNoSetup, BeginsWithNoRun, BeginsFromTheSetup, Beginning
<1> QED
  BY <1>1, SetupStep, Inductive, PTL DEF Spec

\* Only PutBack takes a procedure from putting back to forgetting.
LEMMA OnlyPutBackEndsThere ==
  ASSUME IInv, [Next]_vars, Running("putBack"), work' # None, work'.at = "forget"
  PROVE  \E failed \in SUBSET Addon : PutBack(failed)
<1>0. work # None /\ work.at = "putBack" /\ work' # work /\ ReadBefore
  BY DEF Running, IInv
<1>1. ~(Begin \/ Answer \/ Refine \/ CarryOn \/ StartOver \/ Stop \/ Show)
  BY <1>0 DEF Begin, Answer, Refine, CarryOn, StartOver, Stop, Show, Ask, Idle
<1>2. \A choice : ~Resume(choice)
  BY <1>0 DEF Resume, ReadBefore
<1>3. ~(ReadTheDisk \/ DecideToBegin \/ DecideToAnswer \/ DecideToRefine \/ DecideToAccept \/ DecideToResume)
  BY <1>0 DEF ReadTheDisk, DecideToBegin, DecideToAnswer, DecideToRefine, DecideToAccept, DecideToResume, Deciding
<1>4. ~(AdoptAsTheBaseline \/ Forget \/ ReadToBeginAgain \/ Take) /\ \A failed : ~Apply(failed)
  BY <1>0 DEF AdoptAsTheBaseline, Forget, ReadToBeginAgain, Take, Apply, Running
<1>5. ~(RefreshEntries \/ Crash \/ UNCHANGED vars)
  BY <1>0 DEF RefreshEntries, Crash, vars, memory
<1>6. (\A e : ~SomeoneChangesTheEntry(e)) /\ \A a : ~AnAddonLeavesOrJoins(a)
  BY <1>0 DEF SomeoneChangesTheEntry, AnAddonLeavesOrJoins
<1> QED
  BY <1>1, <1>2, <1>3, <1>4, <1>5, <1>6 DEF Next

\* For any addons and couplings, over crashes, resumed rounds and searches started
\* over, a search that puts its setup back with nothing failing and nobody in between
\* leaves on what was on when it began.
THEOREM TheSetupIsBackAtTheEnd == Spec => TheSetupComesBack
<1> DEFINE Back == Running("putBack") /\ work' # None /\ work'.at = "forget" /\ fair' => Enabled(Now)' = setup
<1>1. IInv /\ SetupInv /\ [Next]_vars => [Back]_vars
  <2> SUFFICES ASSUME IInv, SetupInv, [Next]_vars, Running("putBack"), work' # None, work'.at = "forget", fair'
               PROVE  Enabled(Now)' = setup
    OBVIOUS
  <2>1. PICK failed \in SUBSET Addon : PutBack(failed)
    BY OnlyPutBackEndsThere
  <2>2. /\ store # None /\ fair /\ failed = {} /\ work.reading = Now /\ library' = library
        /\ entries' = After(Planned, {})
    BY <2>1 DEF PutBack, Undisturbed
  <2>3. store \in Run /\ Now \in Reading /\ Planned = PutBackBatch(store, work.reading)
    BY <2>2 DEF IInv, TypeOK, Maybe, Planned, Running
  <2>4. setup = store.start /\ setup \subseteq library
    BY <2>2 DEF SetupInv, StoreHoldsTheSetup
  <2>5. After(PutBackBatch(store, work.reading), {}) \cap library = store.start \cap library
    BY <2>2, <2>3, PutBackIsTheStart
  <2>6. Enabled(Now)' = entries' \cap library'
    BY DEF Enabled, Now
  <2> QED
    BY <2>2, <2>3, <2>4, <2>5, <2>6
<1>2. Spec => [][Back]_vars
  BY <1>1, Inductive, TheSetupIsKept, PTL DEF Spec
<1> QED
  BY <1>2 DEF TheSetupComesBack

-----------------------------------------------------------------------------
(* The units. Joining the coupled pairs one after the other, in any order,    *)
(* leaves every class of them connected and no pair between two of them.     *)

\* A set of numbers has a smallest one.
LEMMA Smallest ==
  ASSUME NEW J \in SUBSET Nat, J # {}
  PROVE  \E x \in J : \A y \in J : x <= y
<1>1. PICK x \in J : \A y \in J : <<y, x>> \notin OpToRel(<, Nat)
  BY NatLessThanWellFounded, WFMin
<1>2. \A y \in J : ~(y < x)
  BY <1>1 DEF OpToRel
<1> QED
  BY <1>2

\* A finite set laid out as a sequence: each of its members, once.
LEMMA LaidOut ==
  ASSUME NEW S, IsFiniteSet(S)
  PROVE  /\ Cardinality(S) \in Nat
         /\ SetToSeq(S) \in [1..Cardinality(S) -> S] /\ IsInjective(SetToSeq(S))
         /\ SetToSeq(S) \in Seq(S) /\ Len(SetToSeq(S)) = Cardinality(S)
<1>1. Cardinality(S) \in Nat /\ ExistsBijection(1..Cardinality(S), S)
  BY FS_CardinalityType
<1>2. \E f \in [1..Cardinality(S) -> S] : IsInjective(f)
  BY <1>1 DEF ExistsBijection, Bijection, Injection, Surjection
<1>3. SetToSeq(S) \in [1..Cardinality(S) -> S] /\ IsInjective(SetToSeq(S))
  BY <1>2 DEF SetToSeq
<1>4. SetToSeq(S) \in Seq(S)
  BY <1>1, <1>3, SeqDef
<1> QED
  BY <1>1, <1>3, <1>4

\* A sequence without repetition, as long as the set it is of, leaves none of it out.
LEMMA NoneIsLeftOut ==
  ASSUME NEW S, IsFiniteSet(S), NEW f \in [1..Cardinality(S) -> S], IsInjective(f)
  PROVE  \A x \in S : \E i \in 1..Cardinality(S) : f[i] = x
<1>1. Cardinality(S) \in Nat
  BY FS_CardinalityType
<1>2. f \in Injection(1..Cardinality(S), S)
  BY DEF Injection
<1>3. Cardinality(1..Cardinality(S)) = Cardinality(S)
  BY <1>1, FS_Interval
<1>4. f \in Surjection(1..Cardinality(S), S)
  BY <1>2, <1>3, FS_Injection
<1> QED
  BY <1>4 DEF Surjection

\* Numbers that hold zero, and of each the next, are all of them.
LEMMA OneAfterTheOther ==
  ASSUME NEW n \in Nat, NEW G \in SUBSET (0..n), 0 \in G, \A m \in G : m # n => m + 1 \in G
  PROVE  n \in G
<1> DEFINE J == (0..n) \ G
<1> SUFFICES ASSUME J # {} PROVE FALSE
  OBVIOUS
<1>1. PICK x \in J : \A y \in J : x <= y
  <2>1. J \in SUBSET Nat
    OBVIOUS
  <2> QED
    BY <2>1, Smallest
<1>2. x \in 0..n /\ x \notin G /\ x # 0 /\ x \in Nat
  BY <1>1
<1>3. x - 1 \in 0..n /\ ~(x <= x - 1)
  BY <1>2
<1>4. x - 1 \notin J
  BY <1>1, <1>3
<1>5. x - 1 \in G /\ x - 1 # n
  BY <1>2, <1>3, <1>4
<1> QED
  BY <1>2, <1>5

\* The greatest number up to n of a set.
LEMMA Greatest ==
  ASSUME NEW n \in Nat, NEW I \in SUBSET (1..n), I # {}
  PROVE  Max(I) \in I /\ \A j \in I : Max(I) >= j
<1> DEFINE J == {n - i : i \in I}
<1>1. J \in SUBSET Nat
  OBVIOUS
<1>0. J # {}
  OBVIOUS
<1>2. PICK m \in J : \A y \in J : m <= y
  BY <1>0, <1>1, Smallest
<1>3. PICK x \in I : m = n - x
  BY <1>2
<1>4. \A y \in I : n - x <= n - y
  BY <1>2, <1>3
<1>5. \A y \in I : x >= y
  BY <1>4
<1> QED
  BY <1>5 DEF Max

\* Owners of addons, and one join of two of them.
Owning(on) == [on -> on]

\* A join gives what two owners had to one of them, and leaves the rest as it was.
LEMMA JoinOwns ==
  ASSUME NEW on \in SUBSET Addon, NEW owner \in Owning(on), NEW pair \in on \X on
  PROVE  /\ Join(owner, pair) \in Owning(on)
         /\ \E least \in {owner[pair[1]], owner[pair[2]]} :
              \A m \in on : Join(owner, pair)[m] =
                  IF owner[m] = owner[pair[1]] \/ owner[m] = owner[pair[2]] THEN least ELSE owner[m]
<1> DEFINE left == owner[pair[1]]
           right == owner[pair[2]]
           least == IF left < right THEN left ELSE right
<1>1. left \in on /\ right \in on /\ least \in {left, right} /\ DOMAIN owner = on
  BY DEF Owning
<1>2. Join(owner, pair) = [m \in on |-> IF owner[m] \in {left, right} THEN least ELSE owner[m]]
  BY <1>1 DEF Join
<1> HIDE DEF left, right, least
<1>3. \A m \in on : Join(owner, pair)[m] = IF owner[m] = left \/ owner[m] = right THEN least ELSE owner[m]
  BY <1>2
<1>4. Join(owner, pair) \in Owning(on)
  BY <1>1, <1>2 DEF Owning
<1> QED
  BY <1>1, <1>3, <1>4 DEF left, right

\* The recursion behind FoldLeft, and its value.
Solves(g, n, pairs, base) ==
    g = [s \in SUBSET (1..n) |-> IF s = {} THEN base ELSE Join(g[s \ {Max(s)}], pairs[Max(s)])]
InTurn(n, pairs, base) == CHOOSE g : Solves(g, n, pairs, base)

\* Joining a sequence of pairs is joining one after the other: the recursion has a
\* solution.
LEMMA JoinedInTurn ==
  ASSUME NEW on \in SUBSET Addon, NEW n \in Nat, NEW pairs \in [1..n -> on \X on], NEW base \in Owning(on)
  PROVE  \E g : Solves(g, n, pairs, base)
<1> DEFINE Next1(g, s) == IF s = {} THEN base ELSE Join(g[s \ {Max(s)}], pairs[Max(s)])
           Is(g, m) == \A s \in SUBSET (1..m) : g[s] = Next1(g, s)
           G == {m \in 0..n : \E g \in [SUBSET (1..m) -> Owning(on)] : Is(g, m)}
<1>1. 0 \in G
  <2> DEFINE g == [s \in SUBSET (1..0) |-> base]
  <2>1. 0 \in 0..n /\ \A s \in SUBSET (1..0) : s = {}
    OBVIOUS
  <2>2. g \in [SUBSET (1..0) -> Owning(on)] /\ \A s \in SUBSET (1..0) : g[s] = base
    OBVIOUS
  <2> HIDE DEF g
  <2>3. Is(g, 0)
    BY <2>1, <2>2
  <2> HIDE DEF Is
  <2> QED
    BY <2>1, <2>2, <2>3
<1>2. ASSUME NEW m \in G, m # n PROVE m + 1 \in G
  <2>1. m \in Nat /\ m + 1 \in 0..n /\ m + 1 \in 1..n
    BY <1>2
  <2>2. PICK h \in [SUBSET (1..m) -> Owning(on)] : Is(h, m)
    OBVIOUS
  <2> DEFINE g == [s \in SUBSET (1..(m + 1)) |->
                     IF s \in SUBSET (1..m) THEN h[s] ELSE Join(h[s \ {m + 1}], pairs[m + 1])]
  <2>3. ASSUME NEW s \in SUBSET (1..(m + 1)), s \notin SUBSET (1..m)
        PROVE  s # {} /\ Max(s) = m + 1 /\ s \ {m + 1} \in SUBSET (1..m)
    <3>1. m + 1 \in s
      <4>1. PICK x \in s : x \notin 1..m
        BY <2>3
      <4> QED
        BY <2>1, <4>1
    <3>2. Max(s) \in s /\ Max(s) >= m + 1
      <4>1. m + 1 \in Nat /\ s # {}
        BY <2>1, <3>1
      <4> QED
        BY <3>1, <4>1, Greatest
    <3>3. Max(s) = m + 1
      <4>1. Max(s) \in 1..(m + 1)
        BY <3>2
      <4> HIDE DEF Is, Next1
      <4> QED
        BY <2>1, <3>2, <4>1
    <3>4. \A x \in s : x # m + 1 => x \in 1..m
      BY <2>1
    <3> QED
      BY <3>1, <3>3, <3>4
  <2>4. ASSUME NEW s \in SUBSET (1..m), s # {}
        PROVE  s \ {Max(s)} \in SUBSET (1..m) /\ s \ {Max(s)} \in SUBSET (1..(m + 1))
    <3>1. \A x \in 1..m : x \in 1..(m + 1)
      BY <2>1
    <3> HIDE DEF Is, Next1
    <3> QED
      BY <3>1
  <2>5. g \in [SUBSET (1..(m + 1)) -> Owning(on)]
    <3>1. ASSUME NEW s \in SUBSET (1..(m + 1)), s \notin SUBSET (1..m)
          PROVE  Join(h[s \ {m + 1}], pairs[m + 1]) \in Owning(on)
      <4>1. h[s \ {m + 1}] \in Owning(on) /\ pairs[m + 1] \in on \X on
        BY <2>1, <2>3, <3>1
      <4> QED
        BY <4>1, JoinOwns
    <3> QED
      BY <3>1
  <2>6. ASSUME NEW s \in SUBSET (1..(m + 1)) PROVE g[s] = Next1(g, s)
    <3>1. CASE s \in SUBSET (1..m)
      <4>1. g[s] = h[s] /\ h[s] = Next1(h, s)
        BY <2>2, <3>1
      <4>2. s # {} => g[s \ {Max(s)}] = h[s \ {Max(s)}]
        BY <2>4, <3>1
      <4> HIDE DEF g
      <4> QED
        BY <4>1, <4>2
    <3>2. CASE s \notin SUBSET (1..m)
      <4>1. s # {} /\ Max(s) = m + 1 /\ s \ {m + 1} \in SUBSET (1..m)
        BY <2>3, <3>2
      <4>2. s \ {m + 1} \in SUBSET (1..(m + 1))
        OBVIOUS
      <4>3. g[s] = Join(h[s \ {m + 1}], pairs[m + 1]) /\ g[s \ {m + 1}] = h[s \ {m + 1}]
        BY <3>2, <4>1, <4>2
      <4> HIDE DEF g
      <4> QED
        BY <4>1, <4>3
    <3> QED
      BY <3>1, <3>2
  <2> HIDE DEF g
  <2>7. Is(g, m + 1)
    BY <2>6
  <2> HIDE DEF Is
  <2> QED
    BY <2>1, <2>5, <2>7
<1>3. n \in G
  <2> HIDE DEF Is
  <2>1. G \in SUBSET (0..n)
    OBVIOUS
  <2> HIDE DEF G
  <2> QED
    BY <1>1, <1>2, <2>1, OneAfterTheOther
<1>4. PICK g \in [SUBSET (1..n) -> Owning(on)] : Is(g, n)
  <2> HIDE DEF Is
  <2> QED
    BY <1>3
<1>5. g = [s \in SUBSET (1..n) |-> g[s]]
  OBVIOUS
<1>6. Solves(g, n, pairs, base)
  BY <1>4, <1>5 DEF Solves
<1> QED
  BY <1>6

\* What the owners are after each of the pairs.
JoinedTo(F, on, n, pairs, base) ==
    /\ F \in [0..n -> Owning(on)] /\ F[0] = base /\ F[n] = InTurn(n, pairs, base)[1..n]
    /\ \A k \in 1..n : F[k] = Join(F[k - 1], pairs[k])

\* So the fold of a sequence of pairs is the last of the owners joined in turn.
LEMMA Folded ==
  ASSUME NEW on \in SUBSET Addon, NEW n \in Nat, NEW pairs \in [1..n -> on \X on], NEW base \in Owning(on)
  PROVE  \E F : JoinedTo(F, on, n, pairs, base)
<1> DEFINE g == InTurn(n, pairs, base)
           F == [k \in 0..n |-> g[1..k]]
<1>1. g = [s \in SUBSET (1..n) |-> IF s = {} THEN base ELSE Join(g[s \ {Max(s)}], pairs[Max(s)])]
  <2>1. \E f : Solves(f, n, pairs, base)
    BY JoinedInTurn
  <2>2. Solves(InTurn(n, pairs, base), n, pairs, base)
    BY <2>1 DEF InTurn
  <2> QED
    BY <2>2 DEF Solves
<1> HIDE DEF g
<1>4. \A k \in 0..n : 1..k \in SUBSET (1..n)
  OBVIOUS
<1>5. F[0] = base
  <2>1. 1..0 = {} /\ 0 \in 0..n
    OBVIOUS
  <2> QED
    BY <1>1, <1>4, <2>1
<1>6. ASSUME NEW k \in 1..n PROVE F[k] = Join(F[k - 1], pairs[k])
  <2>0. k \in 0..n /\ k - 1 \in 0..n /\ k \in 1..k /\ k \in Nat
    OBVIOUS
  <2>1. 1..k \in SUBSET (1..n) /\ 1..k # {} /\ 1..k \in SUBSET (1..k)
    BY <1>4, <2>0
  <2>2. Max(1..k) \in 1..k /\ Max(1..k) >= k
    BY <2>0, <2>1, Greatest
  <2>3. Max(1..k) = k
    BY <2>0, <2>2
  <2>4. (1..k) \ {k} = 1..(k - 1)
    OBVIOUS
  <2>5. g[1..k] = Join(g[1..(k - 1)], pairs[k])
    BY <1>1, <2>1, <2>3, <2>4
  <2> QED
    BY <2>0, <2>5
<1>7. F \in [0..n -> Owning(on)]
  <2> DEFINE G == {k \in 0..n : F[k] \in Owning(on)}
  <2>1. 0 \in G
    BY <1>5
  <2>2. ASSUME NEW m \in G, m # n PROVE m + 1 \in G
    <3>1. m + 1 \in 1..n /\ m + 1 \in 0..n /\ (m + 1) - 1 = m
      BY <2>2
    <3>2. F[m + 1] = Join(F[m], pairs[m + 1])
      BY <1>6, <3>1
    <3> HIDE DEF F
    <3> QED
      BY <3>1, <3>2, JoinOwns
  <2>3. G \in SUBSET (0..n)
    OBVIOUS
  <2>4. ASSUME NEW k \in 0..n PROVE F[k] \in Owning(on)
    <3> HIDE DEF F
    <3> DEFINE H == {i \in 0..k : i \in G}
    <3>1. 0 \in H /\ H \in SUBSET (0..k)
      BY <2>1
    <3>2. \A m \in H : m # k => m + 1 \in H
      BY <2>2
    <3> HIDE DEF H, G
    <3>3. k \in H
      BY <3>1, <3>2, OneAfterTheOther
    <3> QED
      BY <3>3 DEF H, G
  <2> QED
    BY <2>4
<1> HIDE DEF F
<1>8. F[n] = g[1..n]
  BY DEF F
<1>9. JoinedTo(F, on, n, pairs, base)
  BY <1>5, <1>6, <1>7, <1>8 DEF g, JoinedTo
<1> QED
  BY <1>9

\* A set of addons that falls in no two parts that nothing couples.
Connected(C) == \A part \in (SUBSET C) \ {{}, C} : \E a \in part, b \in C \ part : Coupled(a, b)
ClassOf(owner, o) == {m \in DOMAIN owner : owner[m] = o}

\* Coupling does not look which of two comes first.
LEMMA CoupledBothWays == ASSUME NEW a, NEW b, Coupled(a, b) PROVE Coupled(b, a)
  BY DEF Coupled

\* Two connected sets with a coupled pair between them are one.
LEMMA ConnectedTogether ==
  ASSUME NEW C, NEW D, Connected(C), Connected(D), NEW c \in C, NEW d \in D, Coupled(c, d)
  PROVE  Connected(C \cup D)
<1> SUFFICES ASSUME NEW part \in (SUBSET (C \cup D)) \ {{}, C \cup D}
             PROVE  \E a \in part, b \in (C \cup D) \ part : Coupled(a, b)
  BY DEF Connected
<1>1. CASE part \cap C \notin {{}, C}
  <2> DEFINE some == part \cap C
  <2>1. some \in (SUBSET C) \ {{}, C}
    BY <1>1
  <2>2. \A a \in some, b \in C \ some : a \in part /\ b \in (C \cup D) \ part
    OBVIOUS
  <2> HIDE DEF some
  <2>3. \E a \in some, b \in C \ some : Coupled(a, b)
    BY <2>1 DEF Connected
  <2> QED
    BY <2>2, <2>3
<1>2. CASE part \cap D \notin {{}, D}
  <2> DEFINE some == part \cap D
  <2>1. some \in (SUBSET D) \ {{}, D}
    BY <1>2
  <2>2. \A a \in some, b \in D \ some : a \in part /\ b \in (C \cup D) \ part
    OBVIOUS
  <2> HIDE DEF some
  <2>3. \E a \in some, b \in D \ some : Coupled(a, b)
    BY <2>1 DEF Connected
  <2> QED
    BY <2>2, <2>3
<1>3. CASE part \cap C \in {{}, C} /\ part \cap D \in {{}, D}
  <2>1. (c \in part /\ d \notin part) \/ (d \in part /\ c \notin part)
    <3>1. c \in part <=> C \subseteq part
      BY <1>3
    <3>2. d \in part <=> D \subseteq part
      BY <1>3
    <3>3. ~(C \subseteq part) => part \cap C = {}
      BY <1>3
    <3>4. ~(D \subseteq part) => part \cap D = {}
      BY <1>3
    <3>5. ~(C \subseteq part /\ D \subseteq part)
      OBVIOUS
    <3>6. ~(part \cap C = {} /\ part \cap D = {})
      OBVIOUS
    <3> QED
      BY <3>1, <3>2, <3>3, <3>4, <3>5, <3>6
  <2> QED
    BY <2>1, CoupledBothWays
<1> QED
  BY <1>1, <1>2, <1>3

\* Joining a coupled pair leaves every class connected, the pair in one of them and
\* every two that were in one together.
LEMMA JoinConnects ==
  ASSUME NEW on \in SUBSET Addon, NEW owner \in Owning(on), NEW pair \in on \X on,
         Coupled(pair[1], pair[2]), \A o : Connected(ClassOf(owner, o))
  PROVE  /\ \A o : Connected(ClassOf(Join(owner, pair), o))
         /\ Join(owner, pair)[pair[1]] = Join(owner, pair)[pair[2]]
         /\ \A a, b \in on : owner[a] = owner[b] => Join(owner, pair)[a] = Join(owner, pair)[b]
<1> DEFINE joined == Join(owner, pair)
           left == owner[pair[1]]
           right == owner[pair[2]]
<1>1. PICK least \in {left, right} :
        \A m \in on : joined[m] = IF owner[m] = left \/ owner[m] = right THEN least ELSE owner[m]
  BY JoinOwns
<1>2. DOMAIN owner = on /\ DOMAIN joined = on
  BY JoinOwns DEF Owning
<1>3. pair[1] \in on /\ pair[2] \in on
  OBVIOUS
<1> HIDE DEF joined
<1>4. ASSUME NEW o PROVE Connected(ClassOf(joined, o))
  <2>1. CASE o = least
    <3>1. ClassOf(joined, o) = ClassOf(owner, left) \cup ClassOf(owner, right)
      BY <1>1, <1>2, <2>1 DEF ClassOf
    <3>2. pair[1] \in ClassOf(owner, left) /\ pair[2] \in ClassOf(owner, right)
      BY <1>2, <1>3 DEF ClassOf
    <3> QED
      BY <3>1, <3>2, ConnectedTogether
  <2>2. CASE o # least /\ o \in {left, right}
    <3>1. ClassOf(joined, o) = {}
      BY <1>1, <1>2, <2>2 DEF ClassOf
    <3> QED
      BY <3>1 DEF Connected
  <2>3. CASE o \notin {left, right}
    <3>1. ClassOf(joined, o) = ClassOf(owner, o)
      BY <1>1, <1>2, <2>3 DEF ClassOf
    <3> QED
      BY <3>1
  <2> QED
    BY <2>1, <2>2, <2>3
<1>5. joined[pair[1]] = joined[pair[2]]
  BY <1>1, <1>3
<1>6. \A a, b \in on : owner[a] = owner[b] => joined[a] = joined[b]
  BY <1>1
<1> QED
  BY <1>4, <1>5, <1>6 DEF joined

\* The pairs that are joined are the coupled ones, each of them once.
LEMMA OwnersAreOfTheCoupled ==
  ASSUME NEW on \in SUBSET Addon
  PROVE  /\ Owners(on) \in Owning(on)
         /\ \A o : Connected(ClassOf(Owners(on), o))
         /\ \A a, b \in on : a # b /\ Coupled(a, b) => Owners(on)[a] = Owners(on)[b]
<1> DEFINE P == {p \in on \X on : p[1] # p[2] /\ Coupled(p[1], p[2])}
           n == Cardinality(P)
           pairs == SetToSeq(P)
           base == [a \in on |-> a]
<1>1. IsFiniteSet(P)
  <2>1. IsFiniteSet(on)
    BY BisectionAssumption, FS_Subset
  <2>2. IsFiniteSet(on \X on)
    BY <2>1, FS_Product
  <2> QED
    BY <2>2, FS_Subset
<1>2. n \in Nat /\ pairs \in [1..n -> P] /\ IsInjective(pairs)
  <2> HIDE DEF P
  <2> QED
    BY <1>1, LaidOut
<1>3. \A p \in P : \E i \in 1..n : pairs[i] = p
  <2> HIDE DEF P, pairs
  <2> QED
    BY <1>1, <1>2, NoneIsLeftOut
<1>4. base \in Owning(on)
  BY DEF Owning
<1>5. Owners(on) = InTurn(n, pairs, base)[1..n]
  <2>1. DOMAIN pairs = 1..n
    BY <1>2
  <2>2. Owners(on) = FoldLeft(Join, base, pairs)
    BY DEF Owners
  <2>3. Owners(on) = InTurn(n, pairs, base)[1..n]
    BY <2>1, <2>2 DEF FoldLeft, MapThenFoldSet, InTurn, Solves
  <2> QED
    BY <2>3
<1>6. \A p \in P : p \in on \X on /\ Coupled(p[1], p[2])
  OBVIOUS
<1>7. \A a, b \in on : a # b /\ Coupled(a, b) => <<a, b>> \in P
  OBVIOUS
<1>8. \A o : Connected(ClassOf(base, o))
  <2> SUFFICES ASSUME NEW o, NEW part \in (SUBSET ClassOf(base, o)) \ {{}, ClassOf(base, o)}
               PROVE  \E a \in part, b \in ClassOf(base, o) \ part : Coupled(a, b)
    BY DEF Connected
  <2>1. ClassOf(base, o) \in SUBSET {o}
    BY DEF ClassOf
  <2>2. part = {} \/ part = ClassOf(base, o)
    BY <2>1
  <2> QED
    BY <2>2
<1> HIDE DEF P, pairs, base, n
<1>9. pairs \in [1..n -> on \X on]
  BY <1>2, <1>6
<1>10. PICK F : F \in [0..n -> Owning(on)] /\ F[0] = base /\ F[n] = Owners(on)
                /\ \A k \in 1..n : F[k] = Join(F[k - 1], pairs[k])
  <2>1. n \in Nat
    BY <1>2
  <2>2. PICK F : JoinedTo(F, on, n, pairs, base)
    BY <2>1, <1>4, <1>9, Folded
  <2> QED
    BY <1>5, <2>2 DEF JoinedTo
<1> DEFINE Good(k) == /\ \A o : Connected(ClassOf(F[k], o))
                      /\ \A i \in 1..k : F[k][pairs[i][1]] = F[k][pairs[i][2]]
           G == {k \in 0..n : Good(k)}
<1>11. 0 \in G
  <2>1. 0 \in 0..n /\ 1..0 = {}
    BY <1>2
  <2> QED
    BY <1>8, <1>10, <2>1
<1>12. ASSUME NEW m \in G, m # n PROVE m + 1 \in G
  <2>1. /\ m \in 0..n /\ m + 1 \in 0..n /\ m + 1 \in 1..n /\ (m + 1) - 1 = m /\ Good(m)
        /\ \A i \in 1..(m + 1) : i \in 1..n /\ (i \in 1..m \/ i = m + 1)
    BY <1>2, <1>12
  <2>2. F[m] \in Owning(on) /\ pairs[m + 1] \in on \X on /\ Coupled(pairs[m + 1][1], pairs[m + 1][2])
    BY <1>2, <1>6, <1>9, <1>10, <2>1
  <2>3. F[m + 1] = Join(F[m], pairs[m + 1])
    BY <1>10, <2>1
  <2>4. /\ \A o : Connected(ClassOf(F[m + 1], o))
        /\ F[m + 1][pairs[m + 1][1]] = F[m + 1][pairs[m + 1][2]]
        /\ \A a, b \in on : F[m][a] = F[m][b] => F[m + 1][a] = F[m + 1][b]
    BY <2>1, <2>2, <2>3, JoinConnects
  <2>5. \A i \in 1..(m + 1) : pairs[i][1] \in on /\ pairs[i][2] \in on
    BY <1>9, <2>1
  <2>6. \A i \in 1..m : i \in 1..(m + 1)
    BY <2>1
  <2>7. Good(m + 1)
    BY <2>1, <2>4, <2>5, <2>6
  <2> HIDE DEF Good
  <2> QED
    BY <2>1, <2>7
<1>13. n \in G
  <2> HIDE DEF Good
  <2>1. G \in SUBSET (0..n)
    OBVIOUS
  <2> HIDE DEF G
  <2> QED
    BY <1>2, <1>11, <1>12, <2>1, OneAfterTheOther
<1>14. Good(n)
  <2> HIDE DEF Good
  <2> QED
    BY <1>13
<1>15. ASSUME NEW a \in on, NEW b \in on, a # b, Coupled(a, b) PROVE Owners(on)[a] = Owners(on)[b]
  <2>1. PICK i \in 1..n : pairs[i] = <<a, b>>
    BY <1>3, <1>7, <1>15
  <2> QED
    BY <1>10, <1>14, <2>1
<1>16. n \in 0..n
  BY <1>2
<1> QED
  BY <1>10, <1>14, <1>15, <1>16

\* What the units of a run are to be: classes of the coupling of what it began with.
AreTheCoupled(units, start) ==
    /\ \A u, v \in units : u = v \/ \A a \in u.addons, b \in v.addons : ~Coupled(a, b) /\ a # b
    /\ \A u \in units : Connected(u.addons)
    /\ Addons(units) = start

\* UnitsFrom makes them so, and none of them empty.
LEMMA UnitsAreTheClasses ==
  ASSUME NEW on \in SUBSET Addon
  PROVE  AreTheCoupled(UnitsFrom(on), on) /\ \A u \in UnitsFrom(on) : u.addons # {}
<1> DEFINE owner == Owners(on)
           U == UnitsFrom(on)
           unit(o) == [addons |-> ClassOf(owner, o), base |-> BaseOf(ClassOf(owner, o))]
<1>1. /\ owner \in Owning(on) /\ DOMAIN owner = on
      /\ \A o : Connected(ClassOf(owner, o))
      /\ \A a, b \in on : a # b /\ Coupled(a, b) => owner[a] = owner[b]
  BY OwnersAreOfTheCoupled DEF Owning
<1>2. U = {unit(o) : o \in {owner[a] : a \in on}}
  BY <1>1 DEF UnitsFrom, ClassOf
<1>3. \A u \in U : \E a \in on : u = unit(owner[a])
  BY <1>2
<1>4. \A a \in on : unit(owner[a]) \in U
  BY <1>2
<1>5. \A o : unit(o).addons = ClassOf(owner, o)
  OBVIOUS
<1> HIDE DEF owner, U, unit
<1>6. \A o : \A a \in on : a \in ClassOf(owner, o) <=> owner[a] = o
  BY <1>1 DEF ClassOf
<1>7. \A o : ClassOf(owner, o) \subseteq on
  BY <1>1 DEF ClassOf
<1>8. ASSUME NEW u \in U, NEW v \in U, u # v, NEW a \in u.addons, NEW b \in v.addons
      PROVE  ~Coupled(a, b) /\ a # b
  <2>1. PICK c \in on, d \in on : u = unit(owner[c]) /\ v = unit(owner[d])
    BY <1>3
  <2>2. a \in on /\ b \in on /\ owner[a] = owner[c] /\ owner[b] = owner[d] /\ owner[c] # owner[d]
    BY <1>5, <1>6, <1>7, <1>8, <2>1
  <2> QED
    BY <1>1, <2>2
<1>9. \A u \in U : Connected(u.addons) /\ u.addons # {} /\ u.addons \subseteq on
  <2> SUFFICES ASSUME NEW u \in U PROVE Connected(u.addons) /\ u.addons # {} /\ u.addons \subseteq on
    OBVIOUS
  <2>1. PICK c \in on : u = unit(owner[c])
    BY <1>3
  <2>2. u.addons = ClassOf(owner, owner[c]) /\ c \in u.addons
    BY <1>5, <1>6, <2>1
  <2> QED
    BY <1>1, <1>7, <2>2
<1>10. Addons(U) = on
  <2>1. ASSUME NEW a \in on PROVE \E u \in U : a \in u.addons
    BY <1>4, <1>5, <1>6
  <2> QED
    BY <1>9, <2>1 DEF Addons
<1> QED
  BY <1>8, <1>9, <1>10 DEF AreTheCoupled, U

\* No step changes what CouplingScan finds of the addons.
LEMMA FactsStay == ASSUME [Next]_vars PROVE facts' = facts
<1>1. CASE \/ \E op, from : Ask(op, from)
           \/ \E choice : Resume(choice)
           \/ ReadTheDisk \/ DecideToBegin \/ DecideToAnswer \/ DecideToRefine \/ DecideToAccept
           \/ DecideToResume \/ AdoptAsTheBaseline \/ Forget
           \/ \E failed : Apply(failed) \/ PutBack(failed)
  BY <1>1 DEF Ask, Resume, ReadTheDisk, DecideToBegin, DecideToAnswer, DecideToRefine, DecideToAccept,
     DecideToResume, AdoptAsTheBaseline, Forget, Apply, PutBack
<1>2. CASE \/ ReadToBeginAgain \/ Take \/ Show \/ RefreshEntries \/ Crash \/ UNCHANGED vars
           \/ \E e : SomeoneChangesTheEntry(e)
           \/ \E a : AnAddonLeavesOrJoins(a)
  BY <1>2 DEF ReadToBeginAgain, Take, Show, RefreshEntries, Crash, SomeoneChangesTheEntry, AnAddonLeavesOrJoins,
     vars
<1> QED
  BY <1>1, <1>2 DEF Next, Begin, Answer, Refine, CarryOn, StartOver, Stop

\* What a run that is stored was before: as it was, begun, answered or refined.
LEMMA WhereARunComesFrom ==
  ASSUME IInv, [Next]_vars, store' # None
  PROVE  \/ store' = store
         \/ \E seen \in Reading : Enabled(seen) # {} /\ store' = RunFor(seen)
         \/ \E crashed \in BOOLEAN :
              /\ store \in Run /\ store # None /\ OutcomeOf(store) = "searching"
              /\ store' = AfterAnswering(store, crashed)
         \/ store # None /\ store' = IntoTheSecondPass(store)
<1>0. TypeOK /\ ReadBefore
  BY DEF IInv
<1>1. CASE DecideToBegin
  <2>1. work.seen \in Reading
    BY <1>0, <1>1 DEF DecideToBegin, Deciding, ReadBefore
  <2> QED
    BY <1>1, <2>1 DEF DecideToBegin, TakeTheNextRound, CannotBeWritten
<1>2. CASE DecideToAnswer
  <2>1. (culprit \in work.loaded) \in BOOLEAN /\ store \in Run /\ store # None
    BY <1>0, <1>2 DEF DecideToAnswer, TypeOK, Maybe
  <2> QED
    BY <1>2, <2>1 DEF DecideToAnswer, TakeTheNextRound, CannotBeWritten
<1>3. CASE DecideToRefine
  BY <1>3 DEF DecideToRefine, TakeTheNextRound, CannotBeWritten
<1>4. CASE ~(DecideToBegin \/ DecideToAnswer \/ DecideToRefine)
  BY <1>4, OnlyDecisionsChangeTheRun
<1> QED
  BY <1>1, <1>2, <1>3, <1>4

\* What an answer, or a second pass, leaves of a run.
LEMMA WhatAnAnswerKeeps ==
  ASSUME NEW run \in Run, NEW crashed \in BOOLEAN
  PROVE  /\ AfterAnswering(run, crashed).units = run.units /\ AfterAnswering(run, crashed).pass = run.pass
         /\ AfterAnswering(run, crashed).start = run.start /\ IntoTheSecondPass(run).pass = "inside"
<1>1. IntoTheSecondPass(run).pass = "inside"
  BY DEF IntoTheSecondPass, Run
<1>2. /\ AfterTheReferenceRound(run, crashed).units = run.units
      /\ AfterTheReferenceRound(run, crashed).pass = run.pass
      /\ AfterTheReferenceRound(run, crashed).start = run.start
  BY DEF AfterTheReferenceRound, Run
<1>3. CASE OutcomeOf(run) # "searching" \/ run.round = 0
  BY <1>1, <1>2, <1>3 DEF AfterAnswering
<1>4. CASE ~(OutcomeOf(run) # "searching" \/ run.round = 0)
  <2> DEFINE on == HalfOf(run.suspects)
             off == run.suspects \ on
  <2>1. AfterAnswering(run, crashed)
          = [run EXCEPT !.suspects = IF crashed THEN on ELSE off,
                        !.cleared = @ \cup (IF crashed THEN off ELSE on), !.round = @ + 1]
    BY <1>4 DEF AfterAnswering
  <2> HIDE DEF on, off
  <2> QED
    BY <1>1, <2>1 DEF Run
<1> QED
  BY <1>3, <1>4

\* The units of the first pass are the coupled ones, and none is empty.
UnitsInv ==
    store # None /\ store.pass = "units" =>
        /\ AreTheCoupled(store.units, store.start)
        /\ \A u \in store.units : u.addons # {}

\* An answer keeps the units and a second pass leaves the first: only a new run makes them.
LEMMA UnitsStep == IInv /\ UnitsInv /\ [Next]_vars => UnitsInv'
<1> SUFFICES ASSUME IInv, UnitsInv, [Next]_vars, store' # None, store'.pass = "units"
             PROVE  UnitsInv'
  BY DEF UnitsInv
<1>1. AreTheCoupled(store'.units, store'.start) /\ \A u \in store'.units : u.addons # {}
  <2>1. CASE store' = store
    BY <2>1 DEF UnitsInv
  <2>2. ASSUME NEW seen \in Reading, store' = RunFor(seen)
        PROVE AreTheCoupled(store'.units, store'.start) /\ \A u \in store'.units : u.addons # {}
    <3>1. Enabled(seen) \in SUBSET Addon
      BY DEF Enabled, Reading
    <3>2. store'.units = UnitsFrom(Enabled(seen)) /\ store'.start = Enabled(seen)
      BY <2>2 DEF RunFor
    <3> QED
      BY <3>1, <3>2, UnitsAreTheClasses
  <2>3. ASSUME NEW crashed \in BOOLEAN, store \in Run, store # None, store' = AfterAnswering(store, crashed)
        PROVE AreTheCoupled(store'.units, store'.start) /\ \A u \in store'.units : u.addons # {}
    BY <2>3, WhatAnAnswerKeeps DEF UnitsInv
  <2>4. CASE store # None /\ store' = IntoTheSecondPass(store)
    <3>1. store \in Run
      BY <2>4 DEF IInv, TypeOK, Maybe
    <3> QED
      BY <2>4, <3>1, WhatAnAnswerKeeps
  <2> QED
    BY <2>1, <2>2, <2>3, <2>4, WhereARunComesFrom
<1>2. facts' = facts
  BY FactsStay
<1>3. AreTheCoupled(store.units, store.start)'
  BY <1>1, <1>2 DEF AreTheCoupled, Connected, Coupled, Addons
<1> QED
  BY <1>1, <1>3 DEF UnitsInv

\* The units hold what they should in every reachable state.
LEMMA TheUnitsAreKept == Spec => []UnitsInv
<1>1. Init => UnitsInv
  BY DEF Init, UnitsInv
<1> QED
  BY <1>1, UnitsStep, Inductive, PTL DEF Spec

\* However addons are coupled and in whatever order the pairs are joined, the units of
\* a search are the classes of the coupling: no two of them are coupled, and none
\* falls in two parts that nothing couples.
THEOREM TheUnitsAreTheClassesOfTheCoupling == Spec => []TheUnitsAreTheCoupledOnes
<1>1. UnitsInv => TheUnitsAreTheCoupledOnes
  BY DEF UnitsInv, AreTheCoupled, Connected, TheUnitsAreTheCoupledOnes
<1> QED
  BY <1>1, TheUnitsAreKept, PTL

-----------------------------------------------------------------------------
(* The rounds. A half of the suspects has half of them, so each answer leaves *)
(* at most the greater half, and powers of two are the sizes of power sets.   *)

\* A power of two is twice the one before.
LEMMA Powers == ASSUME NEW n \in Nat PROVE 2^n \in Nat /\ 2^(n + 1) = 2 * 2^n
<1> DEFINE S == 1..n
           T == 1..(n + 1)
           W == {x \cup {n + 1} : x \in SUBSET S}
           f == [x \in SUBSET S |-> x \cup {n + 1}]
<1>1. IsFiniteSet(S) /\ Cardinality(S) = n /\ IsFiniteSet(T) /\ Cardinality(T) = n + 1
  BY FS_Interval
<1>2. /\ IsFiniteSet(SUBSET S) /\ Cardinality(SUBSET S) = 2^n
      /\ IsFiniteSet(SUBSET T) /\ Cardinality(SUBSET T) = 2^(n + 1)
  BY <1>1, FS_SUBSET
<1>3. Cardinality(SUBSET S) \in Nat
  BY <1>2, FS_CardinalityType
<1>4. n + 1 \notin S /\ T = S \cup {n + 1}
  OBVIOUS
<1> HIDE DEF S, T
<1>5. f \in Bijection(SUBSET S, W)
  <2>1. f \in [SUBSET S -> W]
    OBVIOUS
  <2>2. \A x, y \in SUBSET S : f[x] = f[y] => x = y
    <3> SUFFICES ASSUME NEW x \in SUBSET S, NEW y \in SUBSET S, x \cup {n + 1} = y \cup {n + 1} PROVE x = y
      OBVIOUS
    <3> QED
      BY <1>4
  <2>3. \A w \in W : \E x \in SUBSET S : f[x] = w
    OBVIOUS
  <2> HIDE DEF f, W
  <2> QED
    BY <2>1, <2>2, <2>3 DEF Bijection, Injection, Surjection, IsInjective
<1>6. IsFiniteSet(W) /\ Cardinality(W) = 2^n
  <2>1. ExistsBijection(SUBSET S, W)
    BY <1>5 DEF ExistsBijection
  <2> HIDE DEF W
  <2> QED
    BY <1>2, <2>1, FS_Bijection
<1>7. SUBSET T = (SUBSET S) \cup W
  <2>1. ASSUME NEW x \in SUBSET T PROVE x \in (SUBSET S) \cup W
    <3>1. CASE n + 1 \in x
      <4>1. x \ {n + 1} \in SUBSET S /\ x = (x \ {n + 1}) \cup {n + 1}
        BY <1>4, <3>1
      <4> QED
        BY <4>1
    <3>2. CASE n + 1 \notin x
      BY <1>4, <3>2
    <3> QED
      BY <3>1, <3>2
  <2>2. ASSUME NEW x \in (SUBSET S) \cup W PROVE x \in SUBSET T
    BY <1>4
  <2> QED
    BY <2>1, <2>2
<1>8. (SUBSET S) \cap W = {}
  BY <1>4
<1> HIDE DEF W
<1>9. Cardinality(SUBSET T) = Cardinality(SUBSET S) + Cardinality(W) - Cardinality((SUBSET S) \cap W)
  BY <1>2, <1>6, <1>7, FS_Union
<1>10. Cardinality((SUBSET S) \cap W) = 0
  BY <1>8, FS_EmptySet
<1>11. \A x \in Nat : x + x - 0 = 2 * x
  OBVIOUS
<1> QED
  BY <1>2, <1>3, <1>6, <1>9, <1>10, <1>11

\* They grow, and each is more than its exponent.
LEMMA PowersGrow ==
  /\ \A m, n \in Nat : m <= n => 2^m <= 2^n
  /\ \A n \in Nat : n < 2^n
<1>0. \A n \in Nat : 2^n \in Nat /\ 2^(n + 1) = 2 * 2^n
  BY Powers
<1>z. 2^0 = 1
  OBVIOUS
<1>1. ASSUME NEW m \in Nat, NEW n \in Nat, m <= n PROVE 2^m <= 2^n
  <2> DEFINE G == {i \in 0..(n - m) : 2^m <= 2^(m + i)}
  <2>1. n - m \in Nat /\ G \in SUBSET (0..(n - m))
    BY <1>1
  <2>2. 0 \in G
    <3>1. m + 0 = m /\ 0 \in 0..(n - m) /\ 2^m \in Nat
      BY <1>0, <2>1
    <3>2. 2^(m + 0) = 2^m
      BY <3>1
    <3> QED
      BY <3>1, <3>2
  <2>3. ASSUME NEW i \in G, i # n - m PROVE i + 1 \in G
    <3>1. i \in Nat /\ i + 1 \in 0..(n - m) /\ m + i \in Nat /\ m + (i + 1) = (m + i) + 1
      BY <2>1, <2>3
    <3>2. 2^(m + (i + 1)) = 2 * 2^(m + i) /\ 2^(m + i) \in Nat /\ 2^m \in Nat
      BY <1>0, <3>1
    <3>3. 2^m <= 2^(m + i)
      BY <2>3
    <3>4. 2^m <= 2^(m + (i + 1))
      BY <3>2, <3>3
    <3> QED
      BY <3>1, <3>4
  <2> HIDE DEF G
  <2>4. n - m \in G
    BY <2>1, <2>2, <2>3, OneAfterTheOther
  <2>5. 2^m <= 2^(m + (n - m)) /\ m + (n - m) = n
    BY <2>4 DEF G
  <2> QED
    BY <2>5
<1>2. ASSUME NEW n \in Nat PROVE n < 2^n
  <2> DEFINE G == {i \in 0..n : i < 2^i}
  <2>1. 0 \in G
    BY <1>z
  <2>2. ASSUME NEW i \in G, i # n PROVE i + 1 \in G
    <3>1. i \in Nat /\ i + 1 \in 0..n /\ i < 2^i
      BY <2>2
    <3>2. 2^i \in Nat /\ 2^(i + 1) = 2 * 2^i
      BY <1>0, <3>1
    <3>3. i + 1 < 2^(i + 1)
      BY <3>1, <3>2
    <3> QED
      BY <3>1, <3>3
  <2>3. G \in SUBSET (0..n)
    OBVIOUS
  <2> HIDE DEF G
  <2>4. n \in G
    BY <2>1, <2>2, <2>3, OneAfterTheOther
  <2> QED
    BY <2>4 DEF G
<1> QED
  BY <1>1, <1>2

\* The rounds that are announced are as many as it takes, and no more.
LEMMA TheWorstCase ==
  ASSUME NEW units \in Nat
  PROVE  RoundsInTheWorstCase(units) \in 0..units /\ 2^RoundsInTheWorstCase(units) >= units
<1> DEFINE J == {n \in 0..units : 2^n >= units}
<1>1. units \in J
  <2>1. units < 2^units /\ 2^units \in Nat
    BY PowersGrow, Powers
  <2> QED
    BY <2>1
<1>2. J \in SUBSET Nat
  OBVIOUS
<1>3. PICK w \in J : \A n \in J : w <= n
  <2> HIDE DEF J
  <2> QED
    BY <1>1, <1>2, Smallest
<1>4. w \in 0..units /\ 2^w >= units
  BY <1>3
<1>5. \A m \in 0..(w - 1) : 2^m < units
  <2> SUFFICES ASSUME NEW m \in 0..(w - 1) PROVE 2^m < units
    OBVIOUS
  <2>1. m \in 0..units /\ m \in Nat /\ ~(w <= m)
    BY <1>4
  <2>2. ~(2^m >= units)
    BY <1>3, <2>1
  <2>3. 2^m \in Nat
    BY <2>1, Powers
  <2> QED
    BY <2>2, <2>3
<1>6. \E n \in 0..units : 2^n >= units /\ \A m \in 0..(n - 1) : 2^m < units
  BY <1>4, <1>5
<1> QED
  BY <1>6 DEF RoundsInTheWorstCase

\* There are finitely many units.
LEMMA FinitelyManyUnits == IsFiniteSet(Unit)
<1> DEFINE X == (SUBSET Addon) \X Maybe(Addon)
           f == [x \in X |-> [addons |-> x[1], base |-> x[2]]]
<1>1. IsFiniteSet(Addon)
  BY BisectionAssumption
<1>2. IsFiniteSet(Addon \cup {None})
  BY <1>1, FS_AddElement
<1>3. IsFiniteSet(SUBSET Addon) /\ IsFiniteSet(Maybe(Addon))
  BY <1>1, <1>2, FS_SUBSET DEF Maybe
<1>4. IsFiniteSet(X)
  BY <1>3, FS_Product
<1>5. f \in [X -> Unit]
  BY DEF Unit
<1>6. \A u \in Unit : \E x \in X : f[x] = u
  <2> SUFFICES ASSUME NEW u \in Unit PROVE \E x \in X : f[x] = u
    OBVIOUS
  <2>1. u.addons \in SUBSET Addon /\ u.base \in Maybe(Addon) /\ u = [addons |-> u.addons, base |-> u.base]
    BY DEF Unit
  <2>2. <<u.addons, u.base>> \in X /\ f[<<u.addons, u.base>>] = [addons |-> u.addons, base |-> u.base]
    BY <2>1
  <2> QED
    BY <2>1, <2>2
<1> HIDE DEF f, X
<1>7. f \in Surjection(X, Unit)
  BY <1>5, <1>6 DEF Surjection
<1> QED
  BY <1>4, <1>7, FS_Surjection

\* Units with nothing in common, none of them empty, are told apart by their first.
ToldApart(S) ==
    /\ \A u \in S : u.addons # {}
    /\ \A u, v \in S : u = v \/ u.addons \cap v.addons = {}

\* Each unit has a first, and no two of them have the same.
LEMMA FirstsDiffer ==
  ASSUME NEW S \in SUBSET Unit, ToldApart(S)
  PROVE  /\ \A u \in S : First(u) \in Nat
         /\ \A u, v \in S : First(u) = First(v) => u = v
<1>1. ASSUME NEW u \in S PROVE First(u) \in u.addons /\ First(u) \in Nat
  <2>1. u.addons \in SUBSET Nat /\ u.addons # {}
    BY BisectionAssumption DEF Unit, ToldApart
  <2>2. PICK x \in u.addons : \A y \in u.addons : x <= y
    BY <2>1, Smallest
  <2>3. First(u) \in u.addons
    BY <2>2 DEF First
  <2> QED
    BY <2>1, <2>3
<1>2. ASSUME NEW u \in S, NEW v \in S, First(u) = First(v) PROVE u = v
  BY <1>1, <1>2 DEF ToldApart
<1> QED
  BY <1>1, <1>2

\* Half of the suspects, in the order of their firsts, are half as many.
LEMMA HalfOfIsHalf ==
  ASSUME NEW S \in SUBSET Unit, ToldApart(S)
  PROVE  /\ Cardinality(S) \in Nat
         /\ Cardinality(HalfOf(S)) = Cardinality(S) \div 2
         /\ Cardinality(S \ HalfOf(S)) = Cardinality(S) - Cardinality(S) \div 2
<1> DEFINE before(u) == {v \in S : First(v) < First(u)}
           c == Cardinality(S)
           k == c \div 2
           rank == [u \in S |-> Cardinality(before(u))]
           H == {u \in S : rank[u] < k}
<1>1. IsFiniteSet(S)
  BY FinitelyManyUnits, FS_Subset
<1>2. c \in Nat
  BY <1>1, FS_CardinalityType
<1>3. /\ \A u \in S : First(u) \in Nat
      /\ \A u, v \in S : First(u) = First(v) => u = v
  BY FirstsDiffer
<1>4. k \in Nat /\ k <= c
  BY <1>2
<1>5. HalfOf(S) = H
  BY DEF HalfOf
<1> HIDE DEF c, k
<1>6. ASSUME NEW u \in S
      PROVE  /\ IsFiniteSet(before(u)) /\ Cardinality(before(u)) \in Nat /\ u \notin before(u)
             /\ IsFiniteSet(before(u) \cup {u})
             /\ Cardinality(before(u) \cup {u}) = Cardinality(before(u)) + 1
             /\ Cardinality(before(u)) + 1 <= c
  <2>1. IsFiniteSet(before(u))
    BY <1>1, FS_Subset
  <2>2. Cardinality(before(u)) \in Nat
    BY <2>1, FS_CardinalityType
  <2>3. u \notin before(u)
    BY <1>3
  <2>4. before(u) \cup {u} \in SUBSET S
    OBVIOUS
  <2> HIDE DEF before
  <2>5. IsFiniteSet(before(u) \cup {u}) /\ Cardinality(before(u) \cup {u}) = Cardinality(before(u)) + 1
    BY <2>1, <2>3, FS_AddElement
  <2>6. Cardinality(before(u) \cup {u}) <= c
    BY <1>1, <2>4, FS_Subset DEF c
  <2> QED
    BY <2>1, <2>2, <2>3, <2>5, <2>6
<1>7. ASSUME NEW u \in S, NEW w \in S, First(u) < First(w) PROVE Cardinality(before(u)) < Cardinality(before(w))
  <2>1. before(u) \cup {u} \in SUBSET before(w)
    BY <1>3, <1>7
  <2>2. Cardinality(before(u) \cup {u}) <= Cardinality(before(w))
    <3> HIDE DEF before
    <3> QED
      BY <1>6, <2>1, FS_Subset
  <2> HIDE DEF before
  <2>3. Cardinality(before(u)) \in Nat /\ Cardinality(before(u) \cup {u}) = Cardinality(before(u)) + 1
    BY <1>6
  <2>4. Cardinality(before(w)) \in Nat
    BY <1>6
  <2> QED
    BY <2>2, <2>3, <2>4
<1>8. rank \in [S -> 0..(c - 1)] /\ \A u \in S : rank[u] = Cardinality(before(u))
  <2> HIDE DEF before
  <2>1. ASSUME NEW u \in S PROVE Cardinality(before(u)) \in 0..(c - 1)
    <3>1. Cardinality(before(u)) \in Nat /\ Cardinality(before(u)) + 1 <= c
      BY <1>6
    <3> QED
      BY <1>2, <3>1
  <2> QED
    BY <2>1
<1> HIDE DEF rank, before
<1>9. \A u, w \in S : rank[u] = rank[w] => u = w
  <2> SUFFICES ASSUME NEW u \in S, NEW w \in S, rank[u] = rank[w] PROVE u = w
    OBVIOUS
  <2>1. ~(First(u) < First(w)) /\ ~(First(w) < First(u))
    BY <1>6, <1>7, <1>8
  <2>2. First(u) = First(w)
    BY <1>3, <2>1
  <2> QED
    BY <1>3, <2>2
<1>10. rank \in Injection(S, 0..(c - 1))
  BY <1>8, <1>9 DEF Injection, IsInjective
<1>11. IsFiniteSet(0..(c - 1)) /\ Cardinality(0..(c - 1)) = c
  <2>1. 0 \in Int /\ c - 1 \in Int
    BY <1>2
  <2> QED
    BY <1>2, <2>1, FS_Interval
<1>12. rank \in Surjection(S, 0..(c - 1))
  BY <1>10, <1>11, FS_Injection DEF c
<1> DEFINE low == [u \in H |-> rank[u]]
<1>13. low \in Bijection(H, 0..(k - 1))
  <2>1. low \in [H -> 0..(k - 1)]
    <3>1. \A u \in H : rank[u] \in 0..(k - 1)
      BY <1>4, <1>8
    <3> QED
      BY <3>1
  <2>2. \A u, w \in H : low[u] = low[w] => u = w
    BY <1>9
  <2>3. ASSUME NEW i \in 0..(k - 1) PROVE \E u \in H : low[u] = i
    <3>1. i \in 0..(c - 1) /\ i < k
      BY <1>2, <1>4
    <3>2. PICK u \in S : rank[u] = i
      BY <1>12, <3>1 DEF Surjection
    <3> QED
      BY <3>1, <3>2
  <2> HIDE DEF low, H
  <2> QED
    BY <2>1, <2>2, <2>3 DEF Bijection, Injection, Surjection, IsInjective
<1>14. H \in SUBSET S
  OBVIOUS
<1> HIDE DEF H, low
<1>15. IsFiniteSet(H)
  BY <1>1, <1>14, FS_Subset
<1>16. Cardinality(0..(k - 1)) = k
  <2>1. 0 \in Int /\ k - 1 \in Int
    BY <1>4
  <2> QED
    BY <1>4, <2>1, FS_Interval
<1>17. Cardinality(H) = k
  <2>1. ExistsBijection(H, 0..(k - 1))
    BY <1>13 DEF ExistsBijection
  <2> QED
    BY <1>15, <1>16, <2>1, FS_Bijection
<1>18. Cardinality(S \ H) = c - k
  <2>1. S \cap H = H
    BY <1>14
  <2>2. Cardinality(S \ H) = Cardinality(S) - Cardinality(S \cap H)
    BY <1>1, FS_Difference
  <2> QED
    BY <1>17, <2>1, <2>2 DEF c
<1> QED
  BY <1>2, <1>5, <1>17, <1>18 DEF c, k

\* What is left after an answer is at most half of what was, rounded up, and not nothing.
LEMMA AnAnswerHalves ==
  ASSUME NEW S \in SUBSET Unit, ToldApart(S), Cardinality(S) # 1, S # {}, NEW kept \in {HalfOf(S), S \ HalfOf(S)}
  PROVE  /\ kept # {} /\ kept \in SUBSET S
         /\ Cardinality(S) \in Nat /\ Cardinality(kept) \in Nat
         /\ 2 * (Cardinality(kept) - 1) <= Cardinality(S) - 1
<1> DEFINE c == Cardinality(S)
           d == Cardinality(kept)
<1>1. IsFiniteSet(S)
  BY FinitelyManyUnits, FS_Subset
<1>2. c \in Nat /\ c # 0
  BY <1>1, FS_CardinalityType, FS_EmptySet
<1>3. kept \in SUBSET S
  BY HalfOfIsAPart
<1>4. c \in Nat /\ c >= 2
  BY <1>2
<1>5. d = c \div 2 \/ d = c - c \div 2
  BY HalfOfIsHalf
<1> HIDE DEF c, d
<1>6. d \in Nat /\ d # 0 /\ 2 * (d - 1) <= c - 1
  BY <1>4, <1>5
<1>7. kept # {}
  BY <1>6, FS_EmptySet DEF d
<1> QED
  BY <1>3, <1>4, <1>6, <1>7 DEF c, d

\* A first pass has units, and each round at least halved the suspects.
HalvedEachRound(run) ==
    /\ run.units # {}
    /\ run.round > 0 =>
         /\ run.suspects # {}
         /\ (Cardinality(run.suspects) - 1) * 2^(run.round - 1) < Cardinality(run.units)
RoundsInv == store # None /\ store.pass = "units" => HalvedEachRound(store)

\* What addons are on makes at least one unit, and none of them is asked about yet.
LEMMA ANewRunIsWhole ==
  ASSUME NEW seen \in Reading, Enabled(seen) # {}
  PROVE  HalvedEachRound(RunFor(seen))
<1>1. PICK a : a \in Enabled(seen)
  OBVIOUS
<1>2. Enabled(seen) \in SUBSET Addon
  BY DEF Enabled, Reading
<1>3. Addons(UnitsFrom(Enabled(seen))) = Enabled(seen)
  BY <1>2, UnitsAreTheClasses DEF AreTheCoupled
<1>4. UnitsFrom(Enabled(seen)) # {}
  BY <1>1, <1>3 DEF Addons
<1> QED
  BY <1>4 DEF RunFor, HalvedEachRound

\* An answer at least halves them once more.
LEMMA AnAnswerHalvesTheRun ==
  ASSUME NEW run \in Run, NEW crashed \in BOOLEAN, OutcomeOf(run) = "searching",
         Divided(run), ToldApart(run.units), HalvedEachRound(run)
  PROVE  HalvedEachRound(AfterAnswering(run, crashed))
<1> DEFINE next == AfterAnswering(run, crashed)
           N == Cardinality(run.units)
<1>0. /\ run.units \in SUBSET Unit /\ run.suspects \in SUBSET Unit /\ run.round \in Nat
      /\ run.suspects \in SUBSET run.units
  BY DEF Run, Divided
<1>1. IsFiniteSet(run.units) /\ N \in Nat
  <2>1. IsFiniteSet(run.units)
    BY <1>0, FinitelyManyUnits, FS_Subset
  <2> QED
    BY <2>1, FS_CardinalityType
<1>2. CASE run.round = 0
  <2>1. next = AfterTheReferenceRound(run, crashed)
    BY <1>2 DEF AfterAnswering
  <2>2. CASE crashed
    <3>1. next.units = run.units /\ next.round = 0
      BY <1>2, <2>1, <2>2 DEF AfterTheReferenceRound, Run
    <3> HIDE DEF next
    <3> QED
      BY <3>1 DEF HalvedEachRound, next
  <2>3. CASE ~crashed
    <3>1. next.units = run.units /\ next.round = 1 /\ next.suspects = run.units
      BY <2>1, <2>3 DEF AfterTheReferenceRound, Run
    <3>2. 2^(1 - 1) = 1 /\ (N - 1) * 1 < N
      BY <1>1
    <3>3. (N - 1) * 2^(1 - 1) < N
      BY <3>2
    <3> HIDE DEF next
    <3> QED
      BY <3>1, <3>3 DEF HalvedEachRound, next
  <2> QED
    BY <2>2, <2>3
<1>3. CASE run.round # 0
  <2> DEFINE S == run.suspects
             r == run.round
             kept == next.suspects
             c == Cardinality(S)
             d == Cardinality(kept)
             p == 2^(r - 1)
  <2>1. /\ next.units = run.units /\ next.round = r + 1
        /\ kept \in {HalfOf(S), S \ HalfOf(S)}
    BY <1>3 DEF AfterAnswering, Run
  <2>2. S # {} /\ (c - 1) * p < N
    BY <1>0, <1>3 DEF HalvedEachRound
  <2>3. Cardinality(S) # 1
    BY <1>3, Searching DEF OutcomeOf
  <2>4. ToldApart(S)
    BY <1>0 DEF ToldApart
  <2>5. /\ kept # {} /\ c \in Nat /\ d \in Nat
        /\ 2 * (d - 1) <= c - 1
    <3> HIDE DEF kept
    <3> QED
      BY <1>0, <2>1, <2>2, <2>3, <2>4, AnAnswerHalves
  <2>6. p \in Nat /\ 2^r = 2 * p
    <3>1. r - 1 \in Nat /\ (r - 1) + 1 = r
      BY <1>0, <1>3
    <3> QED
      BY <3>1, Powers
  <2>7. r \in Nat
    BY <1>0
  <2> HIDE DEF S, r, kept, c, d, p
  <2>8. (d - 1) * (2 * p) <= (c - 1) * p
    <3>1. \A x, y, q \in Int : q >= 0 /\ 2 * x <= y => x * (2 * q) <= y * q
      OBVIOUS
    <3> QED
      BY <2>5, <2>6, <3>1
  <2>9. (d - 1) * 2^r < N
    <3>1. (d - 1) * (2 * p) \in Int /\ (c - 1) * p \in Int
      BY <2>5, <2>6
    <3>2. (d - 1) * (2 * p) < N
      BY <1>1, <2>2, <2>8, <3>1
    <3> QED
      BY <2>6, <3>2
  <2>10. next.suspects = kept /\ next.units = run.units /\ next.round = r + 1 /\ next.units # {}
    BY <2>1 DEF kept, r, HalvedEachRound
  <2> HIDE DEF next, N
  <2>11. (Cardinality(next.suspects) - 1) * 2^(next.round - 1) < Cardinality(next.units)
    <3>1. Cardinality(next.suspects) = d
      BY <2>10 DEF d
    <3>2. next.round - 1 = r
      BY <2>7, <2>10
    <3>3. Cardinality(next.units) = N
      BY <2>10 DEF N
    <3> QED
      BY <2>9, <3>1, <3>2, <3>3
  <2> QED
    BY <2>5, <2>10, <2>11 DEF HalvedEachRound, next
<1> QED
  BY <1>2, <1>3

\* Units that nothing couples, none of them empty, are told apart by what they hold.
LEMMA TheUnitsAreToldApart ==
  ASSUME UnitsInv, store # None, store.pass = "units"
  PROVE  ToldApart(store.units)
  BY DEF UnitsInv, AreTheCoupled, ToldApart

\* Every step that stores a run of the first pass keeps it halved in each round.
LEMMA RoundsStep == IInv /\ UnitsInv /\ RoundsInv /\ [Next]_vars => RoundsInv'
<1> SUFFICES ASSUME IInv, UnitsInv, RoundsInv, [Next]_vars, store' # None, store'.pass = "units"
             PROVE  HalvedEachRound(store')
  BY DEF RoundsInv, HalvedEachRound
<1>1. CASE store' = store
  BY <1>1 DEF RoundsInv
<1>2. ASSUME NEW seen \in Reading, Enabled(seen) # {}, store' = RunFor(seen)
      PROVE HalvedEachRound(store')
  BY <1>2, ANewRunIsWhole
<1>3. ASSUME NEW crashed \in BOOLEAN, store \in Run, store # None, OutcomeOf(store) = "searching",
             store' = AfterAnswering(store, crashed)
      PROVE HalvedEachRound(store')
  <2>1. store.pass = "units"
    BY <1>3, WhatAnAnswerKeeps
  <2>2. Divided(store) /\ ToldApart(store.units) /\ HalvedEachRound(store)
    BY <1>3, <2>1, TheUnitsAreToldApart DEF IInv, StoredIsDivided, RoundsInv
  <2> QED
    BY <1>3, <2>2, AnAnswerHalvesTheRun
<1>4. CASE store # None /\ store' = IntoTheSecondPass(store)
  <2>1. store \in Run
    BY <1>4 DEF IInv, TypeOK, Maybe
  <2> QED
    BY <1>4, <2>1, WhatAnAnswerKeeps
<1> QED
  BY <1>1, <1>2, <1>3, <1>4, WhereARunComesFrom

\* A search of the first pass that goes on has halved its suspects in every round.
LEMMA EachRoundHalves == Spec => []RoundsInv
<1>1. Init => RoundsInv
  BY DEF Init, RoundsInv
<1> QED
  BY <1>1, RoundsStep, Inductive, TheUnitsAreKept, PTL DEF Spec

\* However many units there are, the search of the first pass ends within the
\* rounds that were announced, and every answer leaves a suspect.
THEOREM TheAnnouncedRoundsSuffice == Spec => []TheAnnouncedRoundsAreEnough
<1>1. IInv /\ RoundsInv => TheAnnouncedRoundsAreEnough
  <2> SUFFICES ASSUME IInv, HalvedEachRound(store), store # None, store.pass = "units", OutcomeOf(store) = "searching"
               PROVE  /\ store.round <= RoundsInTheWorstCase(Cardinality(store.units))
                      /\ store.round > 0 => store.suspects # {}
    BY DEF RoundsInv, TheAnnouncedRoundsAreEnough
  <2> DEFINE N == Cardinality(store.units)
             W == RoundsInTheWorstCase(N)
             c == Cardinality(store.suspects)
             r == store.round
  <2>1. store \in Run
    BY DEF IInv, TypeOK, Maybe
  <2>2. r \in Nat /\ store.units \in SUBSET Unit /\ store.suspects \in SUBSET Unit
    BY <2>1 DEF Run
  <2>3. IsFiniteSet(store.units) /\ IsFiniteSet(store.suspects)
    BY <2>2, FinitelyManyUnits, FS_Subset
  <2>4. N \in Nat /\ c \in Nat
    BY <2>3, FS_CardinalityType
  <2>5. W \in Nat /\ 2^W \in Nat /\ 2^W >= N
    <3> HIDE DEF N
    <3>1. W \in 0..N /\ 2^W >= N
      BY <2>4, TheWorstCase
    <3> HIDE DEF W
    <3>2. W \in Nat
      BY <2>4, <3>1
    <3> QED
      BY <3>1, <3>2, Powers
  <2>6. store.round > 0 => store.suspects # {}
    BY DEF HalvedEachRound
  <2>7. ASSUME r > W PROVE FALSE
    <3>1. r > 0 /\ r - 1 \in Nat /\ W <= r - 1
      BY <2>2, <2>5, <2>7
    <3>2. (c - 1) * 2^(r - 1) < N /\ store.suspects # {}
      BY <3>1 DEF HalvedEachRound
    <3>3. c # 1
      BY <2>1, <3>1, Searching DEF OutcomeOf
    <3>4. c # 0
      BY <2>3, <3>2, FS_EmptySet
    <3>5. 2^(r - 1) \in Nat /\ 2^W <= 2^(r - 1)
      BY <2>5, <3>1, Powers, PowersGrow
    <3> DEFINE p == 2^(r - 1)
               q == 2^W
    <3> HIDE DEF c, N, W, p, q
    <3>6. (c - 1) * p >= p
      <4>1. \A x, y \in Nat : x >= 1 => x * y >= y
        OBVIOUS
      <4>2. c - 1 \in Nat /\ c - 1 >= 1 /\ p \in Nat
        BY <2>4, <3>3, <3>4, <3>5 DEF p
      <4> QED
        BY <4>1, <4>2
    <3>7. (c - 1) * p < N /\ q <= p /\ q >= N /\ q \in Nat /\ p \in Nat
      BY <2>5, <3>2, <3>5 DEF p, q
    <3>8. (c - 1) * p \in Int
      BY <2>4, <3>7
    <3> QED
      BY <2>4, <3>6, <3>7, <3>8
  <2>8. r <= W
    BY <2>2, <2>5, <2>7
  <2> QED
    BY <2>6, <2>8
<1> QED
  BY <1>1, Inductive, EachRoundHalves, PTL
=============================================================================
