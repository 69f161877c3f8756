------------------------------- MODULE Startup -------------------------------
(***************************************************************************)
(* What starts with the simulator: the entries of its EXE.xml, the file that *)
(* keeps those the user removed, the undo of the last gesture, and the       *)
(* presets that name entries (StartupEditor, ExeXmlStartupEntries,           *)
(* RemovedStartupEntriesFile, and the startup half of PresetService).        *)
(*                                                                         *)
(* The user's gestures run on the main thread and a preset is applied on     *)
(* another; each change of the file reads it, keeps what it takes out, then   *)
(* writes, and only the lock of Apply keeps the two apart.  Other programs    *)
(* write the same file without that lock.  A refusal of a running simulator   *)
(* or of an unmanaged file changes nothing and is left out, but for a preset,  *)
(* the other steps of which go on.                                           *)
(***************************************************************************)
EXTENDS SequencesExt

CONSTANTS
    Profile,     \* each for a simulator of its own
    FirstProfile, \* the one in use at first
    Path,        \* programs an entry may launch
    Text,        \* what else an entry says: its name and command line
    None,
    SomeStarts,  \* files, keepings and presets to start from
    TheirEntries, \* entries another program may add
    MaxGestures, \* bound: what the user does
    MaxForeign,  \* bound: what other programs write
    MaxMishaps   \* bound: writes that fail, and crashes

ASSUME StartupAssumption ==
    /\ MaxGestures \in Nat /\ MaxForeign \in Nat /\ MaxMishaps \in Nat
    /\ None \notin Profile \cup Path \cup Text \cup {"enable", "disable"}

VARIABLES
    file,     \* the entries of each profile's EXE.xml, in order
    keeping,  \* the entries kept for each profile, the oldest first
    preset,   \* what a preset of each profile asks of the startup entries
    back,     \* what the return preset of each profile asks of them
    profile,  \* the profile shown
    inUse,    \* the profile whose file ExeXmlStartupEntries uses
    undo,     \* what the undo would take back
    doing,    \* the change each thread has in hand
    worker,   \* the preset being applied
    away,     \* ghost: what was on in each file when its return preset was recorded
    owed,     \* ghost: the newest entry the program took out of each path
    gone,     \* ghost: paths a preset names in vain: never there, taken out, or moved without it
    gestures, foreign, mishaps

disk == <<file, keeping, preset, back>>
ghosts == <<away, owed, gone>>
bounds == <<gestures, foreign, mishaps>>
vars == <<disk, profile, inUse, undo, doing, worker, ghosts, bounds>>

Maybe(S) == S \cup {None}
Thread == {"user", "preset"}
Entry == [path : Path, text : Text, on : BOOLEAN]
Kept == [path : Path, text : Text, on : BOOLEAN, next : Maybe(Path)]
Wish == [Path -> Maybe({"enable", "disable"})]
Change == [kind : {"switch", "add", "remove", "edit", "restore"},
           path : Path, to : Path, text : Maybe(Text), on : BOOLEAN]
\* A change a thread has in hand: what it read, and the document it makes of it.
InHand == [change : Change, purpose : {"gesture", "undo", "preset"}, at : Profile, written : BOOLEAN, stale : BOOLEAN,
           read : Seq(Entry), kept : Seq(Kept), doc : Seq(Entry)]
\* The last gesture; with what was before and after it, which the code does not remember.
ToUndo == [profile : Profile, effect : {"remove", "restore", "edit"}, path : Path,
           was : Maybe([path : Path, text : Text]), quiet : BOOLEAN, before : Seq(Path \X Text),
           after : Seq(Path \X Text), keptBefore : Seq(Kept), keptAfter : Seq(Kept)]
\* A preset that is being applied; to record is to save the return preset first.
Applying == [profile : Profile, wish : Wish, mode : {"replace", "cumulative", "disable"},
             at : {"plan", "record", "switch"}, records : BOOLEAN, off : SUBSET Path, on : SUBSET Path]
ASSUME NoneIsNeither == None \notin InHand \cup ToUndo \cup Applying

(* One document. *)

PositionOf(p, doc) == SelectInSeq(doc, LAMBDA e : e.path = p)
Has(doc, p) == PositionOf(p, doc) # 0
NewestAt(p, kept) == SelectLastInSeq(kept, LAMBDA e : e.path = p)

\* RemovedStartupEntriesFile::Drop.
Dropped(kept, p) == LET i == NewestAt(p, kept) IN IF i = 0 THEN kept ELSE RemoveAt(kept, i)

Plain(e) == [path |-> e.path, text |-> e.text, on |-> e.on]

\* TakenFrom: the entry and the one it stood before.
TakenFrom(doc, p) ==
    LET i == PositionOf(p, doc)
        e == doc[i]
    IN [path |-> e.path, text |-> e.text, on |-> e.on,
        next |-> IF i < Len(doc) THEN doc[i + 1].path ELSE None]

\* Whether Rewritten refuses the change.
Refuses(doc, kept, c) ==
    CASE c.kind = "add"     -> Has(doc, c.path)
      [] c.kind = "restore" -> NewestAt(c.path, kept) = 0 \/ Has(doc, c.path)
      [] c.kind = "edit"    -> ~Has(doc, c.path) \/ (c.to # c.path /\ Has(doc, c.to))
      [] OTHER              -> ~Has(doc, c.path)

\* Mutant: a restored entry always comes last.
RestoredAtTheEnd(doc, e) == Append(doc, Plain(e))
\* WithStartupEntryRestored: before the entry it stood before, if that is still there.
Restored(doc, e) ==
    IF e.next # None /\ Has(doc, e.next) THEN InsertAt(doc, PositionOf(e.next, doc), Plain(e))
                                         ELSE Append(doc, Plain(e))

\* WithStartupEntrySwitched, ...Added, ...Removed, ...Edited.
Rewritten(doc, kept, c) ==
    LET i == PositionOf(c.path, doc)
    IN  CASE c.kind = "switch"  -> [doc EXCEPT ![i].on = c.on]
          [] c.kind = "add"     -> Append(doc, [path |-> c.path, text |-> c.text, on |-> TRUE])
          [] c.kind = "remove"  -> RemoveAt(doc, i)
          [] c.kind = "edit"    -> [doc EXCEPT ![i].path = c.to, ![i].text = c.text]
          [] c.kind = "restore" -> Restored(doc, kept[NewestAt(c.path, kept)])

\* The shape leaves out the switches: no undo touches them.
Shape(doc) == [i \in DOMAIN doc |-> <<doc[i].path, doc[i].text>>]

Moves(c) == c.kind = "edit" /\ c.to # c.path
\* Mutant: an edit that moves the entry keeps nothing.
TakesWhatIsRemoved(c) == c.kind = "remove"
\* changed.taken.
Takes(c) == c.kind = "remove" \/ Moves(c)

SwitchOf(p, on) == [kind |-> "switch", path |-> p, to |-> p, text |-> None, on |-> on]
AddOf(p, t) == [kind |-> "add", path |-> p, to |-> p, text |-> t, on |-> TRUE]
RemoveOf(p) == [kind |-> "remove", path |-> p, to |-> p, text |-> None, on |-> FALSE]
EditOf(p, q, t) == [kind |-> "edit", path |-> p, to |-> q, text |-> t, on |-> FALSE]
RestoreOf(p) == [kind |-> "restore", path |-> p, to |-> p, text |-> None, on |-> FALSE]

EachPathOnce(shape) == \A i, j \in DOMAIN shape : i # j => shape[i][1] # shape[j][1]

(* The presets. *)

\* Mutant: a preset that names the target already is left as it is.
RetargetedUnlessNamed(wish, from, to) ==
    IF from = to \/ wish[from] = None \/ wish[to] # None THEN wish
    ELSE [wish EXCEPT ![to] = wish[from], ![from] = None]
\* Retargeted: a preset that names the target already only lets go of the old path.
Retargeted(wish, from, to) ==
    IF from = to \/ wish[from] = None THEN wish
    ELSE [wish EXCEPT ![to] = IF @ = None THEN wish[from] ELSE @, ![from] = None]

\* Mutant: what the preset does not name is left on.
PlanOfWhatIsNamed(wish, mode, doc) ==
    LET first(p) == doc[PositionOf(p, doc)]
        named(p) == Has(doc, p) /\ wish[p] # None /\ (mode = "disable" => wish[p] = "enable")
        wanted(p) == wish[p] = "enable" /\ mode # "disable"
    IN [off |-> {p \in Path : named(p) /\ first(p).on /\ ~wanted(p)},
        on  |-> {p \in Path : named(p) /\ ~first(p).on /\ wanted(p)}]
\* PlanPresetStartup: the paths to turn off and those to turn on.  A path that is
\* in the file twice is looked at where it comes first, but for what is not named.
PlanOf(wish, mode, doc) ==
    LET first(p) == doc[PositionOf(p, doc)]
        named(p) == Has(doc, p) /\ wish[p] # None /\ (mode = "disable" => wish[p] = "enable")
        wanted(p) == wish[p] = "enable" /\ mode # "disable"
        unnamed(p) == mode = "replace" /\ wish[p] = None /\ \E e \in ToSet(doc) : e.path = p /\ e.on
    IN [off |-> {p \in Path : unnamed(p) \/ (named(p) /\ first(p).on /\ ~wanted(p))},
        on  |-> {p \in Path : named(p) /\ ~first(p).on /\ wanted(p)}]

\* WhatIsOnRightNow.
WhatIsOn(doc) == [p \in Path |-> IF \E e \in ToSet(doc) : e.path = p /\ e.on THEN "enable" ELSE None]

(* The start. *)

ASSUME StartsAssumption ==
    /\ FirstProfile \in Profile /\ TheirEntries \subseteq Entry
    /\ \A s \in SomeStarts :
         /\ s.file \in [Profile -> Seq(Entry)] /\ s.keeping \in [Profile -> Seq(Kept)]
         /\ s.preset \in [Profile -> Wish]

Init == /\ \E s \in SomeStarts : file = s.file /\ keeping = s.keeping /\ preset = s.preset
        /\ back = [p \in Profile |-> None]
        /\ profile = FirstProfile
        /\ inUse = profile
        /\ undo = None
        /\ doing = [t \in Thread |-> None]
        /\ worker = None
        /\ away = [p \in Profile |-> None]
        /\ owed = {}
        /\ gone = {n \in Profile \X Path : preset[n[1]][n[2]] # None /\ ~Has(file[n[1]], n[2])}
        /\ gestures = 0 /\ foreign = 0 /\ mishaps = 0

(* ExeXmlStartupEntries::Apply, one change of the file at a time. *)

\* Mutant: only the thread's own changes wait for each other.
TheUserIsFree == doing["user"] = None
\* The lock of Apply.
TheFileIsFree == \A t \in Thread : doing[t] = None

\* Begin reads the file and keeps what the change takes out of it; None is left in
\* hand when that refuses or changes nothing.
Begin(t, c, purpose) ==
    /\ TheFileIsFree
    /\ ~Refuses(file[inUse], keeping[inUse], c)
    /\ Rewritten(file[inUse], keeping[inUse], c) # file[inUse]
    /\ doing' = [doing EXCEPT ![t] =
                   [change |-> c, purpose |-> purpose, at |-> inUse, written |-> FALSE, stale |-> FALSE,
                    read |-> file[inUse], kept |-> keeping[inUse],
                    doc |-> Rewritten(file[inUse], keeping[inUse], c)]]
    /\ keeping' = IF Takes(c) THEN [keeping EXCEPT ![inUse] = Append(@, TakenFrom(file[inUse], c.path))]
                              ELSE keeping

\* Whether the change does nothing to what is on the disk.
DoesNothing(c) ==
    \/ Refuses(file[inUse], keeping[inUse], c)
    \/ Rewritten(file[inUse], keeping[inUse], c) = file[inUse]

EntryAt(doc, p) == LET e == doc[PositionOf(p, doc)] IN [path |-> e.path, text |-> e.text]

\* Ghost: what is owed once d is written.
OwedAfter(d) ==
    LET out == IF d.change.kind = "remove" \/ Moves(d.change)
               THEN {[profile |-> d.at, path |-> d.change.path, text |-> EntryAt(d.read, d.change.path).text]}
               ELSE {}
    IN {o \in owed \cup out :
          /\ \A n \in out : o.profile = n.profile /\ o.path = n.path => o = n
          /\ ~(o.profile = d.at /\ <<o.path, o.text>> \in ToSet(Shape(d.doc)))}

\* WriteFileReplacing: the whole document takes the file's place.
WriteTheFile(t) ==
    /\ doing[t] # None /\ ~doing[t].written
    /\ file' = [file EXCEPT ![doing[t].at] = doing[t].doc]
    /\ owed' = OwedAfter(doing[t])
    /\ gone' = IF doing[t].change.kind = "remove" THEN gone \cup {<<doing[t].at, doing[t].change.path>>} ELSE gone
    /\ doing' = [doing EXCEPT ![t] = IF t = "preset" THEN None ELSE [@ EXCEPT !.written = TRUE]]
    /\ away' = IF t = "user" THEN [away EXCEPT ![doing[t].at] = None] ELSE away
    /\ UNCHANGED <<keeping, preset, back, profile, inUse, undo, worker, bounds>>

\* The keeping was written and the backup or the file could not be.
TheWriteFails(t) ==
    /\ doing[t] # None /\ ~doing[t].written /\ mishaps < MaxMishaps
    /\ doing' = [doing EXCEPT ![t] = None]
    /\ mishaps' = mishaps + 1
    /\ away' = [away EXCEPT ![doing[t].at] = None]
    /\ UNCHANGED <<disk, profile, inUse, undo, worker, owed, gone, gestures, foreign>>

(* The user's gestures. *)

\* ForgetWhatBelongsToOtherProfilesThan.
UndoOf(p) == IF undo # None /\ undo.profile # p THEN None ELSE undo

\* The user sees the file of the profile shown.
MayGesture ==
    /\ inUse = profile /\ TheFileIsFree /\ gestures < MaxGestures
    /\ gestures' = gestures + 1

\* Add, Edit, Remove and Restore.
Gesture ==
    /\ MayGesture
    /\ \E p, q \in Path, x \in Text :
         \E c \in {AddOf(p, x), EditOf(p, q, x), RemoveOf(p), RestoreOf(p)} : Begin("user", c, "gesture")
    /\ undo' = UndoOf(profile)
    /\ UNCHANGED <<file, preset, back, profile, inUse, worker, ghosts, foreign, mishaps>>

\* Switch leaves the undo alone.
Switch ==
    /\ MayGesture
    /\ \E p \in Path, on \in BOOLEAN : Begin("user", SwitchOf(p, on), "gesture")
    /\ UNCHANGED <<disk, profile, inUse, undo, worker, ghosts, foreign, mishaps>>

\* Forget: the line of a kept entry is shown while its path is not in the file.
\* ForgetTheUndoThatRestores.
WithoutTheUndoThatRestores(u, p) == IF u # None /\ u.effect = "restore" /\ u.path = p THEN None ELSE u

Forget(p) ==
    /\ MayGesture
    /\ NewestAt(p, keeping[inUse]) # 0 /\ ~Has(file[inUse], p)
    /\ LET e == keeping[inUse][NewestAt(p, keeping[inUse])]
       IN owed' = owed \ {[profile |-> inUse, path |-> p, text |-> e.text]}
    /\ keeping' = [keeping EXCEPT ![inUse] = Dropped(@, p)]
    /\ undo' = WithoutTheUndoThatRestores(UndoOf(profile), p)
    /\ UNCHANGED <<file, preset, back, profile, inUse, doing, worker, away, gone, foreign, mishaps>>

\* The change that takes the last gesture back.
OppositeOf(u) ==
    CASE u.effect = "remove"  -> RemoveOf(u.path)
      [] u.effect = "restore" -> RestoreOf(u.path)
      [] u.effect = "edit"    -> EditOf(u.path, u.was.path, u.was.text)

Undo ==
    /\ MayGesture
    /\ undo # None /\ undo.profile = profile
    /\ Begin("user", OppositeOf(undo), "undo")
    /\ UNCHANGED <<file, preset, back, profile, inUse, undo, worker, ghosts, foreign, mishaps>>

\* NeverChangesItsMind, or nothing is left to take back.
UndoNothing ==
    /\ MayGesture
    /\ undo # None /\ undo.profile = profile
    /\ DoesNothing(OppositeOf(undo))
    /\ undo' = None
    /\ UNCHANGED <<disk, profile, inUse, doing, worker, ghosts, foreign, mishaps>>

\* Remember.
Remembered(d, effect, path, was) ==
    [profile |-> profile, effect |-> effect, path |-> path, was |-> was, quiet |-> ~d.stale,
     before |-> Shape(d.read), after |-> Shape(d.doc), keptBefore |-> d.kept, keptAfter |-> keeping[d.at]]

\* What a change that has been written leaves to undo.
UndoAfter(d) ==
    LET c == d.change
    IN  IF d.purpose = "undo" THEN None ELSE
        CASE c.kind = "switch"  -> undo
          [] c.kind = "add"     -> Remembered(d, "remove", c.path, None)
          [] c.kind = "edit"    -> Remembered(d, "edit", c.to, EntryAt(d.read, c.path))
          [] c.kind = "remove"  -> IF Has(file[d.at], c.path) THEN None
                                   ELSE Remembered(d, "restore", c.path, None)
          [] c.kind = "restore" -> WithoutTheUndoThatRestores(undo, c.path)

\* ForgetTheVersionTheUndoReplaced and ForgetWhatTheEditKeptAtTheOldPath, and the
\* Drop of a Restoring.
KeepingAfter(d) ==
    LET c == d.change
    IN  CASE c.kind = "restore" -> Dropped(keeping[d.at], c.path)
          [] d.purpose = "undo" /\ Moves(c) -> Dropped(Dropped(keeping[d.at], c.path), c.to)
          [] OTHER -> keeping[d.at]

\* FollowInThePresets: each preset that can be written.
FollowInThePresets(c, follows, theReturnFollows) ==
    /\ preset' = IF follows /\ Moves(c) THEN [preset EXCEPT ![profile] = Retargeted(@, c.path, c.to)] ELSE preset
    /\ back' = IF theReturnFollows /\ Moves(c) /\ back[profile] # None
               THEN [back EXCEPT ![profile] = Retargeted(@, c.path, c.to)] ELSE back

\* The writes that fail when a change is settled, each a mishap.
HowManyFailed(follows, theReturnFollows, drops) ==
    Cardinality({w \in {<<"preset", follows>>, <<"return", theReturnFollows>>, <<"keeping", drops>>} : ~w[2]})

\* What follows a change of the user's that has been written.
Settle ==
    /\ doing["user"] # None /\ doing["user"].written
    /\ LET d == doing["user"]
       IN  \E follows, theReturnFollows, drops \in BOOLEAN :
             /\ mishaps' = mishaps + HowManyFailed(follows, theReturnFollows, drops)
             /\ mishaps' <= MaxMishaps
             /\ ~follows \/ ~theReturnFollows => Moves(d.change)
             /\ ~drops => KeepingAfter(d) # keeping[d.at]
             /\ FollowInThePresets(d.change, follows, theReturnFollows)
             /\ keeping' = IF drops THEN [keeping EXCEPT ![d.at] = KeepingAfter(d)] ELSE keeping
             /\ undo' = UndoAfter(d)
             /\ owed' = IF d.purpose = "undo" /\ Moves(d.change) /\ drops
                        THEN {o \in owed : ~(o.profile = d.at /\ o.path = d.change.path)} ELSE owed
             /\ gone' = IF ~follows /\ Moves(d.change) THEN gone \cup {<<d.at, d.change.path>>} ELSE gone
    /\ doing' = [doing EXCEPT !["user"] = None]
    /\ away' = [away EXCEPT ![doing["user"].at] = None]
    /\ UNCHANGED <<file, profile, inUse, worker, gestures, foreign>>

(* Applying a preset. *)

WhatRuns(doc) == {e.path : e \in {x \in ToSet(doc) : x.on}}

\* Apply and ApplyTheReturn: the preset is taken as it is then.
StartToApply ==
    /\ MayGesture /\ worker = None
    /\ \/ \E mode \in {"replace", "cumulative", "disable"} :
            worker' = [profile |-> profile, wish |-> preset[profile], mode |-> mode,
                       at |-> "plan", records |-> TRUE, off |-> {}, on |-> {}]
       \/ /\ back[profile] # None
          /\ worker' = [profile |-> profile, wish |-> back[profile], mode |-> "replace",
                        at |-> "plan", records |-> FALSE, off |-> {}, on |-> {}]
    /\ UNCHANGED <<disk, profile, inUse, undo, doing, ghosts, foreign, mishaps>>

\* The reads take no lock.
PlanTheSwitches ==
    /\ worker # None /\ worker.at = "plan"
    /\ LET plan == PlanOf(worker.wish, worker.mode, file[inUse])
       IN worker' = [worker EXCEPT !.at = IF worker.records THEN "record" ELSE "switch",
                                   !.off = plan.off, !.on = plan.on]
    /\ UNCHANGED <<disk, profile, inUse, undo, doing, ghosts, bounds>>

\* WhatIsOnRightNow reads the file once more.
RecordTheReturn ==
    /\ worker # None /\ worker.at = "record"
    /\ back' = [back EXCEPT ![worker.profile] = WhatIsOn(file[inUse])]
    /\ away' = [away EXCEPT ![worker.profile] = IF inUse = worker.profile THEN WhatRuns(file[inUse]) ELSE None]
    /\ worker' = [worker EXCEPT !.at = "switch"]
    /\ UNCHANGED <<file, keeping, preset, profile, inUse, undo, doing, owed, gone, bounds>>

\* TheReturnPresetCouldNotBeWritten.
RefuseToApply ==
    /\ worker # None /\ worker.at = "record" /\ mishaps < MaxMishaps
    /\ worker' = None
    /\ mishaps' = mishaps + 1
    /\ UNCHANGED <<disk, profile, inUse, undo, doing, ghosts, gestures, foreign>>

\* RunTheStartupStep: on the file in use by then.
RunASwitch ==
    /\ worker # None /\ worker.at = "switch" /\ TheFileIsFree
    /\ \E p \in worker.off \cup worker.on :
         /\ worker.off # {} => p \in worker.off
         /\ worker' = [worker EXCEPT !.off = @ \ {p}, !.on = IF p \in worker.off THEN @ ELSE @ \ {p}]
         /\ LET c == SwitchOf(p, p \notin worker.off)
            IN \/ Begin("preset", c, "preset")
               \/ DoesNothing(c) /\ UNCHANGED <<keeping, doing>>
    /\ away' = IF inUse = worker.profile THEN away ELSE [p \in Profile |-> None]
    /\ UNCHANGED <<file, preset, back, profile, inUse, undo, owed, gone, bounds>>

EndTheApply ==
    /\ worker # None /\ worker.at = "switch" /\ worker.off \cup worker.on = {} /\ doing["preset"] = None
    /\ worker' = None
    /\ UNCHANGED <<disk, profile, inUse, undo, doing, ghosts, bounds>>

(* Around them. *)

\* Session adopts the scan of a profile the user chose.
ShowProfile(p) ==
    /\ doing["user"] = None /\ gestures < MaxGestures /\ p # profile
    /\ profile' = p
    /\ gestures' = gestures + 1
    /\ away' = IF worker = None THEN away ELSE [away EXCEPT ![worker.profile] = None]
    /\ UNCHANGED <<disk, inUse, undo, doing, worker, owed, gone, foreign, mishaps>>

\* The timer that follows ScanFinished: ExeXmlStartupEntries::Use and KeepRemovedEntriesIn.
UseItsFile ==
    /\ doing["user"] = None /\ inUse # profile
    /\ inUse' = profile
    /\ UNCHANGED <<disk, profile, undo, doing, worker, ghosts, bounds>>

\* Another program adds an entry or removes one, here in the file in use.
ForeignWrite(p) ==
    /\ p = inUse /\ foreign < MaxForeign
    /\ \/ \E e \in TheirEntries :
            /\ file' = [file EXCEPT ![p] = Append(@, e)]
            /\ gone' = gone
       \/ \E i \in DOMAIN file[p] :
            /\ file' = [file EXCEPT ![p] = RemoveAt(@, i)]
            /\ gone' = gone \cup {<<p, file[p][i].path>>}
    /\ foreign' = foreign + 1
    /\ undo' = IF undo # None /\ undo.profile = p THEN [undo EXCEPT !.quiet = FALSE] ELSE undo
    /\ doing' = [t \in Thread |-> IF doing[t] # None /\ doing[t].at = p
                                  THEN [doing[t] EXCEPT !.stale = TRUE] ELSE doing[t]]
    /\ away' = [away EXCEPT ![p] = None]
    /\ UNCHANGED <<keeping, preset, back, profile, inUse, worker, owed, gestures, mishaps>>

\* The process dies and is started again: only what is on the disk is left.
Crash ==
    /\ mishaps < MaxMishaps
    /\ mishaps' = mishaps + 1
    /\ doing' = [t \in Thread |-> None]
    /\ worker' = None
    /\ undo' = None
    /\ inUse' = profile
    /\ gone' = IF doing["user"] # None /\ doing["user"].written
               THEN gone \cup {<<doing["user"].at, doing["user"].change.path>>} ELSE gone
    /\ away' = [p \in Profile |-> None]
    /\ UNCHANGED <<disk, profile, owed, gestures, foreign>>

Next ==
    \/ Gesture \/ Switch \/ Undo \/ UndoNothing \/ Settle
    \/ \E p \in Path : Forget(p)
    \/ \E t \in Thread : WriteTheFile(t) \/ TheWriteFails(t)
    \/ StartToApply \/ PlanTheSwitches \/ RecordTheReturn \/ RefuseToApply \/ RunASwitch \/ EndTheApply
    \/ \E p \in Profile : ShowProfile(p) \/ ForeignWrite(p)
    \/ UseItsFile \/ Crash

Spec == Init /\ [][Next]_vars

(* Properties. *)

EntryOwed == [profile : Profile, path : Path, text : Text]

\* Every variable holds a value of its kind and a preset is applied on one thread.
TypeOK ==
    /\ \A p \in Profile : ToSet(file[p]) \subseteq Entry /\ ToSet(keeping[p]) \subseteq Kept
    /\ preset \in [Profile -> Wish] /\ back \in [Profile -> Maybe(Wish)]
    /\ profile \in Profile /\ inUse \in Profile
    /\ undo \in Maybe(ToUndo) /\ doing \in [Thread -> Maybe(InHand)]
    /\ worker \in Maybe(Applying) /\ (worker # None => worker.off \cap worker.on = {})
    /\ doing["preset"] # None => worker # None /\ doing["user"] = None
    /\ owed \subseteq EntryOwed /\ gone \subseteq Profile \X Path

\* The newest entry the program took out of a path is kept until it is back in the
\* file or the user gives it up, whatever fails or crashes (Apply, Keep, Drop, Undo).
NothingIsLost ==
    \A o \in owed : \E e \in ToSet(keeping[o.profile]) : e.path = o.path /\ e.text = o.text

\* An undo of a gesture after which nothing else changed the file, so that it reads what
\* the gesture left, leaves the file as it was before the gesture, each entry in its place
\* unless a path was there twice; and one of an edit or a removal leaves no trace of itself
\* or of the gesture among the removed ones (StartupEditor::Undo).
UndoTakesTheGestureBack ==
    [][LET d == doing["user"]
       IN  d # None /\ d.purpose = "undo" /\ d.written /\ doing'["user"] = None /\ mishaps' = mishaps
           /\ undo.quiet /\ ~d.stale
           => /\ Shape(d.read) = undo.after /\ EachPathOnce(undo.before) => Shape(file'[d.at]) = undo.before
              /\ undo.effect # "remove" /\ d.kept = undo.keptAfter => keeping'[d.at] = undo.keptBefore]_vars

\* What a thread writes is the file as it is but for the entry the change is of,
\* when no other program wrote it since it was read (Apply, applying_).
TheRestOfTheFileStays ==
    [][\A t \in Thread :
         doing[t] # None /\ ~doing[t].written /\ ~doing[t].stale /\ doing'[t] # doing[t]
         /\ file' # file /\ foreign' = foreign
         => file'[doing[t].at] = Rewritten(file[doing[t].at], doing[t].kept, doing[t].change)]_vars

\* A path the presets of a profile name is in its file, unless it was not there at first or
\* was removed, or the preset could not be written when its entry moved (FollowInThePresets).
NoPresetIsLeftBehind ==
    \A p \in Profile, x \in Path :
      preset[p][x] # None =>
        \/ Has(file[p], x)
        \/ <<p, x>> \in gone
        \/ doing["user"] # None /\ doing["user"].written /\ doing["user"].at = p /\ doing["user"].change.path = x

\* When a return preset has been applied and nothing else happened since it was
\* recorded, what starts with the simulator is what did then, unless a path is in the file
\* twice (WhatIsOnRightNow, PlanPresetStartup).
TheReturnIsTheWayBack ==
    \A p \in Profile :
      /\ worker # None /\ worker.profile = p /\ ~worker.records /\ worker.at = "switch"
      /\ worker.off \cup worker.on = {} /\ doing["preset"] = None
      /\ away[p] # None /\ EachPathOnce(Shape(file[p]))
      => WhatRuns(file[p]) = away[p]
=============================================================================
