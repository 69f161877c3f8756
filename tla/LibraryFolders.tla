--------------------------- MODULE LibraryFolders ---------------------------
(***************************************************************************)
(* Deleting addons of the libraries and moving them between categories      *)
(* (DeletionService.cpp, DeletionViewModel.cpp, LibraryOrganizer.cpp,        *)
(* Session.cpp), while batches of links run on other threads.               *)
(*                                                                         *)
(* Both take the links to a folder down themselves, one by one and outside   *)
(* the lock of the batches, on what they read of the disk when they began.   *)
(***************************************************************************)
EXTENDS Linking
CONSTANT
    Category   \* the paths one addon may have in its library
ASSUME FoldersAssumption ==
    Category \subseteq SUBSET Addon /\ \A c, d \in Category : c = d \/ c \cap d = {}

VARIABLES
    deleting,  \* the deletion that runs
    moving     \* the move that runs, with the runner of the tree

folderVars == <<deleting, moving>>

\* The addons left to delete, with the links left of each.
Deletion == [left : Seq(Addon), seen : UNION {[A -> SUBSET Place] : A \in SUBSET Addon},
             deleted : SUBSET Addon, alone : BOOLEAN]
Move == [at : {"unlink", "move", "relink", "adopt"}, from : Addon, to : Addon, profile : Profile,
         plan : Place, links : SUBSET Place, enabled : BOOLEAN,
         result : {"none", "completed", "noLink", "refused"}, alone : BOOLEAN]
ASSUME NoneIsNoErrand == None \notin Deletion \cup Move

FoldersInit == Init /\ deleting = None /\ moving = None

\* A batch, another program or an edit of the profile changed what the other side had read.
Crossed(w) == IF w # None THEN [w EXCEPT !.alone = FALSE] ELSE None

\* Every action of a deletion or a move of the addons that touches the disk.
Touches(places) ==
    /\ work' = Nobody /\ strange' = strange \cup places
    /\ UNCHANGED <<starts, profile, undo, base, replaced, batches>>

\* Disable removes the link at a place, whatever it leads to by now.
TakeTheLinkDown(p) == link[p] \in Addon /\ link' = [link EXCEPT ![p] = None] /\ UNCHANGED there

Refusal(possible) == IF possible THEN Mishap ELSE UNCHANGED mishaps

-----------------------------------------------------------------------------
(* Deleting. *)

LinksNowOfTheProfile(addons) == [a \in addons |-> LinksTo(Entries(link, there, PlacesOf(profile)), a)]

\* ReadLinksNow: the links of every profile, read once for all the addons.
LinksNow(addons) == [a \in addons |-> UNION {LinksTo(Entries(link, there, PlacesOf(p)), a) : p \in Profile}]

\* Delete, of the addons of the plan the user was shown that the route does not refuse,
\* in the order of the tree.
Delete(addons) ==
    /\ deleting = None /\ batches < MaxBatches /\ batches' = batches + 1
    /\ deleting' = [left |-> SetToSeq(addons), seen |-> LinksNow(addons), deleted |-> {}, alone |-> TRUE]
    /\ UNCHANGED <<world, gone, profile, pinned, work, undo, previous, ghosts, mishaps, moving>>

Deleting == deleting # None /\ deleting.left # <<>>
Doomed == Head(deleting.left)
NextDoomed == [deleting EXCEPT !.left = Tail(@), !.seen = [a \in DOMAIN @ \ {Doomed} |-> @[a]]]

\* DeleteOne: a link that cannot be removed ends the deletion of this addon.
RemoveTheLink(p) ==
    /\ Deleting /\ p \in deleting.seen[Doomed]
    /\ \/ /\ TakeTheLinkDown(p)
          /\ deleting' = [deleting EXCEPT !.seen[Doomed] = @ \ {p}] /\ moving' = Crossed(moving)
          /\ Touches({p}) /\ UNCHANGED <<gone, pinned, previous, mishaps>>
       \/ /\ Refusal(link[p] \in Addon) /\ deleting' = NextDoomed
          /\ UNCHANGED <<world, gone, profile, pinned, work, undo, previous, ghosts, batches, moving>>

\* Recycle or RemoveTree, when every link is down.
RemoveTheFolder ==
    /\ Deleting /\ deleting.seen[Doomed] = {}
    /\ \/ /\ Doomed \in there
          /\ there' = there \ {Doomed} /\ gone' = gone \cup {Doomed} /\ UNCHANGED link
          /\ deleting' = [NextDoomed EXCEPT !.deleted = @ \cup {Doomed}] /\ moving' = Crossed(moving)
          /\ Touches({}) /\ UNCHANGED <<pinned, previous, mishaps>>
       \/ /\ Refusal(Doomed \in there) /\ deleting' = NextDoomed
          /\ UNCHANGED <<world, gone, profile, pinned, work, undo, previous, ghosts, batches, moving>>

\* The completion forgets the undo when something was deleted.
Deleted ==
    /\ deleting # None /\ deleting.left = <<>>
    /\ deleting' = None
    /\ IF deleting.deleted # {} THEN ~Guarded /\ Forgotten ELSE UNCHANGED <<undo, base, replaced>>
    /\ UNCHANGED <<world, gone, profile, pinned, work, previous, strange, mishaps, batches, moving>>

-----------------------------------------------------------------------------
(* Moving. *)

TheFirstLink(a) == IF LinksTo(Known, a) = {} THEN {} ELSE {CHOOSE p \in LinksTo(Known, a) : TRUE}
LinksToTakeDown(a) == LinksTo(Known, a)

\* CarryTheFolder: the override of the folder follows it, and what is above the new path counts
\* for it from then on. Of two overrides, one left by an addon deleted there, the older counts.
OwnOnceCarried(p, from, to) ==
    LET kept == {pinned[p][from].own, pinned[p][to].own} \ {None} IN IF kept = {} THEN {None} ELSE kept
PlannedOnceCarried(p, from, to) ==
    {Destination(p, [pinned[p][to] EXCEPT !.own = own]) : own \in OwnOnceCarried(p, from, to)}

\* Perform, of one addon: MoveOne reads the links of the profile it begins with. (A dead
\* link to the new path comes to life with the move.)
MoveTo(from, to) ==
    /\ moving = None /\ work["tree"] = None /\ batches < MaxBatches /\ batches' = batches + 1
    /\ \E c \in Category : {from, to} \subseteq c
    /\ \E plan \in PlannedOnceCarried(profile, from, to) :
         LET links == LinksToTakeDown(from)
         IN  moving' = [at |-> IF links = {} THEN "move" ELSE "unlink", from |-> from, to |-> to, profile |-> profile,
                        plan |-> plan, links |-> links, enabled |-> links # {}, result |-> "none",
                        alone |-> \A p \in PlacesOf(profile) : link[p] # to]
    /\ UNCHANGED <<world, gone, profile, pinned, work, undo, previous, ghosts, mishaps, deleting>>

Refused == moving' = [moving EXCEPT !.at = "adopt", !.result = "refused"]

\* DisableEveryLink: those taken down before one fails stay down.
DisableALink(p) ==
    /\ moving # None /\ moving.at = "unlink" /\ p \in moving.links
    /\ \/ /\ TakeTheLinkDown(p)
          /\ moving' = [moving EXCEPT !.links = @ \ {p}, !.at = IF moving.links = {p} THEN "move" ELSE "unlink"]
          /\ deleting' = Crossed(deleting) /\ Touches({p}) /\ UNCHANGED <<gone, pinned, previous, mishaps>>
       \/ /\ Refusal(link[p] \in Addon) /\ Refused
          /\ UNCHANGED <<world, gone, profile, pinned, work, undo, previous, ghosts, batches, deleting>>

\* The names of presets are of the library and the folder, which a move keeps.
KnownAs(from, to) ==
    [p \in Profile |-> IF previous[p] = None \/ from \notin previous[p] THEN previous[p]
                       ELSE (previous[p] \ {from}) \cup {to}]

MoveTheFolder ==
    /\ moving # None /\ moving.at = "move"
    /\ \/ /\ moving.from \in there
          /\ there' = (there \ {moving.from}) \cup {moving.to}
          /\ gone' = (gone \ {moving.to}) \cup {moving.from} /\ UNCHANGED link
          /\ moving' = [moving EXCEPT !.at = IF moving.enabled THEN "relink" ELSE "adopt", !.result = "completed"]
          /\ previous' = KnownAs(moving.from, moving.to)
          /\ deleting' = Crossed(deleting) /\ Touches({}) /\ UNCHANGED <<pinned, mishaps>>
       \/ /\ Refusal(moving.from \in there) /\ Refused
          /\ UNCHANGED <<world, gone, profile, pinned, work, undo, previous, ghosts, batches, deleting>>

\* Relink: Enable, where the profile it began with, once carried, plans the link.
Relink ==
    /\ moving # None /\ moving.at = "relink"
    /\ \/ /\ LinkAt(Does("link", moving.to, moving.plan)) /\ moving' = [moving EXCEPT !.at = "adopt"]
          /\ deleting' = Crossed(deleting) /\ Touches({moving.plan})
          /\ UNCHANGED <<there, gone, pinned, previous, mishaps>>
       \/ /\ Refusal(CanSucceed(Does("link", moving.to, moving.plan)))
          /\ moving' = [moving EXCEPT !.at = "adopt", !.result = "noLink"]
          /\ UNCHANGED <<world, gone, profile, pinned, work, undo, previous, ghosts, batches, deleting>>

\* AdoptTheReorganization carries the folder in the latest profile.
AdoptTheReorganization ==
    /\ moving # None /\ moving.at = "adopt" /\ moving' = None
    /\ IF moving.result = "refused" THEN UNCHANGED <<pinned, undo, base, replaced>>
       ELSE /\ ~Guarded /\ Forgotten
            /\ \E own \in OwnOnceCarried(profile, moving.from, moving.to) :
                 pinned' = [pinned EXCEPT ![profile][moving.to].own = own, ![profile][moving.from].own = None]
    /\ UNCHANGED <<world, gone, profile, work, previous, strange, mishaps, batches, deleting>>

-----------------------------------------------------------------------------
\* The batches, the window and the other programs; the runner of the tree is
\* busy while it moves a folder.
BatchesGoOn ==
    /\ Next
    /\ moving # None => work'["tree"] = None
    /\ deleting' = IF <<link, there>>' = <<link, there>> THEN deleting ELSE Crossed(deleting)
    /\ moving' = IF <<link, there, pinned>>' = <<link, there, pinned>> THEN moving ELSE Crossed(moving)

FoldersNext ==
    \/ BatchesGoOn
    \/ \E addons \in (SUBSET Standing) \ {{}} : Delete(addons)
    \/ RemoveTheFolder \/ Deleted
    \/ \E p \in Place : RemoveTheLink(p) \/ DisableALink(p)
    \/ \E from \in Standing, to \in gone : MoveTo(from, to)
    \/ MoveTheFolder \/ Relink \/ AdoptTheReorganization

FoldersSpec == FoldersInit /\ [][FoldersNext]_<<vars, folderVars>>

-----------------------------------------------------------------------------
(* Properties *)

\* Every variable holds a value of its kind; in particular an addon that is being
\* deleted has the links left that were read of it, and a move is between two paths.
FoldersTypeOK ==
    /\ TypeOK
    /\ deleting \in Maybe(Deletion) /\ (deleting # None => DOMAIN deleting.seen = ToSet(deleting.left))
    /\ moving \in Maybe(Move) /\ (moving # None => moving.from # moving.to)

\* When an undisturbed deletion has ended, no link of any profile leads to an addon
\* it deleted (DeletionService::Delete).
NoLinkOutlivesItsAddon ==
    deleting # None /\ deleting.left = <<>> /\ deleting.alone =>
        \A p \in Place : link[p] \notin deleting.deleted

\* When an undisturbed move has ended, an addon that was enabled is enabled at its new path,
\* once, where its profile plans it when the folder has been carried, and one that was not is
\* not, or the move says so; and no link of the profile leads to the old path of one that was
\* moved (MoveOne, CarryTheFolder, EffectiveDestination).
AMovedAddonIsAsEnabledAsBefore ==
    moving # None /\ moving.at = "adopt" /\ moving.alone =>
        LET linked == LinksTo(Entries(link, there, PlacesOf(moving.profile)), moving.to)
            planned == PlannedOnceCarried(moving.profile, moving.from, moving.to)
        IN
        /\ moving.result = "completed" => linked \in IF moving.enabled THEN {{d} : d \in planned} ELSE {{}}
        /\ moving.result \in {"completed", "noLink"} =>
             \A p \in PlacesOf(moving.profile) : link[p] # moving.from
=============================================================================
