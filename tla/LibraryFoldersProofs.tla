----------------------- MODULE LibraryFoldersProofs -----------------------
(***************************************************************************)
(* What holds of the batches of links, the deletions and the moves of       *)
(* LibraryFolders for any addons, places, view models and bounds.           *)
(*                                                                         *)
(* First what the sequences of steps are that are planned, and what a       *)
(* reading of the disk says; then the types; then what holds of a batch, a  *)
(* deletion and a move as long as nobody else touches the disk: what it     *)
(* still has to do is what is missing of what it promises at its end; then  *)
(* the undo, whose steps lead from what there is to what the last batch     *)
(* found, whoever else touches the disk.                                    *)
(***************************************************************************)
EXTENDS LibraryFolders, FiniteSetTheorems, SequenceTheorems, WellFoundedInduction, TLAPS

-----------------------------------------------------------------------------
(* Sequences of what a set holds. *)

\* A set of numbers has a smallest one.
LEMMA Smallest ==
  ASSUME NEW J \in SUBSET Nat, J # {}
  PROVE  \E x \in J : \A y \in J : x <= y
<1>1. PICK x \in J : \A y \in J : <<y, x>> \notin OpToRel(<, Nat)
  BY NatLessThanWellFounded, WFMin
<1>2. \A y \in J : ~(y < x)
  BY <1>1 DEF OpToRel
<1> QED
  BY <1>2

\* A finite set laid out as a sequence: each of its members, once.
LEMMA LaidOut ==
  ASSUME NEW S, IsFiniteSet(S)
  PROVE  /\ Cardinality(S) \in Nat
         /\ SetToSeq(S) \in [1..Cardinality(S) -> S] /\ IsInjective(SetToSeq(S))
         /\ SetToSeq(S) \in Seq(S) /\ Len(SetToSeq(S)) = Cardinality(S)
<1>1. Cardinality(S) \in Nat /\ ExistsBijection(1..Cardinality(S), S)
  BY FS_CardinalityType
<1>2. \E f \in [1..Cardinality(S) -> S] : IsInjective(f)
  BY <1>1 DEF ExistsBijection, Bijection, Injection, Surjection
<1>3. SetToSeq(S) \in [1..Cardinality(S) -> S] /\ IsInjective(SetToSeq(S))
  BY <1>2 DEF SetToSeq
<1>4. SetToSeq(S) \in Seq(S)
  BY <1>1, <1>3, SeqDef
<1> QED
  BY <1>1, <1>3, <1>4

\* A sequence without repetition, as long as the set it is of, leaves none of it out.
LEMMA NoneIsLeftOut ==
  ASSUME NEW S, IsFiniteSet(S), NEW f \in [1..Cardinality(S) -> S], IsInjective(f)
  PROVE  \A x \in S : \E i \in 1..Cardinality(S) : f[i] = x
<1>1. Cardinality(S) \in Nat
  BY FS_CardinalityType
<1>2. f \in Injection(1..Cardinality(S), S)
  BY DEF Injection
<1>3. Cardinality(1..Cardinality(S)) = Cardinality(S)
  BY <1>1, FS_Interval
<1>4. f \in Surjection(1..Cardinality(S), S)
  BY <1>2, <1>3, FS_Injection
<1> QED
  BY <1>4 DEF Surjection

\* Numbers that hold the first one, and of each the next, are all of them.
LEMMA OneAfterTheOther ==
  ASSUME NEW n \in Nat, NEW G \in SUBSET (1..n), n # 0 => 1 \in G, \A m \in G : m # n => m + 1 \in G
  PROVE  G = 1..n
<1> SUFFICES ASSUME (1..n) \ G # {} PROVE FALSE
  OBVIOUS
<1> DEFINE J == (1..n) \ G
<1>1. PICK x \in J : \A y \in J : x <= y
  <2>1. J \in SUBSET Nat
    OBVIOUS
  <2> QED
    BY <2>1, Smallest
<1>2. x \in 1..n /\ x \notin G /\ x # 1 /\ x \in Nat
  BY <1>1
<1>3. x - 1 \in 1..n /\ ~(x <= x - 1)
  BY <1>2
<1>4. x - 1 \notin J
  BY <1>1, <1>3
<1>5. x - 1 \in G /\ x - 1 # n
  BY <1>2, <1>3, <1>4
<1> QED
  BY <1>2, <1>5

\* One sequence after another: its own elements first, then those of the other.
LEMMA OneThenTheOther ==
  ASSUME NEW S, NEW s \in Seq(S), NEW t \in Seq(S)
  PROVE  /\ s \o t \in Seq(S) /\ Len(s \o t) = Len(s) + Len(t) /\ Len(s) \in Nat /\ Len(t) \in Nat
         /\ \A k \in 1..Len(s) : k \in 1..Len(s \o t) /\ (s \o t)[k] = s[k]
         /\ \A k \in 1..Len(t) : Len(s) + k \in 1..Len(s \o t) /\ (s \o t)[Len(s) + k] = t[k]
         /\ \A k \in 1..Len(s \o t) : k \in 1..Len(s) \/ (k - Len(s) \in 1..Len(t) /\ (s \o t)[k] = t[k - Len(s)])
<1>1. Len(s) \in Nat /\ Len(t) \in Nat
  BY LenProperties
<1>2. /\ s \o t \in Seq(S) /\ Len(s \o t) = Len(s) + Len(t)
      /\ \A i \in 1..(Len(s) + Len(t)) : (s \o t)[i] = IF i <= Len(s) THEN s[i] ELSE t[i - Len(s)]
  BY ConcatProperties
<1>3. ASSUME NEW k \in 1..Len(s) PROVE k \in 1..Len(s \o t) /\ (s \o t)[k] = s[k]
  BY <1>1, <1>2
<1>4. ASSUME NEW k \in 1..Len(t) PROVE Len(s) + k \in 1..Len(s \o t) /\ (s \o t)[Len(s) + k] = t[k]
  <2>1. Len(s) + k \in 1..(Len(s) + Len(t)) /\ ~(Len(s) + k <= Len(s)) /\ Len(s) + k - Len(s) = k
    BY <1>1
  <2> QED
    BY <1>2, <2>1
<1>5. ASSUME NEW k \in 1..Len(s \o t)
      PROVE  k \in 1..Len(s) \/ (k - Len(s) \in 1..Len(t) /\ (s \o t)[k] = t[k - Len(s)])
  BY <1>1, <1>2
<1> QED
  BY <1>1, <1>2, <1>3, <1>4, <1>5

\* Putting sequences one after the other is adding the next to those before.
LEMMA FlattenedStepByStep ==
  ASSUME NEW S, NEW n \in Nat, n # 0, NEW seqs \in [1..n -> Seq(S)]
  PROVE  \E g : g = [i \in 1..n |-> IF i = 1 THEN seqs[i] ELSE g[i - 1] \o seqs[i]]
<1> DEFINE Is(g, m) == \A i \in 1..m : g[i] = IF i = 1 THEN seqs[i] ELSE g[i - 1] \o seqs[i]
           G == {m \in 1..n : \E g \in [1..m -> Seq(S)] : Is(g, m)}
<1>1. 1 \in G
  <2> DEFINE g == [i \in 1..1 |-> seqs[1]]
  <2>1. 1 \in 1..n /\ \A i \in 1..1 : i = 1
    OBVIOUS
  <2>2. g \in [1..1 -> Seq(S)] /\ \A i \in 1..1 : g[i] = seqs[i]
    BY <2>1
  <2> HIDE DEF g
  <2>3. Is(g, 1)
    BY <2>1, <2>2
  <2> HIDE DEF Is
  <2> QED
    BY <2>1, <2>2, <2>3
<1>2. ASSUME NEW m \in G, m # n PROVE m + 1 \in G
  <2>1. m \in 1..n /\ m + 1 \in 1..n
    BY <1>2
  <2>2. PICK h \in [1..m -> Seq(S)] : Is(h, m)
    OBVIOUS
  <2> DEFINE g == [i \in 1..(m + 1) |-> IF i = m + 1 THEN h[m] \o seqs[m + 1] ELSE h[i]]
  <2>3. h[m] \o seqs[m + 1] \in Seq(S)
    BY <2>1, OneThenTheOther
  <2>4. g \in [1..(m + 1) -> Seq(S)]
    <3>1. \A i \in 1..(m + 1) : i # m + 1 => i \in 1..m
      BY <2>1
    <3> QED
      BY <2>3, <3>1
  <2>5. ASSUME NEW i \in 1..(m + 1) PROVE g[i] = IF i = 1 THEN seqs[i] ELSE g[i - 1] \o seqs[i]
    <3>1. CASE i = m + 1
      <4>1. i # 1 /\ i - 1 = m /\ m \in 1..(m + 1) /\ m # m + 1
        BY <2>1, <3>1
      <4>2. g[m] = h[m] /\ g[i] = h[m] \o seqs[m + 1]
        BY <3>1, <4>1
      <4> QED
        BY <3>1, <4>1, <4>2
    <3>2. CASE i # m + 1
      <4>1. i \in 1..m /\ g[i] = h[i]
        BY <2>1, <3>2
      <4>2. h[i] = IF i = 1 THEN seqs[i] ELSE h[i - 1] \o seqs[i]
        BY <2>2, <4>1
      <4>3. i # 1 => i - 1 \in 1..(m + 1) /\ i - 1 # m + 1
        BY <2>1, <4>1
      <4>4. i # 1 => g[i - 1] = h[i - 1]
        BY <4>3
      <4> QED
        BY <4>1, <4>2, <4>4
    <3> QED
      BY <3>1, <3>2
  <2> HIDE DEF g
  <2> QED
    BY <2>1, <2>4, <2>5
<1>3. G = 1..n
  <2> HIDE DEF Is
  <2>1. G \in SUBSET (1..n)
    OBVIOUS
  <2> HIDE DEF G
  <2> QED
    BY <1>1, <1>2, <2>1, OneAfterTheOther
<1>4. n \in G
  <2> HIDE DEF G
  <2> QED
    BY <1>3
<1>5. PICK g \in [1..n -> Seq(S)] : Is(g, n)
  BY <1>4
<1>6. g = [i \in 1..n |-> IF i = 1 THEN seqs[i] ELSE g[i - 1] \o seqs[i]]
  BY <1>5
<1> QED
  BY <1>6

\* Sequences put one after the other: a sequence of what they hold, and of all of it.
LEMMA Flattened ==
  ASSUME NEW S, NEW seqs \in Seq(Seq(S))
  PROVE  /\ FlattenSeq(seqs) \in Seq(S)
         /\ \A i \in 1..Len(seqs) : \A j \in 1..Len(seqs[i]) :
              \E k \in 1..Len(FlattenSeq(seqs)) : FlattenSeq(seqs)[k] = seqs[i][j]
<1>1. CASE Len(seqs) = 0
  <2>1. FlattenSeq(seqs) = seqs /\ seqs = <<>>
    BY <1>1, EmptySeq DEF FlattenSeq
  <2> QED
    BY <1>1, <2>1, EmptySeq
<1>2. CASE Len(seqs) # 0
  <2> DEFINE n == Len(seqs)
             f == CHOOSE g : g = [i \in 1..n |-> IF i = 1 THEN seqs[i] ELSE g[i - 1] \o seqs[i]]
  <2>1. FlattenSeq(seqs) = f[n]
    BY <1>2 DEF FlattenSeq
  <2>2. n \in Nat /\ n # 0 /\ seqs \in [1..n -> Seq(S)]
    BY <1>2, LenProperties
  <2>3. f = [i \in 1..n |-> IF i = 1 THEN seqs[i] ELSE f[i - 1] \o seqs[i]]
    <3> HIDE DEF n
    <3>1. \E g : g = [i \in 1..n |-> IF i = 1 THEN seqs[i] ELSE g[i - 1] \o seqs[i]]
      BY ZenonT(30), <2>2, FlattenedStepByStep
    <3> QED
      BY <3>1
  <2> HIDE DEF f, n
  <2>4. f[1] = seqs[1] /\ \A m \in 1..n : m # 1 => f[m] = f[m - 1] \o seqs[m]
    <3>1. 1 \in 1..n
      BY <2>2
    <3> QED
      BY <2>3, <3>1
  <2> DEFINE Holds(t, m) == \A i \in 1..m : \A j \in 1..Len(seqs[i]) : \E k \in 1..Len(t) : t[k] = seqs[i][j]
             G == {m \in 1..n : f[m] \in Seq(S) /\ Holds(f[m], m)}
  <2>5. 1 \in G
    BY SMTT(30), <2>2, <2>4
  <2>6. ASSUME NEW m \in G, m # n PROVE m + 1 \in G
    <3>1. m \in 1..n /\ m + 1 \in 1..n /\ m + 1 # 1 /\ (m + 1) - 1 = m
      BY <2>2, <2>6
    <3>2. f[m] \in Seq(S) /\ Holds(f[m], m) /\ seqs[m + 1] \in Seq(S) /\ f[m + 1] = f[m] \o seqs[m + 1]
      BY <2>2, <2>4, <3>1
    <3>3. /\ f[m + 1] \in Seq(S)
          /\ \A k \in 1..Len(f[m]) : k \in 1..Len(f[m + 1]) /\ f[m + 1][k] = f[m][k]
          /\ \A k \in 1..Len(seqs[m + 1]) : /\ Len(f[m]) + k \in 1..Len(f[m + 1])
                                             /\ f[m + 1][Len(f[m]) + k] = seqs[m + 1][k]
      <4> DEFINE a == f[m]
                 b == seqs[m + 1]
      <4>1. a \in Seq(S) /\ b \in Seq(S) /\ f[m + 1] = a \o b
        BY <3>2
      <4> HIDE DEF a, b, Holds
      <4>2. /\ a \o b \in Seq(S)
            /\ \A k \in 1..Len(a) : k \in 1..Len(a \o b) /\ (a \o b)[k] = a[k]
            /\ \A k \in 1..Len(b) : Len(a) + k \in 1..Len(a \o b) /\ (a \o b)[Len(a) + k] = b[k]
        BY <4>1, OneThenTheOther
      <4> QED
        BY <4>1, <4>2 DEF a, b
    <3>4. ASSUME NEW i \in 1..(m + 1), NEW j \in 1..Len(seqs[i])
          PROVE  \E k \in 1..Len(f[m + 1]) : f[m + 1][k] = seqs[i][j]
      <4>1. CASE i = m + 1
        BY <3>3, <4>1
      <4>2. CASE i # m + 1
        <5>1. i \in 1..m
          BY <3>1, <4>2
        <5>2. PICK k \in 1..Len(f[m]) : f[m][k] = seqs[i][j]
          BY <3>2, <5>1
        <5> QED
          BY <3>3, <5>2
      <4> QED
        BY <4>1, <4>2
    <3> QED
      BY <3>1, <3>3, <3>4
  <2>7. G = 1..n
    <3> HIDE DEF Holds
    <3>1. G \in SUBSET (1..n)
      OBVIOUS
    <3> HIDE DEF G
    <3> QED
      BY <2>2, <2>5, <2>6, <3>1, OneAfterTheOther
  <2>8. n \in G
    <3> HIDE DEF G
    <3> QED
      BY <2>2, <2>7
  <2> QED
    BY <2>1, <2>8 DEF n
<1> QED
  BY <1>1, <1>2

\* A function of the first numbers is a sequence.
LEMMA InARow ==
  ASSUME NEW S, NEW n \in Nat, NEW f \in [1..n -> S]
  PROVE  f \in Seq(S) /\ Len(f) = n /\ DOMAIN f = 1..n
BY SeqDef

-----------------------------------------------------------------------------
(* What a reading of the disk says. *)

\* Each place is told by what stands at it: a link to an addon that is there is managed, or
\* a duplicate; one that is broken leads to an addon that is not there.
LEMMA WhatIsRead ==
  ASSUME NEW disk \in Disks, NEW folders \in SUBSET Addon, NEW p \in Profile
  PROVE  LET e == Entries(disk, folders, PlacesOf(p))
         IN  /\ e \in [PlacesOf(p) -> [target : Targets, class : Classes]]
             /\ e \in Readings
             /\ DOMAIN e = PlacesOf(p)
             /\ \A q \in PlacesOf(p) :
                  /\ e[q].target = disk[q]
                  /\ e[q].class \in {"managed", "duplicated"} <=> disk[q] \in folders
                  /\ e[q].class = "broken" => disk[q] \in Addon \ folders
<1> DEFINE places == PlacesOf(p)
           class == [q \in places |-> Class(disk, folders, q)]
           marks == Marked(disk, class, places)
           e == Entries(disk, folders, places)
<1>1. places \subseteq Place /\ None \notin Addon /\ None # Folder /\ Folder \notin Addon
  BY LinkingAssumption DEF PlacesOf, Place
<1>2. ASSUME NEW q \in places
      PROVE  /\ class[q] \in Classes \ {"duplicated"}
             /\ class[q] = "managed" <=> disk[q] \in folders
             /\ class[q] = "broken" => disk[q] \in Addon \ folders
  <2>1. disk[q] \in Targets /\ class[q] = Class(disk, folders, q)
    BY <1>1 DEF Disks
  <2>2. CASE disk[q] = None
    BY <1>1, <2>1, <2>2 DEF Class, Classes
  <2>3. CASE disk[q] = Folder
    BY <1>1, <2>1, <2>3 DEF Class, Classes
  <2>4. CASE disk[q] \in folders
    BY <1>1, <2>1, <2>4 DEF Class, Classes
  <2>5. CASE disk[q] \in Addon \ folders
    <3>1. class[q] = IF disk[q] \in Removable \ (gone \cup folders) THEN "unavailable" ELSE "broken"
      BY <1>1, <2>1, <2>5 DEF Class
    <3> QED
      BY <2>5, <3>1 DEF Classes
  <2> QED
    BY <2>1, <2>2, <2>3, <2>4, <2>5 DEF Targets
<1>3. ASSUME NEW q \in places
      PROVE  /\ marks[q] \in Classes
             /\ marks[q] \in {"managed", "duplicated"} <=> disk[q] \in folders
             /\ marks[q] = "broken" => disk[q] \in Addon \ folders
  <2>1. marks[q] = class[q] \/ (marks[q] = "duplicated" /\ class[q] = "managed")
    BY DEF Marked
  <2> HIDE DEF marks, class
  <2> QED
    BY <1>2, <2>1 DEF Classes
<1>4. e = [q \in places |-> [target |-> disk[q], class |-> marks[q]]]
  BY DEF Entries
<1> HIDE DEF marks, e
<1>5. e \in [places -> [target : Targets, class : Classes]]
  BY <1>1, <1>3, <1>4 DEF Disks
<1>6. e \in Readings
  BY <1>5 DEF Readings, Targets, Classes
<1> QED
  BY <1>3, <1>4, <1>5, <1>6 DEF e

\* The links to an addon are those that lead to it, while it is there; it is enabled by any.
LEMMA WhatIsLinked ==
  ASSUME NEW disk \in Disks, NEW folders \in SUBSET Addon, NEW p \in Profile
  PROVE  LET e == Entries(disk, folders, PlacesOf(p))
         IN  /\ \A a : LinksTo(e, a) = {q \in PlacesOf(p) : disk[q] = a /\ a \in folders}
             /\ Enabled(e) = {a \in folders : \E q \in PlacesOf(p) : disk[q] = a}
<1> DEFINE e == Entries(disk, folders, PlacesOf(p))
<1>1. /\ DOMAIN e = PlacesOf(p)
      /\ \A q \in PlacesOf(p) : /\ e[q].target = disk[q]
                                /\ e[q].class \in {"managed", "duplicated"} <=> disk[q] \in folders
  BY WhatIsRead
<1> HIDE DEF e
<1>2. \A a : LinksTo(e, a) = {q \in PlacesOf(p) : disk[q] = a /\ a \in folders}
  BY <1>1 DEF LinksTo
<1>3. Enabled(e) = {a \in folders : \E q \in PlacesOf(p) : disk[q] = a}
  BY <1>1 DEF Enabled
<1> QED
  BY <1>2, <1>3 DEF e

-----------------------------------------------------------------------------
(* What is planned. *)

Unlinks(entries, addons) ==
    {s \in Step : s.does = "unlink" /\ s.addon \in addons /\ s.place \in LinksTo(entries, s.addon)}
TurnsOff(agreed) == {s \in Step : s.does = "turnOff" /\ s.addon \in agreed}
LinksMade(addons, pins) == {s \in Step : s.does = "link" /\ s.addon \in addons /\ s.place = pins[s.addon]}

\* A step that is somewhere in a sequence.
Has(steps, s) == \E k \in 1..Len(steps) : steps[k] = s

\* What a step that is planned is.
LEMMA WhatItDoes ==
  ASSUME NEW a \in Addon, NEW q, NEW does,
         (does \in {"link", "unlink"} /\ q \in Place) \/ (does \in {"turnOn", "turnOff"} /\ q = None)
  PROVE  /\ Does(does, a, q) \in Step /\ Does(does, a, q).does = does
         /\ Does(does, a, q).addon = a /\ Does(does, a, q).place = q /\ Does(does, a, q).was = None
BY DEF Does, Step, Maybe

\* To disable is to unlink every link there is, and to turn off what was agreed to.
LEMMA WhatIsTurnedOff ==
  ASSUME NEW e, \A a : LinksTo(e, a) \subseteq Place, \A a : LinksTo(e, a) # {} <=> a \in Enabled(e),
         NEW order \in Seq(Addon), NEW agreed \in SUBSET Addon
  PROVE  /\ OffSteps(e, order, agreed) \in Seq(Unlinks(e, ToSet(order)) \cup TurnsOff(agreed))
         /\ \A a \in ToSet(order) : \A q \in LinksTo(e, a) : Has(OffSteps(e, order, agreed), Does("unlink", a, q))
<1> DEFINE S == Unlinks(e, ToSet(order)) \cup TurnsOff(agreed)
           downs(a) == [j \in 1..Cardinality(LinksTo(e, a)) |-> Does("unlink", a, SetToSeq(LinksTo(e, a))[j])]
           offs == [j \in 1..Cardinality(agreed) |-> Does("turnOff", SetToSeq(agreed)[j], None)]
           part(i) == IF order[i] \in Enabled(e) THEN downs(order[i]) \o offs ELSE <<>>
           parts == [i \in DOMAIN order |-> part(i)]
<1>1. /\ Len(order) \in Nat /\ DOMAIN order = 1..Len(order)
      /\ \A i \in 1..Len(order) : order[i] \in Addon /\ order[i] \in ToSet(order)
  BY LenProperties, ElementOfSeq DEF ToSet
<1>2. offs \in Seq(S)
  <2>1. IsFiniteSet(agreed)
    BY LinkingAssumption, FS_Subset
  <2>2. Cardinality(agreed) \in Nat /\ SetToSeq(agreed) \in [1..Cardinality(agreed) -> agreed]
    BY <2>1, LaidOut
  <2>3. \A j \in 1..Cardinality(agreed) : Does("turnOff", SetToSeq(agreed)[j], None) \in S
    BY <2>2, WhatItDoes DEF TurnsOff
  <2> HIDE DEF S
  <2> QED
    BY <2>2, <2>3, InARow
<1>3. ASSUME NEW a \in ToSet(order), a \in Addon
      PROVE  /\ downs(a) \in Seq(S)
             /\ \A q \in LinksTo(e, a) : \E j \in 1..Len(downs(a)) : downs(a)[j] = Does("unlink", a, q)
  <2> DEFINE L == LinksTo(e, a)
  <2>1. IsFiniteSet(L) /\ L \subseteq Place
    BY LinkingAssumption, FS_Subset
  <2>2. Cardinality(L) \in Nat /\ SetToSeq(L) \in [1..Cardinality(L) -> L] /\ IsInjective(SetToSeq(L))
    BY <2>1, LaidOut
  <2>3. \A q \in L : \E j \in 1..Cardinality(L) : SetToSeq(L)[j] = q
    BY <2>1, <2>2, NoneIsLeftOut
  <2>4. \A j \in 1..Cardinality(L) : Does("unlink", a, SetToSeq(L)[j]) \in S
    <3> SUFFICES ASSUME NEW j \in 1..Cardinality(L) PROVE Does("unlink", a, SetToSeq(L)[j]) \in S
      OBVIOUS
    <3>1. SetToSeq(L)[j] \in L /\ SetToSeq(L)[j] \in Place
      BY <2>1, <2>2
    <3>2. /\ Does("unlink", a, SetToSeq(L)[j]) \in Step
          /\ Does("unlink", a, SetToSeq(L)[j]).does = "unlink" /\ Does("unlink", a, SetToSeq(L)[j]).addon = a
          /\ Does("unlink", a, SetToSeq(L)[j]).place = SetToSeq(L)[j]
      BY <1>3, <3>1, WhatItDoes
    <3> QED
      BY <1>3, <3>1, <3>2 DEF Unlinks
  <2> HIDE DEF S
  <2>5. downs(a) \in Seq(S) /\ Len(downs(a)) = Cardinality(L)
    BY <2>2, <2>4, InARow
  <2> QED
    BY <2>3, <2>5
<1> HIDE DEF S, offs, downs
<1>4. \A i \in 1..Len(order) : part(i) \in Seq(S)
  BY <1>1, <1>2, <1>3, OneThenTheOther, EmptySeq
<1>5. parts \in Seq(Seq(S)) /\ Len(parts) = Len(order)
  <2> HIDE DEF part
  <2> QED
    BY <1>1, <1>4, InARow
<1>6. OffSteps(e, order, agreed) = FlattenSeq(parts)
  BY DEF OffSteps, offs, downs
<1>7. ASSUME NEW a \in ToSet(order), NEW q \in LinksTo(e, a)
      PROVE  \E k \in 1..Len(FlattenSeq(parts)) : FlattenSeq(parts)[k] = Does("unlink", a, q)
  <2>1. PICK i \in 1..Len(order) : order[i] = a
    BY <1>1 DEF ToSet
  <2>2. parts[i] = downs(a) \o offs
    BY <1>1, <2>1
  <2>3. PICK j \in 1..Len(downs(a)) : downs(a)[j] = Does("unlink", a, q)
    BY <1>1, <1>3, <2>1
  <2>4. j \in 1..Len(parts[i]) /\ parts[i][j] = Does("unlink", a, q)
    BY <1>1, <1>2, <1>3, <2>1, <2>2, <2>3, OneThenTheOther
  <2> HIDE DEF parts
  <2>5. \A h \in 1..Len(parts) : \A g \in 1..Len(parts[h]) :
          \E k \in 1..Len(FlattenSeq(parts)) : FlattenSeq(parts)[k] = parts[h][g]
    BY <1>5, Flattened
  <2>6. \E k \in 1..Len(FlattenSeq(parts)) : FlattenSeq(parts)[k] = parts[i][j]
    BY <1>5, <2>4, <2>5
  <2> QED
    BY <2>4, <2>6
<1> HIDE DEF parts
<1>8. FlattenSeq(parts) \in Seq(S)
  BY <1>5, Flattened
<1> QED
  BY <1>6, <1>7, <1>8 DEF S, Has

\* To enable is to make one link of each that has none, where it is planned.
LEMMA WhatIsTurnedOn ==
  ASSUME NEW e, NEW order \in Seq(Addon), NEW pins \in [Addon -> Place]
  PROVE  /\ OnSteps(e, order, pins) \in Seq(LinksMade(ToSet(order) \ Enabled(e), pins))
         /\ \A a \in ToSet(order) \ Enabled(e) : Has(OnSteps(e, order, pins), Does("link", a, pins[a]))
<1> DEFINE S == LinksMade(ToSet(order) \ Enabled(e), pins)
           part(i) == IF order[i] \in Enabled(e) THEN <<>> ELSE <<Does("link", order[i], pins[order[i]])>>
           parts == [i \in DOMAIN order |-> part(i)]
<1>1. /\ Len(order) \in Nat /\ DOMAIN order = 1..Len(order)
      /\ \A i \in 1..Len(order) : order[i] \in Addon /\ order[i] \in ToSet(order)
  BY LenProperties, ElementOfSeq DEF ToSet
<1>2. \A i \in 1..Len(order) : order[i] \notin Enabled(e) => Does("link", order[i], pins[order[i]]) \in S
  <2> SUFFICES ASSUME NEW i \in 1..Len(order), order[i] \notin Enabled(e)
               PROVE  Does("link", order[i], pins[order[i]]) \in S
    OBVIOUS
  <2>1. pins[order[i]] \in Place
    BY <1>1
  <2> DEFINE s == Does("link", order[i], pins[order[i]])
  <2>2. s \in Step /\ s.does = "link" /\ s.addon = order[i] /\ s.place = pins[order[i]]
    BY <1>1, <2>1, WhatItDoes
  <2> HIDE DEF s
  <2> QED
    BY <1>1, <2>2 DEF LinksMade, s
<1> HIDE DEF S
<1>4. \A i \in 1..Len(order) : part(i) \in Seq(S)
  BY <1>2
<1>5. parts \in Seq(Seq(S)) /\ Len(parts) = Len(order)
  <2> HIDE DEF part
  <2> QED
    BY <1>1, <1>4, InARow
<1>6. OnSteps(e, order, pins) = FlattenSeq(parts)
  BY DEF OnSteps
<1>7. ASSUME NEW a \in ToSet(order), a \notin Enabled(e)
      PROVE  \E k \in 1..Len(FlattenSeq(parts)) : FlattenSeq(parts)[k] = Does("link", a, pins[a])
  <2>1. PICK i \in 1..Len(order) : order[i] = a
    BY <1>1 DEF ToSet
  <2>2. parts[i] = <<Does("link", a, pins[a])>>
    BY <1>1, <1>7, <2>1
  <2> HIDE DEF parts
  <2>3. \A x : Len(<<x>>) = 1 /\ <<x>>[1] = x
    OBVIOUS
  <2>4. 1 \in 1..Len(parts[i]) /\ parts[i][1] = Does("link", a, pins[a])
    BY <2>2, <2>3
  <2>5. \A h \in 1..Len(parts) : \A g \in 1..Len(parts[h]) :
          \E k \in 1..Len(FlattenSeq(parts)) : FlattenSeq(parts)[k] = parts[h][g]
    BY <1>5, Flattened
  <2>6. \E k \in 1..Len(FlattenSeq(parts)) : FlattenSeq(parts)[k] = parts[i][1]
    BY <1>5, <2>4, <2>5
  <2> QED
    BY <2>4, <2>6
<1> HIDE DEF parts
<1>8. FlattenSeq(parts) \in Seq(S)
  BY <1>5, Flattened
<1> QED
  BY <1>6, <1>7, <1>8 DEF S, Has

\* To relink is to unlink what is enabled, then to link it where it is planned.
LEMMA WhatIsRelinked ==
  ASSUME NEW e, \A a : LinksTo(e, a) \subseteq Place, \A a : LinksTo(e, a) # {} <=> a \in Enabled(e),
         NEW order \in Seq(Addon), NEW pins \in [Addon -> Place]
  PROVE  \E off \in Seq(Unlinks(e, ToSet(order))), on \in Seq(LinksMade(ToSet(order) \cap Enabled(e), pins)) :
           /\ RelinkSteps(e, order, pins) = off \o on
           /\ \A a \in ToSet(order) \cap Enabled(e) : Has(on, Does("link", a, pins[a]))
<1> DEFINE S == LinksMade(ToSet(order) \cap Enabled(e), pins)
           part(i) == IF order[i] \in Enabled(e) THEN <<Does("link", order[i], pins[order[i]])>> ELSE <<>>
           parts == [i \in DOMAIN order |-> part(i)]
<1>1. /\ Len(order) \in Nat /\ DOMAIN order = 1..Len(order)
      /\ \A i \in 1..Len(order) : order[i] \in Addon /\ order[i] \in ToSet(order)
  BY LenProperties, ElementOfSeq DEF ToSet
<1>2. \A i \in 1..Len(order) : order[i] \in Enabled(e) => Does("link", order[i], pins[order[i]]) \in S
  <2> SUFFICES ASSUME NEW i \in 1..Len(order), order[i] \in Enabled(e)
               PROVE  Does("link", order[i], pins[order[i]]) \in S
    OBVIOUS
  <2>1. pins[order[i]] \in Place
    BY <1>1
  <2> DEFINE s == Does("link", order[i], pins[order[i]])
  <2>2. s \in Step /\ s.does = "link" /\ s.addon = order[i] /\ s.place = pins[order[i]]
    BY <1>1, <2>1, WhatItDoes
  <2> HIDE DEF s
  <2> QED
    BY <1>1, <2>2 DEF LinksMade, s
<1> HIDE DEF S
<1>4. \A i \in 1..Len(order) : part(i) \in Seq(S)
  BY <1>2
<1>5. parts \in Seq(Seq(S)) /\ Len(parts) = Len(order)
  <2> HIDE DEF part
  <2> QED
    BY <1>1, <1>4, InARow
<1>6. RelinkSteps(e, order, pins) = OffSteps(e, order, {}) \o FlattenSeq(parts)
  BY DEF RelinkSteps
<1>7. ASSUME NEW a \in ToSet(order), a \in Enabled(e)
      PROVE  \E k \in 1..Len(FlattenSeq(parts)) : FlattenSeq(parts)[k] = Does("link", a, pins[a])
  <2>1. PICK i \in 1..Len(order) : order[i] = a
    BY <1>1 DEF ToSet
  <2>2. parts[i] = <<Does("link", a, pins[a])>>
    BY <1>1, <1>7, <2>1
  <2> HIDE DEF parts
  <2>3. \A x : Len(<<x>>) = 1 /\ <<x>>[1] = x
    OBVIOUS
  <2>4. 1 \in 1..Len(parts[i]) /\ parts[i][1] = Does("link", a, pins[a])
    BY <2>2, <2>3
  <2>5. \A h \in 1..Len(parts) : \A g \in 1..Len(parts[h]) :
          \E k \in 1..Len(FlattenSeq(parts)) : FlattenSeq(parts)[k] = parts[h][g]
    BY <1>5, Flattened
  <2>6. \E k \in 1..Len(FlattenSeq(parts)) : FlattenSeq(parts)[k] = parts[i][1]
    BY <1>5, <2>4, <2>5
  <2> QED
    BY <2>4, <2>6
<1> HIDE DEF parts
<1>8. FlattenSeq(parts) \in Seq(S)
  BY <1>5, Flattened
<1>9. OffSteps(e, order, {}) \in Seq(Unlinks(e, ToSet(order)))
  <2>1. Unlinks(e, ToSet(order)) \cup TurnsOff({}) = Unlinks(e, ToSet(order))
    BY DEF TurnsOff
  <2> QED
    BY <2>1, WhatIsTurnedOff
<1> QED
  BY <1>6, <1>7, <1>8, <1>9 DEF S, Has

\* To repair one dead link is one step at its place, if it is as it was shown.
LEMMA WhatIsRepaired ==
  ASSUME NEW disk \in Disks, NEW folders \in SUBSET Addon, NEW p \in Profile,
         NEW r, r \in [place : PlacesOf(p), was : Addon, to : Addon \cup {None}]
  PROVE  LET e == Entries(disk, folders, PlacesOf(p))
         IN  /\ RepairSteps(e, {r}) \in
                  Seq({s \in Step : s.does \in {"link", "unlink"} /\ s.was \in Addon
                                    /\ disk[s.place] \in Addon \ folders})
             /\ Len(RepairSteps(e, {r})) <= 1
<1> DEFINE e == Entries(disk, folders, PlacesOf(p))
           S == {s \in Step : s.does \in {"link", "unlink"} /\ s.was \in Addon /\ disk[s.place] \in Addon \ folders}
           held == {x \in {r} : e[x.place] = [target |-> x.was, class |-> "broken"]}
           of(x) == [does |-> IF x.to = None THEN "unlink" ELSE "link",
                     addon |-> IF x.to = None THEN x.was ELSE x.to, place |-> x.place, was |-> x.was]
           steps == [i \in 1..Cardinality(held) |-> of(SetToSeq(held)[i])]
<1>1. r.place \in PlacesOf(p) /\ r.place \in Place /\ r.was \in Addon /\ r.to \in Addon \cup {None}
  BY DEF PlacesOf, Place
<1>2. IsFiniteSet(held) /\ Cardinality(held) <= 1
  <2>1. IsFiniteSet({r}) /\ Cardinality({r}) = 1 /\ held \in SUBSET {r}
    BY FS_Singleton
  <2> HIDE DEF held
  <2> QED
    BY <2>1, FS_Subset
<1>3. Cardinality(held) \in Nat /\ SetToSeq(held) \in [1..Cardinality(held) -> held]
  BY <1>2, LaidOut
<1>4. ASSUME NEW x \in held PROVE of(x) \in S
  <2>1. x = r /\ e[r.place].class = "broken"
    OBVIOUS
  <2>2. disk[r.place] \in Addon \ folders
    BY <1>1, <2>1, WhatIsRead
  <2> QED
    BY <1>1, <2>1, <2>2 DEF Step, Maybe
<1>5. RepairSteps(e, {r}) = steps
  BY DEF RepairSteps
<1> HIDE DEF held, S, of
<1>6. steps \in Seq(S) /\ Len(steps) <= 1
  BY <1>2, <1>3, <1>4, InARow
<1> QED
  BY <1>5, <1>6 DEF S

-----------------------------------------------------------------------------
(* Types. *)

RepairStep == {s \in Step : s.does \in {"link", "unlink"} /\ s.was \in Addon}
\* What holds of the steps of a batch of some kind.
StepsOf(kind) == IF kind = "repair" THEN RepairStep ELSE Step

OverrideOf(p) == [own : Maybe(Chosen \cap PlacesOf(p)), above : Maybe(Chosen \cap PlacesOf(p))]
PinsAreOfTheProfile == \A p \in Profile, a \in Addon : pinned[p][a] \in OverrideOf(p)
RepairsNameTheirTarget == \A w \in Worker : work[w] # None => work[w].steps \in Seq(StepsOf(work[w].kind))
AddonsAreDeletedOnce == deleting # None => IsInjective(deleting.left)

FInv == FoldersTypeOK /\ PinsAreOfTheProfile /\ RepairsNameTheirTarget /\ AddonsAreDeletedOnce

\* The parts of the type invariant.
WorldOK ==
    /\ link \in Disks /\ gone \subseteq Addon /\ there \subseteq Standing /\ starts \subseteq Starter
PlansOK ==
    /\ profile \in Profile /\ pinned \in [Profile -> [Addon -> Override]] /\ PinsAreOfTheProfile
    /\ previous \in [Profile -> Maybe(SUBSET Addon)]
UndoOK == undo \in Seq(Step) /\ base \in Maybe(Found) /\ replaced \subseteq Place
WorkOK == work \in [Worker -> Maybe(Batch)] /\ RepairsNameTheirTarget
ErrandsOK ==
    /\ deleting \in Maybe(Deletion)
    /\ deleting # None => DOMAIN deleting.seen = ToSet(deleting.left) /\ IsInjective(deleting.left)
    /\ moving \in Maybe(Move) /\ (moving # None => moving.from # moving.to)

\* The invariant in its parts.
LEMMA InParts == FInv <=> WorldOK /\ PlansOK /\ UndoOK /\ WorkOK /\ ErrandsOK /\ strange \subseteq Place \cup Starter
BY DEF FInv, FoldersTypeOK, TypeOK, WorldOK, PlansOK, UndoOK, WorkOK, ErrandsOK, AddonsAreDeletedOnce

\* The constants as the proofs use them.
LEMMA TheConstants ==
  /\ None \notin Addon /\ None # Folder /\ Folder \notin Addon /\ None \notin Worker
  /\ Starter \subseteq Addon /\ Chosen \subseteq Place /\ Removable \subseteq Addon /\ Vacant \subseteq Addon
  /\ \A p \in Profile : PlacesOf(p) \subseteq Place
  /\ \A q \in Place : \E p \in Profile : q \in PlacesOf(p)
  /\ \A p \in Profile : (CHOOSE d \in Default : d \in PlacesOf(p)) \in PlacesOf(p)
  /\ None \notin Batch /\ None \notin Found /\ None \notin Deletion /\ None \notin Move
<1>1. \A p \in Profile : (CHOOSE d \in Default : d \in PlacesOf(p)) \in PlacesOf(p)
  <2> SUFFICES ASSUME NEW p \in Profile PROVE (CHOOSE d \in Default : d \in PlacesOf(p)) \in PlacesOf(p)
    OBVIOUS
  <2>1. \E d \in Default : d \in PlacesOf(p)
    BY LinkingAssumption
  <2> QED
    BY <2>1
<1>2. \A q \in Place : \E p \in Profile : q \in PlacesOf(p)
  BY DEF Place, Profile, PlacesOf
<1> QED
  BY <1>1, <1>2, LinkingAssumption, NoneIsNoBatch, NoneIsNoErrand DEF PlacesOf, Place, Standing

\* A link is planned at a place of its profile, whatever the profile overrides.
LEMMA ADestinationIsOfTheProfile ==
  ASSUME NEW p \in Profile, NEW o \in OverrideOf(p)
  PROVE  Destination(p, o) \in PlacesOf(p)
BY TheConstants DEF Destination, OverrideOf, Maybe

\* So is that of every addon.
LEMMA PlansAreOfTheProfile ==
  ASSUME PlansOK, NEW p \in Profile
  PROVE  Planned(p) \in [Addon -> Place] /\ \A a \in Addon : Planned(p)[a] \in PlacesOf(p)
<1>1. \A a \in Addon : Destination(p, pinned[p][a]) \in PlacesOf(p)
  BY ADestinationIsOfTheProfile DEF PlansOK, PinsAreOfTheProfile
<1>2. PlacesOf(p) \subseteq Place
  BY TheConstants
<1> QED
  BY <1>1, <1>2 DEF Planned

\* And of an addon once it has been carried, by either of two overrides.
LEMMA OnceCarriedItIsOfTheProfile ==
  ASSUME PlansOK, NEW p \in Profile, NEW from \in Addon, NEW to \in Addon
  PROVE  /\ \A own \in OwnOnceCarried(p, from, to) : own \in Maybe(Chosen \cap PlacesOf(p))
         /\ \A d \in PlannedOnceCarried(p, from, to) : d \in PlacesOf(p)
<1>1. pinned[p][from] \in OverrideOf(p) /\ pinned[p][to] \in OverrideOf(p)
  BY DEF PlansOK, PinsAreOfTheProfile
<1>2. ASSUME NEW own \in OwnOnceCarried(p, from, to) PROVE own \in Maybe(Chosen \cap PlacesOf(p))
  BY <1>1 DEF OwnOnceCarried, OverrideOf, Maybe
<1>3. ASSUME NEW own \in OwnOnceCarried(p, from, to)
      PROVE  Destination(p, [pinned[p][to] EXCEPT !.own = own]) \in PlacesOf(p)
  <2>1. [pinned[p][to] EXCEPT !.own = own] \in OverrideOf(p)
    BY <1>1, <1>2, <1>3 DEF OverrideOf
  <2> QED
    BY <2>1, ADestinationIsOfTheProfile
<1> QED
  BY <1>2, <1>3 DEF PlannedOnceCarried

\* A batch that is no longer alone is the same batch.
LEMMA NoLongerAlone ==
  ASSUME NEW b \in Batch
  PROVE  LET c == [b EXCEPT !.alone = FALSE]
         IN  /\ c \in Batch /\ c # None /\ c.alone = FALSE
             /\ c.kind = b.kind /\ c.at = b.at /\ c.profile = b.profile /\ c.seen = b.seen /\ c.steps = b.steps
             /\ c.off = b.off /\ c.on = b.on /\ c.done = b.done /\ c.ran = b.ran /\ c.failed = b.failed
             /\ c.unlucky = b.unlucky /\ c.taken = b.taken /\ c.start = b.start
<1> DEFINE c == [b EXCEPT !.alone = FALSE]
<1>1. c \in Batch
  BY DEF Batch
<1>2. c # None
  <2> HIDE DEF c
  <2> QED
    BY <1>1, TheConstants
<1>3. /\ c.alone = FALSE /\ c.kind = b.kind /\ c.at = b.at /\ c.profile = b.profile /\ c.seen = b.seen
      /\ c.steps = b.steps /\ c.off = b.off /\ c.on = b.on /\ c.done = b.done /\ c.ran = b.ran
      /\ c.failed = b.failed /\ c.unlucky = b.unlucky /\ c.taken = b.taken /\ c.start = b.start
  BY DEF Batch
<1> QED
  BY <1>1, <1>2, <1>3

\* So are those of all the view models when somebody else changes something.
LEMMA NobodyIsAlone ==
  ASSUME NEW v \in Worker, work \in [Worker -> Maybe(Batch)]
  PROVE  /\ Nobody \in [Worker -> Maybe(Batch)]
         /\ work[v] = None => Nobody[v] = None
         /\ work[v] # None => /\ work[v] \in Batch /\ Nobody[v] = [work[v] EXCEPT !.alone = FALSE]
                              /\ Nobody[v] \in Batch /\ Nobody[v] # None /\ Nobody[v].alone = FALSE
                              /\ Nobody[v].steps = work[v].steps /\ Nobody[v].kind = work[v].kind
<1>1. \A u \in Worker : work[u] = None \/ work[u] \in Batch
  BY DEF Maybe
<1>2. \A u \in Worker : work[u] # None => [work[u] EXCEPT !.alone = FALSE] \in Batch
  BY <1>1, NoLongerAlone
<1>3. Nobody \in [Worker -> Maybe(Batch)]
  BY <1>2 DEF Nobody, Maybe
<1>4. work[v] # None => /\ Nobody[v] = [work[v] EXCEPT !.alone = FALSE]
                        /\ Nobody[v] \in Batch /\ Nobody[v] # None /\ Nobody[v].alone = FALSE
                        /\ Nobody[v].steps = work[v].steps /\ Nobody[v].kind = work[v].kind
  BY <1>1, NoLongerAlone DEF Nobody
<1> QED
  BY <1>1, <1>3, <1>4 DEF Nobody

\* When nothing happens to the batches but that.
LEMMA NobodyKeepsTheTypes ==
  ASSUME WorkOK, work' = Nobody
  PROVE  WorkOK'
<1>1. work' \in [Worker -> Maybe(Batch)]
  BY NobodyIsAlone DEF WorkOK, Nobody
<1>2. ASSUME NEW w \in Worker, work'[w] # None PROVE work'[w].steps \in Seq(StepsOf(work'[w].kind))
  <2>1. work[w] # None
    BY <1>2, NobodyIsAlone DEF WorkOK
  <2>2. work'[w].steps = work[w].steps /\ work'[w].kind = work[w].kind
    BY <2>1, NobodyIsAlone DEF WorkOK
  <2> QED
    BY <2>1, <2>2 DEF WorkOK, RepairsNameTheirTarget
<1> QED
  BY <1>1, <1>2 DEF WorkOK, RepairsNameTheirTarget, StepsOf, RepairStep

\* A deletion or a move that is crossed is the same one.
LEMMA CrossedKeepsTheTypes ==
  ASSUME ErrandsOK, deleting' \in {deleting, Crossed(deleting)}, moving' \in {moving, Crossed(moving)}
  PROVE  ErrandsOK'
<1>1. ASSUME NEW d \in Deletion
      PROVE  LET c == [d EXCEPT !.alone = FALSE]
             IN  c \in Deletion /\ c.left = d.left /\ c.seen = d.seen /\ c.deleted = d.deleted /\ c.alone = FALSE
  BY DEF Deletion
<1>2. ASSUME NEW m \in Move
      PROVE  LET c == [m EXCEPT !.alone = FALSE]
             IN  c \in Move /\ c.from = m.from /\ c.to = m.to /\ c.alone = FALSE
  BY DEF Move
<1>3. /\ deleting' \in Maybe(Deletion)
      /\ deleting' # None => DOMAIN deleting'.seen = ToSet(deleting'.left) /\ IsInjective(deleting'.left)
  BY <1>1 DEF ErrandsOK, Crossed, Maybe
<1>4. moving' \in Maybe(Move) /\ (moving' # None => moving'.from # moving'.to)
  BY <1>2 DEF ErrandsOK, Crossed, Maybe
<1> QED
  BY <1>3, <1>4 DEF ErrandsOK, Maybe, Move, Deletion

-----------------------------------------------------------------------------
(* What is asked for. *)

TakesDown == {s \in Step : s.does \in {"unlink", "turnOff"}}
PutsUp == {s \in Step : s.does = "link"}

\* The step at a place that is still to come.
ToUnlink(b, q) == \E i \in 1..Len(b.steps) : b.steps[i].does = "unlink" /\ b.steps[i].place = q
ToLink(b, a) == \E i \in 1..Len(b.steps) : b.steps[i].does = "link" /\ b.steps[i].addon = a

\* A repair has one step at most, and takes a dead link.
OfADeadLink(b) == b.kind = "repair" => \A i \in 1..Len(b.steps) : link[b.steps[i].place] \in Dead
\* What was read differs from what there is only where a step ran.
AsItWasRead(b) ==
    \E disk \in Disks : /\ b.seen = Entries(disk, there, PlacesOf(b.profile))
                        /\ \A q \in PlacesOf(b.profile) \ b.ran : link[q] = disk[q]
\* Nothing is unlinked after something was linked, and only what was asked for is linked.
InOrder(b) ==
    /\ \A i, j \in 1..Len(b.steps) : i < j /\ b.steps[i].does = "link" => b.steps[j].does # "unlink"
    /\ \A i \in 1..Len(b.steps) : b.steps[i].does = "link" => /\ b.steps[i].addon \in b.on
                                                                /\ b.steps[i].place \in PlacesOf(b.profile)
\* Every link that is to go is still to be unlinked, or could not be.
OffIsUnderWay(b) ==
    \A a \in b.off \cap there, q \in PlacesOf(b.profile) :
      link[q] = a => ToUnlink(b, q) \/ \E s \in b.failed : s.place = q
\* Every addon that is to be linked has a link that stays, or is still to be linked, or could not be.
OnIsUnderWay(b) ==
    \A a \in b.on \cap there :
      \/ \E s \in b.failed : s.addon = a
      \/ ToLink(b, a)
      \/ \E q \in PlacesOf(b.profile) : link[q] = a /\ ~ToUnlink(b, q)
Sets(b) == b.kind \notin {"repair", "undo"}
UnderWay(b) ==
    /\ Sets(b) => b.off \cap b.on = {} /\ InOrder(b) /\ OffIsUnderWay(b) /\ OnIsUnderWay(b)
    /\ ~Sets(b) => b.off = {} /\ b.on = {}

BatchInv(b) == OfADeadLink(b) /\ AsItWasRead(b) /\ UnderWay(b)

\* What a batch may do of the startup entries: an undo turns them on, and a toggle turns off
\* those that are on.
SwitchesOf(b, w) ==
    \A i \in 1..Len(b.steps) :
      /\ b.steps[i].does = "turnOff" => w = "tree" /\ b.kind # "undo"
      /\ b.steps[i].does = "turnOn" => b.kind = "undo"
      /\ b.steps[i].does = "turnOff" => b.steps[i].addon \in starts

\* A batch as it is asked for.
Asked(kind, steps, off, on) ==
    [kind |-> kind, at |-> "read", profile |-> profile, seen |-> Known, steps |-> steps,
     off |-> off, on |-> on, done |-> <<>>, ran |-> {}, failed |-> {}, unlucky |-> {}, taken |-> {},
     start |-> None, alone |-> TRUE]

\* Steps that take down, then steps that put up.
LEMMA DownThenUp ==
  ASSUME NEW F \in Seq(TakesDown), NEW N \in Seq(PutsUp)
  PROVE  LET s == F \o N
         IN  /\ s \in Seq(Step)
             /\ \A k \in 1..Len(F) : \E i \in 1..Len(s) : s[i] = F[k]
             /\ \A k \in 1..Len(N) : \E i \in 1..Len(s) : s[i] = N[k]
             /\ \A i \in 1..Len(s) : s[i].does \in {"unlink", "turnOff"} => \E k \in 1..Len(F) : F[k] = s[i]
             /\ \A i \in 1..Len(s) : s[i].does = "link" => \E k \in 1..Len(N) : N[k] = s[i]
             /\ \A i \in 1..Len(s) : s[i].does # "turnOn"
             /\ \A i, j \in 1..Len(s) : i < j /\ s[i].does = "link" => s[j].does # "unlink"
<1> DEFINE s == F \o N
<1>1. F \in Seq(Step) /\ N \in Seq(Step)
  BY DEF TakesDown, PutsUp
<1>2. /\ s \in Seq(Step) /\ Len(s) = Len(F) + Len(N) /\ Len(F) \in Nat /\ Len(N) \in Nat
      /\ \A k \in 1..Len(F) : k \in 1..Len(s) /\ s[k] = F[k]
      /\ \A k \in 1..Len(N) : Len(F) + k \in 1..Len(s) /\ s[Len(F) + k] = N[k]
      /\ \A k \in 1..Len(s) : k \in 1..Len(F) \/ (k - Len(F) \in 1..Len(N) /\ s[k] = N[k - Len(F)])
  BY <1>1, OneThenTheOther
<1>3. \A k \in 1..Len(F) : F[k].does \in {"unlink", "turnOff"}
  BY ElementOfSeq DEF TakesDown
<1>4. \A k \in 1..Len(N) : N[k].does = "link"
  BY ElementOfSeq DEF PutsUp
<1> HIDE DEF s
<1>5. ASSUME NEW i \in 1..Len(s), s[i].does = "link"
      PROVE  ~(i <= Len(F)) /\ i - Len(F) \in 1..Len(N) /\ s[i] = N[i - Len(F)]
  BY SMTT(30), <1>2, <1>3, <1>5
<1>6. ASSUME NEW i \in 1..Len(s), NEW j \in 1..Len(s), i < j, s[i].does = "link" PROVE s[j].does # "unlink"
  <2>1. ~(j <= Len(F))
    BY <1>2, <1>5, <1>6
  <2>2. j - Len(F) \in 1..Len(N) /\ s[j] = N[j - Len(F)]
    BY <1>2, <2>1
  <2> QED
    BY <1>4, <2>2
<1>7. \A i \in 1..Len(s) : s[i].does \in {"unlink", "turnOff"} => \E k \in 1..Len(F) : F[k] = s[i]
  BY <1>2, <1>4
<1>8. \A i \in 1..Len(s) : s[i].does # "turnOn"
  BY <1>2, <1>3, <1>4
<1>9. \A k \in 1..Len(N) : \E i \in 1..Len(s) : s[i] = N[k]
  BY <1>2
<1> QED
  BY <1>2, <1>5, <1>6, <1>7, <1>8, <1>9 DEF s

\* A set of addons in some order.
LEMMA InSomeOrder ==
  ASSUME NEW A \in SUBSET Addon
  PROVE  /\ SetToSeq(A) \in Seq(Addon) /\ ToSet(SetToSeq(A)) = A /\ IsInjective(SetToSeq(A))
         /\ \A order \in SetToSeqs(A) : order \in Seq(Addon) /\ ToSet(order) = A
<1>1. IsFiniteSet(A)
  BY LinkingAssumption, FS_Subset
<1>2. Cardinality(A) \in Nat /\ SetToSeq(A) \in [1..Cardinality(A) -> A] /\ IsInjective(SetToSeq(A))
  BY <1>1, LaidOut
<1>3. ASSUME NEW f \in [1..Cardinality(A) -> A], IsInjective(f) PROVE f \in Seq(Addon) /\ ToSet(f) = A
  <2>1. f \in Seq(Addon) /\ DOMAIN f = 1..Cardinality(A)
    BY <1>2, InARow
  <2>2. \A x \in A : \E i \in 1..Cardinality(A) : f[i] = x
    BY <1>1, <1>3, NoneIsLeftOut
  <2> QED
    BY <2>1, <2>2 DEF ToSet
<1>4. \A f \in SetToSeqs(A) : f \in [1..Cardinality(A) -> A] /\ IsInjective(f)
  BY DEF SetToSeqs, IsInjective
<1> QED
  BY <1>2, <1>3, <1>4

\* What a view model knows of the disk when it plans.
LEMMA WhatIsKnown ==
  ASSUME FInv
  PROVE  /\ Known \in Readings
         /\ \A a : LinksTo(Known, a) = {q \in PlacesOf(profile) : link[q] = a /\ a \in there}
         /\ Enabled(Known) = {a \in there : \E q \in PlacesOf(profile) : link[q] = a}
         /\ \A a : LinksTo(Known, a) \subseteq Place
         /\ \A a : LinksTo(Known, a) # {} <=> a \in Enabled(Known)
         /\ Enabled(Known) \subseteq Standing /\ Standing \subseteq Addon
<1>1. link \in Disks /\ there \in SUBSET Addon /\ profile \in Profile /\ there \subseteq Standing
  BY InParts DEF WorldOK, PlansOK, Standing
<1>2. /\ Known \in Readings
      /\ \A a : LinksTo(Known, a) = {q \in PlacesOf(profile) : link[q] = a /\ a \in there}
      /\ Enabled(Known) = {a \in there : \E q \in PlacesOf(profile) : link[q] = a}
  <2>1. Known = Entries(link, there, PlacesOf(profile))
    BY DEF Known
  <2>2. Known \in Readings
    BY <1>1, <2>1, WhatIsRead
  <2>3. \A a : LinksTo(Known, a) = {q \in PlacesOf(profile) : link[q] = a /\ a \in there}
    <3>1. \A a : LinksTo(Entries(link, there, PlacesOf(profile)), a)
                   = {q \in PlacesOf(profile) : link[q] = a /\ a \in there}
      BY <1>1, WhatIsLinked
    <3> QED
      BY <2>1, <3>1
  <2>4. Enabled(Known) = {a \in there : \E q \in PlacesOf(profile) : link[q] = a}
    BY <1>1, <2>1, WhatIsLinked
  <2> QED
    BY <2>2, <2>3, <2>4
<1>3. PlacesOf(profile) \subseteq Place
  BY <1>1, TheConstants
<1> HIDE DEF Known
<1> QED
  BY <1>1, <1>2, <1>3 DEF Standing

\* A batch that is asked for is one, of what was read.
LEMMA AskedIsABatch ==
  ASSUME FInv, NEW kind \in {"toggle", "relink", "repair", "apply", "back", "undo"}, NEW steps \in Seq(Step),
         NEW off \in SUBSET Addon, NEW on \in SUBSET Addon
  PROVE  LET b == Asked(kind, steps, off, on)
         IN  /\ b \in Batch /\ b.kind = kind /\ b.steps = steps /\ b.off = off /\ b.on = on /\ b.profile = profile
             /\ b.at = "read" /\ b.done = <<>> /\ b.taken = {} /\ b.unlucky = {} /\ b.failed = {}
             /\ AsItWasRead(b)
<1> DEFINE b == Asked(kind, steps, off, on)
<1>1. link \in Disks /\ there \in SUBSET Addon /\ profile \in Profile
  BY InParts DEF WorldOK, PlansOK, Standing
<1>2. Known \in Readings
  BY WhatIsKnown
<1>3. /\ b.kind = kind /\ b.steps = steps /\ b.off = off /\ b.on = on /\ b.profile = profile /\ b.seen = Known
      /\ b.at = "read" /\ b.done = <<>> /\ b.taken = {} /\ b.unlucky = {} /\ b.failed = {}
  BY DEF Asked
<1>4. b \in Batch
  <2> HIDE DEF Known
  <2> QED
    BY <1>1, <1>2 DEF Asked, Batch, Maybe
<1>5. AsItWasRead(b)
  BY <1>1, <1>3 DEF AsItWasRead, Known
<1> QED
  BY <1>3, <1>4, <1>5

\* A toggle, a preset or the previous set is planned so that it does what it is asked for.
LEMMA SettingIsSound ==
  ASSUME FInv, NEW w \in Worker, NEW kind \in {"toggle", "apply", "back"},
         NEW off \in SUBSET Addon, NEW on \in SUBSET Addon, off \cap on = {},
         NEW agreed \in SUBSET starts, agreed # {} => w = "tree",
         NEW order \in SetToSeqs(on), NEW steps,
         steps = OffSteps(Known, SetToSeq(off), agreed) \o OnSteps(Known, order, Planned(profile))
  PROVE  /\ steps \in Seq(StepsOf(kind))
         /\ BatchInv(Asked(kind, steps, off, on)) /\ SwitchesOf(Asked(kind, steps, off, on), w)
<1> DEFINE e == Known
           pins == Planned(profile)
           downs == SetToSeq(off)
           F == OffSteps(e, downs, agreed)
           N == OnSteps(e, order, pins)
           b == Asked(kind, steps, off, on)
<1>1. /\ downs \in Seq(Addon) /\ ToSet(downs) = off
      /\ order \in Seq(Addon) /\ ToSet(order) = on
  BY InSomeOrder
<1>2. /\ \A a : LinksTo(e, a) \subseteq Place
      /\ \A a : LinksTo(e, a) # {} <=> a \in Enabled(e)
      /\ \A a : LinksTo(e, a) = {q \in PlacesOf(profile) : link[q] = a /\ a \in there}
      /\ Enabled(e) = {a \in there : \E q \in PlacesOf(profile) : link[q] = a}
  BY WhatIsKnown
<1>3. pins \in [Addon -> Place] /\ \A a \in Addon : pins[a] \in PlacesOf(profile)
  BY InParts, PlansAreOfTheProfile DEF PlansOK
<1>4. agreed \in SUBSET Addon
  BY InParts, TheConstants DEF WorldOK
<1> HIDE DEF e, pins, downs
<1>5. /\ F \in Seq(Unlinks(e, off) \cup TurnsOff(agreed))
      /\ \A a \in off : \A q \in LinksTo(e, a) : Has(F, Does("unlink", a, q))
  <2>1. /\ F \in Seq(Unlinks(e, ToSet(downs)) \cup TurnsOff(agreed))
        /\ \A a \in ToSet(downs) : \A q \in LinksTo(e, a) : Has(F, Does("unlink", a, q))
    BY <1>1, <1>2, <1>4, WhatIsTurnedOff
  <2> HIDE DEF F
  <2> QED
    BY <1>1, <2>1
<1>6. /\ N \in Seq(LinksMade(on \ Enabled(e), pins))
      /\ \A a \in on \ Enabled(e) : Has(N, Does("link", a, pins[a]))
  <2>1. /\ N \in Seq(LinksMade(ToSet(order) \ Enabled(e), pins))
        /\ \A a \in ToSet(order) \ Enabled(e) : Has(N, Does("link", a, pins[a]))
    BY <1>1, <1>3, WhatIsTurnedOn
  <2> HIDE DEF N
  <2> QED
    BY <1>1, <2>1
<1>7. steps = F \o N
  BY DEF e, pins, downs
<1> HIDE DEF F, N
<1>8. F \in Seq(TakesDown) /\ N \in Seq(PutsUp)
  <2>1. Unlinks(e, off) \cup TurnsOff(agreed) \subseteq TakesDown
    BY DEF Unlinks, TurnsOff, TakesDown
  <2>2. LinksMade(on \ Enabled(e), pins) \subseteq PutsUp
    BY DEF LinksMade, PutsUp
  <2>3. \A S, T : S \subseteq T => Seq(S) \subseteq Seq(T)
    BY SeqDef
  <2> QED
    BY <1>5, <1>6, <2>1, <2>2, <2>3
<1>9. /\ steps \in Seq(Step)
      /\ \A k \in 1..Len(F) : \E i \in 1..Len(steps) : steps[i] = F[k]
      /\ \A k \in 1..Len(N) : \E i \in 1..Len(steps) : steps[i] = N[k]
      /\ \A i \in 1..Len(steps) : steps[i].does \in {"unlink", "turnOff"} => \E k \in 1..Len(F) : F[k] = steps[i]
      /\ \A i \in 1..Len(steps) : steps[i].does = "link" => \E k \in 1..Len(N) : N[k] = steps[i]
      /\ \A i \in 1..Len(steps) : steps[i].does # "turnOn"
      /\ \A i, j \in 1..Len(steps) : i < j /\ steps[i].does = "link" => steps[j].does # "unlink"
  BY <1>7, <1>8, DownThenUp
<1>10. \A k \in 1..Len(F) : F[k] \in Unlinks(e, off) \/ F[k] \in TurnsOff(agreed)
  BY <1>5, ElementOfSeq
<1>11. \A k \in 1..Len(N) : N[k] \in LinksMade(on \ Enabled(e), pins)
  BY <1>6, ElementOfSeq
<1>12. /\ b.kind = kind /\ b.steps = steps /\ b.off = off /\ b.on = on /\ b.profile = profile /\ b.failed = {}
       /\ AsItWasRead(b)
  <2>1. kind \in {"toggle", "relink", "repair", "apply", "back", "undo"} /\ steps \in Seq(Step)
    BY <1>9
  <2>2. AsItWasRead(b)
    BY ZenonT(30), <2>1, AskedIsABatch
  <2>3. b.kind = kind /\ b.steps = steps /\ b.off = off /\ b.on = on /\ b.profile = profile /\ b.failed = {}
    BY DEF Asked
  <2> QED
    BY <2>2, <2>3
<1> HIDE DEF b
<1>13. InOrder(b)
  <2>1. ASSUME NEW i \in 1..Len(steps), steps[i].does = "link"
        PROVE  steps[i].addon \in on /\ steps[i].place \in PlacesOf(profile)
    <3>1. steps[i] \in LinksMade(on \ Enabled(e), pins)
      BY <1>9, <1>11, <2>1
    <3> QED
      BY <1>3, <3>1 DEF LinksMade
  <2> QED
    BY <1>9, <1>12, <2>1 DEF InOrder
<1>14. OffIsUnderWay(b)
  <2> SUFFICES ASSUME NEW a \in off \cap there, NEW q \in PlacesOf(profile), link[q] = a PROVE ToUnlink(b, q)
    BY <1>12 DEF OffIsUnderWay
  <2>1. q \in LinksTo(e, a)
    BY <1>2
  <2>2. PICK k \in 1..Len(F) : F[k] = Does("unlink", a, q)
    BY <1>5, <2>1 DEF Has
  <2>3. PICK i \in 1..Len(steps) : steps[i] = F[k]
    BY <1>9
  <2> QED
    BY <1>12, <2>2, <2>3 DEF ToUnlink, Does
<1>15. OnIsUnderWay(b)
  <2> SUFFICES ASSUME NEW a \in on \cap there
               PROVE  ToLink(b, a) \/ \E q \in PlacesOf(profile) : link[q] = a /\ ~ToUnlink(b, q)
    BY <1>12 DEF OnIsUnderWay
  <2>1. CASE a \in Enabled(e)
    <3>1. PICK q \in PlacesOf(profile) : link[q] = a
      BY <1>2, <2>1
    <3>2. ASSUME NEW i \in 1..Len(steps), steps[i].does = "unlink" PROVE steps[i].place # q
      <4>1. steps[i] \in Unlinks(e, off)
        BY <1>9, <1>10, <3>2 DEF TurnsOff
      <4>2. steps[i].addon \in off /\ link[steps[i].place] = steps[i].addon
        BY <1>2, <4>1 DEF Unlinks
      <4> QED
        BY <3>1, <4>2
    <3> QED
      BY <1>12, <3>1, <3>2 DEF ToUnlink
  <2>2. CASE a \notin Enabled(e)
    <3>1. PICK i \in 1..Len(steps) : steps[i] = Does("link", a, pins[a])
      BY <1>6, <1>9, <2>2 DEF Has
    <3> QED
      BY <1>12, <3>1 DEF ToLink, Does
  <2> QED
    BY <2>1, <2>2
<1>16. SwitchesOf(b, w)
  <2>1. ASSUME NEW i \in 1..Len(steps), steps[i].does = "turnOff" PROVE steps[i].addon \in agreed
    <3>1. steps[i] \in TurnsOff(agreed)
      BY <1>9, <1>10, <2>1 DEF Unlinks
    <3> QED
      BY <3>1 DEF TurnsOff
  <2> QED
    BY <1>9, <1>12, <2>1 DEF SwitchesOf
<1> QED
  BY <1>9, <1>12, <1>13, <1>14, <1>15, <1>16 DEF BatchInv, OfADeadLink, UnderWay, Sets, StepsOf, b

\* So is a relinking.
LEMMA RelinkingIsSound ==
  ASSUME FInv, NEW w \in Worker, NEW nodes \in SUBSET Addon, NEW order \in SetToSeqs(nodes), NEW steps,
         steps = RelinkSteps(Known, order, Planned(profile))
  PROVE  LET b == Asked("relink", steps, {}, nodes \cap Enabled(Known))
         IN  steps \in Seq(StepsOf("relink")) /\ BatchInv(b) /\ SwitchesOf(b, w)
<1> DEFINE e == Known
           pins == Planned(profile)
           on == nodes \cap Enabled(e)
           b == Asked("relink", steps, {}, on)
<1>1. order \in Seq(Addon) /\ ToSet(order) = nodes
  BY InSomeOrder
<1>2. /\ \A a : LinksTo(e, a) \subseteq Place
      /\ \A a : LinksTo(e, a) # {} <=> a \in Enabled(e)
  BY WhatIsKnown
<1>3. pins \in [Addon -> Place] /\ \A a \in Addon : pins[a] \in PlacesOf(profile)
  BY InParts, PlansAreOfTheProfile DEF PlansOK
<1>4. steps = RelinkSteps(e, order, pins)
  OBVIOUS
<1> HIDE DEF e, pins
<1>5. PICK F \in Seq(Unlinks(e, ToSet(order))), N \in Seq(LinksMade(ToSet(order) \cap Enabled(e), pins)) :
           /\ steps = F \o N
           /\ \A a \in ToSet(order) \cap Enabled(e) : Has(N, Does("link", a, pins[a]))
  BY <1>1, <1>2, <1>3, <1>4, WhatIsRelinked
<1>6. N \in Seq(LinksMade(on, pins)) /\ \A a \in on : Has(N, Does("link", a, pins[a]))
  BY <1>1, <1>5
<1>7. F \in Seq(TakesDown) /\ N \in Seq(PutsUp)
  <2>1. Unlinks(e, ToSet(order)) \subseteq TakesDown /\ LinksMade(on, pins) \subseteq PutsUp
    BY DEF Unlinks, TakesDown, LinksMade, PutsUp
  <2>2. \A S, T : S \subseteq T => Seq(S) \subseteq Seq(T)
    BY SeqDef
  <2> QED
    BY <1>5, <1>6, <2>1, <2>2
<1>8. /\ steps \in Seq(Step)
      /\ \A k \in 1..Len(N) : \E i \in 1..Len(steps) : steps[i] = N[k]
      /\ \A i \in 1..Len(steps) : steps[i].does \in {"unlink", "turnOff"} => \E k \in 1..Len(F) : F[k] = steps[i]
      /\ \A i \in 1..Len(steps) : steps[i].does = "link" => \E k \in 1..Len(N) : N[k] = steps[i]
      /\ \A i \in 1..Len(steps) : steps[i].does # "turnOn"
      /\ \A i, j \in 1..Len(steps) : i < j /\ steps[i].does = "link" => steps[j].does # "unlink"
  BY <1>5, <1>7, DownThenUp
<1>9. \A k \in 1..Len(F) : F[k] \in Unlinks(e, ToSet(order))
  BY <1>5, ElementOfSeq
<1>10. \A k \in 1..Len(N) : N[k] \in LinksMade(on, pins)
  BY <1>6, ElementOfSeq
<1>11. on \in SUBSET Addon
  OBVIOUS
<1>12. AsItWasRead(b)
  BY <1>8, <1>11, AskedIsABatch
<1>13. b.kind = "relink" /\ b.steps = steps /\ b.off = {} /\ b.on = on /\ b.profile = profile /\ b.failed = {}
  BY DEF Asked
<1>14. InOrder(b)
  <2>1. ASSUME NEW i \in 1..Len(steps), steps[i].does = "link"
        PROVE  steps[i].addon \in on /\ steps[i].place \in PlacesOf(profile)
    <3>1. steps[i] \in LinksMade(on, pins)
      BY <1>8, <1>10, <2>1
    <3> HIDE DEF on
    <3> QED
      BY <1>3, <1>11, <3>1 DEF LinksMade
  <2> HIDE DEF b
  <2> QED
    BY <1>8, <1>13, <2>1 DEF InOrder
<1> HIDE DEF b, on
<1>15. OnIsUnderWay(b)
  <2> SUFFICES ASSUME NEW a \in on \cap there PROVE ToLink(b, a)
    BY <1>13 DEF OnIsUnderWay
  <2>1. PICK k \in 1..Len(N) : N[k] = Does("link", a, pins[a])
    BY <1>6 DEF Has
  <2>2. PICK i \in 1..Len(steps) : steps[i] = N[k]
    BY <1>8
  <2> QED
    BY <1>13, <2>1, <2>2 DEF ToLink, Does
<1>16. OffIsUnderWay(b)
  BY <1>13 DEF OffIsUnderWay
<1>17. SwitchesOf(b, w)
  <2>1. \A i \in 1..Len(steps) : steps[i].does # "turnOff"
    BY <1>8, <1>9 DEF Unlinks
  <2> QED
    BY <1>8, <1>13, <2>1 DEF SwitchesOf
<1> QED
  BY <1>8, <1>12, <1>13, <1>14, <1>15, <1>16, <1>17 DEF BatchInv, OfADeadLink, UnderWay, Sets, StepsOf, b, on, e

\* A repair takes what is dead.
LEMMA RepairingIsSound ==
  ASSUME FInv, NEW w \in Worker, NEW r \in Requests, r.place \in PlacesOf(profile), NEW steps,
         steps = RepairSteps(Known, {r})
  PROVE  LET b == Asked("repair", steps, {}, {})
         IN  /\ steps \in Seq(StepsOf("repair")) /\ Len(steps) <= 1
             /\ BatchInv(b) /\ SwitchesOf(b, w)
<1> DEFINE b == Asked("repair", steps, {}, {})
           S == {s \in Step : s.does \in {"link", "unlink"} /\ s.was \in Addon /\ link[s.place] \in Addon \ there}
<1>1. link \in Disks /\ there \in SUBSET Addon /\ profile \in Profile
  BY InParts DEF WorldOK, PlansOK, Standing
<1>2. r \in [place : PlacesOf(profile), was : Addon, to : Addon \cup {None}]
  BY DEF Requests, Standing
<1>3. steps = RepairSteps(Entries(link, there, PlacesOf(profile)), {r})
  BY DEF Known
<1>4. steps \in Seq(S) /\ Len(steps) <= 1
  BY SMTT(30), <1>1, <1>2, <1>3, WhatIsRepaired
<1>5. \A i \in 1..Len(steps) : steps[i] \in S
  <2> HIDE DEF S
  <2> QED
    BY <1>4, ElementOfSeq
<1>6. steps \in Seq(RepairStep) /\ steps \in Seq(Step)
  <2>1. S \subseteq RepairStep /\ S \subseteq Step
    BY DEF RepairStep
  <2>2. \A X, Y : X \subseteq Y => Seq(X) \subseteq Seq(Y)
    BY SeqDef
  <2> HIDE DEF S
  <2> QED
    BY <1>4, <2>1, <2>2
<1>7. AsItWasRead(b)
  BY <1>6, AskedIsABatch
<1>8. b.kind = "repair" /\ b.steps = steps /\ b.off = {} /\ b.on = {}
  BY DEF Asked
<1>9. OfADeadLink(b)
  BY <1>5, <1>8 DEF OfADeadLink, Dead
<1>10. SwitchesOf(b, w)
  BY <1>5, <1>8 DEF SwitchesOf
<1> HIDE DEF b
<1> QED
  BY <1>4, <1>6, <1>7, <1>8, <1>9, <1>10 DEF BatchInv, UnderWay, Sets, StepsOf, b

\* An undo takes its steps when its turn comes.
LEMMA AskingToUndoIsSound ==
  ASSUME FInv, NEW w \in Worker
  PROVE  LET b == Asked("undo", <<>>, {}, {})
         IN  /\ <<>> \in Seq(StepsOf("undo")) /\ BatchInv(b) /\ SwitchesOf(b, w)
<1> DEFINE b == Asked("undo", <<>>, {}, {})
<1>1. <<>> \in Seq(Step) /\ Len(<<>>) = 0
  BY EmptySeq
<1>2. AsItWasRead(b)
  BY <1>1, AskedIsABatch
<1>3. b.kind = "undo" /\ b.steps = <<>> /\ b.off = {} /\ b.on = {}
  BY DEF Asked
<1> HIDE DEF b
<1>4. BatchInv(b) /\ SwitchesOf(b, w)
  BY <1>1, <1>2, <1>3 DEF BatchInv, OfADeadLink, UnderWay, Sets, SwitchesOf
<1> QED
  BY <1>1, <1>4 DEF StepsOf, b

\* What any of the view models asks.
Asks(w, kind, steps, off, on) ==
    /\ work[w] = None /\ work' = [work EXCEPT ![w] = Asked(kind, steps, off, on)]
    /\ steps \in Seq(StepsOf(kind)) /\ (kind = "repair" => Len(steps) <= 1)
    /\ BatchInv(Asked(kind, steps, off, on)) /\ SwitchesOf(Asked(kind, steps, off, on), w)
    /\ UNCHANGED <<world, profile, pinned, undo, ghosts, mishaps>>
    /\ previous' \in [Profile -> Maybe(SUBSET Addon)]
SomeBatchIsAsked ==
    \E w \in Worker, kind \in {"toggle", "relink", "repair", "apply", "back", "undo"} :
    \E steps \in Seq(Step), off \in SUBSET Addon, on \in SUBSET Addon : Asks(w, kind, steps, off, on)

\* Whoever sets addons, in whatever order.
LEMMA SettingIsAsking ==
  ASSUME FInv, NEW w \in Worker, NEW kind \in {"toggle", "apply", "back"},
         NEW off \in SUBSET Addon, NEW on \in SUBSET Addon, off \cap on = {},
         NEW agreed \in SUBSET starts, agreed # {} => w = "tree",
         SetEnabled(w, kind, off, on, agreed), previous' \in [Profile -> Maybe(SUBSET Addon)]
  PROVE  SomeBatchIsAsked
<1>1. PICK order \in SetToSeqs(on) :
        Ask(w, kind, OffSteps(Known, SetToSeq(off), agreed) \o OnSteps(Known, order, Planned(profile)), off, on)
  BY DEF SetEnabled
<1> DEFINE steps == OffSteps(Known, SetToSeq(off), agreed) \o OnSteps(Known, order, Planned(profile))
<1>2. /\ steps \in Seq(StepsOf(kind))
      /\ BatchInv(Asked(kind, steps, off, on)) /\ SwitchesOf(Asked(kind, steps, off, on), w)
  BY SettingIsSound
<1>3. Ask(w, kind, steps, off, on) /\ MayAsk(w)
  BY <1>1 DEF SetEnabled
<1> HIDE DEF steps
<1>4. Asks(w, kind, steps, off, on)
  BY <1>2, <1>3 DEF Asks, Ask, Asked, MayAsk
<1>5. steps \in Seq(Step)
  BY <1>2 DEF StepsOf
<1> QED
  BY <1>4, <1>5 DEF SomeBatchIsAsked

\* Whatever is asked for is planned soundly.
LEMMA AskingIsSound ==
  ASSUME FInv, SomeoneAsks
  PROVE  SomeBatchIsAsked
<1>1. /\ Standing \subseteq Addon /\ previous \in [Profile -> Maybe(SUBSET Addon)]
      /\ Enabled(Known) \subseteq Standing /\ profile \in Profile /\ {} \in SUBSET starts /\ starts \in SUBSET starts
  BY InParts, WhatIsKnown DEF PlansOK
<1>2. ASSUME "tree" \in Worker, NEW off \in SUBSET Standing, NEW on \in SUBSET Standing, NEW agreed \in {{}, starts},
             Toggle(off, on, agreed)
      PROVE  SomeBatchIsAsked
  <2>1. /\ SetEnabled("tree", "toggle", off, on, agreed) /\ off \cap on = {} /\ previous' = previous
    BY <1>2 DEF Toggle
  <2>2. off \in SUBSET Addon /\ on \in SUBSET Addon /\ agreed \in SUBSET starts
    BY <1>1
  <2> QED
    BY <1>1, <1>2, <2>1, <2>2, SettingIsAsking
<1>3. ASSUME "tree" \in Worker, NEW nodes \in SUBSET Standing, RelinkToTheProfileDestination(nodes)
      PROVE  SomeBatchIsAsked
  <2>1. /\ MayAsk("tree") /\ previous' = previous
        /\ \E order \in SetToSeqs(nodes) :
             Ask("tree", "relink", RelinkSteps(Known, order, Planned(profile)), {}, nodes \cap Enabled(Known))
    BY <1>3 DEF RelinkToTheProfileDestination
  <2>2. PICK order \in SetToSeqs(nodes) :
          Ask("tree", "relink", RelinkSteps(Known, order, Planned(profile)), {}, nodes \cap Enabled(Known))
    BY <2>1
  <2> DEFINE steps == RelinkSteps(Known, order, Planned(profile))
             on == nodes \cap Enabled(Known)
             w == "tree"
  <2>3. nodes \in SUBSET Addon /\ on \in SUBSET Addon /\ {} \in SUBSET Addon /\ w \in Worker
    BY <1>1, <1>3
  <2>4. /\ steps \in Seq(StepsOf("relink"))
        /\ BatchInv(Asked("relink", steps, {}, on)) /\ SwitchesOf(Asked("relink", steps, {}, on), w)
    BY <2>3, RelinkingIsSound
  <2>5. Ask(w, "relink", steps, {}, on) /\ work[w] = None
    BY <2>1, <2>2 DEF MayAsk
  <2> HIDE DEF steps, on, w
  <2>6. Asks(w, "relink", steps, {}, on)
    BY <1>1, <2>1, <2>4, <2>5 DEF Asks, Ask, Asked
  <2>7. steps \in Seq(Step)
    BY <2>4 DEF StepsOf
  <2> QED
    BY <2>3, <2>6, <2>7 DEF SomeBatchIsAsked
<1>4. ASSUME "community" \in Worker, NEW r \in Requests, r.place \in PlacesOf(profile), Repair({r})
      PROVE  SomeBatchIsAsked
  <2> DEFINE steps == RepairSteps(Known, {r})
             w == "community"
  <2>1. MayAsk(w) /\ Ask(w, "repair", steps, {}, {}) /\ previous' = previous
    BY <1>4 DEF Repair
  <2>2. /\ steps \in Seq(StepsOf("repair")) /\ Len(steps) <= 1
        /\ BatchInv(Asked("repair", steps, {}, {})) /\ SwitchesOf(Asked("repair", steps, {}, {}), w)
    BY <1>4, RepairingIsSound
  <2>3. w \in Worker
    BY <1>4
  <2> HIDE DEF steps, w
  <2>4. Asks(w, "repair", steps, {}, {})
    BY <1>1, <2>1, <2>2 DEF Asks, Ask, Asked, MayAsk
  <2>5. steps \in Seq(Step)
    <3>1. \A X, Y : X \subseteq Y => Seq(X) \subseteq Seq(Y)
      BY SeqDef
    <3>2. StepsOf("repair") \subseteq Step
      BY DEF StepsOf, RepairStep
    <3> QED
      BY <2>2, <3>1, <3>2
  <2> QED
    BY <2>3, <2>4, <2>5 DEF SomeBatchIsAsked
<1>5. ASSUME "presets" \in Worker, NEW preset \in [Standing -> {"enable", "disable", "unnamed"}],
             NEW mode \in {"replace", "cumulative", "disable"},
             SetEnabled("presets", "apply", PresetOff(Known, preset, mode), PresetOn(preset, mode), {})
             \/ SetEnabled("presets", "back", PresetOff(Known, preset, mode), PresetOn(preset, mode), {}),
             previous' \in [Profile -> Maybe(SUBSET Addon)]
      PROVE  SomeBatchIsAsked
  <2> DEFINE off == PresetOff(Known, preset, mode)
             on == PresetOn(preset, mode)
  <2>1. off \in SUBSET Addon /\ on \in SUBSET Addon
    BY <1>1 DEF PresetOff, PresetOn
  <2>2. off \cap on = {}
    BY DEF PresetOff, PresetOn
  <2> HIDE DEF off, on
  <2>3. SetEnabled("presets", "apply", off, on, {}) \/ SetEnabled("presets", "back", off, on, {})
    BY <1>5 DEF off, on
  <2> QED
    BY <1>1, <1>5, <2>1, <2>2, <2>3, SettingIsAsking
<1>6. ASSUME "presets" \in Worker, NEW preset \in [Standing -> {"enable", "disable", "unnamed"}],
             NEW mode \in {"replace", "cumulative", "disable"}, Apply(preset, mode)
      PROVE  SomeBatchIsAsked
  <2>1. previous' \in [Profile -> Maybe(SUBSET Addon)]
    BY <1>1, <1>6 DEF Apply, Maybe
  <2>2. SetEnabled("presets", "apply", PresetOff(Known, preset, mode), PresetOn(preset, mode), {})
    BY <1>6 DEF Apply
  <2> QED
    BY <1>5, <1>6, <2>1, <2>2
<1>7. ASSUME "presets" \in Worker, ApplyReturn PROVE SomeBatchIsAsked
  <2> DEFINE preset == Naming(previous[profile])
  <2>1. preset \in [Standing -> {"enable", "disable", "unnamed"}]
    BY DEF Naming
  <2>2. SetEnabled("presets", "back", PresetOff(Known, preset, "replace"), PresetOn(preset, "replace"), {})
    BY <1>7 DEF ApplyReturn
  <2>3. previous' = previous
    BY <1>7 DEF ApplyReturn
  <2> HIDE DEF preset
  <2> QED
    BY <1>1, <1>5, <1>7, <2>1, <2>2, <2>3
<1>8. ASSUME NEW w \in Worker, UndoLastBatch(w) PROVE SomeBatchIsAsked
  <2>1. MayAsk(w) /\ Ask(w, "undo", <<>>, {}, {}) /\ previous' = previous
    BY <1>8 DEF UndoLastBatch
  <2>2. /\ <<>> \in Seq(StepsOf("undo"))
        /\ BatchInv(Asked("undo", <<>>, {}, {})) /\ SwitchesOf(Asked("undo", <<>>, {}, {}), w)
    BY AskingToUndoIsSound
  <2>3. Asks(w, "undo", <<>>, {}, {})
    BY <1>1, <2>1, <2>2 DEF Asks, Ask, Asked, MayAsk
  <2>4. <<>> \in Seq(Step) /\ {} \in SUBSET Addon /\ "undo" \in {"toggle", "relink", "repair", "apply", "back", "undo"}
    BY EmptySeq
  <2> QED
    BY <2>3, <2>4 DEF SomeBatchIsAsked
<1> QED
  BY <1>2, <1>3, <1>4, <1>6, <1>7, <1>8 DEF SomeoneAsks

-----------------------------------------------------------------------------
(* How a step runs. *)

\* A step is of a link at a place, or of a startup entry.
LEMMA WhatAStepIs ==
  ASSUME NEW s \in Step
  PROVE  /\ s.does \in {"link", "unlink", "turnOn", "turnOff"} /\ s.addon \in Addon
         /\ s.does \in {"link", "unlink"} => s.place \in Place
         /\ s.does \in {"turnOn", "turnOff"} => s.place = None
         /\ s.place \in Place \cup {None}
BY DEF Step

\* What undoes a step is a step at the same place.
LEMMA WhatUndoesAStep ==
  ASSUME NEW s \in Step
  PROVE  /\ InverseOf(s) \in Step /\ InverseOf(s).does = Opposite(s.does)
         /\ InverseOf(s).addon = s.addon /\ InverseOf(s).place = s.place
<1>1. CASE s \in [does : {"link", "unlink"}, addon : Addon, place : Place, was : Maybe(Addon)]
  <2>1. Opposite(s.does) \in {"link", "unlink"}
    BY <1>1 DEF Opposite
  <2> HIDE DEF Step
  <2>2. InverseOf(s) \in [does : {"link", "unlink"}, addon : Addon, place : Place, was : Maybe(Addon)]
    BY <1>1, <2>1 DEF InverseOf
  <2>3. /\ InverseOf(s).does = Opposite(s.does) /\ InverseOf(s).addon = s.addon /\ InverseOf(s).place = s.place
    BY <1>1 DEF InverseOf
  <2> QED
    BY <2>2, <2>3 DEF Step
<1>2. CASE s \in [does : {"turnOn", "turnOff"}, addon : Addon, place : {None}, was : {None}]
  <2>1. Opposite(s.does) \in {"turnOn", "turnOff"}
    BY <1>2 DEF Opposite
  <2>2. InverseOf(s) \in [does : {"turnOn", "turnOff"}, addon : Addon, place : {None}, was : {None}]
    BY <1>2, <2>1 DEF InverseOf
  <2>3. /\ InverseOf(s).does = Opposite(s.does) /\ InverseOf(s).addon = s.addon /\ InverseOf(s).place = s.place
    BY <1>2 DEF InverseOf
  <2> QED
    BY <2>2, <2>3 DEF Step
<1> QED
  BY <1>1, <1>2 DEF Step

\* What undoes a batch so far is a sequence of steps.
LEMMA WhatUndoesABatch ==
  ASSUME NEW kind, NEW s \in StepsOf(kind), NEW done \in Seq(Step)
  PROVE  /\ WithTheInverse(kind, done, s) \in Seq(Step)
         /\ kind = "repair" => InverseOfARepair(s) \in Seq(Step)
<1>1. s \in Step
  BY DEF StepsOf, RepairStep
<1>2. CASE kind = "undo"
  BY <1>2 DEF WithTheInverse
<1>3. CASE kind = "repair"
  <2>1. s.does \in {"link", "unlink"} /\ s.was \in Addon /\ s.addon \in Addon /\ s.place \in Place
    BY <1>1, <1>3, WhatAStepIs DEF StepsOf, RepairStep
  <2>2. Does("unlink", s.addon, s.place) \in Step /\ Does("link", s.was, s.place) \in Step
    BY <2>1, WhatItDoes
  <2>3. <<Does("link", s.was, s.place)>> \in Seq(Step) /\ <<Does("unlink", s.addon, s.place)>> \in Seq(Step)
    BY <2>2
  <2>4. (IF s.does = "link" THEN <<Does("unlink", s.addon, s.place)>> ELSE <<>>) \in Seq(Step)
    BY <2>3, EmptySeq
  <2>5. InverseOfARepair(s) \in Seq(Step)
    BY <2>3, <2>4, OneThenTheOther DEF InverseOfARepair
  <2> QED
    BY <1>3, <2>5, OneThenTheOther DEF WithTheInverse
<1>4. CASE kind \notin {"undo", "repair"}
  <2>1. <<InverseOf(s)>> \in Seq(Step)
    BY <1>1, WhatUndoesAStep
  <2>2. <<InverseOf(s)>> \o done \in Seq(Step)
    BY <2>1, OneThenTheOther
  <2> QED
    BY <1>4, <2>2 DEF WithTheInverse
<1> QED
  BY <1>2, <1>3, <1>4

\* A batch without its first step: which steps are left.
LEMMA TheFirstStep ==
  ASSUME NEW S, NEW steps \in Seq(S), steps # <<>>
  PROVE  /\ Head(steps) \in S /\ Head(steps) = steps[1] /\ 1 \in 1..Len(steps) /\ Tail(steps) \in Seq(S)
         /\ Len(Tail(steps)) = Len(steps) - 1 /\ Len(steps) \in Nat
         /\ \A i \in 1..Len(Tail(steps)) : i + 1 \in 1..Len(steps) /\ Tail(steps)[i] = steps[i + 1]
         /\ \A i \in 1..Len(steps) : i # 1 => i - 1 \in 1..Len(Tail(steps)) /\ Tail(steps)[i - 1] = steps[i]
<1>1. /\ Head(steps) \in S /\ Head(steps) = steps[1] /\ 1 \in 1..Len(steps) /\ Tail(steps) \in Seq(S)
      /\ Len(Tail(steps)) = Len(steps) - 1 /\ Len(steps) \in Nat
      /\ \A i \in 1..Len(Tail(steps)) : Tail(steps)[i] = steps[i + 1]
  <2>1. Len(steps) \in Nat /\ Len(steps) # 0
    BY EmptySeq, LenProperties
  <2> QED
    BY <2>1, HeadTailProperties, ElementOfSeq
<1>2. \A i \in 1..Len(Tail(steps)) : i + 1 \in 1..Len(steps)
  BY <1>1
<1>3. \A i \in 1..Len(steps) : i # 1 => i - 1 \in 1..Len(Tail(steps)) /\ (i - 1) + 1 = i
  BY <1>1
<1> QED
  BY <1>1, <1>2, <1>3

\* A batch after one of its steps ran, well or not.
Ran(b, s) == [b EXCEPT !.steps = Tail(@), !.ran = @ \cup {s.place}, !.taken = @ \cup Taken(s),
                       !.done = WithTheInverse(b.kind, @, s)]
Failed(b, s) == [b EXCEPT !.steps = Tail(@), !.ran = @ \cup {s.place}, !.taken = @ \cup Taken(s),
                          !.failed = @ \cup {s},
                          !.unlucky = @ \cup (IF CanSucceed(s) THEN {s} ELSE {})]
\* What is as it was of the batch.
SameBatch(b, c) ==
    /\ c.kind = b.kind /\ c.at = b.at /\ c.profile = b.profile /\ c.seen = b.seen
    /\ c.off = b.off /\ c.on = b.on /\ c.start = b.start /\ c.alone = b.alone

\* The step that runs, and the batch after it.
LEMMA TheBatchAfterAStep ==
  ASSUME NEW b \in Batch, b.steps # <<>>, b.steps \in Seq(StepsOf(b.kind))
  PROVE  LET s == Head(b.steps) IN
         /\ s \in StepsOf(b.kind) /\ s \in Step /\ Tail(b.steps) \in Seq(StepsOf(b.kind))
         /\ LET c == Ran(b, s)
            IN  /\ c \in Batch /\ c # None /\ SameBatch(b, c) /\ c.steps = Tail(b.steps)
                /\ c.ran = b.ran \cup {s.place} /\ c.taken = b.taken \cup Taken(s) /\ c.failed = b.failed
                /\ c.unlucky = b.unlucky /\ c.done = WithTheInverse(b.kind, b.done, s)
         /\ LET c == Failed(b, s)
            IN  /\ c \in Batch /\ c # None /\ SameBatch(b, c) /\ c.steps = Tail(b.steps)
                /\ c.ran = b.ran \cup {s.place} /\ c.taken = b.taken \cup Taken(s) /\ c.failed = b.failed \cup {s}
                /\ c.unlucky = b.unlucky \cup (IF CanSucceed(s) THEN {s} ELSE {}) /\ c.done = b.done
<1> DEFINE s == Head(b.steps)
           fine == WithTheInverse(b.kind, b.done, s)
           taken == Taken(s)
           lucky == IF CanSucceed(s) THEN {s} ELSE {}
           rest == Tail(b.steps)
<1>1. s \in StepsOf(b.kind) /\ rest \in Seq(StepsOf(b.kind))
  BY TheFirstStep
<1>2. s \in Step /\ rest \in Seq(Step) /\ b.done \in Seq(Step)
  <2>1. b.steps \in Seq(Step) /\ b.done \in Seq(Step)
    BY DEF Batch
  <2> QED
    BY <2>1, TheFirstStep
<1>3. fine \in Seq(Step)
  BY <1>1, <1>2, WhatUndoesABatch
<1>4. s.place \in Place \cup {None} /\ taken \in SUBSET Place /\ lucky \in SUBSET Step
  BY <1>2, WhatAStepIs DEF Taken
<1> HIDE DEF s, fine, taken, lucky, rest
<1>5. ASSUME NEW c, c = [b EXCEPT !.steps = rest, !.ran = @ \cup {s.place}, !.taken = @ \cup taken, !.done = fine]
      PROVE  /\ c \in Batch /\ c # None /\ SameBatch(b, c) /\ c.steps = rest
             /\ c.ran = b.ran \cup {s.place} /\ c.taken = b.taken \cup taken /\ c.failed = b.failed
             /\ c.unlucky = b.unlucky /\ c.done = fine
  <2>1. c \in Batch
    BY <1>2, <1>3, <1>4, <1>5 DEF Batch
  <2>2. c # None
    BY <2>1, TheConstants
  <2>3. SameBatch(b, c) /\ c.steps = rest
    BY <1>5 DEF Batch, SameBatch
  <2>4. /\ c.ran = b.ran \cup {s.place} /\ c.taken = b.taken \cup taken /\ c.failed = b.failed
        /\ c.unlucky = b.unlucky /\ c.done = fine
    BY <1>5 DEF Batch
  <2> QED
    BY <2>1, <2>2, <2>3, <2>4
<1>6. ASSUME NEW c, c = [b EXCEPT !.steps = rest, !.ran = @ \cup {s.place}, !.taken = @ \cup taken,
                                  !.failed = @ \cup {s}, !.unlucky = @ \cup lucky]
      PROVE  /\ c \in Batch /\ c # None /\ SameBatch(b, c) /\ c.steps = rest
             /\ c.ran = b.ran \cup {s.place} /\ c.taken = b.taken \cup taken /\ c.failed = b.failed \cup {s}
             /\ c.unlucky = b.unlucky \cup lucky /\ c.done = b.done
  <2>1. c \in Batch
    BY <1>2, <1>4, <1>6 DEF Batch
  <2>2. c # None
    BY <2>1, TheConstants
  <2>3. SameBatch(b, c) /\ c.steps = rest
    BY <1>6 DEF Batch, SameBatch
  <2>4. /\ c.ran = b.ran \cup {s.place} /\ c.taken = b.taken \cup taken /\ c.failed = b.failed \cup {s}
        /\ c.unlucky = b.unlucky \cup lucky /\ c.done = b.done
    BY <1>6 DEF Batch
  <2> QED
    BY <2>1, <2>2, <2>3, <2>4
<1>7. Ran(b, s) = [b EXCEPT !.steps = rest, !.ran = @ \cup {s.place}, !.taken = @ \cup taken, !.done = fine]
  BY DEF Ran, rest, taken, fine, s
<1>8. Failed(b, s) = [b EXCEPT !.steps = rest, !.ran = @ \cup {s.place}, !.taken = @ \cup taken,
                               !.failed = @ \cup {s}, !.unlucky = @ \cup lucky]
  BY DEF Failed, rest, taken, lucky, s
<1>9. LET c == Ran(b, s)
      IN  /\ c \in Batch /\ c # None /\ SameBatch(b, c) /\ c.steps = rest
          /\ c.ran = b.ran \cup {s.place} /\ c.taken = b.taken \cup taken /\ c.failed = b.failed
          /\ c.unlucky = b.unlucky /\ c.done = fine
  BY <1>5, <1>7
<1>10. LET c == Failed(b, s)
       IN  /\ c \in Batch /\ c # None /\ SameBatch(b, c) /\ c.steps = rest
           /\ c.ran = b.ran \cup {s.place} /\ c.taken = b.taken \cup taken /\ c.failed = b.failed \cup {s}
           /\ c.unlucky = b.unlucky \cup lucky /\ c.done = b.done
  BY <1>6, <1>8
<1> QED
  BY <1>1, <1>2, <1>9, <1>10 DEF rest, fine, taken, lucky, s

\* The batches after a step of one of them: the others are no longer alone.
LEMMA TheBatchesAfterAStep ==
  ASSUME WorkOK, NEW w \in Worker, StepSucceeds(w) \/ StepFails(w)
  PROVE  /\ work[w] \in Batch /\ work[w] # None /\ work[w].at = "running" /\ work[w].steps # <<>>
         /\ work[w].steps \in Seq(StepsOf(work[w].kind))
         /\ StepSucceeds(w) => work'[w] = Ran(work[w], Head(work[w].steps))
         /\ StepFails(w) => work'[w] = Failed(work[w], Head(work[w].steps))
         /\ work' \in [Worker -> Maybe(Batch)]
         /\ \A v \in Worker \ {w} : work[v] = None => work'[v] = None
         /\ \A v \in Worker \ {w} : work[v] # None => work'[v] = [work[v] EXCEPT !.alone = FALSE]
<1> DEFINE b == work[w]
           s == Head(b.steps)
<1>1. /\ b \in Batch /\ b # None /\ b.at = "running" /\ b.steps # <<>> /\ b.steps \in Seq(StepsOf(b.kind))
      /\ \A v \in Worker : work[v] = None \/ work[v] \in Batch
  BY DEF WorkOK, Maybe, RepairsNameTheirTarget, StepSucceeds, StepFails
<1>2. Ran(b, s) \in Batch /\ Failed(b, s) \in Batch
  BY <1>1, TheBatchAfterAStep
<1>3. \A v \in Worker : work[v] # None => [work[v] EXCEPT !.alone = FALSE] \in Batch
  BY <1>1, NoLongerAlone
<1>4. ASSUME NEW c \in Batch, work' = Disturbed([work EXCEPT ![w] = c], w)
      PROVE  /\ work'[w] = c /\ work' \in [Worker -> Maybe(Batch)]
             /\ \A v \in Worker \ {w} : work[v] = None => work'[v] = None
             /\ \A v \in Worker \ {w} : work[v] # None => work'[v] = [work[v] EXCEPT !.alone = FALSE]
  BY <1>1, <1>3, <1>4 DEF Disturbed, WorkOK, Maybe
<1>5. ASSUME StepSucceeds(w)
      PROVE  /\ work'[w] = Ran(b, s) /\ work' \in [Worker -> Maybe(Batch)]
             /\ \A v \in Worker \ {w} : work[v] = None => work'[v] = None
             /\ \A v \in Worker \ {w} : work[v] # None => work'[v] = [work[v] EXCEPT !.alone = FALSE]
  <2>1. work' = Disturbed([work EXCEPT ![w] = Ran(b, s)], w)
    BY <1>5 DEF StepSucceeds, Ran
  <2> QED
    BY <1>2, <1>4, <2>1
<1>6. ASSUME StepFails(w)
      PROVE  /\ work'[w] = Failed(b, s) /\ work' \in [Worker -> Maybe(Batch)]
             /\ \A v \in Worker \ {w} : work[v] = None => work'[v] = None
             /\ \A v \in Worker \ {w} : work[v] # None => work'[v] = [work[v] EXCEPT !.alone = FALSE]
  <2>1. work' = Disturbed([work EXCEPT ![w] = Failed(b, s)], w)
    BY <1>6 DEF StepFails, Failed
  <2> QED
    BY <1>2, <1>4, <2>1
<1> QED
  BY <1>1, <1>5, <1>6

\* What a step that works changes of the disk.
LEMMA WhatAStepChanges ==
  ASSUME WorldOK, WorkOK, NEW w \in Worker, StepSucceeds(w)
  PROVE  LET s == Head(work[w].steps) IN
         /\ \A q \in Place : q # s.place => link'[q] = link[q]
         /\ s.does = "link" => /\ link[s.place] \in {None} \cup Dead /\ link'[s.place] = s.addon
                               /\ starts' = starts /\ s.place \in Place
         /\ s.does = "unlink" => /\ link[s.place] \in Addon /\ link'[s.place] = None
                                 /\ starts' = starts /\ s.place \in Place
         /\ s.does = "turnOn" => link' = link /\ starts' = starts \cup {s.addon}
         /\ s.does = "turnOff" => link' = link /\ starts' = starts \ {s.addon}
         /\ link' \in Disks /\ starts' \subseteq Starter
         /\ UNCHANGED <<there, profile, pinned, undo, previous, base, replaced, mishaps, batches>>
         /\ strange' = strange \cup Mistaken(work[w].kind, s)
<1> DEFINE s == Head(work[w].steps)
<1>1. s \in Step
  BY TheBatchesAfterAStep, TheBatchAfterAStep
<1>2. /\ LinkAt(s) \/ Disable(s) \/ Switch(s)
      /\ UNCHANGED <<there, profile, pinned, undo, previous, base, replaced, mishaps, batches>>
      /\ strange' = strange \cup Mistaken(work[w].kind, s)
  BY DEF StepSucceeds
<1> HIDE DEF s
<1>3. link \in [Place -> Targets] /\ starts \subseteq Starter /\ s.addon \in Targets /\ None \in Targets
  BY <1>1, WhatAStepIs DEF WorldOK, Disks, Targets
<1>4. CASE LinkAt(s)
  <2>1. /\ s.does = "link" /\ link[s.place] \in {None} \cup Dead /\ link' = [link EXCEPT ![s.place] = s.addon]
        /\ starts' = starts /\ s.place \in Place
    BY <1>1, <1>4, WhatAStepIs DEF LinkAt
  <2>2. link'[s.place] = s.addon /\ link' \in Disks /\ \A q \in Place : q # s.place => link'[q] = link[q]
    BY <1>3, <2>1 DEF Disks
  <2> QED
    BY <1>2, <1>3, <2>1, <2>2 DEF s
<1>5. CASE Disable(s)
  <2>1. /\ s.does = "unlink" /\ link[s.place] \in Addon /\ link' = [link EXCEPT ![s.place] = None]
        /\ starts' = starts /\ s.place \in Place
    BY <1>1, <1>5, WhatAStepIs DEF Disable
  <2>2. link'[s.place] = None /\ link' \in Disks /\ \A q \in Place : q # s.place => link'[q] = link[q]
    BY <1>3, <2>1 DEF Disks
  <2> QED
    BY <1>2, <1>3, <2>1, <2>2 DEF s
<1>6. CASE Switch(s)
  <2>1. /\ s.does \in {"turnOn", "turnOff"} /\ s.addon \in Starter /\ link' = link
        /\ starts' = IF s.does = "turnOn" THEN starts \cup {s.addon} ELSE starts \ {s.addon}
    BY <1>6 DEF Switch
  <2>2. link' \in Disks /\ starts' \subseteq Starter
    BY <1>3, <2>1 DEF Disks
  <2> QED
    BY <1>2, <2>1, <2>2 DEF s
<1> QED
  BY <1>2, <1>4, <1>5, <1>6

\* What a step that fails changes of it.
LEMMA WhatAFailureChanges ==
  ASSUME WorldOK, WorkOK, NEW w \in Worker, StepFails(w)
  PROVE  LET s == Head(work[w].steps) IN
         /\ \A q \in Place : q # s.place => link'[q] = link[q]
         /\ \/ link' = link
            \/ /\ s.does = "link" /\ s.place \in Place /\ link[s.place] \in Dead /\ link'[s.place] = None
               /\ Taken(s) = {s.place}
         /\ link' \in Disks
         /\ UNCHANGED <<there, starts, profile, pinned, undo, previous, ghosts, batches>>
<1> DEFINE s == Head(work[w].steps)
<1>1. s \in Step
  BY TheBatchesAfterAStep, TheBatchAfterAStep
<1>2. /\ link' \in {link} \cup (IF Taken(s) # {} THEN {[link EXCEPT ![s.place] = None]} ELSE {})
      /\ UNCHANGED <<there, starts, profile, pinned, undo, previous, ghosts, batches>>
  BY DEF StepFails
<1> HIDE DEF s
<1>3. link \in [Place -> Targets] /\ None \in Targets
  BY DEF WorldOK, Disks, Targets
<1>4. CASE link' = link
  BY <1>2, <1>3, <1>4 DEF s, Disks
<1>5. CASE Taken(s) # {} /\ link' = [link EXCEPT ![s.place] = None]
  <2>1. s.does = "link" /\ s.place \in Place /\ link[s.place] \in Dead /\ Taken(s) = {s.place}
    BY <1>1, <1>5, WhatAStepIs DEF Taken
  <2>2. link' \in Disks /\ link'[s.place] = None /\ \A q \in Place : q # s.place => link'[q] = link[q]
    BY <1>3, <1>5, <2>1 DEF Disks
  <2> QED
    BY <1>2, <2>1, <2>2 DEF s
<1> QED
  BY <1>2, <1>4, <1>5

-----------------------------------------------------------------------------
(* Every action keeps the types. *)

\* What is left alone stays typed.
LEMMA WhatIsLeftAlone ==
  /\ WorldOK /\ UNCHANGED <<link, gone, there, starts>> => WorldOK'
  /\ PlansOK /\ UNCHANGED <<profile, pinned, previous>> => PlansOK'
  /\ UndoOK /\ UNCHANGED <<undo, base, replaced>> => UndoOK'
  /\ WorkOK /\ UNCHANGED work => WorkOK'
  /\ Forgotten => UndoOK'
<1>1. WorldOK /\ UNCHANGED <<link, gone, there, starts>> => WorldOK'
  BY DEF WorldOK, Standing
<1>2. PlansOK /\ UNCHANGED <<profile, pinned, previous>> => PlansOK'
  BY DEF PlansOK, PinsAreOfTheProfile
<1>3. UndoOK /\ UNCHANGED <<undo, base, replaced>> => UndoOK'
  BY DEF UndoOK
<1>4. WorkOK /\ UNCHANGED work => WorkOK'
  BY DEF WorkOK, RepairsNameTheirTarget
<1>5. Forgotten => UndoOK'
  BY EmptySeq DEF Forgotten, UndoOK, Maybe
<1> QED
  BY <1>1, <1>2, <1>3, <1>4, <1>5

\* An override that is set or carried is of the profile in use.
LEMMA APinIsSet ==
  ASSUME PlansOK, NEW a \in Addon, NEW o \in OverrideOf(profile),
         pinned' = [pinned EXCEPT ![profile][a] = o], UNCHANGED <<profile, previous>>
  PROVE  PlansOK'
<1>1. profile \in Profile /\ pinned \in [Profile -> [Addon -> Override]] /\ PinsAreOfTheProfile
  BY DEF PlansOK
<1>2. OverrideOf(profile) \subseteq Override
  BY DEF OverrideOf, Override, Maybe
<1>3. pinned' \in [Profile -> [Addon -> Override]]
  BY <1>1, <1>2
<1>4. \A p \in Profile, b \in Addon : pinned'[p][b] = IF p = profile /\ b = a THEN o ELSE pinned[p][b]
  BY <1>1
<1>5. PinsAreOfTheProfile'
  BY <1>1, <1>4 DEF PinsAreOfTheProfile, OverrideOf, Maybe, PlacesOf
<1> QED
  BY <1>1, <1>3, <1>5 DEF PlansOK

\* One batch that becomes another.
LEMMA OneBatchChanges ==
  ASSUME WorkOK, NEW w \in Worker, NEW b \in Batch, b.steps \in Seq(StepsOf(b.kind)),
         work' = [work EXCEPT ![w] = b]
  PROVE  WorkOK'
<1>1. work' \in [Worker -> Maybe(Batch)]
  BY DEF WorkOK, Maybe
<1>2. \A v \in Worker : work'[v] = IF v = w THEN b ELSE work[v]
  BY DEF WorkOK
<1>3. \A v \in Worker : work'[v] # None => work'[v].steps \in Seq(StepsOf(work'[v].kind))
  BY <1>2 DEF WorkOK, RepairsNameTheirTarget
<1> QED
  BY <1>1, <1>3 DEF WorkOK, RepairsNameTheirTarget, StepsOf, RepairStep

\* The guard is taken by a batch that was read, which finds the disk as it is.
LEMMA TakingTheGuard ==
  ASSUME WorldOK, UndoOK, WorkOK, NEW w \in Worker, TakeTheGuard(w)
  PROVE  LET b == work[w]
             c == work'[w]
         IN  /\ b \in Batch /\ b # None /\ b.at = "read" /\ c \in Batch /\ c # None
             /\ c.kind = b.kind /\ c.profile = b.profile /\ c.seen = b.seen /\ c.off = b.off /\ c.on = b.on
             /\ c.alone = b.alone /\ c.ran = b.ran /\ c.failed = b.failed /\ c.unlucky = b.unlucky
             /\ c.taken = b.taken /\ c.done = b.done
             /\ c.at = "running" /\ c.start = [link |-> link, starts |-> starts]
             /\ c.start.link = link /\ c.start.starts = starts
             /\ c.steps = IF b.kind = "undo" THEN undo ELSE b.steps
             /\ c.steps \in Seq(StepsOf(c.kind))
             /\ work' = [work EXCEPT ![w] = c]
<1> DEFINE b == work[w]
           found == [link |-> link, starts |-> starts]
           steps == IF b.kind = "undo" THEN undo ELSE b.steps
           c == [b EXCEPT !.at = "running", !.start = found, !.steps = steps]
<1>1. b \in Batch /\ b # None /\ b.at = "read" /\ b.steps \in Seq(StepsOf(b.kind))
  BY DEF WorkOK, Maybe, RepairsNameTheirTarget, TakeTheGuard
<1>2. work' = [work EXCEPT ![w] = c]
  BY DEF TakeTheGuard
<1>3. work'[w] = c
  BY <1>2 DEF WorkOK
<1>4. found \in Found
  BY DEF Found, WorldOK
<1>5. steps \in Seq(Step) /\ steps \in Seq(StepsOf(b.kind))
  BY <1>1 DEF UndoOK, StepsOf, Batch
<1> HIDE DEF b, found, steps
<1>6. c \in Batch
  BY <1>1, <1>4, <1>5 DEF Batch, Maybe
<1>7. /\ c.kind = b.kind /\ c.profile = b.profile /\ c.seen = b.seen /\ c.off = b.off /\ c.on = b.on
      /\ c.alone = b.alone /\ c.ran = b.ran /\ c.failed = b.failed /\ c.unlucky = b.unlucky
      /\ c.taken = b.taken /\ c.done = b.done /\ c.at = "running" /\ c.start = found /\ c.steps = steps
  BY <1>1 DEF Batch
<1> HIDE DEF c
<1>8. c # None /\ found.link = link /\ found.starts = starts
  BY <1>6, TheConstants DEF found
<1> QED
  BY <1>1, <1>2, <1>3, <1>5, <1>6, <1>7, <1>8 DEF b, found, steps

\* What the batches, the window and the other programs do.
LEMMA BatchesKeepTheTypes ==
  ASSUME FInv, Next
  PROVE  WorldOK' /\ PlansOK' /\ UndoOK' /\ WorkOK' /\ strange' \subseteq Place \cup Starter
<1>1. WorldOK /\ PlansOK /\ UndoOK /\ WorkOK /\ strange \subseteq Place \cup Starter
  BY InParts
<1>2. gone' = gone
  BY DEF Next
<1>3. CASE SomeoneAsks
  <2>1. SomeBatchIsAsked
    BY <1>3, AskingIsSound
  <2>2. PICK w \in Worker, kind \in {"toggle", "relink", "repair", "apply", "back", "undo"},
             steps \in Seq(Step), off \in SUBSET Addon, on \in SUBSET Addon : Asks(w, kind, steps, off, on)
    BY <2>1 DEF SomeBatchIsAsked
  <2> DEFINE b == Asked(kind, steps, off, on)
  <2>3. b \in Batch /\ b.kind = kind /\ b.steps = steps
    <3>1. b \in Batch
      BY ZenonT(30), AskedIsABatch
    <3>2. b.kind = kind /\ b.steps = steps
      BY DEF Asked
    <3> QED
      BY <3>1, <3>2
  <2>4. /\ work' = [work EXCEPT ![w] = b] /\ steps \in Seq(StepsOf(kind))
        /\ UNCHANGED <<world, profile, pinned, undo, ghosts, mishaps>>
        /\ previous' \in [Profile -> Maybe(SUBSET Addon)]
    BY <2>2 DEF Asks
  <2> HIDE DEF b
  <2>5. WorkOK'
    BY <1>1, <2>3, <2>4, OneBatchChanges
  <2>6. UNCHANGED <<link, there, starts, profile, pinned, undo, base, replaced, strange>>
    BY <2>4 DEF world, ghosts
  <2>7. PlansOK'
    BY <1>1, <2>4, <2>6 DEF PlansOK, PinsAreOfTheProfile
  <2> QED
    BY <1>1, <1>2, <2>5, <2>6, <2>7, WhatIsLeftAlone
<1>4. ASSUME NEW w \in Worker, TakeTheGuard(w)
      PROVE  WorldOK' /\ PlansOK' /\ UndoOK' /\ WorkOK' /\ strange' \subseteq Place \cup Starter
  <2>1. WorkOK'
    BY <1>1, <1>4, TakingTheGuard, OneBatchChanges
  <2>2. UndoOK'
    BY <1>1, <1>4, EmptySeq DEF TakeTheGuard, UndoLeft, UndoOK, ghosts
  <2>3. UNCHANGED <<link, there, starts, profile, pinned, previous, strange>>
    BY <1>4 DEF TakeTheGuard, world, ghosts
  <2> QED
    BY <1>1, <1>2, <2>1, <2>2, <2>3, WhatIsLeftAlone
<1>5. ASSUME NEW w \in Worker, StepSucceeds(w) \/ StepFails(w)
      PROVE  WorldOK' /\ PlansOK' /\ UndoOK' /\ WorkOK' /\ strange' \subseteq Place \cup Starter
  <2> DEFINE b == work[w]
             s == Head(b.steps)
  <2>1. /\ b \in Batch /\ b.steps # <<>> /\ b.steps \in Seq(StepsOf(b.kind))
        /\ StepSucceeds(w) => work'[w] = Ran(b, s)
        /\ StepFails(w) => work'[w] = Failed(b, s)
        /\ work' \in [Worker -> Maybe(Batch)]
        /\ \A v \in Worker \ {w} : work[v] = None => work'[v] = None
        /\ \A v \in Worker \ {w} : work[v] # None => work'[v] = [work[v] EXCEPT !.alone = FALSE]
    BY <1>1, <1>5, TheBatchesAfterAStep
  <2>2. /\ s \in Step /\ Tail(b.steps) \in Seq(StepsOf(b.kind))
        /\ Ran(b, s).steps = Tail(b.steps) /\ Ran(b, s).kind = b.kind
        /\ Failed(b, s).steps = Tail(b.steps) /\ Failed(b, s).kind = b.kind
    BY <2>1, TheBatchAfterAStep DEF SameBatch
  <2>3. \A v \in Worker : work[v] # None => work[v] \in Batch /\ work[v].steps \in Seq(StepsOf(work[v].kind))
    BY <1>1 DEF WorkOK, RepairsNameTheirTarget, Maybe
  <2>4. ASSUME NEW v \in Worker, work'[v] # None PROVE work'[v].steps \in Seq(StepsOf(work'[v].kind))
    <3>1. CASE v = w
      BY <1>5, <2>1, <2>2, <3>1
    <3>2. CASE v # w
      <4>1. work[v] # None /\ work'[v] = [work[v] EXCEPT !.alone = FALSE]
        BY <2>1, <2>4, <3>2
      <4>2. work'[v].steps = work[v].steps /\ work'[v].kind = work[v].kind
        BY <2>3, <4>1, NoLongerAlone
      <4> QED
        BY <2>3, <4>1, <4>2
    <3> QED
      BY <3>1, <3>2
  <2>5. WorkOK'
    BY <2>1, <2>4 DEF WorkOK, RepairsNameTheirTarget, StepsOf, RepairStep
  <2>6. CASE StepSucceeds(w)
    <3>1. /\ link' \in Disks /\ starts' \subseteq Starter
          /\ UNCHANGED <<there, profile, pinned, undo, previous, base, replaced>>
          /\ strange' = strange \cup Mistaken(b.kind, s)
      BY <1>1, <2>6, WhatAStepChanges
    <3>2. strange' \subseteq Place \cup Starter
      <4>1. Mistaken(b.kind, s) \subseteq Place
        <5>1. s \in StepsOf(b.kind)
          BY <2>1, TheBatchAfterAStep
        <5>2. s.does = "unlink" \/ b.kind = "repair" => s.place \in Place
          BY <2>2, <5>1, WhatAStepIs DEF StepsOf, RepairStep
        <5> QED
          BY <5>2 DEF Mistaken
      <4> QED
        BY <1>1, <3>1, <4>1
    <3>3. WorldOK'
      BY <1>1, <1>2, <3>1 DEF WorldOK, Standing
    <3> QED
      BY <1>1, <2>5, <3>1, <3>2, <3>3, WhatIsLeftAlone
  <2>7. CASE StepFails(w)
    <3>1. /\ link' \in Disks
          /\ UNCHANGED <<there, starts, profile, pinned, undo, previous, base, replaced, strange>>
      BY <1>1, <2>7, WhatAFailureChanges DEF ghosts
    <3>2. WorldOK'
      BY <1>1, <1>2, <3>1 DEF WorldOK, Standing
    <3> QED
      BY <1>1, <2>5, <3>1, <3>2, WhatIsLeftAlone
  <2> QED
    BY <1>5, <2>6, <2>7
<1>6. ASSUME NEW w \in Worker, End(w)
      PROVE  WorldOK' /\ PlansOK' /\ UndoOK' /\ WorkOK' /\ strange' \subseteq Place \cup Starter
  <2>1. work[w] \in Batch
    BY <1>1, <1>6 DEF End, Ends, WorkOK, Maybe
  <2>2. WorkOK'
    BY <1>1, <1>6 DEF End, WorkOK, RepairsNameTheirTarget, Maybe, StepsOf, RepairStep
  <2>3. work[w].done \in Seq(Step) /\ work[w].start \in Maybe(Found) /\ work[w].taken \subseteq Place
    BY <2>1 DEF Batch
  <2>4. UndoOK'
    BY <1>1, <1>6, <2>3 DEF End, UndoAfter, UndoOK, Maybe
  <2>5. UNCHANGED <<link, there, starts, profile, pinned, previous, strange>>
    BY <1>6 DEF End, world
  <2> QED
    BY <1>1, <1>2, <2>2, <2>4, <2>5, WhatIsLeftAlone
<1>7. CASE SomeoneElseActs
  <2>1. ASSUME NEW p \in Profile, ChooseProfile(p)
        PROVE  WorldOK' /\ PlansOK' /\ UndoOK' /\ WorkOK' /\ strange' \subseteq Place \cup Starter
    <3>1. PlansOK'
      BY <1>1, <2>1 DEF ChooseProfile, PlansOK, PinsAreOfTheProfile
    <3> QED
      BY <1>1, <1>2, <2>1, <3>1, WhatIsLeftAlone DEF ChooseProfile, world, ghosts
  <2>2. ASSUME NEW a \in Addon, OverrideDestination(a)
        PROVE  WorldOK' /\ PlansOK' /\ UndoOK' /\ WorkOK' /\ strange' \subseteq Place \cup Starter
    <3>1. PlansOK'
      <4>1. PICK o \in Overriding(pinned[profile][a], Chosen \cap PlacesOf(profile)) :
                   pinned' = [pinned EXCEPT ![profile][a] = o]
        BY <2>2 DEF OverrideDestination
      <4>2. profile \in Profile /\ pinned[profile][a] \in OverrideOf(profile) /\ UNCHANGED <<profile, previous>>
        BY <1>1, <2>2 DEF OverrideDestination, PlansOK, PinsAreOfTheProfile
      <4>3. o \in OverrideOf(profile)
        BY <4>1, <4>2 DEF Overriding, OverrideOf, Maybe
      <4> QED
        BY <1>1, <4>1, <4>2, <4>3, APinIsSet
    <3>2. UNCHANGED <<link, there, starts, work, strange>> /\ Forgotten
      BY <2>2 DEF OverrideDestination, world
    <3> QED
      BY <1>1, <1>2, <3>1, <3>2, WhatIsLeftAlone
  <2>3. ASSUME NEW p \in Place, NEW target \in Standing \cup {None, Folder}, SomeoneLinks(p, target)
        PROVE  WorldOK' /\ PlansOK' /\ UndoOK' /\ WorkOK' /\ strange' \subseteq Place \cup Starter
    <3>1. /\ link' = [link EXCEPT ![p] = target] /\ strange' = strange \cup {p} /\ work' = Nobody
          /\ UNCHANGED <<there, starts, profile, pinned, undo, previous, base, replaced>>
      BY <2>3 DEF SomeoneLinks
    <3>2. WorldOK'
      BY <1>1, <1>2, <3>1 DEF WorldOK, Standing, Disks, Targets
    <3>3. WorkOK'
      BY <1>1, <3>1, NobodyKeepsTheTypes
    <3> QED
      BY <1>1, <3>1, <3>2, <3>3, WhatIsLeftAlone
  <2>4. ASSUME NEW a \in Standing, FolderGoesOrComes(a)
        PROVE  WorldOK' /\ PlansOK' /\ UndoOK' /\ WorkOK' /\ strange' \subseteq Place \cup Starter
    <3>1. /\ there' = (IF a \in there THEN there \ {a} ELSE there \cup {a}) /\ work' = Nobody
          /\ UNCHANGED <<link, starts, profile, pinned, undo, previous, ghosts>>
      BY <2>4 DEF FolderGoesOrComes
    <3>2. WorldOK'
      BY <1>1, <1>2, <3>1 DEF WorldOK, Standing
    <3>3. WorkOK'
      BY <1>1, <3>1, NobodyKeepsTheTypes
    <3> QED
      BY <1>1, <3>1, <3>2, <3>3, WhatIsLeftAlone DEF ghosts
  <2>5. ASSUME NEW a \in Starter, SomeoneSwitches(a)
        PROVE  WorldOK' /\ PlansOK' /\ UndoOK' /\ WorkOK' /\ strange' \subseteq Place \cup Starter
    <3>1. /\ starts' = (IF a \in starts THEN starts \ {a} ELSE starts \cup {a}) /\ work' = Nobody
          /\ strange' = strange \cup {a}
          /\ UNCHANGED <<link, there, profile, pinned, undo, previous, base, replaced>>
      BY <2>5 DEF SomeoneSwitches
    <3>2. WorldOK'
      BY <1>1, <1>2, <3>1 DEF WorldOK, Standing
    <3>3. WorkOK'
      BY <1>1, <3>1, NobodyKeepsTheTypes
    <3> QED
      BY <1>1, <3>1, <3>2, <3>3, WhatIsLeftAlone
  <2> QED
    BY <1>7, <2>1, <2>2, <2>3, <2>4, <2>5 DEF SomeoneElseActs
<1>8. CASE ForgetUndo
  <2>1. UNCHANGED <<link, there, starts, profile, pinned, work, previous, strange>> /\ Forgotten
    BY <1>8 DEF ForgetUndo, world
  <2> QED
    BY <1>1, <1>2, <2>1, WhatIsLeftAlone
<1> QED
  BY <1>3, <1>4, <1>5, <1>6, <1>7, <1>8 DEF Next

\* A change that touches the disk: everything it leaves alone, and the batches no longer alone.
LEMMA TouchingTheDisk ==
  ASSUME FInv, NEW places \in SUBSET Place, Touches(places)
  PROVE  WorkOK' /\ UndoOK' /\ strange' \subseteq Place \cup Starter /\ starts' = starts /\ profile' = profile
<1>1. UndoOK /\ WorkOK /\ strange \subseteq Place \cup Starter
  BY InParts
<1>2. /\ work' = Nobody /\ strange' = strange \cup places
      /\ UNCHANGED <<starts, profile, undo, base, replaced, batches>>
  BY DEF Touches
<1> QED
  BY <1>1, <1>2, NobodyKeepsTheTypes, WhatIsLeftAlone

\* A link that is taken down.
LEMMA TakingALinkDown ==
  ASSUME WorldOK, NEW p \in Place, TakeTheLinkDown(p)
  PROVE  /\ link' \in Disks /\ there' = there /\ link'[p] = None /\ link[p] \in Addon
         /\ \A q \in Place : q # p => link'[q] = link[q]
BY DEF TakeTheLinkDown, WorldOK, Disks, Targets

\* A move with a link less, and one that goes on to another part of it.
LinkDown(m, p) == [m EXCEPT !.links = @ \ {p}, !.at = IF m.links = {p} THEN "move" ELSE "unlink"]
GoneOn(m, at, result) == [m EXCEPT !.at = at, !.result = result]
SameMove(m, n) ==
    /\ n.from = m.from /\ n.to = m.to /\ n.profile = m.profile /\ n.plan = m.plan
    /\ n.enabled = m.enabled /\ n.alone = m.alone

\* It is still the same move.
LEMMA AMoveGoesOn ==
  ASSUME NEW m \in Move
  PROVE  /\ m # None
         /\ \A p : /\ LinkDown(m, p) \in Move /\ LinkDown(m, p) # None /\ SameMove(m, LinkDown(m, p))
                   /\ LinkDown(m, p).links = m.links \ {p} /\ LinkDown(m, p).result = m.result
                   /\ LinkDown(m, p).at = (IF m.links = {p} THEN "move" ELSE "unlink")
         /\ \A at \in {"relink", "adopt"}, result \in {"none", "completed", "refused", "noLink"} :
              /\ GoneOn(m, at, result) \in Move /\ GoneOn(m, at, result) # None /\ SameMove(m, GoneOn(m, at, result))
              /\ GoneOn(m, at, result).at = at /\ GoneOn(m, at, result).result = result
         /\ [m EXCEPT !.at = "adopt"] = GoneOn(m, "adopt", m.result)
         /\ m.result \in {"none", "completed", "refused", "noLink"}
<1>1. \A n \in Move : n # None
  BY TheConstants
<1>2. ASSUME NEW p
      PROVE  /\ LinkDown(m, p) \in Move /\ SameMove(m, LinkDown(m, p))
             /\ LinkDown(m, p).links = m.links \ {p} /\ LinkDown(m, p).result = m.result
             /\ LinkDown(m, p).at = (IF m.links = {p} THEN "move" ELSE "unlink")
  BY DEF Move, LinkDown, SameMove
<1>3. ASSUME NEW at \in {"relink", "adopt"}, NEW result \in {"none", "completed", "refused", "noLink"}
      PROVE  /\ GoneOn(m, at, result) \in Move /\ SameMove(m, GoneOn(m, at, result))
             /\ GoneOn(m, at, result).at = at /\ GoneOn(m, at, result).result = result
  BY DEF Move, GoneOn, SameMove
<1>4. m.result \in {"none", "completed", "refused", "noLink"}
  BY DEF Move
<1>5. [m EXCEPT !.at = "adopt"] = GoneOn(m, "adopt", m.result)
  BY DEF Move, GoneOn
<1> QED
  BY <1>1, <1>2, <1>3, <1>4, <1>5

\* A deletion goes on: with a link less, to the next addon, and with one more deleted.
LEMMA ADeletionGoesOn ==
  ASSUME ErrandsOK, deleting # None
  PROVE  LET d == deleting IN
         /\ d \in Deletion /\ DOMAIN d.seen = ToSet(d.left) /\ IsInjective(d.left)
         /\ d.left \in Seq(Addon) /\ d.seen \in [ToSet(d.left) -> SUBSET Place] /\ d.deleted \subseteq Addon
         /\ d.left # <<>> =>
              /\ Doomed \in ToSet(d.left) /\ Doomed \in Addon
              /\ \A p : LET e == [d EXCEPT !.seen[Doomed] = @ \ {p}]
                        IN  /\ e \in Deletion /\ e.left = d.left /\ e.deleted = d.deleted /\ e.alone = d.alone
                            /\ DOMAIN e.seen = ToSet(d.left)
                            /\ \A a \in ToSet(d.left) : e.seen[a] = IF a = Doomed THEN d.seen[a] \ {p} ELSE d.seen[a]
              /\ LET e == NextDoomed
                 IN  /\ e \in Deletion /\ e.left = Tail(d.left) /\ e.deleted = d.deleted /\ e.alone = d.alone
                     /\ ToSet(e.left) = ToSet(d.left) \ {Doomed} /\ IsInjective(e.left)
                     /\ DOMAIN e.seen = ToSet(e.left)
                     /\ \A a \in ToSet(e.left) : e.seen[a] = d.seen[a]
<1> DEFINE d == deleting
<1>1. d \in Deletion /\ DOMAIN d.seen = ToSet(d.left) /\ IsInjective(d.left)
  BY DEF ErrandsOK, Maybe
<1>2. d.left \in Seq(Addon) /\ d.seen \in [ToSet(d.left) -> SUBSET Place] /\ d.deleted \subseteq Addon
  BY <1>1 DEF Deletion
<1>3. ASSUME d.left # <<>>
      PROVE  /\ Doomed \in ToSet(d.left) /\ Doomed \in Addon /\ Tail(d.left) \in Seq(Addon)
             /\ ToSet(Tail(d.left)) = ToSet(d.left) \ {Doomed} /\ IsInjective(Tail(d.left))
  <2> DEFINE l == d.left
             t == Tail(l)
  <2>1. /\ Head(l) \in Addon /\ Head(l) = l[1] /\ 1 \in 1..Len(l) /\ t \in Seq(Addon)
        /\ Len(t) = Len(l) - 1 /\ Len(l) \in Nat
        /\ \A i \in 1..Len(t) : i + 1 \in 1..Len(l) /\ t[i] = l[i + 1]
        /\ \A i \in 1..Len(l) : i # 1 => i - 1 \in 1..Len(t) /\ t[i - 1] = l[i]
    BY <1>2, <1>3, TheFirstStep
  <2>2. DOMAIN l = 1..Len(l) /\ DOMAIN t = 1..Len(t) /\ Doomed = l[1]
    BY <1>2, <2>1, LenProperties DEF Doomed
  <2>3. \A i, j \in 1..Len(l) : l[i] = l[j] => i = j
    BY <1>1, <2>2 DEF IsInjective
  <2> HIDE DEF l, t
  <2>4. ToSet(t) = {t[i] : i \in 1..Len(t)} /\ ToSet(l) = {l[i] : i \in 1..Len(l)}
    BY <2>2 DEF ToSet
  <2>5. IsInjective(t)
    <3>1. ASSUME NEW i \in 1..Len(t), NEW j \in 1..Len(t), t[i] = t[j] PROVE i = j
      <4>1. i + 1 = j + 1
        BY <2>1, <2>3, <3>1
      <4> QED
        BY <2>1, <4>1
    <3> QED
      BY <2>2, <3>1 DEF IsInjective
  <2>6. ASSUME NEW x PROVE x \in ToSet(t) <=> x \in ToSet(l) /\ x # l[1]
    <3>1. ASSUME x \in ToSet(t) PROVE x \in ToSet(l) /\ x # l[1]
      <4>1. PICK i \in 1..Len(t) : x = t[i]
        BY <2>4, <3>1
      <4>2. i + 1 \in 1..Len(l) /\ x = l[i + 1] /\ i + 1 # 1
        BY <2>1, <4>1
      <4> QED
        BY <2>1, <2>3, <2>4, <4>2
    <3>2. ASSUME x \in ToSet(l), x # l[1] PROVE x \in ToSet(t)
      <4>1. PICK i \in 1..Len(l) : x = l[i]
        BY <2>4, <3>2
      <4>2. i - 1 \in 1..Len(t) /\ t[i - 1] = x
        BY <2>1, <3>2, <4>1
      <4> QED
        BY <2>4, <4>2
    <3> QED
      BY <3>1, <3>2
  <2>7. Doomed \in ToSet(l)
    BY <2>1, <2>2, <2>4
  <2> QED
    BY <2>1, <2>2, <2>5, <2>6, <2>7 DEF l, t
<1>4. ASSUME d.left # <<>>, NEW p
      PROVE  LET e == [d EXCEPT !.seen[Doomed] = @ \ {p}]
             IN  /\ e \in Deletion /\ e.left = d.left /\ e.deleted = d.deleted /\ e.alone = d.alone
                 /\ DOMAIN e.seen = ToSet(d.left)
                 /\ \A a \in ToSet(d.left) : e.seen[a] = IF a = Doomed THEN d.seen[a] \ {p} ELSE d.seen[a]
  <2> DEFINE e == [d EXCEPT !.seen[Doomed] = @ \ {p}]
             f == [d.seen EXCEPT ![Doomed] = @ \ {p}]
  <2>1. f \in [ToSet(d.left) -> SUBSET Place] /\ ToSet(d.left) \in SUBSET Addon
    BY <1>1, <1>2, <1>3, <1>4 DEF Deletion
  <2>2. \A a \in ToSet(d.left) : f[a] = IF a = Doomed THEN d.seen[a] \ {p} ELSE d.seen[a]
    BY <1>2
  <2>3. e = [d EXCEPT !.seen = f] /\ DOMAIN f = ToSet(d.left)
    BY <1>1
  <2> HIDE DEF f
  <2>4. e.seen = f /\ e.left = d.left /\ e.deleted = d.deleted /\ e.alone = d.alone /\ e \in Deletion
    BY <1>1, <2>1, <2>3 DEF Deletion
  <2> QED
    BY <2>2, <2>3, <2>4
<1>5. ASSUME d.left # <<>>
      PROVE  LET e == NextDoomed
             IN  /\ e \in Deletion /\ e.left = Tail(d.left) /\ e.deleted = d.deleted /\ e.alone = d.alone
                 /\ DOMAIN e.seen = ToSet(e.left)
                 /\ \A a \in ToSet(e.left) : e.seen[a] = d.seen[a]
  <2> DEFINE f == [a \in ToSet(d.left) \ {Doomed} |-> d.seen[a]]
             l == Tail(d.left)
  <2>1. f \in [ToSet(l) -> SUBSET Place] /\ ToSet(l) \in SUBSET Addon /\ l \in Seq(Addon) /\ DOMAIN f = ToSet(l)
    BY <1>1, <1>2, <1>3, <1>5 DEF Deletion
  <2>2. NextDoomed = [d EXCEPT !.left = l, !.seen = f]
    BY <1>1 DEF NextDoomed
  <2>3. \A a \in ToSet(l) : f[a] = d.seen[a]
    BY <1>3, <1>5
  <2> HIDE DEF f, l
  <2>4. LET e == NextDoomed
        IN e.seen = f /\ e.left = l /\ e.deleted = d.deleted /\ e.alone = d.alone /\ e \in Deletion
    BY ZenonT(30), <1>1, <2>1, <2>2 DEF Deletion
  <2> QED
    BY <2>1, <2>3, <2>4 DEF l
<1> QED
  BY <1>1, <1>2, <1>3, <1>4, <1>5

\* A deletion is of addons, and takes the links that lead to them.
LEMMA ADeletionBegins ==
  ASSUME FInv, NEW addons \in SUBSET Standing, Delete(addons)
  PROVE  /\ deleting' \in Deletion /\ deleting' # None /\ deleting'.deleted = {} /\ deleting'.alone = TRUE
         /\ ToSet(deleting'.left) = addons /\ IsInjective(deleting'.left) /\ DOMAIN deleting'.seen = addons
         /\ \A a \in addons \cap there : \A q \in Place : link[q] = a => q \in deleting'.seen[a]
<1> DEFINE left == SetToSeq(addons)
           seen == LinksNow(addons)
           d == [left |-> left, seen |-> seen, deleted |-> {}, alone |-> TRUE]
<1>1. deleting' = d
  BY DEF Delete
<1>2. addons \in SUBSET Addon /\ link \in Disks /\ there \in SUBSET Addon
  BY InParts DEF Standing, WorldOK
<1>3. left \in Seq(Addon) /\ ToSet(left) = addons /\ IsInjective(left)
  BY <1>2, InSomeOrder
<1>4. \A p \in Profile : \A a : LinksTo(Entries(link, there, PlacesOf(p)), a)
                                  = {q \in PlacesOf(p) : link[q] = a /\ a \in there}
  BY <1>2, WhatIsLinked
<1>5. seen = [a \in addons |-> UNION {LinksTo(Entries(link, there, PlacesOf(p)), a) : p \in Profile}]
  BY DEF LinksNow
<1>6. seen \in [addons -> SUBSET Place] /\ DOMAIN seen = addons
  BY <1>4, <1>5, TheConstants
<1>7. ASSUME NEW a \in addons \cap there, NEW q \in Place, link[q] = a PROVE q \in seen[a]
  <2>1. PICK p \in Profile : q \in PlacesOf(p)
    BY TheConstants
  <2>2. q \in LinksTo(Entries(link, there, PlacesOf(p)), a)
    BY <1>4, <1>7, <2>1
  <2> QED
    BY <1>5, <1>7, <2>1, <2>2
<1> HIDE DEF left, seen
<1>8. d \in Deletion
  BY <1>2, <1>3, <1>6 DEF Deletion
<1>9. d # None
  BY <1>8, TheConstants
<1> QED
  BY <1>1, <1>3, <1>6, <1>7, <1>8, <1>9

\* A move is of an addon, with the links to it of the profile in use.
LEMMA AMoveBegins ==
  ASSUME FInv, NEW from \in Standing, NEW to \in gone, MoveTo(from, to)
  PROVE  /\ moving' \in Move /\ moving' # None /\ moving'.from = from /\ moving'.to = to /\ from # to
         /\ moving'.profile = profile /\ moving'.plan \in PlannedOnceCarried(profile, from, to)
         /\ moving'.plan \in PlacesOf(profile) /\ moving'.result = "none"
         /\ moving'.links = {q \in PlacesOf(profile) : link[q] = from /\ from \in there}
         /\ moving'.at = (IF moving'.links = {} THEN "move" ELSE "unlink")
         /\ moving'.enabled = (moving'.links # {})
         /\ moving'.alone = \A p \in PlacesOf(profile) : link[p] # to
<1>0. PICK plan \in PlannedOnceCarried(profile, from, to) :
        LET links == LinksToTakeDown(from)
        IN  moving' = [at |-> IF links = {} THEN "move" ELSE "unlink", from |-> from, to |-> to, profile |-> profile,
                       plan |-> plan, links |-> links, enabled |-> links # {}, result |-> "none",
                       alone |-> \A p \in PlacesOf(profile) : link[p] # to]
  BY DEF MoveTo
<1> DEFINE links == LinksToTakeDown(from)
           alone == \A p \in PlacesOf(profile) : link[p] # to
           m == [at |-> IF links = {} THEN "move" ELSE "unlink", from |-> from, to |-> to, profile |-> profile,
                 plan |-> plan, links |-> links, enabled |-> links # {}, result |-> "none", alone |-> alone]
<1>1. moving' = m
  BY <1>0
<1>2. from \in Addon /\ to \in Addon
  BY InParts DEF WorldOK, Standing
<1>3. from # to
  BY DEF Standing
<1>4. links = {q \in PlacesOf(profile) : link[q] = from /\ from \in there} /\ links \in SUBSET Place
  BY WhatIsKnown DEF LinksToTakeDown
<1>5. profile \in Profile /\ plan \in Place /\ plan \in PlacesOf(profile)
  <2>1. PlansOK /\ profile \in Profile
    BY InParts DEF PlansOK
  <2> QED
    BY <1>0, <1>2, <2>1, OnceCarriedItIsOfTheProfile, TheConstants
<1>6. alone \in BOOLEAN
  OBVIOUS
<1>7. alone = \A p \in PlacesOf(profile) : link[p] # to
  OBVIOUS
<1> HIDE DEF links, alone
<1>8. m \in Move
  BY <1>2, <1>4, <1>5, <1>6 DEF Move
<1>9. m # None
  BY <1>8, TheConstants
<1>10. /\ m.from = from /\ m.to = to /\ m.profile = profile /\ m.plan = plan /\ m.result = "none"
       /\ m.links = links /\ m.at = (IF m.links = {} THEN "move" ELSE "unlink") /\ m.enabled = (m.links # {})
       /\ m.alone = alone
  OBVIOUS
<1> HIDE DEF m
<1> QED
  BY <1>0, <1>1, <1>3, <1>4, <1>5, <1>7, <1>8, <1>9, <1>10

\* Deleting keeps the types.
LEMMA DeletingKeepsTheTypes ==
  ASSUME FInv,
         \/ \E addons \in (SUBSET Standing) \ {{}} : Delete(addons)
         \/ RemoveTheFolder \/ Deleted
         \/ \E p \in Place : RemoveTheLink(p)
  PROVE  WorldOK' /\ PlansOK' /\ UndoOK' /\ WorkOK' /\ ErrandsOK' /\ strange' \subseteq Place \cup Starter
<1>1. WorldOK /\ PlansOK /\ UndoOK /\ WorkOK /\ ErrandsOK /\ strange \subseteq Place \cup Starter
  BY InParts
<1> DEFINE d == deleting
<1>2. deleting # None => 
        /\ d \in Deletion /\ DOMAIN d.seen = ToSet(d.left) /\ IsInjective(d.left)
        /\ d.left \in Seq(Addon) /\ d.seen \in [ToSet(d.left) -> SUBSET Place] /\ d.deleted \subseteq Addon
  BY <1>1, ADeletionGoesOn
<1>3. moving' = Crossed(moving) \/ moving' = moving =>
        moving' \in Maybe(Move) /\ (moving' # None => moving'.from # moving'.to)
  <2>1. \A m \in Move : [m EXCEPT !.alone = FALSE] \in Move /\ [m EXCEPT !.alone = FALSE].from = m.from
                        /\ [m EXCEPT !.alone = FALSE].to = m.to
    BY DEF Move
  <2> QED
    BY <1>1, <2>1 DEF ErrandsOK, Crossed, Maybe
<1>4. ASSUME NEW addons \in SUBSET Standing, Delete(addons)
      PROVE  WorldOK' /\ PlansOK' /\ UndoOK' /\ WorkOK' /\ ErrandsOK' /\ strange' \subseteq Place \cup Starter
  <2>1. /\ deleting' \in Deletion /\ deleting' # None
        /\ ToSet(deleting'.left) = addons /\ IsInjective(deleting'.left) /\ DOMAIN deleting'.seen = addons
    BY <1>4, ADeletionBegins
  <2>2. UNCHANGED <<world, gone, profile, pinned, work, undo, previous, ghosts, mishaps, moving>>
    BY <1>4 DEF Delete
  <2>3. ErrandsOK'
    BY <1>3, <2>1, <2>2 DEF ErrandsOK, Maybe
  <2> QED
    BY <1>1, <2>2, <2>3, WhatIsLeftAlone DEF world, ghosts
<1>5. ASSUME NEW p \in Place, RemoveTheLink(p)
      PROVE  WorldOK' /\ PlansOK' /\ UndoOK' /\ WorkOK' /\ ErrandsOK' /\ strange' \subseteq Place \cup Starter
  <2>1. deleting # None /\ d.left # <<>>
    BY <1>5 DEF RemoveTheLink, Deleting
  <2>2. ASSUME TakeTheLinkDown(p), deleting' = [deleting EXCEPT !.seen[Doomed] = @ \ {p}],
               moving' = Crossed(moving), Touches({p}), UNCHANGED <<gone, pinned, previous, mishaps>>
        PROVE  WorldOK' /\ PlansOK' /\ UndoOK' /\ WorkOK' /\ ErrandsOK' /\ strange' \subseteq Place \cup Starter
    <3>1. link' \in Disks /\ there' = there
      BY <1>1, <2>2, TakingALinkDown
    <3>2. WorkOK' /\ UndoOK' /\ strange' \subseteq Place \cup Starter /\ starts' = starts /\ profile' = profile
      BY <2>2, TouchingTheDisk
    <3>3. WorldOK'
      BY <1>1, <2>2, <3>1, <3>2 DEF WorldOK, Standing
    <3>4. deleting' \in Deletion /\ deleting'.left = d.left /\ DOMAIN deleting'.seen = ToSet(d.left)
      BY <1>1, <2>1, <2>2, ADeletionGoesOn
    <3>5. ErrandsOK'
      BY <1>2, <1>3, <2>1, <2>2, <3>4 DEF ErrandsOK, Maybe
    <3> QED
      BY <1>1, <2>2, <3>2, <3>3, <3>5, WhatIsLeftAlone
  <2>3. ASSUME deleting' = NextDoomed,
               UNCHANGED <<world, gone, profile, pinned, work, undo, previous, ghosts, batches, moving>>
        PROVE  WorldOK' /\ PlansOK' /\ UndoOK' /\ WorkOK' /\ ErrandsOK' /\ strange' \subseteq Place \cup Starter
    <3>1. deleting' \in Deletion /\ DOMAIN deleting'.seen = ToSet(deleting'.left) /\ IsInjective(deleting'.left)
      BY <1>1, <2>1, <2>3, ADeletionGoesOn
    <3>2. ErrandsOK'
      BY <1>3, <2>3, <3>1 DEF ErrandsOK, Maybe
    <3> QED
      BY <1>1, <2>3, <3>2, WhatIsLeftAlone DEF world, ghosts
  <2> QED
    BY <1>5, <2>2, <2>3 DEF RemoveTheLink
<1>6. ASSUME RemoveTheFolder
      PROVE  WorldOK' /\ PlansOK' /\ UndoOK' /\ WorkOK' /\ ErrandsOK' /\ strange' \subseteq Place \cup Starter
  <2>1. deleting # None /\ d.left # <<>>
    BY <1>6 DEF RemoveTheFolder, Deleting
  <2>2. ASSUME Doomed \in there, there' = there \ {Doomed}, gone' = gone \cup {Doomed}, link' = link,
               deleting' = [NextDoomed EXCEPT !.deleted = @ \cup {Doomed}],
               moving' = Crossed(moving), Touches({}), UNCHANGED <<pinned, previous, mishaps>>
        PROVE  WorldOK' /\ PlansOK' /\ UndoOK' /\ WorkOK' /\ ErrandsOK' /\ strange' \subseteq Place \cup Starter
    <3>1. WorkOK' /\ UndoOK' /\ strange' \subseteq Place \cup Starter /\ starts' = starts /\ profile' = profile
      BY <2>2, TouchingTheDisk
    <3>2. WorldOK'
      BY <1>1, <2>2, <3>1 DEF WorldOK, Standing
    <3>3. /\ NextDoomed \in Deletion /\ Doomed \in Addon
          /\ DOMAIN NextDoomed.seen = ToSet(NextDoomed.left) /\ IsInjective(NextDoomed.left)
      BY <1>1, <2>1, ADeletionGoesOn
    <3>4. deleting' \in Deletion /\ deleting'.seen = NextDoomed.seen /\ deleting'.left = NextDoomed.left
      BY <2>2, <3>3 DEF Deletion
    <3>5. ErrandsOK'
      BY <1>3, <2>2, <3>3, <3>4 DEF ErrandsOK, Maybe
    <3> QED
      BY <1>1, <2>2, <3>1, <3>2, <3>5, WhatIsLeftAlone
  <2>3. ASSUME deleting' = NextDoomed,
               UNCHANGED <<world, gone, profile, pinned, work, undo, previous, ghosts, batches, moving>>
        PROVE  WorldOK' /\ PlansOK' /\ UndoOK' /\ WorkOK' /\ ErrandsOK' /\ strange' \subseteq Place \cup Starter
    <3>1. deleting' \in Deletion /\ DOMAIN deleting'.seen = ToSet(deleting'.left) /\ IsInjective(deleting'.left)
      BY <1>1, <2>1, <2>3, ADeletionGoesOn
    <3>2. ErrandsOK'
      BY <1>3, <2>3, <3>1 DEF ErrandsOK, Maybe
    <3> QED
      BY <1>1, <2>3, <3>2, WhatIsLeftAlone DEF world, ghosts
  <2> QED
    BY <1>6, <2>2, <2>3 DEF RemoveTheFolder
<1>7. ASSUME Deleted
      PROVE  WorldOK' /\ PlansOK' /\ UndoOK' /\ WorkOK' /\ ErrandsOK' /\ strange' \subseteq Place \cup Starter
  <2>1. /\ deleting' = None /\ UNCHANGED <<world, gone, profile, pinned, work, previous, strange, moving>>
        /\ Forgotten \/ UNCHANGED <<undo, base, replaced>>
    BY <1>7 DEF Deleted
  <2>2. ErrandsOK'
    BY <1>3, <2>1 DEF ErrandsOK, Maybe
  <2> QED
    BY <1>1, <2>1, <2>2, WhatIsLeftAlone DEF world
<1> QED
  BY <1>4, <1>5, <1>6, <1>7

\* So does moving.
LEMMA MovingKeepsTheTypes ==
  ASSUME FInv,
         \/ \E p \in Place : DisableALink(p)
         \/ \E from \in Standing, to \in gone : MoveTo(from, to)
         \/ MoveTheFolder \/ Relink \/ AdoptTheReorganization
  PROVE  WorldOK' /\ PlansOK' /\ UndoOK' /\ WorkOK' /\ ErrandsOK' /\ strange' \subseteq Place \cup Starter
<1>1. WorldOK /\ PlansOK /\ UndoOK /\ WorkOK /\ ErrandsOK /\ strange \subseteq Place \cup Starter
  BY InParts
<1> DEFINE m == moving
<1>2. m # None => m \in Move /\ m.from # m.to /\ m.from \in Addon /\ m.to \in Addon
  BY <1>1 DEF ErrandsOK, Maybe, Move
<1>10. ASSUME m # None
       PROVE  /\ \A at \in {"relink", "adopt"}, result \in {"none", "completed", "refused", "noLink"} :
                   GoneOn(m, at, result) \in Move /\ GoneOn(m, at, result).from # GoneOn(m, at, result).to
              /\ \A p : LinkDown(m, p) \in Move /\ LinkDown(m, p).from # LinkDown(m, p).to
  <2> DEFINE n == m
  <2>1. n \in Move /\ n.from # n.to
    BY <1>2, <1>10
  <2> HIDE DEF n
  <2>2. ASSUME NEW x \in Move, SameMove(n, x) PROVE x.from # x.to
    BY <2>1, <2>2 DEF SameMove
  <2>3. \A at \in {"relink", "adopt"}, result \in {"none", "completed", "refused", "noLink"} :
          GoneOn(n, at, result) \in Move /\ SameMove(n, GoneOn(n, at, result))
    BY ZenonT(30), <2>1, AMoveGoesOn
  <2>4. \A p : LinkDown(n, p) \in Move /\ SameMove(n, LinkDown(n, p))
    BY <2>1, AMoveGoesOn
  <2> QED
    BY <2>2, <2>3, <2>4 DEF n
<1>3. ASSUME deleting' = Crossed(deleting) \/ deleting' = deleting, moving' \in Move, moving'.from # moving'.to
      PROVE  ErrandsOK'
  <2>1. \A e \in Deletion : LET c == [e EXCEPT !.alone = FALSE]
                            IN  c \in Deletion /\ c.left = e.left /\ c.seen = e.seen
    BY DEF Deletion
  <2> QED
    BY <1>1, <1>3, <2>1 DEF ErrandsOK, Crossed, Maybe
<1>4. ASSUME m # None, \E result \in {"refused", "noLink"} : moving' = GoneOn(m, "adopt", result),
             UNCHANGED <<world, gone, profile, pinned, work, undo, previous, ghosts, batches, deleting>>
      PROVE  WorldOK' /\ PlansOK' /\ UndoOK' /\ WorkOK' /\ ErrandsOK' /\ strange' \subseteq Place \cup Starter
  <2>1. moving' \in Move /\ moving'.from # moving'.to
    BY <1>4, <1>10
  <2> QED
    BY <1>1, <1>3, <1>4, <2>1, WhatIsLeftAlone DEF world, ghosts
<1>5. ASSUME NEW p \in Place, DisableALink(p)
      PROVE  WorldOK' /\ PlansOK' /\ UndoOK' /\ WorkOK' /\ ErrandsOK' /\ strange' \subseteq Place \cup Starter
  <2>1. ASSUME TakeTheLinkDown(p), moving' = LinkDown(m, p), m # None,
               deleting' = Crossed(deleting), Touches({p}), UNCHANGED <<gone, pinned, previous, mishaps>>
        PROVE  WorldOK' /\ PlansOK' /\ UndoOK' /\ WorkOK' /\ ErrandsOK' /\ strange' \subseteq Place \cup Starter
    <3>1. link' \in Disks /\ there' = there
      BY <1>1, <2>1, TakingALinkDown
    <3>2. WorkOK' /\ UndoOK' /\ strange' \subseteq Place \cup Starter /\ starts' = starts /\ profile' = profile
      BY <2>1, TouchingTheDisk
    <3>3. WorldOK'
      BY <1>1, <2>1, <3>1, <3>2 DEF WorldOK, Standing
    <3>4. moving' \in Move /\ moving'.from # moving'.to
      BY <1>10, <2>1
    <3> QED
      BY <1>1, <1>3, <2>1, <3>2, <3>3, <3>4, WhatIsLeftAlone
  <2> QED
    BY <1>4, <1>5, <2>1 DEF DisableALink, Refused, LinkDown, GoneOn
<1>6. ASSUME NEW from \in Standing, NEW to \in gone, MoveTo(from, to)
      PROVE  WorldOK' /\ PlansOK' /\ UndoOK' /\ WorkOK' /\ ErrandsOK' /\ strange' \subseteq Place \cup Starter
  <2>1. moving' \in Move /\ moving'.from # moving'.to
    BY <1>6, AMoveBegins
  <2>2. UNCHANGED <<world, gone, profile, pinned, work, undo, previous, ghosts, mishaps, deleting>>
    BY <1>6 DEF MoveTo
  <2> QED
    BY <1>1, <1>3, <2>1, <2>2, WhatIsLeftAlone DEF world, ghosts
<1>7. ASSUME MoveTheFolder
      PROVE  WorldOK' /\ PlansOK' /\ UndoOK' /\ WorkOK' /\ ErrandsOK' /\ strange' \subseteq Place \cup Starter
  <2>1. ASSUME m # None, m.from \in there, there' = (there \ {m.from}) \cup {m.to},
               gone' = (gone \ {m.to}) \cup {m.from}, link' = link,
               moving' = GoneOn(m, IF m.enabled THEN "relink" ELSE "adopt", "completed"),
               previous' = KnownAs(m.from, m.to), deleting' = Crossed(deleting), Touches({}), pinned' = pinned
        PROVE  WorldOK' /\ PlansOK' /\ UndoOK' /\ WorkOK' /\ ErrandsOK' /\ strange' \subseteq Place \cup Starter
    <3>1. WorkOK' /\ UndoOK' /\ strange' \subseteq Place \cup Starter /\ starts' = starts /\ profile' = profile
      BY <2>1, TouchingTheDisk
    <3>2. WorldOK'
      BY <1>1, <1>2, <2>1, <3>1 DEF WorldOK, Standing
    <3>3. moving' \in Move /\ moving'.from # moving'.to
      BY <1>10, <2>1
    <3>4. PlansOK'
      <4>1. previous \in [Profile -> Maybe(SUBSET Addon)] /\ m.from \in Addon /\ m.to \in Addon
        BY <1>1, <1>2, <2>1 DEF PlansOK
      <4>2. previous' \in [Profile -> Maybe(SUBSET Addon)]
        BY <2>1, <4>1 DEF KnownAs, Maybe
      <4> QED
        BY <1>1, <2>1, <3>1, <4>2 DEF PlansOK, PinsAreOfTheProfile
    <3> QED
      BY <1>3, <2>1, <3>1, <3>2, <3>3, <3>4
  <2> QED
    BY <1>4, <1>7, <2>1 DEF MoveTheFolder, Refused, GoneOn
<1>8. ASSUME Relink
      PROVE  WorldOK' /\ PlansOK' /\ UndoOK' /\ WorkOK' /\ ErrandsOK' /\ strange' \subseteq Place \cup Starter
  <2>1. ASSUME m # None, LinkAt(Does("link", m.to, m.plan)), moving' = [moving EXCEPT !.at = "adopt"],
               deleting' = Crossed(deleting), Touches({m.plan}), UNCHANGED <<there, gone, pinned, previous, mishaps>>
        PROVE  WorldOK' /\ PlansOK' /\ UndoOK' /\ WorkOK' /\ ErrandsOK' /\ strange' \subseteq Place \cup Starter
    <3>1. m.plan \in Place /\ m.to \in Addon
      BY <1>2, <2>1 DEF Move
    <3>2. link' = [link EXCEPT ![m.plan] = m.to]
      BY <2>1 DEF LinkAt, Does
    <3>3. WorkOK' /\ UndoOK' /\ strange' \subseteq Place \cup Starter /\ starts' = starts /\ profile' = profile
      BY <2>1, <3>1, TouchingTheDisk
    <3>4. WorldOK'
      BY <1>1, <2>1, <3>1, <3>2, <3>3 DEF WorldOK, Standing, Disks, Targets
    <3>5. moving' \in Move /\ moving'.from # moving'.to
      BY <1>2, <2>1, AMoveGoesOn DEF SameMove
    <3> QED
      BY <1>1, <1>3, <2>1, <3>3, <3>4, <3>5, WhatIsLeftAlone
  <2> QED
    BY <1>4, <1>8, <2>1 DEF Relink, GoneOn
<1>9. ASSUME AdoptTheReorganization
      PROVE  WorldOK' /\ PlansOK' /\ UndoOK' /\ WorkOK' /\ ErrandsOK' /\ strange' \subseteq Place \cup Starter
  <2>1. /\ m # None /\ moving' = None
        /\ UNCHANGED <<world, gone, profile, work, previous, strange, deleting>>
        /\ \/ UNCHANGED <<pinned, undo, base, replaced>>
           \/ /\ Forgotten
              /\ \E own \in OwnOnceCarried(profile, m.from, m.to) :
                   pinned' = [pinned EXCEPT ![profile][m.to].own = own, ![profile][m.from].own = None]
    BY <1>9 DEF AdoptTheReorganization
  <2>2. ErrandsOK'
    BY <1>1, <2>1 DEF ErrandsOK, Maybe
  <2>3. ASSUME NEW own \in OwnOnceCarried(profile, m.from, m.to),
               pinned' = [pinned EXCEPT ![profile][m.to].own = own, ![profile][m.from].own = None]
        PROVE  PlansOK'
    <3>1. m.from \in Addon /\ m.to \in Addon /\ m.from # m.to /\ profile \in Profile
      BY <1>1, <1>2, <2>1 DEF PlansOK
    <3> DEFINE from == m.from
               to == m.to
               P == pinned[profile]
    <3>2. /\ from \in Addon /\ to \in Addon /\ from # to
          /\ pinned' = [pinned EXCEPT ![profile][to].own = own, ![profile][from].own = None]
      BY <2>3, <3>1
    <3>3. own \in Maybe(Chosen \cap PlacesOf(profile))
      BY <1>1, <3>1, OnceCarriedItIsOfTheProfile
    <3> HIDE DEF from, to, m
    <3>4. P[from] \in OverrideOf(profile) /\ P[to] \in OverrideOf(profile)
      BY <1>1, <3>1, <3>2 DEF PlansOK, PinsAreOfTheProfile
    <3> DEFINE there2 == [P[to] EXCEPT !.own = own]
               left2 == [P[from] EXCEPT !.own = None]
    <3>5. there2 \in OverrideOf(profile) /\ left2 \in OverrideOf(profile)
      BY <3>3, <3>4 DEF OverrideOf, Maybe
    <3>6. pinned \in [Profile -> [Addon -> Override]] /\ PinsAreOfTheProfile /\ UNCHANGED <<profile, previous>>
      BY <1>1, <2>1 DEF PlansOK
    <3>7. pinned' = [pinned EXCEPT ![profile] = [P EXCEPT ![to] = there2, ![from] = left2]]
      BY <3>1, <3>2, <3>6
    <3> HIDE DEF there2, left2
    <3>8. \A p \in Profile, a \in Addon :
            pinned'[p][a] = IF p = profile /\ a = to THEN there2
                            ELSE IF p = profile /\ a = from THEN left2 ELSE pinned[p][a]
      BY <3>1, <3>2, <3>6, <3>7
    <3>9. OverrideOf(profile) \subseteq Override
      BY DEF OverrideOf, Override, Maybe
    <3>10. pinned' \in [Profile -> [Addon -> Override]]
      <4> DEFINE Q == [P EXCEPT ![to] = there2, ![from] = left2]
      <4>1. P \in [Addon -> Override] /\ there2 \in Override /\ left2 \in Override
        BY <3>1, <3>5, <3>6, <3>9
      <4>2. Q \in [Addon -> Override]
        BY <4>1
      <4>3. pinned' = [pinned EXCEPT ![profile] = Q]
        BY <3>7
      <4> HIDE DEF Q
      <4> QED
        BY <3>6, <4>2, <4>3
    <3>11. PinsAreOfTheProfile'
      <4>1. \A p \in Profile, a \in Addon : pinned'[p][a] \in OverrideOf(p)
        BY <3>5, <3>6, <3>8 DEF PinsAreOfTheProfile
      <4> QED
        BY <4>1 DEF PinsAreOfTheProfile, OverrideOf, Maybe, PlacesOf
    <3> QED
      BY <1>1, <3>6, <3>10, <3>11 DEF PlansOK
  <2> QED
    BY <1>1, <2>1, <2>2, <2>3, WhatIsLeftAlone DEF world
<1> QED
  BY <1>5, <1>6, <1>7, <1>8, <1>9
-----------------------------------------------------------------------------
(* The types. *)

\* They hold at first.
LEMMA TheTypesAtFirst ==
  ASSUME FoldersInit
  PROVE  FInv
<1> DEFINE nothing == [own |-> None, above |-> None]
           pins == [p \in Profile |-> [a \in Addon |-> nothing]]
<1>1. /\ link \in [Place -> (Addon \ Vacant) \cup {None}] /\ there = Addon \ Vacant /\ gone = Vacant /\ starts = Starter
      /\ profile = "first" /\ pinned = pins
      /\ work = [w \in Worker |-> None] /\ undo = <<>> /\ previous = [p \in Profile |-> None]
      /\ base = None /\ replaced = {} /\ strange = {} /\ deleting = None /\ moving = None
  BY DEF FoldersInit, Init
<1>2. WorldOK
  BY <1>1, TheConstants DEF WorldOK, Disks, Targets, Standing
<1>3. nothing \in Override /\ \A p \in Profile : nothing \in OverrideOf(p)
  BY DEF Override, OverrideOf, Maybe
<1> HIDE DEF nothing
<1>4. PlansOK
  <2>1. pinned \in [Profile -> [Addon -> Override]]
    BY <1>1, <1>3
  <2>2. PinsAreOfTheProfile
    BY <1>1, <1>3 DEF PinsAreOfTheProfile
  <2> QED
    BY <1>1, <2>1, <2>2 DEF PlansOK, Maybe, Profile
<1>5. UndoOK
  BY <1>1, EmptySeq DEF UndoOK, Maybe
<1>6. WorkOK
  BY <1>1 DEF WorkOK, Maybe, RepairsNameTheirTarget
<1>7. ErrandsOK
  BY <1>1 DEF ErrandsOK, Maybe
<1> QED
  BY <1>1, <1>2, <1>4, <1>5, <1>6, <1>7, InParts

\* The invariant in its parts, after a step.
LEMMA InPartsAfter ==
  ASSUME WorldOK', PlansOK', UndoOK', WorkOK', ErrandsOK', strange' \subseteq Place \cup Starter
  PROVE  FInv'
BY DEF FInv, FoldersTypeOK, TypeOK, WorldOK, PlansOK, UndoOK, WorkOK, ErrandsOK, AddonsAreDeletedOnce

\* Every step keeps them.
LEMMA TheTypesStay ==
  ASSUME FInv, [FoldersNext]_<<vars, folderVars>>
  PROVE  FInv'
<1>1. CASE BatchesGoOn
  <2>1. WorldOK' /\ PlansOK' /\ UndoOK' /\ WorkOK' /\ strange' \subseteq Place \cup Starter
    BY <1>1, BatchesKeepTheTypes DEF BatchesGoOn
  <2>2. ErrandsOK'
    <3>1. deleting' \in {deleting, Crossed(deleting)} /\ moving' \in {moving, Crossed(moving)}
      BY <1>1 DEF BatchesGoOn
    <3>2. ErrandsOK
      BY InParts
    <3> QED
      BY <3>1, <3>2, CrossedKeepsTheTypes
  <2> QED
    BY <2>1, <2>2, InPartsAfter
<1>2. CASE \/ \E addons \in (SUBSET Standing) \ {{}} : Delete(addons)
           \/ RemoveTheFolder \/ Deleted
           \/ \E p \in Place : RemoveTheLink(p)
  BY <1>2, DeletingKeepsTheTypes, InPartsAfter
<1>3. CASE \/ \E p \in Place : DisableALink(p)
           \/ \E from \in Standing, to \in gone : MoveTo(from, to)
           \/ MoveTheFolder \/ Relink \/ AdoptTheReorganization
  BY <1>3, MovingKeepsTheTypes, InPartsAfter
<1>4. CASE UNCHANGED <<vars, folderVars>>
  <2>1. /\ UNCHANGED <<link, there, starts, gone, profile, pinned, work, undo, previous, base, replaced, strange>>
        /\ deleting' = deleting /\ moving' = moving
    BY <1>4 DEF vars, folderVars, world, ghosts
  <2> QED
    BY <2>1 DEF FInv, FoldersTypeOK, TypeOK, PinsAreOfTheProfile, RepairsNameTheirTarget, AddonsAreDeletedOnce, Standing
<1> QED
  BY <1>1, <1>2, <1>3, <1>4 DEF FoldersNext

\* Every variable always holds a value of its kind, whatever batches, deletions, moves and other
\* programs do: in particular every step that is planned, or kept to undo, is of an addon at a place.
THEOREM FoldersTypeCorrect == FoldersSpec => []FoldersTypeOK
<1>1. FoldersInit => FInv
  BY TheTypesAtFirst
<1>2. FInv /\ [FoldersNext]_<<vars, folderVars>> => FInv'
  BY TheTypesStay
<1>3. FInv => FoldersTypeOK
  BY DEF FInv
<1> QED
  BY <1>1, <1>2, <1>3, PTL DEF FoldersSpec
-----------------------------------------------------------------------------
(* A batch nobody disturbed. *)

\* Such a batch does what it was asked for, on the disk as it read it; a repair has one step.
Undisturbed(b) == BatchInv(b) /\ (b.kind = "repair" => Len(b.steps) <= 1)
AloneInv == \A w \in Worker : work[w] # None /\ work[w].alone => Undisturbed(work[w])

\* A deletion or a move that changes the disk disturbs every batch, and one that does not leaves
\* them alone.
LEMMA FoldersDisturbOrStay ==
  ASSUME \/ \E addons \in (SUBSET Standing) \ {{}} : Delete(addons)
         \/ RemoveTheFolder \/ Deleted
         \/ \E p \in Place : RemoveTheLink(p) \/ DisableALink(p)
         \/ \E from \in Standing, to \in gone : MoveTo(from, to)
         \/ MoveTheFolder \/ Relink \/ AdoptTheReorganization
  PROVE  work' = Nobody \/ (work' = work /\ UNCHANGED <<link, there, gone>>)
BY DEF Delete, RemoveTheFolder, Deleted, RemoveTheLink, DisableALink, MoveTo, MoveTheFolder, Relink,
       AdoptTheReorganization, Touches, world

\* What a batch that is still alone just did, if anything.
LEMMA WhatBecomesOfABatch ==
  ASSUME FInv, [FoldersNext]_<<vars, folderVars>>, NEW w \in Worker, work'[w] # None, work'[w].alone
  PROVE  /\ gone' = gone
         /\ \/ work'[w] = work[w] /\ UNCHANGED <<link, there>>
            \/ TakeTheGuard(w) /\ UNCHANGED <<link, there>>
            \/ StepSucceeds(w) \/ StepFails(w)
            \/ /\ \E kind, steps, off, on : Asks(w, kind, steps, off, on)
               /\ UNCHANGED <<link, there>>
<1>1. WorkOK
  BY InParts
<1>2. work' # Nobody
  <2> SUFFICES ASSUME work' = Nobody PROVE FALSE
    OBVIOUS
  <2> QED
    BY <1>1, NobodyIsAlone DEF WorkOK
<1>3. CASE BatchesGoOn
  <2>1. Next /\ gone' = gone
    BY <1>3 DEF BatchesGoOn, Next
  <2>2. CASE SomeoneAsks
    <3>1. SomeBatchIsAsked
      BY <2>2, AskingIsSound
    <3>2. PICK v \in Worker, kind \in {"toggle", "relink", "repair", "apply", "back", "undo"},
               steps \in Seq(Step), off \in SUBSET Addon, on \in SUBSET Addon : Asks(v, kind, steps, off, on)
      BY <3>1 DEF SomeBatchIsAsked
    <3>3. UNCHANGED <<link, there>> /\ (v # w => work'[w] = work[w])
      BY <1>1, <3>2 DEF Asks, world, WorkOK
    <3> QED
      BY <2>1, <3>2, <3>3
  <2>3. ASSUME NEW v \in Worker, TakeTheGuard(v) PROVE UNCHANGED <<link, there>> /\ (v # w => work'[w] = work[w])
    BY <1>1, <2>3 DEF TakeTheGuard, world, WorkOK
  <2>4. ASSUME NEW v \in Worker, StepSucceeds(v) \/ StepFails(v) PROVE v = w
    <3> SUFFICES ASSUME v # w PROVE FALSE
      OBVIOUS
    <3>1. work[w] # None /\ work'[w] = [work[w] EXCEPT !.alone = FALSE] /\ work[w] \in Batch
      BY <1>1, <2>4, TheBatchesAfterAStep DEF WorkOK, Maybe
    <3> QED
      BY <3>1, NoLongerAlone
  <2>5. ASSUME NEW v \in Worker, End(v) PROVE UNCHANGED <<link, there>> /\ (v # w => work'[w] = work[w]) /\ v # w
    BY <1>1, <2>5 DEF End, world, WorkOK
  <2>6. ASSUME SomeoneElseActs PROVE UNCHANGED <<link, there, work>>
    BY <1>2, <2>6 DEF SomeoneElseActs, ChooseProfile, OverrideDestination, SomeoneLinks, FolderGoesOrComes,
                      SomeoneSwitches, world
  <2>7. ASSUME ForgetUndo PROVE UNCHANGED <<link, there, work>>
    BY <2>7 DEF ForgetUndo, world
  <2> QED
    BY <2>1, <2>2, <2>3, <2>4, <2>5, <2>6, <2>7 DEF Next
<1>4. CASE \/ \E addons \in (SUBSET Standing) \ {{}} : Delete(addons)
           \/ RemoveTheFolder \/ Deleted
           \/ \E p \in Place : RemoveTheLink(p) \/ DisableALink(p)
           \/ \E from \in Standing, to \in gone : MoveTo(from, to)
           \/ MoveTheFolder \/ Relink \/ AdoptTheReorganization
  BY <1>2, <1>4, FoldersDisturbOrStay
<1>5. CASE UNCHANGED <<vars, folderVars>>
  BY <1>5 DEF vars, world
<1> QED
  BY <1>3, <1>4, <1>5 DEF FoldersNext

\* What a reading says depends on the disk, the folders and the paths where none stands.
LEMMA ReadAgain ==
  ASSUME gone' = gone, NEW disk, NEW folders, NEW places
  PROVE  Entries(disk, folders, places)' = Entries(disk, folders, places)
BY DEF Entries, Marked, Class

\* A batch that does nothing while nothing happens.
LEMMA AnIdleBatchIsUndisturbed ==
  ASSUME NEW w \in Worker, Undisturbed(work[w]), UNCHANGED <<link, there, gone>>,
         work'[w].kind = work[w].kind, work'[w].profile = work[w].profile, work'[w].seen = work[w].seen,
         work'[w].off = work[w].off, work'[w].on = work[w].on, work'[w].failed = work[w].failed,
         work'[w].ran = work[w].ran, work'[w].steps = work[w].steps \/ work[w].kind = "undo"
  PROVE  Undisturbed(work[w])'
<1> DEFINE b == work[w]
<1>1. AsItWasRead(work[w])'
  <2>1. PICK disk \in Disks : /\ b.seen = Entries(disk, there, PlacesOf(b.profile))
                              /\ \A q \in PlacesOf(b.profile) \ b.ran : link[q] = disk[q]
    BY DEF Undisturbed, BatchInv, AsItWasRead
  <2>2. Entries(disk, there, PlacesOf(b.profile))' = Entries(disk, there, PlacesOf(b.profile))
    BY ReadAgain
  <2> QED
    BY <2>1, <2>2 DEF AsItWasRead
<1>2. OfADeadLink(work[w])' /\ (work'[w].kind = "repair" => Len(work'[w].steps) <= 1)
  BY DEF Undisturbed, BatchInv, OfADeadLink, Dead
<1>3. UnderWay(work[w])'
  <2>1. CASE ~Sets(b)
    <3>1. b.off = {} /\ b.on = {}
      BY <2>1 DEF Undisturbed, BatchInv, UnderWay
    <3>2. work'[w].off = {} /\ work'[w].on = {} /\ ~Sets(work'[w])
      BY <2>1, <3>1 DEF Sets
    <3> QED
      BY <3>2 DEF UnderWay, Sets
  <2>2. CASE Sets(b)
    <3>1. b.off \cap b.on = {} /\ InOrder(b) /\ OffIsUnderWay(b) /\ OnIsUnderWay(b)
      BY <2>2 DEF Undisturbed, BatchInv, UnderWay
    <3>2. work'[w].steps = b.steps
      BY <2>2 DEF Sets
    <3>3. InOrder(work[w])'
      BY <3>1, <3>2 DEF InOrder
    <3>4. OffIsUnderWay(work[w])'
      BY <3>1, <3>2 DEF OffIsUnderWay, ToUnlink
    <3>5. OnIsUnderWay(work[w])'
      BY <3>1, <3>2 DEF OnIsUnderWay, ToUnlink, ToLink
    <3> QED
      BY <2>2, <3>1, <3>3, <3>4, <3>5 DEF UnderWay, Sets
  <2> QED
    BY <2>1, <2>2
<1> QED
  BY <1>1, <1>2, <1>3 DEF Undisturbed, BatchInv
\* A batch that runs one of its steps: nobody else is at work.
LEMMA AStepKeepsItUndisturbed ==
  ASSUME FInv, NEW w \in Worker, StepSucceeds(w) \/ StepFails(w), gone' = gone, Undisturbed(work[w])
  PROVE  Undisturbed(work[w])'
<1> DEFINE b == work[w]
           c == work'[w]
           s == Head(b.steps)
           rest == Tail(b.steps)
<1>1. /\ WorldOK /\ WorkOK /\ link \in Disks /\ there \subseteq Addon
  BY InParts DEF WorldOK, Standing
<1>2. /\ b \in Batch /\ b.steps # <<>> /\ b.steps \in Seq(StepsOf(b.kind)) /\ b.steps \in Seq(Step)
      /\ b.profile \in Profile
  BY <1>1, TheBatchesAfterAStep DEF Batch
<1>3. s \in Step /\ s \in StepsOf(b.kind)
  BY <1>2, TheBatchAfterAStep
<1>4. /\ c.kind = b.kind /\ c.profile = b.profile /\ c.seen = b.seen /\ c.off = b.off /\ c.on = b.on
      /\ c.steps = rest /\ c.ran = b.ran \cup {s.place} /\ b.failed \subseteq c.failed
      /\ StepFails(w) /\ ~StepSucceeds(w) => s \in c.failed
  <2>1. CASE StepSucceeds(w)
    <3>1. c = Ran(b, s)
      BY <1>1, <2>1, TheBatchesAfterAStep
    <3> HIDE DEF b, c
    <3>2. SameBatch(b, Ran(b, s))
      BY <1>2, TheBatchAfterAStep
    <3>3. Ran(b, s).steps = rest /\ Ran(b, s).ran = b.ran \cup {s.place} /\ Ran(b, s).failed = b.failed
      BY <1>2, TheBatchAfterAStep
    <3> QED
      BY <2>1, <3>1, <3>2, <3>3 DEF SameBatch
  <2>2. CASE StepFails(w)
    <3>1. c = Failed(b, s)
      BY <1>1, <2>2, TheBatchesAfterAStep
    <3> HIDE DEF b, c
    <3>2. SameBatch(b, Failed(b, s))
      BY <1>2, TheBatchAfterAStep
    <3>3. /\ Failed(b, s).steps = rest /\ Failed(b, s).ran = b.ran \cup {s.place}
          /\ Failed(b, s).failed = b.failed \cup {s}
      BY <1>2, TheBatchAfterAStep
    <3> QED
      BY <3>1, <3>2, <3>3 DEF SameBatch
  <2> QED
    BY <2>1, <2>2
<1>5. /\ s = b.steps[1] /\ 1 \in 1..Len(b.steps) /\ Len(rest) = Len(b.steps) - 1 /\ Len(b.steps) \in Nat
      /\ \A i \in 1..Len(rest) : i + 1 \in 1..Len(b.steps) /\ rest[i] = b.steps[i + 1]
      /\ \A i \in 1..Len(b.steps) : i # 1 => i - 1 \in 1..Len(rest) /\ rest[i - 1] = b.steps[i]
  BY <1>2, TheFirstStep
<1>6. /\ \A q \in Place : q # s.place => link'[q] = link[q]
      /\ there' = there
      /\ \A q \in Place, a \in there : link'[q] = a /\ link[q] # a => s.does = "link" /\ s.addon = a /\ q = s.place
      /\ \A q \in Place, a \in there : link[q] = a /\ link'[q] # a => s.does = "unlink" /\ q = s.place
      /\ s.does = "link" => s.place \in Place /\ (link'[s.place] = s.addon \/ (StepFails(w) /\ ~StepSucceeds(w)))
  <2>1. None \notin Addon
    BY TheConstants
  <2>2. CASE StepSucceeds(w)
    <3>1. /\ \A q \in Place : q # s.place => link'[q] = link[q]
          /\ there' = there
          /\ s.does = "link" => /\ link[s.place] \in {None} \cup Dead /\ link'[s.place] = s.addon
                                /\ s.place \in Place
          /\ s.does = "unlink" => link'[s.place] = None
          /\ s.does \in {"turnOn", "turnOff"} => link' = link
      BY <1>1, <2>2, WhatAStepChanges
    <3>2. s.does \in {"link", "unlink", "turnOn", "turnOff"}
      BY <1>3, WhatAStepIs
    <3> HIDE DEF s
    <3> QED
      BY <1>1, <2>1, <3>1, <3>2 DEF Dead
  <2>3. CASE StepFails(w) /\ ~StepSucceeds(w)
    <3>1. /\ \A q \in Place : q # s.place => link'[q] = link[q]
          /\ there' = there
          /\ \/ link' = link
             \/ s.place \in Place /\ link[s.place] \in Dead /\ link'[s.place] = None
      BY <1>1, <2>3, WhatAFailureChanges
    <3>2. s.does = "link" => s.place \in Place
      BY <1>3, WhatAStepIs
    <3> HIDE DEF s
    <3> QED
      BY <1>1, <2>1, <2>3, <3>1, <3>2 DEF Dead
  <2> QED
    BY <2>2, <2>3
<1>7. PlacesOf(b.profile) \subseteq Place
  BY <1>2, TheConstants
<1> HIDE DEF s, rest
<1>8. AsItWasRead(work[w])'
  <2>1. PICK disk \in Disks : /\ b.seen = Entries(disk, there, PlacesOf(b.profile))
                              /\ \A q \in PlacesOf(b.profile) \ b.ran : link[q] = disk[q]
    BY DEF Undisturbed, BatchInv, AsItWasRead
  <2>2. Entries(disk, there, PlacesOf(b.profile))' = Entries(disk, there, PlacesOf(b.profile))
    BY <1>4, <1>6, ReadAgain
  <2>3. \A q \in PlacesOf(b.profile) \ c.ran : link'[q] = disk[q]
    BY <1>4, <1>6, <1>7, <2>1
  <2>4. c.seen = Entries(disk, there, PlacesOf(b.profile))'
    BY <1>4, <2>1, <2>2
  <2> QED
    BY <1>4, <2>3, <2>4 DEF AsItWasRead
<1>9. OfADeadLink(work[w])' /\ (c.kind = "repair" => Len(c.steps) <= 1)
  BY <1>4, <1>5 DEF Undisturbed, OfADeadLink
<1>10. UnderWay(work[w])'
  <2>1. CASE ~Sets(b)
    <3>1. b.off = {} /\ b.on = {}
      BY <2>1 DEF Undisturbed, BatchInv, UnderWay
    <3>2. c.off = {} /\ c.on = {} /\ ~Sets(c)
      BY <1>4, <2>1, <3>1 DEF Sets
    <3> QED
      BY <3>2 DEF UnderWay, Sets
  <2>2. CASE Sets(b)
    <3>1. b.off \cap b.on = {} /\ InOrder(b) /\ OffIsUnderWay(b) /\ OnIsUnderWay(b)
      BY <2>2 DEF Undisturbed, BatchInv, UnderWay
    <3>2. InOrder(work[w])'
      <4>1. ASSUME NEW i \in 1..Len(rest), rest[i].does = "link"
            PROVE  /\ rest[i].addon \in b.on /\ rest[i].place \in PlacesOf(b.profile)
                   /\ \A j \in 1..Len(rest) : i < j => rest[j].does # "unlink"
        <5>1. i + 1 \in 1..Len(b.steps) /\ rest[i] = b.steps[i + 1]
          BY <1>5
        <5>2. \A j \in 1..Len(rest) : i < j => i + 1 < j + 1 /\ j + 1 \in 1..Len(b.steps) /\ rest[j] = b.steps[j + 1]
          BY <1>5
        <5>3. rest[i].addon \in b.on /\ rest[i].place \in PlacesOf(b.profile)
          BY <3>1, <4>1, <5>1 DEF InOrder
        <5>4. ASSUME NEW j \in 1..Len(rest), i < j PROVE rest[j].does # "unlink"
          BY <3>1, <4>1, <5>1, <5>2, <5>4 DEF InOrder
        <5> QED
          BY <5>3, <5>4
      <4> QED
        BY <1>4, <4>1 DEF InOrder
    <3>3. OffIsUnderWay(work[w])'
      <4> SUFFICES ASSUME NEW a \in b.off \cap there, NEW q \in PlacesOf(b.profile), link'[q] = a
                   PROVE  (\E i \in 1..Len(rest) : rest[i].does = "unlink" /\ rest[i].place = q)
                          \/ \E f \in c.failed : f.place = q
        BY <1>4, <1>6 DEF OffIsUnderWay, ToUnlink
      <4>1. CASE link[q] # a
        <5>1. s.does = "link" /\ s.addon = a
          BY <1>6, <1>7, <4>1
        <5>2. a \in b.on
          BY <1>5, <3>1, <5>1 DEF InOrder
        <5> QED
          BY <3>1, <5>2
      <4>2. CASE link[q] = a
        <5>1. ToUnlink(b, q) \/ \E f \in b.failed : f.place = q
          BY <3>1, <4>2 DEF OffIsUnderWay
        <5>2. CASE \E f \in b.failed : f.place = q
          BY <1>4, <5>2
        <5>3. CASE ToUnlink(b, q)
          <6>1. PICK i \in 1..Len(b.steps) : b.steps[i].does = "unlink" /\ b.steps[i].place = q
            BY <5>3 DEF ToUnlink
          <6>2. CASE i # 1
            BY <1>5, <6>1, <6>2
          <6>3. CASE i = 1
            <7>1. s.does = "unlink" /\ s.place = q
              BY <1>5, <6>1, <6>3
            <7>2. CASE StepSucceeds(w)
              <8>1. link'[q] = None
                BY <1>1, <7>1, <7>2, WhatAStepChanges DEF s
              <8> QED
                BY <1>1, <8>1, TheConstants
            <7>3. CASE StepFails(w) /\ ~StepSucceeds(w)
              BY <1>4, <7>1, <7>3
            <7> QED
              BY <7>2, <7>3
          <6> QED
            BY <6>2, <6>3
        <5> QED
          BY <5>1, <5>2, <5>3
      <4> QED
        BY <4>1, <4>2
    <3>4. OnIsUnderWay(work[w])'
      <4> SUFFICES ASSUME NEW a \in b.on \cap there
                   PROVE  \/ \E f \in c.failed : f.addon = a
                          \/ \E i \in 1..Len(rest) : rest[i].does = "link" /\ rest[i].addon = a
                          \/ \E q \in PlacesOf(b.profile) :
                               link'[q] = a /\ ~\E i \in 1..Len(rest) : rest[i].does = "unlink" /\ rest[i].place = q
        BY <1>4, <1>6 DEF OnIsUnderWay, ToUnlink, ToLink
      <4>1. CASE \E f \in b.failed : f.addon = a
        BY <1>4, <4>1
      <4>2. CASE ToLink(b, a)
        <5>1. PICK i \in 1..Len(b.steps) : b.steps[i].does = "link" /\ b.steps[i].addon = a
          BY <4>2 DEF ToLink
        <5>2. CASE i # 1
          BY SMTT(30), <1>5, <5>1, <5>2
        <5>3. CASE i = 1
          <6>1. s.does = "link" /\ s.addon = a
            BY <1>5, <5>1, <5>3
          <6>2. s.place \in PlacesOf(b.profile)
            BY <1>5, <3>1, <6>1 DEF InOrder
          <6>3. ASSUME NEW j \in 1..Len(rest) PROVE rest[j].does # "unlink"
            <7>1. j + 1 \in 1..Len(b.steps) /\ rest[j] = b.steps[j + 1] /\ 1 < j + 1
              BY <1>5
            <7>2. b.steps[1].does = "link"
              BY <5>1, <5>3
            <7> QED
              BY <1>5, <3>1, <7>1, <7>2 DEF InOrder
          <6>4. link'[s.place] = a \/ s \in c.failed
            BY <1>4, <1>6, <6>1
          <6> QED
            BY <6>1, <6>2, <6>3, <6>4
        <5> QED
          BY <5>2, <5>3
      <4>3. CASE \E q \in PlacesOf(b.profile) : link[q] = a /\ ~ToUnlink(b, q)
        <5>1. PICK q \in PlacesOf(b.profile) : link[q] = a /\ ~ToUnlink(b, q)
          BY <4>3
        <5>2. ~(s.does = "unlink" /\ s.place = q)
          BY <1>5, <5>1 DEF ToUnlink
        <5>3. link'[q] = a
          BY <1>6, <1>7, <5>1, <5>2
        <5>4. ~\E i \in 1..Len(rest) : rest[i].does = "unlink" /\ rest[i].place = q
          BY <1>5, <5>1 DEF ToUnlink
        <5> QED
          BY <5>3, <5>4
      <4> QED
        BY <3>1, <4>1, <4>2, <4>3 DEF OnIsUnderWay
    <3>5. c.off \cap c.on = {} /\ Sets(c)
      BY <1>4, <2>2, <3>1 DEF Sets
    <3> QED
      BY <3>2, <3>3, <3>4, <3>5 DEF UnderWay, Sets
  <2> QED
    BY <2>1, <2>2
<1> QED
  BY <1>8, <1>9, <1>10 DEF Undisturbed, BatchInv

\* Whatever happens, a batch that is still alone is as it should be.
LEMMA AloneStays ==
  ASSUME FInv, AloneInv, [FoldersNext]_<<vars, folderVars>>
  PROVE  AloneInv'
<1> SUFFICES ASSUME NEW w \in Worker, work'[w] # None, work'[w].alone PROVE Undisturbed(work[w])'
  BY DEF AloneInv, Undisturbed, BatchInv, OfADeadLink, AsItWasRead, UnderWay
<1>1. WorldOK /\ UndoOK /\ WorkOK /\ gone' = gone
  BY InParts, WhatBecomesOfABatch
<1>2. CASE work'[w] = work[w] /\ UNCHANGED <<link, there>>
  <2>1. Undisturbed(work[w])
    BY <1>2 DEF AloneInv
  <2> QED
    BY <1>1, <1>2, <2>1, AnIdleBatchIsUndisturbed
<1>3. CASE TakeTheGuard(w) /\ UNCHANGED <<link, there>>
  <2>1. /\ work[w] # None /\ work'[w].alone = work[w].alone
        /\ work'[w].kind = work[w].kind /\ work'[w].profile = work[w].profile /\ work'[w].seen = work[w].seen
        /\ work'[w].off = work[w].off /\ work'[w].on = work[w].on /\ work'[w].failed = work[w].failed
        /\ work'[w].ran = work[w].ran /\ (work'[w].steps = work[w].steps \/ work[w].kind = "undo")
    BY <1>1, <1>3, TakingTheGuard
  <2>2. Undisturbed(work[w])
    BY <2>1 DEF AloneInv
  <2> QED
    BY <1>1, <1>3, <2>1, <2>2, AnIdleBatchIsUndisturbed
<1>4. CASE StepSucceeds(w) \/ StepFails(w)
  <2> DEFINE b == work[w]
             s == Head(b.steps)
  <2>1. /\ b \in Batch /\ b # None /\ b.steps # <<>> /\ b.steps \in Seq(StepsOf(b.kind))
        /\ work'[w] = Ran(b, s) \/ work'[w] = Failed(b, s)
    BY <1>1, <1>4, TheBatchesAfterAStep
  <2> HIDE DEF b
  <2>2. work'[w].alone = b.alone
    <3>1. Ran(b, s).alone = b.alone /\ Failed(b, s).alone = b.alone
      BY <2>1, TheBatchAfterAStep DEF SameBatch
    <3> QED
      BY <2>1, <3>1
  <2>3. Undisturbed(work[w])
    BY <2>1, <2>2 DEF AloneInv, b
  <2> QED
    BY <1>1, <1>4, <2>3, AStepKeepsItUndisturbed
<1>5. ASSUME NEW kind, NEW steps, NEW off, NEW on, Asks(w, kind, steps, off, on), UNCHANGED <<link, there>>
      PROVE  Undisturbed(work[w])'
  <2> DEFINE b == Asked(kind, steps, off, on)
  <2>1. work'[w] = b /\ BatchInv(b) /\ (kind = "repair" => Len(steps) <= 1)
    BY <1>1, <1>5 DEF Asks, WorkOK
  <2>2. b.kind = kind /\ b.steps = steps
    BY DEF Asked
  <2> HIDE DEF b
  <2>3. AsItWasRead(work[w])'
    <3>1. PICK disk \in Disks : /\ b.seen = Entries(disk, there, PlacesOf(b.profile))
                                /\ \A q \in PlacesOf(b.profile) \ b.ran : link[q] = disk[q]
      BY <2>1 DEF BatchInv, AsItWasRead
    <3>2. \A places : Entries(disk, there, places)' = Entries(disk, there, places)
      BY <1>1, <1>5, ReadAgain
    <3>3. work'[w].seen = Entries(disk, there, PlacesOf(work'[w].profile))
      BY <2>1, <3>1
    <3>4. \A q \in PlacesOf(work'[w].profile) \ work'[w].ran : link'[q] = disk[q]
      BY <1>5, <2>1, <3>1
    <3> QED
      BY <3>2, <3>3, <3>4 DEF AsItWasRead
  <2>4. OfADeadLink(work[w])'
    BY <1>5, <2>1 DEF BatchInv, OfADeadLink, Dead
  <2>5. UnderWay(work[w])'
    <3>1. UnderWay(b)
      BY <2>1 DEF BatchInv
    <3>2. CASE ~Sets(b)
      BY <2>1, <3>1, <3>2 DEF UnderWay, Sets
    <3>3. CASE Sets(b)
      <4>1. b.off \cap b.on = {} /\ InOrder(b) /\ OffIsUnderWay(b) /\ OnIsUnderWay(b)
        BY <3>1, <3>3 DEF UnderWay
      <4>2. InOrder(work[w])'
        BY <2>1, <4>1 DEF InOrder
      <4>3. OffIsUnderWay(work[w])'
        BY <1>5, <2>1, <4>1 DEF OffIsUnderWay, ToUnlink
      <4>4. OnIsUnderWay(work[w])'
        BY <1>5, <2>1, <4>1 DEF OnIsUnderWay, ToUnlink, ToLink
      <4> QED
        BY <2>1, <3>3, <4>1, <4>2, <4>3, <4>4 DEF UnderWay, Sets
    <3> QED
      BY <3>2, <3>3
  <2> QED
    BY <2>1, <2>2, <2>3, <2>4, <2>5 DEF Undisturbed, BatchInv
<1> QED
  BY <1>1, <1>2, <1>3, <1>4, <1>5, WhatBecomesOfABatch
\* What the links say of a place depends on what stands there alone.
LEMMA WhatAPlaceIs ==
  ASSUME NEW disk \in Disks, NEW folders \in SUBSET Addon, NEW q \in Place
  PROVE  /\ Class(disk, folders, q) # "duplicated"
         /\ Class(disk, folders, q) = "managed" <=> disk[q] \in folders
         /\ disk[q] = None => Class(disk, folders, q) = "nothing"
         /\ \A other \in Disks : other[q] = disk[q] => Class(other, folders, q) = Class(disk, folders, q)
<1>1. disk[q] \in Targets /\ None \notin Addon /\ None # Folder /\ Folder \notin Addon /\ Removable \subseteq Addon
  BY TheConstants DEF Disks
<1>2. \A other \in Disks : other[q] = disk[q] => Class(other, folders, q) = Class(disk, folders, q)
  BY DEF Class
<1>3. CASE disk[q] = None
  <2>1. Class(disk, folders, q) = "nothing" /\ disk[q] \notin folders
    BY <1>1, <1>3 DEF Class
  <2> QED
    BY <1>2, <2>1
<1>4. CASE disk[q] = Folder
  BY <1>1, <1>2, <1>4 DEF Class
<1>5. CASE disk[q] \in folders
  BY <1>1, <1>2, <1>5 DEF Class
<1>6. CASE disk[q] \in Addon \ folders
  <2>1. Class(disk, folders, q) = IF disk[q] \in Removable \ (gone \cup folders) THEN "unavailable" ELSE "broken"
    BY <1>1, <1>6 DEF Class
  <2> QED
    BY <1>1, <1>2, <1>6, <2>1
<1> QED
  BY <1>1, <1>3, <1>4, <1>5, <1>6 DEF Targets

\* What is derived of an older reading is what a new one finds, when the disk changed only where
\* it is said to have.
LEMMA RefreshingIsReading ==
  ASSUME NEW disk \in Disks, link \in Disks, there \in SUBSET Addon, NEW p \in Profile, NEW changed,
         \A q \in PlacesOf(p) \ changed : link[q] = disk[q]
  PROVE  Refreshed(Entries(disk, there, PlacesOf(p)), changed, PlacesOf(p)) = Entries(link, there, PlacesOf(p))
<1> DEFINE places == PlacesOf(p)
           was == [q \in places |-> Class(disk, there, q)]
           now == [q \in places |-> Class(link, there, q)]
           known == Entries(disk, there, places)
           wanted == Marked(link, now, places)
           present == {q \in places : link[q] # None}
           fresh == {q \in present : q \in changed \/ known[q].class = "nothing"}
           retargeted == {known[q].target : q \in {r \in places : r \in changed \/ r \notin present}}
                         \cup {link[q] : q \in fresh}
           read == fresh \cup {q \in present : known[q].target \in retargeted}
           class == [q \in places |-> IF q \notin present THEN "nothing"
                                      ELSE IF q \in read THEN Class(link, there, q) ELSE known[q].class]
           marks == Marked(link, class, places)
<1>1. /\ Refreshed(known, changed, places)
           = [q \in places |-> [target |-> IF q \in present /\ q \notin read THEN known[q].target ELSE link[q],
                                class |-> marks[q]]]
      /\ Entries(link, there, places) = [q \in places |-> [target |-> link[q], class |-> wanted[q]]]
  BY DEF Refreshed, Entries
<1>2. places \subseteq Place /\ None \notin Addon
  BY TheConstants
<1>3. \A q \in places : /\ was[q] # "duplicated" /\ now[q] # "duplicated"
                        /\ was[q] = "managed" <=> disk[q] \in there
                        /\ now[q] = "managed" <=> link[q] \in there
                        /\ link[q] = None => now[q] = "nothing"
                        /\ link[q] = disk[q] => now[q] = was[q]
  BY <1>2, WhatAPlaceIs
<1>4. /\ known = [q \in places |-> [target |-> disk[q], class |-> Marked(disk, was, places)[q]]]
      /\ \A q \in places : known[q].target = disk[q] /\ known[q].class = Marked(disk, was, places)[q]
  BY DEF Entries
<1>5. \A q \in places : Marked(disk, was, places)[q]
        = IF was[q] = "managed" /\ \E r \in places \ {q} : was[r] \in {"managed", "duplicated"} /\ disk[r] = disk[q]
          THEN "duplicated" ELSE was[q]
  BY DEF Marked
<1>6. /\ \A q \in places : wanted[q]
          = IF now[q] = "managed" /\ \E r \in places \ {q} : now[r] \in {"managed", "duplicated"} /\ link[r] = link[q]
            THEN "duplicated" ELSE now[q]
      /\ \A q \in places : marks[q]
        = IF class[q] = "managed" /\ \E r \in places \ {q} : class[r] \in {"managed", "duplicated"} /\ link[r] = link[q]
            THEN "duplicated" ELSE class[q]
  BY DEF Marked
<1>7. \A q \in places : class[q] = IF q \notin present THEN "nothing" ELSE IF q \in read THEN now[q] ELSE known[q].class
  OBVIOUS
<1>8. ASSUME NEW q \in places, q \in present, q \notin read
      PROVE  /\ link[q] = disk[q] /\ now[q] = was[q] /\ known[q].target = link[q]
             /\ \A r \in places : disk[r] = disk[q] => r \notin changed /\ r \in present
  <2>1. q \notin changed /\ known[q].target \notin retargeted
    BY <1>8
  <2>2. \A r \in places : r \in changed \/ r \notin present => known[r].target \in retargeted
    OBVIOUS
  <2>3. link[q] = disk[q]
    BY <2>1
  <2> HIDE DEF retargeted, read, present
  <2> QED
    BY <1>3, <1>4, <2>1, <2>2, <2>3
<1> HIDE DEF was, now, known, wanted, marks, class, read, fresh, retargeted
<1>9. ASSUME NEW q \in places
      PROVE  class[q] = now[q] \/ (class[q] = "duplicated" /\ now[q] = "managed" /\ q \in present /\ q \notin read)
  <2>1. CASE q \notin present
    BY <1>3, <1>7, <2>1
  <2>2. CASE q \in present /\ q \in read
    BY <1>7, <2>2
  <2>3. CASE q \in present /\ q \notin read
    BY <1>4, <1>5, <1>7, <1>8, <2>3
  <2> QED
    BY <2>1, <2>2, <2>3
<1>10. \A q \in places : class[q] \in {"managed", "duplicated"} <=> now[q] \in {"managed", "duplicated"}
  BY <1>9
<1>11. ASSUME NEW q \in places PROVE marks[q] = wanted[q]
  <2>1. CASE class[q] = now[q]
    BY <1>6, <1>10, <2>1
  <2>2. CASE class[q] # now[q]
    <3>1. class[q] = "duplicated" /\ now[q] = "managed" /\ q \in present /\ q \notin read
      BY <1>9, <2>2
    <3>2. class[q] = Marked(disk, was, places)[q]
      BY <1>4, <1>7, <3>1
    <3>3. PICK r \in places \ {q} : disk[r] = disk[q]
      BY <1>3, <1>5, <3>1, <3>2
    <3>4. link[q] = disk[q] /\ r \notin changed
      BY <1>8, <3>1, <3>3
    <3>5. link[r] = link[q]
      BY <3>3, <3>4
    <3>6. now[r] = "managed"
      BY <1>3, <3>1, <3>5
    <3>7. wanted[q] = "duplicated"
      BY <1>6, <3>1, <3>5, <3>6
    <3> QED
      BY <1>6, <3>1, <3>7
  <2> QED
    BY <2>1, <2>2
<1>12. \A q \in places : (IF q \in present /\ q \notin read THEN known[q].target ELSE link[q]) = link[q]
  BY <1>8
<1>13. [q \in places |-> [target |-> IF q \in present /\ q \notin read THEN known[q].target ELSE link[q],
                         class |-> marks[q]]]
         = [q \in places |-> [target |-> link[q], class |-> wanted[q]]]
  BY <1>11, <1>12
<1> QED
  BY <1>1, <1>13 DEF known

\* An undisturbed batch that ends.
LEMMA AnUndisturbedEnd ==
  ASSUME FInv, AloneInv, NEW w \in Worker, Ends(w), work[w].alone
  PROVE  /\ work[w] \in Batch /\ work[w].profile \in Profile /\ link \in Disks /\ there \in SUBSET Addon
         /\ Undisturbed(work[w]) /\ work[w].steps = <<>> /\ Len(work[w].steps) = 0
<1>1. WorldOK /\ WorkOK
  BY InParts
<1>2. work[w] \in Batch /\ work[w].steps = <<>> /\ Undisturbed(work[w])
  BY <1>1 DEF WorkOK, Maybe, Ends, AloneInv
<1>3. Len(work[w].steps) = 0
  BY <1>2
<1> QED
  BY <1>1, <1>2, <1>3 DEF WorldOK, Standing, Batch

\* What was asked for is so when it ends.
LEMMA TheEndIsAsAsked ==
  ASSUME FInv, AloneInv
  PROVE  WhatWasAskedIsSo
<1> SUFFICES ASSUME NEW w \in Worker, Ends(w), work[w].alone
             PROVE  LET b == work[w]
                        now == Entries(link, there, PlacesOf(b.profile))
                    IN  /\ \A a \in b.on \cap there : a \in Enabled(now) \/ \E s \in b.failed : s.addon = a
                        /\ \A a \in b.off : LinksTo(now, a) \subseteq {s.place : s \in b.failed}
  BY DEF WhatWasAskedIsSo
<1> DEFINE b == work[w]
           now == Entries(link, there, PlacesOf(b.profile))
<1>1. /\ b \in Batch /\ b.profile \in Profile /\ link \in Disks /\ there \in SUBSET Addon
      /\ Undisturbed(b) /\ Len(b.steps) = 0
  BY AnUndisturbedEnd
<1>2. /\ \A a : LinksTo(now, a) = {q \in PlacesOf(b.profile) : link[q] = a /\ a \in there}
      /\ Enabled(now) = {a \in there : \E q \in PlacesOf(b.profile) : link[q] = a}
  BY <1>1, WhatIsLinked
<1>3. \A q, a : ~ToUnlink(b, q) /\ ~ToLink(b, a)
  BY <1>1 DEF ToUnlink, ToLink
<1> HIDE DEF b, now
<1>4. CASE Sets(b)
  <2>1. OffIsUnderWay(b) /\ OnIsUnderWay(b)
    BY <1>1, <1>4 DEF Undisturbed, BatchInv, UnderWay
  <2>2. ASSUME NEW a \in b.on \cap there PROVE a \in Enabled(now) \/ \E s \in b.failed : s.addon = a
    BY <1>2, <1>3, <2>1 DEF OnIsUnderWay
  <2>3. ASSUME NEW a \in b.off, NEW q \in LinksTo(now, a) PROVE q \in {s.place : s \in b.failed}
    <3>1. q \in PlacesOf(b.profile) /\ link[q] = a /\ a \in there
      BY <1>2
    <3> QED
      BY <1>3, <2>1, <3>1 DEF OffIsUnderWay
  <2> QED
    BY <2>2, <2>3 DEF b, now
<1>5. CASE ~Sets(b)
  <2>1. b.off = {} /\ b.on = {}
    BY <1>1, <1>5 DEF Undisturbed, BatchInv, UnderWay
  <2> QED
    BY <2>1 DEF b, now
<1> QED
  BY <1>4, <1>5

\* What is derived is what is there.
LEMMA TheEndIsAsDerived ==
  ASSUME FInv, AloneInv
  PROVE  WhatIsDerivedIsOnDisk
<1> SUFFICES ASSUME NEW w \in Worker, Ends(w), work[w].alone
             PROVE  Refreshed(work[w].seen, work[w].ran, PlacesOf(work[w].profile))
                      = Entries(link, there, PlacesOf(work[w].profile))
  BY DEF WhatIsDerivedIsOnDisk
<1>1. work[w].profile \in Profile /\ link \in Disks /\ there \in SUBSET Addon /\ Undisturbed(work[w])
  BY AnUndisturbedEnd
<1>2. PICK disk \in Disks : /\ work[w].seen = Entries(disk, there, PlacesOf(work[w].profile))
                            /\ \A q \in PlacesOf(work[w].profile) \ work[w].ran : link[q] = disk[q]
  BY <1>1 DEF Undisturbed, BatchInv, AsItWasRead
<1> QED
  BY <1>1, <1>2, RefreshingIsReading

\* A repair that runs a step takes a dead link.
LEMMA ARepairStepTakesADeadLink ==
  ASSUME FInv, AloneInv, [FoldersNext]_<<vars, folderVars>>, NEW w \in Worker, NEW p \in Place,
         work[w] # None, work[w].kind = "repair", work[w].alone,
         work'[w] # None, work'[w].steps # work[w].steps, link'[p] # link[p]
  PROVE  link[p] \in Dead
<1> DEFINE b == work[w]
           s == Head(b.steps)
<1>1. WorldOK /\ UndoOK /\ WorkOK
  BY InParts
<1>2. b \in Batch /\ Undisturbed(b)
  BY <1>1 DEF WorkOK, Maybe, AloneInv
<1>3. StepSucceeds(w) \/ StepFails(w)
  <2>1. CASE work'[w].alone
    <3>1. ~\E kind, steps, off, on : Asks(w, kind, steps, off, on)
      BY DEF Asks
    <3> QED
      BY <2>1, <3>1, WhatBecomesOfABatch
  <2>2. CASE ~work'[w].alone
    <3>1. work' # Nobody
      BY <1>1, NobodyIsAlone DEF WorkOK
    <3>2. link' # link
      OBVIOUS
    <3>3. BatchesGoOn
      BY <3>1, <3>2, FoldersDisturbOrStay DEF FoldersNext, vars, world
    <3>4. PICK v \in Worker : StepSucceeds(v) \/ StepFails(v)
      <4>1. ~SomeoneAsks
        <5> SUFFICES ASSUME SomeoneAsks PROVE FALSE
          OBVIOUS
        <5>1. SomeBatchIsAsked
          BY AskingIsSound
        <5> QED
          BY <3>2, <5>1 DEF SomeBatchIsAsked, Asks, world
      <4>2. ~\E v \in Worker : TakeTheGuard(v) \/ End(v)
        BY <3>2 DEF TakeTheGuard, End, world
      <4>3. ~SomeoneElseActs
        BY <3>1, <3>2 DEF SomeoneElseActs, ChooseProfile, OverrideDestination, SomeoneLinks, FolderGoesOrComes,
                          SomeoneSwitches, world
      <4>4. ~ForgetUndo
        BY <3>2 DEF ForgetUndo, world
      <4> QED
        BY <3>3, <4>1, <4>2, <4>3, <4>4 DEF BatchesGoOn, Next
    <3>5. CASE v # w
      <4>1. work'[w] = [work[w] EXCEPT !.alone = FALSE]
        BY <1>1, <3>4, <3>5, TheBatchesAfterAStep
      <4> QED
        BY <1>2, <4>1, NoLongerAlone
    <3> QED
      BY <3>4, <3>5
  <2> QED
    BY <2>1, <2>2
<1>4. p = s.place
  <2>1. \A q \in Place : q # s.place => link'[q] = link[q]
    BY <1>1, <1>3, WhatAStepChanges, WhatAFailureChanges
  <2> QED
    BY <2>1
<1>5. b.steps # <<>> /\ b.steps \in Seq(Step)
  BY <1>1, <1>2, <1>3, TheBatchesAfterAStep DEF Batch
<1>6. s = b.steps[1] /\ 1 \in 1..Len(b.steps)
  BY <1>5, TheFirstStep
<1> QED
  BY <1>2, <1>4, <1>6 DEF Undisturbed, BatchInv, OfADeadLink
\* The invariant of the batches nobody disturbed.
LEMMA UndisturbedBatches == FoldersSpec => [](FInv /\ AloneInv)
<1>1. FoldersInit => FInv /\ AloneInv
  <2>1. FoldersInit => AloneInv
    BY DEF FoldersInit, Init, AloneInv
  <2> QED
    BY <2>1, TheTypesAtFirst
<1>2. FInv /\ AloneInv /\ [FoldersNext]_<<vars, folderVars>> => FInv' /\ AloneInv'
  BY TheTypesStay, AloneStays
<1> QED
  BY <1>1, <1>2, PTL DEF FoldersSpec

\* A batch that nobody disturbed between its reading and its end leaves enabled what it was asked
\* to enable and takes down every link of what it was asked to disable, but for the steps it
\* reports as failed, however its steps are interleaved with those of the others.
THEOREM WhatIsAskedIsDone == FoldersSpec => []WhatWasAskedIsSo
<1>1. FInv /\ AloneInv => WhatWasAskedIsSo
  BY TheEndIsAsAsked
<1> QED
  BY <1>1, UndisturbedBatches, PTL

\* The entries shown after such a batch are those a new reading of the disk would find, though
\* they are derived of the old ones and of the places where a step ran.
THEOREM WhatIsShownIsOnDisk == FoldersSpec => []WhatIsDerivedIsOnDisk
<1>1. FInv /\ AloneInv => WhatIsDerivedIsOnDisk
  BY TheEndIsAsDerived
<1> QED
  BY <1>1, UndisturbedBatches, PTL

\* A repair that nobody disturbed takes no link that leads to an addon that is there, however long
\* ago it was that the broken link was shown.
THEOREM RepairsTakeOnlyDeadLinks == FoldersSpec => ARepairTakesOnlyDeadLinks
<1> DEFINE A == \A w \in Worker, p \in Place :
                  work[w] # None /\ work[w].kind = "repair" /\ work[w].alone
                  /\ work'[w] # None /\ work'[w].steps # work[w].steps /\ link'[p] # link[p]
                  => link[p] \in Dead
<1>1. FInv /\ AloneInv /\ [FoldersNext]_<<vars, folderVars>> => [A]_vars
  BY ARepairStepTakesADeadLink
<1>2. ARepairTakesOnlyDeadLinks <=> [][A]_vars
  BY DEF ARepairTakesOnlyDeadLinks
<1> HIDE DEF A
<1> QED
  BY <1>1, <1>2, UndisturbedBatches, PTL DEF FoldersSpec

-----------------------------------------------------------------------------
(* A deletion nobody crossed. *)

\* No link leads to what it deleted, and it knows every link to what it is to delete.
DeletionInv ==
    deleting # None /\ deleting.alone =>
      /\ \A q \in Place : link[q] \notin deleting.deleted
      /\ \A a \in ToSet(deleting.left) \cap there, q \in Place : link[q] = a => q \in deleting.seen[a]

\* What a deletion that is still alone just did, if anything.
LEMMA WhatBecomesOfADeletion ==
  ASSUME FInv, [FoldersNext]_<<vars, folderVars>>, deleting' # None, deleting'.alone
  PROVE  \/ deleting' = deleting /\ UNCHANGED <<link, there>>
         \/ \E addons \in SUBSET Standing : Delete(addons)
         \/ RemoveTheFolder
         \/ \E p \in Place : RemoveTheLink(p)
<1>1. ErrandsOK
  BY InParts
<1>2. deleting' # Crossed(deleting)
  <2>1. \A d \in Deletion : ~[d EXCEPT !.alone = FALSE].alone
    BY DEF Deletion
  <2> QED
    BY <1>1, <2>1 DEF Crossed, ErrandsOK, Maybe
<1>3. CASE BatchesGoOn
  BY <1>2, <1>3 DEF BatchesGoOn, folderVars
<1>4. CASE \/ \E addons \in (SUBSET Standing) \ {{}} : Delete(addons)
           \/ RemoveTheFolder
           \/ \E p \in Place : RemoveTheLink(p)
  BY <1>4
<1>5. CASE Deleted
  BY <1>5 DEF Deleted
<1>6. CASE \/ \E p \in Place : DisableALink(p)
           \/ \E from \in Standing, to \in gone : MoveTo(from, to)
           \/ MoveTheFolder \/ Relink \/ AdoptTheReorganization
  BY <1>2, <1>6 DEF DisableALink, MoveTo, MoveTheFolder, Relink, AdoptTheReorganization, world
<1>7. CASE UNCHANGED <<vars, folderVars>>
  BY <1>7 DEF vars, world, folderVars
<1> QED
  BY <1>3, <1>4, <1>5, <1>6, <1>7 DEF FoldersNext

\* It stays so.
LEMMA DeletionsGoOn ==
  ASSUME FInv, DeletionInv, [FoldersNext]_<<vars, folderVars>>
  PROVE  DeletionInv'
<1> SUFFICES ASSUME deleting' # None, deleting'.alone
             PROVE  /\ \A q \in Place : link'[q] \notin deleting'.deleted
                    /\ \A a \in ToSet(deleting'.left) \cap there', q \in Place : link'[q] = a => q \in deleting'.seen[a]
  BY DEF DeletionInv
<1>1. WorldOK /\ ErrandsOK /\ link \in Disks /\ there \subseteq Addon /\ None \notin Addon
  BY InParts, TheConstants DEF WorldOK, Standing
<1>2. CASE deleting' = deleting /\ UNCHANGED <<link, there>>
  BY <1>2 DEF DeletionInv
<1>3. ASSUME NEW addons \in SUBSET Standing, Delete(addons)
      PROVE  /\ \A q \in Place : link'[q] \notin deleting'.deleted
             /\ \A a \in ToSet(deleting'.left) \cap there', q \in Place : link'[q] = a => q \in deleting'.seen[a]
  <2>1. UNCHANGED <<link, there>>
    BY <1>3 DEF Delete, world
  <2> QED
    BY <1>3, <2>1, ADeletionBegins
<1> DEFINE d == deleting
<1>4. CASE \/ RemoveTheFolder
           \/ \E p \in Place : RemoveTheLink(p)
  <2>1. deleting # None /\ d.left # <<>>
    BY <1>4 DEF RemoveTheFolder, RemoveTheLink, Deleting
  <2>2. /\ d \in Deletion /\ d.deleted \subseteq Addon /\ Doomed \in ToSet(d.left) /\ Doomed \in Addon
        /\ NextDoomed \in Deletion
        /\ NextDoomed.deleted = d.deleted /\ NextDoomed.alone = d.alone
        /\ ToSet(NextDoomed.left) = ToSet(d.left) \ {Doomed}
        /\ \A a \in ToSet(NextDoomed.left) : NextDoomed.seen[a] = d.seen[a]
    BY <1>1, <2>1, ADeletionGoesOn
  <2>3. CASE deleting' = NextDoomed /\ UNCHANGED <<link, there>>
    <3>1. d.alone
      BY <2>2, <2>3
    <3> QED
      BY <2>1, <2>2, <2>3, <3>1 DEF DeletionInv
  <2>4. ASSUME NEW p \in Place, TakeTheLinkDown(p), deleting' = [deleting EXCEPT !.seen[Doomed] = @ \ {p}]
        PROVE  /\ \A q \in Place : link'[q] \notin deleting'.deleted
               /\ \A a \in ToSet(deleting'.left) \cap there', q \in Place : link'[q] = a => q \in deleting'.seen[a]
    <3> DEFINE e == [d EXCEPT !.seen[Doomed] = @ \ {p}]
    <3>1. /\ e.left = d.left /\ e.deleted = d.deleted /\ e.alone = d.alone
          /\ \A a \in ToSet(d.left) : e.seen[a] = IF a = Doomed THEN d.seen[a] \ {p} ELSE d.seen[a]
      BY <1>1, <2>1, ADeletionGoesOn
    <3>2. there' = there /\ link'[p] = None /\ \A q \in Place : q # p => link'[q] = link[q]
      BY <1>1, <2>4, TakingALinkDown
    <3>3. deleting' = e
      BY <2>4
    <3> HIDE DEF e
    <3>4. /\ \A q \in Place : link[q] \notin d.deleted
          /\ \A a \in ToSet(d.left) \cap there, q \in Place : link[q] = a => q \in d.seen[a]
      BY <2>1, <3>1, <3>3 DEF DeletionInv
    <3>5. \A q \in Place : link'[q] \notin d.deleted
      BY <1>1, <2>2, <3>2, <3>4
    <3>6. ASSUME NEW a \in ToSet(d.left) \cap there, NEW q \in Place, link'[q] = a PROVE q \in e.seen[a]
      <4>1. q # p /\ link[q] = a
        BY <1>1, <3>2, <3>6
      <4> QED
        BY <3>1, <3>4, <4>1
    <3> QED
      BY <3>1, <3>2, <3>3, <3>5, <3>6
  <2>5. ASSUME d.seen[Doomed] = {}, Doomed \in there, there' = there \ {Doomed}, link' = link,
               deleting' = [NextDoomed EXCEPT !.deleted = @ \cup {Doomed}]
        PROVE  /\ \A q \in Place : link'[q] \notin deleting'.deleted
               /\ \A a \in ToSet(deleting'.left) \cap there', q \in Place : link'[q] = a => q \in deleting'.seen[a]
    <3>1. /\ deleting'.deleted = d.deleted \cup {Doomed} /\ deleting'.left = NextDoomed.left
          /\ deleting'.seen = NextDoomed.seen /\ deleting'.alone = d.alone
      BY <2>2, <2>5 DEF Deletion
    <3>2. /\ \A q \in Place : link[q] \notin d.deleted
          /\ \A a \in ToSet(d.left) \cap there, q \in Place : link[q] = a => q \in d.seen[a]
      BY <2>1, <3>1 DEF DeletionInv
    <3>3. \A q \in Place : link[q] # Doomed
      BY <2>2, <2>5, <3>2
    <3> QED
      BY <2>2, <2>5, <3>1, <3>2, <3>3
  <2>6. CASE RemoveTheFolder
    BY <2>3, <2>5, <2>6 DEF RemoveTheFolder, world
  <2>7. CASE \E p \in Place : RemoveTheLink(p)
    BY <2>3, <2>4, <2>7 DEF RemoveTheLink, world
  <2> QED
    BY <1>4, <2>6, <2>7
<1> QED
  BY <1>2, <1>3, <1>4, WhatBecomesOfADeletion

\* When a deletion that nobody crossed has ended, no link of any profile leads to an addon it
\* deleted, whichever of its steps failed.
THEOREM NoLinkIsLeftBehind == FoldersSpec => []NoLinkOutlivesItsAddon
<1>1. FoldersInit => FInv /\ DeletionInv
  BY TheTypesAtFirst DEF FoldersInit, DeletionInv
<1>2. FInv /\ DeletionInv /\ [FoldersNext]_<<vars, folderVars>> => FInv' /\ DeletionInv'
  BY TheTypesStay, DeletionsGoOn
<1>3. DeletionInv => NoLinkOutlivesItsAddon
  BY DEF DeletionInv, NoLinkOutlivesItsAddon
<1> QED
  BY <1>1, <1>2, <1>3, PTL DEF FoldersSpec
-----------------------------------------------------------------------------
(* A move nobody crossed. *)

\* Where its links are to be, all along.
PlannedInItsProfile == moving # None => moving.plan \in PlacesOf(moving.profile)
\* Before the folder moves: no link leads to the new path, and it knows those to the old one.
BeforeTheMove(m) ==
    m.at \in {"unlink", "move"} =>
      /\ \A q \in PlacesOf(m.profile) : link[q] # m.to
      /\ m.from \in there => \A q \in PlacesOf(m.profile) : link[q] = m.from => q \in m.links
      /\ m.at = "move" => m.links = {}
\* When it has moved: no link leads to either.
BeforeTheLink(m) ==
    m.at = "relink" => /\ m.enabled /\ m.result = "completed" /\ m.to \in there
                       /\ \A q \in PlacesOf(m.profile) : link[q] \notin {m.from, m.to}
\* When it has ended.
AfterTheMove(m) ==
    m.at = "adopt" =>
      /\ m.result \in {"completed", "noLink"} => \A q \in PlacesOf(m.profile) : link[q] # m.from
      /\ m.result = "completed" =>
           m.to \in there /\ \A q \in PlacesOf(m.profile) : link[q] = m.to <=> m.enabled /\ q = m.plan
MoveGoesWell(m) == BeforeTheMove(m) /\ BeforeTheLink(m) /\ AfterTheMove(m)
\* It plans the link where its profile will, until that is edited.
PlannedWhereItGoes ==
    moving # None /\ moving.alone => moving.plan \in PlannedOnceCarried(moving.profile, moving.from, moving.to)
MoveInv == PlannedInItsProfile /\ (moving # None /\ moving.alone => MoveGoesWell(moving))

\* What a move just did, if anything.
LEMMA WhatBecomesOfAMove ==
  ASSUME FInv, [FoldersNext]_<<vars, folderVars>>, moving' # None
  PROVE  \/ moving' = moving /\ UNCHANGED <<link, there, pinned>>
         \/ moving' = Crossed(moving)
         \/ \E from \in Standing, to \in gone : MoveTo(from, to)
         \/ \E p \in Place : DisableALink(p)
         \/ MoveTheFolder \/ Relink
<1>1. CASE BatchesGoOn
  BY <1>1 DEF BatchesGoOn, folderVars
<1>2. CASE \/ \E addons \in (SUBSET Standing) \ {{}} : Delete(addons)
           \/ RemoveTheFolder \/ Deleted
           \/ \E p \in Place : RemoveTheLink(p)
  BY <1>2 DEF Delete, RemoveTheFolder, Deleted, RemoveTheLink, world
<1>3. CASE AdoptTheReorganization
  BY <1>3 DEF AdoptTheReorganization
<1>4. CASE \/ \E p \in Place : DisableALink(p)
           \/ \E from \in Standing, to \in gone : MoveTo(from, to)
           \/ MoveTheFolder \/ Relink
  BY <1>4
<1>5. CASE UNCHANGED <<vars, folderVars>>
  BY <1>5 DEF vars, world, folderVars
<1> QED
  BY <1>1, <1>2, <1>3, <1>4, <1>5 DEF FoldersNext

\* A move that stays the same one, while it goes well.
LEMMA MovesGoOn ==
  ASSUME FInv, MoveInv, [FoldersNext]_<<vars, folderVars>>
  PROVE  MoveInv'
<1> DEFINE m == moving
           n == moving'
<1> SUFFICES ASSUME n # None
             PROVE  n.plan \in PlacesOf(n.profile) /\ (n.alone => MoveGoesWell(moving)')
  BY DEF MoveInv, PlannedInItsProfile, MoveGoesWell, BeforeTheMove, BeforeTheLink, AfterTheMove
<1>1. /\ WorldOK /\ ErrandsOK /\ link \in Disks /\ there \subseteq Addon /\ None \notin Addon
      /\ \A p \in Profile : PlacesOf(p) \subseteq Place
  BY InParts, TheConstants DEF WorldOK, Standing
<1>2. m # None => /\ m \in Move /\ m.from # m.to /\ m.from \in Addon /\ m.to \in Addon
                  /\ PlacesOf(m.profile) \subseteq Place
  BY <1>1 DEF ErrandsOK, Maybe, Move
<1>3. CASE moving' = moving /\ UNCHANGED <<link, there, pinned>>
  BY <1>3 DEF MoveInv, PlannedInItsProfile, MoveGoesWell, BeforeTheMove, BeforeTheLink, AfterTheMove
<1>4. CASE moving' = Crossed(moving)
  <2>1. m # None /\ n = [m EXCEPT !.alone = FALSE] /\ m \in Move
    BY <1>2, <1>4 DEF Crossed
  <2>2. ~n.alone /\ n.plan = m.plan /\ n.profile = m.profile
    BY <2>1 DEF Move
  <2> QED
    BY <2>1, <2>2 DEF MoveInv, PlannedInItsProfile
<1>5. ASSUME NEW from \in Standing, NEW to \in gone, MoveTo(from, to)
      PROVE  n.plan \in PlacesOf(n.profile) /\ (n.alone => MoveGoesWell(moving)')
  <2>1. /\ n.from = from /\ n.to = to /\ from # to /\ n.profile = profile /\ n.plan \in PlacesOf(profile)
        /\ n.links = {q \in PlacesOf(profile) : link[q] = from /\ from \in there}
        /\ n.at = (IF n.links = {} THEN "move" ELSE "unlink")
        /\ n.alone = \A p \in PlacesOf(profile) : link[p] # to
    BY ZenonT(30), <1>5, AMoveBegins
  <2>2. UNCHANGED <<link, there, profile>> /\ profile \in Profile
    BY <1>5, InParts DEF MoveTo, world, PlansOK
  <2>3. n.plan \in PlacesOf(n.profile)
    BY <2>1, <2>2
  <2>4. n.alone => MoveGoesWell(moving)'
    BY <2>1, <2>2 DEF MoveGoesWell, BeforeTheMove, BeforeTheLink, AfterTheMove
  <2> QED
    BY <2>3, <2>4
<1>6. ASSUME m # None, SameMove(m, n)
      PROVE  /\ n.plan \in PlacesOf(n.profile)
             /\ n.from = m.from /\ n.to = m.to /\ n.profile = m.profile /\ n.plan = m.plan /\ n.enabled = m.enabled
             /\ n.alone => MoveGoesWell(m)
  BY <1>6 DEF SameMove, MoveInv, PlannedInItsProfile
<1>7. ASSUME m # None, NEW at \in {"relink", "adopt"}, NEW result \in {"none", "completed", "refused", "noLink"},
             n = GoneOn(m, at, result)
      PROVE  SameMove(m, n) /\ n.at = at /\ n.result = result
  <2> HIDE DEF m, n
  <2>1. m \in Move
    BY <1>2, <1>7
  <2>2. SameMove(m, GoneOn(m, at, result))
    BY ZenonT(30), <2>1, AMoveGoesOn
  <2>3. GoneOn(m, at, result).at = at
    BY <2>1 DEF GoneOn, Move
  <2>4. GoneOn(m, at, result).result = result
    BY <2>1 DEF GoneOn, Move
  <2> QED
    BY <1>7, <2>2, <2>3, <2>4
<1>8. ASSUME m # None, n = GoneOn(m, "adopt", "refused")
      PROVE  n.plan \in PlacesOf(n.profile) /\ (n.alone => MoveGoesWell(moving)')
  <2>1. SameMove(m, n) /\ n.at = "adopt" /\ n.result = "refused"
    BY <1>7, <1>8
  <2> QED
    BY <1>6, <1>8, <2>1 DEF MoveGoesWell, BeforeTheMove, BeforeTheLink, AfterTheMove
<1>9. ASSUME NEW p \in Place, DisableALink(p) PROVE n.plan \in PlacesOf(n.profile) /\ (n.alone => MoveGoesWell(moving)')
  <2>1. ASSUME m # None, m.at = "unlink", TakeTheLinkDown(p), n = LinkDown(m, p)
        PROVE  n.plan \in PlacesOf(n.profile) /\ (n.alone => MoveGoesWell(moving)')
    <3>1. SameMove(m, n) /\ n.links = m.links \ {p} /\ n.at = (IF m.links = {p} THEN "move" ELSE "unlink")
      <4> HIDE DEF m, n
      <4>1. m \in Move
        BY <1>2, <2>1
      <4>2. SameMove(m, LinkDown(m, p))
        BY <4>1, AMoveGoesOn
      <4>3. LinkDown(m, p).links = m.links \ {p} /\ LinkDown(m, p).at = (IF m.links = {p} THEN "move" ELSE "unlink")
        BY <4>1 DEF LinkDown, Move
      <4> QED
        BY <2>1, <4>2, <4>3
    <3>2. there' = there /\ link'[p] = None /\ \A q \in Place : q # p => link'[q] = link[q]
      BY <1>1, <2>1, TakingALinkDown
    <3>3. ASSUME n.alone PROVE BeforeTheMove(moving)'
      <4>1. /\ \A q \in PlacesOf(m.profile) : link[q] # m.to
            /\ m.from \in there => \A q \in PlacesOf(m.profile) : link[q] = m.from => q \in m.links
        BY <1>6, <2>1, <3>1, <3>3 DEF MoveGoesWell, BeforeTheMove
      <4>2. \A q \in PlacesOf(m.profile) : link'[q] # m.to
        BY <1>1, <1>2, <2>1, <3>2, <4>1
      <4>3. m.from \in there => \A q \in PlacesOf(m.profile) : link'[q] = m.from => q \in m.links \ {p}
        BY <1>1, <1>2, <2>1, <3>2, <4>1
      <4>4. n.from = m.from /\ n.to = m.to /\ n.profile = m.profile
        BY <1>6, <2>1, <3>1
      <4> HIDE DEF m, n
      <4>5. n.at = "move" => n.links = {}
        BY <3>1
      <4> QED
        BY <3>1, <3>2, <4>2, <4>3, <4>4, <4>5 DEF BeforeTheMove, n
    <3> QED
      BY <1>6, <2>1, <3>1, <3>3 DEF MoveGoesWell, BeforeTheLink, AfterTheMove
  <2> QED
    BY <1>8, <1>9, <2>1 DEF DisableALink, Refused, LinkDown, GoneOn
<1>10. ASSUME MoveTheFolder PROVE n.plan \in PlacesOf(n.profile) /\ (n.alone => MoveGoesWell(moving)')
  <2>1. ASSUME m # None, m.at = "move", m.from \in there, there' = (there \ {m.from}) \cup {m.to}, link' = link,
               n = GoneOn(m, IF m.enabled THEN "relink" ELSE "adopt", "completed")
        PROVE  n.plan \in PlacesOf(n.profile) /\ (n.alone => MoveGoesWell(moving)')
    <3>1. SameMove(m, n) /\ n.at = (IF m.enabled THEN "relink" ELSE "adopt") /\ n.result = "completed"
      BY <1>7, <2>1
    <3>2. /\ n.plan \in PlacesOf(n.profile)
          /\ n.from = m.from /\ n.to = m.to /\ n.profile = m.profile /\ n.plan = m.plan /\ n.enabled = m.enabled
          /\ n.alone => MoveGoesWell(m)
      BY <1>6, <2>1, <3>1
    <3>3. n.alone => \A q \in PlacesOf(m.profile) : link'[q] # m.to /\ link'[q] # m.from
      BY <2>1, <3>2 DEF MoveGoesWell, BeforeTheMove
    <3>4. m.to \in there'
      BY <2>1
    <3> HIDE DEF m
    <3> QED
      BY <3>1, <3>2, <3>3, <3>4 DEF MoveGoesWell, BeforeTheMove, BeforeTheLink, AfterTheMove
  <2> QED
    BY <1>8, <1>10, <2>1 DEF MoveTheFolder, Refused, GoneOn
<1>11. ASSUME Relink PROVE n.plan \in PlacesOf(n.profile) /\ (n.alone => MoveGoesWell(moving)')
  <2>1. m # None /\ m.at = "relink" /\ m \in Move
    BY <1>2, <1>11 DEF Relink
  <2>2. ASSUME LinkAt(Does("link", m.to, m.plan)), n = [moving EXCEPT !.at = "adopt"], there' = there
        PROVE  n.plan \in PlacesOf(n.profile) /\ (n.alone => MoveGoesWell(moving)')
    <3>1. n = GoneOn(m, "adopt", m.result) /\ m.result \in {"none", "completed", "refused", "noLink"}
      <4> HIDE DEF n
      <4> DEFINE k == m
      <4>1. k \in Move
        BY <2>1
      <4> HIDE DEF k
      <4>2. /\ [k EXCEPT !.at = "adopt"] = GoneOn(k, "adopt", k.result)
            /\ k.result \in {"none", "completed", "refused", "noLink"}
        BY <4>1, AMoveGoesOn
      <4> QED
        BY <2>2, <4>2 DEF k
    <3>2. SameMove(m, n) /\ n.at = "adopt" /\ n.result = m.result
      BY <1>7, <2>1, <3>1
    <3>3. /\ n.plan \in PlacesOf(n.profile)
          /\ n.from = m.from /\ n.to = m.to /\ n.profile = m.profile /\ n.plan = m.plan /\ n.enabled = m.enabled
          /\ n.alone => MoveGoesWell(m)
      BY <1>6, <2>1, <3>2
    <3>4. link' = [link EXCEPT ![m.plan] = m.to] /\ m.plan \in Place
      BY <1>2, <2>1, <2>2, <3>3 DEF LinkAt, Does
    <3>5. link'[m.plan] = m.to /\ \A q \in Place : q # m.plan => link'[q] = link[q]
      BY <1>1, <3>4 DEF Disks
    <3>6. n.alone => /\ m.enabled /\ m.result = "completed" /\ m.to \in there
                     /\ \A q \in PlacesOf(m.profile) : link[q] \notin {m.from, m.to}
      BY <2>1, <3>3 DEF MoveGoesWell, BeforeTheLink
    <3>7. n.alone => \A q \in PlacesOf(m.profile) : link'[q] # m.from /\ (link'[q] = m.to <=> q = m.plan)
      BY <1>2, <2>1, <3>5, <3>6
    <3> HIDE DEF m
    <3> QED
      BY <2>2, <3>2, <3>3, <3>6, <3>7 DEF MoveGoesWell, BeforeTheMove, BeforeTheLink, AfterTheMove
  <2>3. ASSUME n = GoneOn(m, "adopt", "noLink"), UNCHANGED <<link, there>>
        PROVE  n.plan \in PlacesOf(n.profile) /\ (n.alone => MoveGoesWell(moving)')
    <3>1. SameMove(m, n) /\ n.at = "adopt" /\ n.result = "noLink"
      BY <1>7, <2>1, <2>3
    <3>2. n.alone => \A q \in PlacesOf(m.profile) : link[q] # m.from
      BY <1>6, <2>1, <3>1 DEF MoveGoesWell, BeforeTheLink
    <3> QED
      BY <1>6, <2>1, <2>3, <3>1, <3>2 DEF MoveGoesWell, BeforeTheMove, BeforeTheLink, AfterTheMove
  <2> QED
    BY <1>11, <2>2, <2>3 DEF Relink, GoneOn, world
<1> QED
  BY <1>3, <1>4, <1>5, <1>9, <1>10, <1>11, WhatBecomesOfAMove

\* Where the link is planned, as long as nobody edits the profile.
LEMMA PlansGoOn ==
  ASSUME FInv, PlannedWhereItGoes, [FoldersNext]_<<vars, folderVars>>
  PROVE  PlannedWhereItGoes'
<1> DEFINE m == moving
<1> SUFFICES ASSUME moving' # None, moving'.alone
             PROVE  (moving.plan \in PlannedOnceCarried(moving.profile, moving.from, moving.to))'
  BY DEF PlannedWhereItGoes
<1>1. m # None => m \in Move
  BY InParts DEF ErrandsOK, Maybe
<1>2. ASSUME pinned' = pinned, m # None, SameMove(m, moving')
      PROVE  (moving.plan \in PlannedOnceCarried(moving.profile, moving.from, moving.to))'
  <2>1. moving.plan \in PlannedOnceCarried(moving.profile, moving.from, moving.to)
    BY <1>2 DEF PlannedWhereItGoes, SameMove
  <2> QED
    BY ZenonT(30), <1>2, <2>1 DEF SameMove, PlannedOnceCarried, OwnOnceCarried
<1>3. CASE moving' = moving /\ UNCHANGED <<link, there, pinned>>
  BY <1>2, <1>3 DEF SameMove
<1>4. CASE moving' = Crossed(moving)
  <2>1. m # None /\ m \in Move /\ moving' = [m EXCEPT !.alone = FALSE]
    BY <1>1, <1>4 DEF Crossed
  <2> HIDE DEF m
  <2>2. ~moving'.alone
    BY <2>1 DEF Move
  <2> QED
    BY <2>2
<1>5. ASSUME NEW from \in Standing, NEW to \in gone, MoveTo(from, to)
      PROVE  (moving.plan \in PlannedOnceCarried(moving.profile, moving.from, moving.to))'
  <2>1. /\ moving'.from = from /\ moving'.to = to /\ moving'.profile = profile
        /\ moving'.plan \in PlannedOnceCarried(profile, from, to)
    BY <1>5, AMoveBegins
  <2>2. pinned' = pinned
    BY <1>5 DEF MoveTo
  <2> QED
    BY <2>1, <2>2 DEF PlannedOnceCarried, OwnOnceCarried
<1>6. CASE (\E p \in Place : DisableALink(p)) \/ MoveTheFolder \/ Relink
  <2>1. pinned' = pinned /\ m # None
    BY <1>6 DEF DisableALink, MoveTheFolder, Relink
  <2>2. \/ \E p : moving' = LinkDown(m, p)
        \/ \E at \in {"relink", "adopt"}, result \in {"none", "completed", "refused", "noLink"} :
             moving' = GoneOn(m, at, result)
        \/ moving' = [m EXCEPT !.at = "adopt"]
    BY <1>6 DEF DisableALink, MoveTheFolder, Relink, Refused, LinkDown, GoneOn
  <2>3. m \in Move
    BY <1>1, <2>1
  <2> HIDE DEF m
  <2>4. ASSUME NEW p, moving' = LinkDown(m, p) PROVE SameMove(m, moving')
    <3>1. SameMove(m, LinkDown(m, p))
      BY <2>3, AMoveGoesOn
    <3> QED
      BY <2>4, <3>1
  <2>5. ASSUME NEW at \in {"relink", "adopt"}, NEW result \in {"none", "completed", "refused", "noLink"},
               moving' = GoneOn(m, at, result)
        PROVE  SameMove(m, moving')
    <3>1. SameMove(m, GoneOn(m, at, result))
      BY ZenonT(30), <2>3, AMoveGoesOn
    <3> QED
      BY <2>5, <3>1
  <2>6. /\ [m EXCEPT !.at = "adopt"] = GoneOn(m, "adopt", m.result)
        /\ m.result \in {"none", "completed", "refused", "noLink"}
    BY <2>3, AMoveGoesOn
  <2>7. SameMove(m, moving')
    BY <2>2, <2>4, <2>5, <2>6
  <2> QED
    BY <1>2, <2>1, <2>7 DEF m
<1> QED
  BY <1>3, <1>4, <1>5, <1>6, WhatBecomesOfAMove

\* What is enabled when it has ended.
LEMMA TheMoveIsAsItShouldBe ==
  ASSUME FInv, MoveInv, PlannedWhereItGoes
  PROVE  AMovedAddonIsAsEnabledAsBefore
<1> DEFINE linked == LinksTo(Entries(link, there, PlacesOf(moving.profile)), moving.to)
           planned == PlannedOnceCarried(moving.profile, moving.from, moving.to)
<1> SUFFICES ASSUME moving # None, moving.at = "adopt", moving.alone
             PROVE  /\ moving.result = "completed" =>
                         linked \in IF moving.enabled THEN {{d} : d \in planned} ELSE {{}}
                    /\ moving.result \in {"completed", "noLink"} =>
                         \A p \in PlacesOf(moving.profile) : link[p] # moving.from
  BY DEF AMovedAddonIsAsEnabledAsBefore
<1>1. moving.profile \in Profile /\ link \in Disks /\ there \in SUBSET Addon
  BY InParts DEF ErrandsOK, Maybe, Move, WorldOK, Standing
<1>2. AfterTheMove(moving) /\ moving.plan \in PlacesOf(moving.profile)
  BY DEF MoveInv, MoveGoesWell, PlannedInItsProfile
<1>3. linked = {q \in PlacesOf(moving.profile) : link[q] = moving.to /\ moving.to \in there}
  <2> HIDE DEF planned
  <2> DEFINE p == moving.profile
             a == moving.to
  <2>1. p \in Profile
    BY <1>1
  <2> HIDE DEF p, a
  <2>2. LinksTo(Entries(link, there, PlacesOf(p)), a) = {q \in PlacesOf(p) : link[q] = a /\ a \in there}
    BY <1>1, <2>1, WhatIsLinked
  <2> QED
    BY <2>2 DEF p, a
<1>4. ASSUME moving.result = "completed"
      PROVE  {q \in PlacesOf(moving.profile) : link[q] = moving.to /\ moving.to \in there}
               = IF moving.enabled THEN {moving.plan} ELSE {}
  <2>1. /\ moving.to \in there
        /\ \A q \in PlacesOf(moving.profile) : link[q] = moving.to <=> moving.enabled /\ q = moving.plan
    BY <1>2, <1>4 DEF AfterTheMove
  <2> QED
    BY <1>2, <2>1
<1>5. moving.plan \in planned
  BY DEF PlannedWhereItGoes
<1>6. moving.result = "completed" => linked = IF moving.enabled THEN {moving.plan} ELSE {}
  BY <1>3, <1>4
<1> HIDE DEF linked, planned
<1> QED
  BY <1>2, <1>5, <1>6 DEF AfterTheMove

\* When a move that nobody crossed has ended, an addon that was enabled is enabled at its new
\* path, once, where its profile plans the new path, and one that was not is not, or the move
\* says so; and no link of the profile leads to the path it left, whichever of its steps failed.
THEOREM AMoveKeepsWhatIsEnabled == FoldersSpec => []AMovedAddonIsAsEnabledAsBefore
<1>1. FoldersInit => FInv /\ MoveInv /\ PlannedWhereItGoes
  BY TheTypesAtFirst DEF FoldersInit, MoveInv, PlannedInItsProfile, PlannedWhereItGoes
<1>2. FInv /\ MoveInv /\ PlannedWhereItGoes /\ [FoldersNext]_<<vars, folderVars>>
        => FInv' /\ MoveInv' /\ PlannedWhereItGoes'
  BY TheTypesStay, MovesGoOn, PlansGoOn
<1>3. FInv /\ MoveInv /\ PlannedWhereItGoes => AMovedAddonIsAsEnabledAsBefore
  BY TheMoveIsAsItShouldBe
<1> QED
  BY <1>1, <1>2, <1>3, PTL DEF FoldersSpec
-----------------------------------------------------------------------------
(* What steps put back. *)

\* A step of a link at a place, and the ones at it among others.
At(s, p) == s.does \in {"link", "unlink"} /\ s.place = p
Touched(steps, p) == \E i \in 1..Len(steps) : At(steps[i], p)
IsFirstAt(steps, p, i) == \A k \in 1..Len(steps) : k < i => ~At(steps[k], p)
IsLastAt(steps, p, i) == \A k \in 1..Len(steps) : i < k => ~At(steps[k], p)
FollowsAnUnlink(steps, p, i) ==
    \E j \in 1..Len(steps) :
      /\ j < i /\ At(steps[j], p) /\ steps[j].does = "unlink"
      /\ \A k \in 1..Len(steps) : j < k /\ k < i => ~At(steps[k], p)

\* Some steps are one more than others, in front.
OneMore(more, s, steps) ==
    /\ Len(steps) \in Nat /\ Len(more) = Len(steps) + 1 /\ more[1] = s
    /\ \A i \in 1..Len(steps) : more[i + 1] = steps[i]

\* Which of them are the first and the last at a place.
LEMMA WithOneMore ==
  ASSUME NEW more, NEW s, NEW steps, OneMore(more, s, steps), NEW p
  PROVE  /\ 1 \in 1..Len(more)
         /\ \A i \in 1..Len(more) : i = 1 \/ \E j \in 1..Len(steps) : i = j + 1
         /\ \A i \in 1..Len(steps) :
              /\ i + 1 \in 1..Len(more) /\ more[i + 1] = steps[i]
              /\ IsLastAt(more, p, i + 1) <=> IsLastAt(steps, p, i)
              /\ IsFirstAt(more, p, i + 1) <=> ~At(s, p) /\ IsFirstAt(steps, p, i)
              /\ FollowsAnUnlink(more, p, i + 1) <=>
                   FollowsAnUnlink(steps, p, i) \/ (At(s, p) /\ s.does = "unlink" /\ IsFirstAt(steps, p, i))
         /\ IsLastAt(more, p, 1) <=> ~Touched(steps, p)
         /\ IsFirstAt(more, p, 1) /\ ~FollowsAnUnlink(more, p, 1)
         /\ Touched(more, p) <=> At(s, p) \/ Touched(steps, p)
<1> DEFINE n == Len(steps)
<1>1. n \in Nat /\ Len(more) = n + 1 /\ more[1] = s /\ \A i \in 1..n : more[i + 1] = steps[i]
  BY DEF OneMore
<1> HIDE DEF n
<1>2. /\ 1 \in 1..(n + 1) /\ \A i \in 1..n : i + 1 \in 1..(n + 1)
      /\ \A i \in 1..(n + 1) : i = 1 \/ (i - 1 \in 1..n /\ i = (i - 1) + 1)
  BY <1>1
<1>3. \A i \in 1..(n + 1) : i = 1 \/ \E j \in 1..n : i = j + 1
  BY <1>2
<1>4. \A i \in 1..n : IsLastAt(more, p, i + 1) <=> IsLastAt(steps, p, i)
  <2> SUFFICES ASSUME NEW i \in 1..n PROVE IsLastAt(more, p, i + 1) <=> IsLastAt(steps, p, i)
    OBVIOUS
  <2>1. ASSUME IsLastAt(more, p, i + 1), NEW k \in 1..n, i < k PROVE ~At(steps[k], p)
    <3>1. i + 1 < k + 1 /\ k + 1 \in 1..(n + 1) /\ more[k + 1] = steps[k]
      BY <1>1, <1>2, <2>1
    <3> QED
      BY <1>1, <2>1, <3>1 DEF IsLastAt
  <2>2. ASSUME IsLastAt(steps, p, i), NEW k \in 1..(n + 1), i + 1 < k PROVE ~At(more[k], p)
    <3>1. k # 1 /\ k - 1 \in 1..n /\ k = (k - 1) + 1 /\ i < k - 1
      BY <1>1, <2>2
    <3>2. more[k] = steps[k - 1]
      BY <1>1, <3>1
    <3> QED
      BY <2>2, <3>1, <3>2 DEF IsLastAt, n
  <2> QED
    BY <1>1, <2>1, <2>2 DEF IsLastAt, n
<1>5. \A i \in 1..n : IsFirstAt(more, p, i + 1) <=> ~At(s, p) /\ IsFirstAt(steps, p, i)
  <2> SUFFICES ASSUME NEW i \in 1..n PROVE IsFirstAt(more, p, i + 1) <=> ~At(s, p) /\ IsFirstAt(steps, p, i)
    OBVIOUS
  <2>1. ASSUME IsFirstAt(more, p, i + 1) PROVE ~At(s, p)
    <3>1. 1 < i + 1 /\ 1 \in 1..Len(more)
      BY <1>1, <1>2
    <3> QED
      BY <1>1, <2>1, <3>1 DEF IsFirstAt
  <2>2. ASSUME IsFirstAt(more, p, i + 1), NEW k \in 1..n, k < i PROVE ~At(steps[k], p)
    <3>1. k + 1 < i + 1 /\ k + 1 \in 1..(n + 1) /\ more[k + 1] = steps[k]
      BY <1>1, <1>2, <2>2
    <3> QED
      BY <1>1, <2>2, <3>1 DEF IsFirstAt
  <2>3. ASSUME ~At(s, p), IsFirstAt(steps, p, i), NEW k \in 1..(n + 1), k < i + 1 PROVE ~At(more[k], p)
    <3>1. CASE k = 1
      BY <1>1, <2>3, <3>1
    <3>2. CASE k # 1
      <4>1. k - 1 \in 1..n /\ k = (k - 1) + 1 /\ k - 1 < i
        BY <1>1, <2>3, <3>2
      <4>2. more[k] = steps[k - 1]
        BY <1>1, <4>1
      <4> QED
        BY <2>3, <4>1, <4>2 DEF IsFirstAt, n
    <3> QED
      BY <3>1, <3>2
  <2> QED
    BY <1>1, <2>1, <2>2, <2>3 DEF IsFirstAt, n
<1>6. \A i \in 1..n : FollowsAnUnlink(more, p, i + 1) <=>
                        FollowsAnUnlink(steps, p, i) \/ (At(s, p) /\ s.does = "unlink" /\ IsFirstAt(steps, p, i))
  <2> SUFFICES ASSUME NEW i \in 1..n
               PROVE  FollowsAnUnlink(more, p, i + 1) <=>
                        FollowsAnUnlink(steps, p, i) \/ (At(s, p) /\ s.does = "unlink" /\ IsFirstAt(steps, p, i))
    OBVIOUS
  <2>1. ASSUME FollowsAnUnlink(more, p, i + 1)
        PROVE  FollowsAnUnlink(steps, p, i) \/ (At(s, p) /\ s.does = "unlink" /\ IsFirstAt(steps, p, i))
    <3>1. PICK j \in 1..(n + 1) : /\ j < i + 1 /\ At(more[j], p) /\ more[j].does = "unlink"
                                  /\ \A k \in 1..(n + 1) : j < k /\ k < i + 1 => ~At(more[k], p)
      BY <1>1, <2>1 DEF FollowsAnUnlink
    <3>2. \A k \in 1..n : j < k + 1 /\ k < i => ~At(steps[k], p)
      <4> SUFFICES ASSUME NEW k \in 1..n, j < k + 1, k < i PROVE ~At(steps[k], p)
        OBVIOUS
      <4>1. k + 1 \in 1..(n + 1) /\ k + 1 < i + 1 /\ more[k + 1] = steps[k]
        BY <1>1, <1>2
      <4> QED
        BY <3>1, <4>1
    <3>3. CASE j = 1
      <4>1. \A k \in 1..n : j < k + 1
        BY <1>1, <3>3
      <4> QED
        BY <1>1, <3>1, <3>2, <3>3, <4>1 DEF IsFirstAt, n
    <3>4. CASE j # 1
      <4>1. j - 1 \in 1..n /\ j = (j - 1) + 1 /\ j - 1 < i
        BY <1>1, <3>1, <3>4
      <4>2. more[j] = steps[j - 1]
        BY <1>1, <4>1
      <4>3. \A k \in 1..n : j - 1 < k /\ k < i => ~At(steps[k], p)
        <5> SUFFICES ASSUME NEW k \in 1..n, j - 1 < k, k < i PROVE ~At(steps[k], p)
          OBVIOUS
        <5>1. j < k + 1
          BY <1>1, <4>1
        <5> QED
          BY <3>2, <5>1
      <4> QED
        BY <3>1, <4>1, <4>2, <4>3 DEF FollowsAnUnlink, n
    <3> QED
      BY <3>3, <3>4
  <2>2. ASSUME FollowsAnUnlink(steps, p, i) PROVE FollowsAnUnlink(more, p, i + 1)
    <3>1. PICK j \in 1..n : /\ j < i /\ At(steps[j], p) /\ steps[j].does = "unlink"
                            /\ \A k \in 1..n : j < k /\ k < i => ~At(steps[k], p)
      BY <2>2 DEF FollowsAnUnlink, n
    <3>2. j + 1 \in 1..(n + 1) /\ j + 1 < i + 1 /\ more[j + 1] = steps[j]
      BY <1>1, <1>2, <3>1
    <3>3. \A k \in 1..(n + 1) : j + 1 < k /\ k < i + 1 => ~At(more[k], p)
      <4> SUFFICES ASSUME NEW k \in 1..(n + 1), j + 1 < k, k < i + 1 PROVE ~At(more[k], p)
        OBVIOUS
      <4>1. k - 1 \in 1..n /\ k = (k - 1) + 1 /\ j < k - 1 /\ k - 1 < i
        BY <1>1
      <4>2. more[k] = steps[k - 1]
        BY <1>1, <4>1
      <4> QED
        BY <3>1, <4>1, <4>2
    <3> QED
      BY <1>1, <3>1, <3>2, <3>3 DEF FollowsAnUnlink
  <2>3. ASSUME At(s, p), s.does = "unlink", IsFirstAt(steps, p, i) PROVE FollowsAnUnlink(more, p, i + 1)
    <3>1. 1 \in 1..(n + 1) /\ 1 < i + 1
      BY <1>1, <1>2
    <3>2. \A k \in 1..(n + 1) : 1 < k /\ k < i + 1 => ~At(more[k], p)
      <4> SUFFICES ASSUME NEW k \in 1..(n + 1), 1 < k, k < i + 1 PROVE ~At(more[k], p)
        OBVIOUS
      <4>1. k - 1 \in 1..n /\ k = (k - 1) + 1 /\ k - 1 < i
        BY <1>1
      <4>2. more[k] = steps[k - 1]
        BY <1>1, <4>1
      <4> QED
        BY <2>3, <4>1, <4>2 DEF IsFirstAt, n
    <3> QED
      BY <1>1, <2>3, <3>1, <3>2 DEF FollowsAnUnlink
  <2> QED
    BY <2>1, <2>2, <2>3
<1>7. IsLastAt(more, p, 1) <=> ~Touched(steps, p)
  <2>1. \A k \in 1..(n + 1) : 1 < k => k - 1 \in 1..n /\ more[k] = steps[k - 1]
    <3> SUFFICES ASSUME NEW k \in 1..(n + 1), 1 < k PROVE k - 1 \in 1..n /\ more[k] = steps[k - 1]
      OBVIOUS
    <3>1. k - 1 \in 1..n /\ k = (k - 1) + 1
      BY <1>1
    <3> QED
      BY <1>1, <3>1
  <2>2. \A k \in 1..n : k + 1 \in 1..(n + 1) /\ 1 < k + 1 /\ more[k + 1] = steps[k]
    BY <1>1, <1>2
  <2>3. ASSUME ~Touched(steps, p), NEW k \in 1..(n + 1), 1 < k PROVE ~At(more[k], p)
    BY <2>1, <2>3 DEF Touched, n
  <2>4. ASSUME IsLastAt(more, p, 1), NEW k \in 1..n PROVE ~At(steps[k], p)
    BY <1>1, <2>2, <2>4 DEF IsLastAt
  <2> QED
    BY <1>1, <2>3, <2>4 DEF IsLastAt, Touched, n
<1>8. IsFirstAt(more, p, 1) /\ ~FollowsAnUnlink(more, p, 1)
  <2>1. \A k \in 1..(n + 1) : ~(k < 1)
    BY <1>1
  <2> QED
    BY <1>1, <2>1 DEF IsFirstAt, FollowsAnUnlink
<1>9. Touched(more, p) <=> At(s, p) \/ Touched(steps, p)
  <2>1. ASSUME At(s, p) PROVE Touched(more, p)
    BY <1>1, <1>2, <2>1 DEF Touched
  <2>2. ASSUME Touched(steps, p) PROVE Touched(more, p)
    <3>1. PICK i \in 1..n : At(steps[i], p)
      BY <2>2 DEF Touched, n
    <3>2. i + 1 \in 1..(n + 1) /\ At(more[i + 1], p)
      BY <1>1, <1>2, <3>1
    <3> QED
      BY <1>1, <3>2 DEF Touched
  <2>3. ASSUME Touched(more, p) PROVE At(s, p) \/ Touched(steps, p)
    <3>1. PICK i \in 1..(n + 1) : At(more[i], p)
      BY <1>1, <2>3 DEF Touched
    <3>2. CASE i = 1
      BY <1>1, <3>1, <3>2
    <3>3. ASSUME NEW j \in 1..n, i = j + 1 PROVE Touched(steps, p)
      BY <1>1, <3>1, <3>3 DEF Touched, n
    <3> QED
      BY <1>3, <3>2, <3>3
  <2> QED
    BY <2>1, <2>2, <2>3
<1> QED
  BY <1>1, <1>2, <1>3, <1>4, <1>5, <1>6, <1>7, <1>8, <1>9 DEF n

\* Running the steps from what stands at a place brings back what stood there, or nothing where
\* a dead link was replaced: each of them can succeed, and the last one decides.
PutsBack(steps, p, now, then, replacing) ==
    /\ \A i \in 1..Len(steps) : At(steps[i], p) =>
         /\ steps[i].does = "link" => (now = None /\ IsFirstAt(steps, p, i)) \/ FollowsAnUnlink(steps, p, i)
         /\ IsLastAt(steps, p, i) =>
              IF steps[i].does = "link" THEN then = steps[i].addon ELSE then = None \/ p \in replacing
    /\ IF Touched(steps, p) THEN now \in Addon \cup {None} ELSE now = then \/ (p \in replacing /\ now = None)

\* Steps switch an entry on; none of them does one thing.
TurnsOn(steps, a) == \E i \in 1..Len(steps) : steps[i].does = "turnOn" /\ steps[i].addon = a
HasNo(steps, does) == \A i \in 1..Len(steps) : steps[i].does # does


\* A sequence with one more in front, and one without its first.
LEMMA OneInFront ==
  ASSUME NEW s \in Step, NEW steps \in Seq(Step)
  PROVE  OneMore(<<s>> \o steps, s, steps) /\ <<s>> \o steps \in Seq(Step)
<1>1. <<s>> \in Seq(Step) /\ Len(<<s>>) = 1 /\ <<s>>[1] = s
  OBVIOUS
<1> DEFINE one == <<s>>
           more == one \o steps
<1>2. one \in Seq(Step) /\ Len(one) = 1 /\ one[1] = s
  BY <1>1
<1> HIDE DEF one
<1>3. /\ more \in Seq(Step) /\ Len(more) = Len(one) + Len(steps) /\ Len(steps) \in Nat
      /\ \A k \in 1..Len(one) : more[k] = one[k]
      /\ \A k \in 1..Len(steps) : more[Len(one) + k] = steps[k]
  <2> HIDE DEF more
  <2>1. one \in Seq(Step) /\ steps \in Seq(Step) /\ more = one \o steps
    BY <1>2 DEF more
  <2>2. more \in Seq(Step) /\ Len(more) = Len(one) + Len(steps) /\ Len(steps) \in Nat
    BY <2>1, OneThenTheOther
  <2>3. \A k \in 1..Len(one) : more[k] = one[k]
    BY <2>1, OneThenTheOther
  <2>4. \A k \in 1..Len(steps) : more[Len(one) + k] = steps[k]
    BY <2>1, OneThenTheOther
  <2> QED
    BY <2>2, <2>3, <2>4
<1> HIDE DEF more
<1>4. Len(more) = Len(steps) + 1 /\ more[1] = s
  BY <1>2, <1>3
<1>5. \A k \in 1..Len(steps) : more[k + 1] = steps[k]
  <2> SUFFICES ASSUME NEW k \in 1..Len(steps) PROVE more[k + 1] = steps[k]
    OBVIOUS
  <2>1. Len(one) + k = k + 1
    BY <1>2, <1>3
  <2> QED
    BY <1>3, <2>1
<1>6. OneMore(more, s, steps)
  BY <1>3, <1>4, <1>5 DEF OneMore
<1> QED
  BY <1>3, <1>6 DEF more, one

\* A sequence is its first and the rest.
LEMMA WithoutTheFirst ==
  ASSUME NEW steps \in Seq(Step), steps # <<>>
  PROVE  OneMore(steps, Head(steps), Tail(steps))
<1>1. /\ Head(steps) = steps[1] /\ Len(Tail(steps)) = Len(steps) - 1 /\ Len(steps) \in Nat /\ 1 \in 1..Len(steps)
      /\ \A i \in 1..Len(Tail(steps)) : Tail(steps)[i] = steps[i + 1]
  BY TheFirstStep
<1> QED
  BY <1>1 DEF OneMore

\* Where no step is.
LEMMA PutBackByNoStep ==
  ASSUME NEW p, NEW now, NEW then, NEW replacing
  PROVE  PutsBack(<<>>, p, now, then, replacing) <=> now = then \/ (p \in replacing /\ now = None)
BY DEF PutsBack, Touched

\* A step in front of those that put back what stood there before puts back what stands there after.
LEMMA PutBackByMore ==
  ASSUME NEW more, NEW s, NEW steps, OneMore(more, s, steps), NEW p,
         NEW now, NEW then, NEW replacing, NEW before, NEW dead,
         PutsBack(steps, p, before, then, dead),
         p \in dead => p \in replacing,
         \/ /\ At(s, p) /\ s.does = "unlink" /\ now \in Addon /\ before \in Addon \cup {None}
            /\ before = None \/ p \in replacing
         \/ /\ At(s, p) /\ s.does = "link" /\ before \in Addon /\ s.addon = before /\ now = None
         \/ ~At(s, p) /\ now = before
  PROVE  PutsBack(more, p, now, then, replacing)
<1>1. /\ \A i \in 1..Len(more) : i = 1 \/ \E j \in 1..Len(steps) : i = j + 1
      /\ IsLastAt(more, p, 1) <=> ~Touched(steps, p)
      /\ IsFirstAt(more, p, 1)
      /\ Touched(more, p) <=> At(s, p) \/ Touched(steps, p)
      /\ more[1] = s
  BY WithOneMore DEF OneMore
<1>2. \A i \in 1..Len(steps) :
              /\ more[i + 1] = steps[i]
              /\ IsLastAt(more, p, i + 1) <=> IsLastAt(steps, p, i)
              /\ IsFirstAt(more, p, i + 1) <=> ~At(s, p) /\ IsFirstAt(steps, p, i)
              /\ FollowsAnUnlink(more, p, i + 1) <=>
                   FollowsAnUnlink(steps, p, i) \/ (At(s, p) /\ s.does = "unlink" /\ IsFirstAt(steps, p, i))
  BY WithOneMore
<1>3. /\ \A i \in 1..Len(steps) : At(steps[i], p) =>
           /\ steps[i].does = "link" => (before = None /\ IsFirstAt(steps, p, i)) \/ FollowsAnUnlink(steps, p, i)
           /\ IsLastAt(steps, p, i) =>
                IF steps[i].does = "link" THEN then = steps[i].addon ELSE then = None \/ p \in dead
      /\ IF Touched(steps, p) THEN before \in Addon \cup {None} ELSE before = then \/ (p \in dead /\ before = None)
  BY DEF PutsBack
<1>4. None \notin Addon
  BY TheConstants
<1>5. ASSUME NEW j \in 1..Len(steps), At(more[j + 1], p)
      PROVE  /\ more[j + 1].does = "link" => (now = None /\ IsFirstAt(more, p, j + 1))
                                             \/ FollowsAnUnlink(more, p, j + 1)
             /\ IsLastAt(more, p, j + 1) =>
                  IF more[j + 1].does = "link" THEN then = more[j + 1].addon ELSE then = None \/ p \in replacing
  <2>1. /\ more[j + 1] = steps[j] /\ At(steps[j], p)
        /\ IsLastAt(more, p, j + 1) <=> IsLastAt(steps, p, j)
        /\ IsFirstAt(more, p, j + 1) <=> ~At(s, p) /\ IsFirstAt(steps, p, j)
        /\ FollowsAnUnlink(more, p, j + 1) <=>
                   FollowsAnUnlink(steps, p, j) \/ (At(s, p) /\ s.does = "unlink" /\ IsFirstAt(steps, p, j))
    BY <1>2, <1>5
  <2>2. /\ steps[j].does = "link" => (before = None /\ IsFirstAt(steps, p, j)) \/ FollowsAnUnlink(steps, p, j)
        /\ IsLastAt(steps, p, j) => IF steps[j].does = "link" THEN then = steps[j].addon ELSE then = None \/ p \in dead
    BY <1>3, <2>1
  <2> QED
    BY <1>4, <2>1, <2>2
<1>6. ASSUME At(more[1], p)
      PROVE  /\ more[1].does = "link" => (now = None /\ IsFirstAt(more, p, 1)) \/ FollowsAnUnlink(more, p, 1)
             /\ IsLastAt(more, p, 1) =>
                  IF more[1].does = "link" THEN then = more[1].addon ELSE then = None \/ p \in replacing
  BY <1>1, <1>3, <1>4, <1>6
<1>7. IF Touched(more, p) THEN now \in Addon \cup {None} ELSE now = then \/ (p \in replacing /\ now = None)
  BY <1>1, <1>3 DEF At
<1> DEFINE Fits(i) ==
             /\ more[i].does = "link" => (now = None /\ IsFirstAt(more, p, i)) \/ FollowsAnUnlink(more, p, i)
             /\ IsLastAt(more, p, i) =>
                  IF more[i].does = "link" THEN then = more[i].addon ELSE then = None \/ p \in replacing
<1>8. ASSUME NEW i \in 1..Len(more), At(more[i], p)
      PROVE  Fits(i)
  <2>1. CASE i = 1
    BY <1>6, <1>8, <2>1
  <2>2. ASSUME NEW j \in 1..Len(steps), i = j + 1 PROVE Fits(i)
    <3>1. At(more[j + 1], p)
      BY <1>8, <2>2
    <3>2. Fits(j + 1)
      BY <1>5, <3>1
    <3> QED
      BY <2>2, <3>2
  <2> HIDE DEF Fits
  <2> QED
    BY <1>1, <2>1, <2>2
<1> QED
  BY <1>7, <1>8 DEF PutsBack

\* One step has run, or could not.
LEMMA PutBackByTheRest ==
  ASSUME NEW more, NEW s, NEW steps, OneMore(more, s, steps), NEW p,
         NEW now, NEW then, NEW replacing, NEW after,
         PutsBack(more, p, now, then, replacing),
         \/ At(s, p) /\ s.does = "unlink" /\ after = None
         \/ At(s, p) /\ s.does = "link" /\ after = s.addon /\ after \in Addon
         \/ ~At(s, p) /\ after = now
  PROVE  PutsBack(steps, p, after, then, replacing)
<1>1. /\ IsLastAt(more, p, 1) <=> ~Touched(steps, p)
      /\ IsFirstAt(more, p, 1)
      /\ Touched(more, p) <=> At(s, p) \/ Touched(steps, p)
      /\ more[1] = s /\ 1 \in 1..Len(more)
  BY WithOneMore DEF OneMore
<1>2. \A i \in 1..Len(steps) :
              /\ i + 1 \in 1..Len(more) /\ more[i + 1] = steps[i]
              /\ IsLastAt(more, p, i + 1) <=> IsLastAt(steps, p, i)
              /\ IsFirstAt(more, p, i + 1) <=> ~At(s, p) /\ IsFirstAt(steps, p, i)
              /\ FollowsAnUnlink(more, p, i + 1) <=>
                   FollowsAnUnlink(steps, p, i) \/ (At(s, p) /\ s.does = "unlink" /\ IsFirstAt(steps, p, i))
  BY WithOneMore
<1>3. /\ \A i \in 1..Len(more) : At(more[i], p) =>
           /\ more[i].does = "link" => (now = None /\ IsFirstAt(more, p, i)) \/ FollowsAnUnlink(more, p, i)
           /\ IsLastAt(more, p, i) =>
                IF more[i].does = "link" THEN then = more[i].addon ELSE then = None \/ p \in replacing
      /\ IF Touched(more, p) THEN now \in Addon \cup {None} ELSE now = then \/ (p \in replacing /\ now = None)
  BY DEF PutsBack
<1>4. ASSUME NEW i \in 1..Len(steps), At(steps[i], p)
      PROVE  /\ steps[i].does = "link" => (after = None /\ IsFirstAt(steps, p, i)) \/ FollowsAnUnlink(steps, p, i)
             /\ IsLastAt(steps, p, i) =>
                  IF steps[i].does = "link" THEN then = steps[i].addon ELSE then = None \/ p \in replacing
  <2>1. /\ i + 1 \in 1..Len(more) /\ more[i + 1] = steps[i] /\ At(more[i + 1], p)
        /\ IsLastAt(more, p, i + 1) <=> IsLastAt(steps, p, i)
        /\ IsFirstAt(more, p, i + 1) <=> ~At(s, p) /\ IsFirstAt(steps, p, i)
        /\ FollowsAnUnlink(more, p, i + 1) <=>
                   FollowsAnUnlink(steps, p, i) \/ (At(s, p) /\ s.does = "unlink" /\ IsFirstAt(steps, p, i))
    BY <1>2, <1>4
  <2>2. /\ more[i + 1].does = "link" => (now = None /\ IsFirstAt(more, p, i + 1)) \/ FollowsAnUnlink(more, p, i + 1)
        /\ IsLastAt(more, p, i + 1) =>
             IF more[i + 1].does = "link" THEN then = more[i + 1].addon ELSE then = None \/ p \in replacing
    BY <1>3, <2>1
  <2> QED
    BY <2>1, <2>2
<1>5. IF Touched(steps, p) THEN after \in Addon \cup {None} ELSE after = then \/ (p \in replacing /\ after = None)
  BY <1>1, <1>3
<1> QED
  BY <1>4, <1>5 DEF PutsBack

\* A dead link went and its replacement failed, or more is said to be replaced.
LEMMA PutBackThoughMoreIsReplaced ==
  ASSUME NEW steps, NEW p, NEW now, NEW then, NEW replacing, PutsBack(steps, p, now, then, replacing),
         NEW more, p \in replacing => p \in more, NEW after,
         after = now \/ (now \in Addon /\ after = None /\ p \in more)
  PROVE  PutsBack(steps, p, after, then, more)
BY TheConstants DEF PutsBack

\* What one step more says of the entries.
LEMMA EntriesOfOneMore ==
  ASSUME NEW more, NEW s, NEW steps, OneMore(more, s, steps)
  PROVE  /\ \A a : TurnsOn(more, a) <=> (s.does = "turnOn" /\ s.addon = a) \/ TurnsOn(steps, a)
         /\ \A does : HasNo(more, does) <=> s.does # does /\ HasNo(steps, does)
<1> DEFINE n == Len(steps)
<1>1. n \in Nat /\ Len(more) = n + 1 /\ more[1] = s /\ \A i \in 1..n : more[i + 1] = steps[i]
  BY DEF OneMore
<1>2. /\ 1 \in 1..(n + 1) /\ \A i \in 1..n : i + 1 \in 1..(n + 1)
      /\ \A i \in 1..(n + 1) : i = 1 \/ \E j \in 1..n : i = j + 1
  BY WithOneMore, <1>1
<1> HIDE DEF n
<1>3. ASSUME NEW a PROVE TurnsOn(more, a) <=> (s.does = "turnOn" /\ s.addon = a) \/ TurnsOn(steps, a)
  <2>1. ASSUME s.does = "turnOn" /\ s.addon = a PROVE TurnsOn(more, a)
    BY <1>1, <1>2, <2>1 DEF TurnsOn
  <2>2. ASSUME TurnsOn(steps, a) PROVE TurnsOn(more, a)
    <3>1. PICK i \in 1..n : steps[i].does = "turnOn" /\ steps[i].addon = a
      BY <2>2 DEF TurnsOn, n
    <3>2. i + 1 \in 1..Len(more) /\ more[i + 1] = steps[i]
      BY <1>1, <1>2
    <3> QED
      BY <3>1, <3>2 DEF TurnsOn
  <2>3. ASSUME TurnsOn(more, a) PROVE (s.does = "turnOn" /\ s.addon = a) \/ TurnsOn(steps, a)
    <3>1. PICK i \in 1..(n + 1) : more[i].does = "turnOn" /\ more[i].addon = a
      BY <1>1, <2>3 DEF TurnsOn
    <3>2. CASE i = 1
      BY <1>1, <3>1, <3>2
    <3>3. ASSUME NEW j \in 1..n, i = j + 1 PROVE TurnsOn(steps, a)
      BY <1>1, <3>1, <3>3 DEF TurnsOn, n
    <3> QED
      BY <1>2, <3>2, <3>3
  <2> QED
    BY <2>1, <2>2, <2>3
<1>4. ASSUME NEW does PROVE HasNo(more, does) <=> s.does # does /\ HasNo(steps, does)
  <2>1. ASSUME HasNo(more, does) PROVE s.does # does
    BY <1>1, <1>2, <2>1 DEF HasNo
  <2>2. ASSUME HasNo(more, does) PROVE HasNo(steps, does)
    <3> SUFFICES ASSUME NEW i \in 1..n PROVE steps[i].does # does
      BY DEF HasNo, n
    <3>1. i + 1 \in 1..Len(more) /\ more[i + 1] = steps[i]
      BY <1>1, <1>2
    <3> QED
      BY <2>2, <3>1 DEF HasNo
  <2>3. ASSUME s.does # does, HasNo(steps, does), NEW i \in 1..(n + 1) PROVE more[i].does # does
    <3>1. CASE i = 1
      BY <1>1, <2>3, <3>1
    <3>2. ASSUME NEW j \in 1..n, i = j + 1 PROVE more[i].does # does
      BY <1>1, <2>3, <3>2 DEF HasNo, n
    <3> QED
      BY <1>2, <3>1, <3>2
  <2> QED
    BY <1>1, <2>1, <2>2, <2>3 DEF HasNo
<1> QED
  BY <1>3, <1>4

\* And what none says.
LEMMA EntriesOfNoStep ==
  (\A a : ~TurnsOn(<<>>, a)) /\ \A does : HasNo(<<>>, does)
BY DEF TurnsOn, HasNo

-----------------------------------------------------------------------------
(* An undo puts the last batch back. *)

\* A batch holds the lock.
Running(w) == work[w] # None /\ work[w].at = "running"

\* One batch runs at a time, an undo switches nothing off, and what is to be switched off
\* is on, was changed by others, or was switched off by the batch itself.
SwitchesInTurn(b, w) ==
    \A i \in 1..Len(b.steps) : b.steps[i].does = "turnOff" =>
      w = "tree" /\ (b.steps[i].addon \in strange \cup starts \/ TurnsOn(b.done, b.steps[i].addon))
InTurn(b, w) ==
    /\ b.at = "read" => b.done = <<>> /\ b.taken = {} /\ b.unlucky = {}
    /\ IF b.kind = "undo" THEN b.done = <<>> /\ HasNo(b.steps, "turnOff") ELSE HasNo(b.steps, "turnOn")
    /\ b.kind = "repair" => Len(b.steps) <= 1 /\ (b.steps # <<>> => b.done = <<>>)
    /\ HasNo(b.done, "turnOff")
    /\ SwitchesInTurn(b, w)
OneRuns == \A v, w \in Worker : Running(v) /\ Running(w) => v = w

\* Some steps lead from what there is to what was found, at the places and entries no other
\* program changed and no step took by mistake.
LeadsBack(steps, then, replacing, except) ==
    /\ \A p \in Place \ (strange \cup {s.place : s \in except}) :
         PutsBack(steps, p, link[p], then.link[p], replacing)
    /\ \A a \in Starter \ (strange \cup {s.addon : s \in except}) :
         a \in then.starts <=> a \in starts \/ TurnsOn(steps, a)

\* Where a batch that runs leads: an undo to what the batch it undoes found, another by what it has
\* done so far to what it found itself, and the undo before it stays good while it has done nothing.
RunsBack(b) ==
    /\ b.kind = "undo" /\ base # None => LeadsBack(b.steps, base, replaced, b.unlucky)
    /\ b.kind # "undo" => LeadsBack(b.done, b.start, b.taken, {})
    /\ b.kind # "undo" /\ b.done = <<>> /\ base # None => LeadsBack(undo, base, replaced \cup b.taken, {})

\* What ties the undo, the batch that runs and the disk to what the last batch found.
UndoInv ==
    /\ OneRuns /\ HasNo(undo, "turnOff")
    /\ \A w \in Worker : work[w] # None => InTurn(work[w], w)
    /\ ~Guarded /\ base # None => LeadsBack(undo, base, replaced, {})
    /\ \A w \in Worker : Running(w) => RunsBack(work[w])

\* A batch is as it was, but perhaps not alone.
AsBefore(w) ==
    /\ work'[w] = None <=> work[w] = None
    /\ work[w] # None => /\ work'[w].at = work[w].at /\ work'[w].kind = work[w].kind
                         /\ work'[w].steps = work[w].steps /\ work'[w].done = work[w].done
                         /\ work'[w].taken = work[w].taken /\ work'[w].unlucky = work[w].unlucky
                         /\ work'[w].start = work[w].start

\* Who is disturbed has read, planned and done what it had.
LEMMA DisturbedIsAsBefore ==
  ASSUME WorkOK, NEW w \in Worker,
         \/ work'[w] = work[w] \/ work' = Nobody
         \/ work[w] = None /\ work'[w] = None
         \/ work[w] # None /\ work'[w] = [work[w] EXCEPT !.alone = FALSE]
  PROVE  AsBefore(w)
<1>1. CASE work'[w] = work[w] \/ (work[w] = None /\ work'[w] = None)
  BY <1>1 DEF AsBefore
<1>2. CASE work[w] # None /\ work'[w] = [work[w] EXCEPT !.alone = FALSE]
  <2>1. work[w] \in Batch
    BY <1>2 DEF WorkOK, Maybe
  <2> DEFINE b == work[w]
             c == [b EXCEPT !.alone = FALSE]
  <2>2. c # None
    BY <2>1, NoLongerAlone
  <2>3. c.at = b.at /\ c.kind = b.kind /\ c.steps = b.steps /\ c.done = b.done
    BY <2>1, NoLongerAlone
  <2>4. c.taken = b.taken /\ c.unlucky = b.unlucky /\ c.start = b.start
    BY <2>1, NoLongerAlone
  <2> QED
    BY <1>2, <2>2, <2>3, <2>4 DEF AsBefore
<1>3. CASE work' = Nobody
  BY <1>1, <1>2, <1>3 DEF Nobody
<1> QED
  BY <1>1, <1>2, <1>3


\* Where nothing changes but what others change.
LEMMA OthersKeepTheWayBack ==
  ASSUME WorldOK, UndoInv, \A w \in Worker : AsBefore(w), UNCHANGED <<undo, base, replaced>>,
         strange \subseteq strange', \A p \in Place \ strange' : link'[p] = link[p],
         \A a \in Starter \ strange' : a \in starts' <=> a \in starts
  PROVE  UndoInv'
<1>1. OneRuns' /\ HasNo(undo, "turnOff")' /\ (Guarded <=> Guarded')
  BY DEF UndoInv, OneRuns, Running, AsBefore, Guarded, HasNo
<1>2. \A a : a \in strange \cup starts => a \in strange' \cup starts'
  BY DEF WorldOK
<1>3. ASSUME NEW w \in Worker, work'[w] # None PROVE InTurn(work[w], w)'
  <2>1. work[w] # None /\ InTurn(work[w], w)
    BY <1>3 DEF AsBefore, UndoInv
  <2>2. /\ work'[w].at = work[w].at /\ work'[w].kind = work[w].kind /\ work'[w].steps = work[w].steps
        /\ work'[w].done = work[w].done /\ work'[w].taken = work[w].taken /\ work'[w].unlucky = work[w].unlucky
    BY <2>1 DEF AsBefore
  <2>3. SwitchesInTurn(work[w], w)'
    BY <1>2, <2>1, <2>2 DEF InTurn, SwitchesInTurn, TurnsOn
  <2> QED
    BY <2>1, <2>2, <2>3 DEF InTurn, HasNo
<1>4. ASSUME ~Guarded', base' # None PROVE LeadsBack(undo, base, replaced, {})'
  <2>1. LeadsBack(undo, base, replaced, {})
    BY <1>1, <1>4 DEF UndoInv
  <2> QED
    BY <2>1 DEF LeadsBack
<1>5. ASSUME NEW w \in Worker, Running(w)' PROVE RunsBack(work[w])'
  <2>1. work[w] # None /\ RunsBack(work[w])
    BY <1>5 DEF AsBefore, UndoInv, Running
  <2>2. /\ work'[w].kind = work[w].kind /\ work'[w].steps = work[w].steps /\ work'[w].done = work[w].done
        /\ work'[w].taken = work[w].taken /\ work'[w].unlucky = work[w].unlucky /\ work'[w].start = work[w].start
    BY <2>1 DEF AsBefore
  <2>3. ASSUME work[w].kind = "undo", base' # None PROVE LeadsBack(work[w].steps, base, replaced, work[w].unlucky)'
    <3>1. LeadsBack(work[w].steps, base, replaced, work[w].unlucky)
      BY <2>1, <2>3 DEF RunsBack
    <3> QED
      BY <2>2, <3>1 DEF LeadsBack
  <2>4. ASSUME work[w].kind # "undo" PROVE LeadsBack(work[w].done, work[w].start, work[w].taken, {})'
    <3>1. LeadsBack(work[w].done, work[w].start, work[w].taken, {})
      BY <2>1, <2>4 DEF RunsBack
    <3> QED
      BY <2>2, <3>1 DEF LeadsBack
  <2>5. ASSUME work[w].kind # "undo", work[w].done = <<>>, base' # None
        PROVE  LeadsBack(undo, base, replaced \cup work[w].taken, {})'
    <3>1. LeadsBack(undo, base, replaced \cup work[w].taken, {})
      BY <2>1, <2>5 DEF RunsBack
    <3> QED
      BY <2>2, <3>1 DEF LeadsBack
  <2> QED
    BY <2>2, <2>3, <2>4, <2>5 DEF RunsBack
<1> QED
  BY <1>1, <1>3, <1>4, <1>5 DEF UndoInv

\* The undo is forgotten while no batch runs.
LEMMA ForgettingKeepsTheWayBack ==
  ASSUME UndoInv, ~Guarded, Forgotten, UNCHANGED <<link, starts, strange, work>>
  PROVE  UndoInv'
<1>1. HasNo(undo, "turnOff")' /\ OneRuns' /\ base' = None
  BY EntriesOfNoStep DEF Forgotten, UndoInv, OneRuns, Running, HasNo
<1>2. \A w \in Worker : ~Running(w)'
  BY DEF Guarded, Running
<1>3. \A w \in Worker : work'[w] # None => InTurn(work[w], w)'
  BY DEF UndoInv, InTurn, SwitchesInTurn, HasNo, TurnsOn
<1> QED
  BY <1>1, <1>2, <1>3 DEF UndoInv

\* A batch is asked for.
LEMMA AskingKeepsTheWayBack ==
  ASSUME FInv, UndoInv, SomeBatchIsAsked
  PROVE  UndoInv'
<1>1. PICK w \in Worker, kind \in {"toggle", "relink", "repair", "apply", "back", "undo"},
           steps \in Seq(Step), off \in SUBSET Addon, on \in SUBSET Addon : Asks(w, kind, steps, off, on)
  BY DEF SomeBatchIsAsked
<1> DEFINE c == Asked(kind, steps, off, on)
<1>2. /\ work[w] = None /\ work' = [work EXCEPT ![w] = c] /\ (kind = "repair" => Len(steps) <= 1)
      /\ SwitchesOf(c, w) /\ UNCHANGED <<link, starts, undo, base, replaced, strange>>
  BY <1>1 DEF Asks, world, ghosts
<1>3. /\ c \in Batch /\ c.kind = kind /\ c.steps = steps /\ c.at = "read" /\ c.done = <<>> /\ c.taken = {}
      /\ c.unlucky = {}
  <2>1. c \in Batch
    BY ZenonT(30), AskedIsABatch
  <2> QED
    BY <2>1 DEF Asked
<1> HIDE DEF c
<1>4. WorkOK /\ WorldOK
  BY InParts
<1>5. work'[w] = c /\ \A v \in Worker \ {w} : work'[v] = work[v]
  BY <1>2, <1>4 DEF WorkOK
<1>6. \A v \in Worker : Running(v)' <=> Running(v)
  BY <1>2, <1>3, <1>5 DEF Running
<1>7. OneRuns' /\ HasNo(undo, "turnOff")' /\ (Guarded <=> Guarded')
  BY <1>2, <1>6 DEF UndoInv, OneRuns, Guarded, Running, HasNo
<1>8. InTurn(work[w], w)'
  <2>1. SwitchesInTurn(work[w], w)'
    BY <1>2, <1>3, <1>5 DEF SwitchesInTurn, SwitchesOf
  <2>2. IF c.kind = "undo" THEN HasNo(c.steps, "turnOff") ELSE HasNo(c.steps, "turnOn")
    BY <1>2 DEF SwitchesOf, HasNo
  <2>3. HasNo(c.done, "turnOff")
    BY <1>3, EntriesOfNoStep
  <2> QED
    BY <1>2, <1>3, <1>5, <2>1, <2>2, <2>3 DEF InTurn, HasNo
<1>9. ASSUME NEW v \in Worker, v # w, work'[v] # None PROVE InTurn(work[v], v)'
  BY <1>2, <1>5, <1>9 DEF UndoInv, InTurn, SwitchesInTurn, HasNo, TurnsOn
<1>10. ASSUME NEW v \in Worker, Running(v)' PROVE RunsBack(work[v])'
  <2>1. Running(v) /\ work'[v] = work[v]
    BY <1>2, <1>5, <1>6, <1>10 DEF Running
  <2>2. RunsBack(work[v])
    BY <2>1 DEF UndoInv
  <2> QED
    BY <1>2, <2>1, <2>2 DEF RunsBack, LeadsBack
<1>11. ~Guarded' /\ base' # None => LeadsBack(undo, base, replaced, {})'
  BY <1>2, <1>7 DEF UndoInv, LeadsBack
<1> QED
  BY <1>7, <1>8, <1>9, <1>10, <1>11 DEF UndoInv

\* A batch that has taken the lock has done nothing yet.
LEMMA TakingTheGuardKeepsTheWayBack ==
  ASSUME FInv, UndoInv, NEW w \in Worker, TakeTheGuard(w)
  PROVE  UndoInv'
<1> DEFINE b == work[w]
           c == work'[w]
<1>1. WorldOK /\ UndoOK /\ WorkOK
  BY InParts
<1>2. /\ b # None /\ b.at = "read" /\ c # None /\ c.kind = b.kind /\ c.unlucky = b.unlucky
      /\ c.taken = b.taken /\ c.done = b.done /\ c.at = "running"
  BY <1>1, TakingTheGuard
<1>3. c.start.link = link /\ c.start.starts = starts /\ c.steps = IF b.kind = "undo" THEN undo ELSE b.steps
  BY <1>1, TakingTheGuard
<1>4. \A v \in Worker \ {w} : work'[v] = work[v]
  BY <1>1 DEF TakeTheGuard, WorkOK
<1>5. /\ ~Guarded /\ undo' = (IF b.kind = "undo" THEN <<>> ELSE undo)
      /\ UNCHANGED <<link, starts, strange, base, replaced>>
  BY DEF TakeTheGuard, UndoLeft, world, ghosts
<1> HIDE DEF b, c
<1>6. \A v \in Worker : ~Running(v)
  BY <1>5 DEF Guarded, Running
<1>7. OneRuns' /\ Guarded' /\ \A v \in Worker : Running(v)' => v = w
  <2>1. \A v \in Worker : Running(v)' => v = w
    BY <1>4, <1>6 DEF Running
  <2>2. Guarded'
    BY <1>2 DEF Guarded, c
  <2> QED
    BY <2>1, <2>2 DEF OneRuns
<1>8. HasNo(undo, "turnOff")'
  BY <1>5, EntriesOfNoStep DEF UndoInv
<1>9. InTurn(b, w) /\ b.done = <<>> /\ b.taken = {} /\ b.unlucky = {}
  BY <1>2 DEF UndoInv, InTurn, b
<1>10. InTurn(work[w], w)'
  <2>1. CASE b.kind = "undo"
    <3>1. c.steps = undo /\ HasNo(undo, "turnOff")
      BY <1>3, <2>1 DEF UndoInv
    <3>2. SwitchesInTurn(work[w], w)'
      BY <3>1 DEF SwitchesInTurn, HasNo, c
    <3> QED
      BY <1>2, <1>9, <2>1, <3>1, <3>2, EntriesOfNoStep DEF InTurn, c
  <2>2. CASE b.kind # "undo"
    <3>1. c.steps = b.steps
      BY <1>3, <2>2
    <3>2. SwitchesInTurn(work[w], w)'
      BY <1>2, <1>5, <1>9, <3>1 DEF InTurn, SwitchesInTurn, c
    <3> QED
      BY <1>2, <1>9, <2>2, <3>1, <3>2, EntriesOfNoStep DEF InTurn, c
  <2> QED
    BY <2>1, <2>2
<1>11. ASSUME NEW v \in Worker, v # w, work'[v] # None PROVE InTurn(work[v], v)'
  BY <1>4, <1>5, <1>11 DEF UndoInv, InTurn, SwitchesInTurn
<1>12. base # None => LeadsBack(undo, base, replaced, {})
  BY <1>5 DEF UndoInv
<1>13. RunsBack(work[w])'
  <2>1. ASSUME c.kind = "undo", base # None PROVE LeadsBack(work[w].steps, base, replaced, work[w].unlucky)'
    <3>1. c.steps = undo /\ c.unlucky = {}
      BY <1>2, <1>3, <1>9, <2>1
    <3> QED
      BY <1>5, <1>12, <2>1, <3>1 DEF LeadsBack, c
  <2>2. ASSUME c.kind # "undo" PROVE LeadsBack(work[w].done, work[w].start, work[w].taken, {})'
    <3>1. \A p \in Place : PutsBack(<<>>, p, link[p], link[p], {})
      <4> SUFFICES ASSUME NEW p \in Place PROVE PutsBack(<<>>, p, link[p], link[p], {})
        OBVIOUS
      <4> QED
        BY DEF PutsBack, Touched
    <3>2. \A a : ~TurnsOn(<<>>, a)
      BY EntriesOfNoStep
    <3>3. c.done = <<>> /\ c.taken = {}
      BY <1>2, <1>9
    <3> QED
      BY <1>3, <1>5, <3>1, <3>2, <3>3 DEF LeadsBack, c
  <2>3. ASSUME c.kind # "undo", base # None PROVE LeadsBack(undo, base, replaced \cup work[w].taken, {})'
    <3>1. c.taken = {} /\ undo' = undo
      BY <1>2, <1>5, <1>9, <2>3
    <3> QED
      BY <1>5, <1>12, <2>3, <3>1 DEF LeadsBack, c
  <2> QED
    BY <1>5, <2>1, <2>2, <2>3 DEF RunsBack, c
<1> QED
  BY <1>7, <1>8, <1>10, <1>11, <1>13 DEF UndoInv

\* What a batch leaves to undo.
LEMMA EndingKeepsTheWayBack ==
  ASSUME FInv, UndoInv, NEW w \in Worker, End(w)
  PROVE  UndoInv'
<1> DEFINE b == work[w]
<1>1. WorldOK /\ UndoOK /\ WorkOK
  BY InParts
<1>2. /\ b # None /\ b.at = "running" /\ Running(w) /\ work'[w] = None
      /\ \A v \in Worker \ {w} : work'[v] = work[v]
  BY <1>1 DEF End, Ends, WorkOK, Running
<1>3. /\ UNCHANGED <<link, starts, strange>>
      /\ undo' = (IF b.done # <<>> THEN b.done ELSE undo)
      /\ b.done # <<>> => base' = b.start /\ replaced' = b.taken
      /\ b.done = <<>> /\ b.kind = "undo" => base' = None
      /\ b.done = <<>> /\ b.kind # "undo" => base' = base /\ replaced' = replaced \cup b.taken
  BY DEF End, UndoAfter, world
<1> HIDE DEF b
<1>4. \A v \in Worker : ~Running(v)'
  BY <1>2 DEF UndoInv, OneRuns, Running
<1>5. OneRuns'
  BY <1>4 DEF OneRuns
<1>6. InTurn(b, w) /\ RunsBack(b)
  BY <1>2 DEF UndoInv, b
<1>7. HasNo(undo, "turnOff")'
  BY <1>3, <1>6 DEF UndoInv, InTurn
<1>8. ASSUME NEW v \in Worker, work'[v] # None PROVE InTurn(work[v], v)'
  <2>1. v # w /\ work'[v] = work[v]
    BY <1>2, <1>8
  <2> QED
    BY <1>3, <1>8, <2>1 DEF UndoInv, InTurn, SwitchesInTurn
<1>9. ASSUME base' # None PROVE LeadsBack(undo, base, replaced, {})'
  <2>1. CASE b.done # <<>>
    <3>1. LeadsBack(b.done, b.start, b.taken, {})
      BY <1>6, <2>1 DEF InTurn, RunsBack
    <3> QED
      BY <1>3, <2>1, <3>1 DEF LeadsBack
  <2>2. CASE b.done = <<>>
    <3>1. LeadsBack(undo, base, replaced \cup b.taken, {})
      BY <1>3, <1>6, <1>9, <2>2 DEF RunsBack
    <3> QED
      BY <1>3, <1>9, <2>2, <3>1 DEF LeadsBack
  <2> QED
    BY <2>1, <2>2
<1> QED
  BY <1>4, <1>5, <1>7, <1>8, <1>9 DEF UndoInv

\* What a step changes at a place and of an entry.
LEMMA AStepAtAPlace ==
  ASSUME FInv, NEW w \in Worker, StepSucceeds(w), NEW p \in Place
  PROVE  LET s == Head(work[w].steps)
         IN  /\ At(s, p) /\ s.does = "unlink" => link[p] \in Addon /\ link'[p] = None
             /\ At(s, p) /\ s.does = "link" => link[p] \in {None} \cup Dead /\ link'[p] = s.addon
             /\ ~At(s, p) => link'[p] = link[p]
<1> DEFINE s == Head(work[w].steps)
<1>1. WorldOK /\ WorkOK
  BY InParts
<1>2. s \in Step
  BY <1>1, TheBatchesAfterAStep, TheBatchAfterAStep
<1>3. /\ \A q \in Place : q # s.place => link'[q] = link[q]
      /\ s.does = "link" => /\ link[s.place] \in {None} \cup Dead /\ link'[s.place] = s.addon
                            /\ starts' = starts
      /\ s.does = "unlink" => /\ link[s.place] \in Addon /\ link'[s.place] = None
                              /\ starts' = starts
      /\ s.does = "turnOn" => link' = link /\ starts' = starts \cup {s.addon}
      /\ s.does = "turnOff" => link' = link /\ starts' = starts \ {s.addon}
  BY <1>1, WhatAStepChanges
<1>4. s.does \in {"link", "unlink", "turnOn", "turnOff"}
  BY <1>2, WhatAStepIs
<1> HIDE DEF s
<1>5. /\ At(s, p) /\ s.does = "unlink" => link[p] \in Addon /\ link'[p] = None
      /\ At(s, p) /\ s.does = "link" => link[p] \in {None} \cup Dead /\ link'[p] = s.addon
      /\ ~At(s, p) => link'[p] = link[p]
  BY <1>3, <1>4 DEF At
<1> QED
  BY <1>5 DEF s

\* And what it changes of an entry.
LEMMA AStepOfAnEntry ==
  ASSUME FInv, NEW w \in Worker, StepSucceeds(w), NEW a
  PROVE  LET s == Head(work[w].steps)
         IN  /\ s.does = "turnOn" /\ s.addon = a => a \in starts'
             /\ ~(s.does \in {"turnOn", "turnOff"} /\ s.addon = a) => (a \in starts' <=> a \in starts)
             /\ s.does # "turnOff" => starts \subseteq starts'
<1> DEFINE s == Head(work[w].steps)
<1>1. WorldOK /\ WorkOK
  BY InParts
<1>2. s.does \in {"link", "unlink", "turnOn", "turnOff"}
  BY <1>1, TheBatchesAfterAStep, TheBatchAfterAStep, WhatAStepIs
<1>3. /\ s.does \in {"link", "unlink"} => starts' = starts
      /\ s.does = "turnOn" => starts' = starts \cup {s.addon}
      /\ s.does = "turnOff" => starts' = starts \ {s.addon}
  BY <1>1, WhatAStepChanges
<1> HIDE DEF s
<1>4. /\ s.does = "turnOn" /\ s.addon = a => a \in starts'
      /\ ~(s.does \in {"turnOn", "turnOff"} /\ s.addon = a) => (a \in starts' <=> a \in starts)
      /\ s.does # "turnOff" => starts \subseteq starts'
  BY <1>2, <1>3
<1> QED
  BY <1>4 DEF s

\* The steps of an undo that are left lead where all of them led.
LEMMA AStepOfAnUndoLeadsBack ==
  ASSUME FInv, UndoInv, NEW w \in Worker, StepSucceeds(w) \/ StepFails(w), work[w].kind = "undo", base # None
  PROVE  LeadsBack(work[w].steps, base, replaced, work[w].unlucky)'
<1> DEFINE b == work[w]
           c == work'[w]
           s == Head(b.steps)
           rest == Tail(b.steps)
<1>1. WorldOK /\ WorkOK
  BY InParts
<1>2. b \in Batch /\ b # None /\ b.at = "running" /\ b.steps # <<>> /\ b.steps \in Seq(StepsOf(b.kind))
  BY <1>1, TheBatchesAfterAStep
<1>3. b.steps \in Seq(Step) /\ s \in Step
  BY <1>2, TheBatchAfterAStep DEF Batch
<1>4. OneMore(b.steps, s, rest)
  BY <1>2, <1>3, WithoutTheFirst
<1>5. LeadsBack(b.steps, base, replaced, b.unlucky) /\ HasNo(b.steps, "turnOff")
  BY <1>2 DEF UndoInv, RunsBack, InTurn, Running, b
<1>6. s.does # "turnOff" /\ \A a : TurnsOn(b.steps, a) <=> (s.does = "turnOn" /\ s.addon = a) \/ TurnsOn(rest, a)
  BY <1>4, <1>5, EntriesOfOneMore
<1>7. UNCHANGED <<base, replaced>> /\ strange \subseteq strange'
  <2>1. CASE StepSucceeds(w)
    BY <2>1 DEF StepSucceeds
  <2>2. CASE StepFails(w)
    BY <2>2 DEF StepFails, ghosts
  <2> QED
    BY <2>1, <2>2
<1>8. CASE StepSucceeds(w)
  <2>1. c.steps = rest /\ c.unlucky = b.unlucky
    <3>1. c = Ran(b, s)
      BY <1>1, <1>8, TheBatchesAfterAStep
    <3> QED
      BY <1>2, <3>1, TheBatchAfterAStep
  <2>2. ASSUME NEW p \in Place \ (strange' \cup {t.place : t \in b.unlucky})
        PROVE  PutsBack(rest, p, link'[p], base.link[p], replaced)
    <3>1. PutsBack(b.steps, p, link[p], base.link[p], replaced)
      BY <1>5, <1>7, <2>2 DEF LeadsBack
    <3>2. /\ At(s, p) /\ s.does = "unlink" => link[p] \in Addon /\ link'[p] = None
          /\ At(s, p) /\ s.does = "link" => link'[p] = s.addon
          /\ ~At(s, p) => link'[p] = link[p]
      BY <1>8, AStepAtAPlace
    <3>3. s.addon \in Addon /\ (At(s, p) => s.does \in {"link", "unlink"})
      BY <1>3, WhatAStepIs DEF At
    <3> HIDE DEF s, rest, b
    <3>4. \/ At(s, p) /\ s.does = "unlink" /\ link'[p] = None
          \/ At(s, p) /\ s.does = "link" /\ link'[p] = s.addon /\ link'[p] \in Addon
          \/ ~At(s, p) /\ link'[p] = link[p]
      BY <3>2, <3>3
    <3> QED
      BY <1>4, <3>1, <3>4, PutBackByTheRest
  <2>3. ASSUME NEW a \in Starter \ (strange' \cup {t.addon : t \in b.unlucky})
        PROVE  a \in base.starts <=> a \in starts' \/ TurnsOn(rest, a)
    <3>1. a \in base.starts <=> a \in starts \/ TurnsOn(b.steps, a)
      BY <1>5, <1>7, <2>3 DEF LeadsBack
    <3>2. /\ s.does = "turnOn" /\ s.addon = a => a \in starts'
          /\ ~(s.does = "turnOn" /\ s.addon = a) => (a \in starts' <=> a \in starts)
      BY <1>6, <1>8, AStepOfAnEntry
    <3> QED
      BY <1>6, <3>1, <3>2
  <2> QED
    BY <1>7, <2>1, <2>2, <2>3 DEF LeadsBack, c
<1>9. CASE StepFails(w)
  <2>1. c.steps = rest /\ c.unlucky = b.unlucky \cup (IF CanSucceed(s) THEN {s} ELSE {})
    <3>1. c = Failed(b, s)
      BY <1>1, <1>9, TheBatchesAfterAStep
    <3> QED
      BY <1>2, <3>1, TheBatchAfterAStep
  <2>2. ASSUME NEW p \in Place \ (strange' \cup {t.place : t \in c.unlucky})
        PROVE  PutsBack(rest, p, link'[p], base.link[p], replaced)
    <3>1. PutsBack(b.steps, p, link[p], base.link[p], replaced)
      BY <1>5, <1>7, <2>1, <2>2 DEF LeadsBack
    <3>2. At(s, p) => ~CanSucceed(s)
      BY <2>1, <2>2 DEF At
    <3>3. /\ IsFirstAt(b.steps, p, 1) /\ ~FollowsAnUnlink(b.steps, p, 1) /\ 1 \in 1..Len(b.steps)
          /\ Touched(b.steps, p) <=> At(s, p) \/ Touched(rest, p)
      BY <1>4, WithOneMore
    <3>4. b.steps[1] = s
      BY <1>4 DEF OneMore
    <3>5. /\ link' = link \/ (s.does = "link" /\ link[s.place] \in Dead)
          /\ \A q \in Place : q # s.place => link'[q] = link[q]
      BY <1>1, <1>9, WhatAFailureChanges
    <3>6. s.addon \in Addon /\ (At(s, p) => s.does \in {"link", "unlink"} /\ s.place = p)
      BY <1>3, WhatAStepIs DEF At
    <3>7. ~(At(s, p) /\ s.does = "link")
      <4> SUFFICES ASSUME At(s, p), s.does = "link" PROVE FALSE
        OBVIOUS
      <4>1. link[p] = None
        BY <3>1, <3>3, <3>4 DEF PutsBack
      <4> QED
        BY <3>2, <3>6, <4>1 DEF CanSucceed
    <3>8. At(s, p) => link[p] \notin Addon /\ s.does = "unlink"
      BY <3>2, <3>6, <3>7 DEF CanSucceed
    <3>9. At(s, p) => link[p] = None
      BY <3>1, <3>3, <3>8 DEF PutsBack
    <3>10. link'[p] = link[p]
      <4>1. CASE At(s, p)
        BY <3>5, <3>8, <4>1
      <4>2. CASE ~At(s, p)
        BY <3>5, <4>2 DEF At
      <4> QED
        BY <4>1, <4>2
    <3> HIDE DEF s, rest, b
    <3>11. \/ At(s, p) /\ s.does = "unlink" /\ link'[p] = None
           \/ ~At(s, p) /\ link'[p] = link[p]
      BY <3>8, <3>9, <3>10
    <3> QED
      BY <1>4, <3>1, <3>11, PutBackByTheRest
  <2>3. ASSUME NEW a \in Starter \ (strange' \cup {t.addon : t \in c.unlucky})
        PROVE  a \in base.starts <=> a \in starts' \/ TurnsOn(rest, a)
    <3>1. a \in base.starts <=> a \in starts \/ TurnsOn(b.steps, a)
      BY <1>5, <1>7, <2>1, <2>3 DEF LeadsBack
    <3>2. s.addon = a => ~CanSucceed(s)
      BY <2>1, <2>3
    <3>3. ~(s.does = "turnOn" /\ s.addon = a)
      BY <2>3, <3>2 DEF CanSucceed
    <3>4. starts' = starts
      BY <1>9 DEF StepFails
    <3> QED
      BY <1>6, <3>1, <3>3, <3>4
  <2> QED
    BY <1>7, <2>1, <2>2, <2>3 DEF LeadsBack, c
<1> QED
  BY <1>8, <1>9

\* What is added to the undo of a batch, by a step that took what it was planned for.
LEMMA TheInversePutsBack ==
  ASSUME NEW kind \in {"toggle", "relink", "repair", "apply", "back"}, NEW s \in StepsOf(kind), NEW done \in Seq(Step),
         kind = "repair" => done = <<>>, NEW p \in Place, NEW now, NEW then, NEW replacing, NEW more, NEW after,
         PutsBack(done, p, now, then, replacing), p \in replacing => p \in more,
         At(s, p) /\ s.does = "unlink" => now \in Addon /\ after = None,
         At(s, p) /\ s.does = "link" => now \in Addon \cup {None} /\ after = s.addon /\ (now = None \/ p \in more),
         ~At(s, p) => after = now,
         At(s, p) /\ kind = "repair" => now = s.was,
         At(s, p) /\ s.does = "unlink" => now = IF kind = "repair" THEN s.was ELSE s.addon
  PROVE  PutsBack(WithTheInverse(kind, done, s), p, after, then, more)
<1>1. s \in Step /\ s.addon \in Addon /\ (At(s, p) => s.does \in {"link", "unlink"} /\ s.place = p)
  BY WhatAStepIs DEF StepsOf, RepairStep, At
<1>2. CASE kind # "repair"
  <2> DEFINE t == InverseOf(s)
  <2>1. /\ t \in Step /\ t.does = Opposite(s.does) /\ t.addon = s.addon /\ t.place = s.place
        /\ WithTheInverse(kind, done, s) = <<t>> \o done
    BY <1>1, <1>2, WhatUndoesAStep DEF WithTheInverse
  <2> HIDE DEF t
  <2>2. OneMore(<<t>> \o done, t, done)
    BY <2>1, OneInFront
  <2>3. /\ At(t, p) <=> At(s, p)
        /\ At(s, p) => (t.does = "link" <=> s.does = "unlink") /\ (t.does = "unlink" <=> s.does = "link")
    BY <1>1, <2>1, WhatAStepIs DEF At, Opposite
  <2>4. \/ /\ At(t, p) /\ t.does = "unlink" /\ after \in Addon /\ now \in Addon \cup {None}
           /\ now = None \/ p \in more
        \/ /\ At(t, p) /\ t.does = "link" /\ now \in Addon /\ t.addon = now /\ after = None
        \/ ~At(t, p) /\ after = now
    BY <1>1, <1>2, <2>1, <2>3
  <2>5. PutsBack(<<t>> \o done, p, after, then, more)
    BY <2>2, <2>4, PutBackByMore
  <2> QED
    BY <2>1, <2>5
<1>3. CASE kind = "repair"
  <2> DEFINE back == Does("link", s.was, s.place)
             away == Does("unlink", s.addon, s.place)
  <2>1. s.was \in Addon /\ s.does \in {"link", "unlink"} /\ s.place \in Place
    BY <1>3, WhatAStepIs DEF StepsOf, RepairStep
  <2>2. back \in Step /\ back.does = "link" /\ back.addon = s.was /\ back.place = s.place
    BY <2>1, WhatItDoes
  <2>3. away \in Step /\ away.does = "unlink" /\ away.addon = s.addon /\ away.place = s.place
    BY <1>1, <2>1, WhatItDoes
  <2>4. WithTheInverse(kind, done, s) = <<>> \o ((IF s.does = "link" THEN <<away>> ELSE <<>>) \o <<back>>)
    BY <1>3 DEF WithTheInverse, InverseOfARepair
  <2> HIDE DEF back, away
  <2>5. /\ <<back>> \in Seq(Step) /\ <<back>> = <<back>> \o <<>>
        /\ WithTheInverse(kind, done, s) = IF s.does = "link" THEN <<away>> \o <<back>> ELSE <<back>>
    <3>1. <<back>> \in Seq(Step) /\ <<away>> \o <<back>> \in Seq(Step)
      BY <2>2, <2>3
    <3>2. \A x \in Seq(Step) : <<>> \o x = x /\ x \o <<>> = x
      OBVIOUS
    <3>3. <<back>> = <<back>> \o <<>> /\ <<>> \o <<back>> = <<back>>
          /\ <<>> \o (<<away>> \o <<back>>) = <<away>> \o <<back>>
      BY <3>1, <3>2
    <3>4. CASE s.does = "link"
      BY <2>4, <3>1, <3>3, <3>4
    <3>5. CASE s.does # "link"
      BY <2>4, <3>1, <3>3, <3>5
    <3> QED
      BY <3>1, <3>3, <3>4, <3>5
  <2>6. OneMore(<<back>>, back, <<>>) /\ OneMore(<<away>> \o <<back>>, away, <<back>>)
    <3>1. <<>> \in Seq(Step) /\ <<back>> \in Seq(Step)
      BY <2>5
    <3> QED
      BY <2>2, <2>3, <2>5, <3>1, OneInFront
  <2>7. PutsBack(<<>>, p, now, then, replacing)
    BY <1>3
  <2>8. (At(back, p) <=> At(s, p)) /\ (At(away, p) <=> At(s, p))
    BY <1>1, <2>1, <2>2, <2>3 DEF At
  <2> DEFINE mid == IF At(s, p) THEN None ELSE now
  <2>9. PutsBack(<<back>>, p, mid, then, more)
    <3>1. \/ At(back, p) /\ back.does = "link" /\ now \in Addon /\ back.addon = now /\ mid = None
          \/ ~At(back, p) /\ mid = now
      BY <1>3, <2>1, <2>2, <2>8
    <3> HIDE DEF mid
    <3> QED
      BY <2>6, <2>7, <3>1, PutBackByMore
  <2>10. CASE s.does = "link"
    <3>1. \/ /\ At(away, p) /\ away.does = "unlink" /\ after \in Addon /\ mid \in Addon \cup {None} /\ mid = None
          \/ ~At(away, p) /\ after = mid
      BY <1>1, <2>3, <2>8, <2>10
    <3> HIDE DEF mid
    <3> DEFINE both == <<away>> \o <<back>>
    <3>2. OneMore(both, away, <<back>>)
      BY <2>6
    <3> HIDE DEF both
    <3>3. PutsBack(both, p, after, then, more)
      BY <2>9, <3>1, <3>2, PutBackByMore
    <3> QED
      BY <2>5, <2>10, <3>3 DEF both
  <2>11. CASE s.does # "link"
    <3>1. after = mid
      BY <2>1, <2>11
    <3> HIDE DEF mid
    <3> QED
      BY <2>5, <2>9, <2>11, <3>1
  <2> QED
    BY <2>10, <2>11
<1> QED
  BY <1>2, <1>3

\* And what it says of the entries.
LEMMA TheInverseSwitchesBack ==
  ASSUME NEW kind \in {"toggle", "relink", "repair", "apply", "back"}, NEW s \in StepsOf(kind), NEW done \in Seq(Step),
         kind = "repair" => done = <<>>
  PROVE  /\ WithTheInverse(kind, done, s) # <<>>
         /\ \A a : TurnsOn(WithTheInverse(kind, done, s), a) <=> (s.does = "turnOff" /\ s.addon = a) \/ TurnsOn(done, a)
         /\ HasNo(done, "turnOff") /\ s.does # "turnOn" => HasNo(WithTheInverse(kind, done, s), "turnOff")
<1>1. s \in Step /\ s.addon \in Addon /\ s.does \in {"link", "unlink", "turnOn", "turnOff"}
  BY WhatAStepIs DEF StepsOf, RepairStep
<1>2. CASE kind # "repair"
  <2> DEFINE t == InverseOf(s)
  <2>1. /\ t \in Step /\ t.does = Opposite(s.does) /\ t.addon = s.addon /\ t.place = s.place
        /\ WithTheInverse(kind, done, s) = <<t>> \o done
    BY <1>1, <1>2, WhatUndoesAStep DEF WithTheInverse
  <2> HIDE DEF t
  <2> DEFINE more == <<t>> \o done
  <2>2. OneMore(more, t, done)
    BY <2>1, OneInFront
  <2> HIDE DEF more
  <2>3. /\ \A a : TurnsOn(more, a) <=> (t.does = "turnOn" /\ t.addon = a) \/ TurnsOn(done, a)
        /\ HasNo(more, "turnOff") <=> t.does # "turnOff" /\ HasNo(done, "turnOff")
        /\ more[1] = t /\ Len(more) = Len(done) + 1 /\ Len(done) \in Nat
    BY <2>2, EntriesOfOneMore DEF OneMore
  <2>4. more # <<>>
    <3>1. Len(more) # 0
      BY <2>3
    <3> QED
      BY <3>1
  <2>5. (t.does = "turnOn" <=> s.does = "turnOff") /\ (t.does = "turnOff" <=> s.does = "turnOn")
    BY <1>1, <2>1 DEF Opposite
  <2> QED
    BY <2>1, <2>3, <2>4, <2>5 DEF more
<1>3. CASE kind = "repair"
  <2> DEFINE back == Does("link", s.was, s.place)
             away == Does("unlink", s.addon, s.place)
  <2>1. s.was \in Addon /\ s.does \in {"link", "unlink"} /\ s.place \in Place
    BY <1>3, WhatAStepIs DEF StepsOf, RepairStep
  <2>2. back \in Step /\ back.does = "link"
    BY <2>1, WhatItDoes
  <2>3. away \in Step /\ away.does = "unlink"
    BY <1>1, <2>1, WhatItDoes
  <2>4. WithTheInverse(kind, done, s) = <<>> \o ((IF s.does = "link" THEN <<away>> ELSE <<>>) \o <<back>>)
    BY <1>3 DEF WithTheInverse, InverseOfARepair
  <2> HIDE DEF back, away
  <2>5. OneMore(<<back>>, back, <<>>) /\ OneMore(<<away>> \o <<back>>, away, <<back>>)
    <3>1. <<>> \in Seq(Step) /\ <<back>> \in Seq(Step) /\ <<back>> = <<back>> \o <<>>
      BY <2>2
    <3> QED
      BY <2>2, <2>3, <3>1, OneInFront
  <2>6. \E x : x \in {<<back>>, <<away>> \o <<back>>} /\ WithTheInverse(kind, done, s) = x
    <3>1. <<back>> \in Seq(Step) /\ <<away>> \o <<back>> \in Seq(Step) /\ <<>> \o <<back>> = <<back>>
      BY <2>2, <2>3
    <3>2. \A x \in Seq(Step) : <<>> \o x = x
      OBVIOUS
    <3>3. CASE s.does = "link"
      BY <2>4, <3>1, <3>2, <3>3
    <3>4. CASE s.does # "link"
      BY <2>4, <3>1, <3>2, <3>4
    <3> QED
      BY <3>3, <3>4
  <2>7. (\A a : ~TurnsOn(<<back>>, a)) /\ HasNo(<<back>>, "turnOff")
    BY <2>2, <2>5, EntriesOfOneMore, EntriesOfNoStep
  <2>8. (\A a : ~TurnsOn(<<away>> \o <<back>>, a)) /\ HasNo(<<away>> \o <<back>>, "turnOff")
    BY <2>3, <2>5, <2>7, EntriesOfOneMore
  <2>9. <<back>> # <<>> /\ <<away>> \o <<back>> # <<>>
    OBVIOUS
  <2>10. \A a : ~TurnsOn(done, a)
    BY <1>3, EntriesOfNoStep
  <2> QED
    BY <2>1, <2>6, <2>7, <2>8, <2>9, <2>10
<1> QED
  BY <1>2, <1>3

\* A step of another batch than an undo that succeeds leads from what it made back to
\* what the batch found.
LEMMA AStepOfABatchLeadsBack ==
  ASSUME FInv, UndoInv, NEW w \in Worker, StepSucceeds(w), work[w].kind # "undo"
  PROVE  LeadsBack(work[w].done, work[w].start, work[w].taken, {})' /\ work'[w].done # <<>>
<1> DEFINE b == work[w]
           c == work'[w]
           s == Head(b.steps)
<1>1. WorldOK /\ WorkOK
  BY InParts
<1>2. b \in Batch /\ b # None /\ b.at = "running" /\ b.steps # <<>> /\ b.steps \in Seq(StepsOf(b.kind))
  BY <1>1, TheBatchesAfterAStep
<1>3. s \in StepsOf(b.kind) /\ s \in Step /\ b.kind \in {"toggle", "relink", "repair", "apply", "back"}
      /\ b.done \in Seq(Step) /\ b.steps \in Seq(Step)
  BY <1>2, TheBatchAfterAStep DEF Batch
<1>4. c.done = WithTheInverse(b.kind, b.done, s) /\ c.taken = b.taken \cup Taken(s) /\ c.start = b.start
  <2>1. c = Ran(b, s)
    BY <1>1, TheBatchesAfterAStep
  <2>2. SameBatch(b, Ran(b, s))
    BY <1>2, TheBatchAfterAStep
  <2>3. Ran(b, s).done = WithTheInverse(b.kind, b.done, s) /\ Ran(b, s).taken = b.taken \cup Taken(s)
    BY <1>2, TheBatchAfterAStep
  <2> QED
    BY <2>1, <2>2, <2>3 DEF SameBatch
<1>5. LeadsBack(b.done, b.start, b.taken, {}) /\ InTurn(b, w)
  BY <1>2 DEF UndoInv, RunsBack, Running, b
<1>6. strange' = strange \cup Mistaken(b.kind, s)
  BY <1>1, WhatAStepChanges
<1>7. s = b.steps[1] /\ 1 \in 1..Len(b.steps)
  BY <1>2, <1>3, TheFirstStep
<1> HIDE DEF b, s
<1>8. b.kind = "repair" => b.done = <<>>
  BY <1>2, <1>5 DEF InTurn
<1>9. ASSUME NEW p \in Place \ strange'
      PROVE  PutsBack(c.done, p, link'[p], c.start.link[p], c.taken)
  <2>1. PutsBack(b.done, p, link[p], b.start.link[p], b.taken)
    BY <1>5, <1>6, <1>9 DEF LeadsBack
  <2>2. /\ At(s, p) /\ s.does = "unlink" => link[p] \in Addon /\ link'[p] = None
        /\ At(s, p) /\ s.does = "link" => link[p] \in {None} \cup Dead /\ link'[p] = s.addon
        /\ ~At(s, p) => link'[p] = link[p]
    BY AStepAtAPlace DEF s, b
  <2>3. At(s, p) /\ s.does = "link" /\ link[p] # None => p \in c.taken /\ link[p] \in Addon
    BY <1>4, <2>2 DEF At, Taken, Dead
  <2>4. p \notin Mistaken(b.kind, s) /\ b.kind # "undo"
    BY <1>3, <1>6, <1>9
  <2>5. /\ At(s, p) /\ b.kind = "repair" => link[p] = s.was
        /\ At(s, p) /\ s.does = "unlink" => link[p] = IF b.kind = "repair" THEN s.was ELSE s.addon
    BY <2>4 DEF Mistaken, At
  <2>6. p \in b.taken => p \in c.taken
    BY <1>4
  <2>7. At(s, p) /\ s.does = "link" => link[p] \in Addon \cup {None} /\ (link[p] = None \/ p \in c.taken)
    BY <2>3
  <2> HIDE DEF c
  <2>8. PutsBack(WithTheInverse(b.kind, b.done, s), p, link'[p], b.start.link[p], c.taken)
    BY <1>3, <1>8, <1>9, <2>1, <2>2, <2>5, <2>6, <2>7, TheInversePutsBack
  <2> QED
    BY <1>4, <2>8
<1>10. /\ c.done # <<>>
       /\ \A a : TurnsOn(c.done, a) <=> (s.does = "turnOff" /\ s.addon = a) \/ TurnsOn(b.done, a)
  BY <1>3, <1>4, <1>8, TheInverseSwitchesBack
<1>11. ASSUME NEW a \in Starter \ strange'
       PROVE  a \in c.start.starts <=> a \in starts' \/ TurnsOn(c.done, a)
  <2>1. a \in b.start.starts <=> a \in starts \/ TurnsOn(b.done, a)
    BY <1>5, <1>6, <1>11 DEF LeadsBack
  <2>2. ~(s.does \in {"turnOn", "turnOff"} /\ s.addon = a) => (a \in starts' <=> a \in starts)
    BY AStepOfAnEntry DEF s, b
  <2>3. s.does # "turnOn"
    BY <1>3, <1>5, <1>7 DEF InTurn, HasNo
  <2>4. CASE s.does = "turnOff" /\ s.addon = a
    <3>1. a \in starts \/ TurnsOn(b.done, a)
      BY <1>5, <1>6, <1>7, <1>11, <2>4 DEF InTurn, SwitchesInTurn
    <3> QED
      BY <1>4, <1>10, <2>1, <2>4, <3>1
  <2>5. CASE ~(s.does = "turnOff" /\ s.addon = a)
    BY <1>4, <1>10, <2>1, <2>2, <2>3, <2>5
  <2> QED
    BY <2>4, <2>5
<1> QED
  BY <1>9, <1>10, <1>11 DEF LeadsBack

\* A step that fails may take a dead link, and nothing else.
LEMMA AFailureLeadsBack ==
  ASSUME FInv, NEW w \in Worker, StepFails(w), NEW steps \in Seq(Step), NEW then, NEW replacing, NEW more,
         LeadsBack(steps, then, replacing, {}),
         \A p \in Place : p \in replacing \cup Taken(Head(work[w].steps)) => p \in more
  PROVE  /\ \A p \in Place \ strange' : PutsBack(steps, p, link'[p], then.link[p], more)
         /\ \A a \in Starter \ strange' : a \in then.starts <=> a \in starts' \/ TurnsOn(steps, a)
<1> DEFINE s == Head(work[w].steps)
<1>1. WorldOK /\ WorkOK
  BY InParts
<1>2. /\ \A q \in Place : q # s.place => link'[q] = link[q]
      /\ \/ link' = link
         \/ /\ s.does = "link" /\ s.place \in Place /\ link[s.place] \in Dead /\ link'[s.place] = None
            /\ Taken(s) = {s.place}
  BY <1>1, WhatAFailureChanges
<1>3. strange' = strange /\ starts' = starts
  BY <1>1, WhatAFailureChanges DEF ghosts
<1> HIDE DEF s
<1>4. ASSUME NEW p \in Place \ strange PROVE PutsBack(steps, p, link'[p], then.link[p], more)
  <2>1. PutsBack(steps, p, link[p], then.link[p], replacing) /\ (p \in replacing => p \in more)
    BY <1>4 DEF LeadsBack
  <2>2. link'[p] = link[p] \/ (link[p] \in Addon /\ link'[p] = None /\ p \in more)
    BY <1>2, <1>4 DEF Dead, s
  <2> QED
    BY <2>1, <2>2, PutBackThoughMoreIsReplaced
<1> QED
  BY <1>3, <1>4 DEF LeadsBack

\* After a step, batches are in their turns still.
LEMMA AStepKeepsTheTurns ==
  ASSUME FInv, UndoInv, NEW w \in Worker, StepSucceeds(w) \/ StepFails(w), NEW v \in Worker, work'[v] # None
  PROVE  InTurn(work[v], v)'
<1> DEFINE b == work[w]
           s == Head(b.steps)
           rest == Tail(b.steps)
<1>1. WorldOK /\ WorkOK
  BY InParts
<1>2. b \in Batch /\ b # None /\ b.at = "running" /\ b.steps # <<>> /\ b.steps \in Seq(StepsOf(b.kind))
  BY <1>1, TheBatchesAfterAStep
<1>3. s \in StepsOf(b.kind) /\ s \in Step /\ b.done \in Seq(Step) /\ b.steps \in Seq(Step) /\ rest \in Seq(Step)
      /\ b.kind \in {"toggle", "relink", "repair", "apply", "back", "undo"}
  BY <1>2, TheBatchAfterAStep, TheFirstStep DEF Batch
<1>4. /\ s = b.steps[1] /\ 1 \in 1..Len(b.steps) /\ Len(rest) = Len(b.steps) - 1 /\ Len(b.steps) \in Nat
      /\ \A i \in 1..Len(rest) : i + 1 \in 1..Len(b.steps) /\ rest[i] = b.steps[i + 1]
  BY <1>2, <1>3, TheFirstStep
<1>5. /\ InTurn(b, w) /\ strange \subseteq strange'
      /\ \A x : HasNo(b.steps, x) => s.does # x /\ HasNo(rest, x)
  <2>1. InTurn(b, w)
    BY <1>2 DEF UndoInv, b
  <2>2. strange \subseteq strange'
    <3>1. CASE StepSucceeds(w)
      BY <3>1 DEF StepSucceeds
    <3>2. CASE StepFails(w)
      BY <3>2 DEF StepFails, ghosts
    <3> QED
      BY <3>1, <3>2
  <2>3. OneMore(b.steps, s, rest)
    BY <1>2, <1>3, WithoutTheFirst
  <2> QED
    BY <2>1, <2>2, <2>3, EntriesOfOneMore
<1>6. s.does # "turnOff" => starts \subseteq starts'
  <2>1. CASE StepSucceeds(w)
    BY <2>1, AStepOfAnEntry
  <2>2. CASE StepFails(w)
    BY <2>2 DEF StepFails
  <2> QED
    BY <2>1, <2>2
<1>7. /\ s.does = "turnOff" => w = "tree" /\ b.kind # "undo"
      /\ \A a : ~(s.does = "turnOff" /\ s.addon = a) => (a \in starts => a \in starts')
  <2>1. s.does = "turnOff" => w = "tree" /\ b.kind # "undo"
    BY <1>4, <1>5 DEF InTurn, SwitchesInTurn, HasNo
  <2>2. ASSUME NEW a, ~(s.does = "turnOff" /\ s.addon = a), a \in starts PROVE a \in starts'
    <3>1. CASE StepSucceeds(w)
      BY <2>2, <3>1, AStepOfAnEntry
    <3>2. CASE StepFails(w)
      BY <2>2, <3>2 DEF StepFails
    <3> QED
      BY <3>1, <3>2
  <2> QED
    BY <2>1, <2>2
<1>8. CASE v # w
  <2>1. AsBefore(v) /\ work[v] # None
    <3>1. \/ work[v] = None /\ work'[v] = None
          \/ work[v] # None /\ work'[v] = [work[v] EXCEPT !.alone = FALSE]
      BY <1>1, <1>8, TheBatchesAfterAStep
    <3>2. AsBefore(v)
      BY <1>1, <3>1, DisturbedIsAsBefore
    <3> QED
      BY <3>2 DEF AsBefore
  <2>2. /\ work'[v].at = work[v].at /\ work'[v].kind = work[v].kind /\ work'[v].steps = work[v].steps
        /\ work'[v].done = work[v].done /\ work'[v].taken = work[v].taken /\ work'[v].unlucky = work[v].unlucky
    BY <2>1 DEF AsBefore
  <2>3. InTurn(work[v], v)
    BY <2>1 DEF UndoInv
  <2> HIDE DEF s
  <2>4. SwitchesInTurn(work[v], v)'
    <3>1. CASE v = "tree"
      <4>1. starts \subseteq starts'
        BY <1>6, <1>7, <1>8, <3>1
      <4> QED
        BY <1>5, <2>2, <2>3, <4>1 DEF InTurn, SwitchesInTurn
    <3>2. CASE v # "tree"
      BY <2>2, <2>3, <3>2 DEF InTurn, SwitchesInTurn
    <3> QED
      BY <3>1, <3>2
  <2> QED
    BY <2>2, <2>3, <2>4 DEF InTurn
<1>9. CASE v = w
  <2> DEFINE c == work'[w]
  <2>1. c.kind = b.kind /\ c.at = b.at /\ c.steps = rest
    <3>1. SameBatch(b, Ran(b, s)) /\ SameBatch(b, Failed(b, s))
      BY <1>2, TheBatchAfterAStep
    <3>2. Ran(b, s).steps = rest /\ Failed(b, s).steps = rest
      BY <1>2, TheBatchAfterAStep
    <3>3. c = Ran(b, s) \/ c = Failed(b, s)
      BY <1>1, TheBatchesAfterAStep
    <3> QED
      BY <3>1, <3>2, <3>3 DEF SameBatch
  <2>2. /\ StepSucceeds(w) => c.done = WithTheInverse(b.kind, b.done, s)
        /\ StepFails(w) => c.done = b.done
    <3>1. Ran(b, s).done = WithTheInverse(b.kind, b.done, s) /\ Failed(b, s).done = b.done
      BY <1>2, TheBatchAfterAStep
    <3>2. /\ StepSucceeds(w) => c = Ran(b, s)
          /\ StepFails(w) => c = Failed(b, s)
      BY <1>1, TheBatchesAfterAStep
    <3> QED
      BY <3>1, <3>2
  <2> HIDE DEF b, s, rest
  <2>3. b.kind = "repair" => b.done = <<>> /\ Len(rest) <= 0
    BY <1>2, <1>4, <1>5 DEF InTurn
  <2>4. /\ b.kind # "undo" => /\ HasNo(WithTheInverse(b.kind, b.done, s), "turnOff")
                              /\ \A a : TurnsOn(WithTheInverse(b.kind, b.done, s), a) <=>
                                          (s.does = "turnOff" /\ s.addon = a) \/ TurnsOn(b.done, a)
        /\ b.kind = "undo" => WithTheInverse(b.kind, b.done, s) = b.done
    <3>1. CASE b.kind = "undo"
      BY <3>1 DEF WithTheInverse
    <3>2. CASE b.kind # "undo"
      <4>1. s.does # "turnOn" /\ HasNo(b.done, "turnOff")
        BY <1>5, <3>2 DEF InTurn
      <4>2. b.kind \in {"toggle", "relink", "repair", "apply", "back"}
        BY <1>3, <3>2
      <4>3. HasNo(WithTheInverse(b.kind, b.done, s), "turnOff")
        BY <1>3, <2>3, <4>1, <4>2, TheInverseSwitchesBack
      <4>4. \A a : TurnsOn(WithTheInverse(b.kind, b.done, s), a) <=>
                     (s.does = "turnOff" /\ s.addon = a) \/ TurnsOn(b.done, a)
        BY <1>3, <2>3, <4>2, TheInverseSwitchesBack
      <4> QED
        BY <3>2, <4>3, <4>4
    <3> QED
      BY <3>1, <3>2
  <2>5. HasNo(c.done, "turnOff") /\ (b.kind = "undo" => c.done = <<>>)
    BY <1>5, <2>2, <2>4 DEF InTurn
  <2>6. IF c.kind = "undo" THEN c.done = <<>> /\ HasNo(c.steps, "turnOff") ELSE HasNo(c.steps, "turnOn")
    BY <1>5, <2>1, <2>5 DEF InTurn
  <2>7. ASSUME NEW i \in 1..Len(rest), rest[i].does = "turnOff"
        PROVE  w = "tree" /\ (rest[i].addon \in strange' \cup starts' \/ TurnsOn(c.done, rest[i].addon))
    <3> DEFINE a == rest[i].addon
    <3>1. w = "tree" /\ (a \in strange \cup starts \/ TurnsOn(b.done, a))
      BY <1>4, <1>5, <2>7 DEF InTurn, SwitchesInTurn
    <3>2. TurnsOn(b.done, a) => TurnsOn(c.done, a)
      BY <2>2, <2>4
    <3>3. a \in strange => a \in strange'
      BY <1>5
    <3>4. StepSucceeds(w) /\ s.does = "turnOff" /\ s.addon = a => TurnsOn(c.done, a)
      BY <1>7, <2>2, <2>4
    <3>5. a \in starts => a \in starts' \/ (StepSucceeds(w) /\ s.does = "turnOff" /\ s.addon = a)
      <4>1. StepFails(w) => starts' = starts
        BY DEF StepFails
      <4> QED
        BY <1>7, <4>1
    <3> QED
      BY <3>1, <3>2, <3>3, <3>4, <3>5
  <2>8. SwitchesInTurn(work[w], w)'
    BY <2>1, <2>7 DEF SwitchesInTurn, c
  <2>9. c.kind = "repair" => Len(c.steps) <= 1 /\ (c.steps # <<>> => c.done = <<>>)
    <3>1. c.kind = "repair" => Len(rest) = 0
      <4>1. b.kind = "repair" => Len(rest) <= 0
        BY <2>3
      <4>2. Len(rest) \in Nat
        BY <1>3
      <4>3. b.kind = "repair" => Len(rest) = 0
        BY <4>1, <4>2
      <4> QED
        BY <2>1, <4>3
    <3>2. c.kind = "repair" => rest = <<>>
      BY <1>3, <3>1
    <3> QED
      BY <2>1, <3>1, <3>2
  <2> QED
    BY <1>2, <1>9, <2>1, <2>5, <2>6, <2>8, <2>9 DEF InTurn, c
<1> QED
  BY <1>8, <1>9

\* And so is the way back.
LEMMA AStepKeepsTheWayBack ==
  ASSUME FInv, UndoInv, NEW w \in Worker, StepSucceeds(w) \/ StepFails(w)
  PROVE  UndoInv'
<1> DEFINE b == work[w]
           c == work'[w]
           s == Head(b.steps)
<1>1. WorldOK /\ WorkOK /\ UndoOK
  BY InParts
<1>2. b \in Batch /\ b # None /\ b.at = "running" /\ b.steps # <<>> /\ b.steps \in Seq(StepsOf(b.kind))
  BY <1>1, TheBatchesAfterAStep
<1>3. c # None /\ c.at = "running" /\ c.kind = b.kind
  <2>1. SameBatch(b, Ran(b, s)) /\ SameBatch(b, Failed(b, s)) /\ Ran(b, s) # None /\ Failed(b, s) # None
    BY <1>2, TheBatchAfterAStep
  <2>2. c = Ran(b, s) \/ c = Failed(b, s)
    BY <1>1, TheBatchesAfterAStep
  <2> QED
    BY <1>2, <2>1, <2>2 DEF SameBatch
<1>4. \A v \in Worker \ {w} : AsBefore(v)
  <2>1. \A v \in Worker \ {w} : \/ work[v] = None /\ work'[v] = None
                                \/ work[v] # None /\ work'[v] = [work[v] EXCEPT !.alone = FALSE]
    BY <1>1, TheBatchesAfterAStep
  <2> QED
    BY <1>1, <2>1, DisturbedIsAsBefore
<1>5. /\ UNCHANGED <<undo, base, replaced>>
      /\ StepFails(w) => strange' = strange /\ starts' = starts
  <2>1. CASE StepSucceeds(w)
    BY <1>1, <2>1, WhatAStepChanges DEF StepSucceeds, StepFails, ghosts
  <2>2. CASE StepFails(w)
    BY <2>2 DEF StepFails, ghosts
  <2> QED
    BY <2>1, <2>2 DEF StepFails, ghosts
<1>6. Running(w) /\ Running(w)' /\ \A v \in Worker : Running(v)' => v = w
  <2>1. Running(w) /\ Running(w)'
    BY <1>2, <1>3 DEF Running
  <2>2. \A v \in Worker \ {w} : Running(v)' => Running(v)
    BY <1>4 DEF Running, AsBefore
  <2> QED
    BY <2>1, <2>2 DEF UndoInv, OneRuns
<1>7. OneRuns' /\ HasNo(undo, "turnOff")' /\ Guarded'
  BY <1>5, <1>6 DEF UndoInv, OneRuns, Running, Guarded
<1>8. \A v \in Worker : work'[v] # None => InTurn(work[v], v)'
  BY AStepKeepsTheTurns
<1>9. RunsBack(b) /\ InTurn(b, w)
  BY <1>2, <1>6 DEF UndoInv, b
<1>10. RunsBack(work[w])'
  <2>1. CASE b.kind = "undo"
    <3>1. base' # None => LeadsBack(work[w].steps, base, replaced, work[w].unlucky)'
      BY <1>5, <2>1, AStepOfAnUndoLeadsBack
    <3> QED
      BY <1>3, <2>1, <3>1 DEF RunsBack, c
  <2>2. CASE b.kind # "undo" /\ StepSucceeds(w)
    <3>1. LeadsBack(work[w].done, work[w].start, work[w].taken, {})' /\ c.done # <<>>
      BY <2>2, AStepOfABatchLeadsBack
    <3> QED
      BY <1>3, <2>2, <3>1 DEF RunsBack, c
  <2>3. CASE b.kind # "undo" /\ StepFails(w)
    <3>1. c.done = b.done /\ c.taken = b.taken \cup Taken(s) /\ c.start = b.start
      <4>1. c = Failed(b, s)
        BY <1>1, <2>3, TheBatchesAfterAStep
      <4>2. SameBatch(b, Failed(b, s))
        BY <1>2, TheBatchAfterAStep
      <4>3. Failed(b, s).done = b.done /\ Failed(b, s).taken = b.taken \cup Taken(s)
        BY <1>2, TheBatchAfterAStep
      <4> QED
        BY <4>1, <4>2, <4>3 DEF SameBatch
    <3>2. b.done \in Seq(Step) /\ undo \in Seq(Step)
      BY <1>1, <1>2 DEF Batch, UndoOK
    <3>3. LeadsBack(work[w].done, work[w].start, work[w].taken, {})'
      <4>1. LeadsBack(b.done, b.start, b.taken, {})
        BY <1>9, <2>3 DEF RunsBack
      <4>2. /\ \A p \in Place \ strange' : PutsBack(b.done, p, link'[p], b.start.link[p], c.taken)
            /\ \A a \in Starter \ strange' : a \in b.start.starts <=> a \in starts' \/ TurnsOn(b.done, a)
        <5>1. \A p \in Place : p \in b.taken \cup Taken(s) => p \in c.taken
          BY <3>1
        <5> HIDE DEF c
        <5> QED
          BY <2>3, <3>2, <4>1, <5>1, AFailureLeadsBack
      <4> QED
        BY <3>1, <4>2 DEF LeadsBack, c
    <3>4. ASSUME b.done = <<>>, base # None PROVE LeadsBack(undo, base, replaced \cup work[w].taken, {})'
      <4>1. LeadsBack(undo, base, replaced \cup b.taken, {})
        BY <1>9, <2>3, <3>4 DEF RunsBack
      <4>2. /\ \A p \in Place \ strange' : PutsBack(undo, p, link'[p], base.link[p], replaced \cup c.taken)
            /\ \A a \in Starter \ strange' : a \in base.starts <=> a \in starts' \/ TurnsOn(undo, a)
        <5>1. \A p \in Place : p \in (replaced \cup b.taken) \cup Taken(s) => p \in replaced \cup c.taken
          BY <3>1
        <5> HIDE DEF c
        <5> QED
          BY <2>3, <3>2, <4>1, <5>1, AFailureLeadsBack
      <4> QED
        BY <1>5, <4>2 DEF LeadsBack, c
    <3> QED
      BY <1>3, <1>5, <2>3, <3>1, <3>3, <3>4 DEF RunsBack, c
  <2> QED
    BY <2>1, <2>2, <2>3
<1> QED
  BY <1>6, <1>7, <1>8, <1>10 DEF UndoInv

\* What other programs, deletions and moves change is told apart.
LEMMA OthersAreTold ==
  ASSUME FInv,
         \/ SomeoneElseActs
         \/ \E addons \in (SUBSET Standing) \ {{}} : Delete(addons)
         \/ RemoveTheFolder \/ Deleted
         \/ \E p \in Place : RemoveTheLink(p) \/ DisableALink(p)
         \/ \E from \in Standing, to \in gone : MoveTo(from, to)
         \/ MoveTheFolder \/ Relink \/ AdoptTheReorganization
  PROVE  \/ /\ work' = Nobody \/ work' = work
            /\ UNCHANGED <<undo, base, replaced>> /\ strange \subseteq strange'
            /\ \A p \in Place \ strange' : link'[p] = link[p]
            /\ \A a \in Starter \ strange' : a \in starts' <=> a \in starts
         \/ ~Guarded /\ Forgotten /\ UNCHANGED <<link, starts, strange, work>>
<1>1. link \in Disks
  BY InParts DEF WorldOK
<1>2. ASSUME NEW p \in Profile, ChooseProfile(p) PROVE UNCHANGED <<link, starts, strange, work, undo, base, replaced>>
  BY <1>2 DEF ChooseProfile, world, ghosts
<1>3. ASSUME NEW a, OverrideDestination(a)
      PROVE  ~Guarded /\ Forgotten /\ UNCHANGED <<link, starts, strange, work>>
  BY <1>3 DEF OverrideDestination, world
<1>4. ASSUME NEW p \in Place, NEW target, SomeoneLinks(p, target)
      PROVE  /\ work' = Nobody /\ UNCHANGED <<undo, base, replaced, starts>> /\ strange' = strange \cup {p}
             /\ \A q \in Place : q # p => link'[q] = link[q]
  BY <1>1, <1>4 DEF SomeoneLinks, Disks
<1>5. ASSUME NEW a, FolderGoesOrComes(a)
      PROVE  work' = Nobody /\ UNCHANGED <<undo, base, replaced, starts, link, strange>>
  BY <1>5 DEF FolderGoesOrComes, ghosts
<1>6. ASSUME NEW s, SomeoneSwitches(s)
      PROVE  /\ work' = Nobody /\ UNCHANGED <<undo, base, replaced, link>> /\ strange' = strange \cup {s}
             /\ \A a : a # s => (a \in starts' <=> a \in starts)
  BY <1>6 DEF SomeoneSwitches
<1>7. ASSUME NEW places, Touches(places)
      PROVE  work' = Nobody /\ UNCHANGED <<undo, base, replaced, starts>> /\ strange' = strange \cup places
  BY <1>7 DEF Touches
<1>8. ASSUME NEW p \in Place, TakeTheLinkDown(p) PROVE \A q \in Place : q # p => link'[q] = link[q]
  BY <1>1, <1>8 DEF TakeTheLinkDown, Disks
<1>9. ASSUME NEW addons, Delete(addons) PROVE UNCHANGED <<link, starts, strange, work, undo, base, replaced>>
  BY <1>9 DEF Delete, world, ghosts
<1>10. ASSUME NEW p \in Place, RemoveTheLink(p)
       PROVE  \/ TakeTheLinkDown(p) /\ Touches({p})
              \/ UNCHANGED <<link, starts, strange, work, undo, base, replaced>>
  BY <1>10 DEF RemoveTheLink, world, ghosts
<1>11. ASSUME RemoveTheFolder
       PROVE  \/ link' = link /\ Touches({})
              \/ UNCHANGED <<link, starts, strange, work, undo, base, replaced>>
  BY <1>11 DEF RemoveTheFolder, world, ghosts
<1>12. ASSUME Deleted
       PROVE  \/ ~Guarded /\ Forgotten /\ UNCHANGED <<link, starts, strange, work>>
              \/ UNCHANGED <<link, starts, strange, work, undo, base, replaced>>
  BY <1>12 DEF Deleted, world
<1>13. ASSUME NEW from, NEW to, MoveTo(from, to)
       PROVE  UNCHANGED <<link, starts, strange, work, undo, base, replaced>>
  BY <1>13 DEF MoveTo, world, ghosts
<1>14. ASSUME NEW p \in Place, DisableALink(p)
       PROVE  \/ TakeTheLinkDown(p) /\ Touches({p})
              \/ UNCHANGED <<link, starts, strange, work, undo, base, replaced>>
  BY <1>14 DEF DisableALink, world, ghosts
<1>15. ASSUME MoveTheFolder
       PROVE  \/ link' = link /\ Touches({})
              \/ UNCHANGED <<link, starts, strange, work, undo, base, replaced>>
  BY <1>15 DEF MoveTheFolder, world, ghosts
<1>16. ASSUME Relink
       PROVE  \/ Touches({moving.plan}) /\ \A q \in Place : q # moving.plan => link'[q] = link[q]
              \/ UNCHANGED <<link, starts, strange, work, undo, base, replaced>>
  <2>1. CASE LinkAt(Does("link", moving.to, moving.plan)) /\ Touches({moving.plan})
    <3>1. link' = [link EXCEPT ![moving.plan] = moving.to]
      BY <2>1 DEF LinkAt, Does
    <3> QED
      BY <1>1, <2>1, <3>1 DEF Disks
  <2>2. CASE UNCHANGED <<world, gone, profile, pinned, work, undo, previous, ghosts, batches, deleting>>
    BY <2>2 DEF world, ghosts
  <2> QED
    BY <1>16, <2>1, <2>2 DEF Relink
<1>17. ASSUME AdoptTheReorganization
       PROVE  \/ ~Guarded /\ Forgotten /\ UNCHANGED <<link, starts, strange, work>>
              \/ UNCHANGED <<link, starts, strange, work, undo, base, replaced>>
  BY <1>17 DEF AdoptTheReorganization, world
<1>18. CASE SomeoneElseActs
  <2>1. CASE \E a \in Addon : OverrideDestination(a)
    BY <1>3, <2>1
  <2>2. CASE \/ \E p \in Profile : ChooseProfile(p)
             \/ \E a \in Standing : FolderGoesOrComes(a)
    BY <1>2, <1>5, <2>2
  <2>3. CASE \E p \in Place, target \in Standing \cup {None, Folder} : SomeoneLinks(p, target)
    BY <1>4, <2>3
  <2>4. CASE \E s \in Starter : SomeoneSwitches(s)
    BY <1>6, <2>4
  <2> QED
    BY <1>18, <2>1, <2>2, <2>3, <2>4 DEF SomeoneElseActs
<1>19. CASE \E p \in Place : RemoveTheLink(p) \/ DisableALink(p)
  <2>1. PICK p \in Place : RemoveTheLink(p) \/ DisableALink(p)
    BY <1>19
  <2>2. CASE UNCHANGED <<link, starts, strange, work, undo, base, replaced>>
    BY <2>2
  <2>3. CASE TakeTheLinkDown(p) /\ Touches({p})
    BY <1>7, <1>8, <2>3
  <2> QED
    BY <1>10, <1>14, <2>1, <2>2, <2>3
<1>20. CASE RemoveTheFolder \/ MoveTheFolder
  BY <1>7, <1>11, <1>15, <1>20
<1>21. CASE Relink
  <2>1. CASE UNCHANGED <<link, starts, strange, work, undo, base, replaced>>
    BY <2>1
  <2>2. CASE Touches({moving.plan}) /\ \A q \in Place : q # moving.plan => link'[q] = link[q]
    BY <1>7, <2>2
  <2> QED
    BY <1>16, <1>21, <2>1, <2>2
<1> QED
  BY <1>9, <1>12, <1>13, <1>17, <1>18, <1>19, <1>20, <1>21

\* Every step keeps the way back.
LEMMA TheWayBackStays ==
  ASSUME FInv, UndoInv, [FoldersNext]_<<vars, folderVars>>
  PROVE  UndoInv'
<1>1. WorldOK /\ WorkOK
  BY InParts
<1>2. ASSUME work' = Nobody \/ work' = work, UNCHANGED <<undo, base, replaced>>, strange \subseteq strange',
             \A p \in Place \ strange' : link'[p] = link[p],
             \A a \in Starter \ strange' : a \in starts' <=> a \in starts
      PROVE  UndoInv'
  <2>1. \A w \in Worker : AsBefore(w)
    BY <1>1, <1>2, DisturbedIsAsBefore
  <2> QED
    BY <1>1, <1>2, <2>1, OthersKeepTheWayBack
<1>3. ASSUME ~Guarded, Forgotten, UNCHANGED <<link, starts, strange, work>> PROVE UndoInv'
  BY <1>3, ForgettingKeepsTheWayBack
<1>4. CASE SomeoneElseActs
  BY <1>2, <1>3, <1>4, OthersAreTold
<1>5. CASE \/ \E addons \in (SUBSET Standing) \ {{}} : Delete(addons)
           \/ RemoveTheFolder \/ Deleted
           \/ \E p \in Place : RemoveTheLink(p) \/ DisableALink(p)
           \/ \E from \in Standing, to \in gone : MoveTo(from, to)
           \/ MoveTheFolder \/ Relink \/ AdoptTheReorganization
  BY <1>2, <1>3, <1>5, OthersAreTold
<1>6. CASE Next
  <2>1. CASE SomeoneAsks
    BY <2>1, AskingIsSound, AskingKeepsTheWayBack
  <2>2. ASSUME NEW w \in Worker, TakeTheGuard(w) \/ StepSucceeds(w) \/ StepFails(w) \/ End(w) PROVE UndoInv'
    BY <2>2, TakingTheGuardKeepsTheWayBack, AStepKeepsTheWayBack, EndingKeepsTheWayBack
  <2>3. ASSUME ForgetUndo PROVE UndoInv'
    BY <1>3, <2>3 DEF ForgetUndo, world
  <2> QED
    BY <1>4, <1>6, <2>1, <2>2, <2>3 DEF Next
<1>7. CASE UNCHANGED <<vars, folderVars>>
  BY <1>2, <1>7 DEF vars, world, ghosts
<1> QED
  BY <1>4, <1>5, <1>6, <1>7 DEF FoldersNext, BatchesGoOn

\* At first there is nothing to undo.
LEMMA TheWayBackAtFirst ==
  ASSUME FoldersInit
  PROVE  UndoInv
<1>1. undo = <<>> /\ base = None /\ \A w \in Worker : work[w] = None
  BY DEF FoldersInit, Init
<1> QED
  BY <1>1, EntriesOfNoStep DEF UndoInv, OneRuns, Running

\* When an undo has no step left, what it led to is there.
LEMMA AtTheEndItIsBack ==
  ASSUME FInv, UndoInv
  PROVE  UndoPutsTheLastBatchBack
<1> SUFFICES ASSUME NEW w \in Worker, Ends(w), work[w].kind = "undo", base # None
             PROVE  /\ \A p \in Place \ (strange \cup {s.place : s \in work[w].unlucky}) :
                         link[p] = base.link[p] \/ (p \in replaced /\ link[p] = None)
                    /\ \A a \in Starter \ (strange \cup {s.addon : s \in work[w].unlucky}) :
                         a \in starts <=> a \in base.starts
  BY DEF UndoPutsTheLastBatchBack
<1>1. LeadsBack(<<>>, base, replaced, work[w].unlucky)
  BY DEF Ends, UndoInv, Running, RunsBack
<1>2. \A p : PutsBack(<<>>, p, link[p], base.link[p], replaced) <=>
               link[p] = base.link[p] \/ (p \in replaced /\ link[p] = None)
  BY PutBackByNoStep
<1>3. \A a : ~TurnsOn(<<>>, a)
  BY EntriesOfNoStep
<1> QED
  BY <1>1, <1>2, <1>3 DEF LeadsBack

\* When an undo has run, every place and every startup entry is as the batch it undoes found it,
\* but for what others changed, what a step took by mistake, the dead links the batch replaced and
\* the steps of the undo that were refused (ProfileService::RunTheUndo, RunAsOneBatch, Inverse).
THEOREM TheLastBatchComesUndone == FoldersSpec => []UndoPutsTheLastBatchBack
<1>1. FoldersInit => FInv /\ UndoInv
  BY TheTypesAtFirst, TheWayBackAtFirst
<1>2. FInv /\ UndoInv /\ [FoldersNext]_<<vars, folderVars>> => FInv' /\ UndoInv'
  BY TheTypesStay, TheWayBackStays
<1>3. FInv /\ UndoInv => UndoPutsTheLastBatchBack
  BY AtTheEndItIsBack
<1> QED
  BY <1>1, <1>2, <1>3, PTL DEF FoldersSpec
=============================================================================
