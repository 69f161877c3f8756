--------------------------- MODULE StartupProofs ---------------------------
(***************************************************************************)
(* That what starts with the simulator is never lost: proved for any         *)
(* profiles, paths and texts, any files to start from and any bounds, with   *)
(* other programs writing the same files.                                   *)
(*                                                                         *)
(* TInv types the state.  FileInv adds that what a thread read and holds     *)
(* back is still there.  On it stand LostInv (what is owed is kept),         *)
(* NamedInv (the presets name what is in the files), ReturnInv (a return     *)
(* leads back) and UndoInv (the undo finds what it needs).                   *)
(***************************************************************************)
EXTENDS Startup, FiniteSetTheorems, SequenceTheorems, WellFoundedInduction, TLAPS

\* Every set of positions has a first and a last one.
LEMMA FirstAndLast ==
  ASSUME NEW n \in Nat, NEW I \in SUBSET (1..n), I # {}
  PROVE  /\ Min(I) \in I /\ \A j \in I : Min(I) <= j
         /\ Max(I) \in I /\ \A j \in I : Max(I) >= j
<1>1. ASSUME NEW J \in SUBSET Nat, J # {} PROVE \E x \in J : \A y \in J : x <= y
  <2>1. PICK x \in J : \A y \in J : <<y, x>> \notin OpToRel(<, Nat)
    BY <1>1, NatLessThanWellFounded, WFMin
  <2>2. \A y \in J : ~(y < x)
    BY <1>1, <2>1 DEF OpToRel
  <2>3. \A y \in J : x <= y
    BY <1>1, <2>2
  <2> QED
    BY <2>3
<1>2. \E x \in I : \A y \in I : x <= y
  <2>1. I \in SUBSET Nat
    OBVIOUS
  <2> QED
    BY <1>1, <2>1
<1>3. \E x \in I : \A y \in I : x >= y
  <2> DEFINE J == {n - i : i \in I}
  <2>1. J \in SUBSET Nat
    OBVIOUS
  <2>2. J # {}
    OBVIOUS
  <2>3. PICK m \in J : \A y \in J : m <= y
    BY <1>1, <2>1, <2>2
  <2>4. PICK x \in I : m = n - x
    BY <2>3
  <2>5. \A y \in I : n - x <= n - y
    BY <2>3, <2>4
  <2>6. \A y \in I : x >= y
    BY <2>5
  <2> QED
    BY <2>6
<1> QED
  BY <1>2, <1>3 DEF Min, Max

\* PositionOf is where a path comes first in a document, or zero.
LEMMA PositionIsFirst ==
  ASSUME NEW doc \in Seq(Entry), NEW p
  PROVE  /\ PositionOf(p, doc) \in 0..Len(doc)
         /\ PositionOf(p, doc) = 0 => \A i \in 1..Len(doc) : doc[i].path # p
         /\ PositionOf(p, doc) # 0 => /\ doc[PositionOf(p, doc)].path = p
                                      /\ \A i \in 1..Len(doc) : doc[i].path = p => PositionOf(p, doc) <= i
<1> DEFINE I == {i \in 1..Len(doc) : doc[i].path = p}
<1>1. PositionOf(p, doc) = IF I # {} THEN Min(I) ELSE 0
  BY DEF PositionOf, SelectInSeq
<1>2. Len(doc) \in Nat /\ I \in SUBSET (1..Len(doc))
  OBVIOUS
<1>3. I # {} => Min(I) \in I /\ \A j \in I : Min(I) <= j
  BY <1>2, FirstAndLast
<1> QED
  BY <1>1, <1>2, <1>3

\* NewestAt is where a path comes last among the kept entries, or zero.
LEMMA NewestIsLast ==
  ASSUME NEW kept \in Seq(Kept), NEW p
  PROVE  /\ NewestAt(p, kept) \in 0..Len(kept)
         /\ NewestAt(p, kept) = 0 => \A i \in 1..Len(kept) : kept[i].path # p
         /\ NewestAt(p, kept) # 0 => /\ kept[NewestAt(p, kept)].path = p
                                     /\ \A i \in 1..Len(kept) : kept[i].path = p => NewestAt(p, kept) >= i
<1> DEFINE I == {i \in 1..Len(kept) : kept[i].path = p}
<1>1. NewestAt(p, kept) = IF I # {} THEN Max(I) ELSE 0
  BY DEF NewestAt, SelectLastInSeq
<1>2. Len(kept) \in Nat /\ I \in SUBSET (1..Len(kept))
  OBVIOUS
<1>3. I # {} => Max(I) \in I /\ \A j \in I : Max(I) >= j
  BY <1>2, FirstAndLast
<1> QED
  BY <1>1, <1>2, <1>3

\* What is at each position when one is taken out, or put in.
LEMMA TakenOut ==
  ASSUME NEW S, NEW s \in Seq(S), NEW i \in 1..Len(s)
  PROVE  /\ RemoveAt(s, i) \in Seq(S) /\ Len(RemoveAt(s, i)) = Len(s) - 1
         /\ \A j \in 1..(Len(s) - 1) : RemoveAt(s, i)[j] = IF j < i THEN s[j] ELSE s[j + 1]
<1> DEFINE a == SubSeq(s, 1, i - 1)
           b == SubSeq(s, i + 1, Len(s))
<1>1. /\ a \in Seq(S) /\ Len(a) = i - 1
      /\ \A j \in 1..(i - 1) : a[j] = s[j]
  BY SubSeqProperties, ElementOfSeq
<1>2. /\ b \in Seq(S) /\ Len(b) = Len(s) - i
      /\ \A j \in 1..(Len(s) - i) : b[j] = s[i + j]
  BY SubSeqProperties, ElementOfSeq
<1> HIDE DEF a, b
<1>3. RemoveAt(s, i) = a \o b
  BY DEF RemoveAt, a, b
<1>4. /\ a \o b \in Seq(S) /\ Len(a \o b) = Len(a) + Len(b)
      /\ \A j \in 1..(Len(a) + Len(b)) : (a \o b)[j] = IF j <= Len(a) THEN a[j] ELSE b[j - Len(a)]
  BY <1>1, <1>2, ConcatProperties
<1> QED
  BY <1>1, <1>2, <1>3, <1>4

\* What is put in at a place of a sequence, and what moves up.
LEMMA PutIn ==
  ASSUME NEW S, NEW s \in Seq(S), NEW i \in 1..Len(s), NEW e \in S
  PROVE  /\ InsertAt(s, i, e) \in Seq(S) /\ Len(InsertAt(s, i, e)) = Len(s) + 1
         /\ \A j \in 1..(Len(s) + 1) :
              InsertAt(s, i, e)[j] = IF j < i THEN s[j] ELSE IF j = i THEN e ELSE s[j - 1]
<1> DEFINE a == SubSeq(s, 1, i - 1)
           b == SubSeq(s, i, Len(s))
           m == a \o <<e>>
<1>1. /\ a \in Seq(S) /\ Len(a) = i - 1
      /\ \A j \in 1..(i - 1) : a[j] = s[j]
  BY SubSeqProperties, ElementOfSeq
<1>2. /\ b \in Seq(S) /\ Len(b) = Len(s) - i + 1
      /\ \A j \in 1..(Len(s) - i + 1) : b[j] = s[i + j - 1]
  BY SubSeqProperties, ElementOfSeq
<1>3. <<e>> \in Seq(S) /\ Len(<<e>>) = 1 /\ <<e>>[1] = e
  OBVIOUS
<1> HIDE DEF a, b
<1>4. /\ m \in Seq(S) /\ Len(m) = i
      /\ \A j \in 1..i : m[j] = IF j < i THEN s[j] ELSE e
  <2>1. /\ m \in Seq(S) /\ Len(m) = Len(a) + Len(<<e>>)
        /\ \A j \in 1..(Len(a) + Len(<<e>>)) : m[j] = IF j <= Len(a) THEN a[j] ELSE <<e>>[j - Len(a)]
    BY <1>1, <1>3, ConcatProperties
  <2>2. Len(a) + Len(<<e>>) = i
    BY <1>1, <1>3
  <2>3. ASSUME NEW j \in 1..i PROVE m[j] = IF j < i THEN s[j] ELSE e
    BY <1>1, <1>3, <2>1, <2>2
  <2> QED
    BY <2>1, <2>2, <2>3
<1>5. InsertAt(s, i, e) = m \o b
  BY DEF InsertAt, a, b
<1> HIDE DEF m
<1>6. /\ m \o b \in Seq(S) /\ Len(m \o b) = Len(m) + Len(b)
      /\ \A j \in 1..(Len(m) + Len(b)) : (m \o b)[j] = IF j <= Len(m) THEN m[j] ELSE b[j - Len(m)]
  BY <1>2, <1>4, ConcatProperties
<1> QED
  BY SMTT(30), <1>2, <1>4, <1>5, <1>6

\* A path is in a document when an entry has it.
LEMMA HasIsSomewhere ==
  ASSUME NEW doc \in Seq(Entry), NEW p
  PROVE  Has(doc, p) <=> \E i \in 1..Len(doc) : doc[i].path = p
BY PositionIsFirst DEF Has

\* A path that a document has is where it is found.
LEMMA PositionOfIt ==
  ASSUME NEW doc \in Seq(Entry), NEW p, Has(doc, p)
  PROVE  PositionOf(p, doc) \in 1..Len(doc) /\ doc[PositionOf(p, doc)].path = p
BY PositionIsFirst DEF Has

\* A kept entry without its neighbour is an entry that says the same.
LEMMA PlainIsAnEntry ==
  ASSUME NEW e \in Kept \cup Entry
  PROVE  Plain(e) \in Entry /\ Plain(e).path = e.path /\ Plain(e).text = e.text /\ Plain(e).on = e.on
BY DEF Plain, Kept, Entry

-----------------------------------------------------------------------------
(* What a change makes of a document. *)

\* A change as the gestures and the presets make them.
WellFormed(c) == /\ c \in Change
                 /\ c.kind \in {"add", "edit"} => c.text \in Text
                 /\ c.kind # "edit" => c.to = c.path

\* The entry a change leaves behind: at the end of it, or where it was.
LEMMA RestoredHasIt ==
  ASSUME NEW doc \in Seq(Entry), NEW e \in Kept
  PROVE  /\ Restored(doc, e) \in Seq(Entry)
         /\ Len(Restored(doc, e)) = Len(doc) + 1
         /\ \E i \in 1..Len(Restored(doc, e)) : Restored(doc, e)[i] = Plain(e)
         /\ \A j \in 1..Len(doc) : \E i \in 1..Len(Restored(doc, e)) : Restored(doc, e)[i] = doc[j]
<1> DEFINE n == Restored(doc, e)
<1>0. Plain(e) \in Entry
  BY PlainIsAnEntry
<1>1. CASE e.next # None /\ Has(doc, e.next)
  <2> DEFINE i == PositionOf(e.next, doc)
  <2>1. n = InsertAt(doc, i, Plain(e)) /\ i \in 1..Len(doc)
    BY <1>1, PositionOfIt DEF Restored
  <2> HIDE DEF n, i
  <2>2. /\ n \in Seq(Entry) /\ Len(n) = Len(doc) + 1
        /\ \A j \in 1..(Len(doc) + 1) : n[j] = IF j < i THEN doc[j] ELSE IF j = i THEN Plain(e) ELSE doc[j - 1]
    BY <1>0, <2>1, PutIn
  <2>3. n[i] = Plain(e)
    BY <2>1, <2>2
  <2>4. ASSUME NEW j \in 1..Len(doc) PROVE \E x \in 1..Len(n) : n[x] = doc[j]
    <3>1. CASE j < i
      BY <3>1, <2>1, <2>2
    <3>2. CASE j >= i
      <4>1. n[j + 1] = doc[j]
        BY <3>2, <2>1, <2>2
      <4> QED
        BY <4>1, <2>2
    <3> QED
      BY <3>1, <3>2, <2>1
  <2> QED
    BY <2>1, <2>2, <2>3, <2>4 DEF n
<1>2. CASE ~(e.next # None /\ Has(doc, e.next))
  <2>1. n = Append(doc, Plain(e))
    BY <1>2 DEF Restored
  <2> QED
    BY <1>0, <2>1
<1> QED
  BY <1>1, <1>2

\* An entry that is switched or edited is an entry still.
LEMMA EntriesStayEntries ==
  ASSUME NEW e \in Entry, NEW b \in BOOLEAN, NEW p \in Path, NEW t \in Text
  PROVE  /\ [e EXCEPT !.on = b] \in Entry
         /\ [e EXCEPT !.on = b].path = e.path /\ [e EXCEPT !.on = b].text = e.text /\ [e EXCEPT !.on = b].on = b
         /\ [e EXCEPT !.path = p, !.text = t] \in Entry
         /\ [e EXCEPT !.path = p, !.text = t].path = p
         /\ [e EXCEPT !.path = p, !.text = t].text = t
         /\ [e EXCEPT !.path = p, !.text = t].on = e.on
BY DEF Entry

\* A change that is not refused finds what it is of.
LEMMA WhatItIsOf ==
  ASSUME NEW doc \in Seq(Entry), NEW kept \in Seq(Kept), NEW c, WellFormed(c), ~Refuses(doc, kept, c)
  PROVE  /\ c.kind \in {"switch", "remove", "edit"} =>
              /\ PositionOf(c.path, doc) \in 1..Len(doc)
              /\ doc[PositionOf(c.path, doc)].path = c.path
              /\ doc[PositionOf(c.path, doc)] \in Entry
         /\ c.kind = "restore" =>
              /\ NewestAt(c.path, kept) \in 1..Len(kept)
              /\ kept[NewestAt(c.path, kept)].path = c.path
              /\ kept[NewestAt(c.path, kept)] \in Kept
<1>1. CASE c.kind \in {"switch", "remove", "edit"}
  <2>1. Has(doc, c.path)
    BY <1>1 DEF Refuses
  <2> QED
    BY <1>1, <2>1, PositionOfIt, ElementOfSeq
<1>2. CASE c.kind = "restore"
  BY <1>2, NewestIsLast, ElementOfSeq DEF Refuses
<1> QED
  BY <1>1, <1>2

\* A change that is not refused makes a document of a document.
LEMMA RewrittenIsADocument ==
  ASSUME NEW doc \in Seq(Entry), NEW kept \in Seq(Kept), NEW c, WellFormed(c), ~Refuses(doc, kept, c)
  PROVE  Rewritten(doc, kept, c) \in Seq(Entry)
<1> DEFINE i == PositionOf(c.path, doc)
           n == Rewritten(doc, kept, c)
<1>0. c.path \in Path /\ c.to \in Path /\ c.on \in BOOLEAN /\ (c.kind \in {"add", "edit"} => c.text \in Text)
  BY DEF WellFormed, Change
<1>1. CASE c.kind = "switch"
  <2>1. i \in 1..Len(doc) /\ doc[i] \in Entry
    BY <1>1, WhatItIsOf
  <2>2. n = [doc EXCEPT ![i] = [doc[i] EXCEPT !.on = c.on]]
    BY <1>1 DEF Rewritten
  <2>3. [doc[i] EXCEPT !.on = c.on] \in Entry
    BY <1>0, <2>1 DEF Entry
  <2> QED
    BY <2>1, <2>2, <2>3, ExceptSeq
<1>2. CASE c.kind = "add"
  <2>1. [path |-> c.path, text |-> c.text, on |-> TRUE] \in Entry
    BY <1>0, <1>2 DEF Entry
  <2>2. n = Append(doc, [path |-> c.path, text |-> c.text, on |-> TRUE])
    BY <1>2 DEF Rewritten
  <2> QED
    BY <2>1, <2>2, AppendProperties
<1>3. CASE c.kind = "remove"
  BY <1>3, WhatItIsOf, TakenOut DEF Rewritten
<1>4. CASE c.kind = "edit"
  <2>1. i \in 1..Len(doc) /\ doc[i] \in Entry
    BY <1>4, WhatItIsOf
  <2>2. n = [doc EXCEPT ![i] = [doc[i] EXCEPT !.path = c.to, !.text = c.text]]
    BY <1>4 DEF Rewritten
  <2>3. [doc[i] EXCEPT !.path = c.to, !.text = c.text] \in Entry
    BY <1>0, <1>4, <2>1 DEF Entry
  <2> QED
    BY <2>1, <2>2, <2>3, ExceptSeq
<1>5. CASE c.kind = "restore"
  BY <1>5, WhatItIsOf, RestoredHasIt DEF Rewritten
<1> QED
  BY <1>1, <1>2, <1>3, <1>4, <1>5 DEF WellFormed, Change

\* Every path stays in the document but the one that is removed or moved, and the
\* path the change leads to is there, unless it is removed.
LEMMA PathsStay ==
  ASSUME NEW doc \in Seq(Entry), NEW kept \in Seq(Kept), NEW c, WellFormed(c), ~Refuses(doc, kept, c)
  PROVE  /\ \A p \in Path : Has(doc, p) => Has(Rewritten(doc, kept, c), p) \/ (p = c.path /\ Takes(c))
         /\ c.kind # "remove" => Has(Rewritten(doc, kept, c), c.to)
         /\ c.kind \in {"edit", "restore"} =>
              \E j \in 1..Len(Rewritten(doc, kept, c)) :
                /\ Rewritten(doc, kept, c)[j].path = c.to
                /\ Rewritten(doc, kept, c)[j].text = IF c.kind = "edit" THEN c.text
                                                     ELSE kept[NewestAt(c.path, kept)].text
<1> DEFINE i == PositionOf(c.path, doc)
           n == Rewritten(doc, kept, c)
<1>0. c.path \in Path /\ c.to \in Path /\ c.on \in BOOLEAN /\ (c.kind \in {"add", "edit"} => c.text \in Text)
  BY DEF WellFormed, Change
<1>n. n \in Seq(Entry)
  BY RewrittenIsADocument
<1>h. /\ \A p : Has(doc, p) <=> \E j \in 1..Len(doc) : doc[j].path = p
      /\ \A p : Has(n, p) <=> \E j \in 1..Len(n) : n[j].path = p
  BY <1>n, HasIsSomewhere
<1> HIDE DEF i, n
<1>1. CASE c.kind = "switch"
  <2>1. i \in 1..Len(doc) /\ doc[i] \in Entry /\ doc[i].path = c.path /\ c.to = c.path
    BY <1>1, WhatItIsOf DEF i, WellFormed
  <2>2. n = [doc EXCEPT ![i] = [doc[i] EXCEPT !.on = c.on]]
    BY <1>1 DEF Rewritten, i, n
  <2>3. [doc[i] EXCEPT !.on = c.on] \in Entry /\ [doc[i] EXCEPT !.on = c.on].path = c.path
    BY <1>0, <2>1 DEF Entry
  <2>4. Len(n) = Len(doc) /\ \A j \in 1..Len(doc) : n[j].path = doc[j].path
    BY <2>1, <2>2, <2>3, ExceptSeq
  <2> QED
    BY <1>h, <2>1, <2>4, <1>1 DEF n
<1>2. CASE c.kind = "add"
  <2> DEFINE e == [path |-> c.path, text |-> c.text, on |-> TRUE]
  <2>1. e \in Entry /\ e.path = c.path /\ c.to = c.path
    BY <1>0, <1>2 DEF Entry, WellFormed
  <2>2. n = Append(doc, e)
    BY <1>2 DEF Rewritten, n
  <2> HIDE DEF e
  <2>3. Len(n) = Len(doc) + 1 /\ n[Len(doc) + 1] = e /\ \A j \in 1..Len(doc) : n[j] = doc[j]
    BY <2>1, <2>2, AppendProperties
  <2> QED
    BY <1>h, <2>1, <2>3, <1>2 DEF n
<1>3. CASE c.kind = "remove"
  <2>1. i \in 1..Len(doc) /\ doc[i].path = c.path
    BY <1>3, WhatItIsOf DEF i
  <2>2. n = RemoveAt(doc, i)
    BY <1>3 DEF Rewritten, i, n
  <2>3. Len(n) = Len(doc) - 1 /\ \A j \in 1..(Len(doc) - 1) : n[j] = IF j < i THEN doc[j] ELSE doc[j + 1]
    BY <2>1, <2>2, TakenOut
  <2>4. ASSUME NEW p \in Path, p # c.path, NEW j \in 1..Len(doc), doc[j].path = p
        PROVE  \E k \in 1..Len(n) : n[k].path = p
    <3>1. CASE j < i
      BY <3>1, <2>1, <2>3, <2>4
    <3>2. CASE j > i
      <4>1. n[j - 1] = doc[j] /\ j - 1 \in 1..Len(n)
        BY <3>2, <2>1, <2>3
      <4> QED
        BY <4>1, <2>4
    <3> QED
      BY <3>1, <3>2, <2>1, <2>4
  <2> QED
    BY <1>h, <2>4, <1>3 DEF n, Takes
<1>4. CASE c.kind = "edit"
  <2>1. i \in 1..Len(doc) /\ doc[i] \in Entry /\ doc[i].path = c.path
    BY <1>4, WhatItIsOf DEF i
  <2> DEFINE e == [doc[i] EXCEPT !.path = c.to, !.text = c.text]
  <2>2. n = [doc EXCEPT ![i] = e]
    BY <1>4 DEF Rewritten, i, n
  <2>3. e \in Entry /\ e.path = c.to /\ e.text = c.text
    BY <1>0, <1>4, <2>1 DEF Entry
  <2> HIDE DEF e
  <2>4. Len(n) = Len(doc) /\ n[i] = e /\ \A j \in 1..Len(doc) : j # i => n[j] = doc[j]
    BY <2>1, <2>2, <2>3, ExceptSeq
  <2>5. ASSUME NEW p \in Path, NEW j \in 1..Len(doc), doc[j].path = p, ~(p = c.path /\ Takes(c))
        PROVE  \E k \in 1..Len(n) : n[k].path = p
    <3>1. CASE j = i
      <4>1. n[i].path = p
        BY <3>1, <2>1, <2>3, <2>4, <2>5, <1>4 DEF Takes, Moves
      <4> QED
        BY <4>1, <2>1, <2>4
    <3>2. CASE j # i
      BY <3>2, <2>4, <2>5
    <3> QED
      BY <3>1, <3>2
  <2> QED
    BY <1>h, <2>1, <2>3, <2>4, <2>5, <1>4 DEF n
<1>5. CASE c.kind = "restore"
  <2> DEFINE e == kept[NewestAt(c.path, kept)]
  <2>1. e \in Kept /\ e.path = c.path /\ c.to = c.path
    BY <1>5, WhatItIsOf DEF WellFormed
  <2>2. n = Restored(doc, e)
    BY <1>5 DEF Rewritten, n
  <2>3. Plain(e).path = c.path /\ Plain(e).text = e.text
    BY <2>1 DEF Plain
  <2> HIDE DEF e
  <2>4. /\ \E j \in 1..Len(n) : n[j] = Plain(e)
        /\ \A j \in 1..Len(doc) : \E k \in 1..Len(n) : n[k] = doc[j]
    BY <2>1, <2>2, RestoredHasIt
  <2>5. \E j \in 1..Len(n) : n[j].path = c.to /\ n[j].text = e.text
    BY <2>1, <2>3, <2>4
  <2>6. \A p : Has(doc, p) => Has(n, p)
    BY <1>h, <2>4
  <2> QED
    BY <1>h, <2>5, <2>6, <1>5 DEF n, e
<1> QED
  BY <1>1, <1>2, <1>3, <1>4, <1>5 DEF WellFormed, Change

\* Dropping takes the newest entry of a path out of the kept ones and no other.
LEMMA WhatIsDropped ==
  ASSUME NEW kept \in Seq(Kept), NEW p
  PROVE  /\ Dropped(kept, p) \in Seq(Kept)
         /\ \A j \in 1..Len(kept) :
              \/ j = NewestAt(p, kept) /\ kept[j].path = p
              \/ \E k \in 1..Len(Dropped(kept, p)) : Dropped(kept, p)[k] = kept[j]
<1> DEFINE i == NewestAt(p, kept)
           n == Dropped(kept, p)
<1>1. CASE i = 0
  <2>1. n = kept
    BY <1>1 DEF Dropped
  <2> QED
    BY <2>1
<1>2. CASE i # 0
  <2>1. i \in 1..Len(kept) /\ kept[i].path = p
    BY <1>2, NewestIsLast
  <2>2. n = RemoveAt(kept, i)
    BY <1>2 DEF Dropped
  <2> HIDE DEF n, i
  <2>3. /\ n \in Seq(Kept) /\ Len(n) = Len(kept) - 1
        /\ \A j \in 1..(Len(kept) - 1) : n[j] = IF j < i THEN kept[j] ELSE kept[j + 1]
    BY <2>1, <2>2, TakenOut
  <2>4. ASSUME NEW j \in 1..Len(kept), j # i PROVE \E k \in 1..Len(n) : n[k] = kept[j]
    <3>1. CASE j < i
      BY <3>1, <2>1, <2>3, <2>4
    <3>2. CASE j > i
      <4>1. n[j - 1] = kept[j] /\ j - 1 \in 1..Len(n)
        BY <3>2, <2>1, <2>3
      <4> QED
        BY <4>1, <2>4
    <3> QED
      BY <3>1, <3>2, <2>1, <2>4
  <2> QED
    BY <2>1, <2>3, <2>4 DEF n, i
<1> QED
  BY <1>1, <1>2

\* Dropping the newest kept at a path leaves every other kept entry.
LEMMA WhatIsLeft ==
  ASSUME NEW kept \in Seq(Kept), NEW p, NEW e \in ToSet(kept), ~(e = kept[NewestAt(p, kept)] /\ e.path = p)
  PROVE  e \in ToSet(Dropped(kept, p))
<1> DEFINE n == Dropped(kept, p)
<1>1. PICK j \in 1..Len(kept) : e = kept[j]
  BY LenProperties DEF ToSet
<1>2. n \in Seq(Kept) /\ \E k \in 1..Len(n) : n[k] = kept[j]
  BY <1>1, WhatIsDropped
<1> HIDE DEF n
<1> QED
  BY <1>1, <1>2, LenProperties DEF ToSet, n

\* Dropping the entry that was kept last gives back what was kept before it.
LEMMA DroppedAgain ==
  ASSUME NEW kept \in Seq(Kept), NEW e \in Kept
  PROVE  Dropped(Append(kept, e), e.path) = kept
<1> DEFINE s == Append(kept, e)
           n == Len(kept) + 1
<1>1. s \in Seq(Kept) /\ Len(s) = n /\ s[n] = e /\ \A j \in 1..Len(kept) : s[j] = kept[j]
  BY AppendProperties
<1> HIDE DEF s
<1>2. NewestAt(e.path, s) = n
  BY <1>1, NewestIsLast
<1>3. Dropped(s, e.path) = RemoveAt(s, n)
  BY <1>2 DEF Dropped
<1>4. /\ RemoveAt(s, n) \in Seq(Kept) /\ Len(RemoveAt(s, n)) = Len(kept)
      /\ \A j \in 1..Len(kept) : RemoveAt(s, n)[j] = kept[j]
  <2>1. n \in 1..Len(s) /\ Len(s) - 1 = Len(kept)
    BY <1>1
  <2>2. /\ RemoveAt(s, n) \in Seq(Kept) /\ Len(RemoveAt(s, n)) = Len(s) - 1
        /\ \A j \in 1..(Len(s) - 1) : RemoveAt(s, n)[j] = IF j < n THEN s[j] ELSE s[j + 1]
    BY <1>1, <2>1, TakenOut
  <2> QED
    BY <1>1, <2>1, <2>2
<1>5. RemoveAt(s, n) = kept
  BY <1>4, SeqEqual
<1> QED
  BY <1>3, <1>5 DEF s

\* What is kept of an entry is that entry, and the one it stood before.
LEMMA WhatIsTaken ==
  ASSUME NEW doc \in Seq(Entry), NEW p, Has(doc, p)
  PROVE  /\ TakenFrom(doc, p) \in Kept
         /\ TakenFrom(doc, p).path = p
         /\ TakenFrom(doc, p).text = EntryAt(doc, p).text
         /\ TakenFrom(doc, p).next = IF PositionOf(p, doc) < Len(doc) THEN doc[PositionOf(p, doc) + 1].path ELSE None
         /\ EntryAt(doc, p) \in [path : Path, text : Text] /\ EntryAt(doc, p).path = p
         /\ Plain(TakenFrom(doc, p)) = doc[PositionOf(p, doc)]
<1> DEFINE i == PositionOf(p, doc)
<1>1. i \in 1..Len(doc) /\ doc[i].path = p /\ doc[i] \in Entry
  BY PositionOfIt, ElementOfSeq
<1>2. i < Len(doc) => doc[i + 1] \in Entry
  BY <1>1, ElementOfSeq
<1>3. doc[i].path \in Path /\ doc[i].text \in Text /\ doc[i].on \in BOOLEAN
      /\ doc[i] = [path |-> doc[i].path, text |-> doc[i].text, on |-> doc[i].on]
  BY <1>1 DEF Entry
<1>4. (IF i < Len(doc) THEN doc[i + 1].path ELSE None) \in Maybe(Path)
  BY <1>2 DEF Maybe, Entry
<1> HIDE DEF i
<1>5. TakenFrom(doc, p) = [path |-> doc[i].path, text |-> doc[i].text, on |-> doc[i].on,
                           next |-> IF i < Len(doc) THEN doc[i + 1].path ELSE None]
  BY DEF TakenFrom, i
<1>6. EntryAt(doc, p) = [path |-> doc[i].path, text |-> doc[i].text]
  BY DEF EntryAt, i
<1> DEFINE x == IF i < Len(doc) THEN doc[i + 1].path ELSE None
<1>7. x \in Maybe(Path)
  BY <1>4
<1> HIDE DEF x
<1>8. TakenFrom(doc, p) = [path |-> doc[i].path, text |-> doc[i].text, on |-> doc[i].on, next |-> x]
  BY <1>5 DEF x
<1> QED
  BY <1>1, <1>3, <1>6, <1>7, <1>8 DEF Kept, Plain, i, x

-----------------------------------------------------------------------------
(* The type invariant. *)

ShapeOf == Seq(Path \X Text)

KeptTypes ==
    /\ file \in [Profile -> Seq(Entry)] /\ keeping \in [Profile -> Seq(Kept)]
    /\ preset \in [Profile -> Wish] /\ back \in [Profile -> Maybe(Wish)]
    /\ profile \in Profile /\ inUse \in Profile
    /\ undo \in Maybe(ToUndo)
    /\ undo # None /\ undo.effect = "edit" => undo.was \in [path : Path, text : Text]
    /\ doing \in [Thread -> Maybe(InHand)]
    /\ worker \in Maybe(Applying)
    /\ away \in [Profile -> Maybe(SUBSET Path)]
    /\ owed \subseteq EntryOwed /\ gone \subseteq Profile \X Path

\* What a thread has in hand is a change it may make of the file it read, and the
\* preset's thread only switches.
InHandIsSound ==
    \A t \in Thread : doing[t] # None =>
        LET d == doing[t]
        IN  /\ WellFormed(d.change) /\ ~Refuses(d.read, d.kept, d.change)
            /\ d.doc = Rewritten(d.read, d.kept, d.change)
            /\ t = "preset" => d.change.kind = "switch" /\ ~d.written
            /\ t = "user" => d.at = profile /\ d.at = inUse /\ d.purpose # "preset"

\* The lock of Apply: one change at a time, and a switch is of a preset that runs.
OneChangeAtATime ==
    /\ doing["user"] = None \/ doing["preset"] = None
    /\ doing["preset"] # None => worker # None /\ worker.at = "switch"
    /\ worker # None => worker.off \cap worker.on = {}

TInv == KeptTypes /\ InHandIsSound /\ OneChangeAtATime

\* The types the induction carries are more than the type invariant asks.
LEMMA TInvIsEnough == TInv => TypeOK
<1> SUFFICES ASSUME TInv PROVE TypeOK
  OBVIOUS
<1>1. \A p \in Profile : ToSet(file[p]) \subseteq Entry /\ ToSet(keeping[p]) \subseteq Kept
  <2> SUFFICES ASSUME NEW p \in Profile PROVE ToSet(file[p]) \subseteq Entry /\ ToSet(keeping[p]) \subseteq Kept
    OBVIOUS
  <2>1. file[p] \in Seq(Entry) /\ keeping[p] \in Seq(Kept)
    BY DEF TInv, KeptTypes
  <2> QED
    BY <2>1, ElementOfSeq DEF ToSet
<1> QED
  BY <1>1 DEF TInv, KeptTypes, OneChangeAtATime, TypeOK, Thread

\* A file, a keeping and presets to start from are of their types.
LEMMA TInvAtFirst == Init => TInv
BY StartsAssumption
   DEF Init, TInv, KeptTypes, InHandIsSound, OneChangeAtATime, Maybe, Thread

\* The shape of a document says what each entry is, in its order.
LEMMA ShapeIsOne ==
  ASSUME NEW doc \in Seq(Entry)
  PROVE  /\ Shape(doc) \in ShapeOf /\ Len(Shape(doc)) = Len(doc)
         /\ \A i \in 1..Len(doc) : Shape(doc)[i] = <<doc[i].path, doc[i].text>>
<1>1. DOMAIN doc = 1..Len(doc) /\ Len(doc) \in Nat /\ \A i \in 1..Len(doc) : doc[i] \in Entry
  BY LenProperties, ElementOfSeq
<1>2. Shape(doc) \in [1..Len(doc) -> Path \X Text]
  BY <1>1 DEF Shape, Entry
<1>3. Shape(doc) \in ShapeOf
  BY <1>1, <1>2, SeqDef DEF ShapeOf
<1>4. DOMAIN Shape(doc) = 1..Len(Shape(doc)) /\ Len(Shape(doc)) \in Nat
  BY <1>3, LenProperties DEF ShapeOf
<1>5. 1..Len(Shape(doc)) = 1..Len(doc)
  BY <1>1, <1>4 DEF Shape
<1>6. Len(Shape(doc)) = Len(doc)
  <2> DEFINE a == Len(Shape(doc))
             b == Len(doc)
  <2>1. a \in Nat /\ b \in Nat /\ 1..a = 1..b
    BY <1>1, <1>4, <1>5
  <2> HIDE DEF a, b
  <2>2. CASE a < b
    <3>1. b \in 1..b /\ b \notin 1..a
      BY <2>1, <2>2
    <3> QED
      BY <2>1, <3>1
  <2>3. CASE b < a
    <3>1. a \in 1..a /\ a \notin 1..b
      BY <2>1, <2>3
    <3> QED
      BY <2>1, <3>1
  <2> QED
    BY <2>1, <2>2, <2>3 DEF a, b
<1> QED
  BY <1>1, <1>3, <1>6 DEF Shape

\* What Begin leaves in the hand of a thread.
Begun(c, purpose) ==
    [change |-> c, purpose |-> purpose, at |-> inUse, written |-> FALSE, stale |-> FALSE,
     read |-> file[inUse], kept |-> keeping[inUse], doc |-> Rewritten(file[inUse], keeping[inUse], c)]

\* A change that begins holds what was read, and keeps what it takes out.
LEMMA WhatBeginDoes ==
  ASSUME KeptTypes, NEW t \in Thread, NEW c, WellFormed(c), NEW purpose \in {"gesture", "undo", "preset"},
         Begin(t, c, purpose)
  PROVE  /\ Begun(c, purpose) \in InHand
         /\ \A u \in Thread : doing[u] = None
         /\ ~Refuses(file[inUse], keeping[inUse], c)
         /\ doing' \in [Thread -> Maybe(InHand)]
         /\ doing'[t] = Begun(c, purpose) /\ \A u \in Thread : u # t => doing'[u] = None
         /\ keeping' \in [Profile -> Seq(Kept)]
         /\ \A p \in Profile : p # inUse => keeping'[p] = keeping[p]
         /\ keeping'[inUse] = IF Takes(c) THEN Append(keeping[inUse], TakenFrom(file[inUse], c.path))
                              ELSE keeping[inUse]
<1>1. inUse \in Profile /\ file[inUse] \in Seq(Entry) /\ keeping[inUse] \in Seq(Kept)
  BY DEF KeptTypes
<1>2. ~Refuses(file[inUse], keeping[inUse], c) /\ \A u \in Thread : doing[u] = None
  BY DEF Begin, TheFileIsFree
<1>3. Begun(c, purpose) \in InHand
  BY <1>1, <1>2, RewrittenIsADocument DEF Begun, InHand, WellFormed
<1>4. doing' = [doing EXCEPT ![t] = Begun(c, purpose)]
  BY DEF Begin, Begun
<1>5. Takes(c) => TakenFrom(file[inUse], c.path) \in Kept
  <2>1. Takes(c) => Has(file[inUse], c.path)
    BY <1>2 DEF Takes, Moves, Refuses
  <2> QED
    BY <1>1, <2>1, WhatIsTaken
<1>6. keeping' = IF Takes(c) THEN [keeping EXCEPT ![inUse] = Append(@, TakenFrom(file[inUse], c.path))] ELSE keeping
  BY DEF Begin
<1>7. Takes(c) => Append(keeping[inUse], TakenFrom(file[inUse], c.path)) \in Seq(Kept)
  BY <1>1, <1>5, AppendProperties
<1> HIDE DEF Begun
<1>8. /\ doing' \in [Thread -> Maybe(InHand)]
      /\ doing'[t] = Begun(c, purpose) /\ \A u \in Thread : u # t => doing'[u] = None
  BY <1>2, <1>3, <1>4 DEF KeptTypes, Maybe
<1>9. /\ keeping' \in [Profile -> Seq(Kept)]
      /\ \A p \in Profile : p # inUse => keeping'[p] = keeping[p]
      /\ keeping'[inUse] = IF Takes(c) THEN Append(keeping[inUse], TakenFrom(file[inUse], c.path))
                           ELSE keeping[inUse]
  BY <1>1, <1>6, <1>7 DEF KeptTypes
<1> QED
  BY <1>2, <1>3, <1>8, <1>9

\* A change just taken in hand is one of the changes its thread makes.
LEMMA BegunIsSound ==
  ASSUME TInv, NEW t \in Thread, NEW c, WellFormed(c), NEW purpose \in {"gesture", "undo", "preset"},
         Begin(t, c, purpose), UNCHANGED <<profile, inUse>>,
         t = "preset" => c.kind = "switch",
         t = "user" => inUse = profile /\ purpose # "preset"
  PROVE  InHandIsSound'
<1>1. /\ doing'[t] = Begun(c, purpose) /\ \A u \in Thread : u # t => doing'[u] = None
      /\ ~Refuses(file[inUse], keeping[inUse], c)
  BY WhatBeginDoes DEF TInv
<1> SUFFICES ASSUME NEW u \in Thread, doing'[u] # None PROVE
         LET d == doing'[u]
         IN  /\ WellFormed(d.change) /\ ~Refuses(d.read, d.kept, d.change)
             /\ d.doc = Rewritten(d.read, d.kept, d.change)
             /\ u = "preset" => d.change.kind = "switch" /\ ~d.written
             /\ u = "user" => d.at = profile' /\ d.at = inUse' /\ d.purpose # "preset"
  BY DEF InHandIsSound
<1>2. u = t
  BY <1>1
<1> QED
  BY <1>1, <1>2 DEF Begun

\* The changes the gestures make are the changes there are.
LEMMA GesturesAreWellFormed ==
  ASSUME NEW p \in Path, NEW q \in Path, NEW x \in Text, NEW on \in BOOLEAN
  PROVE  /\ WellFormed(AddOf(p, x)) /\ WellFormed(EditOf(p, q, x)) /\ WellFormed(RemoveOf(p))
         /\ WellFormed(RestoreOf(p)) /\ WellFormed(SwitchOf(p, on))
BY DEF AddOf, EditOf, RemoveOf, RestoreOf, SwitchOf, WellFormed, Change, Maybe

\* So are the changes an undo makes.
LEMMA OppositesAreWellFormed ==
  ASSUME KeptTypes, undo # None
  PROVE  WellFormed(OppositeOf(undo))
<1>1. undo \in ToUndo /\ (undo.effect = "edit" => undo.was \in [path : Path, text : Text])
  BY DEF KeptTypes, Maybe
<1>2. undo.path \in Path /\ undo.effect \in {"remove", "restore", "edit"}
      /\ (undo.effect = "edit" => undo.was.path \in Path /\ undo.was.text \in Text)
  BY <1>1 DEF ToUndo
<1> QED
  BY <1>2 DEF OppositeOf, RemoveOf, RestoreOf, EditOf, WellFormed, Change, Maybe


\* What is turned off is on, and what is turned on is not.
LEMMA PlansAreApart ==
  ASSUME NEW wish \in Wish, NEW mode, NEW doc
  PROVE  LET plan == PlanOf(wish, mode, doc)
         IN  plan.off \in SUBSET Path /\ plan.on \in SUBSET Path /\ plan.off \cap plan.on = {}
<1> DEFINE first(p) == doc[PositionOf(p, doc)]
           named(p) == Has(doc, p) /\ wish[p] # None /\ (mode = "disable" => wish[p] = "enable")
           wanted(p) == wish[p] = "enable" /\ mode # "disable"
           unnamed(p) == mode = "replace" /\ wish[p] = None /\ \E e \in ToSet(doc) : e.path = p /\ e.on
           off == {p \in Path : unnamed(p) \/ (named(p) /\ first(p).on /\ ~wanted(p))}
           on == {p \in Path : named(p) /\ ~first(p).on /\ wanted(p)}
<1>1. PlanOf(wish, mode, doc) = [off |-> off, on |-> on]
  BY DEF PlanOf
<1>2. off \cap on = {}
  OBVIOUS
<1> QED
  BY <1>1, <1>2

\* A preset that follows an entry is a preset still.
LEMMA RetargetedIsAWish ==
  ASSUME NEW wish \in Wish, NEW p \in Path, NEW q \in Path
  PROVE  Retargeted(wish, p, q) \in Wish
BY DEF Retargeted, Wish, Maybe

\* What a change leaves to undo and to keep, and what the presets follow.
LEMMA SettledTypes ==
  ASSUME TInv, Settle
  PROVE  /\ undo' \in Maybe(ToUndo)
         /\ undo' # None /\ undo'.effect = "edit" => undo'.was \in [path : Path, text : Text]
         /\ keeping' \in [Profile -> Seq(Kept)]
         /\ preset' \in [Profile -> Wish] /\ back' \in [Profile -> Maybe(Wish)]
<1> DEFINE d == doing["user"]
<1>0. /\ d # None /\ d.written /\ d \in InHand /\ WellFormed(d.change) /\ d.at = profile
      /\ ~Refuses(d.read, d.kept, d.change)
  BY DEF Settle, TInv, KeptTypes, InHandIsSound, Thread, Maybe
<1>1. PICK follows \in BOOLEAN, theReturnFollows \in BOOLEAN, drops \in BOOLEAN :
        /\ FollowInThePresets(d.change, follows, theReturnFollows)
        /\ keeping' = IF drops THEN [keeping EXCEPT ![d.at] = KeepingAfter(d)] ELSE keeping
        /\ undo' = UndoAfter(d)
  BY DEF Settle
<1> HIDE DEF d
<1>2. /\ d.change \in Change /\ d.at \in Profile /\ d.read \in Seq(Entry) /\ d.kept \in Seq(Kept)
      /\ d.doc \in Seq(Entry) /\ d.stale \in BOOLEAN /\ keeping[d.at] \in Seq(Kept)
  BY <1>0 DEF InHand, TInv, KeptTypes
<1>3. KeepingAfter(d) \in Seq(Kept)
  BY <1>2, WhatIsDropped DEF KeepingAfter
<1>4. keeping' \in [Profile -> Seq(Kept)]
  BY <1>1, <1>2, <1>3 DEF TInv, KeptTypes
<1>5. ASSUME NEW effect \in {"remove", "restore", "edit"}, NEW p \in Path,
             NEW was \in Maybe([path : Path, text : Text])
      PROVE  Remembered(d, effect, p, was) \in ToUndo
  <2>1. Shape(d.read) \in ShapeOf /\ Shape(d.doc) \in ShapeOf
    BY <1>2, ShapeIsOne
  <2> QED
    BY <1>2, <2>1 DEF Remembered, ToUndo, ShapeOf, TInv, KeptTypes
<1>6. \A u, p : WithoutTheUndoThatRestores(u, p) \in {u, None}
  BY DEF WithoutTheUndoThatRestores
<1>7. d.change.path \in Path /\ d.change.to \in Path
      /\ d.change.kind \in {"switch", "add", "remove", "edit", "restore"}
  BY <1>2 DEF Change
<1>8. undo \in Maybe(ToUndo) /\ (undo # None /\ undo.effect = "edit" => undo.was \in [path : Path, text : Text])
  BY DEF TInv, KeptTypes
<1>9. /\ undo' \in Maybe(ToUndo)
      /\ undo' # None /\ undo'.effect = "edit" => undo'.was \in [path : Path, text : Text]
  <2>1. CASE d.change.kind = "edit" /\ d.purpose # "undo"
    <3>1. EntryAt(d.read, d.change.path) \in [path : Path, text : Text]
      BY <1>0, <1>2, <2>1, WhatIsTaken DEF Refuses
    <3>2. undo' = Remembered(d, "edit", d.change.to, EntryAt(d.read, d.change.path))
      BY <1>1, <2>1 DEF UndoAfter
    <3>3. undo'.was = EntryAt(d.read, d.change.path)
      BY <3>2 DEF Remembered
    <3> QED
      BY <1>5, <1>7, <3>1, <3>2, <3>3 DEF Maybe
  <2>2. CASE d.purpose = "undo"
    <3>1. undo' = None
      BY <1>1, <1>7, <2>2 DEF UndoAfter
    <3> QED
      BY <3>1 DEF Maybe
  <2>3. CASE d.change.kind = "switch" /\ d.purpose # "undo"
    <3>1. undo' = undo
      BY <1>1, <2>3 DEF UndoAfter
    <3> QED
      BY <1>8, <3>1
  <2>4. CASE d.change.kind \in {"add", "remove"} /\ d.purpose # "undo"
    <3> DEFINE e == IF d.change.kind = "add" THEN "remove" ELSE "restore"
    <3>1. undo' \in {None, Remembered(d, e, d.change.path, None)}
      BY <1>1, <2>4 DEF UndoAfter
    <3>2. Remembered(d, e, d.change.path, None).effect # "edit"
      BY DEF Remembered
    <3>3. Remembered(d, e, d.change.path, None) \in ToUndo
      BY <1>5, <1>7 DEF Maybe
    <3> QED
      BY <3>1, <3>2, <3>3 DEF Maybe
  <2>5. CASE d.change.kind = "restore" /\ d.purpose # "undo"
    <3>1. undo' = WithoutTheUndoThatRestores(undo, d.change.path)
      BY <1>1, <2>5 DEF UndoAfter
    <3> QED
      BY <1>6, <1>8, <3>1 DEF Maybe
  <2> QED
    BY <1>7, <2>1, <2>2, <2>3, <2>4, <2>5
<1>10. preset' \in [Profile -> Wish] /\ back' \in [Profile -> Maybe(Wish)]
  <2>1. \A w \in Wish : Retargeted(w, d.change.path, d.change.to) \in Wish
    BY <1>7, RetargetedIsAWish
  <2> QED
    BY <1>1, <2>1 DEF FollowInThePresets, TInv, KeptTypes, Maybe
<1> QED
  BY <1>4, <1>9, <1>10

\* Another program writes a document of entries, and the program only takes note.
LEMMA ForeignTypes ==
  ASSUME TInv, NEW p \in Profile, ForeignWrite(p)
  PROVE  /\ file' \in [Profile -> Seq(Entry)] /\ gone' \subseteq Profile \X Path
         /\ undo' \in Maybe(ToUndo)
         /\ undo' # None /\ undo'.effect = "edit" => undo'.was \in [path : Path, text : Text]
         /\ doing' \in [Thread -> Maybe(InHand)]
         /\ \A t \in Thread : \/ doing'[t] = doing[t]
                              \/ doing[t] # None /\ doing'[t] = [doing[t] EXCEPT !.stale = TRUE]
<1>1. file[p] \in Seq(Entry)
  BY DEF TInv, KeptTypes
<1>2. /\ file' \in [Profile -> Seq(Entry)]
      /\ gone' \subseteq Profile \X Path
  <2>1. CASE /\ \E e \in TheirEntries : file' = [file EXCEPT ![p] = Append(@, e)]
             /\ gone' = gone
    BY <1>1, <2>1, StartsAssumption, AppendProperties DEF TInv, KeptTypes
  <2>2. ASSUME NEW i \in DOMAIN file[p], file' = [file EXCEPT ![p] = RemoveAt(@, i)],
               gone' = gone \cup {<<p, file[p][i].path>>}
        PROVE  file' \in [Profile -> Seq(Entry)] /\ gone' \subseteq Profile \X Path
    <3>1. i \in 1..Len(file[p]) /\ file[p][i] \in Entry
      BY <1>1, LenProperties, ElementOfSeq
    <3>2. RemoveAt(file[p], i) \in Seq(Entry)
      BY <1>1, <3>1, TakenOut
    <3>3. file[p][i].path \in Path
      BY <3>1 DEF Entry
    <3> QED
      BY <2>2, <3>2, <3>3 DEF TInv, KeptTypes
  <2> QED
    BY <2>1, <2>2 DEF ForeignWrite
<1>3. undo' = IF undo # None /\ undo.profile = p THEN [undo EXCEPT !.quiet = FALSE] ELSE undo
  BY DEF ForeignWrite
<1>4. undo \in Maybe(ToUndo) /\ (undo # None /\ undo.effect = "edit" => undo.was \in [path : Path, text : Text])
  BY DEF TInv, KeptTypes
<1>5. /\ undo' \in Maybe(ToUndo)
      /\ undo' # None /\ undo'.effect = "edit" => undo'.was \in [path : Path, text : Text]
  <2>1. CASE undo # None /\ undo.profile = p
    <3>1. undo \in ToUndo /\ undo' = [undo EXCEPT !.quiet = FALSE]
      BY <1>3, <1>4, <2>1 DEF Maybe
    <3>2. undo' \in ToUndo /\ undo'.effect = undo.effect /\ undo'.was = undo.was
      BY <3>1 DEF ToUndo
    <3> QED
      BY <1>4, <2>1, <3>2 DEF Maybe
  <2>2. CASE ~(undo # None /\ undo.profile = p)
    <3>1. undo' = undo
      BY <1>3, <2>2
    <3> QED
      BY <1>4, <3>1
  <2> QED
    BY <2>1, <2>2
<1>6. doing' = [t \in Thread |-> IF doing[t] # None /\ doing[t].at = p
                                 THEN [doing[t] EXCEPT !.stale = TRUE] ELSE doing[t]]
  BY DEF ForeignWrite
<1>7. \A t \in Thread : doing[t] # None => [doing[t] EXCEPT !.stale = TRUE] \in InHand
  BY DEF TInv, KeptTypes, Maybe, InHand
<1>8. doing' \in [Thread -> Maybe(InHand)]
  BY <1>6, <1>7 DEF TInv, KeptTypes, Maybe
<1> QED
  BY <1>2, <1>5, <1>6, <1>8

\* A thread writes a document of entries.
LEMMA WrittenTypes ==
  ASSUME TInv, NEW t \in Thread, WriteTheFile(t)
  PROVE  /\ file' \in [Profile -> Seq(Entry)] /\ doing' \in [Thread -> Maybe(InHand)]
         /\ away' \in [Profile -> Maybe(SUBSET Path)]
         /\ owed' \subseteq EntryOwed /\ gone' \subseteq Profile \X Path
<1> DEFINE d == doing[t]
<1>1. d # None /\ d \in InHand /\ d.change.path \in Path /\ d.at \in Profile /\ d.doc \in Seq(Entry) /\ d.read \in Seq(Entry)
      /\ ~Refuses(d.read, d.kept, d.change)
  BY DEF WriteTheFile, TInv, KeptTypes, Maybe, InHand, InHandIsSound, Change
<1>2. /\ file' = [file EXCEPT ![d.at] = d.doc]
      /\ owed' = OwedAfter(d)
      /\ gone' = IF d.change.kind = "remove" THEN gone \cup {<<d.at, d.change.path>>} ELSE gone
      /\ doing' = [doing EXCEPT ![t] = IF t = "preset" THEN None ELSE [@ EXCEPT !.written = TRUE]]
      /\ away' = IF t = "user" THEN [away EXCEPT ![d.at] = None] ELSE away
  BY DEF WriteTheFile
<1>3. [d EXCEPT !.written = TRUE] \in InHand
  BY <1>1 DEF InHand
<1>4. d.change.kind = "remove" \/ Moves(d.change) => EntryAt(d.read, d.change.path).text \in Text
  <2>1. d.change.kind = "remove" \/ Moves(d.change) => Has(d.read, d.change.path)
    BY <1>1 DEF Refuses, Moves
  <2>2. d.change.kind = "remove" \/ Moves(d.change) => EntryAt(d.read, d.change.path) \in [path : Path, text : Text]
    BY <1>1, <2>1, WhatIsTaken
  <2> QED
    BY <2>2
<1>5. doing' \in [Thread -> Maybe(InHand)]
  BY <1>2, <1>3 DEF TInv, KeptTypes, Maybe
<1> HIDE DEF d
<1>6. OwedAfter(d) \subseteq EntryOwed
  BY <1>1, <1>4 DEF OwedAfter, EntryOwed, TInv, KeptTypes
<1> QED
  BY <1>1, <1>2, <1>5, <1>6 DEF TInv, KeptTypes, Maybe

\* Every step keeps the types.
LEMMA TInvStays == TInv /\ [Next]_vars => TInv'
<1> SUFFICES ASSUME TInv, [Next]_vars PROVE TInv'
  OBVIOUS
<1> USE DEF TInv
<1>t. Thread = {"user", "preset"}
  BY DEF Thread
<1>1. CASE Gesture
  <2>1. PICK p \in Path, q \in Path, x \in Text : \E c \in {AddOf(p, x), EditOf(p, q, x), RemoveOf(p), RestoreOf(p)} :
          Begin("user", c, "gesture")
    BY <1>1 DEF Gesture
  <2>2. PICK c \in {AddOf(p, x), EditOf(p, q, x), RemoveOf(p), RestoreOf(p)} : Begin("user", c, "gesture")
    BY <2>1
  <2>3. WellFormed(c)
    BY GesturesAreWellFormed
  <2>4. /\ UNCHANGED <<file, preset, back, profile, inUse, worker, away, owed, gone>>
        /\ undo' \in {undo, None} /\ inUse = profile
    BY <1>1 DEF Gesture, UndoOf, MayGesture, ghosts
  <2>5. /\ doing' \in [Thread -> Maybe(InHand)] /\ keeping' \in [Profile -> Seq(Kept)]
        /\ doing'["preset"] = None
    BY <2>2, <2>3, <1>t, WhatBeginDoes
  <2>6. InHandIsSound'
    BY <2>2, <2>3, <2>4, <1>t, BegunIsSound
  <2> QED
    BY <2>4, <2>5, <2>6 DEF KeptTypes, OneChangeAtATime, Maybe
<1>2. CASE Switch
  <2>1. PICK p \in Path, on \in BOOLEAN : Begin("user", SwitchOf(p, on), "gesture")
    BY <1>2 DEF Switch
  <2>2. Text # {} => WellFormed(SwitchOf(p, on))
    BY GesturesAreWellFormed
  <2>3. WellFormed(SwitchOf(p, on))
    BY DEF SwitchOf, WellFormed, Change, Maybe
  <2>4. UNCHANGED <<disk, profile, inUse, undo, worker, away, owed, gone>> /\ inUse = profile
    BY <1>2 DEF Switch, MayGesture, ghosts
  <2>5. doing' \in [Thread -> Maybe(InHand)] /\ doing'["preset"] = None
    BY <2>1, <2>3, <1>t, WhatBeginDoes
  <2>6. InHandIsSound'
    BY <2>1, <2>3, <2>4, <1>t, BegunIsSound
  <2> QED
    BY <2>4, <2>5, <2>6 DEF KeptTypes, OneChangeAtATime, Maybe, disk
<1>3. CASE Undo
  <2>1. Begin("user", OppositeOf(undo), "undo") /\ undo # None
    BY <1>3 DEF Undo
  <2>2. WellFormed(OppositeOf(undo))
    BY <2>1, OppositesAreWellFormed
  <2>4. UNCHANGED <<file, preset, back, profile, inUse, undo, worker, away, owed, gone>> /\ inUse = profile
    BY <1>3 DEF Undo, MayGesture, ghosts
  <2>5. /\ doing' \in [Thread -> Maybe(InHand)] /\ keeping' \in [Profile -> Seq(Kept)]
        /\ doing'["preset"] = None
    BY <2>1, <2>2, <1>t, WhatBeginDoes
  <2>6. InHandIsSound'
    BY <2>1, <2>2, <2>4, <1>t, BegunIsSound
  <2> QED
    BY <2>4, <2>5, <2>6 DEF KeptTypes, OneChangeAtATime, Maybe
<1>4. CASE UndoNothing
  BY <1>4 DEF UndoNothing, KeptTypes, InHandIsSound, OneChangeAtATime, Maybe, disk, ghosts
<1>5. CASE Settle
  <2>1. /\ doing' = [doing EXCEPT !["user"] = None]
        /\ away' = [away EXCEPT ![doing["user"].at] = None]
        /\ UNCHANGED <<file, profile, inUse, worker>>
        /\ doing["user"] # None
    BY <1>5 DEF Settle
  <2>2. owed' \subseteq EntryOwed /\ gone' \subseteq Profile \X Path
    <3> DEFINE d == doing["user"]
    <3>1. d.at \in Profile /\ d.change.path \in Path
      BY <2>1, <1>t DEF KeptTypes, Maybe, InHand, Change
    <3> QED
      BY <1>5, <3>1 DEF Settle, KeptTypes
  <2>3. doing' \in [Thread -> Maybe(InHand)] /\ doing'["user"] = None /\ doing'["preset"] = doing["preset"]
        /\ away' \in [Profile -> Maybe(SUBSET Path)]
    BY <2>1, <1>t DEF KeptTypes, Maybe
  <2> QED
    BY <1>5, <2>1, <2>2, <2>3, <1>t, SettledTypes DEF KeptTypes, InHandIsSound, OneChangeAtATime
<1>6. ASSUME NEW p \in Path, Forget(p) PROVE TInv'
  <2>1. /\ keeping' = [keeping EXCEPT ![inUse] = Dropped(@, p)]
        /\ undo' \in {undo, None} /\ owed' \subseteq owed
        /\ UNCHANGED <<file, preset, back, profile, inUse, doing, worker, away, gone>>
    BY <1>6 DEF Forget, UndoOf, WithoutTheUndoThatRestores
  <2>2. keeping' \in [Profile -> Seq(Kept)]
    BY <2>1, WhatIsDropped DEF KeptTypes
  <2> QED
    BY <2>1, <2>2 DEF KeptTypes, InHandIsSound, OneChangeAtATime, Maybe
<1>7. ASSUME NEW t \in Thread, WriteTheFile(t) PROVE TInv'
  <2>1. /\ doing[t] # None
        /\ doing' = [doing EXCEPT ![t] = IF t = "preset" THEN None ELSE [@ EXCEPT !.written = TRUE]]
        /\ UNCHANGED <<keeping, preset, back, profile, inUse, undo, worker>>
    BY <1>7 DEF WriteTheFile
  <2>2. doing[t] \in InHand
    BY <2>1 DEF KeptTypes, Maybe
  <2>3. \A u \in Thread : u # t => doing'[u] = doing[u]
    BY <2>1 DEF KeptTypes
  <2>4. t = "preset" => doing'[t] = None
    BY <2>1 DEF KeptTypes
  <2>5. t = "user" => doing'[t] = [doing[t] EXCEPT !.written = TRUE]
    BY <2>1 DEF KeptTypes
  <2>6. InHandIsSound'
    <3> SUFFICES ASSUME NEW u \in Thread, doing'[u] # None PROVE
         LET d == doing'[u]
         IN  /\ WellFormed(d.change) /\ ~Refuses(d.read, d.kept, d.change)
             /\ d.doc = Rewritten(d.read, d.kept, d.change)
             /\ u = "preset" => d.change.kind = "switch" /\ ~d.written
             /\ u = "user" => d.at = profile' /\ d.at = inUse' /\ d.purpose # "preset"
      BY DEF InHandIsSound
    <3>1. CASE u = t
      <4>1. u = "user" /\ doing'[u] = [doing[u] EXCEPT !.written = TRUE] /\ doing[u] # None
        BY <3>1, <2>1, <2>4, <2>5, <1>t
      <4>2. /\ doing'[u].change = doing[u].change /\ doing'[u].read = doing[u].read /\ doing'[u].kept = doing[u].kept
            /\ doing'[u].doc = doing[u].doc /\ doing'[u].at = doing[u].at /\ doing'[u].purpose = doing[u].purpose
        BY <3>1, <2>2, <4>1 DEF InHand
      <4> QED
        BY <4>1, <4>2, <2>1 DEF InHandIsSound
    <3>2. CASE u # t
      BY <3>2, <2>1, <2>3 DEF InHandIsSound
    <3> QED
      BY <3>1, <3>2
  <2> QED
    BY <1>7, <2>1, <2>3, <2>4, <2>6, <1>t, WrittenTypes DEF KeptTypes, OneChangeAtATime
<1>8. ASSUME NEW t \in Thread, TheWriteFails(t) PROVE TInv'
  <2>1. /\ doing' = [doing EXCEPT ![t] = None]
        /\ away' = [away EXCEPT ![doing[t].at] = None]
        /\ UNCHANGED <<disk, profile, inUse, undo, worker, owed, gone>>
    BY <1>8 DEF TheWriteFails
  <2>2. /\ \A u \in Thread : doing'[u] \in {doing[u], None}
        /\ doing' \in [Thread -> Maybe(InHand)] /\ away' \in [Profile -> Maybe(SUBSET Path)]
    BY <2>1 DEF KeptTypes, Maybe
  <2>3. InHandIsSound'
    <3> SUFFICES ASSUME NEW u \in Thread, doing'[u] # None PROVE doing'[u] = doing[u] /\ doing[u] # None
      BY <2>1 DEF InHandIsSound
    <3> QED
      BY <2>2
  <2> QED
    BY <2>1, <2>2, <2>3, <1>t DEF KeptTypes, OneChangeAtATime, disk
<1>9. CASE StartToApply
  <2>1. /\ worker = None /\ UNCHANGED <<disk, profile, inUse, undo, doing, ghosts>>
    BY <1>9 DEF StartToApply
  <2>2. worker' \in Applying /\ worker'.off = {} /\ worker'.on = {}
    <3>1. profile \in Profile /\ preset[profile] \in Wish /\ (back[profile] # None => back[profile] \in Wish)
      BY DEF KeptTypes, Maybe
    <3>2. CASE \E mode \in {"replace", "cumulative", "disable"} :
            worker' = [profile |-> profile, wish |-> preset[profile], mode |-> mode,
                       at |-> "plan", records |-> TRUE, off |-> {}, on |-> {}]
      BY <3>1, <3>2 DEF Applying
    <3>3. CASE /\ back[profile] # None
               /\ worker' = [profile |-> profile, wish |-> back[profile], mode |-> "replace",
                             at |-> "plan", records |-> FALSE, off |-> {}, on |-> {}]
      BY <3>1, <3>3 DEF Applying
    <3> QED
      BY <1>9, <3>2, <3>3 DEF StartToApply
  <2> QED
    BY <2>1, <2>2 DEF KeptTypes, InHandIsSound, OneChangeAtATime, Maybe, disk, ghosts
<1>10. CASE PlanTheSwitches
  <2> DEFINE plan == PlanOf(worker.wish, worker.mode, file[inUse])
  <2>1. /\ worker # None /\ worker.at = "plan" /\ UNCHANGED <<disk, profile, inUse, undo, doing, ghosts>>
        /\ worker' = [worker EXCEPT !.at = IF worker.records THEN "record" ELSE "switch",
                                    !.off = plan.off, !.on = plan.on]
    BY <1>10 DEF PlanTheSwitches
  <2>2. worker \in Applying
    BY <2>1 DEF KeptTypes, Maybe
  <2>3. plan.off \in SUBSET Path /\ plan.on \in SUBSET Path /\ plan.off \cap plan.on = {}
    BY <2>2, PlansAreApart DEF Applying
  <2> HIDE DEF plan
  <2>4. worker' \in Applying /\ worker'.off = plan.off /\ worker'.on = plan.on
    BY <2>1, <2>2, <2>3 DEF Applying
  <2>5. doing["preset"] = None
    BY <2>1 DEF OneChangeAtATime
  <2> QED
    BY <2>1, <2>3, <2>4, <2>5 DEF KeptTypes, InHandIsSound, OneChangeAtATime, Maybe, disk, ghosts
<1>11. CASE RecordTheReturn
  <2>1. /\ worker # None /\ worker.at = "record"
        /\ back' = [back EXCEPT ![worker.profile] = WhatIsOn(file[inUse])]
        /\ away' = [away EXCEPT ![worker.profile] = IF inUse = worker.profile THEN WhatRuns(file[inUse]) ELSE None]
        /\ worker' = [worker EXCEPT !.at = "switch"]
        /\ UNCHANGED <<file, keeping, preset, profile, inUse, undo, doing, owed, gone>>
    BY <1>11 DEF RecordTheReturn
  <2>2. worker \in Applying
    BY <2>1 DEF KeptTypes, Maybe
  <2>3. worker' \in Applying /\ worker'.off = worker.off /\ worker'.on = worker.on
    BY <2>1, <2>2 DEF Applying
  <2>4. WhatIsOn(file[inUse]) \in Wish
    BY DEF WhatIsOn, Wish, Maybe
  <2>5. WhatRuns(file[inUse]) \in SUBSET Path
    <3>1. file[inUse] \in Seq(Entry)
      BY DEF KeptTypes
    <3>2. ToSet(file[inUse]) \subseteq Entry
      BY <3>1, LenProperties, ElementOfSeq DEF ToSet
    <3> QED
      BY <3>2 DEF WhatRuns, Entry
  <2>6. doing["preset"] = None
    BY <2>1 DEF OneChangeAtATime
  <2> QED
    BY <2>1, <2>3, <2>4, <2>5, <2>6 DEF KeptTypes, InHandIsSound, OneChangeAtATime, Maybe
<1>12. CASE RefuseToApply
  <2>1. doing["preset"] = None
    BY <1>12 DEF RefuseToApply, OneChangeAtATime
  <2> QED
    BY <1>12, <2>1 DEF RefuseToApply, KeptTypes, InHandIsSound, OneChangeAtATime, Maybe, disk, ghosts
<1>13. CASE RunASwitch
  <2>1. PICK p \in worker.off \cup worker.on :
         /\ worker' = [worker EXCEPT !.off = @ \ {p}, !.on = IF p \in worker.off THEN @ ELSE @ \ {p}]
         /\ \/ Begin("preset", SwitchOf(p, p \notin worker.off), "preset")
            \/ UNCHANGED <<keeping, doing>>
    BY <1>13 DEF RunASwitch
  <2>2. /\ worker # None /\ worker.at = "switch"
        /\ UNCHANGED <<file, preset, back, profile, inUse, undo, owed, gone>>
        /\ away' = IF inUse = worker.profile THEN away ELSE [q \in Profile |-> None]
    BY <1>13 DEF RunASwitch
  <2>3. worker \in Applying
    BY <2>2 DEF KeptTypes, Maybe
  <2>4. worker' \in Applying /\ worker'.at = "switch" /\ worker'.off \cap worker'.on = {}
    BY <2>1, <2>2, <2>3 DEF Applying, OneChangeAtATime
  <2>5. WellFormed(SwitchOf(p, p \notin worker.off)) /\ SwitchOf(p, p \notin worker.off).kind = "switch"
    BY <2>1, <2>3 DEF SwitchOf, WellFormed, Change, Maybe, Applying
  <2>8. away' \in [Profile -> Maybe(SUBSET Path)]
    BY <2>2 DEF KeptTypes, Maybe
  <2>9. worker' \in Maybe(Applying)
    BY <2>4 DEF Maybe
  <2>6. CASE Begin("preset", SwitchOf(p, p \notin worker.off), "preset")
    <3>1. /\ doing' \in [Thread -> Maybe(InHand)] /\ doing'["user"] = None
          /\ keeping' \in [Profile -> Seq(Kept)]
      BY <2>5, <2>6, <1>t, WhatBeginDoes
    <3>2. InHandIsSound'
      BY <2>2, <2>5, <2>6, <1>t, BegunIsSound
    <3> QED
      BY <2>2, <2>4, <2>8, <2>9, <3>1, <3>2, NoneIsNeither DEF KeptTypes, OneChangeAtATime
  <2>7. CASE UNCHANGED <<keeping, doing>>
    <3>1. doing["preset"] # None => worker' # None
      BY <1>13 DEF RunASwitch, TheFileIsFree, Thread
    <3>2. InHandIsSound'
      BY <2>2, <2>7 DEF InHandIsSound
    <3> QED
      BY <2>2, <2>4, <2>7, <2>8, <2>9, <3>1, <3>2 DEF KeptTypes, OneChangeAtATime
  <2> QED
    BY <2>1, <2>6, <2>7
<1>14. CASE EndTheApply
  BY <1>14 DEF EndTheApply, KeptTypes, InHandIsSound, OneChangeAtATime, Maybe, disk, ghosts
<1>15. ASSUME NEW p \in Profile, ShowProfile(p) PROVE TInv'
  <2>1. /\ doing["user"] = None /\ profile' = p
        /\ away' \in {away, [away EXCEPT ![worker.profile] = None]}
        /\ UNCHANGED <<disk, inUse, undo, doing, worker, owed, gone>>
    BY <1>15 DEF ShowProfile
  <2> QED
    BY <2>1 DEF KeptTypes, InHandIsSound, OneChangeAtATime, Maybe, disk
<1>16. ASSUME NEW p \in Profile, ForeignWrite(p) PROVE TInv'
  <2>1. /\ file' \in [Profile -> Seq(Entry)] /\ gone' \subseteq Profile \X Path
        /\ undo' \in Maybe(ToUndo)
        /\ undo' # None /\ undo'.effect = "edit" => undo'.was \in [path : Path, text : Text]
        /\ doing' \in [Thread -> Maybe(InHand)]
        /\ \A t \in Thread : \/ doing'[t] = doing[t]
                             \/ doing[t] # None /\ doing'[t] = [doing[t] EXCEPT !.stale = TRUE]
    BY <1>16, ForeignTypes
  <2>2. /\ away' = [away EXCEPT ![p] = None]
        /\ UNCHANGED <<keeping, preset, back, profile, inUse, worker, owed>>
    BY <1>16 DEF ForeignWrite
  <2>3. \A t \in Thread : doing'[t] # None => doing[t] # None
    BY <2>1
  <2>4. InHandIsSound'
    <3> SUFFICES ASSUME NEW u \in Thread, doing'[u] # None PROVE
         LET d == doing'[u]
         IN  /\ WellFormed(d.change) /\ ~Refuses(d.read, d.kept, d.change)
             /\ d.doc = Rewritten(d.read, d.kept, d.change)
             /\ u = "preset" => d.change.kind = "switch" /\ ~d.written
             /\ u = "user" => d.at = profile' /\ d.at = inUse' /\ d.purpose # "preset"
      BY DEF InHandIsSound
    <3>1. doing[u] # None /\ doing[u] \in InHand
      BY <2>3 DEF KeptTypes, Maybe
    <3>2. /\ doing'[u].change = doing[u].change /\ doing'[u].read = doing[u].read /\ doing'[u].kept = doing[u].kept
          /\ doing'[u].doc = doing[u].doc /\ doing'[u].at = doing[u].at /\ doing'[u].purpose = doing[u].purpose
          /\ doing'[u].written = doing[u].written
      BY ZenonT(30), <2>1, <3>1 DEF InHand
    <3> QED
      BY <3>1, <3>2, <2>2 DEF InHandIsSound
  <2> QED
    BY <2>1, <2>2, <2>3, <2>4, <1>t DEF KeptTypes, OneChangeAtATime, Maybe
<1>17. CASE UseItsFile
  BY <1>17 DEF UseItsFile, KeptTypes, InHandIsSound, OneChangeAtATime, Maybe, disk, ghosts
<1>18. CASE Crash
  <2>1. doing' = [t \in Thread |-> None] /\ worker' = None /\ undo' = None /\ inUse' = profile
        /\ away' = [p \in Profile |-> None] /\ UNCHANGED <<disk, profile, owed>>
        /\ gone' = IF doing["user"] # None /\ doing["user"].written
                   THEN gone \cup {<<doing["user"].at, doing["user"].change.path>>} ELSE gone
    BY <1>18 DEF Crash
  <2>2. doing["user"] # None => doing["user"].at \in Profile /\ doing["user"].change.path \in Path
    BY <1>t DEF KeptTypes, Maybe, InHand, Change
  <2> QED
    <3>1. KeptTypes'
      <4>1. away' \in [Profile -> Maybe(SUBSET Path)] /\ doing' \in [Thread -> Maybe(InHand)]
        BY <2>1 DEF Maybe
      <4>2. gone' \subseteq Profile \X Path
        BY <2>1, <2>2 DEF KeptTypes
      <4> QED
        BY <2>1, <4>1, <4>2 DEF KeptTypes, Maybe, disk
    <3>2. \A t \in Thread : doing'[t] = None
      BY <2>1
    <3> QED
      BY <2>1, <3>1, <3>2, <1>t DEF InHandIsSound, OneChangeAtATime
<1>19. CASE UNCHANGED vars
  BY <1>19 DEF vars, KeptTypes, InHandIsSound, OneChangeAtATime, disk, ghosts, bounds
<1> QED
  BY <1>1, <1>2, <1>3, <1>4, <1>5, <1>6, <1>7, <1>8, <1>9, <1>10, <1>11, <1>12, <1>13, <1>14,
     <1>15, <1>16, <1>17, <1>18, <1>19 DEF Next

\* For any profiles, paths, texts, files to start from and bounds, every variable keeps
\* its kind, and one thread at a time has a change of a file in hand.
THEOREM StartupTypeCorrect == Spec => []TypeOK
<1>1. TInv => TypeOK
  BY TInvIsEnough
<1> QED
  BY <1>1, TInvAtFirst, TInvStays, PTL DEF Spec

-----------------------------------------------------------------------------
(* What a thread read is what is there, unless another program wrote. *)

\* The four things a step may do to the files and to what is in hand.
BeginsAChange ==
    /\ \E t \in Thread, c \in Change, purpose \in {"gesture", "undo", "preset"} :
         WellFormed(c) /\ Begin(t, c, purpose)
    /\ UNCHANGED <<file, inUse, foreign, mishaps>>
LetsGo == file' = file /\ foreign' = foreign /\ \A t \in Thread : doing'[t] \in {doing[t], None}

\* A gesture that changes the file begins a change of it.
LEMMA UserBeginsAChange ==
  ASSUME TInv, Gesture \/ Switch \/ Undo
  PROVE  BeginsAChange
<1>t. "user" \in Thread
  BY DEF Thread
<1>w. \A c : WellFormed(c) => c \in Change
  BY DEF WellFormed
<1>1. CASE Gesture
  <2>1. PICK p \in Path, q \in Path, x \in Text : \E c \in {AddOf(p, x), EditOf(p, q, x), RemoveOf(p), RestoreOf(p)} :
          Begin("user", c, "gesture")
    BY <1>1 DEF Gesture
  <2>2. PICK c \in {AddOf(p, x), EditOf(p, q, x), RemoveOf(p), RestoreOf(p)} : Begin("user", c, "gesture")
    BY <2>1
  <2>3. WellFormed(c)
    BY GesturesAreWellFormed
  <2> QED
    BY <1>1, <1>t, <1>w, <2>2, <2>3 DEF Gesture, BeginsAChange
<1>2. CASE Switch
  <2>1. PICK p \in Path, on \in BOOLEAN : Begin("user", SwitchOf(p, on), "gesture")
    BY <1>2 DEF Switch
  <2>2. WellFormed(SwitchOf(p, on))
    BY DEF SwitchOf, WellFormed, Change, Maybe
  <2> QED
    BY <1>2, <1>t, <1>w, <2>1, <2>2 DEF Switch, BeginsAChange, disk
<1>3. CASE Undo
  <2>1. Begin("user", OppositeOf(undo), "undo") /\ undo # None
    BY <1>3 DEF Undo
  <2>2. WellFormed(OppositeOf(undo))
    BY <2>1, OppositesAreWellFormed DEF TInv
  <2> QED
    BY <1>3, <1>t, <1>w, <2>1, <2>2 DEF Undo, BeginsAChange
<1> QED
  BY <1>1, <1>2, <1>3

\* A step begins a change, writes one, is another program's write, or leaves the files and
\* lets go of changes.
LEMMA HowTheFilesChange ==
  ASSUME TInv, [Next]_vars
  PROVE  \/ BeginsAChange \/ LetsGo
         \/ \E t \in Thread : WriteTheFile(t)
         \/ \E p \in Profile : ForeignWrite(p)
<1>t. Thread = {"user", "preset"} /\ doing \in [Thread -> Maybe(InHand)]
  BY DEF Thread, TInv, KeptTypes
<1>w. \A c : WellFormed(c) => c \in Change
  BY DEF WellFormed
<1>1. CASE Gesture \/ Switch \/ Undo
  BY <1>1, UserBeginsAChange
<1>4. CASE RunASwitch
  <2>1. PICK p \in worker.off \cup worker.on :
         \/ Begin("preset", SwitchOf(p, p \notin worker.off), "preset")
         \/ UNCHANGED <<keeping, doing>>
    BY <1>4 DEF RunASwitch
  <2>2. p \in Path
    BY <1>4 DEF RunASwitch, TInv, KeptTypes, Maybe, Applying
  <2>3. WellFormed(SwitchOf(p, p \notin worker.off))
    BY <2>2 DEF SwitchOf, WellFormed, Change, Maybe
  <2>4. UNCHANGED <<file, inUse, foreign, mishaps>>
    BY <1>4 DEF RunASwitch, bounds
  <2> QED
    BY <1>t, <1>w, <2>1, <2>3, <2>4 DEF BeginsAChange, LetsGo
<1>5. CASE Settle
  BY <1>5, <1>t DEF Settle, LetsGo
<1>6. CASE \E t \in Thread : TheWriteFails(t)
  BY <1>6, <1>t DEF TheWriteFails, LetsGo, disk
<1>7. CASE Crash
  BY <1>7, <1>t DEF Crash, LetsGo, disk
<1>8. CASE \E p \in Path : Forget(p)
  BY <1>8 DEF Forget, LetsGo
<1>9. CASE UndoNothing \/ StartToApply \/ PlanTheSwitches \/ RefuseToApply \/ EndTheApply \/ UseItsFile
           \/ \E p \in Profile : ShowProfile(p)
  BY <1>9 DEF UndoNothing, StartToApply, PlanTheSwitches, RefuseToApply, EndTheApply, UseItsFile, ShowProfile,
              LetsGo, disk, bounds
<1>10. CASE RecordTheReturn
  BY <1>10 DEF RecordTheReturn, LetsGo, bounds
<1>11. CASE UNCHANGED vars
  BY <1>11 DEF vars, LetsGo, disk, bounds
<1> QED
  BY <1>1, <1>4, <1>5, <1>6, <1>7, <1>8, <1>9, <1>10, <1>11 DEF Next

\* While no other program wrote a file, it is as the thread that has a change of it in
\* hand read it, or has written it.
ReadIsThere ==
    \A t \in Thread : doing[t] # None /\ ~doing[t].stale =>
        file[doing[t].at] = IF doing[t].written THEN doing[t].doc ELSE doing[t].read

Counted == foreign \in Nat /\ mishaps \in Nat

\* What a thread has read and has not written over is what the file says.
LEMMA ReadStaysThere == TInv /\ ReadIsThere /\ [Next]_vars => ReadIsThere'
<1> SUFFICES ASSUME TInv, ReadIsThere, [Next]_vars, NEW t \in Thread, doing'[t] # None, ~doing'[t].stale
             PROVE  file'[doing'[t].at] = IF doing'[t].written THEN doing'[t].doc ELSE doing'[t].read
  BY DEF ReadIsThere
<1>1. CASE BeginsAChange
  <2>1. PICK u \in Thread, c \in Change, purpose \in {"gesture", "undo", "preset"} : WellFormed(c) /\ Begin(u, c, purpose)
    BY <1>1 DEF BeginsAChange
  <2>2. doing'[u] = Begun(c, purpose) /\ \A v \in Thread : v # u => doing'[v] = None
    BY <2>1, WhatBeginDoes DEF TInv
  <2> QED
    BY <1>1, <2>2 DEF Begun, BeginsAChange
<1>2. CASE LetsGo
  BY <1>2 DEF LetsGo, ReadIsThere
<1>3. ASSUME NEW u \in Thread, WriteTheFile(u)
      PROVE  file'[doing'[t].at] = IF doing'[t].written THEN doing'[t].doc ELSE doing'[t].read
  <2>1. /\ doing[u] # None /\ file' = [file EXCEPT ![doing[u].at] = doing[u].doc]
        /\ doing' = [doing EXCEPT ![u] = IF u = "preset" THEN None ELSE [@ EXCEPT !.written = TRUE]]
    BY <1>3 DEF WriteTheFile
  <2>2. doing[u] \in InHand /\ doing \in [Thread -> Maybe(InHand)] /\ file \in [Profile -> Seq(Entry)]
    BY <2>1 DEF TInv, KeptTypes, Maybe
  <2>3. t = u
    BY <2>1, <2>2 DEF TInv, OneChangeAtATime, Thread
  <2>4. doing'[t] = [doing[u] EXCEPT !.written = TRUE]
    BY <2>1, <2>2, <2>3
  <2>5. doing'[t].written /\ doing'[t].doc = doing[u].doc /\ doing'[t].at = doing[u].at /\ doing[u].at \in Profile
    BY <2>2, <2>4 DEF InHand
  <2> QED
    BY <2>1, <2>2, <2>5
<1>4. ASSUME NEW p \in Profile, ForeignWrite(p)
      PROVE  file'[doing'[t].at] = IF doing'[t].written THEN doing'[t].doc ELSE doing'[t].read
  <2>1. doing'[t] = IF doing[t] # None /\ doing[t].at = p THEN [doing[t] EXCEPT !.stale = TRUE] ELSE doing[t]
    BY <1>4 DEF ForeignWrite
  <2>2. CASE doing[t] # None /\ doing[t].at = p
    <3>1. doing[t] \in InHand
      BY <2>2 DEF TInv, KeptTypes, Maybe
    <3>2. doing'[t].stale
      BY <2>1, <2>2, <3>1 DEF InHand
    <3> QED
      BY <3>2
  <2>3. CASE ~(doing[t] # None /\ doing[t].at = p)
    <3>1. doing'[t] = doing[t] /\ doing[t] # None /\ doing[t].at # p
      BY <2>1, <2>3
    <3>2. doing[t].at \in Profile
      BY <3>1 DEF TInv, KeptTypes, Maybe, InHand
    <3>3. file'[doing[t].at] = file[doing[t].at]
      BY <1>4, <3>1, <3>2 DEF ForeignWrite, TInv, KeptTypes
    <3> QED
      BY <3>1, <3>3 DEF ReadIsThere
  <2> QED
    BY <2>2, <2>3
<1> QED
  BY <1>1, <1>2, <1>3, <1>4, HowTheFilesChange

\* Writes that fail are counted: none did if none is counted.
LEMMA SomeFailed ==
  ASSUME NEW follows \in BOOLEAN, NEW theReturnFollows \in BOOLEAN, NEW drops \in BOOLEAN
  PROVE  /\ HowManyFailed(follows, theReturnFollows, drops) \in Nat
         /\ HowManyFailed(follows, theReturnFollows, drops) = 0 => follows /\ theReturnFollows /\ drops
<1> DEFINE a == <<"preset", follows>>
           b == <<"return", theReturnFollows>>
           c == <<"keeping", drops>>
           S == {w \in {a, b, c} : ~w[2]}
<1>0. a[2] = follows /\ b[2] = theReturnFollows /\ c[2] = drops
  OBVIOUS
<1> HIDE DEF a, b, c
<1>1. IsFiniteSet({a, b, c})
  <2>1. IsFiniteSet({})
    BY FS_EmptySet
  <2>2. IsFiniteSet({} \cup {a})
    BY <2>1, FS_AddElement
  <2>3. IsFiniteSet(({} \cup {a}) \cup {b})
    BY <2>2, FS_AddElement
  <2>4. IsFiniteSet((({} \cup {a}) \cup {b}) \cup {c})
    BY <2>3, FS_AddElement
  <2>5. {a, b, c} = (({} \cup {a}) \cup {b}) \cup {c}
    OBVIOUS
  <2> QED
    BY <2>4, <2>5
<1>2. IsFiniteSet(S)
  <2>1. S \subseteq {a, b, c}
    OBVIOUS
  <2> QED
    BY <1>1, <2>1, FS_Subset
<1>3. Cardinality(S) \in Nat /\ (Cardinality(S) = 0 => S = {})
  BY <1>2, FS_CardinalityType, FS_EmptySet
<1>4. ASSUME S = {} PROVE follows /\ theReturnFollows /\ drops
  <2>1. \A w \in {a, b, c} : w[2]
    BY <1>4
  <2> QED
    BY <1>0, <2>1
<1>5. HowManyFailed(follows, theReturnFollows, drops) = Cardinality(S)
  BY DEF HowManyFailed, a, b, c
<1> QED
  BY <1>3, <1>4, <1>5

\* The bounds count up from zero.
LEMMA TheyAreCounted == Counted /\ [Next]_vars => Counted'
<1> SUFFICES ASSUME Counted, [Next]_vars PROVE Counted'
  OBVIOUS
<1>1. CASE Settle
  <2>1. PICK follows \in BOOLEAN, theReturnFollows \in BOOLEAN, drops \in BOOLEAN :
          mishaps' = mishaps + HowManyFailed(follows, theReturnFollows, drops)
    BY <1>1 DEF Settle
  <2>2. HowManyFailed(follows, theReturnFollows, drops) \in Nat
    BY SomeFailed
  <2> QED
    BY <1>1, <2>1, <2>2 DEF Counted, Settle
<1>2. CASE \E p \in Profile : ForeignWrite(p)
  BY <1>2 DEF ForeignWrite, Counted
<1>3. CASE Crash \/ RefuseToApply \/ \E t \in Thread : TheWriteFails(t)
  BY <1>3 DEF Crash, RefuseToApply, TheWriteFails, Counted
<1> QED
  BY <1>1, <1>2, <1>3 DEF Counted, Next, vars, bounds, Gesture, Switch, Undo, UndoNothing, Forget, WriteTheFile,
     StartToApply, PlanTheSwitches, RecordTheReturn, RunASwitch, EndTheApply, ShowProfile, UseItsFile

FileInv == TInv /\ ReadIsThere /\ Counted

\* The types, what was read and the counts hold in every state.
LEMMA FileInvHolds == Spec => []FileInv
<1>1. Init => FileInv
  BY TInvAtFirst DEF Init, FileInv, ReadIsThere, Counted, Thread
<1>2. FileInv /\ [Next]_vars => FileInv'
  BY TInvStays, ReadStaysThere, TheyAreCounted DEF FileInv
<1> QED
  BY <1>1, <1>2, PTL DEF Spec

\* What a thread writes is the file as it is with its change made.
THEOREM TheRestStays == Spec => TheRestOfTheFileStays
<1> DEFINE Stays ==
     \A t \in Thread :
       doing[t] # None /\ ~doing[t].written /\ ~doing[t].stale /\ doing'[t] # doing[t]
       /\ file' # file /\ foreign' = foreign
       => file'[doing[t].at] = Rewritten(file[doing[t].at], doing[t].kept, doing[t].change)
<1>1. FileInv /\ [Next]_vars => [Stays]_vars
  <2> SUFFICES ASSUME FileInv, [Next]_vars, NEW t \in Thread,
                      doing[t] # None, ~doing[t].written, ~doing[t].stale, doing'[t] # doing[t],
                      file' # file, foreign' = foreign
               PROVE  file'[doing[t].at] = Rewritten(file[doing[t].at], doing[t].kept, doing[t].change)
    OBVIOUS
  <2>1. ~BeginsAChange /\ ~LetsGo
    BY DEF BeginsAChange, LetsGo
  <2>2. ~ \E p \in Profile : ForeignWrite(p)
    BY DEF FileInv, Counted, ForeignWrite
  <2>3. PICK u \in Thread : WriteTheFile(u)
    BY <2>1, <2>2, HowTheFilesChange DEF FileInv
  <2>4. doing[u] # None /\ file' = [file EXCEPT ![doing[u].at] = doing[u].doc]
    BY <2>3 DEF WriteTheFile
  <2>5. u = t
    BY <2>4 DEF FileInv, TInv, OneChangeAtATime, Thread
  <2>6. doing[t].at \in Profile /\ file \in [Profile -> Seq(Entry)]
    BY DEF FileInv, TInv, KeptTypes, Maybe, InHand
  <2>7. doing[t].doc = Rewritten(doing[t].read, doing[t].kept, doing[t].change)
    BY DEF FileInv, TInv, InHandIsSound
  <2>8. file[doing[t].at] = doing[t].read
    BY DEF FileInv, ReadIsThere
  <2> QED
    BY <2>4, <2>5, <2>6, <2>7, <2>8
<1> QED
  BY <1>1, FileInvHolds, PTL DEF Spec, TheRestOfTheFileStays

-----------------------------------------------------------------------------
(* What was taken out of the file is kept. *)

\* The kept entries are those a change found, with what it takes out.
KeptIsThere ==
    doing["user"] # None =>
        LET d == doing["user"]
        IN  keeping[d.at] = IF Takes(d.change) THEN Append(d.kept, TakenFrom(d.read, d.change.path)) ELSE d.kept

\* The change of an undo in hand is the opposite of the gesture it takes back.
UndoInHand ==
    doing["user"] # None /\ doing["user"].purpose = "undo" =>
        undo # None /\ undo.profile = doing["user"].at /\ doing["user"].change = OppositeOf(undo)

\* What will be dropped when a written change is settled is not owed.
SettledIsNotOwed ==
    doing["user"] # None /\ doing["user"].written =>
        LET d == doing["user"]
            c == d.change
        IN  \A o \in owed : o.profile = d.at =>
              /\ c.kind = "restore" /\ o.path = c.path => o.text # d.kept[NewestAt(c.path, d.kept)].text
              /\ Moves(c) /\ d.purpose = "undo" => o.path # c.to
              /\ Moves(c) /\ o.path = c.path => o.text = EntryAt(d.read, c.path).text

\* Of the path an edit that can be undone left, what is owed is what the edit took out.
UndoIsOfItsEdit ==
    undo # None /\ undo.effect = "edit" /\ undo.was.path # undo.path
    /\ ~(doing["user"] # None /\ doing["user"].written /\ Takes(doing["user"].change))
    => \A o \in owed : o.profile = undo.profile /\ o.path = undo.was.path => o.text = undo.was.text

LostInv == KeptIsThere /\ UndoInHand /\ SettledIsNotOwed /\ UndoIsOfItsEdit /\ NothingIsLost

\* The steps, by what they do to the kept entries and to the undo.
UserBegins ==
    \E c \in Change, purpose \in {"gesture", "undo"} :
        /\ WellFormed(c) /\ Begin("user", c, purpose)
        /\ owed' = owed /\ undo' \in {undo, None} /\ inUse = profile /\ file' = file
        /\ purpose = "undo" => undo' = undo /\ undo # None /\ undo.profile = inUse /\ c = OppositeOf(undo)
KeepsTheRest ==
    /\ keeping' = keeping /\ owed' \subseteq owed
    /\ \/ undo' = undo /\ \/ doing'["user"] = doing["user"]
                          \/ doing'["user"] = None /\ doing["user"] # None /\ ~doing["user"].written
       \/ undo' = None /\ doing'["user"] = None

\* The steps that change what is kept or what is owed, and the others.
LEMMA HowTheKeepingChanges ==
  ASSUME TInv, [Next]_vars
  PROVE  \/ UserBegins \/ KeepsTheRest \/ Settle \/ WriteTheFile("user")
         \/ \E p \in Path : Forget(p)
         \/ \E p \in Profile : ForeignWrite(p)
<1>t. Thread = {"user", "preset"} /\ doing \in [Thread -> Maybe(InHand)]
  BY DEF Thread, TInv, KeptTypes
<1>w. \A c : WellFormed(c) => c \in Change
  BY DEF WellFormed
<1>1. CASE Gesture
  <2>1. PICK p \in Path, q \in Path, x \in Text : \E c \in {AddOf(p, x), EditOf(p, q, x), RemoveOf(p), RestoreOf(p)} :
          Begin("user", c, "gesture")
    BY <1>1 DEF Gesture
  <2>2. PICK c \in {AddOf(p, x), EditOf(p, q, x), RemoveOf(p), RestoreOf(p)} : Begin("user", c, "gesture")
    BY <2>1
  <2>3. WellFormed(c)
    BY GesturesAreWellFormed
  <2>4. owed' = owed /\ undo' \in {undo, None} /\ inUse = profile /\ file' = file
    BY <1>1 DEF Gesture, MayGesture, UndoOf, ghosts
  <2> QED
    BY <1>w, <2>2, <2>3, <2>4 DEF UserBegins
<1>2. CASE Switch
  <2>1. PICK p \in Path, on \in BOOLEAN : Begin("user", SwitchOf(p, on), "gesture")
    BY <1>2 DEF Switch
  <2>2. WellFormed(SwitchOf(p, on))
    BY DEF SwitchOf, WellFormed, Change, Maybe
  <2> QED
    BY <1>2, <1>w, <2>1, <2>2 DEF Switch, MayGesture, UserBegins, ghosts, disk
<1>3. CASE Undo
  <2>1. /\ Begin("user", OppositeOf(undo), "undo") /\ undo # None /\ undo.profile = profile
        /\ inUse = profile /\ owed' = owed /\ undo' = undo /\ file' = file
    BY <1>3 DEF Undo, MayGesture, ghosts
  <2>2. WellFormed(OppositeOf(undo))
    BY <2>1, OppositesAreWellFormed DEF TInv
  <2> QED
    BY <1>w, <2>1, <2>2 DEF UserBegins
<1>4. CASE RunASwitch
  <2>1. PICK p \in worker.off \cup worker.on :
         \/ Begin("preset", SwitchOf(p, p \notin worker.off), "preset")
         \/ UNCHANGED <<keeping, doing>>
    BY <1>4 DEF RunASwitch
  <2>2. ~Takes(SwitchOf(p, p \notin worker.off))
    BY DEF SwitchOf, Takes, Moves
  <2>3. keeping' = keeping /\ doing'["user"] = doing["user"]
    BY <1>t, <2>1, <2>2 DEF Begin
  <2> QED
    BY <1>4, <2>3 DEF RunASwitch, KeepsTheRest
<1>5. CASE WriteTheFile("preset")
  <2>1. /\ doing["preset"] # None /\ owed' = OwedAfter(doing["preset"]) /\ UNCHANGED <<keeping, undo>>
        /\ doing' = [doing EXCEPT !["preset"] = None]
    BY <1>5 DEF WriteTheFile
  <2>2. ~(doing["preset"].change.kind = "remove" \/ Moves(doing["preset"].change))
    BY <2>1, <1>t DEF TInv, InHandIsSound, Moves
  <2>3. owed' \subseteq owed
    BY <2>1, <2>2 DEF OwedAfter
  <2> QED
    BY <1>t, <2>1, <2>3 DEF KeepsTheRest
<1>6. CASE \E t \in Thread : TheWriteFails(t)
  BY <1>6, <1>t DEF TheWriteFails, KeepsTheRest, disk
<1>7. CASE Crash
  BY <1>7, <1>t DEF Crash, KeepsTheRest, disk
<1>8. CASE UndoNothing
  BY <1>8, <1>t DEF UndoNothing, MayGesture, TheFileIsFree, KeepsTheRest, disk, ghosts
<1>9. CASE StartToApply \/ PlanTheSwitches \/ RefuseToApply \/ EndTheApply \/ UseItsFile
           \/ \E p \in Profile : ShowProfile(p)
  BY <1>9 DEF StartToApply, PlanTheSwitches, RefuseToApply, EndTheApply, UseItsFile, ShowProfile,
              KeepsTheRest, disk, ghosts
<1>10. CASE RecordTheReturn
  BY <1>10 DEF RecordTheReturn, KeepsTheRest
<1>11. CASE UNCHANGED vars
  BY <1>11 DEF vars, KeepsTheRest, disk, ghosts
<1> QED
  BY <1>t, <1>1, <1>2, <1>3, <1>4, <1>5, <1>6, <1>7, <1>8, <1>9, <1>10, <1>11 DEF Next

\* A gesture keeps what it is about to take out before it takes it.
LEMMA LostWhenTheUserBegins == TInv /\ LostInv /\ UserBegins => LostInv'
<1> SUFFICES ASSUME TInv, LostInv, UserBegins PROVE LostInv'
  OBVIOUS
<1>1. PICK c \in Change, purpose \in {"gesture", "undo"} :
        /\ WellFormed(c) /\ Begin("user", c, purpose)
        /\ owed' = owed /\ undo' \in {undo, None} /\ inUse = profile
        /\ purpose = "undo" => undo' = undo /\ undo # None /\ undo.profile = inUse /\ c = OppositeOf(undo)
  BY DEF UserBegins
<1> DEFINE k == keeping[inUse]
           e == TakenFrom(file[inUse], c.path)
<1>2. /\ doing["user"] = None /\ doing'["user"] = Begun(c, purpose)
      /\ keeping' \in [Profile -> Seq(Kept)]
      /\ \A p \in Profile : p # inUse => keeping'[p] = keeping[p]
      /\ keeping'[inUse] = IF Takes(c) THEN Append(k, e) ELSE k
      /\ ~Refuses(file[inUse], k, c)
  BY <1>1, WhatBeginDoes DEF TInv, Thread
<1>3. inUse \in Profile /\ k \in Seq(Kept)
  BY DEF TInv, KeptTypes
<1>4. KeptIsThere'
  BY <1>2 DEF KeptIsThere, Begun
<1>5. UndoInHand'
  BY <1>1, <1>2 DEF UndoInHand, Begun
<1>6. SettledIsNotOwed'
  BY <1>2 DEF SettledIsNotOwed, Begun
<1>7. UndoIsOfItsEdit'
  BY <1>1, <1>2 DEF UndoIsOfItsEdit, LostInv
<1>8. NothingIsLost'
  <2>1. Takes(c) => e \in Kept
    <3>1. Takes(c) => Has(file[inUse], c.path)
      BY <1>2 DEF Takes, Moves, Refuses
    <3> QED
      BY <1>3, <3>1, WhatIsTaken DEF TInv, KeptTypes
  <2> HIDE DEF k, e
  <2>2. Len(k) <= Len(keeping'[inUse]) /\ \A j \in 1..Len(k) : j \in 1..Len(keeping'[inUse]) /\ keeping'[inUse][j] = k[j]
    BY <1>2, <1>3, <2>1, AppendProperties
  <2>3. \A o \in owed : \E d \in ToSet(keeping[o.profile]) : d.path = o.path /\ d.text = o.text
    BY DEF LostInv, NothingIsLost
  <2>4. ASSUME NEW o \in owed, NEW d \in ToSet(keeping[o.profile]) PROVE d \in ToSet(keeping'[o.profile])
    <3>1. o.profile \in Profile
      BY DEF TInv, KeptTypes, EntryOwed
    <3>2. CASE o.profile = inUse
      <4>1. DOMAIN k = 1..Len(k) /\ DOMAIN keeping'[inUse] = 1..Len(keeping'[inUse])
        BY <1>2, <1>3, LenProperties
      <4> QED
        BY <2>2, <2>4, <3>2, <4>1 DEF ToSet, k
    <3> QED
      BY <1>2, <2>4, <3>1, <3>2
  <2> QED
    BY <1>1, <2>3, <2>4 DEF NothingIsLost
<1> QED
  BY <1>4, <1>5, <1>6, <1>7, <1>8 DEF LostInv

\* The steps of the presets and a change that fails lose nothing that is owed.
LEMMA LostWhenTheRestIsKept == TInv /\ LostInv /\ KeepsTheRest => LostInv'
<1> SUFFICES ASSUME TInv, LostInv, KeepsTheRest PROVE LostInv'
  OBVIOUS
<1>1. keeping' = keeping /\ owed' \subseteq owed
  BY DEF KeepsTheRest
<1>2. NothingIsLost'
  BY <1>1 DEF NothingIsLost, LostInv
<1>3. doing'["user"] = None \/ doing'["user"] = doing["user"]
  BY DEF KeepsTheRest
<1>4. KeptIsThere' /\ SettledIsNotOwed'
  BY <1>1, <1>3 DEF KeptIsThere, SettledIsNotOwed, LostInv
<1>5. UndoInHand'
  BY DEF KeepsTheRest, UndoInHand, LostInv, OppositeOf
<1>6. UndoIsOfItsEdit'
  BY <1>1 DEF KeepsTheRest, UndoIsOfItsEdit, LostInv
<1> QED
  BY <1>2, <1>4, <1>5, <1>6 DEF LostInv

\* Another program's write takes nothing out of what is kept.
LEMMA LostWhenAnotherWrites == TInv /\ LostInv /\ (\E p \in Profile : ForeignWrite(p)) => LostInv'
<1> SUFFICES ASSUME TInv, LostInv, NEW p \in Profile, ForeignWrite(p) PROVE LostInv'
  OBVIOUS
<1> DEFINE d == doing["user"]
           e == doing'["user"]
<1>1. keeping' = keeping /\ owed' = owed
  BY DEF ForeignWrite
<1>2. d \in Maybe(InHand) /\ e = IF d # None /\ d.at = p THEN [d EXCEPT !.stale = TRUE] ELSE d
  BY DEF ForeignWrite, TInv, KeptTypes, Thread
<1>3. e # None => /\ d # None /\ e.at = d.at /\ e.kept = d.kept /\ e.read = d.read /\ e.change = d.change
                  /\ e.purpose = d.purpose /\ e.written = d.written
  BY <1>2 DEF Maybe, InHand
<1>3a. e = None => d = None
  <2>1. d # None => [d EXCEPT !.stale = TRUE] \in InHand
    BY <1>2 DEF Maybe, InHand
  <2> QED
    BY <1>2, <2>1, NoneIsNeither
<1>4. undo' = IF undo # None /\ undo.profile = p THEN [undo EXCEPT !.quiet = FALSE] ELSE undo
  BY DEF ForeignWrite
<1>5. undo \in Maybe(ToUndo)
  BY DEF TInv, KeptTypes
<1>6. undo # None => /\ undo' # None /\ undo'.profile = undo.profile /\ undo'.effect = undo.effect
                     /\ undo'.path = undo.path /\ undo'.was = undo.was
  <2>1. [undo EXCEPT !.quiet = FALSE] \in ToUndo \/ undo = None
    BY <1>5 DEF Maybe, ToUndo
  <2>2. undo # None => undo' # None
    BY <1>4, <2>1, NoneIsNeither
  <2> QED
    BY <1>4, <1>5, <2>2 DEF Maybe, ToUndo
<1>7. undo = None => undo' = None
  BY <1>4
<1> HIDE DEF d, e
<1>8. KeptIsThere'
  BY <1>1, <1>3 DEF KeptIsThere, LostInv, d, e
<1>9. SettledIsNotOwed'
  <2> DEFINE Sound(f) ==
        f # None /\ f.written =>
          \A o \in owed : o.profile = f.at =>
            /\ f.change.kind = "restore" /\ o.path = f.change.path => o.text # f.kept[NewestAt(f.change.path, f.kept)].text
            /\ Moves(f.change) /\ f.purpose = "undo" => o.path # f.change.to
            /\ Moves(f.change) /\ o.path = f.change.path => o.text = EntryAt(f.read, f.change.path).text
  <2>1. Sound(d)
    BY DEF SettledIsNotOwed, LostInv, d
  <2>2. Sound(e)
    BY ZenonT(30), <1>3, <2>1
  <2> HIDE DEF Sound
  <2>3. Sound(e) /\ owed' = owed => SettledIsNotOwed'
    BY DEF SettledIsNotOwed, Sound, e
  <2> QED
    BY <1>1, <2>2, <2>3
<1>10. UndoInHand'
  <2>1. undo # None => OppositeOf(undo)' = OppositeOf(undo)
    BY <1>6 DEF OppositeOf
  <2> QED
    BY <1>3, <1>6, <2>1 DEF UndoInHand, LostInv, d, e
<1>11. UndoIsOfItsEdit'
  BY <1>1, <1>3, <1>3a, <1>6, <1>7 DEF UndoIsOfItsEdit, LostInv, d, e
<1>12. NothingIsLost'
  BY <1>1 DEF NothingIsLost, LostInv
<1> QED
  BY <1>8, <1>9, <1>10, <1>11, <1>12 DEF LostInv

\* What a written change leaves owed, and what it is bound to drop is no longer.
LEMMA LostWhenTheUserWrites == TInv /\ LostInv /\ WriteTheFile("user") => LostInv'
<1> SUFFICES ASSUME TInv, LostInv, WriteTheFile("user") PROVE LostInv'
  OBVIOUS
<1> DEFINE d == doing["user"]
           c == d.change
           out == [profile |-> d.at, path |-> c.path, text |-> EntryAt(d.read, c.path).text]
<1>1. /\ d \in InHand /\ ~d.written
      /\ keeping' = keeping /\ undo' = undo
      /\ owed' = OwedAfter(d)
      /\ doing' = [doing EXCEPT !["user"] = [d EXCEPT !.written = TRUE]]
      /\ doing \in [Thread -> Maybe(InHand)]
  BY DEF WriteTheFile, TInv, KeptTypes, Maybe, Thread
<1>2. /\ doing'["user"] # None /\ doing'["user"].written
      /\ doing'["user"].at = d.at /\ doing'["user"].kept = d.kept /\ doing'["user"].read = d.read
      /\ doing'["user"].change = c /\ doing'["user"].purpose = d.purpose
  <2>1. doing'["user"] = [d EXCEPT !.written = TRUE]
    BY <1>1 DEF Thread
  <2>2. [d EXCEPT !.written = TRUE] \in InHand
    BY <1>1 DEF InHand
  <2> QED
    BY ZenonT(30), <1>1, <2>1, <2>2, NoneIsNeither DEF InHand
<1>3. /\ WellFormed(c) /\ ~Refuses(d.read, d.kept, c) /\ d.doc = Rewritten(d.read, d.kept, c)
      /\ d.read \in Seq(Entry) /\ d.kept \in Seq(Kept) /\ d.doc \in Seq(Entry) /\ d.at \in Profile
      /\ c.path \in Path /\ c \in Change
  <2>1. doing["user"] # None /\ "user" \in Thread
    BY DEF WriteTheFile, Thread
  <2>2. WellFormed(c) /\ ~Refuses(d.read, d.kept, c) /\ d.doc = Rewritten(d.read, d.kept, c)
    BY <2>1 DEF TInv, InHandIsSound
  <2>3. c \in Change
    BY <2>2 DEF WellFormed
  <2> QED
    BY <1>1, <2>2, <2>3 DEF InHand, Change
<1>4. doing["user"] # None
  BY DEF WriteTheFile
<1> HIDE DEF d, c
<1>5. /\ \A o \in owed' : o \in owed \/ (o = out /\ Takes(c))
      /\ \A o \in owed' : <<o.path, o.text>> \in ToSet(Shape(d.doc)) => o.profile # d.at
      /\ Takes(c) => \A o \in owed' : o.profile = d.at /\ o.path = c.path => o = out
  BY <1>1 DEF OwedAfter, Takes, c
<1>6. /\ \A j \in 1..Len(d.doc) : <<d.doc[j].path, d.doc[j].text>> \in ToSet(Shape(d.doc))
  <2>1. DOMAIN Shape(d.doc) = 1..Len(d.doc) /\ \A j \in 1..Len(d.doc) : Shape(d.doc)[j] = <<d.doc[j].path, d.doc[j].text>>
    BY <1>3, ShapeIsOne, LenProperties DEF ShapeOf
  <2> QED
    BY <2>1 DEF ToSet
<1>7. c.kind \in {"edit", "restore"} =>
        \E j \in 1..Len(d.doc) : /\ d.doc[j].path = c.to
                               /\ d.doc[j].text = IF c.kind = "edit" THEN c.text ELSE d.kept[NewestAt(c.path, d.kept)].text
  BY <1>3, PathsStay
<1>8. KeptIsThere'
  BY <1>1, <1>2, <1>4 DEF KeptIsThere, LostInv, d, c
<1>9. UndoInHand'
  BY <1>1, <1>2, <1>4 DEF UndoInHand, LostInv, d, c
<1>10. UndoIsOfItsEdit'
  <2> SUFFICES ASSUME undo # None, undo.effect = "edit", undo.was.path # undo.path, ~Takes(c),
                      NEW o \in owed', o.profile = undo.profile, o.path = undo.was.path
               PROVE  o.text = undo.was.text
    BY <1>1, <1>2 DEF UndoIsOfItsEdit
  <2>1. o \in owed
    BY <1>5
  <2>2. ~d.written
    BY <1>1
  <2> QED
    BY <2>1, <2>2 DEF UndoIsOfItsEdit, LostInv, d
<1>11. NothingIsLost'
  <2> SUFFICES ASSUME NEW o \in owed' PROVE \E e \in ToSet(keeping[o.profile]) : e.path = o.path /\ e.text = o.text
    BY <1>1 DEF NothingIsLost
  <2>1. CASE o \in owed
    BY <2>1 DEF LostInv, NothingIsLost
  <2>2. CASE o = out /\ Takes(c)
    <3>1. keeping[d.at] = Append(d.kept, TakenFrom(d.read, c.path))
      BY <1>4, <2>2 DEF LostInv, KeptIsThere, d, c
    <3>2. Has(d.read, c.path)
      BY <1>3, <2>2 DEF Takes, Moves, Refuses
    <3>3. /\ TakenFrom(d.read, c.path) \in Kept /\ TakenFrom(d.read, c.path).path = c.path
          /\ TakenFrom(d.read, c.path).text = EntryAt(d.read, c.path).text
      BY <1>3, <3>2, WhatIsTaken
    <3>4. TakenFrom(d.read, c.path) \in ToSet(keeping[d.at])
      <4> DEFINE x == TakenFrom(d.read, c.path)
      <4> HIDE DEF x
      <4>1. x \in Kept /\ keeping[d.at] = Append(d.kept, x)
        BY <3>1, <3>3 DEF x
      <4>2. Append(d.kept, x) \in Seq(Kept) /\ Len(Append(d.kept, x)) = Len(d.kept) + 1
            /\ Append(d.kept, x)[Len(d.kept) + 1] = x
        BY <1>3, <4>1, AppendProperties
      <4>3. Len(d.kept) + 1 \in DOMAIN Append(d.kept, x)
        BY <1>3, <4>2, LenProperties
      <4> QED
        BY <4>1, <4>2, <4>3 DEF ToSet, x
    <3> QED
      BY <2>2, <3>3, <3>4
  <2> QED
    BY <1>5, <2>1, <2>2
<1>12. SettledIsNotOwed'
  <2> SUFFICES ASSUME NEW o \in owed', o.profile = d.at
               PROVE  /\ c.kind = "restore" /\ o.path = c.path => o.text # d.kept[NewestAt(c.path, d.kept)].text
                      /\ Moves(c) /\ d.purpose = "undo" => o.path # c.to
                      /\ Moves(c) /\ o.path = c.path => o.text = EntryAt(d.read, c.path).text
    BY <1>1, <1>2 DEF SettledIsNotOwed
  <2>0. ~(\E j \in 1..Len(d.doc) : d.doc[j].path = o.path /\ d.doc[j].text = o.text)
    BY <1>5, <1>6
  <2>1. c.kind = "restore" /\ o.path = c.path => o.text # d.kept[NewestAt(c.path, d.kept)].text
    BY <1>3, <1>7, <2>0 DEF WellFormed
  <2>2. Moves(c) /\ o.path = c.path => o.text = EntryAt(d.read, c.path).text
    BY <1>5 DEF Takes
  <2>3. ASSUME Moves(c), d.purpose = "undo", o.path = c.to PROVE FALSE
    <3>1. undo # None /\ undo.profile = d.at /\ c = OppositeOf(undo) /\ undo \in ToUndo
      BY <1>4, <2>3 DEF LostInv, UndoInHand, d, c, TInv, KeptTypes, Maybe
    <3>2. undo.effect = "edit"
      BY <2>3, <3>1 DEF Moves, OppositeOf, RemoveOf, RestoreOf, ToUndo
    <3>3. c = EditOf(undo.path, undo.was.path, undo.was.text)
      BY <3>1, <3>2 DEF OppositeOf
    <3>4. c.kind = "edit" /\ c.path = undo.path /\ c.to = undo.was.path /\ c.text = undo.was.text
      BY <3>3 DEF EditOf
    <3>5. undo.was.path # undo.path
      BY <2>3, <3>4 DEF Moves
    <3>6. o \in owed
      BY <1>5, <2>3, <3>4, <3>5
    <3>7. o.text = undo.was.text
      BY <1>1, <2>3, <3>1, <3>2, <3>4, <3>5, <3>6 DEF LostInv, UndoIsOfItsEdit, d
    <3> QED
      BY <1>7, <2>0, <2>3, <3>4, <3>7
  <2> QED
    BY <2>1, <2>2, <2>3
<1> QED
  BY <1>8, <1>9, <1>10, <1>11, <1>12 DEF LostInv

\* What is dropped when a change is settled is back in the file, or given up by an undo.
LEMMA LostWhenItIsSettled == TInv /\ LostInv /\ Settle => LostInv'
<1> SUFFICES ASSUME TInv, LostInv, Settle PROVE LostInv'
  OBVIOUS
<1> DEFINE d == doing["user"]
           c == d.change
<1>1. PICK drops \in BOOLEAN :
        /\ keeping' = IF drops THEN [keeping EXCEPT ![d.at] = KeepingAfter(d)] ELSE keeping
        /\ undo' = UndoAfter(d)
        /\ owed' = IF d.purpose = "undo" /\ Moves(c) /\ drops
                   THEN {o \in owed : ~(o.profile = d.at /\ o.path = c.path)} ELSE owed
  BY DEF Settle
<1>2. d # None /\ d.written /\ d \in InHand /\ doing'["user"] = None
  BY DEF Settle, TInv, KeptTypes, Maybe, Thread
<1>3. /\ WellFormed(c) /\ ~Refuses(d.read, d.kept, c)
      /\ d.read \in Seq(Entry) /\ d.kept \in Seq(Kept) /\ d.at \in Profile /\ d.at = profile
      /\ c.path \in Path /\ c \in Change
  <2>1. doing["user"] # None /\ "user" \in Thread
    BY <1>2 DEF Thread
  <2>2. WellFormed(c) /\ ~Refuses(d.read, d.kept, c) /\ d.at = profile
    BY <2>1 DEF TInv, InHandIsSound
  <2>3. c \in Change
    BY <2>2 DEF WellFormed
  <2> QED
    BY <1>2, <2>2, <2>3 DEF InHand, Change
<1>4. KeptIsThere' /\ UndoInHand' /\ SettledIsNotOwed'
  BY <1>2 DEF KeptIsThere, UndoInHand, SettledIsNotOwed
<1>5. owed' \subseteq owed
  BY <1>1
<1>6. /\ \A o \in owed : o.profile = d.at /\ c.kind = "restore" /\ o.path = c.path
                         => o.text # d.kept[NewestAt(c.path, d.kept)].text
      /\ \A o \in owed : o.profile = d.at /\ Moves(c) /\ d.purpose = "undo" => o.path # c.to
      /\ \A o \in owed : o.profile = d.at /\ Moves(c) /\ o.path = c.path => o.text = EntryAt(d.read, c.path).text
      /\ keeping[d.at] = IF Takes(c) THEN Append(d.kept, TakenFrom(d.read, c.path)) ELSE d.kept
  BY <1>2 DEF LostInv, SettledIsNotOwed, KeptIsThere
<1>7. keeping[d.at] \in Seq(Kept) /\ keeping \in [Profile -> Seq(Kept)]
  BY <1>3 DEF TInv, KeptTypes
<1> HIDE DEF d, c
<1>8. UndoIsOfItsEdit'
  <2> SUFFICES ASSUME undo' # None, undo'.effect = "edit", undo'.was.path # undo'.path,
                      NEW o \in owed, o.profile = undo'.profile, o.path = undo'.was.path
               PROVE  o.text = undo'.was.text
    BY <1>5 DEF UndoIsOfItsEdit
  <2>1. CASE undo' = undo /\ ~Takes(c)
    BY <2>1 DEF LostInv, UndoIsOfItsEdit, c, d
  <2>2. CASE c.kind = "edit" /\ undo' = Remembered(d, "edit", c.to, EntryAt(d.read, c.path))
    <3>1. undo'.profile = d.at /\ undo'.path = c.to /\ undo'.was = EntryAt(d.read, c.path)
      BY <1>3, <2>2 DEF Remembered
    <3>2. EntryAt(d.read, c.path).path = c.path
      BY <1>3, <2>2, WhatIsTaken DEF Refuses
    <3>3. Moves(c)
      BY <2>2, <3>1, <3>2 DEF Moves
    <3> QED
      BY <1>6, <3>1, <3>2, <3>3
  <2>3. CASE undo' = None \/ undo'.effect # "edit"
    BY <2>3
  <2>4. d.purpose = "undo" => undo' = None
    BY <1>1 DEF UndoAfter
  <2>5. d.purpose # "undo" =>
          /\ c.kind = "switch" => undo' = undo
          /\ c.kind = "add" => undo' = Remembered(d, "remove", c.path, None)
          /\ c.kind = "edit" => undo' = Remembered(d, "edit", c.to, EntryAt(d.read, c.path))
          /\ c.kind = "remove" => undo' = None \/ undo' = Remembered(d, "restore", c.path, None)
          /\ c.kind = "restore" => undo' = undo \/ undo' = None
    BY <1>1 DEF UndoAfter, c, WithoutTheUndoThatRestores
  <2>6. /\ Remembered(d, "remove", c.path, None).effect # "edit"
        /\ Remembered(d, "restore", c.path, None).effect # "edit"
    BY DEF Remembered
  <2>7. c.kind \in {"switch", "restore"} => ~Takes(c)
    BY DEF Takes, Moves
  <2> QED
    BY <1>3, <2>1, <2>2, <2>3, <2>4, <2>5, <2>6, <2>7 DEF Change
<1>9. NothingIsLost'
  <2> SUFFICES ASSUME NEW o \in owed' PROVE \E e \in ToSet(keeping'[o.profile]) : e.path = o.path /\ e.text = o.text
    BY DEF NothingIsLost
  <2>1. o \in owed /\ o.profile \in Profile
    BY <1>5 DEF TInv, KeptTypes, EntryOwed
  <2>2. \E e \in ToSet(keeping[o.profile]) : e.path = o.path /\ e.text = o.text
    BY <2>1 DEF LostInv, NothingIsLost
  <2>3. CASE ~drops \/ o.profile # d.at \/ KeepingAfter(d) = keeping[d.at]
    BY <1>1, <1>7, <2>1, <2>2, <2>3
  <2>4. CASE drops /\ o.profile = d.at
    <3> DEFINE k == keeping[d.at]
    <3>1. PICK e \in ToSet(k) : e.path = o.path /\ e.text = o.text
      BY <2>2, <2>4
    <3>2. keeping'[o.profile] = KeepingAfter(d)
      BY <1>1, <1>3, <1>7, <2>4
    <3> HIDE DEF k
    <3>3. k \in Seq(Kept)
      BY <1>7 DEF k
    <3>4. CASE c.kind = "restore"
      <4>1. KeepingAfter(d) = Dropped(k, c.path)
        BY <3>4 DEF KeepingAfter, k, c, Moves
      <4>2. k = d.kept
        BY <1>6, <3>4 DEF Takes, Moves, k
      <4>3. ~(e = k[NewestAt(c.path, k)] /\ e.path = c.path)
        BY <1>6, <2>1, <2>4, <3>1, <3>4, <4>2
      <4>4. e \in ToSet(Dropped(k, c.path))
        BY <3>1, <3>3, <4>3, WhatIsLeft
      <4> QED
        BY <3>1, <3>2, <4>1, <4>4
    <3>5. CASE d.purpose = "undo" /\ Moves(c)
      <4>1. KeepingAfter(d) = Dropped(Dropped(k, c.path), c.to)
        BY <3>5 DEF KeepingAfter, k, c, Moves
      <4>2. o.path # c.path /\ o.path # c.to
        BY <1>1, <1>6, <2>1, <2>4, <3>5
      <4>3. e \in ToSet(Dropped(k, c.path)) /\ Dropped(k, c.path) \in Seq(Kept)
        BY <3>1, <3>3, <4>2, WhatIsLeft, WhatIsDropped
      <4>4. e \in ToSet(Dropped(Dropped(k, c.path), c.to))
        BY <3>1, <4>2, <4>3, WhatIsLeft
      <4> QED
        BY <3>1, <3>2, <4>1, <4>4
    <3>6. CASE c.kind # "restore" /\ ~(d.purpose = "undo" /\ Moves(c))
      <4>1. KeepingAfter(d) = k
        BY <3>6 DEF KeepingAfter, k, c
      <4> QED
        BY <3>1, <3>2, <4>1
    <3> QED
      BY <3>4, <3>5, <3>6
  <2> QED
    BY <2>3, <2>4
<1> QED
  BY <1>4, <1>8, <1>9 DEF LostInv

\* What the user forgets is owed no more.
LEMMA LostWhenItIsForgotten == TInv /\ LostInv /\ (\E p \in Path : Forget(p)) => LostInv'
<1> SUFFICES ASSUME TInv, LostInv, NEW p \in Path, Forget(p) PROVE LostInv'
  OBVIOUS
<1> DEFINE k == keeping[inUse]
           x == k[NewestAt(p, k)]
<1>1. /\ doing["user"] = None /\ doing' = doing
      /\ owed' = owed \ {[profile |-> inUse, path |-> p, text |-> x.text]}
      /\ keeping' = [keeping EXCEPT ![inUse] = Dropped(k, p)]
      /\ undo' \in {undo, None}
  BY DEF Forget, MayGesture, TheFileIsFree, Thread, UndoOf, WithoutTheUndoThatRestores
<1>2. KeptIsThere' /\ UndoInHand' /\ SettledIsNotOwed' /\ UndoIsOfItsEdit'
  BY <1>1 DEF KeptIsThere, UndoInHand, SettledIsNotOwed, UndoIsOfItsEdit, LostInv
<1>3. NothingIsLost'
  <2> SUFFICES ASSUME NEW o \in owed' PROVE \E e \in ToSet(keeping'[o.profile]) : e.path = o.path /\ e.text = o.text
    BY DEF NothingIsLost
  <2>1. o \in owed /\ o \in EntryOwed /\ keeping \in [Profile -> Seq(Kept)]
    BY <1>1 DEF TInv, KeptTypes
  <2>2. PICK e \in ToSet(keeping[o.profile]) : e.path = o.path /\ e.text = o.text
    BY <2>1 DEF LostInv, NothingIsLost
  <2>3. CASE o.profile # inUse
    BY <1>1, <2>1, <2>2, <2>3 DEF EntryOwed
  <2>4. CASE o.profile = inUse
    <3>1. ~(e = x /\ e.path = p)
      BY <1>1, <2>1, <2>2, <2>4 DEF EntryOwed
    <3>2. k \in Seq(Kept) /\ e \in ToSet(k)
      BY <2>1, <2>2, <2>4 DEF EntryOwed
    <3>3. e \in ToSet(Dropped(k, p))
      BY <3>1, <3>2, WhatIsLeft
    <3>4. keeping'[o.profile] = Dropped(k, p)
      BY <1>1, <2>1, <2>4 DEF EntryOwed
    <3> QED
      BY <2>2, <3>3, <3>4
  <2> QED
    BY <2>3, <2>4
<1> QED
  BY <1>2, <1>3 DEF LostInv

\* What the program took out of a file is kept until it is back there or given up.
THEOREM NothingIsEverLost == Spec => []NothingIsLost
<1>1. Init => LostInv
  BY DEF Init, LostInv, KeptIsThere, UndoInHand, SettledIsNotOwed, UndoIsOfItsEdit, NothingIsLost, Thread
<1>2. TInv /\ LostInv /\ [Next]_vars => LostInv'
  BY HowTheKeepingChanges, LostWhenTheUserBegins, LostWhenTheRestIsKept, LostWhenTheUserWrites,
     LostWhenItIsSettled, LostWhenItIsForgotten, LostWhenAnotherWrites
<1>3. LostInv => NothingIsLost
  BY DEF LostInv
<1> QED
  BY <1>1, <1>2, <1>3, TInvAtFirst, TInvStays, PTL DEF Spec

-----------------------------------------------------------------------------
(* The presets name what is in the files. *)

\* What a preset names was in the file a change that is still to be written read.
WhatIsReadIsNamed ==
    \A t \in Thread : doing[t] # None /\ ~doing[t].written =>
      \A x \in Path : preset[doing[t].at][x] # None => Has(doing[t].read, x) \/ <<doing[t].at, x>> \in gone
\* The path a written change leads to is in the file until another program removes it.
WhereItLeadsIsThere ==
    doing["user"] # None /\ doing["user"].written =>
      LET d == doing["user"] IN Has(file[d.at], d.change.to) \/ <<d.at, d.change.to>> \in gone

NamedInv == WhatIsReadIsNamed /\ WhereItLeadsIsThere /\ NoPresetIsLeftBehind

\* The steps, by what they do to the presets and to the paths of the files.
LeavesThePresets ==
    /\ file' = file /\ preset' = preset /\ gone \subseteq gone'
    /\ \A t \in Thread : doing'[t] \in {doing[t], None}
    /\ doing'["user"] = None /\ doing["user"] # None /\ doing["user"].written
         => <<doing["user"].at, doing["user"].change.path>> \in gone'

\* The steps that change the presets or the files they name, and the others.
LEMMA HowThePresetsChange ==
  ASSUME TInv, [Next]_vars
  PROVE  \/ BeginsAChange /\ preset' = preset /\ gone' = gone
         \/ LeavesThePresets \/ Settle
         \/ \E t \in Thread : WriteTheFile(t)
         \/ \E p \in Profile : ForeignWrite(p)
<1>t. Thread = {"user", "preset"} /\ doing \in [Thread -> Maybe(InHand)]
  BY DEF Thread, TInv, KeptTypes
<1>1. CASE Gesture \/ Switch \/ Undo
  <2>1. preset' = preset /\ gone' = gone /\ file' = file /\ inUse' = inUse /\ foreign' = foreign /\ mishaps' = mishaps
    BY <1>1 DEF Gesture, Switch, Undo, ghosts, disk
  <2>2. BeginsAChange
    BY <1>1, <2>1, UserBeginsAChange
  <2> QED
    BY <2>1, <2>2
<1>4. CASE RunASwitch
  <2>1. PICK p \in worker.off \cup worker.on :
         \/ Begin("preset", SwitchOf(p, p \notin worker.off), "preset")
         \/ UNCHANGED <<keeping, doing>>
    BY <1>4 DEF RunASwitch
  <2>2. p \in Path
    BY <1>4 DEF RunASwitch, TInv, KeptTypes, Maybe, Applying
  <2>3. WellFormed(SwitchOf(p, p \notin worker.off))
    BY <2>2 DEF SwitchOf, WellFormed, Change, Maybe
  <2>4. UNCHANGED <<file, inUse, foreign, mishaps, preset, gone>>
    BY <1>4 DEF RunASwitch, bounds
  <2>5. CASE Begin("preset", SwitchOf(p, p \notin worker.off), "preset")
    <3>1. SwitchOf(p, p \notin worker.off) \in Change /\ "preset" \in Thread
      BY <2>3 DEF WellFormed, Thread
    <3> QED
      BY <2>3, <2>4, <2>5, <3>1 DEF BeginsAChange
  <2>6. CASE UNCHANGED <<keeping, doing>>
    BY <2>4, <2>6 DEF LeavesThePresets
  <2> QED
    BY <2>1, <2>5, <2>6
<1>6. CASE \E t \in Thread : TheWriteFails(t)
  BY <1>6, <1>t DEF TheWriteFails, LeavesThePresets, disk
<1>7. CASE Crash
  BY <1>7, <1>t DEF Crash, LeavesThePresets, disk
<1>8. CASE \E p \in Path : Forget(p)
  BY <1>8 DEF Forget, LeavesThePresets
<1>9. CASE UndoNothing \/ StartToApply \/ PlanTheSwitches \/ RefuseToApply \/ EndTheApply \/ UseItsFile
           \/ \E p \in Profile : ShowProfile(p)
  BY <1>9 DEF UndoNothing, StartToApply, PlanTheSwitches, RefuseToApply, EndTheApply, UseItsFile, ShowProfile,
              LeavesThePresets, disk, bounds, ghosts
<1>10. CASE RecordTheReturn
  BY <1>10 DEF RecordTheReturn, LeavesThePresets, bounds
<1>11. CASE UNCHANGED vars
  BY <1>11 DEF vars, LeavesThePresets, disk, bounds, ghosts
<1> QED
  BY <1>1, <1>4, <1>6, <1>7, <1>8, <1>9, <1>10, <1>11 DEF Next

\* A change reads a file in which what the presets name is.
LEMMA NamedWhenAChangeBegins ==
  TInv /\ NamedInv /\ BeginsAChange /\ preset' = preset /\ gone' = gone => NamedInv'
<1> SUFFICES ASSUME TInv, NamedInv, BeginsAChange, preset' = preset, gone' = gone PROVE NamedInv'
  OBVIOUS
<1>1. PICK u \in Thread, c \in Change, purpose \in {"gesture", "undo", "preset"} : WellFormed(c) /\ Begin(u, c, purpose)
  BY DEF BeginsAChange
<1>2. /\ \A t \in Thread : doing[t] = None
      /\ doing'[u] = Begun(c, purpose) /\ \A v \in Thread : v # u => doing'[v] = None
  BY <1>1, WhatBeginDoes DEF TInv
<1>3. file' = file /\ inUse \in Profile
  BY DEF BeginsAChange, TInv, KeptTypes
<1>4. \A p \in Profile, x \in Path : preset[p][x] # None => Has(file[p], x) \/ <<p, x>> \in gone
  BY <1>2 DEF NamedInv, NoPresetIsLeftBehind, Thread
<1>5. NoPresetIsLeftBehind'
  BY <1>3, <1>4 DEF NoPresetIsLeftBehind
<1>6. WhatIsReadIsNamed'
  BY <1>2, <1>3, <1>4 DEF WhatIsReadIsNamed, Begun
<1>7. WhereItLeadsIsThere'
  BY <1>2 DEF WhereItLeadsIsThere, Begun, Thread
<1> QED
  BY <1>5, <1>6, <1>7 DEF NamedInv

\* A step that leaves the files and the presets leaves what they name.
LEMMA NamedWhenThePresetsAreLeft == TInv /\ NamedInv /\ LeavesThePresets => NamedInv'
<1> SUFFICES ASSUME TInv, NamedInv, LeavesThePresets PROVE NamedInv'
  OBVIOUS
<1>1. /\ file' = file /\ preset' = preset /\ gone \subseteq gone'
      /\ \A t \in Thread : doing'[t] \in {doing[t], None}
      /\ doing'["user"] = None /\ doing["user"] # None /\ doing["user"].written
           => <<doing["user"].at, doing["user"].change.path>> \in gone'
      /\ "user" \in Thread
  BY DEF LeavesThePresets, Thread
<1>2. WhatIsReadIsNamed'
  BY <1>1 DEF WhatIsReadIsNamed, NamedInv
<1>3. WhereItLeadsIsThere'
  BY <1>1 DEF WhereItLeadsIsThere, NamedInv
<1>4. NoPresetIsLeftBehind'
  BY <1>1 DEF NoPresetIsLeftBehind, NamedInv
<1> QED
  BY <1>2, <1>3, <1>4 DEF NamedInv

\* A write leaves what the presets name, but for what is removed and what is edited away
\* and will be followed.
LEMMA NamedWhenAThreadWrites == TInv /\ NamedInv /\ (\E t \in Thread : WriteTheFile(t)) => NamedInv'
<1> SUFFICES ASSUME TInv, NamedInv, NEW t \in Thread, WriteTheFile(t) PROVE NamedInv'
  OBVIOUS
<1> DEFINE d == doing[t]
           c == d.change
<1>1. /\ d # None /\ ~d.written /\ d \in InHand
      /\ file' = [file EXCEPT ![d.at] = d.doc]
      /\ gone' = IF c.kind = "remove" THEN gone \cup {<<d.at, c.path>>} ELSE gone
      /\ doing' = [doing EXCEPT ![t] = IF t = "preset" THEN None ELSE [d EXCEPT !.written = TRUE]]
      /\ preset' = preset
  BY DEF WriteTheFile, TInv, KeptTypes, Maybe
<1>2. /\ WellFormed(c) /\ ~Refuses(d.read, d.kept, c) /\ d.doc = Rewritten(d.read, d.kept, c)
      /\ t = "preset" => c.kind = "switch"
  BY <1>1 DEF TInv, InHandIsSound
<1>3. d.read \in Seq(Entry) /\ d.kept \in Seq(Kept) /\ d.at \in Profile /\ c \in Change /\ c.path \in Path
  BY <1>1 DEF InHand, Change
<1>4. doing \in [Thread -> Maybe(InHand)] /\ file \in [Profile -> Seq(Entry)]
  BY DEF TInv, KeptTypes
<1>5. \A v \in Thread : v # t => doing[v] = None /\ doing'[v] = None
  BY <1>1, <1>4 DEF TInv, OneChangeAtATime, Thread
<1>6. t = "user" => /\ doing'[t] # None /\ doing'[t].written /\ doing'[t].at = d.at /\ doing'[t].change = c
  <2>1. [d EXCEPT !.written = TRUE] \in InHand
    BY <1>1 DEF InHand
  <2> QED
    BY <1>1, <1>4, <2>1, NoneIsNeither DEF InHand
<1>7. t = "preset" => doing'[t] = None
  BY <1>1, <1>4
<1>8. /\ \A x \in Path : Has(d.read, x) => Has(d.doc, x) \/ (x = c.path /\ Takes(c))
      /\ c.kind # "remove" => Has(d.doc, c.to)
  BY <1>2, <1>3, PathsStay
<1>9. \A x \in Path : preset[d.at][x] # None => Has(d.read, x) \/ <<d.at, x>> \in gone
  BY <1>1 DEF NamedInv, WhatIsReadIsNamed
<1>10. file'[d.at] = d.doc /\ gone \subseteq gone' /\ \A p \in Profile : p # d.at => file'[p] = file[p]
  BY <1>1, <1>3, <1>4
<1>11. c.kind = "remove" => <<d.at, c.path>> \in gone' /\ c.to = c.path
  BY <1>1, <1>2 DEF WellFormed
<1> HIDE DEF d, c
<1>12. WhatIsReadIsNamed'
  BY <1>5, <1>6, <1>7 DEF WhatIsReadIsNamed, Thread
<1>13. WhereItLeadsIsThere'
  BY <1>5, <1>6, <1>7, <1>8, <1>10, <1>11 DEF WhereItLeadsIsThere, Thread
<1>14. NoPresetIsLeftBehind'
  <2> SUFFICES ASSUME NEW p \in Profile, NEW x \in Path, preset[p][x] # None,
                      ~Has(file'[p], x), <<p, x>> \notin gone'
               PROVE  doing'["user"] # None /\ doing'["user"].written /\ doing'["user"].at = p
                      /\ doing'["user"].change.path = x
    BY <1>1 DEF NoPresetIsLeftBehind
  <2>1. CASE p = d.at
    <3>1. x = c.path /\ Takes(c) /\ c.kind # "remove"
      BY <1>8, <1>9, <1>10, <1>11, <2>1
    <3>2. t = "user"
      BY <1>2, <3>1 DEF Takes, Moves, Thread
    <3> QED
      BY <1>6, <2>1, <3>1, <3>2
  <2>2. CASE p # d.at
    <3>1. doing["user"] # None /\ doing["user"].written /\ doing["user"].at = p
      BY <1>10, <2>2 DEF NamedInv, NoPresetIsLeftBehind
    <3>2. t = "user"
      BY <1>5, <3>1 DEF Thread
    <3> QED
      BY <2>2, <3>1, <3>2 DEF d
  <2> QED
    BY <2>1, <2>2
<1> QED
  BY <1>12, <1>13, <1>14 DEF NamedInv

\* Another program removes one entry: the other paths stay.
LEMMA WhatAnotherLeaves ==
  ASSUME KeptTypes, NEW p \in Profile, ForeignWrite(p)
  PROVE  \A q \in Profile, x \in Path : Has(file[q], x) => Has(file'[q], x) \/ <<q, x>> \in gone'
<1> SUFFICES ASSUME NEW q \in Profile, NEW x \in Path, Has(file[q], x) PROVE Has(file'[q], x) \/ <<q, x>> \in gone'
  OBVIOUS
<1>1. file \in [Profile -> Seq(Entry)] /\ file[p] \in Seq(Entry) /\ TheirEntries \subseteq Entry
  BY StartsAssumption DEF KeptTypes
<1>2. CASE q # p
  <2>1. file'[q] = file[q]
    BY <1>1, <1>2 DEF ForeignWrite
  <2> QED
    BY <2>1
<1>3. CASE q = p
  <2>1. PICK j \in 1..Len(file[p]) : file[p][j].path = x
    BY <1>1, <1>3, HasIsSomewhere
  <2>2. ASSUME NEW e \in TheirEntries, file' = [file EXCEPT ![p] = Append(@, e)]
        PROVE  Has(file'[p], x)
    <3>1. file'[p] = Append(file[p], e) /\ e \in Entry
      BY <1>1, <2>2
    <3>2. Append(file[p], e) \in Seq(Entry) /\ j \in 1..Len(Append(file[p], e)) /\ Append(file[p], e)[j] = file[p][j]
      BY <1>1, <2>1, <3>1, AppendProperties
    <3> QED
      BY <2>1, <3>1, <3>2, HasIsSomewhere
  <2>3. ASSUME NEW i \in DOMAIN file[p], file' = [file EXCEPT ![p] = RemoveAt(@, i)],
               gone' = gone \cup {<<p, file[p][i].path>>}
        PROVE  Has(file'[p], x) \/ <<p, x>> \in gone'
    <3> DEFINE n == RemoveAt(file[p], i)
    <3>1. i \in 1..Len(file[p]) /\ file'[p] = n
      BY <1>1, <2>3, LenProperties
    <3>2. /\ n \in Seq(Entry) /\ Len(n) = Len(file[p]) - 1
          /\ \A k \in 1..(Len(file[p]) - 1) : n[k] = IF k < i THEN file[p][k] ELSE file[p][k + 1]
      BY <1>1, <3>1, TakenOut
    <3> HIDE DEF n
    <3>3. CASE i = j
      BY <2>1, <2>3, <3>3
    <3>4. CASE j < i
      <4>1. j \in 1..Len(n) /\ n[j] = file[p][j]
        BY <1>1, <3>1, <3>2, <3>4
      <4> QED
        BY <2>1, <3>1, <3>2, <4>1, HasIsSomewhere
    <3>5. CASE j > i
      <4>1. j - 1 \in 1..Len(n) /\ n[j - 1] = file[p][j]
        BY <1>1, <3>1, <3>2, <3>5
      <4> QED
        BY <2>1, <3>1, <3>2, <4>1, HasIsSomewhere
    <3> QED
      BY <3>1, <3>3, <3>4, <3>5
  <2> QED
    BY <1>3, <2>2, <2>3 DEF ForeignWrite
<1> QED
  BY <1>2, <1>3

\* What another program takes out of a file is what the presets may name in vain.
LEMMA NamedWhenAnotherWrites == TInv /\ NamedInv /\ (\E p \in Profile : ForeignWrite(p)) => NamedInv'
<1> SUFFICES ASSUME TInv, NamedInv, NEW p \in Profile, ForeignWrite(p) PROVE NamedInv'
  OBVIOUS
<1>1. /\ preset' = preset /\ gone \subseteq gone'
      /\ doing' = [t \in Thread |-> IF doing[t] # None /\ doing[t].at = p
                                   THEN [doing[t] EXCEPT !.stale = TRUE] ELSE doing[t]]
      /\ doing \in [Thread -> Maybe(InHand)] /\ file \in [Profile -> Seq(Entry)]
  BY DEF ForeignWrite, TInv, KeptTypes
<1>2. \A q \in Profile, x \in Path : Has(file[q], x) => Has(file'[q], x) \/ <<q, x>> \in gone'
  BY WhatAnotherLeaves DEF TInv
<1>3. ASSUME NEW t \in Thread
      PROVE  /\ doing'[t] # None <=> doing[t] # None
             /\ doing[t] # None => /\ doing'[t].at = doing[t].at /\ doing'[t].read = doing[t].read
                                   /\ doing'[t].written = doing[t].written /\ doing'[t].change = doing[t].change
  <2>1. doing[t] # None => [doing[t] EXCEPT !.stale = TRUE] \in InHand /\ doing[t] \in InHand
    BY <1>1 DEF Maybe, InHand
  <2>2. doing'[t] = IF doing[t] # None /\ doing[t].at = p THEN [doing[t] EXCEPT !.stale = TRUE] ELSE doing[t]
    BY <1>1
  <2> QED
    BY <2>1, <2>2, NoneIsNeither DEF InHand
<1>4. WhatIsReadIsNamed'
  BY <1>1, <1>3 DEF WhatIsReadIsNamed, NamedInv
<1>5. WhereItLeadsIsThere'
  <2> SUFFICES ASSUME doing["user"] # None, doing["user"].written
               PROVE  LET d == doing["user"] IN Has(file'[d.at], d.change.to) \/ <<d.at, d.change.to>> \in gone'
    BY <1>3 DEF WhereItLeadsIsThere, Thread
  <2>1. doing["user"].at \in Profile /\ doing["user"].change.to \in Path
    BY <1>1 DEF Thread, Maybe, InHand, Change
  <2> QED
    BY <1>1, <1>2, <2>1 DEF WhereItLeadsIsThere, NamedInv
<1>6. NoPresetIsLeftBehind'
  BY <1>1, <1>2, <1>3 DEF NoPresetIsLeftBehind, NamedInv, Thread
<1> QED
  BY <1>4, <1>5, <1>6 DEF NamedInv

\* The presets follow an edit to where it leads, or it is noted that they could not.
LEMMA NamedWhenItIsSettled == TInv /\ NamedInv /\ Settle => NamedInv'
<1> SUFFICES ASSUME TInv, NamedInv, Settle PROVE NamedInv'
  OBVIOUS
<1> DEFINE d == doing["user"]
           c == d.change
<1>1. PICK follows \in BOOLEAN :
        /\ ~follows => Moves(c)
        /\ preset' = IF follows /\ Moves(c) THEN [preset EXCEPT ![profile] = Retargeted(@, c.path, c.to)] ELSE preset
        /\ gone' = IF ~follows /\ Moves(c) THEN gone \cup {<<d.at, c.path>>} ELSE gone
  BY DEF Settle, FollowInThePresets
<1>2. /\ d # None /\ d.written /\ file' = file
      /\ doing \in [Thread -> Maybe(InHand)] /\ doing' = [doing EXCEPT !["user"] = None]
      /\ preset \in [Profile -> Wish] /\ profile \in Profile
  BY DEF Settle, TInv, KeptTypes
<1>3. d.at = profile /\ WellFormed(c)
  BY <1>2 DEF TInv, InHandIsSound, Thread
<1>4. \A t \in Thread : doing'[t] = None
  BY <1>2 DEF TInv, OneChangeAtATime, Thread
<1>5. Has(file[profile], c.to) \/ <<profile, c.to>> \in gone
  BY <1>2, <1>3 DEF NamedInv, WhereItLeadsIsThere
<1>6. \A p \in Profile, x \in Path : preset[p][x] # None
         => Has(file[p], x) \/ <<p, x>> \in gone \/ (p = profile /\ x = c.path)
  BY <1>3 DEF NamedInv, NoPresetIsLeftBehind
<1>7. c.path \in Path /\ c.to \in Path
  BY <1>3 DEF WellFormed, Change
<1> HIDE DEF d, c
<1>8. NoPresetIsLeftBehind'
  <2> SUFFICES ASSUME NEW p \in Profile, NEW x \in Path, preset'[p][x] # None
               PROVE  Has(file[p], x) \/ <<p, x>> \in gone'
    BY <1>2 DEF NoPresetIsLeftBehind
  <2>1. CASE ~Moves(c)
    <3>1. preset' = preset /\ gone' = gone
      BY <1>1, <2>1
    <3>2. c.to = c.path
      BY <1>3, <2>1 DEF Moves, WellFormed
    <3> QED
      BY <1>5, <1>6, <3>1, <3>2
  <2>2. CASE Moves(c) /\ ~follows
    BY <1>1, <1>3, <1>6, <2>2
  <2>3. CASE Moves(c) /\ follows
    <3>1. gone' = gone /\ preset' = [preset EXCEPT ![profile] = Retargeted(preset[profile], c.path, c.to)]
      BY <1>1, <2>3
    <3>2. CASE p # profile
      BY <1>2, <1>6, <3>1, <3>2
    <3>3. CASE p = profile
      <4>1. preset'[p] = Retargeted(preset[p], c.path, c.to) /\ preset[p] \in Wish
        BY <1>2, <3>1, <3>3
      <4>2. Retargeted(preset[p], c.path, c.to)[c.path] = None
        BY <1>7, <2>3, <4>1 DEF Retargeted, Moves, Wish
      <4>3. x # c.to => preset[p][x] # None
        BY <1>7, <4>1 DEF Retargeted, Wish
      <4> QED
        BY <1>5, <1>6, <3>1, <3>3, <4>1, <4>2, <4>3
    <3> QED
      BY <3>2, <3>3
  <2> QED
    BY <2>1, <2>2, <2>3
<1>9. WhatIsReadIsNamed' /\ WhereItLeadsIsThere'
  BY <1>4 DEF WhatIsReadIsNamed, WhereItLeadsIsThere, Thread
<1> QED
  BY <1>8, <1>9 DEF NamedInv

\* A path the presets name is in the file, unless it never was there, was removed, or its
\* preset could not follow.
THEOREM ThePresetsFollow == Spec => []NoPresetIsLeftBehind
<1>1. Init => NamedInv
  <2> SUFFICES ASSUME Init PROVE NamedInv
    OBVIOUS
  <2>2. \A p \in Profile, x \in Path : preset[p][x] # None => Has(file[p], x) \/ <<p, x>> \in gone
    BY DEF Init
  <2>3. \A t \in Thread : doing[t] = None
    BY DEF Init
  <2> QED
    BY <2>2, <2>3 DEF NamedInv, WhatIsReadIsNamed, WhereItLeadsIsThere, NoPresetIsLeftBehind, Thread
<1>2. TInv /\ NamedInv /\ [Next]_vars => NamedInv'
  BY HowThePresetsChange, NamedWhenAChangeBegins, NamedWhenThePresetsAreLeft, NamedWhenAThreadWrites,
     NamedWhenItIsSettled, NamedWhenAnotherWrites
<1>3. NamedInv => NoPresetIsLeftBehind
  BY DEF NamedInv
<1> QED
  BY <1>1, <1>2, <1>3, TInvAtFirst, TInvStays, PTL DEF Spec

-----------------------------------------------------------------------------
(* The return preset is the way back. *)

\* What runs is each path with an entry that is on.
LEMMA WhatRunsIsOn ==
  ASSUME NEW doc \in Seq(Entry)
  PROVE  /\ WhatRuns(doc) \subseteq Path
         /\ \A x : x \in WhatRuns(doc) <=> \E i \in 1..Len(doc) : doc[i].path = x /\ doc[i].on
         /\ \A x \in WhatRuns(doc) : Has(doc, x)
<1>1. DOMAIN doc = 1..Len(doc) /\ \A i \in 1..Len(doc) : doc[i] \in Entry
  BY LenProperties, ElementOfSeq
<1>2. \A x : x \in WhatRuns(doc) <=> \E i \in 1..Len(doc) : doc[i].path = x /\ doc[i].on
  BY <1>1 DEF WhatRuns, ToSet
<1>3. \A x \in WhatRuns(doc) : x \in Path
  BY <1>1, <1>2 DEF Entry
<1>4. \A x \in WhatRuns(doc) : Has(doc, x)
  BY <1>2, HasIsSomewhere
<1> QED
  BY <1>2, <1>3, <1>4

\* A path comes once in the shape of a document when it does in the document.
LEMMA OnceIsOnce ==
  ASSUME NEW doc \in Seq(Entry)
  PROVE  EachPathOnce(Shape(doc)) <=> \A i, j \in 1..Len(doc) : i # j => doc[i].path # doc[j].path
<1>1. DOMAIN Shape(doc) = 1..Len(doc)
  BY ShapeIsOne, LenProperties DEF ShapeOf
<1>2. \A i \in 1..Len(doc) : Shape(doc)[i][1] = doc[i].path
  BY ShapeIsOne
<1> QED
  BY <1>1, <1>2 DEF EachPathOnce

\* Where a path is once, it runs if the entry found is on.
LEMMA TheOneThatRuns ==
  ASSUME NEW doc \in Seq(Entry), EachPathOnce(Shape(doc)), NEW x, Has(doc, x)
  PROVE  x \in WhatRuns(doc) <=> doc[PositionOf(x, doc)].on
<1>1. PositionOf(x, doc) \in 1..Len(doc) /\ doc[PositionOf(x, doc)].path = x
  BY PositionOfIt
<1>2. \A i \in 1..Len(doc) : doc[i].path = x => i = PositionOf(x, doc)
  BY <1>1, OnceIsOnce
<1> QED
  BY <1>1, <1>2, WhatRunsIsOn

\* A switch changes what runs at its path, and nothing else.
LEMMA WhatASwitchDoes ==
  ASSUME NEW doc \in Seq(Entry), NEW kept \in Seq(Kept), NEW p \in Path, NEW on \in BOOLEAN, Has(doc, p)
  PROVE  LET n == Rewritten(doc, kept, SwitchOf(p, on))
         IN  /\ n \in Seq(Entry) /\ \A x : Has(n, x) <=> Has(doc, x)
             /\ EachPathOnce(Shape(n)) <=> EachPathOnce(Shape(doc))
             /\ EachPathOnce(Shape(doc)) =>
                  \A x \in Path : x \in WhatRuns(n) <=> IF x = p THEN on ELSE x \in WhatRuns(doc)
<1> DEFINE n == Rewritten(doc, kept, SwitchOf(p, on))
           i == PositionOf(p, doc)
<1>1. i \in 1..Len(doc) /\ doc[i].path = p /\ doc[i] \in Entry
  BY PositionOfIt, ElementOfSeq
<1>2. n = [doc EXCEPT ![i] = [doc[i] EXCEPT !.on = on]]
  BY DEF Rewritten, SwitchOf
<1> HIDE DEF n, i
<1>3. [doc[i] EXCEPT !.on = on] \in Entry /\ [doc[i] EXCEPT !.on = on].path = p /\ [doc[i] EXCEPT !.on = on].on = on
  BY <1>1 DEF Entry
<1>4. /\ n \in Seq(Entry) /\ Len(n) = Len(doc)
      /\ \A j \in 1..Len(doc) : n[j].path = doc[j].path /\ n[j].on = IF j = i THEN on ELSE doc[j].on
  BY <1>1, <1>2, <1>3, ExceptSeq
<1>5. \A x : Has(n, x) <=> Has(doc, x)
  <2>1. /\ \A x : Has(n, x) <=> \E j \in 1..Len(n) : n[j].path = x
        /\ \A x : Has(doc, x) <=> \E j \in 1..Len(doc) : doc[j].path = x
    BY <1>4, HasIsSomewhere
  <2> QED
    BY <1>4, <2>1
<1>6. EachPathOnce(Shape(n)) <=> EachPathOnce(Shape(doc))
  BY <1>4, OnceIsOnce
<1>7. ASSUME EachPathOnce(Shape(doc)), NEW x \in Path
      PROVE  x \in WhatRuns(n) <=> IF x = p THEN on ELSE x \in WhatRuns(doc)
  <2>1. \A j \in 1..Len(doc) : j # i => doc[j].path # p
    BY <1>1, <1>7, OnceIsOnce
  <2>2. /\ x \in WhatRuns(n) <=> \E j \in 1..Len(doc) : n[j].path = x /\ n[j].on
        /\ x \in WhatRuns(doc) <=> \E j \in 1..Len(doc) : doc[j].path = x /\ doc[j].on
    BY <1>4, WhatRunsIsOn
  <2> QED
    BY <1>1, <1>4, <2>1, <2>2
<1> QED
  BY <1>4, <1>5, <1>6, <1>7 DEF n

\* The wish that asks for what is in A.
WishFor(A) == [x \in Path |-> IF x \in A THEN "enable" ELSE None]

\* A return preset asks for what ran when it was recorded, and for nothing else.
LEMMA WhatIsOnIsWhatRuns ==
  ASSUME NEW doc \in Seq(Entry)
  PROVE  WhatIsOn(doc) = WishFor(WhatRuns(doc))
<1>1. \A x : x \in WhatRuns(doc) <=> \E e \in ToSet(doc) : e.path = x /\ e.on
  BY DEF WhatRuns
<1> QED
  BY <1>1 DEF WhatIsOn, WishFor

\* The switches planned for a return leave on what ran, once they are all done.
LEMMA ThePlanOfAReturn ==
  ASSUME NEW doc \in Seq(Entry), NEW A \in SUBSET Path, \A x \in A : Has(doc, x)
  PROVE  LET plan == PlanOf(WishFor(A), "replace", doc)
         IN  /\ plan.off \cap A = {} /\ plan.on \subseteq A
             /\ EachPathOnce(Shape(doc)) =>
                  \A x \in Path : x \in WhatRuns(doc) <=> x \in plan.off \/ (x \in A /\ x \notin plan.on)
<1> DEFINE wish == WishFor(A)
           plan == PlanOf(wish, "replace", doc)
           first(x) == doc[PositionOf(x, doc)]
<1>1. \A x \in Path : (wish[x] = "enable" <=> x \in A) /\ (wish[x] = None <=> x \notin A)
  BY StartupAssumption DEF WishFor
<1>2. \A x : x \in WhatRuns(doc) <=> \E e \in ToSet(doc) : e.path = x /\ e.on
  BY DEF WhatRuns
<1> HIDE DEF wish
<1>3. plan.off =
        {x \in Path : \/ (wish[x] = None /\ \E e \in ToSet(doc) : e.path = x /\ e.on)
                     \/ (Has(doc, x) /\ wish[x] # None /\ first(x).on /\ ~(wish[x] = "enable"))}
  BY DEF PlanOf
<1>4. plan.on = {x \in Path : Has(doc, x) /\ wish[x] # None /\ ~first(x).on /\ wish[x] = "enable"}
  BY DEF PlanOf
<1> HIDE DEF plan
<1>5. \A x \in Path : x \in plan.off <=> x \notin A /\ x \in WhatRuns(doc)
  BY <1>1, <1>2, <1>3
<1>6. \A x \in Path : x \in plan.on <=> x \in A /\ ~first(x).on
  BY <1>1, <1>4
<1>7. plan.off \subseteq Path /\ plan.on \subseteq Path
  BY <1>3, <1>4
<1>8. ASSUME EachPathOnce(Shape(doc)), NEW x \in Path
      PROVE  x \in WhatRuns(doc) <=> x \in plan.off \/ (x \in A /\ x \notin plan.on)
  <2>1. x \in A => (x \in WhatRuns(doc) <=> first(x).on)
    BY <1>8, TheOneThatRuns
  <2> QED
    BY <1>5, <1>6, <2>1
<1> QED
  BY <1>5, <1>6, <1>7, <1>8 DEF plan, wish

\* What is remembered of a profile's return is in its return preset and in its file.
BackIsAway(p) ==
    away[p] # None =>
      /\ back[p] = WishFor(away[p]) /\ \A x \in away[p] : Has(file[p], x)
      /\ doing["preset"] # None /\ doing["preset"].at = p => ~doing["preset"].stale

\* The return preset of a profile is being applied, and nothing else happened to its file.
Returning(p) == worker # None /\ ~worker.records /\ worker.profile = p /\ away[p] # None

\* It is applied to the file in use, with what was remembered.
ReturningHere(p) ==
    Returning(p) => /\ inUse = p /\ profile = p /\ worker.wish = WishFor(away[p]) /\ worker.mode = "replace"
                    /\ doing["preset"] # None => doing["preset"].at = p

Pending(x, on) == doing["preset"] # None /\ doing["preset"].change = SwitchOf(x, on)

\* What is on is what was, with what is still to be switched.
TheReturnGoesOn(p) ==
    Returning(p) /\ worker.at = "switch" =>
      /\ worker.off \cap away[p] = {} /\ worker.on \subseteq away[p]
      /\ doing["preset"] # None =>
           \E x \in Path, on \in BOOLEAN :
             doing["preset"].change = SwitchOf(x, on) /\ x \notin worker.off \cup worker.on /\ (on <=> x \in away[p])
      /\ EachPathOnce(Shape(file[p])) =>
           \A x \in Path : x \in WhatRuns(file[p]) <=>
             \/ x \in worker.off \/ Pending(x, FALSE)
             \/ x \in away[p] /\ x \notin worker.on /\ ~Pending(x, TRUE)

RecordsFirst == worker # None /\ worker.at = "record" => worker.records

ReturnInv == RecordsFirst /\ \A p \in Profile : BackIsAway(p) /\ ReturningHere(p) /\ TheReturnGoesOn(p)

\* The steps that leave the return of a profile as it is.
LeavesTheReturn(p) ==
    /\ away'[p] = away[p] /\ back'[p] = back[p] /\ file'[p] = file[p]
    /\ Returning(p)' => worker' = worker /\ profile' = profile /\ inUse' = inUse /\ doing'["preset"] = doing["preset"]
    /\ \/ doing'["preset"] = doing["preset"]
       \/ doing'["preset"] # None => doing'["preset"].at # p

\* The steps that change what a return was recorded for, its preset or its switches, and the others.
LEMMA HowTheReturnChanges ==
  ASSUME TInv, ReturnInv, [Next]_vars, NEW p \in Profile, away'[p] # None
  PROVE  \/ LeavesTheReturn(p)
         \/ StartToApply \/ PlanTheSwitches \/ RecordTheReturn \/ RunASwitch \/ WriteTheFile("preset")
<1>t. /\ Thread = {"user", "preset"} /\ doing \in [Thread -> Maybe(InHand)]
      /\ away \in [Profile -> Maybe(SUBSET Path)] /\ back \in [Profile -> Maybe(Wish)]
      /\ file \in [Profile -> Seq(Entry)] /\ profile \in Profile
      /\ \A t \in Thread : doing[t] # None => doing[t].at \in Profile
      /\ worker # None => worker.profile \in Profile
  BY DEF Thread, TInv, KeptTypes, Maybe, InHand, Applying
<1>r. Returning(p) => inUse = p /\ profile = p /\ (doing["preset"] # None => doing["preset"].at = p)
  BY DEF ReturnInv, ReturningHere
<1>1. CASE Gesture \/ Switch \/ Undo
  <2>1. UNCHANGED <<away, back, file, worker, profile, inUse>>
    BY <1>1 DEF Gesture, Switch, Undo, ghosts, disk
  <2>2. doing'["preset"] = doing["preset"]
    BY <1>1, <1>t DEF Gesture, Switch, Undo, Begin
  <2> QED
    BY <2>1, <2>2 DEF LeavesTheReturn
<1>2. CASE WriteTheFile("user")
  <2>1. /\ UNCHANGED <<back, worker, profile, inUse>> /\ doing["user"] # None
        /\ away' = [away EXCEPT ![doing["user"].at] = None] /\ doing'["preset"] = doing["preset"]
        /\ file' = [file EXCEPT ![doing["user"].at] = doing["user"].doc]
    BY <1>2, <1>t DEF WriteTheFile
  <2>2. p # doing["user"].at
    BY <1>t, <2>1
  <2> QED
    BY <1>t, <2>1, <2>2 DEF LeavesTheReturn
<1>3. ASSUME NEW t \in Thread, TheWriteFails(t) PROVE LeavesTheReturn(p)
  <2>1. /\ UNCHANGED <<back, file, worker, profile, inUse>> /\ doing[t] # None
        /\ away' = [away EXCEPT ![doing[t].at] = None]
        /\ doing' = [doing EXCEPT ![t] = None]
    BY <1>3 DEF TheWriteFails, disk
  <2>2. p # doing[t].at /\ away'[p] = away[p]
    BY <1>t, <2>1
  <2>3. doing'["preset"] = IF t = "preset" THEN None ELSE doing["preset"]
    BY <1>t, <2>1
  <2>4. Returning(p)' => Returning(p)
    BY <2>1, <2>2 DEF Returning
  <2> QED
    BY <1>r, <2>1, <2>2, <2>3, <2>4 DEF LeavesTheReturn
<1>4. CASE Settle
  <2>1. /\ UNCHANGED <<file, worker, profile, inUse>> /\ doing["user"] # None
        /\ away' = [away EXCEPT ![doing["user"].at] = None] /\ doing'["preset"] = doing["preset"]
    BY <1>4, <1>t DEF Settle
  <2>2. \E c, b : back' = IF b THEN [back EXCEPT ![profile] = c] ELSE back
    BY <1>4 DEF Settle, FollowInThePresets
  <2>3. doing["user"].at = profile
    BY <1>t, <2>1 DEF TInv, InHandIsSound
  <2>4. p # profile /\ away'[p] = away[p]
    BY <1>t, <2>1, <2>3
  <2>5. back'[p] = back[p]
    BY <1>t, <2>2, <2>4
  <2> QED
    BY <2>1, <2>4, <2>5 DEF LeavesTheReturn
<1>5. ASSUME NEW q \in Profile, ForeignWrite(q) PROVE LeavesTheReturn(p)
  <2>1. /\ UNCHANGED <<back, worker, profile, inUse>> /\ away' = [away EXCEPT ![q] = None]
        /\ doing' = [t \in Thread |-> IF doing[t] # None /\ doing[t].at = q
                                     THEN [doing[t] EXCEPT !.stale = TRUE] ELSE doing[t]]
        /\ \E n : file' = [file EXCEPT ![q] = n]
    BY <1>5 DEF ForeignWrite
  <2>2. p # q /\ away'[p] = away[p] /\ file'[p] = file[p]
    BY <1>t, <2>1
  <2>3. CASE doing["preset"] # None /\ doing["preset"].at = q
    <3>1. doing'["preset"] = [doing["preset"] EXCEPT !.stale = TRUE] /\ doing["preset"] \in InHand
      BY <1>t, <2>1, <2>3 DEF Maybe
    <3>2. doing'["preset"].at = q
      BY <2>3, <3>1 DEF InHand
    <3>3. ~Returning(p)'
      BY <1>r, <2>1, <2>2, <2>3 DEF Returning
    <3> QED
      BY <2>1, <2>2, <3>2, <3>3 DEF LeavesTheReturn
  <2>4. CASE ~(doing["preset"] # None /\ doing["preset"].at = q)
    <3>1. doing'["preset"] = doing["preset"]
      BY <1>t, <2>1, <2>4
    <3> QED
      BY <2>1, <2>2, <3>1 DEF LeavesTheReturn
  <2> QED
    BY <2>3, <2>4
<1>6. CASE Crash
  BY <1>6 DEF Crash
<1>7. ASSUME NEW q \in Path, Forget(q) PROVE LeavesTheReturn(p)
  BY <1>7 DEF Forget, LeavesTheReturn
<1>8. CASE UndoNothing
  BY <1>8 DEF UndoNothing, LeavesTheReturn, disk, ghosts
<1>9. CASE RefuseToApply \/ EndTheApply
  <2>1. UNCHANGED <<disk, profile, inUse, doing, ghosts>> /\ worker' = None
    BY <1>9 DEF RefuseToApply, EndTheApply
  <2> QED
    BY <2>1 DEF LeavesTheReturn, disk, ghosts, Returning
<1>10. ASSUME NEW q \in Profile, ShowProfile(q) PROVE LeavesTheReturn(p)
  <2>1. /\ UNCHANGED <<disk, doing, worker, inUse>>
        /\ away' = IF worker = None THEN away ELSE [away EXCEPT ![worker.profile] = None]
    BY <1>10 DEF ShowProfile
  <2>2. away'[p] = away[p] /\ ~Returning(p)'
    BY <1>t, <2>1 DEF Returning
  <2> QED
    BY <2>1, <2>2 DEF LeavesTheReturn, disk
<1>11. CASE UseItsFile
  <2>1. UNCHANGED <<disk, doing, worker, ghosts, profile>> /\ inUse # profile
    BY <1>11 DEF UseItsFile
  <2>2. ~Returning(p)'
    BY <1>r, <2>1 DEF Returning, ghosts
  <2> QED
    BY <2>1, <2>2 DEF LeavesTheReturn, disk, ghosts
<1>12. CASE UNCHANGED vars
  BY <1>12 DEF vars, LeavesTheReturn, disk, ghosts
<1> QED
  BY <1>t, <1>1, <1>2, <1>3, <1>4, <1>5, <1>6, <1>7, <1>8, <1>9, <1>10, <1>11, <1>12 DEF Next

\* A step that leaves the return preset and its file leaves the way back.
LEMMA ReturnWhenItIsLeft ==
  ASSUME TInv, ReturnInv, NEW p \in Profile, LeavesTheReturn(p)
  PROVE  BackIsAway(p)' /\ ReturningHere(p)' /\ TheReturnGoesOn(p)'
<1>1. BackIsAway(p) /\ ReturningHere(p) /\ TheReturnGoesOn(p)
  BY DEF ReturnInv
<1>2. BackIsAway(p)'
  BY <1>1 DEF BackIsAway, LeavesTheReturn
<1>3. Returning(p)' => Returning(p)
  BY DEF LeavesTheReturn, Returning
<1>4. ReturningHere(p)'
  BY <1>1, <1>3 DEF ReturningHere, LeavesTheReturn
<1>5. TheReturnGoesOn(p)'
  BY <1>1, <1>3 DEF TheReturnGoesOn, LeavesTheReturn, Pending
<1> QED
  BY <1>2, <1>4, <1>5

\* A return starts with what was recorded.
LEMMA ReturnWhenItIsStarted ==
  ASSUME TInv, ReturnInv, NEW p \in Profile, StartToApply
  PROVE  BackIsAway(p)' /\ ReturningHere(p)' /\ TheReturnGoesOn(p)'
<1>1. /\ UNCHANGED <<file, back, away, profile, inUse, doing>>
      /\ worker = None /\ inUse = profile
      /\ \/ worker'.records
         \/ worker' = [profile |-> profile, wish |-> back[profile], mode |-> "replace",
                        at |-> "plan", records |-> FALSE, off |-> {}, on |-> {}]
  BY DEF StartToApply, MayGesture, disk, ghosts
<1>2. worker' = None \/ worker'.at # "switch" \/ worker'.records
  BY <1>1
<1>3. doing["preset"] = None
  BY <1>1 DEF TInv, OneChangeAtATime
<1>4. BackIsAway(p) /\ ReturningHere(p)
  BY DEF ReturnInv
<1>5. BackIsAway(p)'
  BY <1>1, <1>4 DEF BackIsAway
<1>6. ReturningHere(p)'
  BY <1>1, <1>3, <1>4 DEF BackIsAway, ReturningHere, Returning
<1>7. TheReturnGoesOn(p)'
  BY <1>2 DEF TheReturnGoesOn, Returning
<1> QED
  BY <1>5, <1>6, <1>7

\* A return plans the switches that are left between the file and what was recorded.
LEMMA ReturnWhenItIsPlanned ==
  ASSUME TInv, ReturnInv, NEW p \in Profile, PlanTheSwitches
  PROVE  BackIsAway(p)' /\ ReturningHere(p)' /\ TheReturnGoesOn(p)'
<1> DEFINE plan == PlanOf(worker.wish, worker.mode, file[inUse])
<1>1. /\ UNCHANGED <<file, back, away, profile, inUse, doing>>
      /\ worker # None /\ worker.at = "plan"
      /\ worker' = [worker EXCEPT !.at = IF worker.records THEN "record" ELSE "switch",
                                 !.off = plan.off, !.on = plan.on]
  BY DEF PlanTheSwitches, disk, ghosts
<1>2. worker \in Applying
  BY <1>1 DEF TInv, KeptTypes, Maybe
<1> HIDE DEF plan
<1>3. /\ worker'.profile = worker.profile /\ worker'.records = worker.records /\ worker'.wish = worker.wish
      /\ worker'.mode = worker.mode /\ worker'.off = plan.off /\ worker'.on = plan.on
  BY <1>1, <1>2 DEF Applying
<1>4. doing["preset"] = None
  BY <1>1 DEF TInv, OneChangeAtATime
<1>5. BackIsAway(p) /\ ReturningHere(p)
  BY DEF ReturnInv
<1>6. BackIsAway(p)'
  BY <1>1, <1>5 DEF BackIsAway
<1>7. Returning(p)' => Returning(p)
  BY <1>1, <1>3 DEF Returning
<1>8. ReturningHere(p)'
  BY <1>1, <1>3, <1>5, <1>7 DEF ReturningHere
<1>9. TheReturnGoesOn(p)'
  <2> SUFFICES ASSUME Returning(p) PROVE TheReturnGoesOn(p)'
    BY <1>7 DEF TheReturnGoesOn
  <2>1. /\ inUse = p /\ worker.wish = WishFor(away[p]) /\ worker.mode = "replace"
        /\ away[p] \in SUBSET Path /\ \A x \in away[p] : Has(file[p], x)
    BY <1>5 DEF ReturningHere, BackIsAway, Returning, TInv, KeptTypes, Maybe
  <2>2. plan = PlanOf(WishFor(away[p]), "replace", file[p]) /\ file[p] \in Seq(Entry)
    BY <2>1 DEF plan, TInv, KeptTypes
  <2>3. /\ plan.off \cap away[p] = {} /\ plan.on \subseteq away[p]
        /\ EachPathOnce(Shape(file[p])) =>
             \A x \in Path : x \in WhatRuns(file[p]) <=> x \in plan.off \/ (x \in away[p] /\ x \notin plan.on)
    BY <2>1, <2>2, ThePlanOfAReturn
  <2> QED
    BY <1>1, <1>3, <1>4, <2>3 DEF TheReturnGoesOn, Pending
<1> QED
  BY <1>6, <1>8, <1>9

\* A return preset records what runs.
LEMMA ReturnWhenItIsRecorded ==
  ASSUME TInv, ReturnInv, NEW p \in Profile, RecordTheReturn
  PROVE  BackIsAway(p)' /\ ReturningHere(p)' /\ TheReturnGoesOn(p)'
<1>1. /\ UNCHANGED <<file, profile, inUse, doing>>
      /\ worker # None /\ worker.at = "record" /\ worker' = [worker EXCEPT !.at = "switch"]
      /\ back' = [back EXCEPT ![worker.profile] = WhatIsOn(file[inUse])]
      /\ away' = [away EXCEPT ![worker.profile] = IF inUse = worker.profile THEN WhatRuns(file[inUse]) ELSE None]
  BY DEF RecordTheReturn
<1>2. worker \in Applying /\ worker.profile \in Profile
  BY <1>1 DEF TInv, KeptTypes, Maybe, Applying
<1>3. worker'.profile = worker.profile /\ worker'.records /\ worker.records
  BY <1>1, <1>2 DEF ReturnInv, RecordsFirst, Applying
<1>4. doing["preset"] = None
  BY <1>1 DEF TInv, OneChangeAtATime
<1>5. /\ away \in [Profile -> Maybe(SUBSET Path)] /\ back \in [Profile -> Maybe(Wish)] /\ file[p] \in Seq(Entry)
  BY DEF TInv, KeptTypes
<1>6. ReturningHere(p)' /\ TheReturnGoesOn(p)'
  BY <1>3 DEF ReturningHere, TheReturnGoesOn, Returning
<1>7. BackIsAway(p)'
  <2>1. CASE p # worker.profile
    <3>1. away'[p] = away[p] /\ back'[p] = back[p]
      BY <1>1, <1>5, <2>1
    <3>2. BackIsAway(p)
      BY DEF ReturnInv
    <3> QED
      BY <1>1, <3>1, <3>2 DEF BackIsAway
  <2>2. CASE p = worker.profile /\ inUse = p
    <3>1. away'[p] = WhatRuns(file[p]) /\ back'[p] = WhatIsOn(file[p])
      BY <1>1, <1>5, <2>2
    <3>2. back'[p] = WishFor(away'[p]) /\ \A x \in away'[p] : Has(file[p], x)
      BY <1>5, <3>1, WhatIsOnIsWhatRuns, WhatRunsIsOn
    <3> QED
      BY <1>1, <1>4, <3>2 DEF BackIsAway, WishFor
  <2>3. CASE p = worker.profile /\ inUse # p
    <3>1. away'[p] = None
      BY <1>1, <1>5, <2>3
    <3> QED
      BY <3>1 DEF BackIsAway
  <2> QED
    BY <2>1, <2>2, <2>3
<1> QED
  BY <1>6, <1>7

\* Each switch of a return is taken off its plan, and is in hand or was done already.
LEMMA ReturnWhenItSwitches ==
  ASSUME TInv, ReturnInv, NEW p \in Profile, RunASwitch, away'[p] # None
  PROVE  BackIsAway(p)' /\ ReturningHere(p)' /\ TheReturnGoesOn(p)'
<1>1. /\ UNCHANGED <<file, back, profile, inUse>>
      /\ worker # None /\ worker.at = "switch" /\ \A t \in Thread : doing[t] = None
      /\ away' = IF inUse = worker.profile THEN away ELSE [q \in Profile |-> None]
  BY DEF RunASwitch, TheFileIsFree
<1>2. PICK x \in worker.off \cup worker.on :
        /\ worker' = [worker EXCEPT !.off = @ \ {x}, !.on = IF x \in worker.off THEN @ ELSE @ \ {x}]
        /\ LET c == SwitchOf(x, x \notin worker.off)
           IN \/ Begin("preset", c, "preset")
              \/ DoesNothing(c) /\ UNCHANGED <<keeping, doing>>
  BY DEF RunASwitch
<1> DEFINE on == x \notin worker.off
           c == SwitchOf(x, on)
<1>3. worker \in Applying /\ worker.off \cap worker.on = {}
  BY <1>1 DEF TInv, KeptTypes, Maybe, OneChangeAtATime
<1>4. /\ x \in Path /\ worker.off \subseteq Path /\ worker.on \subseteq Path
      /\ worker'.off = worker.off \ {x} /\ worker'.on = worker.on \ {x}
      /\ worker'.profile = worker.profile /\ worker'.records = worker.records
      /\ worker'.wish = worker.wish /\ worker'.mode = worker.mode /\ worker'.at = worker.at
  BY <1>2, <1>3 DEF Applying
<1>5. inUse = worker.profile /\ away' = away
  BY <1>1
<1>6. WellFormed(c) /\ "preset" \in Thread /\ inUse \in Profile /\ file[inUse] \in Seq(Entry)
      /\ keeping[inUse] \in Seq(Kept) /\ on \in BOOLEAN
  BY <1>4 DEF SwitchOf, WellFormed, Change, Maybe, Thread, TInv, KeptTypes
<1> HIDE DEF on
<1>7. \/ doing'["preset"] = Begun(c, "preset") /\ doing'["preset"] # None
      \/ DoesNothing(c) /\ doing'["preset"] = None
  <2>1. CASE Begin("preset", c, "preset")
    <3>1. doing'["preset"] = Begun(c, "preset") /\ Begun(c, "preset") \in InHand
      BY <1>6, <2>1, WhatBeginDoes DEF TInv
    <3> QED
      BY <3>1, NoneIsNeither
  <2>2. CASE DoesNothing(c) /\ UNCHANGED <<keeping, doing>>
    BY <1>1, <1>6, <2>2
  <2> QED
    BY <1>2, <2>1, <2>2 DEF on
<1>8. BackIsAway(p) /\ ReturningHere(p) /\ TheReturnGoesOn(p)
  BY DEF ReturnInv
<1> HIDE DEF c
<1>9. BackIsAway(p)'
  BY <1>1, <1>5, <1>7, <1>8 DEF BackIsAway, Begun
<1>10. Returning(p)' => Returning(p)
  BY <1>1, <1>4, <1>5 DEF Returning
<1>11. ReturningHere(p)'
  BY <1>1, <1>4, <1>5, <1>7, <1>8, <1>10 DEF ReturningHere, Returning, Begun
<1>12. TheReturnGoesOn(p)'
  <2> SUFFICES ASSUME Returning(p) PROVE TheReturnGoesOn(p)'
    BY <1>10 DEF TheReturnGoesOn
  <2>1. inUse = p /\ \A y \in away[p] : Has(file[p], y)
    BY <1>8 DEF ReturningHere, BackIsAway, Returning
  <2>2. /\ worker.off \cap away[p] = {} /\ worker.on \subseteq away[p]
        /\ EachPathOnce(Shape(file[p])) =>
             \A y \in Path : y \in WhatRuns(file[p]) <=> y \in worker.off \/ (y \in away[p] /\ y \notin worker.on)
    BY <1>1, <1>6, <1>8 DEF TheReturnGoesOn, Pending
  <2>3. on <=> x \in away[p]
    BY <1>2, <1>3, <2>2 DEF on
  <2>4. CASE doing'["preset"] = Begun(c, "preset") /\ doing'["preset"] # None
    <3>1. /\ \A y, b : Pending(y, b)' <=> doing'["preset"] # None /\ c = SwitchOf(y, b)
          /\ doing'["preset"] # None => doing'["preset"].change = c
      BY <2>4 DEF Pending, Begun
    <3>2. doing'["preset"] # None
      BY <2>4
    <3>3. \A y, b : c = SwitchOf(y, b) <=> y = x /\ b = on
      BY DEF SwitchOf, c
    <3>4. x \notin worker'.off \cup worker'.on
      BY <1>4
    <3>5. EachPathOnce(Shape(file[p])) =>
             \A y \in Path : y \in WhatRuns(file[p]) <=>
               \/ y \in worker'.off \/ (y = x /\ ~on)
               \/ y \in away[p] /\ y \notin worker'.on /\ ~(y = x /\ on)
      BY <1>2, <1>3, <1>4, <2>2, <2>3 DEF on
    <3> QED
      BY ZenonT(30), <1>1, <1>4, <1>5, <1>6, <2>2, <2>3, <3>1, <3>2, <3>3, <3>4, <3>5 DEF TheReturnGoesOn
  <2>5. CASE DoesNothing(c) /\ doing'["preset"] = None
    <3>1. ~EachPathOnce(Shape(file[p]))
      <4> SUFFICES ASSUME EachPathOnce(Shape(file[p])) PROVE FALSE
        OBVIOUS
      <4>1. x \in WhatRuns(file[p]) <=> ~on
        BY <1>2, <1>3, <1>4, <2>2, <2>3 DEF on
      <4>2. Has(file[p], x)
        BY <1>6, <2>1, <2>3, <4>1, WhatRunsIsOn
      <4>3. ~Refuses(file[p], keeping[p], c)
        BY <4>2 DEF Refuses, c, SwitchOf
      <4>4. Rewritten(file[p], keeping[p], c) = file[p]
        BY <2>1, <2>5, <4>3 DEF DoesNothing
      <4>5. x \in WhatRuns(file[p]) <=> on
        BY <1>4, <1>6, <2>1, <4>2, <4>4, WhatASwitchDoes DEF c
      <4> QED
        BY <1>6, <4>1, <4>5
    <3> QED
      BY <1>1, <1>4, <1>5, <2>2, <2>5, <3>1 DEF TheReturnGoesOn
  <2> QED
    BY <1>7, <2>4, <2>5
<1> QED
  BY <1>9, <1>11, <1>12

\* A switch that is written is one fewer between the file and what was recorded.
LEMMA ReturnWhenItIsWritten ==
  ASSUME TInv, ReadIsThere, ReturnInv, NEW p \in Profile, WriteTheFile("preset")
  PROVE  BackIsAway(p)' /\ ReturningHere(p)' /\ TheReturnGoesOn(p)'
<1> DEFINE d == doing["preset"]
           c == d.change
<1>1. /\ d # None /\ ~d.written /\ d \in InHand
      /\ file' = [file EXCEPT ![d.at] = d.doc] /\ doing' = [doing EXCEPT !["preset"] = None]
      /\ UNCHANGED <<back, away, profile, inUse, worker>>
  BY DEF WriteTheFile, TInv, KeptTypes, Maybe, Thread
<1>2. WellFormed(c) /\ ~Refuses(d.read, d.kept, c) /\ d.doc = Rewritten(d.read, d.kept, c) /\ c.kind = "switch"
  BY <1>1 DEF TInv, InHandIsSound, Thread
<1>3. d.read \in Seq(Entry) /\ d.kept \in Seq(Kept) /\ d.at \in Profile
  BY <1>1 DEF InHand
<1>4. doing \in [Thread -> Maybe(InHand)] /\ file \in [Profile -> Seq(Entry)] /\ doing'["preset"] = None
  BY <1>1 DEF TInv, KeptTypes, Thread
<1>5. BackIsAway(p) /\ ReturningHere(p) /\ TheReturnGoesOn(p)
  BY DEF ReturnInv
<1>6. ReturningHere(p)'
  BY <1>1, <1>4, <1>5 DEF ReturningHere, Returning
<1>7. CASE p # d.at
  <2>1. file'[p] = file[p]
    BY <1>1, <1>3, <1>4, <1>7
  <2>2. ~Returning(p)'
    BY <1>1, <1>5, <1>7 DEF ReturningHere, Returning
  <2>3. BackIsAway(p)' /\ TheReturnGoesOn(p)'
    BY <1>1, <1>4, <1>5, <2>1, <2>2 DEF BackIsAway, TheReturnGoesOn
  <2> QED
    BY <1>6, <2>3
<1>8. CASE p = d.at
  <2>1. file'[p] = d.doc
    BY <1>1, <1>3, <1>4, <1>8
  <2>2. CASE away[p] = None
    BY <1>1, <1>6, <2>2 DEF BackIsAway, TheReturnGoesOn, Returning
  <2>3. CASE away[p] # None
    <3>1. file[p] = d.read
      BY <1>1, <1>5, <1>8, <2>3 DEF BackIsAway, ReadIsThere, Thread
    <3>2. \A x \in Path : Has(d.read, x) => Has(d.doc, x)
      BY <1>2, <1>3, PathsStay DEF Takes, Moves
    <3>3. away[p] \subseteq Path
      BY <2>3 DEF TInv, KeptTypes, Maybe
    <3>4. BackIsAway(p)'
      BY <1>1, <1>4, <1>5, <2>1, <3>1, <3>2, <3>3 DEF BackIsAway
    <3>5. TheReturnGoesOn(p)'
      <4> SUFFICES ASSUME Returning(p), worker.at = "switch" PROVE TheReturnGoesOn(p)'
        BY <1>1 DEF TheReturnGoesOn, Returning
      <4>1. PICK x \in Path, on \in BOOLEAN :
              c = SwitchOf(x, on) /\ x \notin worker.off \cup worker.on /\ (on <=> x \in away[p])
        BY <1>1, <1>5 DEF TheReturnGoesOn
      <4>2. \A y, b : c = SwitchOf(y, b) <=> y = x /\ b = on
        BY <4>1 DEF SwitchOf
      <4>3. \A y, b : Pending(y, b) <=> y = x /\ b = on
        BY <1>1, <4>2 DEF Pending
      <4>4. /\ worker.off \cap away[p] = {} /\ worker.on \subseteq away[p]
            /\ EachPathOnce(Shape(file[p])) =>
                 \A y \in Path : y \in WhatRuns(file[p]) <=>
                   \/ y \in worker.off \/ Pending(y, FALSE)
                   \/ y \in away[p] /\ y \notin worker.on /\ ~Pending(y, TRUE)
        BY <1>5 DEF TheReturnGoesOn
      <4>5. Has(d.read, x)
        BY <1>2, <4>1 DEF Refuses, SwitchOf
      <4>6. /\ EachPathOnce(Shape(d.doc)) <=> EachPathOnce(Shape(d.read))
            /\ EachPathOnce(Shape(d.read)) =>
                  \A y \in Path : y \in WhatRuns(d.doc) <=> IF y = x THEN on ELSE y \in WhatRuns(d.read)
        BY <1>2, <1>3, <4>1, <4>5, WhatASwitchDoes
      <4> HIDE DEF d, c
      <4>7. EachPathOnce(Shape(d.doc)) =>
              \A y \in Path : y \in WhatRuns(d.doc) <=> y \in worker.off \/ (y \in away[p] /\ y \notin worker.on)
        BY <3>1, <4>1, <4>3, <4>4, <4>6
      <4> QED
        BY <1>1, <1>4, <2>1, <4>4, <4>7 DEF TheReturnGoesOn, Pending
    <3> QED
      BY <1>6, <3>4, <3>5
  <2> QED
    BY <2>2, <2>3
<1> QED
  BY <1>7, <1>8

\* Every step keeps the way back.
LEMMA ReturnInvStays == TInv /\ ReadIsThere /\ ReturnInv /\ [Next]_vars => ReturnInv'
<1> SUFFICES ASSUME TInv, ReadIsThere, ReturnInv, [Next]_vars PROVE ReturnInv'
  OBVIOUS
<1>1. RecordsFirst'
  <2>1. CASE StartToApply
    BY <2>1 DEF StartToApply, RecordsFirst
  <2>2. CASE PlanTheSwitches \/ RecordTheReturn \/ RunASwitch
    <3>1. worker \in Applying
      BY <2>2 DEF PlanTheSwitches, RecordTheReturn, RunASwitch, TInv, KeptTypes, Maybe
    <3> QED
      BY <2>2, <3>1 DEF PlanTheSwitches, RecordTheReturn, RunASwitch, RecordsFirst, Applying
  <2>3. CASE worker' = worker \/ worker' = None
    BY <2>3 DEF RecordsFirst, ReturnInv
  <2> QED
    BY <2>1, <2>2, <2>3 DEF Next, vars, bounds, Gesture, Switch, Undo, UndoNothing, Forget, WriteTheFile, TheWriteFails,
       Settle, RefuseToApply, EndTheApply, ShowProfile, UseItsFile, ForeignWrite, Crash
<1>2. ASSUME NEW p \in Profile PROVE BackIsAway(p)' /\ ReturningHere(p)' /\ TheReturnGoesOn(p)'
  <2>1. CASE away'[p] = None
    BY <2>1 DEF BackIsAway, ReturningHere, TheReturnGoesOn, Returning
  <2>2. CASE away'[p] # None
    BY <2>2, HowTheReturnChanges, ReturnWhenItIsLeft, ReturnWhenItIsStarted, ReturnWhenItIsPlanned,
       ReturnWhenItIsRecorded, ReturnWhenItSwitches, ReturnWhenItIsWritten
  <2> QED
    BY <2>1, <2>2
<1> QED
  BY <1>1, <1>2 DEF ReturnInv

\* A return preset that was applied has brought back what ran when it was recorded.
THEOREM TheReturnLeadsBack == Spec => []TheReturnIsTheWayBack
<1>1. Init => ReturnInv
  BY DEF Init, ReturnInv, RecordsFirst, BackIsAway, ReturningHere, TheReturnGoesOn, Returning
<1>2. TInv /\ ReturnInv => TheReturnIsTheWayBack
  <2> SUFFICES ASSUME TInv, ReturnInv, NEW p \in Profile,
                      worker # None, worker.profile = p, ~worker.records, worker.at = "switch",
                      worker.off \cup worker.on = {}, doing["preset"] = None,
                      away[p] # None, EachPathOnce(Shape(file[p]))
               PROVE  WhatRuns(file[p]) = away[p]
    BY DEF TheReturnIsTheWayBack
  <2>1. TheReturnGoesOn(p) /\ Returning(p)
    BY DEF ReturnInv, Returning
  <2>2. \A x \in Path : x \in WhatRuns(file[p]) <=> x \in away[p]
    BY <2>1 DEF TheReturnGoesOn, Pending
  <2>3. away[p] \subseteq Path /\ file[p] \in Seq(Entry)
    BY DEF TInv, KeptTypes, Maybe
  <2>4. WhatRuns(file[p]) \subseteq Path
    BY <2>3, WhatRunsIsOn
  <2> QED
    BY <2>2, <2>3, <2>4
<1> QED
  BY <1>1, <1>2, ReturnInvStays, FileInvHolds, PTL DEF Spec, FileInv

-----------------------------------------------------------------------------
(* An undo takes its gesture back. *)

\* The first position whose entry has a path is where the path is.
LEMMA TheFirstOfThem ==
  ASSUME NEW doc \in Seq(Entry), NEW p, NEW i \in 1..Len(doc), doc[i].path = p,
         \A j \in 1..(i - 1) : doc[j].path # p
  PROVE  PositionOf(p, doc) = i /\ Has(doc, p)
<1>1. Has(doc, p) /\ PositionOf(p, doc) \in 1..Len(doc) /\ doc[PositionOf(p, doc)].path = p
  BY HasIsSomewhere, PositionOfIt
<1>2. PositionOf(p, doc) <= i
  BY <1>1, PositionIsFirst DEF Has
<1> QED
  BY <1>1, <1>2

\* The shape of a document with an entry more at its end.
LEMMA ShapeOfTheNext ==
  ASSUME NEW doc \in Seq(Entry), NEW e \in Entry
  PROVE  Shape(Append(doc, e)) = Append(Shape(doc), <<e.path, e.text>>)
<1> DEFINE n == Append(doc, e)
           x == <<e.path, e.text>>
<1>1. n \in Seq(Entry) /\ Len(n) = Len(doc) + 1 /\ n[Len(doc) + 1] = e /\ \A j \in 1..Len(doc) : n[j] = doc[j]
  BY AppendProperties
<1>2. x \in Path \X Text
  BY DEF Entry
<1> HIDE DEF n, x
<1>3. Shape(n) \in ShapeOf /\ Len(Shape(n)) = Len(doc) + 1
      /\ \A j \in 1..(Len(doc) + 1) : Shape(n)[j] = <<n[j].path, n[j].text>>
  BY <1>1, ShapeIsOne
<1>4. Shape(doc) \in ShapeOf /\ Len(Shape(doc)) = Len(doc)
      /\ \A j \in 1..Len(doc) : Shape(doc)[j] = <<doc[j].path, doc[j].text>>
  BY ShapeIsOne
<1>5. Append(Shape(doc), x) \in ShapeOf /\ Len(Append(Shape(doc), x)) = Len(doc) + 1
      /\ Append(Shape(doc), x)[Len(doc) + 1] = x /\ \A j \in 1..Len(doc) : Append(Shape(doc), x)[j] = Shape(doc)[j]
  BY <1>2, <1>4, AppendProperties DEF ShapeOf
<1>6. ASSUME NEW j \in 1..(Len(doc) + 1) PROVE Shape(n)[j] = Append(Shape(doc), x)[j]
  <2>1. Shape(n)[j] = <<n[j].path, n[j].text>>
    BY <1>3
  <2>2. CASE j = Len(doc) + 1
    BY <1>1, <1>5, <2>1, <2>2 DEF x
  <2>3. CASE j # Len(doc) + 1
    <3>1. j \in 1..Len(doc)
      BY <2>3
    <3> QED
      BY <1>1, <1>4, <1>5, <2>1, <3>1
  <2> QED
    BY <2>2, <2>3
<1>7. Shape(n) = Append(Shape(doc), x)
  BY <1>3, <1>5, <1>6, SeqEqual DEF ShapeOf
<1> QED
  BY <1>7 DEF n, x

\* The shape of a document with an entry fewer.
LEMMA ShapeOfTheRest ==
  ASSUME NEW doc \in Seq(Entry), NEW i \in 1..Len(doc)
  PROVE  Shape(RemoveAt(doc, i)) = RemoveAt(Shape(doc), i)
<1> DEFINE n == RemoveAt(doc, i)
           m == RemoveAt(Shape(doc), i)
<1>1. /\ n \in Seq(Entry) /\ Len(n) = Len(doc) - 1
      /\ \A j \in 1..(Len(doc) - 1) : n[j] = IF j < i THEN doc[j] ELSE doc[j + 1]
  BY TakenOut
<1>2. Shape(doc) \in ShapeOf /\ Len(Shape(doc)) = Len(doc)
      /\ \A j \in 1..Len(doc) : Shape(doc)[j] = <<doc[j].path, doc[j].text>>
  BY ShapeIsOne
<1>3. /\ m \in ShapeOf /\ Len(m) = Len(doc) - 1
      /\ \A j \in 1..(Len(doc) - 1) : m[j] = IF j < i THEN Shape(doc)[j] ELSE Shape(doc)[j + 1]
  <2> DEFINE sh == Shape(doc)
  <2>1. sh \in Seq(Path \X Text) /\ i \in 1..Len(sh)
    BY <1>2 DEF ShapeOf
  <2> HIDE DEF sh
  <2>2. /\ RemoveAt(sh, i) \in Seq(Path \X Text) /\ Len(RemoveAt(sh, i)) = Len(sh) - 1
        /\ \A j \in 1..(Len(sh) - 1) : RemoveAt(sh, i)[j] = IF j < i THEN sh[j] ELSE sh[j + 1]
    BY <2>1, TakenOut
  <2> QED
    BY <1>2, <2>2 DEF sh, ShapeOf
<1> HIDE DEF n, m
<1>4. Shape(n) \in ShapeOf /\ Len(Shape(n)) = Len(doc) - 1
      /\ \A j \in 1..(Len(doc) - 1) : Shape(n)[j] = <<n[j].path, n[j].text>>
  BY <1>1, ShapeIsOne
<1>5. ASSUME NEW j \in 1..(Len(doc) - 1) PROVE Shape(n)[j] = m[j]
  <2>1. Len(doc) \in Nat /\ j \in 1..Len(doc) /\ j + 1 \in 1..Len(doc)
    BY LenProperties
  <2>2. /\ n[j] = IF j < i THEN doc[j] ELSE doc[j + 1]
        /\ m[j] = IF j < i THEN Shape(doc)[j] ELSE Shape(doc)[j + 1]
        /\ Shape(n)[j] = <<n[j].path, n[j].text>>
    BY <1>1, <1>3, <1>4
  <2> QED
    BY <1>2, <2>1, <2>2
<1>6. Shape(n) = m
  BY <1>3, <1>4, <1>5, SeqEqual DEF ShapeOf
<1> QED
  BY <1>6 DEF n, m

\* The shape of a document with one entry edited.
LEMMA ShapeOfTheEdited ==
  ASSUME NEW doc \in Seq(Entry), NEW i \in 1..Len(doc), NEW e \in Entry
  PROVE  Shape([doc EXCEPT ![i] = e]) = [Shape(doc) EXCEPT ![i] = <<e.path, e.text>>]
<1> DEFINE n == [doc EXCEPT ![i] = e]
           x == <<e.path, e.text>>
           m == [Shape(doc) EXCEPT ![i] = x]
<1>1. n \in Seq(Entry) /\ Len(n) = Len(doc) /\ \A j \in 1..Len(doc) : n[j] = IF j = i THEN e ELSE doc[j]
  BY ExceptSeq
<1>2. Shape(doc) \in ShapeOf /\ Len(Shape(doc)) = Len(doc)
      /\ \A j \in 1..Len(doc) : Shape(doc)[j] = <<doc[j].path, doc[j].text>>
  BY ShapeIsOne
<1>2a. x \in Path \X Text
  BY DEF Entry
<1> HIDE DEF x
<1>3. m \in ShapeOf /\ Len(m) = Len(doc) /\ \A j \in 1..Len(doc) : m[j] = IF j = i THEN x ELSE Shape(doc)[j]
  BY <1>2, <1>2a, ExceptSeq DEF ShapeOf
<1> HIDE DEF n, m
<1>4. Shape(n) \in ShapeOf /\ Len(Shape(n)) = Len(doc)
      /\ \A j \in 1..Len(doc) : Shape(n)[j] = <<n[j].path, n[j].text>>
  BY <1>1, ShapeIsOne
<1>5. \A j \in 1..Len(doc) : Shape(n)[j] = m[j]
  BY <1>1, <1>2, <1>3, <1>4 DEF x
<1>6. Shape(n) = m
  BY <1>3, <1>4, <1>5, SeqEqual DEF ShapeOf
<1> QED
  BY <1>6 DEF n, m, x

\* What an undo of each kind remembers of its gesture.
OfAnAdd(u) ==
    \E t \in Text : /\ u.after = Append(u.before, <<u.path, t>>)
                   /\ \A j \in 1..Len(u.before) : u.before[j][1] # u.path
OfAnEdit(u) ==
    \E i \in 1..Len(u.before), t \in Text :
      /\ u.before[i] = <<u.was.path, u.was.text>> /\ \A j \in 1..(i - 1) : u.before[j][1] # u.was.path
      /\ u.after = [u.before EXCEPT ![i] = <<u.path, t>>]
      /\ u.path = u.was.path \/ \A j \in 1..Len(u.before) : u.before[j][1] # u.path
\* The kept entry a removal took out, and where it was.
IsWhatWasTaken(e, u) ==
    /\ e \in Kept /\ e.path = u.path
    /\ \E i \in 1..Len(u.before) :
         /\ u.before[i] = <<u.path, e.text>> /\ u.after = RemoveAt(u.before, i)
         /\ e.next = IF i < Len(u.before) THEN u.before[i + 1][1] ELSE None

\* Removing what was added gives the document before.
LEMMA AnAddTakenBack ==
  ASSUME NEW u \in ToUndo, OfAnAdd(u), NEW doc \in Seq(Entry), Shape(doc) = u.after
  PROVE  Shape(RemoveAt(doc, PositionOf(u.path, doc))) = u.before
<1> DEFINE n == Len(u.before) + 1
<1>1. PICK t \in Text : /\ u.after = Append(u.before, <<u.path, t>>)
                       /\ \A j \in 1..Len(u.before) : u.before[j][1] # u.path
  BY DEF OfAnAdd
<1>2. u.before \in ShapeOf /\ u.path \in Path
  BY DEF ToUndo, ShapeOf
<1> DEFINE x == <<u.path, t>>
<1>3. x \in Path \X Text /\ x[1] = u.path
  BY <1>2
<1> HIDE DEF x
<1>4. /\ u.after \in ShapeOf /\ Len(u.after) = n /\ u.after[n] = x
      /\ \A j \in 1..Len(u.before) : u.after[j] = u.before[j]
  BY <1>1, <1>2, <1>3, AppendProperties DEF ShapeOf, x
<1>5. Len(doc) = n /\ \A j \in 1..Len(doc) : doc[j].path = u.after[j][1]
  BY <1>4, ShapeIsOne
<1>6. n \in 1..Len(doc) /\ doc[n].path = u.path /\ \A j \in 1..(n - 1) : doc[j].path # u.path
  <2>1. Len(u.before) \in Nat
    BY <1>2 DEF ShapeOf
  <2>2. n \in 1..Len(doc) /\ doc[n].path = u.path
    BY <1>3, <1>4, <1>5, <2>1
  <2>3. ASSUME NEW j \in 1..(n - 1) PROVE doc[j].path # u.path
    <3>1. j \in 1..Len(doc) /\ j \in 1..Len(u.before)
      BY <1>5, <2>1
    <3> QED
      BY <1>1, <1>4, <1>5, <3>1
  <2> QED
    BY <2>2, <2>3
<1>7. PositionOf(u.path, doc) = n
  BY <1>6, TheFirstOfThem
<1>8. Shape(RemoveAt(doc, n)) = RemoveAt(u.after, n)
  BY <1>6, ShapeOfTheRest
<1>9. RemoveAt(u.after, n) = u.before
  <2>1. n \in 1..Len(u.after) /\ Len(u.after) - 1 = Len(u.before)
    BY <1>2, <1>4 DEF ShapeOf
  <2>2. /\ RemoveAt(u.after, n) \in ShapeOf /\ Len(RemoveAt(u.after, n)) = Len(u.before)
        /\ \A j \in 1..Len(u.before) : RemoveAt(u.after, n)[j] = IF j < n THEN u.after[j] ELSE u.after[j + 1]
    BY <1>4, <2>1, TakenOut DEF ShapeOf
  <2> HIDE DEF n
  <2>3. \A j \in 1..Len(u.before) : RemoveAt(u.after, n)[j] = u.before[j]
    BY <1>2, <1>4, <2>2 DEF n, ShapeOf
  <2> QED
    BY <1>2, <2>2, <2>3, SeqEqual DEF ShapeOf
<1> QED
  BY <1>7, <1>8, <1>9

\* Editing an edited entry back gives the document before.
LEMMA AnEditTakenBack ==
  ASSUME NEW u \in ToUndo, OfAnEdit(u), u.was \in [path : Path, text : Text],
         NEW doc \in Seq(Entry), Shape(doc) = u.after
  PROVE  LET i == PositionOf(u.path, doc)
         IN  Shape([doc EXCEPT ![i].path = u.was.path, ![i].text = u.was.text]) = u.before
<1>1. PICK i \in 1..Len(u.before), t \in Text :
      /\ u.before[i] = <<u.was.path, u.was.text>> /\ \A j \in 1..(i - 1) : u.before[j][1] # u.was.path
      /\ u.after = [u.before EXCEPT ![i] = <<u.path, t>>]
      /\ u.path = u.was.path \/ \A j \in 1..Len(u.before) : u.before[j][1] # u.path
  BY DEF OfAnEdit
<1>2. u.before \in ShapeOf /\ u.path \in Path /\ u.was.path \in Path /\ u.was.text \in Text
  BY DEF ToUndo, ShapeOf
<1> DEFINE x == <<u.path, t>>
           w == <<u.was.path, u.was.text>>
<1>3. x \in Path \X Text /\ x[1] = u.path /\ w \in Path \X Text
  BY <1>2
<1> HIDE DEF x, w
<1>4. /\ u.after \in ShapeOf /\ Len(u.after) = Len(u.before)
      /\ \A j \in 1..Len(u.before) : u.after[j] = IF j = i THEN x ELSE u.before[j]
  BY <1>1, <1>2, <1>3, ExceptSeq DEF ShapeOf, x
<1>5. Len(doc) = Len(u.before) /\ \A j \in 1..Len(doc) : doc[j].path = u.after[j][1]
  BY <1>4, ShapeIsOne
<1>6. i \in 1..Len(doc) /\ doc[i].path = u.path /\ \A j \in 1..(i - 1) : doc[j].path # u.path
  <2>1. Len(u.before) \in Nat /\ i \in 1..Len(doc) /\ u.after[i] = x
    BY <1>2, <1>4, <1>5, LenProperties DEF ShapeOf
  <2>2. doc[i].path = u.path
    BY <1>3, <1>5, <2>1
  <2>3. ASSUME NEW j \in 1..(i - 1) PROVE doc[j].path # u.path
    <3>1. j \in 1..Len(u.before) /\ j # i
      BY <2>1
    <3>2. doc[j].path = u.before[j][1]
      BY <1>4, <1>5, <3>1
    <3> QED
      BY <1>1, <3>1, <3>2
  <2> QED
    BY <2>1, <2>2, <2>3
<1>7. PositionOf(u.path, doc) = i
  BY <1>6, TheFirstOfThem
<1> DEFINE e == [doc[i] EXCEPT !.path = u.was.path, !.text = u.was.text]
<1>8. e \in Entry /\ <<e.path, e.text>> = w
  <2>1. doc[i] \in Entry
    BY <1>6, ElementOfSeq
  <2> QED
    BY <1>2, <2>1 DEF Entry, w
<1>9. [doc EXCEPT ![i].path = u.was.path, ![i].text = u.was.text] = [doc EXCEPT ![i] = e]
  BY <1>6
<1> HIDE DEF e
<1>10. Shape([doc EXCEPT ![i] = e]) = [u.after EXCEPT ![i] = w]
  <2>1. Shape([doc EXCEPT ![i] = e]) = [Shape(doc) EXCEPT ![i] = <<e.path, e.text>>]
    BY ZenonT(30), <1>6, <1>8, ShapeOfTheEdited
  <2> QED
    BY <1>8, <2>1
<1>11. [u.after EXCEPT ![i] = w] = u.before
  <2>1. /\ [u.after EXCEPT ![i] = w] \in ShapeOf /\ Len([u.after EXCEPT ![i] = w]) = Len(u.before)
        /\ \A j \in 1..Len(u.before) : [u.after EXCEPT ![i] = w][j] = IF j = i THEN w ELSE u.after[j]
    BY <1>1, <1>3, <1>4, ExceptSeq DEF ShapeOf
  <2>2. \A j \in 1..Len(u.before) : [u.after EXCEPT ![i] = w][j] = u.before[j]
    BY <1>1, <1>4, <2>1 DEF w
  <2> QED
    BY ZenonT(30), <1>2, <2>1, <2>2, SeqEqual DEF ShapeOf
<1> QED
  BY <1>7, <1>9, <1>10, <1>11

\* Restoring what was removed gives the document before, where each path came once in it.
LEMMA ARemovalTakenBack ==
  ASSUME NEW u \in ToUndo, NEW e, IsWhatWasTaken(e, u), EachPathOnce(u.before),
         NEW doc \in Seq(Entry), Shape(doc) = u.after
  PROVE  Shape(Restored(doc, e)) = u.before
<1>1. PICK i \in 1..Len(u.before) :
         /\ u.before[i] = <<u.path, e.text>> /\ u.after = RemoveAt(u.before, i)
         /\ e.next = IF i < Len(u.before) THEN u.before[i + 1][1] ELSE None
  BY DEF IsWhatWasTaken
<1>2. u.before \in ShapeOf /\ u.path \in Path /\ Len(u.before) \in Nat /\ \A j \in 1..Len(u.before) : u.before[j] \in Path \X Text
  <2>1. u.before \in Seq(Path \X Text) /\ u.path \in Path
    BY DEF ToUndo
  <2> QED
    BY <2>1, LenProperties, ElementOfSeq DEF ShapeOf
<1>3. Plain(e) \in Entry /\ <<Plain(e).path, Plain(e).text>> = u.before[i]
  BY <1>1, PlainIsAnEntry DEF IsWhatWasTaken
<1>4. /\ u.after \in ShapeOf /\ Len(u.after) = Len(u.before) - 1
      /\ \A j \in 1..(Len(u.before) - 1) : u.after[j] = IF j < i THEN u.before[j] ELSE u.before[j + 1]
  <2>1. u.before \in Seq(Path \X Text) /\ i \in 1..Len(u.before) /\ u.after = RemoveAt(u.before, i)
    BY <1>1, <1>2 DEF ShapeOf
  <2> QED
    BY <2>1, TakenOut DEF ShapeOf
<1>5. Len(doc) = Len(u.before) - 1 /\ \A j \in 1..Len(doc) : doc[j].path = u.after[j][1] /\ Shape(doc)[j] = u.after[j]
  BY <1>4, ShapeIsOne
<1>6. \A j, k \in 1..Len(u.before) : j # k => u.before[j][1] # u.before[k][1]
  BY <1>2, LenProperties DEF EachPathOnce, ShapeOf
<1>7. None \notin Path
  BY StartupAssumption
<1>8. CASE i = Len(u.before)
  <2>1. Restored(doc, e) = Append(doc, Plain(e))
    BY <1>1, <1>8 DEF Restored
  <2>2. Shape(Restored(doc, e)) = Append(u.after, u.before[i])
    BY <1>3, <2>1, ShapeOfTheNext
  <2>3. /\ Append(u.after, u.before[i]) \in ShapeOf /\ Len(Append(u.after, u.before[i])) = Len(u.before)
        /\ Append(u.after, u.before[i])[Len(u.before)] = u.before[i]
        /\ \A j \in 1..(Len(u.before) - 1) : Append(u.after, u.before[i])[j] = u.after[j]
    BY <1>2, <1>4, AppendProperties DEF ShapeOf
  <2>4. \A j \in 1..Len(u.before) : Append(u.after, u.before[i])[j] = u.before[j]
    BY SMTT(30), <1>2, <1>4, <1>8, <2>3
  <2> QED
    BY <1>2, <2>2, <2>3, <2>4, SeqEqual DEF ShapeOf
<1>9. CASE i < Len(u.before)
  <2>1. e.next = u.before[i + 1][1] /\ e.next # None
    BY <1>1, <1>2, <1>7, <1>9
  <2>2. i \in 1..Len(doc) /\ doc[i].path = e.next /\ \A j \in 1..(i - 1) : doc[j].path # e.next
    <3>1. i \in 1..(Len(u.before) - 1) /\ i \in 1..Len(doc) /\ i + 1 \in 1..Len(u.before)
      BY <1>2, <1>5, <1>9
    <3>2. doc[i].path = u.before[i + 1][1]
      <4>1. u.after[i] = u.before[i + 1]
        BY <1>4, <3>1
      <4> QED
        BY <1>5, <3>1, <4>1
    <3>3. ASSUME NEW j \in 1..(i - 1) PROVE doc[j].path # e.next
      <4>1. j \in 1..(Len(u.before) - 1) /\ j \in 1..Len(u.before) /\ j < i /\ j # i + 1
        BY <1>2, <3>1
      <4>2. u.after[j] = u.before[j]
        BY <1>4, <4>1
      <4> QED
        BY SMTT(30), <1>5, <1>6, <2>1, <3>1, <4>1, <4>2
    <3> QED
      BY <2>1, <3>1, <3>2, <3>3
  <2>3. PositionOf(e.next, doc) = i /\ Has(doc, e.next)
    BY <2>2, TheFirstOfThem
  <2> DEFINE n == InsertAt(doc, i, Plain(e))
  <2>4. Restored(doc, e) = n
    BY <2>1, <2>3 DEF Restored
  <2>5. /\ n \in Seq(Entry) /\ Len(n) = Len(u.before)
        /\ \A j \in 1..Len(u.before) : n[j] = IF j < i THEN doc[j] ELSE IF j = i THEN Plain(e) ELSE doc[j - 1]
    <3>1. /\ n \in Seq(Entry) /\ Len(n) = Len(doc) + 1
          /\ \A j \in 1..(Len(doc) + 1) : n[j] = IF j < i THEN doc[j] ELSE IF j = i THEN Plain(e) ELSE doc[j - 1]
      BY <1>3, <2>2, PutIn
    <3>2. Len(doc) + 1 = Len(u.before)
      BY <1>2, <1>5
    <3> QED
      BY <3>1, <3>2
  <2> HIDE DEF n
  <2>6. /\ Shape(n) \in ShapeOf /\ Len(Shape(n)) = Len(u.before)
        /\ \A j \in 1..Len(u.before) : Shape(n)[j] = <<n[j].path, n[j].text>>
    BY <2>5, ShapeIsOne
  <2>7. \A j \in 1..Len(doc) : <<doc[j].path, doc[j].text>> = u.after[j]
    BY <1>5, ShapeIsOne
  <2>8. ASSUME NEW j \in 1..Len(u.before) PROVE Shape(n)[j] = u.before[j]
    <3>0. Len(u.before) \in Nat /\ Len(doc) = Len(u.before) - 1 /\ Shape(n)[j] = <<n[j].path, n[j].text>>
          /\ n[j] = IF j < i THEN doc[j] ELSE IF j = i THEN Plain(e) ELSE doc[j - 1]
      BY <1>2, <1>5, <2>5, <2>6
    <3>1. CASE j < i
      <4>1. j \in 1..(Len(u.before) - 1) /\ j \in 1..Len(doc)
        BY <1>9, <3>0, <3>1
      <4>2. u.after[j] = u.before[j]
        BY <1>4, <3>1, <4>1
      <4> QED
        BY <2>7, <3>0, <3>1, <4>1, <4>2
    <3>2. CASE j = i
      BY <1>3, <3>0, <3>2
    <3>3. CASE j > i
      <4>1. j - 1 \in 1..(Len(u.before) - 1) /\ j - 1 \in 1..Len(doc) /\ ~(j - 1 < i) /\ (j - 1) + 1 = j
        BY <3>0, <3>3
      <4>2. u.after[j - 1] = u.before[(j - 1) + 1]
        BY <1>4, <4>1
      <4>3. u.after[j - 1] = u.before[j] /\ n[j] = doc[j - 1]
        BY <3>0, <3>3, <4>1, <4>2
      <4> QED
        BY <2>7, <3>0, <4>1, <4>3
    <3> QED
      BY <1>2, <3>1, <3>2, <3>3
  <2> QED
    BY <1>2, <2>4, <2>6, <2>8, SeqEqual DEF ShapeOf
<1> QED
  BY <1>2, <1>8, <1>9

\* What is remembered of an add is enough to take it back.
LEMMA AnAddRemembered ==
  ASSUME NEW doc \in Seq(Entry), NEW kept \in Seq(Kept), NEW c, WellFormed(c), c.kind = "add", ~Refuses(doc, kept, c),
         NEW u, u.path = c.path, u.before = Shape(doc), u.after = Shape(Rewritten(doc, kept, c))
  PROVE  OfAnAdd(u)
<1> DEFINE e == [path |-> c.path, text |-> c.text, on |-> TRUE]
<1>1. e \in Entry /\ e.path = c.path /\ e.text = c.text /\ c.text \in Text
  BY DEF WellFormed, Change, Entry
<1>2. Rewritten(doc, kept, c) = Append(doc, e)
  BY DEF Rewritten
<1> HIDE DEF e
<1>3. u.after = Append(u.before, <<u.path, c.text>>)
  BY <1>1, <1>2, ShapeOfTheNext
<1>4. \A j \in 1..Len(doc) : doc[j].path # c.path
  BY HasIsSomewhere DEF Refuses
<1>5. Len(u.before) = Len(doc) /\ \A j \in 1..Len(doc) : u.before[j][1] = doc[j].path
  BY ShapeIsOne
<1> QED
  BY <1>1, <1>3, <1>4, <1>5 DEF OfAnAdd

\* What is remembered of an edit is enough to take it back.
LEMMA AnEditRemembered ==
  ASSUME NEW doc \in Seq(Entry), NEW kept \in Seq(Kept), NEW c, WellFormed(c), c.kind = "edit", ~Refuses(doc, kept, c),
         NEW u, u.path = c.to, u.was = EntryAt(doc, c.path),
         u.before = Shape(doc), u.after = Shape(Rewritten(doc, kept, c))
  PROVE  OfAnEdit(u)
<1> DEFINE i == PositionOf(c.path, doc)
           e == [doc[i] EXCEPT !.path = c.to, !.text = c.text]
<1>1. i \in 1..Len(doc) /\ doc[i].path = c.path /\ doc[i] \in Entry
  BY WhatItIsOf
<1>2. \A j \in 1..(i - 1) : doc[j].path # c.path
  <2>1. \A j \in 1..Len(doc) : doc[j].path = c.path => i <= j
    BY <1>1, PositionIsFirst
  <2> QED
    BY <1>1, <2>1
<1>3. Rewritten(doc, kept, c) = [doc EXCEPT ![i] = e]
  BY DEF Rewritten
<1>4. u.was.path = doc[i].path /\ u.was.text = doc[i].text
  BY DEF EntryAt
<1> HIDE DEF i
<1>5. e \in Entry /\ e.path = c.to /\ e.text = c.text /\ c.text \in Text
  BY <1>1 DEF WellFormed, Change, Entry
<1> HIDE DEF e
<1>6. u.after = [u.before EXCEPT ![i] = <<u.path, c.text>>]
  <2>1. Shape([doc EXCEPT ![i] = e]) = [Shape(doc) EXCEPT ![i] = <<e.path, e.text>>]
    BY <1>1, <1>5, ShapeOfTheEdited
  <2>2. u.path = e.path /\ c.text = e.text
    BY <1>5
  <2> QED
    BY <1>3, <2>1, <2>2
<1>7. Len(u.before) = Len(doc) /\ \A j \in 1..Len(doc) : u.before[j] = <<doc[j].path, doc[j].text>>
  BY ShapeIsOne
<1>8. u.before[i] = <<u.was.path, u.was.text>>
  BY <1>1, <1>4, <1>7
<1>9. \A j \in 1..(i - 1) : u.before[j][1] # u.was.path
  BY <1>1, <1>2, <1>4, <1>7
<1>10. u.path = u.was.path \/ \A j \in 1..Len(u.before) : u.before[j][1] # u.path
  <2>1. c.to # c.path => ~Has(doc, c.to)
    BY DEF Refuses
  <2>2. c.to # c.path => \A j \in 1..Len(doc) : doc[j].path # c.to
    BY <2>1, HasIsSomewhere
  <2> QED
    BY <1>1, <1>4, <1>7, <2>2
<1> QED
  BY <1>1, <1>5, <1>6, <1>7, <1>8, <1>9, <1>10 DEF OfAnEdit

\* What is kept by a removal is enough to take it back.
LEMMA ARemovalRemembered ==
  ASSUME NEW doc \in Seq(Entry), NEW kept \in Seq(Kept), NEW c, WellFormed(c), c.kind = "remove", ~Refuses(doc, kept, c),
         NEW u, u.path = c.path, u.before = Shape(doc), u.after = Shape(Rewritten(doc, kept, c))
  PROVE  IsWhatWasTaken(TakenFrom(doc, c.path), u)
<1> DEFINE i == PositionOf(c.path, doc)
           e == TakenFrom(doc, c.path)
<1>1. i \in 1..Len(doc) /\ doc[i].path = c.path /\ Has(doc, c.path)
  BY WhatItIsOf DEF Refuses
<1>2. Rewritten(doc, kept, c) = RemoveAt(doc, i)
  BY DEF Rewritten
<1>3. /\ e \in Kept /\ e.path = c.path /\ e.text = doc[i].text
      /\ e.next = IF i < Len(doc) THEN doc[i + 1].path ELSE None
  BY <1>1, WhatIsTaken DEF EntryAt
<1> HIDE DEF i, e
<1>4. u.after = RemoveAt(u.before, i)
  BY <1>1, <1>2, ShapeOfTheRest
<1>5. Len(u.before) = Len(doc) /\ Len(doc) \in Nat /\ \A j \in 1..Len(doc) : u.before[j] = <<doc[j].path, doc[j].text>>
  BY ShapeIsOne, LenProperties
<1>6. i < Len(doc) => u.before[i + 1][1] = doc[i + 1].path
  BY <1>1, <1>5
<1>7. u.before[i] = <<u.path, e.text>> /\ e.next = IF i < Len(u.before) THEN u.before[i + 1][1] ELSE None
  BY <1>1, <1>3, <1>5, <1>6
<1> QED
  BY <1>1, <1>3, <1>4, <1>5, <1>7 DEF IsWhatWasTaken, e

\* What a gesture that can be undone left among the kept entries.
KeptByIt(u) ==
    IF u.effect = "restore" \/ (u.effect = "edit" /\ u.was.path # u.path)
    THEN \E e \in Kept : /\ e.path = IF u.effect = "edit" THEN u.was.path ELSE u.path
                        /\ u.keptAfter = Append(u.keptBefore, e)
    ELSE u.effect = "edit" => u.keptAfter = u.keptBefore

\* The undo is of a gesture.
UndoIsOfAGesture ==
    undo # None => /\ undo.effect = "remove" => OfAnAdd(undo)
                   /\ undo.effect = "edit" => OfAnEdit(undo)
                   /\ KeptByIt(undo)

\* A written change that will replace the undo when it is settled.
ReplacesIt(d, u) ==
    d # None /\ d.written /\ d.change.kind # "switch" /\ ~(d.change.kind = "restore" /\ d.change.path # u.path)

\* While nothing else wrote the file, what an undo of a removal brings back is the newest kept at its path.
FoundBy(u, kept) == NewestAt(u.path, kept) # 0 /\ IsWhatWasTaken(kept[NewestAt(u.path, kept)], u)
RestoreFindsIt ==
    undo # None /\ undo.effect = "restore" /\ undo.quiet /\ ~ReplacesIt(doing["user"], undo) =>
      ~Has(file[undo.profile], undo.path) /\ FoundBy(undo, keeping[undo.profile])
RestoreInHand ==
    doing["user"] # None /\ doing["user"].purpose = "undo" /\ undo.effect = "restore" /\ undo.quiet =>
      FoundBy(undo, doing["user"].kept)

\* Another program's write of the file of the undo makes it one of a file that changed.
QuietIsUnstale ==
    \A t \in Thread : doing[t] # None /\ doing[t].stale /\ undo # None /\ undo.profile = doing[t].at => ~undo.quiet

UndoInv == UndoIsOfAGesture /\ RestoreFindsIt /\ RestoreInHand /\ QuietIsUnstale

\* The newest at a path is the same when another one is kept or dropped.
LEMMA NewestStays ==
  ASSUME NEW kept \in Seq(Kept), NEW p, NewestAt(p, kept) # 0
  PROVE  /\ \A e \in Kept : e.path # p => NewestAt(p, Append(kept, e)) # 0
                                        /\ Append(kept, e)[NewestAt(p, Append(kept, e))] = kept[NewestAt(p, kept)]
         /\ \A q : q # p => NewestAt(p, Dropped(kept, q)) # 0
                           /\ Dropped(kept, q)[NewestAt(p, Dropped(kept, q))] = kept[NewestAt(p, kept)]
<1> DEFINE n == NewestAt(p, kept)
<1>1. /\ n \in 1..Len(kept) /\ kept[n].path = p /\ \A i \in 1..Len(kept) : kept[i].path = p => i <= n
      /\ Len(kept) \in Nat
  BY NewestIsLast, LenProperties
<1> HIDE DEF n
<1>2. ASSUME NEW s \in Seq(Kept), NEW m \in 1..Len(s), s[m] = kept[n],
             \A i \in 1..Len(s) : s[i].path = p => i <= m
      PROVE  NewestAt(p, s) # 0 /\ s[NewestAt(p, s)] = kept[n]
  <2>1. s[m].path = p
    BY <1>1, <1>2
  <2>2. NewestAt(p, s) # 0
    BY <2>1, NewestIsLast
  <2>3. NewestAt(p, s) \in 1..Len(s) /\ NewestAt(p, s) >= m /\ s[NewestAt(p, s)].path = p
    BY <2>1, <2>2, NewestIsLast
  <2>4. NewestAt(p, s) = m
    BY <1>2, <2>3
  <2> QED
    BY <1>2, <2>2, <2>4
<1>3. ASSUME NEW e \in Kept, e.path # p
      PROVE  NewestAt(p, Append(kept, e)) # 0 /\ Append(kept, e)[NewestAt(p, Append(kept, e))] = kept[n]
  <2> DEFINE s == Append(kept, e)
  <2>1. s \in Seq(Kept) /\ Len(s) = Len(kept) + 1 /\ s[Len(kept) + 1] = e /\ \A j \in 1..Len(kept) : s[j] = kept[j]
    BY AppendProperties
  <2> HIDE DEF s
  <2>2. n \in 1..Len(s) /\ s[n] = kept[n]
    BY <1>1, <2>1
  <2>3. ASSUME NEW i \in 1..Len(s), s[i].path = p PROVE i <= n
    <3>1. i # Len(kept) + 1
      BY <1>3, <2>1, <2>3
    <3>2. i \in 1..Len(kept)
      BY <1>1, <2>1, <3>1
    <3> QED
      BY <1>1, <2>1, <2>3, <3>2
  <2>4. NewestAt(p, s) # 0 /\ s[NewestAt(p, s)] = kept[n]
    BY <1>2, <2>1, <2>2, <2>3
  <2> QED
    BY <2>4 DEF s
<1>4. ASSUME NEW q, q # p
      PROVE  NewestAt(p, Dropped(kept, q)) # 0 /\ Dropped(kept, q)[NewestAt(p, Dropped(kept, q))] = kept[n]
  <2> DEFINE k == NewestAt(q, kept)
             s == Dropped(kept, q)
  <2>1. CASE k = 0
    <3>1. s = kept
      BY <2>1 DEF Dropped
    <3> HIDE DEF s
    <3>2. NewestAt(p, s) # 0 /\ s[NewestAt(p, s)] = kept[n]
      BY <1>1, <1>2, <3>1
    <3> QED
      BY <3>2 DEF s
  <2>2. CASE k # 0
    <3>1. k \in 1..Len(kept) /\ kept[k].path = q
      BY <2>2, NewestIsLast
    <3>2. s = RemoveAt(kept, k)
      BY <2>2 DEF Dropped
    <3> HIDE DEF k, s
    <3>3. /\ s \in Seq(Kept) /\ Len(s) = Len(kept) - 1
          /\ \A j \in 1..(Len(kept) - 1) : s[j] = IF j < k THEN kept[j] ELSE kept[j + 1]
      BY <3>1, <3>2, TakenOut
    <3>4. k # n
      BY <1>1, <1>4, <3>1
    <3> DEFINE m == IF n < k THEN n ELSE n - 1
    <3>5. m \in 1..Len(s) /\ s[m] = kept[n]
      BY <1>1, <3>1, <3>3, <3>4
    <3>6. ASSUME NEW i \in 1..Len(s), s[i].path = p PROVE i <= m
      <4>1. CASE i < k
        <5>1. i \in 1..Len(kept) /\ kept[i].path = p
          BY <1>1, <3>3, <3>6, <4>1
        <5>2. i <= n
          BY <1>1, <5>1
        <5> QED
          BY <1>1, <3>1, <3>4, <4>1, <5>2
      <4>2. CASE i >= k
        <5>1. i + 1 \in 1..Len(kept) /\ kept[i + 1].path = p
          BY <1>1, <3>1, <3>3, <3>6, <4>2
        <5>2. i + 1 <= n
          BY <1>1, <5>1
        <5> QED
          BY <1>1, <3>1, <3>4, <4>2, <5>2
      <4> QED
        BY <3>1, <4>1, <4>2
    <3> HIDE DEF m
    <3>7. NewestAt(p, s) # 0 /\ s[NewestAt(p, s)] = kept[n]
      BY <1>2, <3>3, <3>5, <3>6
    <3> QED
      BY <3>7 DEF s
  <2> QED
    BY <2>1, <2>2
<1> QED
  BY <1>3, <1>4 DEF n

\* Keeping or dropping entries of other paths leaves what an undo would restore.
LEMMA FoundStays ==
  ASSUME NEW kept \in Seq(Kept), NEW u, FoundBy(u, kept)
  PROVE  /\ \A e \in Kept : e.path # u.path => FoundBy(u, Append(kept, e))
         /\ \A q : q # u.path => FoundBy(u, Dropped(kept, q))
<1>1. NewestAt(u.path, kept) # 0
  BY DEF FoundBy
<1>2. ASSUME NEW e \in Kept, e.path # u.path PROVE FoundBy(u, Append(kept, e))
  BY <1>1, <1>2, NewestStays DEF FoundBy
<1>3. ASSUME NEW q, q # u.path PROVE FoundBy(u, Dropped(kept, q))
  BY <1>1, <1>3, NewestStays DEF FoundBy
<1> QED
  BY <1>2, <1>3

\* A change brings no path to a document but the one it leads to.
LEMMA NoNewPaths ==
  ASSUME NEW doc \in Seq(Entry), NEW kept \in Seq(Kept), NEW c, WellFormed(c), ~Refuses(doc, kept, c),
         c.kind \in {"switch", "restore"}, NEW x, Has(Rewritten(doc, kept, c), x), x # c.path \/ c.kind = "switch"
  PROVE  Has(doc, x)
<1> DEFINE i == PositionOf(c.path, doc)
           n == Rewritten(doc, kept, c)
<1>n. n \in Seq(Entry)
  BY RewrittenIsADocument
<1>1. PICK j \in 1..Len(n) : n[j].path = x
  BY <1>n, HasIsSomewhere
<1> HIDE DEF n
<1>2. CASE c.kind = "switch"
  <2>1. i \in 1..Len(doc) /\ doc[i] \in Entry /\ doc[i].path = c.path
    BY <1>2, WhatItIsOf
  <2>2. n = [doc EXCEPT ![i] = [doc[i] EXCEPT !.on = c.on]]
    BY <1>2 DEF Rewritten, n
  <2> HIDE DEF i
  <2>3. [doc[i] EXCEPT !.on = c.on] \in Entry /\ [doc[i] EXCEPT !.on = c.on].path = c.path
    BY <2>1 DEF Entry, WellFormed, Change
  <2>4. Len(n) = Len(doc) /\ \A k \in 1..Len(doc) : n[k].path = doc[k].path
    BY <2>1, <2>2, <2>3, ExceptSeq
  <2> QED
    BY <1>1, <2>4, HasIsSomewhere
<1>3. CASE c.kind = "restore"
  <2> DEFINE e == kept[NewestAt(c.path, kept)]
  <2>1. e \in Kept /\ e.path = c.path
    BY <1>3, WhatItIsOf
  <2>2. n = Restored(doc, e)
    BY <1>3 DEF Rewritten, n
  <2> HIDE DEF e
  <2>3. Plain(e) \in Entry /\ Plain(e).path = c.path
    BY <2>1, PlainIsAnEntry
  <2>4. CASE n = Append(doc, Plain(e))
    <3>1. Len(n) = Len(doc) + 1 /\ n[Len(doc) + 1] = Plain(e) /\ \A k \in 1..Len(doc) : n[k] = doc[k]
      BY <2>3, <2>4, AppendProperties
    <3>2. j # Len(doc) + 1
      BY <1>1, <1>3, <2>3, <3>1
    <3>3. j \in 1..Len(doc)
      BY <3>1, <3>2
    <3> QED
      BY <1>1, <3>1, <3>3, HasIsSomewhere
  <2>5. CASE Has(doc, e.next) /\ n = InsertAt(doc, PositionOf(e.next, doc), Plain(e))
    <3> DEFINE k == PositionOf(e.next, doc)
    <3>1. k \in 1..Len(doc) /\ Len(doc) \in Nat
      BY <2>5, PositionOfIt
    <3> HIDE DEF k
    <3>2. Len(n) = Len(doc) + 1 /\ \A l \in 1..(Len(doc) + 1) :
            n[l] = IF l < k THEN doc[l] ELSE IF l = k THEN Plain(e) ELSE doc[l - 1]
      <4>1. n = InsertAt(doc, k, Plain(e))
        BY <2>5 DEF k
      <4> DEFINE x0 == Plain(e)
      <4>2. x0 \in Entry
        BY <2>3
      <4> HIDE DEF x0
      <4>3. /\ InsertAt(doc, k, x0) \in Seq(Entry) /\ Len(InsertAt(doc, k, x0)) = Len(doc) + 1
            /\ \A l \in 1..(Len(doc) + 1) :
                 InsertAt(doc, k, x0)[l] = IF l < k THEN doc[l] ELSE IF l = k THEN x0 ELSE doc[l - 1]
        BY <3>1, <4>2, PutIn
      <4> QED
        BY <4>1, <4>3 DEF x0
    <3>3. j # k
      BY <1>1, <1>3, <2>3, <3>2
    <3>4. CASE j < k
      <4>1. j \in 1..Len(doc) /\ doc[j].path = x
        BY <1>1, <3>1, <3>2, <3>4
      <4> QED
        BY <4>1, HasIsSomewhere
    <3>5. CASE j > k
      <4>1. j - 1 \in 1..Len(doc) /\ doc[j - 1].path = x
        BY <1>1, <3>1, <3>2, <3>5
      <4> QED
        BY <4>1, HasIsSomewhere
    <3> QED
      BY <1>1, <3>1, <3>2, <3>3, <3>4, <3>5
  <2> QED
    BY <2>2, <2>4, <2>5 DEF Restored
<1> QED
  BY <1>2, <1>3

\* A gesture that begins leaves the undo or forgets it.
LEMMA UndoWhenTheUserBegins == TInv /\ UndoInv /\ UserBegins => UndoInv'
<1> SUFFICES ASSUME TInv, UndoInv, UserBegins PROVE UndoInv'
  OBVIOUS
<1>1. PICK c \in Change, purpose \in {"gesture", "undo"} :
        /\ WellFormed(c) /\ Begin("user", c, purpose)
        /\ undo' \in {undo, None} /\ inUse = profile /\ file' = file
        /\ purpose = "undo" => undo' = undo /\ undo # None /\ undo.profile = inUse /\ c = OppositeOf(undo)
  BY DEF UserBegins
<1> DEFINE k == keeping[inUse]
           e == TakenFrom(file[inUse], c.path)
<1>2. /\ \A t \in Thread : doing[t] = None
      /\ doing'["user"] = Begun(c, purpose) /\ doing'["preset"] = None
      /\ \A p \in Profile : p # inUse => keeping'[p] = keeping[p]
      /\ keeping'[inUse] = IF Takes(c) THEN Append(k, e) ELSE k
      /\ ~Refuses(file[inUse], k, c)
  BY <1>1, WhatBeginDoes DEF TInv, Thread
<1>3. inUse \in Profile /\ k \in Seq(Kept) /\ file[inUse] \in Seq(Entry)
  BY DEF TInv, KeptTypes
<1>4. UndoIsOfAGesture'
  BY <1>1 DEF UndoIsOfAGesture, UndoInv
<1>5. QuietIsUnstale'
  BY <1>2 DEF QuietIsUnstale, Begun, Thread
<1>6. undo # None /\ undo.effect = "restore" /\ undo.quiet =>
        ~Has(file[undo.profile], undo.path) /\ FoundBy(undo, keeping[undo.profile])
  BY <1>2 DEF UndoInv, RestoreFindsIt, ReplacesIt, Thread
<1>7. Takes(c) => e \in Kept /\ e.path = c.path /\ Has(file[inUse], c.path)
  <2>1. Takes(c) => Has(file[inUse], c.path)
    BY <1>2 DEF Takes, Moves, Refuses
  <2> QED
    BY <1>3, <2>1, WhatIsTaken
<1> HIDE DEF e, k
<1>8. RestoreFindsIt'
  <2> SUFFICES ASSUME undo # None, undo.effect = "restore", undo.quiet
               PROVE  ~Has(file[undo.profile], undo.path) /\ FoundBy(undo, keeping'[undo.profile])
    BY <1>1 DEF RestoreFindsIt
  <2>1. ~Has(file[undo.profile], undo.path) /\ FoundBy(undo, keeping[undo.profile]) /\ undo.profile \in Profile
    BY <1>6 DEF TInv, KeptTypes, Maybe, ToUndo
  <2>2. CASE undo.profile = inUse
    <3>1. Takes(c) => e.path # undo.path
      BY <1>7, <2>1, <2>2
    <3>2. FoundBy(undo, k)
      BY <2>1, <2>2 DEF k
    <3> QED
      BY <1>2, <1>3, <1>7, <2>1, <2>2, <3>1, <3>2, FoundStays
  <2> QED
    BY <1>2, <2>1, <2>2
<1>9. RestoreInHand'
  BY <1>1, <1>2, <1>6 DEF RestoreInHand, Begun, k
<1> QED
  BY <1>4, <1>5, <1>8, <1>9 DEF UndoInv

\* The steps of the presets and a change that fails leave the undo what it needs.
LEMMA UndoWhenTheRestIsKept ==
  TInv /\ ReadIsThere /\ UndoInv /\ KeepsTheRest /\ (file' = file \/ WriteTheFile("preset"))
  /\ (\A t \in Thread : doing'[t] # None /\ doing'[t].stale => doing[t] # None /\ doing'[t] = doing[t])
  => UndoInv'
<1> SUFFICES ASSUME TInv, ReadIsThere, UndoInv, KeepsTheRest, file' = file \/ WriteTheFile("preset"),
                    \A t \in Thread : doing'[t] # None /\ doing'[t].stale => doing[t] # None /\ doing'[t] = doing[t]
             PROVE  UndoInv'
  OBVIOUS
<1>1. /\ keeping' = keeping
      /\ undo' \in {undo, None}
      /\ undo' # None => \/ doing'["user"] = doing["user"]
                         \/ (doing'["user"] = None /\ doing["user"] # None /\ ~doing["user"].written)
  BY DEF KeepsTheRest
<1>2. UndoIsOfAGesture'
  BY <1>1 DEF UndoIsOfAGesture, UndoInv
<1>3. QuietIsUnstale'
  BY <1>1 DEF QuietIsUnstale, UndoInv
<1>4. RestoreInHand'
  BY DEF KeepsTheRest, RestoreInHand, UndoInv
<1>5. RestoreFindsIt'
  <2> SUFFICES ASSUME undo # None, undo' = undo, undo.effect = "restore", undo.quiet, ~ReplacesIt(doing'["user"], undo)
               PROVE  ~Has(file'[undo.profile], undo.path) /\ FoundBy(undo, keeping[undo.profile])
    BY <1>1 DEF RestoreFindsIt
  <2>1. ~ReplacesIt(doing["user"], undo)
    BY <1>1 DEF ReplacesIt
  <2>2. ~Has(file[undo.profile], undo.path) /\ FoundBy(undo, keeping[undo.profile]) /\ undo.profile \in Profile
    BY <2>1 DEF RestoreFindsIt, UndoInv, TInv, KeptTypes, Maybe, ToUndo
  <2>3. CASE WriteTheFile("preset")
    <3> DEFINE d == doing["preset"]
    <3>1. d # None /\ ~d.written /\ d \in InHand /\ file' = [file EXCEPT ![d.at] = d.doc]
      BY <2>3 DEF WriteTheFile, TInv, KeptTypes, Maybe, Thread
    <3>2. /\ WellFormed(d.change) /\ ~Refuses(d.read, d.kept, d.change)
          /\ d.doc = Rewritten(d.read, d.kept, d.change) /\ d.change.kind = "switch"
          /\ d.read \in Seq(Entry) /\ d.kept \in Seq(Kept) /\ d.at \in Profile
      BY <3>1 DEF TInv, InHandIsSound, Thread, InHand
    <3>3. CASE undo.profile = d.at
      <4>1. file[d.at] = d.read
        BY <3>1, <3>3 DEF ReadIsThere, UndoInv, QuietIsUnstale, Thread
      <4>2. file'[d.at] = d.doc
        BY <3>1, <3>2 DEF TInv, KeptTypes
      <4> QED
        BY <2>2, <3>2, <3>3, <4>1, <4>2, NoNewPaths
    <3>4. CASE undo.profile # d.at
      <4>1. file'[undo.profile] = file[undo.profile]
        BY <2>2, <3>1, <3>2, <3>4 DEF TInv, KeptTypes
      <4> QED
        BY <2>2, <4>1
    <3> QED
      BY <3>3, <3>4
  <2> QED
    BY <2>2, <2>3
<1> QED
  BY <1>2, <1>3, <1>4, <1>5 DEF UndoInv

\* A write of the user's changes what is to be undone only when it is settled.
LEMMA UndoWhenTheUserWrites == TInv /\ ReadIsThere /\ UndoInv /\ WriteTheFile("user") => UndoInv'
<1> SUFFICES ASSUME TInv, ReadIsThere, UndoInv, WriteTheFile("user") PROVE UndoInv'
  OBVIOUS
<1> DEFINE d == doing["user"]
           c == d.change
<1>1. /\ d # None /\ ~d.written /\ d \in InHand
      /\ file' = [file EXCEPT ![d.at] = d.doc] /\ keeping' = keeping /\ undo' = undo
      /\ doing' = [doing EXCEPT !["user"] = [d EXCEPT !.written = TRUE]]
      /\ doing \in [Thread -> Maybe(InHand)]
  BY DEF WriteTheFile, TInv, KeptTypes, Maybe, Thread
<1>2. /\ doing'["user"] # None /\ doing'["user"].written /\ doing'["user"].stale = d.stale
      /\ doing'["user"].at = d.at /\ doing'["user"].kept = d.kept /\ doing'["user"].read = d.read
      /\ doing'["user"].change = c /\ doing'["user"].purpose = d.purpose
      /\ doing'["preset"] = doing["preset"]
  <2>1. doing'["user"] = [d EXCEPT !.written = TRUE] /\ doing'["preset"] = doing["preset"]
    BY <1>1 DEF Thread
  <2>2. [d EXCEPT !.written = TRUE] \in InHand
    BY <1>1 DEF InHand
  <2> QED
    BY ZenonT(30), <1>1, <2>1, <2>2, NoneIsNeither DEF InHand
<1>3. /\ WellFormed(c) /\ ~Refuses(d.read, d.kept, c) /\ d.doc = Rewritten(d.read, d.kept, c)
      /\ d.read \in Seq(Entry) /\ d.kept \in Seq(Kept) /\ d.at \in Profile
  BY <1>1 DEF TInv, InHandIsSound, Thread, InHand
<1>4. d.stale \/ file[d.at] = d.read
  BY <1>1 DEF ReadIsThere, Thread
<1> HIDE DEF d, c
<1>5. UndoIsOfAGesture'
  BY <1>1 DEF UndoIsOfAGesture, UndoInv
<1>6. QuietIsUnstale'
  BY <1>1, <1>2 DEF QuietIsUnstale, UndoInv, Thread, d
<1>7. RestoreInHand'
  BY <1>1, <1>2 DEF RestoreInHand, UndoInv, d
<1>8. RestoreFindsIt'
  <2> SUFFICES ASSUME undo # None, undo.effect = "restore", undo.quiet, ~ReplacesIt(doing'["user"], undo)
               PROVE  ~Has(file'[undo.profile], undo.path) /\ FoundBy(undo, keeping[undo.profile])
    BY <1>1 DEF RestoreFindsIt
  <2>1. c.kind = "switch" \/ (c.kind = "restore" /\ c.path # undo.path)
    BY <1>2 DEF ReplacesIt
  <2>2. ~ReplacesIt(doing["user"], undo)
    BY <1>1 DEF ReplacesIt, d
  <2>3. ~Has(file[undo.profile], undo.path) /\ FoundBy(undo, keeping[undo.profile]) /\ undo.profile \in Profile
    BY <2>2 DEF RestoreFindsIt, UndoInv, TInv, KeptTypes, Maybe, ToUndo
  <2>4. CASE undo.profile = d.at
    <3>1. file[d.at] = d.read
      BY <1>1, <1>4, <2>4 DEF UndoInv, QuietIsUnstale, Thread, d
    <3>2. file'[d.at] = d.doc
      BY <1>1, <1>3 DEF TInv, KeptTypes
    <3>3. Has(d.doc, undo.path) => Has(d.read, undo.path)
      BY <1>3, <2>1, NoNewPaths
    <3> QED
      BY <2>3, <2>4, <3>1, <3>2, <3>3
  <2>5. CASE undo.profile # d.at
    <3>1. file'[undo.profile] = file[undo.profile]
      BY <1>1, <1>3, <2>3, <2>5 DEF TInv, KeptTypes
    <3> QED
      BY <2>3, <3>1
  <2> QED
    BY <2>4, <2>5
<1> QED
  BY <1>5, <1>6, <1>7, <1>8 DEF UndoInv

\* After another program's write the undo no longer is of a quiet file.
LEMMA UndoWhenAnotherWrites == TInv /\ UndoInv /\ (\E p \in Profile : ForeignWrite(p)) => UndoInv'
<1> SUFFICES ASSUME TInv, UndoInv, NEW p \in Profile, ForeignWrite(p) PROVE UndoInv'
  OBVIOUS
<1>1. keeping' = keeping /\ \E n : file' = [file EXCEPT ![p] = n]
  BY DEF ForeignWrite
<1>2. ASSUME NEW t \in Thread
      PROVE  /\ doing'[t] # None <=> doing[t] # None
             /\ doing[t] # None => /\ doing'[t].at = doing[t].at /\ doing'[t].kept = doing[t].kept
                                   /\ doing'[t].written = doing[t].written /\ doing'[t].change = doing[t].change
                                   /\ doing'[t].purpose = doing[t].purpose
                                   /\ doing'[t].stale => doing[t].stale \/ doing[t].at = p
  <2>1. doing[t] # None => [doing[t] EXCEPT !.stale = TRUE] \in InHand /\ doing[t] \in InHand
    BY DEF Maybe, InHand, TInv, KeptTypes
  <2>2. doing'[t] = IF doing[t] # None /\ doing[t].at = p THEN [doing[t] EXCEPT !.stale = TRUE] ELSE doing[t]
    BY DEF ForeignWrite
  <2> QED
    BY <2>1, <2>2, NoneIsNeither DEF InHand
<1>3. /\ undo' # None <=> undo # None
      /\ undo # None => /\ undo \in ToUndo
                        /\ undo' = IF undo.profile = p THEN [undo EXCEPT !.quiet = FALSE] ELSE undo
                        /\ undo'.profile = undo.profile /\ undo'.effect = undo.effect
                        /\ undo'.path = undo.path /\ undo'.was = undo.was
                        /\ undo'.before = undo.before /\ undo'.after = undo.after
                        /\ undo'.keptBefore = undo.keptBefore /\ undo'.keptAfter = undo.keptAfter
                        /\ undo'.quiet => undo.profile # p /\ undo' = undo
  <2>1. undo' = IF undo # None /\ undo.profile = p THEN [undo EXCEPT !.quiet = FALSE] ELSE undo
    BY DEF ForeignWrite
  <2>2. undo # None => undo \in ToUndo /\ [undo EXCEPT !.quiet = FALSE] \in ToUndo
    BY DEF TInv, KeptTypes, Maybe, ToUndo
  <2> QED
    BY <2>1, <2>2, NoneIsNeither DEF ToUndo
<1>4. UndoIsOfAGesture'
  <2>1. undo # None /\ OfAnAdd(undo) => OfAnAdd(undo)'
    BY <1>3 DEF OfAnAdd
  <2>3. undo # None /\ OfAnEdit(undo) => OfAnEdit(undo)'
    <3> SUFFICES ASSUME undo # None, OfAnEdit(undo) PROVE OfAnEdit(undo')
      OBVIOUS
    <3>1. PICK i \in 1..Len(undo.before), t \in Text :
            /\ undo.before[i] = <<undo.was.path, undo.was.text>>
            /\ \A j \in 1..(i - 1) : undo.before[j][1] # undo.was.path
            /\ undo.after = [undo.before EXCEPT ![i] = <<undo.path, t>>]
            /\ undo.path = undo.was.path \/ \A j \in 1..Len(undo.before) : undo.before[j][1] # undo.path
      BY DEF OfAnEdit
    <3>2. /\ undo'.before = undo.before /\ undo'.after = undo.after
          /\ undo'.was = undo.was /\ undo'.path = undo.path
      BY <1>3
    <3>3. /\ undo'.before[i] = <<undo'.was.path, undo'.was.text>>
          /\ \A j \in 1..(i - 1) : undo'.before[j][1] # undo'.was.path
          /\ undo'.after = [undo'.before EXCEPT ![i] = <<undo'.path, t>>]
          /\ undo'.path = undo'.was.path \/ \A j \in 1..Len(undo'.before) : undo'.before[j][1] # undo'.path
          /\ i \in 1..Len(undo'.before)
      BY <3>1, <3>2
    <3> QED
      BY <3>3 DEF OfAnEdit
  <2>2. undo # None /\ KeptByIt(undo) => KeptByIt(undo)'
    BY <1>3 DEF KeptByIt
  <2> QED
    BY <1>3, <2>1, <2>2, <2>3 DEF UndoIsOfAGesture, UndoInv
<1>5. QuietIsUnstale'
  BY <1>2, <1>3 DEF QuietIsUnstale, UndoInv
<1>6. RestoreInHand'
  BY <1>2, <1>3 DEF RestoreInHand, UndoInv, Thread
<1>7. RestoreFindsIt'
  <2> SUFFICES ASSUME undo # None, undo.effect = "restore", undo.quiet, undo' = undo, undo.profile # p,
                      ~ReplacesIt(doing'["user"], undo)
               PROVE  ~Has(file'[undo.profile], undo.path) /\ FoundBy(undo, keeping[undo.profile])
    BY <1>1, <1>3 DEF RestoreFindsIt
  <2>1. ~ReplacesIt(doing["user"], undo)
    BY <1>2 DEF ReplacesIt, Thread
  <2>2. file'[undo.profile] = file[undo.profile]
    BY <1>1, <1>3 DEF ToUndo, TInv, KeptTypes
  <2> QED
    BY <2>1, <2>2 DEF RestoreFindsIt, UndoInv
<1> QED
  BY <1>4, <1>5, <1>6, <1>7 DEF UndoInv

\* Forgetting an entry forgets the undo that would restore it.
LEMMA UndoWhenItIsForgotten == TInv /\ UndoInv /\ (\E p \in Path : Forget(p)) => UndoInv'
<1> SUFFICES ASSUME TInv, UndoInv, NEW p \in Path, Forget(p) PROVE UndoInv'
  OBVIOUS
<1>1. /\ \A t \in Thread : doing[t] = None /\ doing'[t] = None
      /\ keeping' = [keeping EXCEPT ![inUse] = Dropped(keeping[inUse], p)] /\ file' = file
      /\ undo' \in {undo, None}
      /\ undo' # None /\ undo.effect = "restore" => undo.path # p
  BY DEF Forget, MayGesture, TheFileIsFree, UndoOf, WithoutTheUndoThatRestores
<1>2. UndoIsOfAGesture'
  BY <1>1 DEF UndoIsOfAGesture, UndoInv
<1>3. QuietIsUnstale' /\ RestoreInHand'
  BY <1>1 DEF QuietIsUnstale, RestoreInHand, Thread
<1>4. RestoreFindsIt'
  <2> SUFFICES ASSUME undo # None, undo.effect = "restore", undo.quiet, undo.path # p
               PROVE  ~Has(file[undo.profile], undo.path) /\ FoundBy(undo, keeping'[undo.profile])
    BY <1>1 DEF RestoreFindsIt
  <2>1. ~Has(file[undo.profile], undo.path) /\ FoundBy(undo, keeping[undo.profile])
    BY <1>1 DEF RestoreFindsIt, UndoInv, ReplacesIt, Thread
  <2>2. undo.profile \in Profile /\ keeping \in [Profile -> Seq(Kept)] /\ inUse \in Profile
    BY DEF TInv, KeptTypes, Maybe, ToUndo
  <2>3. keeping'[undo.profile] = IF undo.profile = inUse THEN Dropped(keeping[undo.profile], p) ELSE keeping[undo.profile]
    BY <1>1, <2>2
  <2>4. keeping[undo.profile] \in Seq(Kept)
    BY <2>2
  <2>5. FoundBy(undo, Dropped(keeping[undo.profile], p))
    BY <2>1, <2>4, FoundStays
  <2> QED
    BY <2>1, <2>3, <2>5
<1> QED
  BY <1>2, <1>3, <1>4 DEF UndoInv

\* What a settled gesture leaves to undo is of that gesture.
LEMMA UndoWhenItIsSettled == TInv /\ LostInv /\ UndoInv /\ Settle => UndoInv'
<1> SUFFICES ASSUME TInv, LostInv, UndoInv, Settle PROVE UndoInv'
  OBVIOUS
<1> DEFINE d == doing["user"]
           c == d.change
<1>1. PICK drops \in BOOLEAN :
        /\ keeping' = IF drops THEN [keeping EXCEPT ![d.at] = KeepingAfter(d)] ELSE keeping
        /\ undo' = UndoAfter(d)
  BY DEF Settle
<1>2. d # None /\ d.written /\ d \in InHand /\ file' = file /\ \A t \in Thread : doing'[t] = None
  BY DEF Settle, TInv, KeptTypes, OneChangeAtATime, Maybe, Thread
<1>3. /\ WellFormed(c) /\ ~Refuses(d.read, d.kept, c) /\ d.doc = Rewritten(d.read, d.kept, c)
      /\ d.at = profile /\ c \in Change
      /\ d.read \in Seq(Entry) /\ d.kept \in Seq(Kept) /\ d.at \in Profile
  BY <1>2 DEF TInv, InHandIsSound, Thread, InHand, WellFormed
<1>4. keeping[d.at] = IF Takes(c) THEN Append(d.kept, TakenFrom(d.read, c.path)) ELSE d.kept
  BY <1>2 DEF LostInv, KeptIsThere
<1>5. keeping[d.at] \in Seq(Kept) /\ keeping \in [Profile -> Seq(Kept)]
  BY <1>3 DEF TInv, KeptTypes
<1>6. Takes(c) => TakenFrom(d.read, c.path) \in Kept /\ TakenFrom(d.read, c.path).path = c.path
  <2>1. Takes(c) => Has(d.read, c.path)
    BY <1>3 DEF Takes, Moves, Refuses
  <2> QED
    BY <1>3, <2>1, WhatIsTaken
<1> HIDE DEF d, c
<1>7. QuietIsUnstale' /\ RestoreInHand'
  BY <1>2 DEF QuietIsUnstale, RestoreInHand, Thread
<1>8. CASE undo' = None
  BY <1>7, <1>8 DEF UndoInv, UndoIsOfAGesture, RestoreFindsIt
<1>9. CASE undo' = undo /\ (c.kind = "switch" \/ (c.kind = "restore" /\ (undo.effect = "restore" => undo.path # c.path)))
  <2>1. UndoIsOfAGesture'
    BY <1>9 DEF UndoIsOfAGesture, UndoInv
  <2>2. RestoreFindsIt'
    <3> SUFFICES ASSUME undo # None, undo.effect = "restore", undo.quiet
                 PROVE  ~Has(file[undo.profile], undo.path) /\ FoundBy(undo, keeping'[undo.profile])
      BY <1>2, <1>9 DEF RestoreFindsIt
    <3>1. ~ReplacesIt(doing["user"], undo)
      BY <1>9 DEF ReplacesIt, c, d
    <3>2. ~Has(file[undo.profile], undo.path) /\ FoundBy(undo, keeping[undo.profile]) /\ undo.profile \in Profile
      BY <3>1 DEF RestoreFindsIt, UndoInv, TInv, KeptTypes, Maybe, ToUndo
    <3>3. KeepingAfter(d) = IF c.kind = "restore" THEN Dropped(keeping[d.at], c.path) ELSE keeping[d.at]
      BY <1>9 DEF KeepingAfter, c, Moves
    <3>4. CASE undo.profile = d.at
      <4>1. keeping'[d.at] = keeping[d.at] \/ (c.kind = "restore" /\ keeping'[d.at] = Dropped(keeping[d.at], c.path))
        BY <1>1, <1>3, <1>5, <3>3
      <4>2. c.kind = "restore" => FoundBy(undo, Dropped(keeping[d.at], c.path))
        BY <1>5, <1>9, <3>2, <3>4, FoundStays
      <4> QED
        BY <3>2, <3>4, <4>1, <4>2
    <3>5. CASE undo.profile # d.at
      <4>1. keeping'[undo.profile] = keeping[undo.profile]
        BY <1>1, <1>3, <1>5, <3>2, <3>5
      <4> QED
        BY <3>2, <4>1
    <3> QED
      BY <3>4, <3>5
  <2> QED
    BY <1>7, <2>1, <2>2 DEF UndoInv
<1>10. CASE c.kind = "add" /\ undo' = Remembered(d, "remove", c.path, None)
  <2>1. undo'.path = c.path /\ undo'.effect = "remove" /\ undo'.before = Shape(d.read) /\ undo'.after = Shape(d.doc)
    BY <1>10 DEF Remembered
  <2>2. OfAnAdd(undo')
    BY <1>3, <1>10, <2>1, AnAddRemembered
  <2> QED
    BY <1>7, <2>1, <2>2 DEF UndoInv, UndoIsOfAGesture, RestoreFindsIt, KeptByIt
<1>11. CASE c.kind = "edit" /\ undo' = Remembered(d, "edit", c.to, EntryAt(d.read, c.path))
  <2>1. /\ undo'.path = c.to /\ undo'.effect = "edit" /\ undo'.was = EntryAt(d.read, c.path)
        /\ undo'.before = Shape(d.read) /\ undo'.after = Shape(d.doc)
        /\ undo'.keptBefore = d.kept /\ undo'.keptAfter = keeping[d.at]
    BY <1>11 DEF Remembered
  <2>2. OfAnEdit(undo')
    BY <1>3, <1>11, <2>1, AnEditRemembered
  <2>3. undo'.was.path = c.path
    BY <1>3, <1>11, <2>1, WhatIsTaken DEF Refuses
  <2>4. KeptByIt(undo')
    BY <1>4, <1>6, <1>11, <2>1, <2>3 DEF KeptByIt, Takes, Moves
  <2> QED
    BY <1>7, <2>1, <2>2, <2>4 DEF UndoInv, UndoIsOfAGesture, RestoreFindsIt
<1>12. CASE c.kind = "remove" /\ ~Has(file[d.at], c.path) /\ undo' = Remembered(d, "restore", c.path, None)
            /\ d.purpose # "undo"
  <2>1. /\ undo'.path = c.path /\ undo'.effect = "restore" /\ undo'.profile = d.at
        /\ undo'.before = Shape(d.read) /\ undo'.after = Shape(d.doc)
        /\ undo'.keptBefore = d.kept /\ undo'.keptAfter = keeping[d.at]
    BY <1>3, <1>12 DEF Remembered
  <2> DEFINE e == TakenFrom(d.read, c.path)
  <2>2. IsWhatWasTaken(e, undo')
    BY <1>3, <1>12, <2>1, ARemovalRemembered
  <2>3. e \in Kept /\ e.path = c.path /\ keeping[d.at] = Append(d.kept, e)
    BY <1>4, <1>6, <1>12 DEF Takes
  <2> HIDE DEF e
  <2>4. KeptByIt(undo')
    BY <2>1, <2>3 DEF KeptByIt
  <2>5. keeping'[d.at] = Append(d.kept, e)
    <3>1. KeepingAfter(d) = keeping[d.at]
      BY <1>12 DEF KeepingAfter, c
    <3> QED
      BY <1>1, <1>3, <1>5, <2>3, <3>1
  <2>6. FoundBy(undo', Append(d.kept, e))
    <3> DEFINE s == Append(d.kept, e)
               n == Len(d.kept) + 1
    <3>1. s \in Seq(Kept) /\ Len(s) = n /\ s[n] = e
      BY <1>3, <2>3, AppendProperties
    <3>1a. n \in 1..Len(s)
      BY <1>3, <3>1, LenProperties
    <3> HIDE DEF s, n
    <3>2. NewestAt(e.path, s) # 0
      BY <3>1, <3>1a, NewestIsLast
    <3>3. NewestAt(e.path, s) \in 1..Len(s) /\ NewestAt(e.path, s) >= n
      BY <3>1, <3>1a, <3>2, NewestIsLast
    <3>4. NewestAt(e.path, s) = n
      BY <3>1, <3>1a, <3>3
    <3> QED
      BY <2>1, <2>2, <2>3, <3>1, <3>2, <3>4 DEF FoundBy, s
  <2> QED
    BY <1>2, <1>7, <1>12, <2>1, <2>4, <2>5, <2>6 DEF UndoInv, UndoIsOfAGesture, RestoreFindsIt
<1>13. d.purpose = "undo" => undo' = None
  BY <1>1 DEF UndoAfter
<1>14. d.purpose # "undo" =>
          /\ c.kind = "switch" => undo' = undo
          /\ c.kind = "add" => undo' = Remembered(d, "remove", c.path, None)
          /\ c.kind = "edit" => undo' = Remembered(d, "edit", c.to, EntryAt(d.read, c.path))
          /\ c.kind = "remove" =>
               undo' = None \/ (undo' = Remembered(d, "restore", c.path, None) /\ ~Has(file[d.at], c.path))
          /\ c.kind = "restore" =>
               undo' = None \/ (undo' = undo /\ (undo.effect = "restore" => undo.path # c.path))
  BY <1>1 DEF UndoAfter, c, WithoutTheUndoThatRestores
<1> QED
  BY <1>3, <1>8, <1>9, <1>10, <1>11, <1>12, <1>13, <1>14 DEF Change

UndoAndLostInv == FileInv /\ LostInv /\ UndoInv

\* What is owed and what the undo needs are kept by every step together.
LEMMA UndoAndLostHold == Spec => []UndoAndLostInv
<1>1. Init => UndoInv /\ LostInv
  BY DEF Init, UndoInv, UndoIsOfAGesture, RestoreFindsIt, RestoreInHand, QuietIsUnstale, Thread,
         LostInv, KeptIsThere, UndoInHand, SettledIsNotOwed, UndoIsOfItsEdit, NothingIsLost
<1>2. UndoAndLostInv /\ [Next]_vars => LostInv' /\ UndoInv'
  <2> SUFFICES ASSUME UndoAndLostInv, [Next]_vars PROVE LostInv' /\ UndoInv'
    OBVIOUS
  <2>0. TInv /\ ReadIsThere /\ LostInv /\ UndoInv
    BY DEF UndoAndLostInv, FileInv
  <2>1. LostInv'
    BY <2>0, HowTheKeepingChanges, LostWhenTheUserBegins, LostWhenTheRestIsKept, LostWhenTheUserWrites,
       LostWhenItIsSettled, LostWhenItIsForgotten, LostWhenAnotherWrites
  <2>2. CASE KeepsTheRest /\ ~(\E p \in Profile : ForeignWrite(p)) /\ ~WriteTheFile("user")
    <3>1. file' = file \/ WriteTheFile("preset")
      BY <2>0, <2>2, HowTheFilesChange DEF BeginsAChange, LetsGo, Thread
    <3>2. \A t \in Thread : doing'[t] # None /\ doing'[t].stale => doing[t] # None /\ doing'[t] = doing[t]
      <4>1. CASE BeginsAChange
        <5>1. PICK u \in Thread, c \in Change, purpose \in {"gesture", "undo", "preset"} :
                WellFormed(c) /\ Begin(u, c, purpose)
          BY <4>1 DEF BeginsAChange
        <5>2. doing'[u] = Begun(c, purpose) /\ \A v \in Thread : v # u => doing'[v] = None
          BY <2>0, <5>1, WhatBeginDoes DEF TInv
        <5> QED
          BY <5>2 DEF Begun
      <4>2. CASE LetsGo
        BY <4>2 DEF LetsGo
      <4>3. CASE WriteTheFile("preset")
        <5>1. doing' = [doing EXCEPT !["preset"] = None] /\ doing \in [Thread -> Maybe(InHand)]
          BY <2>0, <4>3 DEF WriteTheFile, TInv, KeptTypes
        <5> QED
          BY <5>1
      <4> QED
        BY <2>0, <2>2, <4>1, <4>2, <4>3, HowTheFilesChange DEF Thread
    <3> QED
      BY <2>0, <2>1, <2>2, <3>1, <3>2, UndoWhenTheRestIsKept
  <2>3. UndoInv'
    BY <2>0, <2>2, HowTheKeepingChanges, UndoWhenTheUserBegins, UndoWhenTheUserWrites,
       UndoWhenItIsSettled, UndoWhenItIsForgotten, UndoWhenAnotherWrites
  <2> QED
    BY <2>1, <2>3
<1> QED
  BY <1>1, <1>2, FileInvHolds, PTL DEF Spec, UndoAndLostInv

\* A change that was written leaves the hand when it is settled, unless the process dies.
LEMMA OnlySettled ==
  ASSUME TInv, Counted, [Next]_vars, doing["user"] # None, doing["user"].written, doing'["user"] = None,
         mishaps' = mishaps
  PROVE  Settle
<1>t. doing \in [Thread -> Maybe(InHand)] /\ Thread = {"user", "preset"} /\ doing["user"] \in InHand
  BY DEF TInv, KeptTypes, Thread, Maybe
<1>1. CASE Gesture \/ Switch \/ Undo
  BY <1>1, <1>t DEF Gesture, Switch, Undo, MayGesture, TheFileIsFree
<1>2. ASSUME NEW t \in Thread, WriteTheFile(t) PROVE FALSE
  <2>1. doing' = [doing EXCEPT ![t] = IF t = "preset" THEN None ELSE [@ EXCEPT !.written = TRUE]] /\ ~doing[t].written
    BY <1>2 DEF WriteTheFile
  <2> QED
    BY <1>t, <2>1
<1>3. ASSUME NEW t \in Thread, TheWriteFails(t) PROVE FALSE
  BY <1>3 DEF TheWriteFails, Counted
<1>4. CASE RunASwitch
  BY <1>4, <1>t DEF RunASwitch, TheFileIsFree
<1>5. ASSUME NEW p \in Profile, ForeignWrite(p) PROVE FALSE
  <2>1. doing'["user"] = IF doing["user"] # None /\ doing["user"].at = p
                         THEN [doing["user"] EXCEPT !.stale = TRUE] ELSE doing["user"]
    BY <1>5, <1>t DEF ForeignWrite
  <2>2. [doing["user"] EXCEPT !.stale = TRUE] \in InHand
    BY <1>t DEF InHand
  <2> QED
    BY <1>t, <2>1, <2>2, NoneIsNeither
<1>6. CASE Crash
  BY <1>6 DEF Crash, Counted
<1>7. CASE UNCHANGED doing
  BY <1>7
<1> QED
  BY <1>1, <1>2, <1>3, <1>4, <1>5, <1>6, <1>7
     DEF Next, vars, UndoNothing, Forget, StartToApply, PlanTheSwitches, RecordTheReturn, RefuseToApply, EndTheApply,
         ShowProfile, UseItsFile

\* An undo of a gesture after which nothing else changed the file takes it back.
THEOREM TheUndoTakesItBack == Spec => UndoTakesTheGestureBack
<1> DEFINE Back ==
     LET d == doing["user"]
     IN  d # None /\ d.purpose = "undo" /\ d.written /\ doing'["user"] = None /\ mishaps' = mishaps
         /\ undo.quiet /\ ~d.stale
         => /\ Shape(d.read) = undo.after /\ EachPathOnce(undo.before) => Shape(file'[d.at]) = undo.before
            /\ undo.effect # "remove" /\ d.kept = undo.keptAfter => keeping'[d.at] = undo.keptBefore
<1>1. UndoAndLostInv /\ [Next]_vars => [Back]_vars
  <2> SUFFICES ASSUME UndoAndLostInv, [Next]_vars,
                      doing["user"] # None, doing["user"].purpose = "undo", doing["user"].written,
                      doing'["user"] = None, mishaps' = mishaps, undo.quiet, ~doing["user"].stale
               PROVE  LET d == doing["user"]
                      IN  /\ Shape(d.read) = undo.after /\ EachPathOnce(undo.before) => Shape(file'[d.at]) = undo.before
                          /\ undo.effect # "remove" /\ d.kept = undo.keptAfter => keeping'[d.at] = undo.keptBefore
    OBVIOUS
  <2> DEFINE d == doing["user"]
             c == d.change
  <2>1. TInv /\ ReadIsThere /\ Counted /\ LostInv /\ UndoInv
    BY DEF UndoAndLostInv, FileInv
  <2>2. Settle
    BY <2>1, OnlySettled
  <2>3. /\ WellFormed(c) /\ ~Refuses(d.read, d.kept, c) /\ d.doc = Rewritten(d.read, d.kept, c)
        /\ d \in InHand /\ d.read \in Seq(Entry) /\ d.kept \in Seq(Kept) /\ d.at \in Profile
    BY <2>1 DEF TInv, InHandIsSound, Thread, InHand, KeptTypes, Maybe
  <2>4. undo # None /\ undo \in ToUndo /\ c = OppositeOf(undo)
    BY <2>1 DEF LostInv, UndoInHand, TInv, KeptTypes, Maybe
  <2>5. undo.effect \in {"remove", "restore", "edit"} /\ (undo.effect = "edit" => undo.was \in [path : Path, text : Text])
    BY <2>1, <2>4 DEF ToUndo, TInv, KeptTypes
  <2>6. file' = file /\ file[d.at] = d.doc
    BY <2>1, <2>2 DEF Settle, ReadIsThere, Thread
  <2>7. /\ undo.effect = "remove" => OfAnAdd(undo)
        /\ undo.effect = "edit" => OfAnEdit(undo)
        /\ KeptByIt(undo)
        /\ undo.effect = "restore" => FoundBy(undo, d.kept)
    BY <2>1, <2>4 DEF UndoInv, UndoIsOfAGesture, RestoreInHand
  <2>8. keeping[d.at] = IF Takes(c) THEN Append(d.kept, TakenFrom(d.read, c.path)) ELSE d.kept
    BY <2>1 DEF LostInv, KeptIsThere
  <2>9. keeping'[d.at] = KeepingAfter(d)
    <3>1. PICK follows \in BOOLEAN, theReturnFollows \in BOOLEAN, drops \in BOOLEAN :
            /\ mishaps' = mishaps + HowManyFailed(follows, theReturnFollows, drops)
            /\ keeping' = IF drops THEN [keeping EXCEPT ![d.at] = KeepingAfter(d)] ELSE keeping
      BY <2>2 DEF Settle
    <3>2. HowManyFailed(follows, theReturnFollows, drops) = 0
      BY <2>1, <3>1, SomeFailed DEF Counted
    <3>3. drops
      BY <3>2, SomeFailed
    <3> QED
      BY <2>1, <2>3, <3>1, <3>3 DEF TInv, KeptTypes
  <2> HIDE DEF d, c
  <2>10. ASSUME Shape(d.read) = undo.after, EachPathOnce(undo.before) PROVE Shape(d.doc) = undo.before
    <3>1. CASE undo.effect = "remove"
      <4>1. d.doc = RemoveAt(d.read, PositionOf(undo.path, d.read))
        BY <2>3, <2>4, <3>1 DEF OppositeOf, RemoveOf, Rewritten
      <4> QED
        BY <2>3, <2>4, <2>7, <2>10, <3>1, <4>1, AnAddTakenBack
    <3>2. CASE undo.effect = "edit"
      <4> DEFINE i == PositionOf(undo.path, d.read)
      <4>1. d.doc = [d.read EXCEPT ![i].path = undo.was.path, ![i].text = undo.was.text]
        BY <2>3, <2>4, <3>2 DEF OppositeOf, EditOf, Rewritten
      <4> QED
        BY <2>3, <2>4, <2>5, <2>7, <2>10, <3>2, <4>1, AnEditTakenBack
    <3>3. CASE undo.effect = "restore"
      <4> DEFINE e == d.kept[NewestAt(undo.path, d.kept)]
      <4>1. d.doc = Restored(d.read, e)
        BY <2>3, <2>4, <3>3 DEF OppositeOf, RestoreOf, Rewritten
      <4>2. IsWhatWasTaken(e, undo)
        BY <2>7, <3>3 DEF FoundBy
      <4> HIDE DEF e
      <4> QED
        BY <2>3, <2>4, <2>10, <4>1, <4>2, ARemovalTakenBack
    <3> QED
      BY <2>5, <3>1, <3>2, <3>3
  <2>11. ASSUME undo.effect # "remove", d.kept = undo.keptAfter PROVE KeepingAfter(d) = undo.keptBefore
    <3>0. undo.keptBefore \in Seq(Kept)
      BY <2>4 DEF ToUndo
    <3>1. CASE undo.effect = "restore"
      <4>1. c = RestoreOf(undo.path)
        BY <2>4, <3>1 DEF OppositeOf
      <4>2. c.kind = "restore" /\ c.path = undo.path
        BY <4>1 DEF RestoreOf
      <4>3. keeping[d.at] = d.kept
        BY <2>8, <4>2 DEF Takes, Moves
      <4>4. KeepingAfter(d) = Dropped(d.kept, undo.path)
        BY <4>2, <4>3 DEF KeepingAfter, c, Moves
      <4>5. PICK e \in Kept : e.path = undo.path /\ undo.keptAfter = Append(undo.keptBefore, e)
        BY <2>7, <3>1 DEF KeptByIt
      <4>6. Dropped(Append(undo.keptBefore, e), undo.path) = undo.keptBefore
        BY <3>0, <4>5, DroppedAgain
      <4> QED
        BY <2>11, <4>4, <4>5, <4>6
    <3>2. CASE undo.effect = "edit"
      <4>1. c = EditOf(undo.path, undo.was.path, undo.was.text)
        BY <2>4, <3>2 DEF OppositeOf
      <4>2. c.kind = "edit" /\ c.path = undo.path /\ c.to = undo.was.path
        BY <4>1 DEF EditOf
      <4>3. CASE undo.was.path = undo.path
        <5>1. ~Takes(c) /\ ~Moves(c)
          BY <4>2, <4>3 DEF Takes, Moves
        <5>2. KeepingAfter(d) = d.kept
          BY <2>8, <4>2, <5>1 DEF KeepingAfter, c
        <5> QED
          BY <2>7, <2>11, <3>2, <4>3, <5>2 DEF KeptByIt
      <4>4. CASE undo.was.path # undo.path
        <5>1. Moves(c) /\ Takes(c)
          BY <4>2, <4>4 DEF Takes, Moves
        <5> DEFINE x == TakenFrom(d.read, c.path)
        <5>2. x \in Kept /\ x.path = c.path
          BY <2>3, <4>2, WhatIsTaken DEF Refuses
        <5>3. keeping[d.at] = Append(d.kept, x)
          BY <2>8, <5>1
        <5> HIDE DEF x
        <5>4. KeepingAfter(d) = Dropped(Dropped(Append(d.kept, x), c.path), c.to)
          BY <4>2, <5>1, <5>3 DEF KeepingAfter, c, d
        <5>5. Dropped(Append(d.kept, x), c.path) = d.kept
          BY <2>3, <5>2, DroppedAgain
        <5>6. PICK e \in Kept : e.path = undo.was.path /\ undo.keptAfter = Append(undo.keptBefore, e)
          BY <2>7, <3>2, <4>4 DEF KeptByIt
        <5>7. Dropped(Append(undo.keptBefore, e), undo.was.path) = undo.keptBefore
          BY <3>0, <5>6, DroppedAgain
        <5> QED
          BY <2>11, <4>2, <5>4, <5>5, <5>6, <5>7
      <4> QED
        BY <4>3, <4>4
    <3> QED
      BY <2>5, <2>11, <3>1, <3>2
  <2> QED
    BY <2>6, <2>9, <2>10, <2>11 DEF d
<1> QED
  BY <1>1, UndoAndLostHold, PTL DEF Spec, UndoTakesTheGestureBack
=============================================================================
