------------------------- MODULE StudioPluginProofs -------------------------
(***************************************************************************)
(* For any cells, commands and bounds: a cell has one root in the place,   *)
(* an apply replaces no root with an edit the tracker should know and no   *)
(* revision holds, and never a newer command's root by an older one's.     *)
(* The inductive invariant has three parts: what the applies, the walks    *)
(* and the checkpoint under way know of the place (WorkInv),               *)
(* OneRootPerCell, and what it means that a cell is not dirty              *)
(* (TrackedInv).                                                           *)
(***************************************************************************)
EXTENDS StudioPlugin, SequenceTheorems, FiniteSetTheorems, TLAPS

-----------------------------------------------------------------------------
(* Listing a set, and what a swap makes of the roots *)

\* SetToSeq lists every element of a finite set once.
LEMMA SetToSeqLists ==
  ASSUME NEW S, IsFiniteSet(S)
  PROVE  /\ Cardinality(S) \in Nat
         /\ SetToSeq(S) \in [1 .. Cardinality(S) -> S]
         /\ \A k, l \in 1 .. Cardinality(S) : SetToSeq(S)[k] = SetToSeq(S)[l] => k = l
         /\ \A x \in S : \E k \in 1 .. Cardinality(S) : SetToSeq(S)[k] = x
<1>1. Cardinality(S) \in Nat /\ ExistsBijection(1 .. Cardinality(S), S)
  BY FS_CardinalityType
<1>2. PICK f \in Bijection(1 .. Cardinality(S), S) : TRUE
  BY <1>1 DEF ExistsBijection
<1>3. f \in [1 .. Cardinality(S) -> S] /\ IsInjective(f)
  BY <1>2 DEF Bijection, Injection
<1>4. SetToSeq(S) \in [1 .. Cardinality(S) -> S] /\ IsInjective(SetToSeq(S))
  BY <1>3 DEF SetToSeq
<1>5. SetToSeq(S) \in Injection(1 .. Cardinality(S), S)
  BY <1>4 DEF Injection
<1>6. IsFiniteSet(1 .. Cardinality(S)) /\ Cardinality(1 .. Cardinality(S)) = Cardinality(S)
  BY <1>1, FS_Interval
<1>7. SetToSeq(S) \in Surjection(1 .. Cardinality(S), S)
  BY <1>5, <1>6, FS_Injection
<1>8. \A x \in S : \E k \in 1 .. Cardinality(S) : SetToSeq(S)[k] = x
  BY <1>7 DEF Surjection
<1>9. DOMAIN SetToSeq(S) = 1 .. Cardinality(S)
  BY <1>4
<1>10. QED BY <1>1, <1>4, <1>8, <1>9 DEF IsInjective

\* A function on the first natural numbers is a sequence.
LEMMA ListIsSeq ==
  ASSUME NEW S, NEW k \in Nat, NEW f \in [1 .. k -> S]
  PROVE  f \in Seq(S) /\ Len(f) = k /\ DOMAIN f = 1 .. k
BY SeqDef, LenProperties

\* What a swap makes of the roots: those it takes out are no longer here, nothing else of
\* them changes, and one new root of each of its cells stands behind them.
SwappedTo(new, t, out, cs) ==
  /\ new \in Seq(Root) /\ Len(new) = Len(roots) + Cardinality(cs) /\ Len(roots) <= Len(new)
  /\ \A i \in DOMAIN roots : new[i] = [roots[i] EXCEPT !.here = @ /\ i \notin out]
  /\ \A j \in DOMAIN new : j \notin DOMAIN roots => \E c \in cs : new[j] = NewRoot(c, 0, t.id)
  /\ \A c \in cs : \E j \in DOMAIN new : j \notin DOMAIN roots /\ new[j] = NewRoot(c, 0, t.id)
  /\ \A i, j \in DOMAIN new : i \notin DOMAIN roots /\ j \notin DOMAIN roots
                                /\ new[i].cell = new[j].cell => i = j

LEMMA SwappedRoots ==
  ASSUME NEW t, NEW out, NEW cs, t.id \in Nat, cs \subseteq Cells, PluginAssumption,
         roots \in Seq(Root)
  PROVE  SwappedTo(Swapped(t, out, cs), t, out, cs)
<1> DEFINE new == Swapped(t, out, cs)
<1> DEFINE n == Len(roots)
           m == Cardinality(cs)
           s == SetToSeq(cs)
           u == [i \in DOMAIN roots |-> [roots[i] EXCEPT !.here = @ /\ i \notin out]]
           v == [k \in 1 .. m |-> NewRoot(s[k], 0, t.id)]
<1>1. IsFiniteSet(cs)
  BY FS_Subset DEF PluginAssumption
<1>2. /\ m \in Nat /\ s \in [1 .. m -> cs]
      /\ \A k, l \in 1 .. m : s[k] = s[l] => k = l
      /\ \A x \in cs : \E k \in 1 .. m : s[k] = x
  BY <1>1, SetToSeqLists
<1>3. n \in Nat /\ DOMAIN roots = 1 .. n /\ \A i \in 1 .. n : roots[i] \in Root
  BY LenProperties, ElementOfSeq
<1>4. \A i \in 1 .. n : [roots[i] EXCEPT !.here = @ /\ i \notin out] \in Root
  BY <1>3 DEF Root
<1>5. u \in [1 .. n -> Root]
  BY <1>3, <1>4
<1>6. \A c \in Cells : NewRoot(c, 0, t.id) \in Root /\ NewRoot(c, 0, t.id).cell = c
  BY DEF NewRoot, Root
<1>7. v \in [1 .. m -> Root]
  BY <1>2, <1>6
<1>9. new = u \o v
  BY DEF Swapped
<1>u. \A i \in 1 .. n : u[i] = [roots[i] EXCEPT !.here = @ /\ i \notin out]
  BY <1>3
<1>v. \A k \in 1 .. m : v[k] = NewRoot(s[k], 0, t.id)
  OBVIOUS
<1> HIDE DEF n, m, s, u, v, new
<1>8. u \in Seq(Root) /\ Len(u) = n /\ v \in Seq(Root) /\ Len(v) = m
  BY <1>2, <1>3, <1>5, <1>7, ListIsSeq
<1>10. /\ new \in Seq(Root) /\ Len(new) = n + m
       /\ \A i \in 1 .. n + m : new[i] = IF i <= n THEN u[i] ELSE v[i - n]
  <2>1. /\ u \o v \in Seq(Root) /\ Len(u \o v) = n + m
        /\ \A i \in 1 .. n + m : (u \o v)[i] = IF i <= n THEN u[i] ELSE v[i - n]
    BY <1>8, ConcatProperties
  <2>2. QED BY <1>9, <2>1
<1>11. DOMAIN new = 1 .. n + m
  BY <1>10, LenProperties
<1>12. \A i \in 1 .. n : new[i] = u[i]
  BY <1>2, <1>3, <1>10
<1>13. \A k \in 1 .. m : new[n + k] = v[k]
  BY <1>2, <1>3, <1>10
<1>14. \A j \in 1 .. n + m : j \notin 1 .. n => j - n \in 1 .. m /\ new[j] = v[j - n]
  BY <1>2, <1>3, <1>10
<1>15. \A j \in DOMAIN new : j \notin DOMAIN roots =>
          \E c \in cs : new[j] = NewRoot(c, 0, t.id)
  <2>1. SUFFICES ASSUME NEW j \in 1 .. n + m, j \notin 1 .. n
                 PROVE  \E c \in cs : new[j] = NewRoot(c, 0, t.id)
    BY <1>3, <1>11
  <2>2. j - n \in 1 .. m /\ new[j] = v[j - n]
    BY <1>14, <2>1
  <2>3. s[j - n] \in cs /\ v[j - n] = NewRoot(s[j - n], 0, t.id)
    BY <1>2, <1>v, <2>2
  <2>4. QED BY <2>2, <2>3
<1>16. \A c \in cs : \E j \in DOMAIN new : j \notin DOMAIN roots /\ new[j] = NewRoot(c, 0, t.id)
  <2>1. TAKE c \in cs
  <2>2. PICK k \in 1 .. m : s[k] = c
    BY <1>2
  <2>3. n + k \in 1 .. n + m /\ n + k \notin 1 .. n
    BY <1>2, <1>3
  <2>4. new[n + k] = NewRoot(c, 0, t.id)
    BY <1>13, <1>v, <2>2
  <2>5. QED BY <1>3, <1>11, <2>3, <2>4
<1>17. \A i, j \in DOMAIN new : i \notin DOMAIN roots /\ j \notin DOMAIN roots
                                  /\ new[i].cell = new[j].cell => i = j
  <2>1. SUFFICES ASSUME NEW i \in 1 .. n + m, NEW j \in 1 .. n + m, i \notin 1 .. n, j \notin 1 .. n,
                        new[i].cell = new[j].cell
                 PROVE  i = j
    BY <1>3, <1>11
  <2>2. /\ i - n \in 1 .. m /\ j - n \in 1 .. m
        /\ new[i] = NewRoot(s[i - n], 0, t.id) /\ new[j] = NewRoot(s[j - n], 0, t.id)
    <3>1. i - n \in 1 .. m /\ new[i] = v[i - n] /\ j - n \in 1 .. m /\ new[j] = v[j - n]
      BY <1>14, <2>1
    <3>2. QED BY <1>v, <3>1
  <2>3. s[i - n] \in Cells /\ s[j - n] \in Cells
    BY <1>2, <2>2
  <2>4. s[i - n] = s[j - n]
    BY <1>6, <2>1, <2>2, <2>3
  <2>5. i - n = j - n
    BY <1>2, <2>2, <2>4
  <2>6. QED BY <1>2, <1>3, <2>1, <2>5
<1>18. Len(roots) <= Len(new) /\ Len(new) = Len(roots) + Cardinality(cs)
  BY <1>2, <1>3, <1>10 DEF n, m
<1>19. \A i \in DOMAIN roots : new[i] = [roots[i] EXCEPT !.here = @ /\ i \notin out]
  BY <1>3, <1>12, <1>u
<1>20. SwappedTo(new, t, out, cs)
  BY <1>10, <1>15, <1>16, <1>17, <1>18, <1>19 DEF SwappedTo
<1>21. QED BY <1>20 DEF new

-----------------------------------------------------------------------------
(* What the work under way knows of the place *)

Capture == [at: {"serialize", "upload", "proposal", "failed"}, root: Nat, epoch: Nat,
            tries: Nat, edits: Nat, version: Nat, session: Nat]

\* Of an apply: the root it is to replace is one of its cell, and no newer than the apply.
Replaces(a, c) ==
  a.old[c] # 0 => /\ a.old[c] \in DOMAIN roots
                  /\ roots[a.old[c]].cell = c
                  /\ roots[a.old[c]].by <= a.id
Proper(a) ==
  /\ a.id \in Nat /\ a.id <= commands
  /\ DOMAIN a.old \subseteq Cells /\ DOMAIN a.old # {}
  /\ \A c \in DOMAIN a.old : Replaces(a, c)
Capturing ==
  /\ capture \in Capture /\ capture.root \in DOMAIN roots
  /\ capture.epoch <= epoch[roots[capture.root].cell]

PluginTypes == PluginTypeOK /\ {version, context, commands, sessions} \subseteq Nat

\* No root is newer than the last command received or owes more than was edited, and a
\* pending command is that one.
Latest ==
  /\ \A i \in DOMAIN roots : roots[i].by <= commands /\ roots[i].owed <= roots[i].edits
  /\ command # Nil => command.id = commands /\ command.cells # {}

\* What is watched for a cell is of that cell, and marks are suppressed only for an apply.
Connected ==
  /\ \A c \in Cells : watched[c] # 0 => roots[watched[c]].cell = c
  /\ suppressed => Applying

WorkInv ==
  /\ PluginTypes
  /\ Latest
  /\ Connected
  /\ capture # Nil => Capturing
  /\ \A a \in applies : Proper(a)

\* A step leaves every root its cell and the command it is from, and adds at most roots of
\* known commands.
KeepsRoots ==
  /\ roots' \in Seq(Root) /\ Len(roots) <= Len(roots')
  /\ \A i \in DOMAIN roots : /\ roots'[i].cell = roots[i].cell /\ roots'[i].by = roots[i].by
                              /\ roots'[i].owed <= roots'[i].edits
  /\ \A j \in DOMAIN roots' : j \notin DOMAIN roots =>
        roots'[j].by <= commands /\ roots'[j].owed <= roots'[j].edits
KeepsMarks ==
  /\ epoch' \in [Cells -> Nat] /\ dirty' \in [Cells -> BOOLEAN]
  /\ \A c \in Cells : epoch[c] <= epoch'[c]
KeepsSignals ==
  /\ watched' \in [Cells -> 0 .. Len(roots')] /\ heard' \subseteq DOMAIN roots'
  /\ walks' \subseteq Walk /\ Pending' \subseteq DOMAIN roots'
  /\ suppressed' \in BOOLEAN /\ Connected'
KeepsWork ==
  /\ capture' \in {capture, Nil} /\ command' \in {command, Nil}
  /\ UNCHANGED <<applies, link, version, counts>>

\* What a well-formed sequence of roots is, element by element.
LEMMA RootsAre ==
  ASSUME NEW rs \in Seq(Root)
  PROVE  /\ Len(rs) \in Nat /\ DOMAIN rs = 1 .. Len(rs)
         /\ \A i \in DOMAIN rs :
               /\ rs[i] \in Root /\ rs[i].cell \in Cells /\ rs[i].here \in BOOLEAN
               /\ rs[i].edits \in Nat /\ rs[i].owed \in Nat /\ rs[i].saved \in Nat
               /\ rs[i].by \in Nat /\ rs[i].blind \in BOOLEAN
<1>1. Len(rs) \in Nat /\ DOMAIN rs = 1 .. Len(rs) /\ \A i \in DOMAIN rs : rs[i] \in Root
  BY LenProperties, ElementOfSeq
<1>2. \A r \in Root : /\ r.cell \in Cells /\ r.here \in BOOLEAN
                      /\ r.edits \in Nat /\ r.owed \in Nat /\ r.saved \in Nat
                      /\ r.by \in Nat /\ r.blind \in BOOLEAN
  BY DEF Root
<1>3. QED BY <1>1, <1>2

\* The root of a cell is one of its roots, if it has any.
LEMMA RootOfCell ==
  ASSUME NEW c
  PROVE  /\ RootOf(c) # 0 => RootOf(c) \in RootsOf(c)
         /\ RootOf(c) = 0 /\ roots \in Seq(Root) => RootsOf(c) = {}
<1>1. CASE RootsOf(c) = {}
  BY <1>1 DEF RootOf
<1>2. CASE RootsOf(c) # {}
  <2>1. RootOf(c) \in RootsOf(c)
    BY <1>2 DEF RootOf
  <2>2. roots \in Seq(Root) => RootOf(c) # 0
    BY <2>1, RootsAre DEF RootsOf
  <2>3. QED BY <2>1, <2>2
<1>3. QED BY <1>1, <1>2

LEMMA WorkKept ==
  ASSUME WorkInv, KeepsRoots, KeepsMarks, KeepsSignals, KeepsWork
  PROVE  WorkInv'
<1> USE DEF KeepsRoots
<1>1. /\ roots \in Seq(Root) /\ epoch \in [Cells -> Nat]
      /\ command \in Command \cup {Nil}
  BY DEF WorkInv, PluginTypes, PluginTypeOK
<1>2. PluginTypes'
  BY <1>1 DEF WorkInv, PluginTypes, PluginTypeOK, KeepsWork, KeepsMarks, KeepsSignals, counts, link
<1>3. DOMAIN roots \subseteq DOMAIN roots'
  BY <1>1, RootsAre
<1>4. commands' = commands /\ applies' = applies
  BY DEF KeepsWork, counts
<1>5. Latest'
  BY <1>4 DEF WorkInv, Latest, KeepsWork
<1>6. capture' # Nil => Capturing'
  <2>1. SUFFICES ASSUME capture' # Nil PROVE Capturing'
    OBVIOUS
  <2>2. capture' = capture /\ capture # Nil
    BY <2>1 DEF KeepsWork
  <2>3. Capturing
    BY <2>2 DEF WorkInv
  <2>4. roots'[capture.root].cell = roots[capture.root].cell /\ roots[capture.root].cell \in Cells
    BY <1>1, <2>3, RootsAre DEF Capturing
  <2>5. capture.epoch \in Nat
    BY <2>3 DEF Capturing, Capture
  <2>6. capture.epoch <= epoch'[roots[capture.root].cell]
    BY <1>1, <2>3, <2>4, <2>5 DEF Capturing, KeepsMarks
  <2>7. QED BY <1>3, <2>2, <2>3, <2>4, <2>6 DEF Capturing
<1>7. \A a \in applies : Proper(a)'
  <2>1. TAKE a \in applies
  <2>2. Proper(a)
    BY DEF WorkInv
  <2>3. \A c \in DOMAIN a.old : Replaces(a, c)'
    BY <1>3, <2>2 DEF Proper, Replaces
  <2>4. QED BY <1>4, <2>2, <2>3 DEF Proper
<1>8. Connected'
  BY DEF KeepsSignals
<1>9. QED BY <1>2, <1>4, <1>5, <1>6, <1>7, <1>8 DEF WorkInv

-----------------------------------------------------------------------------
(* The changes of the roots, one by one *)

\* Roots keep their cells, their places and the commands they are from.
SameRoots ==
  /\ roots' \in Seq(Root) /\ Len(roots') = Len(roots) /\ DOMAIN roots' = DOMAIN roots
  /\ \A j \in DOMAIN roots :
        /\ roots'[j].cell = roots[j].cell
        /\ (roots'[j].here <=> roots[j].here)
        /\ roots'[j].by = roots[j].by

\* One root changes in what was edited, owed or saved.
LEMMA OneChanged ==
  ASSUME roots \in Seq(Root), NEW i \in DOMAIN roots, NEW r \in Root,
         r.cell = roots[i].cell, r.here = roots[i].here, r.by = roots[i].by,
         roots' = [roots EXCEPT ![i] = r]
  PROVE  /\ SameRoots
         /\ \A j \in DOMAIN roots : j # i => roots'[j] = roots[j]
         /\ roots'[i] = r
<1>1. Len(roots) \in Nat /\ DOMAIN roots = 1 .. Len(roots)
  BY RootsAre
<1>2. roots' \in Seq(Root) /\ Len(roots') = Len(roots) /\ DOMAIN roots' = DOMAIN roots
  BY <1>1, ExceptSeq, LenProperties
<1>3. roots'[i] = r /\ \A j \in DOMAIN roots : j # i => roots'[j] = roots[j]
  BY <1>1
<1>4. ASSUME NEW j \in DOMAIN roots
      PROVE  /\ roots'[j].cell = roots[j].cell
             /\ (roots'[j].here <=> roots[j].here)
             /\ roots'[j].by = roots[j].by
  BY <1>3
<1>5. SameRoots
  BY <1>2, <1>4 DEF SameRoots
<1>6. QED BY <1>3, <1>5

\* A reload owes nothing.
LEMMA AllForgotten ==
  ASSUME roots \in Seq(Root),
         roots' = [i \in DOMAIN roots |-> [roots[i] EXCEPT !.owed = 0, !.blind = FALSE]]
  PROVE  SameRoots /\ \A j \in DOMAIN roots : roots'[j].owed = 0
<1>1. /\ Len(roots) \in Nat /\ DOMAIN roots = 1 .. Len(roots)
      /\ \A i \in DOMAIN roots : roots[i] \in Root
  BY RootsAre
<1>2. \A r \in Root : LET n == [r EXCEPT !.owed = 0, !.blind = FALSE]
                     IN  /\ n \in Root /\ n.owed = 0
                         /\ n.cell = r.cell /\ n.here = r.here /\ n.by = r.by
  BY DEF Root
<1>3. /\ DOMAIN roots' = DOMAIN roots
      /\ \A j \in DOMAIN roots : roots'[j] = [roots[j] EXCEPT !.owed = 0, !.blind = FALSE]
  OBVIOUS
<1>4. roots' \in [1 .. Len(roots) -> Root]
  BY <1>1, <1>2
<1>6. roots' \in Seq(Root) /\ Len(roots') = Len(roots)
  BY <1>1, <1>4, ListIsSeq
<1>7. QED BY <1>1, <1>2, <1>3, <1>6 DEF SameRoots

\* An approved selection is one more root, of a cell no root was of.
LEMMA OneMore ==
  ASSUME roots \in Seq(Root), NEW c \in Cells, roots' = Append(roots, NewRoot(c, 1, 0))
  PROVE  /\ roots' \in Seq(Root) /\ Len(roots') = Len(roots) + 1
         /\ DOMAIN roots' = DOMAIN roots \cup {Len(roots')} /\ Len(roots') \notin DOMAIN roots
         /\ \A j \in DOMAIN roots : roots'[j] = roots[j]
         /\ LET r == roots'[Len(roots')]
            IN  r.cell = c /\ r.here /\ r.edits = 1 /\ r.owed = 0 /\ r.saved = 0 /\ r.by = 0
<1>1. Len(roots) \in Nat /\ DOMAIN roots = 1 .. Len(roots)
  BY RootsAre
<1> DEFINE r == NewRoot(c, 1, 0)
<1>2. r \in Root /\ r.cell = c /\ r.here /\ r.edits = 1 /\ r.owed = 0 /\ r.saved = 0 /\ r.by = 0
  BY DEF NewRoot, Root
<1> HIDE DEF r
<1>3. /\ roots' \in Seq(Root) /\ Len(roots') = Len(roots) + 1
      /\ roots'[Len(roots) + 1] = r
      /\ \A j \in 1 .. Len(roots) : roots'[j] = roots[j]
  BY <1>2, AppendProperties DEF r
<1>4. DOMAIN roots' = 1 .. Len(roots) + 1
  BY <1>3, LenProperties
<1>5. QED BY <1>1, <1>2, <1>3, <1>4

\* A swap, field by field.
SwapsRoots(a, out, cs) ==
  /\ roots' \in Seq(Root) /\ Len(roots') = Len(roots) + Cardinality(cs) /\ Len(roots) <= Len(roots')
  /\ DOMAIN roots \subseteq DOMAIN roots'
  /\ \A j \in DOMAIN roots :
        /\ roots'[j].cell = roots[j].cell
        /\ (roots'[j].here <=> roots[j].here /\ j \notin out)
        /\ roots'[j].by = roots[j].by
        /\ roots'[j].edits = roots[j].edits /\ roots'[j].owed = roots[j].owed
        /\ roots'[j].saved = roots[j].saved
  /\ \A j \in DOMAIN roots' : j \notin DOMAIN roots =>
        /\ roots'[j].cell \in cs /\ roots'[j].by = a.id
        /\ roots'[j].edits = 0 /\ roots'[j].owed = 0 /\ roots'[j].saved = 0
  /\ \A c \in cs : \E j \in DOMAIN roots' :
        j \notin DOMAIN roots /\ roots'[j].cell = c /\ roots'[j].here
  /\ \A i, j \in DOMAIN roots' : i \notin DOMAIN roots /\ j \notin DOMAIN roots
                                   /\ roots'[i].cell = roots'[j].cell => i = j

LEMMA RootsSwapped ==
  ASSUME PluginAssumption, roots \in Seq(Root), NEW a, a.id \in Nat, NEW out,
         NEW cs, cs \subseteq Cells, roots' = Swapped(a, out, cs)
  PROVE  SwapsRoots(a, out, cs)
<1>1. \A i \in DOMAIN roots : roots[i] \in Root
  BY RootsAre
<1>2. /\ roots' \in Seq(Root) /\ Len(roots') = Len(roots) + Cardinality(cs)
      /\ Len(roots) <= Len(roots')
      /\ \A i \in DOMAIN roots : roots'[i] = [roots[i] EXCEPT !.here = @ /\ i \notin out]
      /\ \A j \in DOMAIN roots' : j \notin DOMAIN roots => \E c \in cs : roots'[j] = NewRoot(c, 0, a.id)
      /\ \A c \in cs : \E j \in DOMAIN roots' : j \notin DOMAIN roots /\ roots'[j] = NewRoot(c, 0, a.id)
      /\ \A i, j \in DOMAIN roots' : i \notin DOMAIN roots /\ j \notin DOMAIN roots
                                       /\ roots'[i].cell = roots'[j].cell => i = j
  <2>1. SwappedTo(roots', a, out, cs)
    BY SwappedRoots
  <2>2. QED BY <2>1 DEF SwappedTo
<1>3. \A c \in Cells : /\ NewRoot(c, 0, a.id).cell = c /\ NewRoot(c, 0, a.id).here
                       /\ NewRoot(c, 0, a.id).edits = 0 /\ NewRoot(c, 0, a.id).owed = 0
                       /\ NewRoot(c, 0, a.id).saved = 0
                       /\ NewRoot(c, 0, a.id).by = a.id
  BY DEF NewRoot
<1>5. DOMAIN roots \subseteq DOMAIN roots'
  BY <1>2, RootsAre
<1>6. \A j \in DOMAIN roots :
        /\ roots'[j].cell = roots[j].cell
        /\ (roots'[j].here <=> roots[j].here /\ j \notin out)
        /\ roots'[j].by = roots[j].by
        /\ roots'[j].edits = roots[j].edits /\ roots'[j].owed = roots[j].owed
        /\ roots'[j].saved = roots[j].saved
  <2>1. TAKE j \in DOMAIN roots
  <2>2. roots[j] \in Root /\ roots'[j] = [roots[j] EXCEPT !.here = @ /\ j \notin out]
    BY <1>1, <1>2
  <2>3. \A r \in Root : [r EXCEPT !.here = @ /\ j \notin out].here <=> r.here /\ j \notin out
    BY DEF Root
  <2>4. \A r \in Root : LET s == [r EXCEPT !.here = @ /\ j \notin out]
                        IN  /\ s.cell = r.cell /\ s.by = r.by
                            /\ s.edits = r.edits /\ s.owed = r.owed /\ s.saved = r.saved
    BY DEF Root
  <2>5. QED BY <2>2, <2>3, <2>4
<1>7. ASSUME NEW j \in DOMAIN roots', j \notin DOMAIN roots
      PROVE  /\ roots'[j].cell \in cs /\ roots'[j].by = a.id
             /\ roots'[j].edits = 0 /\ roots'[j].owed = 0 /\ roots'[j].saved = 0
  <2>1. PICK c \in cs : roots'[j] = NewRoot(c, 0, a.id)
    BY <1>2, <1>7
  <2>2. QED BY <1>3, <2>1
<1>8. ASSUME NEW c \in cs
      PROVE  \E j \in DOMAIN roots' : j \notin DOMAIN roots /\ roots'[j].cell = c /\ roots'[j].here
  BY <1>2, <1>3
<1>9. QED BY <1>2, <1>5, <1>6, <1>7, <1>8 DEF SwapsRoots

-----------------------------------------------------------------------------
(* The walks *)

\* A sequence that is not empty has a first element and the rest.
LEMMA FirstAndRest ==
  ASSUME NEW s \in Seq(Nat), s # <<>>
  PROVE  /\ Head(s) \in Range(s) /\ Head(s) \in Nat /\ Tail(s) \in Seq(Nat)
         /\ Range(s) = {Head(s)} \cup Range(Tail(s))
         /\ Head(s) = s[1] /\ 1 \in DOMAIN s /\ 2 \notin DOMAIN s => Tail(s) = <<>>
         /\ Tail(s) # <<>> => 2 \in DOMAIN s /\ Head(Tail(s)) = s[2]
<1>1. Len(s) \in Nat \ {0} /\ DOMAIN s = 1 .. Len(s)
  BY EmptySeq, LenProperties
<1>2. Head(s) = s[1] /\ 1 \in DOMAIN s /\ Head(s) \in Nat
  BY <1>1, HeadTailProperties
<1>3. /\ Tail(s) \in Seq(Nat) /\ Len(Tail(s)) = Len(s) - 1
      /\ \A i \in 1 .. Len(Tail(s)) : Tail(s)[i] = s[i + 1]
  BY HeadTailProperties
<1>4. DOMAIN Tail(s) = 1 .. Len(s) - 1
  BY <1>3, LenProperties
<1>5. \A i \in DOMAIN s : i # 1 => i - 1 \in DOMAIN Tail(s) /\ Tail(s)[i - 1] = s[i]
  BY <1>1, <1>3, <1>4
<1>6. \A i \in DOMAIN Tail(s) : i + 1 \in DOMAIN s /\ Tail(s)[i] = s[i + 1]
  BY <1>1, <1>3, <1>4
<1>7. Range(s) = {Head(s)} \cup Range(Tail(s))
  <2>1. ASSUME NEW x \in Range(s) PROVE x \in {Head(s)} \cup Range(Tail(s))
    <3>1. PICK i \in DOMAIN s : s[i] = x
      BY DEF Range
    <3>2. i = 1 \/ (i - 1 \in DOMAIN Tail(s) /\ Tail(s)[i - 1] = x)
      BY <1>5, <3>1
    <3>3. QED BY <1>2, <3>1, <3>2 DEF Range
  <2>2. ASSUME NEW x \in Range(Tail(s)) PROVE x \in Range(s)
    <3>1. PICK i \in DOMAIN Tail(s) : Tail(s)[i] = x
      BY DEF Range
    <3>2. QED BY <1>6, <3>1 DEF Range
  <2>3. Head(s) \in Range(s)
    BY <1>2 DEF Range
  <2>4. QED BY <2>1, <2>2, <2>3
<1>8. Tail(s) # <<>> => 2 \in DOMAIN s /\ Head(Tail(s)) = s[2]
  <2>1. SUFFICES ASSUME Tail(s) # <<>> PROVE 2 \in DOMAIN s /\ Head(Tail(s)) = s[2]
    OBVIOUS
  <2>2. Len(Tail(s)) \in Nat \ {0}
    BY <1>3, <2>1, EmptySeq
  <2>3. Head(Tail(s)) = Tail(s)[1]
    BY <1>3, <2>1, HeadTailProperties
  <2>4. QED BY <1>1, <1>3, <2>2, <2>3
<1>9. 2 \notin DOMAIN s => Tail(s) = <<>>
  BY <1>1, <1>3, EmptySeq
<1>10. QED BY <1>2, <1>3, <1>7, <1>8, <1>9 DEF Range

\* The instances before a walk are in the place's sequence and have cells.
LEMMA WalkIs ==
  ASSUME WorkInv, NEW w \in walks
  PROVE  /\ w \in Walk /\ w.left \in Seq(Nat) /\ w.left # <<>> /\ w.cells \subseteq Cells
         /\ Range(w.left) \subseteq Pending /\ Pending \subseteq DOMAIN roots
         /\ Head(w.left) \in DOMAIN roots /\ roots[Head(w.left)].cell \in Cells
<1>1. w \in Walk /\ Pending \subseteq DOMAIN roots /\ roots \in Seq(Root)
  BY DEF WorkInv, PluginTypes, PluginTypeOK
<1>2. w.left \in Seq(Nat) /\ w.left # <<>> /\ w.cells \subseteq Cells
  BY <1>1 DEF Walk
<1>3. Range(w.left) \subseteq Pending
  BY DEF Pending
<1>4. QED BY <1>1, <1>2, <1>3, FirstAndRest, RootsAre

\* When a walk goes on, its head alone need no longer be before a walk.
LEMMA PassOn ==
  ASSUME WorkInv, NEW w \in walks, Tail(w.left) # <<>>,
         walks' = (walks \ {w}) \cup {[w EXCEPT !.left = Tail(@)]}
  PROVE  LET v == [w EXCEPT !.left = Tail(@)]
         IN  /\ v \in Walk /\ v.left = Tail(w.left) /\ v.for = w.for /\ v.cells = w.cells
             /\ walks' \subseteq Walk
             /\ Pending' \subseteq Pending /\ Pending \subseteq Pending' \cup {Head(w.left)}
             /\ Range(v.left) \subseteq Pending'
<1> DEFINE v == [w EXCEPT !.left = Tail(@)]
<1>1. w \in Walk /\ w.left \in Seq(Nat) /\ w.left # <<>> /\ walks \subseteq Walk
  BY WalkIs DEF WorkInv, PluginTypes, PluginTypeOK
<1>2. Tail(w.left) \in Seq(Nat) /\ Range(w.left) = {Head(w.left)} \cup Range(Tail(w.left))
  BY <1>1, FirstAndRest
<1>3. v \in Walk /\ v.left = Tail(w.left) /\ v.for = w.for /\ v.cells = w.cells
  BY <1>1, <1>2 DEF Walk
<1>4. walks' = (walks \ {w}) \cup {v}
  OBVIOUS
<1> HIDE DEF v
<1>5. \A i : i \in Pending' <=> \E u \in walks' : i \in Range(u.left)
  BY DEF Pending
<1>6. \A i : i \in Pending <=> \E u \in walks : i \in Range(u.left)
  BY DEF Pending
<1>7. \A i : i \in Range(w.left) <=> i = Head(w.left) \/ i \in Range(v.left)
  BY <1>2, <1>3
<1>8. Pending' \subseteq Pending
  BY <1>4, <1>5, <1>6, <1>7
<1>9. Pending \subseteq Pending' \cup {Head(w.left)}
  BY <1>4, <1>5, <1>6, <1>7
<1>10. Range(v.left) \subseteq Pending'
  BY <1>4, <1>5
<1>11. QED BY <1>1, <1>3, <1>4, <1>8, <1>9, <1>10 DEF v

\* When a walk ends, too.
LEMMA PassLast ==
  ASSUME WorkInv, NEW w \in walks, Tail(w.left) = <<>>, walks' = walks \ {w}
  PROVE  /\ Pending' \subseteq Pending /\ Pending \subseteq Pending' \cup {Head(w.left)}
         /\ Range(w.left) = {Head(w.left)}
<1>1. w.left \in Seq(Nat) /\ w.left # <<>>
  BY WalkIs
<1>2. Range(w.left) = {Head(w.left)}
  <2>1. Range(w.left) = {Head(w.left)} \cup Range(<<>>)
    BY <1>1, FirstAndRest
  <2>2. QED BY <2>1 DEF Range
<1>3. QED BY <1>2 DEF Pending

-----------------------------------------------------------------------------
(* Every step keeps what the work under way knows *)

LEMMA QuietWork ==
  ASSUME WorkInv, UNCHANGED place, PluginTypes', Latest', commands <= commands',
         capture' # Nil => /\ capture' \in Capture /\ capture'.root \in DOMAIN roots
                           /\ capture'.epoch <= epoch[roots[capture'.root].cell],
         \A a \in applies' : a \in applies \/ Proper(a)
  PROVE  WorkInv'
<1>1. /\ roots' = roots /\ epoch' = epoch
      /\ watched' = watched /\ suppressed' = suppressed /\ walks' = walks
  BY DEF place, signals
<1>2. commands \in Nat /\ commands' \in Nat
  BY DEF WorkInv, PluginTypes
<1>3. \A a \in applies' : Proper(a)'
  <2>1. TAKE a \in applies'
  <2>2. Proper(a)
    BY DEF WorkInv
  <2>3. \A c \in DOMAIN a.old : Replaces(a, c)'
    BY <1>1, <2>2 DEF Proper, Replaces
  <2>4. QED BY <1>2, <2>2, <2>3 DEF Proper
<1>4. capture' # Nil => Capturing'
  BY <1>1 DEF Capturing
<1>5. Connected'
  BY <1>1 DEF WorkInv, Connected, Applying
<1>6. QED BY <1>3, <1>4, <1>5 DEF WorkInv

LEMMA WorkFacts ==
  ASSUME WorkInv
  PROVE  /\ roots \in Seq(Root) /\ epoch \in [Cells -> Nat] /\ dirty \in [Cells -> BOOLEAN]
         /\ watched \in [Cells -> 0 .. Len(roots)] /\ heard \subseteq DOMAIN roots
         /\ suppressed \in BOOLEAN /\ walks \subseteq Walk /\ Pending \subseteq DOMAIN roots
         /\ Len(roots) \in Nat /\ DOMAIN roots = 1 .. Len(roots)
         /\ version \in Nat /\ context \in Nat /\ commands \in Nat /\ sessions \in Nat
         /\ command # Nil => /\ command \in Command /\ command.id = commands
                             /\ command.id \in Nat /\ command.cells \subseteq Cells
                             /\ command.cells # {}
<1>1. \A c \in Command : c.id \in Nat /\ c.cells \subseteq Cells
  BY DEF Command
<1>2. QED BY <1>1, RootsAre DEF WorkInv, PluginTypes, PluginTypeOK, Latest

\* Types without a change of the place.
LEMMA QuietTypes ==
  ASSUME WorkInv, UNCHANGED place, command' \in Command \cup {Nil},
         {version', context', commands', sessions'} \subseteq Nat
  PROVE  PluginTypes'
<1>1. UNCHANGED <<roots, epoch, dirty, watched, heard, suppressed, walks>>
  BY DEF place, signals
<1>2. PluginTypeOK'
  BY <1>1 DEF WorkInv, PluginTypes, PluginTypeOK, Pending
<1>3. QED BY <1>2 DEF PluginTypes

\* Sessions, contexts and a repeated command.
LEMMA LinkWork ==
  ASSUME WorkInv,
         Connect \/ Closed \/ Disconnect \/ SessionContext \/ ContextChanged \/ Rebind
                 \/ CommandRepeated
  PROVE  WorkInv'
<1> USE WorkFacts
<1>1. UNCHANGED <<place, capture, applies, commands>>
  BY DEF Connect, Closed, Disconnect, SessionContext, ContextChanged, Rebind, CommandRepeated,
         work, counts
<1>2. version' \in Nat /\ context' \in Nat /\ sessions' \in Nat
  BY DEF Connect, Closed, Disconnect, SessionContext, ContextChanged, Rebind, CommandRepeated,
         work, counts, link
<1>3. command' # Nil => command' \in Command /\ command'.id = commands /\ command'.cells # {}
  <2>1. CASE command' = command
    BY <2>1
  <2>2. CASE CommandRepeated
    BY <2>2 DEF CommandRepeated, Command
  <2>3. QED
    BY <2>1, <2>2 DEF Connect, Closed, Disconnect, SessionContext, ContextChanged, Rebind, work
<1>4. PluginTypes'
  BY <1>1, <1>2, <1>3, QuietTypes
<1>5. Latest'
  BY <1>1, <1>3 DEF WorkInv, Latest, place
<1>6. QED BY <1>1, <1>4, <1>5, QuietWork DEF WorkInv, Capturing

LEMMA RequestWork ==
  ASSUME WorkInv, PluginAssumption, NEW cs \in Revisions, CommandRequest(cs)
  PROVE  WorkInv'
<1> USE WorkFacts DEF CommandRequest
<1>1. UNCHANGED <<place, capture, applies, link, version, sessions>> /\ commands' = commands + 1
  OBVIOUS
<1>2. cs \subseteq Cells /\ cs # {}
  BY DEF PluginAssumption
<1>3. command' \in Command /\ command'.id = commands' /\ command'.cells # {}
  BY <1>2 DEF Command
<1>4. PluginTypes'
  BY <1>1, <1>3, QuietTypes DEF link
<1>5. \A i \in DOMAIN roots : roots[i].by <= commands'
  BY <1>1, RootsAre DEF WorkInv, Latest
<1>6. Latest'
  BY <1>1, <1>3, <1>5 DEF WorkInv, Latest, place
<1>7. QED BY <1>1, <1>4, <1>6, QuietWork DEF WorkInv, Capturing

LEMMA CaptureWork ==
  ASSUME WorkInv,
         (\E i \in DOMAIN roots : CheckpointSelected(i))
            \/ Serialized \/ SerializeAgain \/ Verified \/ RequestFails
  PROVE  WorkInv'
<1> USE WorkFacts
<1>1. UNCHANGED <<place, command, applies, link, version, commands, sessions>>
  BY DEF CheckpointSelected, Serialized, SerializeAgain, Verified, RequestFails, CaptureStep, counts
<1>2. PluginTypes' /\ Latest'
  <2>1. PluginTypes'
    BY <1>1, QuietTypes DEF link
  <2>2. QED BY <1>1, <2>1 DEF WorkInv, Latest, place
<1>3. capture # Nil => Capturing
  BY DEF WorkInv
<1>4. capture' # Nil => /\ capture' \in Capture /\ capture'.root \in DOMAIN roots
                        /\ capture'.epoch <= epoch[roots[capture'.root].cell]
  <2>1. ASSUME NEW i \in DOMAIN roots, CheckpointSelected(i)
        PROVE  /\ capture' \in Capture /\ capture'.root \in DOMAIN roots
               /\ capture'.epoch <= epoch[roots[capture'.root].cell]
    <3>1. roots[i].cell \in Cells /\ roots[i].edits \in Nat
      BY RootsAre
    <3>2. epoch[roots[i].cell] \in Nat
      BY <3>1
    <3>3. QED BY <2>1, <3>1, <3>2 DEF CheckpointSelected, Capture
  <2>2. CASE Serialized
    <3>1. PICK n \in capture.edits .. roots[capture.root].edits :
             capture' = [capture EXCEPT !.at = "upload", !.edits = n, !.tries = 0,
                                        !.session = sessions, !.version = IF Bound THEN context ELSE 0]
      BY <2>2 DEF Serialized
    <3>2. capture # Nil /\ capture \in Capture /\ capture.root \in DOMAIN roots
      BY <1>3, <2>2 DEF Serialized, Busy, Capturing
    <3>3. n \in Nat
      BY <3>2, RootsAre DEF Capture
    <3>4. capture' \in Capture /\ capture'.root = capture.root /\ capture'.epoch = capture.epoch
      BY <3>1, <3>2, <3>3 DEF Capture
    <3>5. QED BY <1>3, <3>2, <3>4 DEF Capturing
  <2>3. CASE SerializeAgain
    <3>1. capture # Nil /\ capture \in Capture /\ capture.root \in DOMAIN roots
      BY <1>3, <2>3 DEF SerializeAgain, Busy, Capturing
    <3>2. roots[capture.root].cell \in Cells /\ roots[capture.root].edits \in Nat
      BY <3>1, RootsAre
    <3>3. epoch[roots[capture.root].cell] \in Nat
      BY <3>2
    <3>4. CASE capture' = Nil
      BY <3>4
    <3>5. CASE capture' = [capture EXCEPT !.epoch = epoch[roots[capture.root].cell],
                                          !.edits = roots[capture.root].edits, !.tries = @ + 1]
      <4>1. /\ capture' \in Capture /\ capture'.root = capture.root
            /\ capture'.epoch = epoch[roots[capture.root].cell]
        <5>1. PICK e \in Nat, n \in Nat, k \in Nat :
                 /\ e = epoch[roots[capture.root].cell]
                 /\ capture' = [capture EXCEPT !.epoch = e, !.edits = n, !.tries = k]
          <6>1. capture.tries + 1 \in Nat
            BY <3>1 DEF Capture
          <6>2. QED BY <3>2, <3>3, <3>5, <6>1
        <5>2. capture' \in Capture /\ capture'.root = capture.root /\ capture'.epoch = e
          BY <3>1, <5>1 DEF Capture
        <5>3. QED BY <5>1, <5>2
      <4>2. QED BY <3>1, <3>3, <4>1
    <3>6. QED BY <2>3, <3>4, <3>5 DEF SerializeAgain
  <2>4. CASE Verified
    <3>1. capture # Nil /\ capture \in Capture /\ capture' = [capture EXCEPT !.at = "proposal"]
      BY <1>3, <2>4 DEF Verified, Busy, Capturing
    <3>2. capture' \in Capture /\ capture'.root = capture.root /\ capture'.epoch = capture.epoch
      BY <3>1 DEF Capture
    <3>3. QED BY <1>3, <3>1, <3>2 DEF Capturing
  <2>5. CASE RequestFails
    <3>1. capture # Nil /\ capture \in Capture
          /\ capture' \in {Nil, [capture EXCEPT !.at = "failed"]}
      BY <1>3, <2>5 DEF RequestFails, Busy, Capturing
    <3>2. LET f == [capture EXCEPT !.at = "failed"]
          IN  f \in Capture /\ f.root = capture.root /\ f.epoch = capture.epoch
      BY <3>1 DEF Capture
    <3>3. QED BY <1>3, <3>1, <3>2 DEF Capturing
  <2>6. QED BY <2>1, <2>2, <2>3, <2>4, <2>5
<1>5. QED BY <1>1, <1>2, <1>4, QuietWork DEF WorkInv

LEMMA PendingWork ==
  ASSUME WorkInv, ApplyPending
  PROVE  WorkInv'
<1> USE WorkFacts
<1>1. UNCHANGED <<place, link, version, capture, command, counts>> /\ command # Nil
  BY DEF ApplyPending
<1>2. PluginTypes' /\ Latest' /\ commands' = commands
  <2>1. commands' = commands /\ sessions' = sessions /\ context' = context
    BY <1>1 DEF counts, link
  <2>2. PluginTypes'
    BY <1>1, <2>1, QuietTypes
  <2>3. QED BY <1>1, <2>1, <2>2 DEF WorkInv, Latest, place
<1>3. ASSUME NEW a \in applies', a \notin applies PROVE Proper(a)
  <2>1. a = [id |-> command.id, old |-> [c \in command.cells |-> RootOf(c)],
             epochs |-> [c \in command.cells |-> epoch[c]]]
    BY <1>3 DEF ApplyPending
  <2>2. /\ a.id = commands /\ DOMAIN a.old = command.cells /\ command.cells # {}
        /\ \A c \in command.cells : a.old[c] = RootOf(c)
    BY <1>1, <2>1
  <2>3. ASSUME NEW c \in DOMAIN a.old, a.old[c] # 0
        PROVE  /\ a.old[c] \in DOMAIN roots /\ roots[a.old[c]].cell = c
               /\ roots[a.old[c]].by <= a.id
    BY <2>2, <2>3, RootOfCell DEF RootsOf, WorkInv, Latest
  <2>4. QED BY <1>1, <2>2, <2>3 DEF Proper, Replaces
<1>4. QED BY <1>1, <1>2, <1>3, QuietWork DEF WorkInv, Capturing

LEMMA MarkTracks ==
  ASSUME WorkInv, NEW c \in Cells, Mark(c)
  PROVE  /\ KeepsMarks
         /\ ~suppressed => epoch' = [epoch EXCEPT ![c] = @ + 1] /\ dirty' = [dirty EXCEPT ![c] = TRUE]
         /\ \A d \in Cells : dirty[d] => dirty'[d]
         /\ \A d \in Cells : d # c => epoch'[d] = epoch[d] /\ dirty'[d] = dirty[d]
<1>2. /\ epoch \in [Cells -> Nat] /\ dirty \in [Cells -> BOOLEAN]
      /\ \A d \in Cells : epoch[d] \in Nat
  BY WorkFacts
<1>3. CASE suppressed
  BY <1>2, <1>3 DEF Mark, KeepsMarks
<1>4. CASE ~suppressed
  <2>1. epoch' = [epoch EXCEPT ![c] = @ + 1] /\ dirty' = [dirty EXCEPT ![c] = TRUE]
    BY <1>4 DEF Mark
  <2>2. QED BY <1>2, <2>1, <1>4 DEF KeepsMarks
<1>5. QED BY <1>3, <1>4

\* Roots that keep their places, cells and commands are kept if none owes more than was edited.
LEMMA SameRootsKept ==
  ASSUME WorkInv, SameRoots, \A j \in DOMAIN roots : roots'[j].owed <= roots'[j].edits
  PROVE  KeepsRoots
BY RootsAre, WorkFacts DEF SameRoots, KeepsRoots, WorkInv, Latest

LEMMA UnchangedRootsKept ==
  ASSUME WorkInv, roots' = roots
  PROVE  KeepsRoots
BY RootsAre, WorkFacts DEF KeepsRoots, WorkInv, Latest

\* The signals, when only the roots changed and kept their cells.
LEMMA SignalsKept ==
  ASSUME WorkInv, UNCHANGED signals, KeepsRoots
  PROVE  KeepsSignals
<1>1. UNCHANGED <<watched, heard, suppressed, walks>>
  BY DEF signals
<1>2. /\ Len(roots) \in Nat /\ Len(roots') \in Nat /\ Len(roots) <= Len(roots')
      /\ DOMAIN roots = 1 .. Len(roots) /\ DOMAIN roots' = 1 .. Len(roots')
  BY WorkFacts, RootsAre DEF KeepsRoots
<1>3. watched \in [Cells -> 0 .. Len(roots)]
  BY WorkFacts
<1>4. watched \in [Cells -> 0 .. Len(roots')]
  BY <1>2, <1>3
<1>5. heard \subseteq DOMAIN roots' /\ Pending \subseteq DOMAIN roots'
  BY <1>2, WorkFacts
<1>6. Pending' = Pending /\ Applying' = Applying
  BY <1>1 DEF Pending, Applying
<1>7. \A c \in Cells : watched[c] # 0 => roots'[watched[c]].cell = c
  <2>1. TAKE c \in Cells
  <2>2. HAVE watched[c] # 0
  <2>3. watched[c] \in DOMAIN roots /\ roots[watched[c]].cell = c
    BY <1>2, <1>3, <2>2 DEF WorkInv, Connected
  <2>4. QED BY <2>3 DEF KeepsRoots
<1>8. Connected'
  BY <1>1, <1>6, <1>7 DEF WorkInv, Connected
<1>9. QED BY <1>1, <1>4, <1>5, <1>6, <1>8, WorkFacts DEF KeepsSignals

\* An edit is owed or not, and is marked when it is owed.
LEMMA EditedRoot ==
  ASSUME WorkInv, NEW i \in DOMAIN roots, EditInstance(i)
  PROVE  /\ SameRoots /\ roots[i].here
         /\ \A j \in DOMAIN roots : j # i => roots'[j] = roots[j]
         /\ roots'[i].edits = roots[i].edits + 1 /\ roots'[i].saved = roots[i].saved
         /\ \/ roots'[i].owed = roots[i].owed
            \/ /\ roots'[i].owed = roots[i].edits + 1
               /\ ~Applying /\ i \notin Pending /\ (i \in heard => Mark(roots[i].cell))
<1>0. roots \in Seq(Root) /\ roots[i] \in Root
  BY WorkFacts, RootsAre
<1> DEFINE Edited(lost) == [roots EXCEPT ![i] =
                 [roots[i] EXCEPT !.edits = @ + 1, !.blind = @ \/ i \in Entered,
                    !.owed = IF Applying \/ i \in Pending \/ lost THEN @ ELSE roots[i].edits + 1]]
<1>a. PICK lost \in BOOLEAN :
         /\ roots' = Edited(lost)
         /\ \/ ~lost /\ i \in heard \cup Entered /\ Mark(roots[i].cell)
            \/ lost \/ i \notin heard
  BY <1>0 DEF EditInstance, Root
<1> DEFINE e == IF Applying \/ i \in Pending \/ lost THEN roots[i].owed ELSE roots[i].edits + 1
           b == roots[i].blind \/ i \in Entered
           r == [roots[i] EXCEPT !.edits = @ + 1, !.blind = b, !.owed = e]
<1>5. roots[i].edits \in Nat /\ roots[i].owed \in Nat /\ roots[i].blind \in BOOLEAN
  BY <1>0, RootsAre
<1>6. e \in Nat /\ b \in BOOLEAN
  BY <1>5
<1>7. \/ e = roots[i].owed
      \/ /\ e = roots[i].edits + 1 /\ ~Applying /\ i \notin Pending
         /\ i \in heard => Mark(roots[i].cell)
  BY <1>a
<1>8. roots' = [roots EXCEPT ![i] = r]
  BY <1>a
<1> HIDE DEF e, b
<1>1. /\ r \in Root /\ r.cell = roots[i].cell /\ r.here = roots[i].here /\ r.by = roots[i].by
      /\ r.edits = roots[i].edits + 1 /\ r.saved = roots[i].saved /\ r.owed = e
  <2>1. PICK q \in Root : q = roots[i]
    BY <1>0
  <2>2. q.edits + 1 \in Nat
    BY <2>1, <1>5
  <2>3. \A m \in Nat, s \in Root :
           LET t == [s EXCEPT !.edits = m, !.blind = b, !.owed = e]
           IN  /\ t \in Root /\ t.cell = s.cell /\ t.here = s.here /\ t.by = s.by
               /\ t.edits = m /\ t.saved = s.saved /\ t.owed = e
    BY <1>6 DEF Root
  <2>4. r = [q EXCEPT !.edits = q.edits + 1, !.blind = b, !.owed = e]
    BY <2>1
  <2>5. QED BY <2>1, <2>2, <2>3, <2>4
<1>2. roots[i].here
  BY DEF EditInstance
<1> HIDE DEF r
<1>3. /\ SameRoots /\ roots'[i] = r
      /\ \A j \in DOMAIN roots : j # i => roots'[j] = roots[j]
  BY <1>0, <1>1, <1>8, OneChanged
<1>4. QED BY <1>1, <1>2, <1>3, <1>7

LEMMA EditWork ==
  ASSUME WorkInv, NEW i \in DOMAIN roots, EditInstance(i)
  PROVE  WorkInv'
<1>1. roots \in Seq(Root) /\ roots[i].cell \in Cells /\ roots[i].edits \in Nat /\ roots[i].owed \in Nat
  BY WorkFacts, RootsAre
<1>2. \A j \in DOMAIN roots : roots'[j].owed <= roots'[j].edits
  <2>1. \A j \in DOMAIN roots : roots[j].owed <= roots[j].edits
    BY DEF WorkInv, Latest
  <2>2. roots'[i].owed <= roots'[i].edits
    BY <1>1, <2>1, EditedRoot
  <2>3. QED BY <2>1, <2>2, EditedRoot
<1>3. KeepsRoots
  BY <1>2, EditedRoot, SameRootsKept
<1>4. KeepsMarks
  <2>1. CASE Mark(roots[i].cell)
    BY <1>1, <2>1, MarkTracks
  <2>2. CASE UNCHANGED <<epoch, dirty>>
    BY <2>2, WorkFacts DEF KeepsMarks
  <2>3. QED BY <2>1, <2>2 DEF EditInstance
<1>5. KeepsSignals
  BY <1>3, SignalsKept DEF EditInstance
<1>6. KeepsWork
  BY DEF EditInstance, KeepsWork, work
<1>7. QED BY <1>3, <1>4, <1>5, <1>6, WorkKept

LEMMA SelectionWork ==
  ASSUME WorkInv, NEW c \in Cells, RegisterSelection(c)
  PROVE  WorkInv'
<1> DEFINE n == Len(roots')
           w == [for |-> "register", left |-> <<n>>, cells |-> {}]
<1>0. /\ roots \in Seq(Root) /\ Len(roots) \in Nat /\ DOMAIN roots = 1 .. Len(roots)
      /\ commands \in Nat /\ watched \in [Cells -> 0 .. Len(roots)] /\ heard \subseteq DOMAIN roots
      /\ walks \subseteq Walk /\ Pending \subseteq DOMAIN roots /\ suppressed \in BOOLEAN
  BY WorkFacts
<1>1. /\ roots' = Append(roots, NewRoot(c, 1, 0)) /\ walks' = walks \cup {w}
      /\ UNCHANGED <<watched, heard, suppressed, epoch, dirty>>
  BY DEF RegisterSelection
<1>2. /\ roots' \in Seq(Root) /\ n = Len(roots) + 1
      /\ DOMAIN roots' = DOMAIN roots \cup {n} /\ n \in Nat
      /\ \A j \in DOMAIN roots : roots'[j] = roots[j]
      /\ roots'[n].by = 0 /\ roots'[n].owed = 0 /\ roots'[n].edits = 1
  BY <1>0, <1>1, OneMore
<1>3. w \in Walk /\ w.left = <<n>>
  BY <1>2 DEF Walk
<1>4. Range(<<n>>) = {n}
  BY DEF Range
<1>w. w.for = "register"
  OBVIOUS
<1> HIDE DEF w, n
<1>5. KeepsRoots
  BY <1>0, <1>2 DEF KeepsRoots, n, WorkInv, Latest
<1>6. KeepsMarks
  BY <1>1, WorkFacts DEF KeepsMarks
<1>7. Pending' \subseteq DOMAIN roots'
  <2>1. \A i : i \in Pending' => i \in Pending \/ i \in Range(w.left)
    BY <1>1 DEF Pending
  <2>2. QED BY <1>0, <1>2, <1>3, <1>4, <2>1
<1>8. watched' \in [Cells -> 0 .. n]
  BY <1>0, <1>1, <1>2
<1>9. Connected'
  <2>1. \A d \in Cells : watched[d] # 0 => watched[d] \in DOMAIN roots /\ roots[watched[d]].cell = d
    BY <1>0 DEF WorkInv, Connected
  <2>2. suppressed => Applying'
    BY <1>1 DEF WorkInv, Connected, Applying
  <2>3. QED BY <1>1, <1>2, <2>1, <2>2 DEF Connected
<1>10. KeepsSignals
  BY <1>0, <1>1, <1>2, <1>3, <1>7, <1>8, <1>9 DEF KeepsSignals, n
<1>11. KeepsWork
  BY DEF RegisterSelection, KeepsWork, work
<1>12. QED BY <1>5, <1>6, <1>10, <1>11, WorkKept

\* The end of a checkpoint saves what was captured of one root.
Saves == Proposed \/ Accepted

LEMMA SavedRoot ==
  ASSUME WorkInv, Saves
  PROVE  /\ SameRoots /\ capture # Nil /\ Capturing /\ capture.edits \in Nat
         /\ \A j \in DOMAIN roots : /\ roots'[j].edits = roots[j].edits
                                    /\ roots'[j].owed = roots[j].owed
                                    /\ roots'[j].saved >= roots[j].saved
         /\ roots'[capture.root].saved >= capture.edits
<1>1. roots \in Seq(Root)
  BY WorkFacts
<1>2. capture # Nil /\ Capturing /\ capture.edits \in Nat
  BY DEF Saves, Proposed, Accepted, Busy, WorkInv, Capturing, Capture
<1> DEFINE i == capture.root
           n == IF roots[i].saved < capture.edits THEN capture.edits ELSE roots[i].saved
           r == [roots[i] EXCEPT !.saved = n]
<1>3. /\ i \in DOMAIN roots /\ roots[i] \in Root
      /\ \A j \in DOMAIN roots : roots[j].saved \in Nat
  BY <1>1, <1>2, RootsAre DEF Capturing
<1>4. roots' = [roots EXCEPT ![i] = r]
  BY DEF Saves, Proposed, Accepted, Save
<1>5. n \in Nat /\ n >= roots[i].saved /\ n >= capture.edits
  BY <1>2, <1>3
<1> HIDE DEF i, n
<1>6. /\ r \in Root /\ r.cell = roots[i].cell /\ r.here = roots[i].here /\ r.by = roots[i].by
      /\ r.edits = roots[i].edits /\ r.owed = roots[i].owed /\ r.saved = n
  BY <1>3, <1>5 DEF Root
<1> HIDE DEF r
<1>7. /\ SameRoots /\ roots'[i] = r
      /\ \A j \in DOMAIN roots : j # i => roots'[j] = roots[j]
  BY <1>1, <1>3, <1>4, <1>6, OneChanged
<1>8. QED BY <1>2, <1>3, <1>5, <1>6, <1>7 DEF i

LEMMA SaveWork ==
  ASSUME WorkInv, Saves
  PROVE  WorkInv'
<1>1. capture.root \in DOMAIN roots /\ roots[capture.root].cell \in Cells
  BY SavedRoot, WorkFacts, RootsAre DEF Capturing
<1>2. KeepsRoots
  BY SavedRoot, SameRootsKept DEF WorkInv, Latest
<1>3. KeepsMarks
  <2>1. CASE epoch' = epoch /\ \E e : AcceptUnlessEdited(roots[capture.root].cell, e)
    BY <1>1, <2>1, WorkFacts DEF AcceptUnlessEdited, KeepsMarks
  <2>2. CASE Mark(roots[capture.root].cell)
    BY <1>1, <2>2, MarkTracks
  <2>3. QED BY <2>1, <2>2 DEF Saves, Proposed, Accepted
<1>4. KeepsSignals
  BY <1>2, SignalsKept DEF Saves, Proposed, Accepted
<1>5. KeepsWork
  BY DEF Saves, Proposed, Accepted, KeepsWork
<1>6. QED BY <1>2, <1>3, <1>4, <1>5, WorkKept

\* What is watched stays in the place's sequence and of its cell.
LEMMA ConnectionsKept ==
  ASSUME WorkInv, KeepsRoots, watched' \in [Cells -> Nat],
         \A c \in Cells : \/ watched'[c] \in {0, watched[c]}
                          \/ watched'[c] \in DOMAIN roots /\ roots[watched'[c]].cell = c
  PROVE  /\ watched' \in [Cells -> 0 .. Len(roots')]
         /\ \A c \in Cells : watched'[c] # 0 => roots'[watched'[c]].cell = c
<1>1. /\ Len(roots) \in Nat /\ Len(roots') \in Nat /\ Len(roots) <= Len(roots')
      /\ DOMAIN roots = 1 .. Len(roots)
  BY WorkFacts, RootsAre DEF KeepsRoots
<1>2. \A c \in Cells : watched[c] \in 0 .. Len(roots)
  BY WorkFacts
<1>3. ASSUME NEW c \in Cells
      PROVE  watched'[c] = 0 \/ (watched'[c] \in DOMAIN roots /\ roots[watched'[c]].cell = c)
  BY <1>1, <1>2 DEF WorkInv, Connected
<1>4. \A c \in Cells : watched'[c] \in 0 .. Len(roots')
  BY <1>1, <1>3
<1>5. QED BY <1>3, <1>4 DEF KeepsRoots

LEMMA WalkOnWork ==
  ASSUME WorkInv, NEW w \in walks, WalkOn(w)
  PROVE  WorkInv'
<1> DEFINE i == Head(w.left)
           connections == [watched EXCEPT ![roots[i].cell] = i]
           v == [w EXCEPT !.left = Tail(@)]
<1>1. /\ UNCHANGED <<roots, epoch, dirty, suppressed, lapses, link, version, work, counts>>
      /\ Tail(w.left) # <<>> /\ walks' = (walks \ {w}) \cup {v}
  BY DEF WalkOn
<1>2. /\ walks' \subseteq Walk /\ Pending' \subseteq Pending /\ v.for = w.for
  BY <1>1, PassOn
<1>3. /\ roots \in Seq(Root) /\ watched \in [Cells -> 0 .. Len(roots)] /\ heard \subseteq DOMAIN roots
      /\ Pending \subseteq DOMAIN roots /\ suppressed \in BOOLEAN /\ Len(roots) \in Nat
      /\ i \in DOMAIN roots /\ roots[i].cell \in Cells /\ i \in Nat
  BY WorkFacts, WalkIs
<1>4. KeepsRoots
  BY <1>1, UnchangedRootsKept
<1>5. KeepsMarks
  BY <1>1, WorkFacts DEF KeepsMarks
<1>6. \/ watched' = connections
      \/ \E d : watched' = [connections EXCEPT ![d] = 0]
  BY DEF WalkOn, Unwatch
<1>7. heard' \subseteq heard \cup {i}
  BY DEF WalkOn, Unwatch
<1>8. connections \in [Cells -> Nat]
  BY <1>3
<1>9. watched' \in [Cells -> Nat]
  BY <1>6, <1>8
<1>10. \A c \in Cells : watched'[c] \in {0, watched[c]} \/ (watched'[c] = i /\ roots[i].cell = c)
  <2>1. \A c \in Cells : watched'[c] = 0 \/ watched'[c] = connections[c]
    BY <1>6, <1>8
  <2>2. \A c \in Cells : connections[c] = watched[c] \/ (connections[c] = i /\ roots[i].cell = c)
    BY <1>3
  <2>3. QED BY <2>1, <2>2
<1> HIDE DEF i, v, connections
<1>11. /\ watched' \in [Cells -> 0 .. Len(roots')]
       /\ \A c \in Cells : watched'[c] # 0 => roots'[watched'[c]].cell = c
  BY <1>3, <1>4, <1>9, <1>10, ConnectionsKept
<1>12. suppressed' => Applying'
  BY <1>1, <1>2 DEF WorkInv, Connected, Applying
<1>13. KeepsSignals
  BY <1>1, <1>2, <1>3, <1>7, <1>11, <1>12 DEF KeepsSignals, Connected
<1>14. KeepsWork
  BY <1>1 DEF KeepsWork, work
<1>15. QED BY <1>4, <1>5, <1>13, <1>14, WorkKept

\* The end of a walk watches its last root.
LEMMA LastWalkKept ==
  ASSUME WorkInv, KeepsRoots, NEW w \in walks, NEW kind, LastWatched(w, kind),
         suppressed' = FALSE \/ (suppressed' = suppressed /\ kind # "apply")
  PROVE  KeepsSignals
<1> DEFINE i == Head(w.left)
<1>1. /\ w.for = kind /\ Tail(w.left) = <<>> /\ walks' = walks \ {w}
      /\ watched' = [watched EXCEPT ![roots[i].cell] = i] /\ heard' = heard \cup {i}
  BY DEF LastWatched
<1>2. Pending' \subseteq Pending
  BY <1>1, PassLast
<1>3. /\ watched \in [Cells -> 0 .. Len(roots)] /\ heard \subseteq DOMAIN roots
      /\ walks \subseteq Walk /\ Pending \subseteq DOMAIN roots /\ suppressed \in BOOLEAN
      /\ Len(roots) \in Nat /\ i \in DOMAIN roots /\ roots[i].cell \in Cells /\ i \in Nat
  BY WorkFacts, WalkIs
<1> HIDE DEF i
<1>4. watched' \in [Cells -> Nat]
  BY <1>1, <1>3
<1>5. \A c \in Cells : watched'[c] \in {0, watched[c]} \/ (watched'[c] = i /\ roots[i].cell = c)
  BY <1>1, <1>3
<1>6. /\ watched' \in [Cells -> 0 .. Len(roots')]
      /\ \A c \in Cells : watched'[c] # 0 => roots'[watched'[c]].cell = c
  BY <1>3, <1>4, <1>5, ConnectionsKept
<1>7. DOMAIN roots \subseteq DOMAIN roots'
  BY WorkFacts, RootsAre DEF KeepsRoots
<1>8. suppressed' => Applying'
  BY <1>1 DEF WorkInv, Connected, Applying
<1>9. QED BY <1>1, <1>2, <1>3, <1>6, <1>7, <1>8 DEF KeepsSignals, Connected

LEMMA LoadWork ==
  ASSUME WorkInv, NEW w \in walks, LoadEnds(w)
  PROVE  WorkInv'
<1>1. KeepsRoots
  BY UnchangedRootsKept DEF LoadEnds
<1>2. KeepsMarks
  BY WorkFacts DEF LoadEnds, KeepsMarks
<1>3. KeepsSignals
  BY <1>1, LastWalkKept DEF LoadEnds
<1>4. KeepsWork
  BY DEF LoadEnds, KeepsWork, work
<1>5. QED BY <1>1, <1>2, <1>3, <1>4, WorkKept

\* The new root's edits are owed when its cell is marked.
LEMMA RegisteredRoot ==
  ASSUME WorkInv, NEW w \in walks, RegistrationEnds(w)
  PROVE  LET i == Head(w.left)
         IN  /\ SameRoots /\ i \in DOMAIN roots
             /\ \A j \in DOMAIN roots : roots'[j].edits = roots[j].edits /\ roots'[j].saved = roots[j].saved
             /\ \A j \in DOMAIN roots : j # i => roots'[j] = roots[j]
             /\ \/ roots'[i].owed = roots[i].owed
                \/ roots'[i].owed = roots[i].edits /\ ~Applying
<1> DEFINE i == Head(w.left)
           e == IF Applying THEN roots[i].owed ELSE roots[i].edits
           r == [roots[i] EXCEPT !.owed = e]
<1>1. roots \in Seq(Root) /\ i \in DOMAIN roots
  BY WorkFacts, WalkIs
<1>2. roots[i] \in Root /\ e \in Nat
  BY <1>1, RootsAre
<1>3. e = roots[i].owed \/ (e = roots[i].edits /\ ~Applying)
  OBVIOUS
<1>4. roots' = [roots EXCEPT ![i] = r]
  BY <1>1 DEF RegistrationEnds
<1> HIDE DEF i, e
<1>5. /\ r \in Root /\ r.cell = roots[i].cell /\ r.here = roots[i].here /\ r.by = roots[i].by
      /\ r.edits = roots[i].edits /\ r.saved = roots[i].saved /\ r.owed = e
  BY <1>2 DEF Root
<1> HIDE DEF r
<1>6. /\ SameRoots /\ roots'[i] = r
      /\ \A j \in DOMAIN roots : j # i => roots'[j] = roots[j]
  BY <1>1, <1>4, <1>5, OneChanged
<1>7. QED BY <1>1, <1>3, <1>5, <1>6 DEF i

LEMMA RegistrationWork ==
  ASSUME WorkInv, NEW w \in walks, RegistrationEnds(w)
  PROVE  WorkInv'
<1>1. KeepsRoots
  <2>1. \A j \in DOMAIN roots : roots[j].owed <= roots[j].edits /\ roots[j].edits \in Nat
    BY WorkFacts, RootsAre DEF WorkInv, Latest
  <2>2. \A j \in DOMAIN roots : roots'[j].owed <= roots'[j].edits
    BY <2>1, RegisteredRoot
  <2>3. QED BY <2>2, RegisteredRoot, SameRootsKept
<1>2. KeepsMarks
  BY WalkIs, MarkTracks DEF RegistrationEnds
<1>3. KeepsSignals
  BY <1>1, LastWalkKept DEF RegistrationEnds
<1>4. KeepsWork
  BY DEF RegistrationEnds, KeepsWork, work
<1>5. QED BY <1>1, <1>2, <1>3, <1>4, WorkKept

LEMMA ApplyEndsWork ==
  ASSUME WorkInv, NEW w \in walks, ApplyEnds(w)
  PROVE  WorkInv'
<1>1. KeepsRoots
  BY UnchangedRootsKept DEF ApplyEnds
<1>2. KeepsMarks
  BY WorkFacts DEF ApplyEnds, KeepsMarks
<1>3. KeepsSignals
  BY <1>1, LastWalkKept DEF ApplyEnds
<1>4. KeepsWork
  BY DEF ApplyEnds, KeepsWork
<1>5. QED BY <1>1, <1>2, <1>3, <1>4, WorkKept

\* The three ways an apply changes the roots: whole, whole but not recorded, or for the cells
\* whose roots could not be put back.
Swapping(a) == ApplySwaps(a) \/ RecordingFails(a) \/ RollbackFails(a)
Swaps(a) ==
  \E out, cs :
     /\ roots' = Swapped(a, out, cs)
     /\ cs \subseteq DOMAIN a.old
     /\ out = {a.old[c] : c \in cs} \ {0}
     /\ Unedited(a)

LEMMA AppliesSwap ==
  ASSUME NEW a, Swapping(a)
  PROVE  Swaps(a)
<1>1. CASE ApplySwaps(a) \/ RecordingFails(a)
  <2>1. roots' = Swapped(a, Old(a), DOMAIN a.old) /\ Unedited(a)
    BY <1>1 DEF ApplySwaps, RecordingFails
  <2>2. QED BY <2>1 DEF Swaps, Old
<1>2. CASE RollbackFails(a)
  <2>1. PICK b, kept : /\ kept \in SUBSET (DOMAIN a.old \ {b})
                       /\ roots' = Swapped(a, {a.old[c] : c \in kept} \ {0}, kept)
    BY <1>2 DEF RollbackFails
  <2>2. Unedited(a) /\ kept \subseteq DOMAIN a.old
    BY <1>2, <2>1 DEF RollbackFails
  <2>3. QED BY <2>1, <2>2 DEF Swaps
<1>3. QED BY <1>1, <1>2 DEF Swapping

\* The new roots of an apply come behind those the place had, each once.
LEMMA StagedIs ==
  ASSUME roots \in Seq(Root), NEW cs, IsFiniteSet(cs), cs # {}
  PROVE  /\ Staged(cs) \in Seq(Nat) /\ Staged(cs) # <<>> /\ Cardinality(cs) \in Nat \ {0}
         /\ Head(Staged(cs)) = Len(roots) + 1
         /\ Range(Staged(cs)) = Len(roots) + 1 .. Len(roots) + Cardinality(cs)
         /\ \A k, l \in DOMAIN Staged(cs) : Staged(cs)[k] = Staged(cs)[l] => k = l
<1> DEFINE n == Len(roots)
           m == Cardinality(cs)
<1>1. n \in Nat /\ m \in Nat \ {0}
  BY RootsAre, FS_CardinalityType, FS_EmptySet
<1>2. Staged(cs) = [k \in 1 .. m |-> n + k]
  BY DEF Staged
<1> HIDE DEF n, m
<1>3. [k \in 1 .. m |-> n + k] \in [1 .. m -> Nat]
  BY <1>1
<1>4. Staged(cs) \in Seq(Nat) /\ Len(Staged(cs)) = m
  BY <1>1, <1>2, <1>3, ListIsSeq
<1>5. Staged(cs) # <<>>
  BY <1>1, <1>4, EmptySeq
<1>6. Head(Staged(cs)) = n + 1
  BY <1>1, <1>2, <1>4, <1>5, FirstAndRest
<1>7. DOMAIN Staged(cs) = 1 .. m /\ \A k \in 1 .. m : Staged(cs)[k] = n + k
  BY <1>2
<1>8. Range(Staged(cs)) = n + 1 .. n + m
  <2>1. \A x \in n + 1 .. n + m : x - n \in 1 .. m /\ n + (x - n) = x
    BY <1>1
  <2>2. \A k \in 1 .. m : n + k \in n + 1 .. n + m
    BY <1>1
  <2>3. QED BY <1>7, <2>1, <2>2 DEF Range
<1>9. \A k, l \in 1 .. m : n + k = n + l => k = l
  BY <1>1
<1>10. QED BY <1>1, <1>4, <1>5, <1>6, <1>7, <1>8, <1>9 DEF n, m

\* What an apply's swap does to the signals, besides the walk it begins.
LEMMA SwapsSignals ==
  ASSUME WorkInv, PluginAssumption, NEW a \in applies, ApplySwaps(a)
  PROVE  /\ SwapsRoots(a, Old(a), DOMAIN a.old) /\ ~Duplicates(roots')
         /\ IsFiniteSet(DOMAIN a.old) /\ DOMAIN a.old # {} /\ DOMAIN a.old \subseteq Cells
         /\ LET first == Len(roots) + 1
                w == [for |-> "apply", left |-> Staged(DOMAIN a.old), cells |-> DOMAIN a.old]
                d == roots'[first].cell
            IN  /\ walks' = walks \cup {w} /\ suppressed' = TRUE
                /\ first \in DOMAIN roots' /\ first \notin DOMAIN roots /\ d \in DOMAIN a.old
                /\ watched' = [watched EXCEPT ![d] = 0]
                /\ heard' = (heard \ Old(a)) \ {watched[d]}
<1>1. /\ Proper(a) /\ roots \in Seq(Root) /\ Len(roots) \in Nat /\ DOMAIN roots = 1 .. Len(roots)
  BY WorkFacts DEF WorkInv
<1>2. DOMAIN a.old \subseteq Cells /\ DOMAIN a.old # {} /\ a.id \in Nat
  BY <1>1 DEF Proper
<1>3. IsFiniteSet(DOMAIN a.old)
  BY <1>2, FS_Subset DEF PluginAssumption
<1>4. roots' = Swapped(a, Old(a), DOMAIN a.old) /\ ~Duplicates(roots')
  <2>1. roots' = Swapped(a, Old(a), DOMAIN a.old)
    BY DEF ApplySwaps
  <2>2. QED BY <2>1 DEF ApplySwaps, Clashes
<1>5. SwapsRoots(a, Old(a), DOMAIN a.old)
  BY <1>1, <1>2, <1>4, RootsSwapped
<1>6. Head(Staged(DOMAIN a.old)) = Len(roots) + 1 /\ Cardinality(DOMAIN a.old) \in Nat \ {0}
  BY <1>1, <1>2, <1>3, StagedIs
<1> DEFINE first == Len(roots) + 1
           d == roots'[first].cell
<1>7. first \in DOMAIN roots' /\ first \notin DOMAIN roots
  BY <1>1, <1>5, <1>6, RootsAre DEF SwapsRoots
<1>8. d \in DOMAIN a.old
  BY <1>5, <1>7 DEF SwapsRoots
<1>9. /\ watched' = [watched EXCEPT ![d] = 0]
      /\ heard' = (heard \ Old(a)) \ {watched[d]}
  BY <1>4, <1>6 DEF ApplySwaps, Unwatch
<1>10. /\ walks' = walks \cup {[for |-> "apply", left |-> Staged(DOMAIN a.old),
                                cells |-> DOMAIN a.old]}
       /\ suppressed' = TRUE
  BY DEF ApplySwaps
<1>11. QED BY <1>2, <1>3, <1>4, <1>5, <1>7, <1>8, <1>9, <1>10

LEMMA ApplyWork ==
  ASSUME WorkInv, PluginAssumption, NEW a \in applies, Swapping(a)
  PROVE  WorkInv'
<1>0. /\ roots \in Seq(Root) /\ Len(roots) \in Nat /\ DOMAIN roots = 1 .. Len(roots)
      /\ commands \in Nat /\ watched \in [Cells -> 0 .. Len(roots)] /\ heard \subseteq DOMAIN roots
      /\ walks \subseteq Walk /\ Pending \subseteq DOMAIN roots
  BY WorkFacts
<1>1. Proper(a) /\ a.id \in Nat /\ a.id <= commands
  BY DEF WorkInv, Proper
<1>2. PICK out, cs : roots' = Swapped(a, out, cs) /\ cs \subseteq DOMAIN a.old
  BY AppliesSwap DEF Swaps
<1>3. SwapsRoots(a, out, cs)
  <2>1. cs \subseteq Cells
    BY <1>1, <1>2 DEF Proper
  <2>2. QED BY <1>0, <1>1, <1>2, <2>1, RootsSwapped
<1>4. KeepsRoots
  <2>1. \A j \in DOMAIN roots : roots[j].owed <= roots[j].edits
    BY DEF WorkInv, Latest
  <2>2. QED BY <1>0, <1>1, <1>3, <2>1 DEF KeepsRoots, SwapsRoots
<1>5. KeepsMarks
  BY WorkFacts DEF Swapping, ApplySwaps, RecordingFails, RollbackFails, KeepsMarks
<1>6. /\ watched' \in [Cells -> 0 .. Len(roots')]
      /\ \A c \in Cells : watched'[c] # 0 => roots'[watched'[c]].cell = c
  <2>1. watched' = watched \/ \E d : watched' = [watched EXCEPT ![d] = 0]
    BY SwapsSignals DEF Swapping, RecordingFails, RollbackFails
  <2>2. watched' \in [Cells -> Nat] /\ \A c \in Cells : watched'[c] \in {0, watched[c]}
    BY <1>0, <2>1
  <2>3. QED BY <1>4, <2>2, ConnectionsKept
<1>7. DOMAIN roots \subseteq DOMAIN roots'
  BY <1>3 DEF SwapsRoots
<1>8. heard' \subseteq DOMAIN roots'
  BY <1>0, <1>7, SwapsSignals DEF Swapping, RecordingFails, RollbackFails
<1>9. walks' \subseteq Walk /\ Pending' \subseteq DOMAIN roots' /\ (suppressed' => Applying')
      /\ suppressed' \in BOOLEAN
  <2>1. CASE ApplySwaps(a)
    <3> DEFINE w == [for |-> "apply", left |-> Staged(DOMAIN a.old), cells |-> DOMAIN a.old]
    <3>1. /\ SwapsRoots(a, Old(a), DOMAIN a.old) /\ walks' = walks \cup {w} /\ suppressed' = TRUE
          /\ IsFiniteSet(DOMAIN a.old) /\ DOMAIN a.old # {} /\ DOMAIN a.old \subseteq Cells
      BY <2>1, SwapsSignals
    <3>2. /\ Staged(DOMAIN a.old) \in Seq(Nat) /\ Staged(DOMAIN a.old) # <<>>
          /\ Cardinality(DOMAIN a.old) \in Nat \ {0}
          /\ Range(Staged(DOMAIN a.old)) = Len(roots) + 1 .. Len(roots) + Cardinality(DOMAIN a.old)
      BY <1>0, <3>1, StagedIs
    <3>3. w \in Walk /\ w.left = Staged(DOMAIN a.old) /\ w.for = "apply"
      BY <3>1, <3>2 DEF Walk
    <3> HIDE DEF w
    <3>4. Range(w.left) \subseteq DOMAIN roots'
      <4>1. /\ Len(roots') = Len(roots) + Cardinality(DOMAIN a.old)
            /\ DOMAIN roots' = 1 .. Len(roots')
        BY <3>1, RootsAre DEF SwapsRoots
      <4>2. \A i \in Len(roots) + 1 .. Len(roots) + Cardinality(DOMAIN a.old) :
               i \in 1 .. Len(roots) + Cardinality(DOMAIN a.old)
        BY <1>0, <3>2
      <4>3. QED BY <3>2, <3>3, <4>1, <4>2
    <3>5. \A i : i \in Pending' => i \in Pending \/ i \in Range(w.left)
      BY <3>1 DEF Pending
    <3>6. Applying'
      BY <3>1, <3>3 DEF Applying
    <3>7. QED BY <1>0, <1>7, <3>1, <3>3, <3>4, <3>5, <3>6
  <2>2. CASE RecordingFails(a) \/ RollbackFails(a)
    <3>1. walks' = walks /\ suppressed' = FALSE
      BY <2>2 DEF RecordingFails, RollbackFails
    <3>2. Pending' = Pending
      BY <3>1 DEF Pending
    <3>3. QED BY <1>0, <1>7, <3>1, <3>2
  <2>3. QED BY <2>1, <2>2 DEF Swapping
<1>10. KeepsSignals
  BY <1>6, <1>8, <1>9 DEF KeepsSignals, Connected
<1>11. KeepsWork
  BY DEF Swapping, ApplySwaps, RecordingFails, RollbackFails, KeepsWork, work
<1>12. QED BY <1>4, <1>5, <1>10, <1>11, WorkKept

LEMMA RolledBackWork ==
  ASSUME WorkInv, NEW a \in applies, RolledBack(a)
  PROVE  WorkInv'
<1>1. /\ UNCHANGED <<roots, epoch, dirty, watched, heard, walks, link, version, work, counts>>
      /\ suppressed' = FALSE
  BY DEF RolledBack
<1>2. KeepsRoots /\ KeepsMarks /\ KeepsWork
  BY <1>1, UnchangedRootsKept, WorkFacts DEF KeepsMarks, KeepsWork, work
<1>3. Pending' = Pending
  BY <1>1 DEF Pending
<1>4. KeepsSignals
  BY <1>1, <1>3, WorkFacts DEF KeepsSignals, WorkInv, Connected
<1>5. QED BY <1>2, <1>4, WorkKept

\* A load walks over the roots of the cells.
LEMMA LoadIs ==
  ASSUME roots \in Seq(Root)
  PROVE  /\ LoadWalk \subseteq Walk
         /\ \A w \in LoadWalk : Range(w.left) \subseteq DOMAIN roots /\ w.for = "load"
         /\ \A c \in Cells : RootOf(c) # 0 => \E w \in LoadWalk : RootOf(c) \in Range(w.left)
<1> DEFINE found == {RootOf(c) : c \in Cells} \ {0}
           w == [for |-> "load", left |-> SetToSeq(found), cells |-> {}]
<1>1. Len(roots) \in Nat /\ DOMAIN roots = 1 .. Len(roots)
  BY RootsAre
<1>2. found \subseteq DOMAIN roots
  BY RootOfCell DEF RootsOf
<1>3. IsFiniteSet(found)
  <2>1. IsFiniteSet(1 .. Len(roots))
    BY <1>1, FS_Interval
  <2>2. QED BY <1>1, <1>2, <2>1, FS_Subset
<1>4. \A c \in Cells : RootOf(c) # 0 => RootOf(c) \in found
  OBVIOUS
<1>5. LoadWalk = IF found = {} THEN {} ELSE {w}
  BY DEF LoadWalk
<1>6. found \subseteq Nat
  BY <1>1, <1>2
<1> HIDE DEF found
<1>7. /\ Cardinality(found) \in Nat
      /\ SetToSeq(found) \in [1 .. Cardinality(found) -> found]
      /\ \A x \in found : \E k \in 1 .. Cardinality(found) : SetToSeq(found)[k] = x
  BY <1>3, SetToSeqLists
<1>8. SetToSeq(found) \in [1 .. Cardinality(found) -> Nat]
  BY <1>6, <1>7
<1>9. SetToSeq(found) \in Seq(Nat) /\ Len(SetToSeq(found)) = Cardinality(found)
  BY <1>7, <1>8, ListIsSeq
<1>10. Range(SetToSeq(found)) = found
  BY <1>7 DEF Range
<1>11. found # {} => SetToSeq(found) # <<>>
  <2>1. found # {} => Cardinality(found) # 0
    BY <1>3, FS_EmptySet
  <2>2. QED BY <1>9, <2>1, EmptySeq
<1>12. found # {} => w \in Walk
  BY <1>9, <1>11 DEF Walk
<1>13. w.left = SetToSeq(found) /\ w.for = "load"
  OBVIOUS
<1> HIDE DEF w
<1>14. QED BY <1>2, <1>4, <1>5, <1>10, <1>12, <1>13

LEMMA ReloadWork ==
  ASSUME WorkInv, Reload
  PROVE  WorkInv'
<1> USE WorkFacts
<1>1. /\ roots' \in Seq(Root) /\ Len(roots') = Len(roots) /\ DOMAIN roots' = DOMAIN roots
      /\ \A j \in DOMAIN roots : roots'[j].by = roots[j].by /\ roots'[j].owed = 0
  BY AllForgotten DEF Reload, SameRoots
<1>2. /\ capture' = Nil /\ command' = Nil /\ applies' = {} /\ commands' = commands
      /\ version' = version /\ context' = 0 /\ sessions' = 0
      /\ watched' = [c \in Cells |-> 0] /\ heard' = {} /\ suppressed' = FALSE /\ walks' = LoadWalk
      /\ epoch' = [c \in Cells |-> 0] /\ dirty' = [c \in Cells |-> FALSE]
  BY DEF Reload
<1>3. walks' \subseteq Walk /\ Pending' \subseteq DOMAIN roots
  BY <1>2, LoadIs DEF Pending
<1>4. watched' \in [Cells -> 0 .. Len(roots')]
  BY <1>1, <1>2
<1>5. PluginTypes'
  <2>1. epoch' \in [Cells -> Nat] /\ dirty' \in [Cells -> BOOLEAN]
    BY <1>2
  <2>2. heard' \subseteq DOMAIN roots' /\ suppressed' \in BOOLEAN /\ Pending' \subseteq DOMAIN roots'
    BY <1>1, <1>2, <1>3
  <2>3. PluginTypeOK'
    BY <1>1, <1>2, <1>3, <1>4, <2>1, <2>2 DEF PluginTypeOK
  <2>4. {version', context', commands', sessions'} \subseteq Nat
    BY <1>2
  <2>5. QED BY <2>3, <2>4 DEF PluginTypes
<1>6. \A j \in DOMAIN roots' : roots'[j].owed <= roots'[j].edits
  BY <1>1, RootsAre
<1>7. Latest'
  BY <1>1, <1>2, <1>6 DEF WorkInv, Latest
<1>8. Connected'
  BY <1>2 DEF Connected
<1>9. QED BY <1>2, <1>5, <1>7, <1>8 DEF WorkInv

\* Every step keeps the invariant of the work under way.
LEMMA WorkStep ==
  ASSUME WorkInv, PluginAssumption, [PluginNext]_pluginVars
  PROVE  WorkInv'
<1>1. CASE UNCHANGED pluginVars
  <2>1. UNCHANGED <<place, link, version, work, counts>>
    BY <1>1 DEF pluginVars
  <2>2. /\ UNCHANGED <<capture, command, applies, version, context, commands, sessions>>
    BY <2>1 DEF work, link, counts
  <2>3. PluginTypes'
    BY <2>1, <2>2, QuietTypes, WorkFacts
  <2>4. Latest'
    BY <2>1, <2>2 DEF place, WorkInv, Latest
  <2>5. QED BY <2>1, <2>2, <2>3, <2>4, WorkFacts, QuietWork DEF WorkInv, Capturing
<1>2. CASE PluginNext
  BY <1>2, LinkWork, RequestWork, CaptureWork, PendingWork, EditWork, SelectionWork, SaveWork,
     ApplyWork, RolledBackWork, WalkOnWork, LoadWork, RegistrationWork, ApplyEndsWork, ReloadWork
     DEF PluginNext, Saves, Swapping
<1>3. QED BY <1>1, <1>2

-----------------------------------------------------------------------------
(* One root of a cell *)

LEMMA InitialRoots ==
  ASSUME PluginAssumption, PluginInit
  PROVE  /\ roots \in Seq(Root)
         /\ \A i \in DOMAIN roots : roots[i].owed = 0 /\ roots[i].by = 0
         /\ \A i, j \in DOMAIN roots : roots[i].cell = roots[j].cell => i = j
<1> DEFINE m == Cardinality(Managed)
           s == SetToSeq(Managed)
<1>1. IsFiniteSet(Managed) /\ Managed \subseteq Cells
  BY FS_Subset DEF PluginAssumption
<1>2. /\ m \in Nat /\ s \in [1 .. m -> Managed]
      /\ \A k, l \in 1 .. m : s[k] = s[l] => k = l
  BY <1>1, SetToSeqLists
<1>3. roots = [k \in 1 .. m |-> NewRoot(s[k], 0, 0)]
  BY DEF PluginInit
<1> HIDE DEF m, s
<1>4. \A c \in Cells : LET r == NewRoot(c, 0, 0)
                       IN  r \in Root /\ r.cell = c /\ r.owed = 0 /\ r.edits = 0 /\ r.by = 0
  BY DEF NewRoot, Root
<1>5. \A k \in 1 .. m : s[k] \in Cells
  BY <1>1, <1>2
<1>6. DOMAIN roots = 1 .. m /\ \A k \in 1 .. m : roots[k] = NewRoot(s[k], 0, 0)
  BY <1>3
<1>7. roots \in [1 .. m -> Root]
  BY <1>3, <1>4, <1>5
<1>8. roots \in Seq(Root)
  BY <1>2, <1>7, SeqDef
<1>9. \A k \in 1 .. m : roots[k].cell = s[k] /\ roots[k].owed = 0 /\ roots[k].by = 0
  BY <1>4, <1>5, <1>6
<1>10. QED BY <1>2, <1>6, <1>8, <1>9

LEMMA WorkInit ==
  ASSUME PluginAssumption, PluginInit
  PROVE  WorkInv
<1>1. roots \in Seq(Root) /\ \A i \in DOMAIN roots : roots[i].owed = 0 /\ roots[i].by = 0
  BY InitialRoots
<1>2. /\ epoch = [c \in Cells |-> 0] /\ dirty = [c \in Cells |-> FALSE]
      /\ watched = [c \in Cells |-> 0] /\ heard = {} /\ suppressed = FALSE /\ walks = LoadWalk
      /\ version = 1 /\ context = 0 /\ commands = 0
      /\ sessions = 0 /\ capture = Nil /\ command = Nil /\ applies = {}
  BY DEF PluginInit
<1>3. walks \subseteq Walk /\ Pending \subseteq DOMAIN roots
  BY <1>1, <1>2, LoadIs DEF Pending
<1>4. PluginTypes
  <2>1. /\ epoch \in [Cells -> Nat] /\ dirty \in [Cells -> BOOLEAN]
        /\ watched \in [Cells -> 0 .. Len(roots)]
    BY <1>1, <1>2, RootsAre
  <2>2. PluginTypeOK
    BY <1>1, <1>2, <1>3, <2>1 DEF PluginTypeOK
  <2>3. QED BY <1>2, <2>2 DEF PluginTypes
<1>5. Latest
  <2>1. \A i \in DOMAIN roots : roots[i].edits \in Nat
    BY <1>1, RootsAre
  <2>2. QED BY <1>1, <1>2, <2>1 DEF Latest
<1>6. Connected
  BY <1>2 DEF Connected
<1>7. QED BY <1>2, <1>4, <1>5, <1>6 DEF WorkInv

LEMMA OneRootInit ==
  ASSUME PluginAssumption, PluginInit
  PROVE  OneRootPerCell
BY InitialRoots DEF OneRootPerCell, Duplicates

LEMMA SameRootsOnce ==
  ASSUME OneRootPerCell, recovery' = recovery, DOMAIN roots' = DOMAIN roots,
         \A j \in DOMAIN roots : /\ roots'[j].cell = roots[j].cell
                                 /\ (roots'[j].here <=> roots[j].here)
  PROVE  OneRootPerCell'
BY DEF OneRootPerCell, Duplicates

\* The steps that change the place: edits, registrations, the end of a checkpoint, applies and
\* walks; and those that do not.
Edits == \E i \in DOMAIN roots : EditInstance(i)
Replacing == \E a \in applies : Swapping(a)
Rollbacks == \E a \in applies : RolledBack(a)
Walking == \E w \in walks : WalkOn(w) \/ LoadEnds(w) \/ RegistrationEnds(w) \/ ApplyEnds(w)

LEMMA QuietSteps ==
  ASSUME \/ UNCHANGED pluginVars
         \/ Connect \/ Closed \/ Disconnect \/ SessionContext \/ ContextChanged \/ Rebind
         \/ (\E cs \in Revisions : CommandRequest(cs)) \/ CommandRepeated
         \/ (\E i \in DOMAIN roots : CheckpointSelected(i))
         \/ Serialized \/ SerializeAgain \/ Verified \/ RequestFails \/ ApplyPending
  PROVE  UNCHANGED place
BY DEF pluginVars, Connect, Closed, Disconnect, SessionContext, ContextChanged, Rebind,
       CommandRequest, CommandRepeated, CheckpointSelected, Serialized, SerializeAgain, Verified,
       RequestFails, CaptureStep, ApplyPending

LEMMA StepCases ==
  ASSUME [PluginNext]_pluginVars
  PROVE  \/ UNCHANGED place
         \/ Edits \/ (\E c \in Cells : RegisterSelection(c)) \/ Saves
         \/ Replacing \/ Rollbacks \/ Walking \/ Reload
BY QuietSteps, Zenon DEF PluginNext, Edits, Saves, Replacing, Swapping, Rollbacks, Walking

\* A walk leaves the roots where and what they are.
LEMMA WalkingRoots ==
  ASSUME WorkInv, NEW w \in walks,
         WalkOn(w) \/ LoadEnds(w) \/ RegistrationEnds(w) \/ ApplyEnds(w)
  PROVE  /\ SameRoots /\ UNCHANGED <<capture, recovery, crossed>>
         /\ \A j \in DOMAIN roots : roots'[j].edits = roots[j].edits /\ roots'[j].saved = roots[j].saved
<1>1. UNCHANGED <<capture, recovery, crossed>>
  BY DEF WalkOn, LoadEnds, RegistrationEnds, ApplyEnds, lapses, work
<1>2. CASE RegistrationEnds(w)
  BY <1>1, <1>2, RegisteredRoot
<1>3. CASE WalkOn(w) \/ LoadEnds(w) \/ ApplyEnds(w)
  <2>1. roots' = roots
    BY <1>3 DEF WalkOn, LoadEnds, ApplyEnds
  <2>2. SameRoots
    BY <2>1, WorkFacts DEF SameRoots
  <2>3. QED BY <1>1, <2>1, <2>2
<1>4. QED BY <1>2, <1>3

LEMMA OneRootStep ==
  ASSUME WorkInv, OneRootPerCell, [PluginNext]_pluginVars
  PROVE  OneRootPerCell'
<1>0. roots \in Seq(Root)
  BY WorkFacts
<1>1. CASE UNCHANGED place
  BY <1>1, SameRootsOnce DEF place, lapses
<1>2. CASE Edits
  <2>1. SameRoots
    BY <1>2, EditedRoot DEF Edits
  <2>2. recovery' = recovery
    BY <1>2 DEF Edits, EditInstance, lapses
  <2>3. QED BY <2>1, <2>2, SameRootsOnce DEF SameRoots
<1>3. ASSUME NEW c \in Cells, RegisterSelection(c) PROVE OneRootPerCell'
  <2>1. /\ roots' = Append(roots, NewRoot(c, 1, 0)) /\ recovery' = recovery
        /\ \A i \in DOMAIN roots : roots[i].cell # c
    BY <1>3 DEF RegisterSelection, lapses
  <2>2. /\ DOMAIN roots' = DOMAIN roots \cup {Len(roots')}
        /\ \A j \in DOMAIN roots : roots'[j] = roots[j]
        /\ roots'[Len(roots')].cell = c
    BY <1>0, <2>1, OneMore
  <2>3. QED BY <2>1, <2>2 DEF OneRootPerCell, Duplicates
<1>4. CASE Saves
  <2>1. SameRoots
    BY <1>4, SavedRoot
  <2>2. recovery' = recovery
    BY <1>4 DEF Saves, Proposed, Accepted, lapses
  <2>3. QED BY <2>1, <2>2, SameRootsOnce DEF SameRoots
<1>5. CASE Replacing
  BY <1>5 DEF Replacing, Swapping, ApplySwaps, RecordingFails, RollbackFails, Clashes,
              OneRootPerCell, Duplicates
<1>6. CASE Reload
  <2>1. SameRoots
    BY <1>0, <1>6, AllForgotten DEF Reload
  <2>2. recovery' = recovery
    BY <1>6 DEF Reload, lapses
  <2>3. QED BY <2>1, <2>2, SameRootsOnce DEF SameRoots
<1>7. CASE Rollbacks
  BY <1>7, SameRootsOnce DEF Rollbacks, RolledBack, lapses
<1>8. CASE Walking
  BY <1>8, WalkingRoots, SameRootsOnce DEF Walking, SameRoots
<1>9. QED BY <1>1, <1>2, <1>3, <1>4, <1>5, <1>6, <1>7, <1>8, StepCases

LEMMA PluginWork == ASSUME PluginAssumption PROVE PluginSpec => []WorkInv
<1>1. PluginInit => WorkInv
  BY WorkInit
<1>2. WorkInv /\ [PluginNext]_pluginVars => WorkInv'
  BY WorkStep
<1>3. QED BY <1>1, <1>2, PTL DEF PluginSpec

\* Roots, tracker and pending command keep their types (scanCells, studio_plugin.luau:320;
\* ChangeTracker, :338; pendingApply, :1716).
THEOREM PluginTypeCorrect == PluginSpec => []PluginTypeOK
<1>1. PluginSpec => []WorkInv
  BY PluginAssumption, PluginWork
<1>2. WorkInv => PluginTypeOK
  BY DEF WorkInv, PluginTypes
<1>3. QED BY <1>1, <1>2, PTL

\* The scan after the swap (applyPending, studio_plugin.luau:1626) keeps every cell at one root,
\* however many applies of a command overlap and fail, up to a report of recovery-required.
THEOREM OneRootPerCellHolds == PluginSpec => []OneRootPerCell
<1>1. PluginSpec => []WorkInv
  BY PluginAssumption, PluginWork
<1>2. PluginInit => OneRootPerCell
  BY PluginAssumption, OneRootInit
<1>3. WorkInv /\ OneRootPerCell /\ [PluginNext]_pluginVars => OneRootPerCell'
  BY OneRootStep
<1>4. QED BY <1>1, <1>2, <1>3, PTL DEF PluginSpec

-----------------------------------------------------------------------------
(* What is owed of a cell that is not dirty is in a revision *)

\* The roots in the place are watched, or a walk is to watch them.
Watching == \A i \in DOMAIN roots : roots[i].here => i \in heard \/ i \in Pending

\* What is owed of the roots of a cell is in a revision.
Clean(c) == \A i \in RootsOf(c) : roots[i].owed <= roots[i].saved

\* While an apply walks, its new roots stay, and nothing is owed of its cells.
Walked(w) ==
  /\ \A i \in Range(w.left) : roots[i].here
  /\ \A k, l \in DOMAIN w.left : w.left[k] = w.left[l] => k = l
  /\ \A c \in w.cells : Clean(c)
Walkers == \A w \in walks : w.for = "apply" => Walked(w)

\* While the cell of the root under way has the epoch of its bytes, these bytes are all there
\* is to save of it.
Taken ==
  LET r == roots[capture.root] IN
  /\ capture.at = "serialize" => r.here
  /\ epoch[r.cell] = capture.epoch =>
       /\ capture.at = "serialize" => r.owed <= capture.edits
       /\ capture.at \in {"upload", "proposal"} =>
            \A i \in RootsOf(r.cell) : \/ roots[i].owed <= roots[i].saved
                                       \/ i = capture.root /\ roots[i].owed <= capture.edits

Tracked ==
  /\ Watching
  /\ Walkers
  /\ \A c \in Cells : ~dirty[c] => Clean(c)
  /\ capture # Nil => Taken
TrackedInv == ~recovery /\ ~crossed => Tracked

LEMMA OneHere ==
  ASSUME OneRootPerCell, ~recovery, NEW c, NEW i \in RootsOf(c), NEW j \in RootsOf(c)
  PROVE  i = j
BY DEF OneRootPerCell, Duplicates, RootsOf

\* A load comes to every root in the place.
LEMMA LoadFindsAll ==
  ASSUME roots \in Seq(Root), OneRootPerCell, ~recovery, NEW i \in DOMAIN roots, roots[i].here
  PROVE  \E w \in LoadWalk : i \in Range(w.left)
<1>1. roots[i].cell \in Cells /\ i \in RootsOf(roots[i].cell)
  BY RootsAre DEF RootsOf
<1>2. RootOf(roots[i].cell) # 0 /\ RootOf(roots[i].cell) \in RootsOf(roots[i].cell)
  BY <1>1, RootOfCell
<1>3. RootOf(roots[i].cell) = i
  BY <1>1, <1>2, OneHere
<1>4. QED BY <1>1, <1>2, <1>3, LoadIs

LEMMA TrackedInit ==
  ASSUME PluginAssumption, PluginInit
  PROVE  TrackedInv
<1>1. OneRootPerCell /\ walks = LoadWalk /\ capture = Nil /\ ~recovery
  BY OneRootInit DEF PluginInit
<1>2. roots \in Seq(Root) /\ \A i \in DOMAIN roots : roots[i].owed = 0
  BY InitialRoots
<1>3. Watching
  BY <1>1, <1>2, LoadFindsAll DEF Watching, Pending
<1>4. Walkers
  BY <1>1, <1>2, LoadIs DEF Walkers
<1>5. \A i \in DOMAIN roots : roots[i].saved \in Nat
  BY <1>2, RootsAre
<1>6. \A c \in Cells : Clean(c)
  BY <1>2, <1>5 DEF Clean, RootsOf
<1>7. QED BY <1>1, <1>3, <1>4, <1>6 DEF TrackedInv, Tracked

\* Without a change of the place only the checkpoint under way matters.
LEMMA TrackedQuietly ==
  ASSUME TrackedInv, UNCHANGED place,
         ~recovery /\ ~crossed /\ capture' # Nil => Taken'
  PROVE  TrackedInv'
<1>1. /\ roots' = roots /\ epoch' = epoch /\ dirty' = dirty /\ heard' = heard /\ walks' = walks
      /\ recovery' = recovery /\ crossed' = crossed
  BY DEF place, lapses, signals
<1>2. \A c : Clean(c)' <=> Clean(c)
  BY <1>1 DEF Clean, RootsOf
<1>3. Watching' <=> Watching
  BY <1>1 DEF Watching, Pending
<1>4. Walkers' <=> Walkers
  BY <1>1, <1>2 DEF Walkers, Walked
<1>5. QED BY <1>1, <1>2, <1>3, <1>4 DEF TrackedInv, Tracked

LEMMA TrackedCapture ==
  ASSUME WorkInv, OneRootPerCell, TrackedInv, [PluginNext]_pluginVars, UNCHANGED place,
         ~recovery, ~crossed, capture' # Nil
  PROVE  Taken'
<1>0. roots' = roots /\ epoch' = epoch
  BY DEF place
<1>o. \A i \in DOMAIN roots : /\ roots[i].owed \in Nat /\ roots[i].edits \in Nat
                              /\ roots[i].owed <= roots[i].edits
  BY WorkFacts, RootsAre DEF WorkInv, Latest
<1>1. CASE capture' = capture
  BY <1>0, <1>1 DEF TrackedInv, Tracked, Taken, RootsOf
<1>2. ASSUME NEW i \in DOMAIN roots, CheckpointSelected(i) PROVE Taken'
  <2>1. /\ roots[i].here /\ capture'.at = "serialize" /\ capture'.root = i
        /\ capture'.edits = roots[i].edits
    BY <1>2 DEF CheckpointSelected
  <2>2. QED BY <1>0, <1>o, <2>1 DEF Taken
<1>3. CASE Serialized
  <2>1. PICK n \in capture.edits .. roots[capture.root].edits :
           capture' = [capture EXCEPT !.at = "upload", !.edits = n, !.tries = 0,
                                      !.session = sessions, !.version = IF Bound THEN context ELSE 0]
    BY <1>3 DEF Serialized
  <2>2. /\ capture # Nil /\ Capturing /\ capture.at = "serialize" /\ Taken
        /\ epoch[roots[capture.root].cell] = capture.epoch
    BY <1>3 DEF Serialized, Busy, WorkInv, TrackedInv, Tracked
  <2>3. /\ capture'.at = "upload" /\ capture'.root = capture.root /\ capture'.edits = n
        /\ capture'.epoch = capture.epoch
    BY <2>1, <2>2 DEF Capturing, Capture
  <2>4. roots[capture.root].owed <= capture.edits /\ roots[capture.root].here
    BY <2>2 DEF Taken
  <2>5. capture.root \in DOMAIN roots /\ capture.edits \in Nat
    BY <2>2 DEF Capturing, Capture
  <2>6. roots[capture.root].owed <= n
    BY <1>o, <2>4, <2>5
  <2>7. \A i \in RootsOf(roots[capture.root].cell) : i = capture.root
    BY <2>4, <2>5, OneHere DEF RootsOf
  <2>8. QED BY <1>0, <2>3, <2>6, <2>7 DEF Taken, RootsOf
<1>4. CASE SerializeAgain
  <2>1. capture # Nil /\ Capturing /\ capture.at = "serialize" /\ Taken
    BY <1>4 DEF SerializeAgain, Busy, WorkInv, TrackedInv, Tracked
  <2>2. capture' = [capture EXCEPT !.epoch = epoch[roots[capture.root].cell],
                                   !.edits = roots[capture.root].edits, !.tries = @ + 1]
    BY <1>4 DEF SerializeAgain
  <2>3. /\ capture'.at = "serialize" /\ capture'.root = capture.root
        /\ capture'.edits = roots[capture.root].edits
    BY <2>1, <2>2 DEF Capturing, Capture
  <2>4. roots[capture.root].here /\ capture.root \in DOMAIN roots
    BY <2>1 DEF Taken, Capturing
  <2>5. QED BY <1>0, <1>o, <2>3, <2>4 DEF Taken
<1>5. CASE Verified
  <2>1. capture # Nil /\ Capturing /\ capture.at = "upload" /\ Taken
        /\ capture' = [capture EXCEPT !.at = "proposal"]
    BY <1>5 DEF Verified, Busy, WorkInv, TrackedInv, Tracked
  <2>2. /\ capture'.at = "proposal" /\ capture'.root = capture.root
        /\ capture'.edits = capture.edits /\ capture'.epoch = capture.epoch
    BY <2>1 DEF Capturing, Capture
  <2>3. QED BY <1>0, <2>1, <2>2 DEF Taken, RootsOf
<1>6. CASE RequestFails
  <2>1. capture # Nil /\ Capturing /\ capture' = [capture EXCEPT !.at = "failed"]
    BY <1>6 DEF RequestFails, Busy, WorkInv
  <2>2. capture'.at = "failed"
    BY <2>1 DEF Capturing, Capture
  <2>3. QED BY <2>2 DEF Taken
<1>7. \/ capture' \in {capture, Nil} \/ (\E i \in DOMAIN roots : CheckpointSelected(i))
      \/ Serialized \/ SerializeAgain \/ Verified \/ RequestFails
  BY Zenon DEF PluginNext, pluginVars, work, EditInstance, RegisterSelection, Connect, Closed, Disconnect,
      SessionContext, ContextChanged, Rebind, CommandRequest, CommandRepeated, Proposed, Accepted,
      ApplyPending, ApplySwaps, RecordingFails, RolledBack, RollbackFails, WalkOn, LoadEnds,
      RegistrationEnds, ApplyEnds, Reload
<1>8. QED BY <1>1, <1>2, <1>3, <1>4, <1>5, <1>6, <1>7

\* Roots that stay, each cell marked or owing what it owed: what is not dirty stays clean.
LEMMA StillClean ==
  ASSUME WorkInv, Tracked, SameRoots, capture' = capture,
         \A j \in DOMAIN roots : roots'[j].saved = roots[j].saved,
         \A c \in Cells :
            \/ dirty'[c] /\ epoch'[c] = epoch[c] + 1
            \/ /\ dirty[c] => dirty'[c] \/ Clean(c)
               /\ epoch[c] <= epoch'[c] /\ epoch'[c] \in Nat
               /\ \A j \in DOMAIN roots : roots[j].cell = c => roots'[j].owed = roots[j].owed
  PROVE  /\ \A c \in Cells : ~dirty'[c] => Clean(c)'
         /\ capture' # Nil => Taken'
<1>0. /\ DOMAIN roots' = DOMAIN roots
      /\ \A j \in DOMAIN roots : roots'[j].cell = roots[j].cell /\ (roots'[j].here <=> roots[j].here)
  BY DEF SameRoots
<1>1. ASSUME NEW c \in Cells, ~dirty'[c] PROVE Clean(c)'
  <2>1. Clean(c) /\ \A j \in DOMAIN roots : roots[j].cell = c => roots'[j].owed = roots[j].owed
    BY <1>1 DEF Tracked
  <2>2. QED BY <1>0, <2>1 DEF Clean, RootsOf
<1>2. ASSUME capture # Nil PROVE Taken'
  <2> DEFINE c == roots[capture.root].cell
  <2>1. Taken /\ capture.root \in DOMAIN roots /\ capture.epoch \in Nat
        /\ capture.epoch <= epoch[c] /\ c \in Cells /\ epoch[c] \in Nat
    BY <1>2, WorkFacts, RootsAre DEF Capturing, Capture, WorkInv, Tracked
  <2>2. roots'[capture.root].cell = c
    BY <1>0, <2>1
  <2>3. CASE epoch'[c] = capture.epoch
    <3>1. /\ epoch[c] = capture.epoch
          /\ \A j \in DOMAIN roots : roots[j].cell = c => roots'[j].owed = roots[j].owed
      BY <2>1, <2>3
    <3>2. QED BY <1>0, <2>1, <2>2, <3>1 DEF Taken, RootsOf
  <2>4. CASE epoch'[c] # capture.epoch
    BY <1>0, <2>1, <2>2, <2>4 DEF Taken
  <2>5. QED BY <2>3, <2>4
<1>3. QED BY <1>1, <1>2

\* No walk comes to be, and while an apply walks nothing more is owed.
LEMMA StillWalked ==
  ASSUME WorkInv, Walkers, SameRoots, walks' \subseteq walks,
         \A j \in DOMAIN roots : roots'[j].saved >= roots[j].saved,
         Applying => \A j \in DOMAIN roots : roots'[j].owed = roots[j].owed
  PROVE  Walkers'
<1>1. SUFFICES ASSUME NEW w \in walks', w.for = "apply" PROVE Walked(w)'
  BY DEF Walkers
<1>2. Walked(w) /\ Applying /\ Range(w.left) \subseteq DOMAIN roots
  BY <1>1, WalkIs DEF Walkers, Applying
<1>3. \A i \in Range(w.left) : roots'[i].here
  BY <1>2 DEF Walked, SameRoots
<1>4. ASSUME NEW c \in w.cells PROVE Clean(c)'
  <2>1. \A j \in DOMAIN roots : /\ roots[j].owed \in Nat /\ roots[j].saved \in Nat
                                /\ roots'[j].owed = roots[j].owed
                                /\ roots'[j].saved \in Nat /\ roots'[j].saved >= roots[j].saved
    BY <1>2, WorkFacts, RootsAre DEF SameRoots
  <2>2. RootsOf(c)' = RootsOf(c)
    BY DEF RootsOf, SameRoots
  <2>3. Clean(c) /\ RootsOf(c) \subseteq DOMAIN roots
    BY <1>2 DEF Walked, RootsOf
  <2>4. QED BY <2>1, <2>2, <2>3 DEF Clean
<1>5. QED BY <1>2, <1>3, <1>4 DEF Walked

LEMMA TrackedEdit ==
  ASSUME WorkInv, Tracked, NEW i \in DOMAIN roots, EditInstance(i)
  PROVE  Tracked'
<1> DEFINE d == roots[i].cell
<1>0. /\ roots \in Seq(Root) /\ epoch \in [Cells -> Nat] /\ dirty \in [Cells -> BOOLEAN] /\ d \in Cells
  BY WorkFacts, RootsAre
<1>1. /\ SameRoots /\ roots[i].here
      /\ \A j \in DOMAIN roots : j # i => roots'[j] = roots[j]
      /\ roots'[i].saved = roots[i].saved
      /\ \/ roots'[i].owed = roots[i].owed
         \/ ~Applying /\ i \notin Pending /\ (i \in heard => Mark(d))
  BY EditedRoot
<1>2. UNCHANGED <<heard, walks, suppressed>> /\ capture' = capture
  BY DEF EditInstance, signals, work
<1>3. Watching'
  BY <1>1, <1>2 DEF Watching, Pending, Tracked, SameRoots
<1>4. \A j \in DOMAIN roots : roots'[j].saved = roots[j].saved
  BY <1>1
<1>5. \A j \in DOMAIN roots : roots[j].saved \in Nat
  BY <1>0, RootsAre
<1>6. Applying => \A j \in DOMAIN roots : roots'[j].owed = roots[j].owed
  BY <1>1
<1>7. Walkers'
  BY <1>1, <1>2, <1>4, <1>5, <1>6, StillWalked DEF Tracked
<1>8. KeepsMarks /\ \A c \in Cells : dirty[c] => dirty'[c]
  <2>1. CASE Mark(d)
    BY <1>0, <2>1, MarkTracks
  <2>2. CASE UNCHANGED <<epoch, dirty>>
    BY <1>0, <2>2 DEF KeepsMarks
  <2>3. QED BY <2>1, <2>2 DEF EditInstance
<1>9. ASSUME NEW c \in Cells
      PROVE  \/ dirty'[c] /\ epoch'[c] = epoch[c] + 1
             \/ /\ dirty[c] => dirty'[c] \/ Clean(c)
                /\ epoch[c] <= epoch'[c] /\ epoch'[c] \in Nat
                /\ \A j \in DOMAIN roots : roots[j].cell = c => roots'[j].owed = roots[j].owed
  <2>1. CASE c # d \/ roots'[i].owed = roots[i].owed
    <3>1. \A j \in DOMAIN roots : roots[j].cell = c => roots'[j].owed = roots[j].owed
      BY <1>1, <2>1
    <3>2. QED BY <1>8, <3>1 DEF KeepsMarks
  <2>2. CASE c = d /\ roots'[i].owed # roots[i].owed
    <3>1. ~suppressed /\ i \in heard
      BY <1>1, <2>2 DEF WorkInv, Connected, Tracked, Watching
    <3>2. Mark(d)
      BY <1>1, <2>2, <3>1
    <3>3. epoch' = [epoch EXCEPT ![d] = @ + 1] /\ dirty' = [dirty EXCEPT ![d] = TRUE]
      BY <3>1, <3>2 DEF Mark
    <3>4. QED BY <1>0, <2>2, <3>3
  <2>3. QED BY <2>1, <2>2
<1> HIDE DEF d
<1>10. /\ \A c \in Cells : ~dirty'[c] => Clean(c)'
       /\ capture' # Nil => Taken'
  BY <1>1, <1>2, <1>4, <1>9, StillClean
<1>11. QED BY <1>3, <1>7, <1>10 DEF Tracked

LEMMA TrackedSelection ==
  ASSUME WorkInv, Tracked, NEW d \in Cells, RegisterSelection(d)
  PROVE  Tracked'
<1> DEFINE n == Len(roots')
           w == [for |-> "register", left |-> <<n>>, cells |-> {}]
<1>0. roots \in Seq(Root) /\ Pending \subseteq DOMAIN roots
  BY WorkFacts
<1>1. /\ roots' = Append(roots, NewRoot(d, 1, 0)) /\ capture' = capture
      /\ \A i \in DOMAIN roots : roots[i].cell # d
      /\ walks' = walks \cup {w} /\ UNCHANGED <<heard, epoch, dirty>>
  BY DEF RegisterSelection, work
<1>2. /\ DOMAIN roots' = DOMAIN roots \cup {n} /\ n \notin DOMAIN roots
      /\ \A j \in DOMAIN roots : roots'[j] = roots[j]
      /\ roots'[n].cell = d /\ roots'[n].owed = 0 /\ roots'[n].saved = 0
  BY <1>0, <1>1, OneMore
<1>3. w.for = "register" /\ n \in Range(w.left)
  BY DEF Range
<1> HIDE DEF n, w
<1>4. Watching'
  <2>1. \A i : i \in Pending \/ i \in Range(w.left) => i \in Pending'
    BY <1>1 DEF Pending
  <2>2. QED BY <1>1, <1>2, <1>3, <2>1 DEF Tracked, Watching
<1>5. \A c : Clean(c) => Clean(c)'
  BY <1>2 DEF Clean, RootsOf
<1>6. Walkers'
  <2>1. SUFFICES ASSUME NEW u \in walks', u.for = "apply" PROVE Walked(u)'
    BY DEF Walkers
  <2>2. u \in walks /\ Walked(u) /\ Range(u.left) \subseteq DOMAIN roots
    BY <1>1, <1>3, <2>1, WalkIs DEF Walkers, Tracked
  <2>3. QED BY <1>2, <1>5, <2>2 DEF Walked
<1>7. \A c \in Cells : ~dirty'[c] => Clean(c)'
  BY <1>1, <1>5 DEF Tracked
<1>8. ASSUME capture # Nil PROVE Taken'
  <2>1. Taken /\ capture.root \in DOMAIN roots
    BY <1>8 DEF Tracked, WorkInv, Capturing
  <2>2. roots'[capture.root] = roots[capture.root] /\ roots[capture.root].cell # d
    BY <1>1, <1>2, <2>1
  <2>3. PICK e : e = roots[capture.root].cell
    OBVIOUS
  <2>4. roots'[capture.root].cell = e /\ epoch' = epoch
    BY <1>1, <2>2, <2>3
  <2>5. capture.at = "serialize" => roots'[capture.root].here
    BY <2>1, <2>2 DEF Taken
  <2>6. ASSUME epoch[e] = capture.epoch
        PROVE  /\ capture.at = "serialize" => roots'[capture.root].owed <= capture.edits
               /\ capture.at \in {"upload", "proposal"} =>
                    \A j \in DOMAIN roots' : roots'[j].cell = e /\ roots'[j].here =>
                       \/ roots'[j].owed <= roots'[j].saved
                       \/ j = capture.root /\ roots'[j].owed <= capture.edits
    <3>1. capture.at = "serialize" => roots'[capture.root].owed <= capture.edits
      BY <2>1, <2>2, <2>3, <2>6 DEF Taken
    <3>2. ASSUME capture.at \in {"upload", "proposal"},
                 NEW j \in DOMAIN roots', roots'[j].cell = e, roots'[j].here
          PROVE  \/ roots'[j].owed <= roots'[j].saved
                 \/ j = capture.root /\ roots'[j].owed <= capture.edits
      <4>1. \A k \in RootsOf(e) : \/ roots[k].owed <= roots[k].saved
                                  \/ k = capture.root /\ roots[k].owed <= capture.edits
        BY <2>1, <2>3, <2>6, <3>2 DEF Taken
      <4>2. j \in RootsOf(e) /\ roots'[j] = roots[j]
        BY <1>2, <2>2, <2>3, <3>2 DEF RootsOf
      <4>3. QED BY <4>1, <4>2
    <3>3. QED BY <3>1, <3>2
  <2>7. QED BY <1>1, <2>4, <2>5, <2>6 DEF Taken, RootsOf
<1>9. QED BY <1>1, <1>4, <1>6, <1>7, <1>8 DEF Tracked

LEMMA TrackedSave ==
  ASSUME WorkInv, Tracked, Saves
  PROVE  Tracked'
<1> DEFINE i == capture.root
           d == roots[i].cell
<1>0. roots \in Seq(Root) /\ epoch \in [Cells -> Nat] /\ dirty \in [Cells -> BOOLEAN]
  BY WorkFacts
<1>1. /\ SameRoots /\ capture # Nil /\ Capturing /\ capture.edits \in Nat
      /\ \A j \in DOMAIN roots : /\ roots'[j].owed = roots[j].owed
                                 /\ roots'[j].saved >= roots[j].saved
      /\ roots'[i].saved >= capture.edits
  BY SavedRoot
<1>2. Watching /\ Walkers /\ (\A c \in Cells : ~dirty[c] => Clean(c)) /\ Taken
  BY <1>1 DEF Tracked
<1>3. /\ capture' = Nil /\ capture.at = "proposal" /\ UNCHANGED <<heard, walks>>
  BY DEF Saves, Proposed, Accepted, signals
<1>4. i \in DOMAIN roots /\ d \in Cells
  BY <1>0, <1>1, RootsAre DEF Capturing
<1>5. \A j \in DOMAIN roots : /\ roots[j].owed \in Nat /\ roots[j].saved \in Nat
                              /\ roots'[j].saved \in Nat
  BY <1>0, <1>1, RootsAre DEF SameRoots
<1>6. \A c \in Cells : ~dirty'[c] => ~dirty[c] \/ (c = d /\ epoch[d] = capture.epoch)
  <2>1. CASE Mark(d)
    BY <1>4, <2>1, MarkTracks
  <2>2. CASE dirty' = [dirty EXCEPT ![d] = @ /\ epoch[d] # capture.epoch]
    BY <1>0, <1>4, <2>2
  <2>3. QED BY <2>1, <2>2 DEF Saves, Proposed, Accepted, AcceptUnlessEdited
<1> HIDE DEF i, d
<1>7. Watching'
  BY <1>1, <1>2, <1>3 DEF Watching, Pending, SameRoots
<1>8. Walkers'
  BY <1>1, <1>2, <1>3, StillWalked
<1>9. ASSUME NEW c \in Cells, ~dirty'[c] PROVE Clean(c)'
  <2>1. RootsOf(c)' = RootsOf(c) /\ RootsOf(c) \subseteq DOMAIN roots
    BY <1>1 DEF RootsOf, SameRoots
  <2>2. CASE ~dirty[c]
    BY <1>1, <1>2, <1>5, <2>1, <2>2 DEF Clean
  <2>3. CASE c = d /\ epoch[d] = capture.epoch
    <3>1. \A j \in RootsOf(c) : \/ roots[j].owed <= roots[j].saved
                                \/ j = i /\ roots[j].owed <= capture.edits
      BY <1>2, <1>3, <2>3 DEF Taken, i, d
    <3>2. QED BY <1>1, <1>5, <2>1, <3>1 DEF Clean
  <2>4. QED BY <1>6, <1>9, <2>2, <2>3
<1>10. QED BY <1>3, <1>7, <1>8, <1>9 DEF Tracked

LEMMA TrackedApply ==
  ASSUME PluginAssumption, WorkInv, Tracked, ~crossed', NEW a \in applies, ApplySwaps(a)
  PROVE  Tracked'
<1> DEFINE cs == DOMAIN a.old
           first == Len(roots) + 1
           d == roots'[first].cell
           w == [for |-> "apply", left |-> Staged(cs), cells |-> cs]
<1>0. /\ roots \in Seq(Root) /\ Len(roots) \in Nat /\ DOMAIN roots = 1 .. Len(roots)
  BY WorkFacts
<1>1. /\ SwapsRoots(a, Old(a), cs) /\ ~Duplicates(roots')
      /\ IsFiniteSet(cs) /\ cs # {} /\ cs \subseteq Cells
      /\ walks' = walks \cup {w}
      /\ first \in DOMAIN roots' /\ first \notin DOMAIN roots /\ d \in cs
      /\ heard' = (heard \ Old(a)) \ {watched[d]}
  BY SwapsSignals
<1>2. /\ Unedited(a) /\ UNCHANGED <<epoch, dirty>> /\ capture' = capture
      /\ ~Applying
      /\ ~(capture # Nil /\ capture.at = "serialize" /\ capture.root \in Old(a))
  BY DEF ApplySwaps, work, Busy
<1>3. /\ Staged(cs) \in Seq(Nat) /\ Cardinality(cs) \in Nat
      /\ Range(Staged(cs)) = Len(roots) + 1 .. Len(roots) + Cardinality(cs)
      /\ \A k, l \in DOMAIN Staged(cs) : Staged(cs)[k] = Staged(cs)[l] => k = l
  BY <1>0, <1>1, StagedIs
<1>w. w.left = Staged(cs) /\ w.cells = cs
  OBVIOUS
<1> HIDE DEF first, d, w
<1>4. /\ roots' \in Seq(Root) /\ DOMAIN roots \subseteq DOMAIN roots'
      /\ DOMAIN roots' = 1 .. Len(roots) + Cardinality(cs)
      /\ \A j \in DOMAIN roots :
            /\ roots'[j].cell = roots[j].cell
            /\ (roots'[j].here <=> roots[j].here /\ j \notin Old(a))
            /\ roots'[j].owed = roots[j].owed
            /\ roots'[j].saved = roots[j].saved
      /\ \A j \in DOMAIN roots' : j \notin DOMAIN roots =>
            roots'[j].cell \in cs /\ roots'[j].owed = 0 /\ roots'[j].saved = 0
  BY <1>1, RootsAre DEF SwapsRoots
<1>5. \A j \in DOMAIN roots' : j \notin DOMAIN roots => roots'[j].here
  <2>1. TAKE j \in DOMAIN roots'
  <2>2. HAVE j \notin DOMAIN roots
  <2>3. PICK k \in DOMAIN roots' : k \notin DOMAIN roots /\ roots'[k].cell = roots'[j].cell /\ roots'[k].here
    BY <1>1, <1>4, <2>2 DEF SwapsRoots
  <2>4. \A p, q \in DOMAIN roots' : p \notin DOMAIN roots /\ q \notin DOMAIN roots
                                      /\ roots'[p].cell = roots'[q].cell => p = q
    BY <1>1 DEF SwapsRoots
  <2>5. QED BY <2>2, <2>3, <2>4
<1>6. \A i : i \in Range(Staged(cs)) <=> i \in DOMAIN roots' /\ i \notin DOMAIN roots
  <2>1. \A i : i \in Len(roots) + 1 .. Len(roots) + Cardinality(cs)
                 <=> i \in 1 .. Len(roots) + Cardinality(cs) /\ i \notin 1 .. Len(roots)
    BY <1>0, <1>3
  <2>2. QED BY <1>0, <1>3, <1>4, <2>1
<1>7. Watching'
  <2>1. SUFFICES ASSUME NEW i \in DOMAIN roots', roots'[i].here PROVE i \in heard' \/ i \in Pending'
    BY DEF Watching
  <2>2. \A j : j \in Pending \/ j \in Range(w.left) => j \in Pending'
    BY <1>1 DEF Pending
  <2>3. CASE i \notin DOMAIN roots
    BY <1>6, <1>w, <2>2, <2>3
  <2>4. CASE i \in DOMAIN roots
    <3>1. (i \in heard \/ i \in Pending) /\ i \notin Old(a)
      BY <1>4, <2>1, <2>4 DEF Tracked, Watching
    <3>2. i # watched[d]
      <4>1. SUFFICES ASSUME i = watched[d] PROVE FALSE
        OBVIOUS
      <4>2. roots[i].cell = d
        BY <1>0, <1>1, <2>4, <4>1 DEF WorkInv, Connected
      <4>3. roots'[i].cell = roots'[first].cell /\ roots'[first].here /\ i # first
        BY <1>1, <1>4, <1>5, <2>4, <4>2 DEF d
      <4>4. QED BY <1>1, <2>1, <4>3 DEF Duplicates
    <3>3. QED BY <1>1, <2>2, <3>1, <3>2
  <2>5. QED BY <2>3, <2>4
<1>8. \A c : Clean(c) => Clean(c)'
  BY <1>4 DEF Clean, RootsOf
<1>9. \A c \in Cells : ~dirty'[c] => Clean(c)'
  BY <1>2, <1>8 DEF Tracked
<1>10. Walkers'
  <2>1. SUFFICES ASSUME NEW u \in walks', u.for = "apply" PROVE Walked(u)'
    BY DEF Walkers
  <2>2. u = w
    BY <1>1, <1>2, <2>1 DEF Applying
  <2>3. \A i \in Range(u.left) : roots'[i].here
    BY <1>5, <1>6, <1>w, <2>2
  <2>4. \A c \in u.cells : Clean(c)'
    BY <1>1, <1>2, <1>9, <1>w, <2>2 DEF Unedited
  <2>5. QED BY <1>3, <1>w, <2>2, <2>3, <2>4 DEF Walked
<1>11. ASSUME capture # Nil PROVE Taken'
  <2>1. Taken /\ capture.root \in DOMAIN roots
    BY <1>11 DEF Tracked, WorkInv, Capturing
  <2> DEFINE e == roots[capture.root].cell
  <2>2. roots'[capture.root].cell = e /\ roots'[capture.root].owed = roots[capture.root].owed
    BY <1>4, <2>1
  <2>3. capture.at = "serialize" => roots'[capture.root].here
    BY <1>2, <1>4, <1>11, <2>1 DEF Taken
  <2>4. ASSUME epoch[e] = capture.epoch
        PROVE  /\ capture.at = "serialize" => roots'[capture.root].owed <= capture.edits
               /\ capture.at \in {"upload", "proposal"} =>
                    \A j \in DOMAIN roots' : roots'[j].cell = e /\ roots'[j].here =>
                       \/ roots'[j].owed <= roots'[j].saved
                       \/ j = capture.root /\ roots'[j].owed <= capture.edits
    <3>1. capture.at = "serialize" => roots'[capture.root].owed <= capture.edits
      BY <2>1, <2>2, <2>4 DEF Taken
    <3>2. ASSUME capture.at \in {"upload", "proposal"},
                 NEW j \in DOMAIN roots', roots'[j].cell = e, roots'[j].here
          PROVE  \/ roots'[j].owed <= roots'[j].saved
                 \/ j = capture.root /\ roots'[j].owed <= capture.edits
      <4>1. CASE j \in DOMAIN roots
        <5>1. \A k \in RootsOf(e) : \/ roots[k].owed <= roots[k].saved
                                    \/ k = capture.root /\ roots[k].owed <= capture.edits
          BY <2>1, <2>4, <3>2 DEF Taken
        <5>2. j \in RootsOf(e)
          BY <1>4, <3>2, <4>1 DEF RootsOf
        <5>3. QED BY <1>4, <4>1, <5>1, <5>2
      <4>2. CASE j \notin DOMAIN roots
        BY <1>4, <4>2
      <4>3. QED BY <4>1, <4>2
    <3>3. QED BY <3>1, <3>2
  <2> HIDE DEF e
  <2>5. QED BY <1>2, <2>2, <2>3, <2>4 DEF Taken, RootsOf
<1>12. QED BY <1>2, <1>7, <1>9, <1>10, <1>11 DEF Tracked

LEMMA TrackedWalkOn ==
  ASSUME WorkInv, OneRootPerCell, ~recovery, Tracked, NEW w \in walks, WalkOn(w)
  PROVE  Tracked'
<1> DEFINE i == Head(w.left)
           n == Head(Tail(w.left))
           connections == [watched EXCEPT ![roots[i].cell] = i]
           gone == connections[roots[n].cell]
           v == [w EXCEPT !.left = Tail(@)]
<1>0. /\ roots \in Seq(Root) /\ watched \in [Cells -> 0 .. Len(roots)]
      /\ DOMAIN roots = 1 .. Len(roots) /\ Len(roots) \in Nat
  BY WorkFacts
<1>1. /\ w.left \in Seq(Nat) /\ w.left # <<>> /\ Tail(w.left) # <<>>
      /\ i \in DOMAIN roots /\ roots[i].cell \in Cells /\ Range(w.left) \subseteq DOMAIN roots
  BY WalkIs DEF WalkOn
<1>2. /\ UNCHANGED <<roots, epoch, dirty, capture>> /\ walks' = (walks \ {w}) \cup {v}
  BY DEF WalkOn, work
<1>3. /\ v.left = Tail(w.left) /\ v.for = w.for /\ v.cells = w.cells
      /\ Pending \subseteq Pending' \cup {i} /\ Range(v.left) \subseteq Pending'
  BY <1>1, <1>2, PassOn
<1>4. /\ n \in Range(v.left) /\ Range(v.left) \subseteq Range(w.left)
      /\ Tail(w.left) \in Seq(Nat) /\ w.left[1] = i /\ w.left[2] = n /\ {1, 2} \subseteq DOMAIN w.left
  <2>1. /\ Tail(w.left) \in Seq(Nat) /\ Range(w.left) = {i} \cup Range(Tail(w.left))
        /\ i = w.left[1] /\ 1 \in DOMAIN w.left /\ 2 \in DOMAIN w.left /\ n = w.left[2]
    BY <1>1, FirstAndRest
  <2>2. n \in Range(Tail(w.left))
    BY <1>1, <2>1, FirstAndRest
  <2> HIDE DEF i, n, v
  <2>3. QED BY <1>3, <2>1, <2>2
<1>5. IF w.for = "apply" THEN heard' = (heard \cup {i}) \ {gone} ELSE heard' = heard \cup {i}
  BY DEF WalkOn, Unwatch
<1>6. w.for = "apply" => Walked(w)
  BY DEF Tracked, Walkers
<1>7. w.for = "apply" /\ gone \in DOMAIN roots => roots[gone].cell = roots[n].cell
  <2>1. SUFFICES ASSUME gone \in DOMAIN roots PROVE roots[gone].cell = roots[n].cell
    OBVIOUS
  <2>2. roots[n].cell \in Cells
    BY <1>0, <1>1, <1>4, RootsAre
  <2>3. CASE roots[n].cell = roots[i].cell
    <3>1. gone = i
      BY <1>0, <1>1, <2>2, <2>3
    <3>2. QED BY <2>3, <3>1
  <2>4. CASE roots[n].cell # roots[i].cell
    <3>1. gone = watched[roots[n].cell] /\ gone # 0
      <4> HIDE DEF i, n
      <4>1. gone = watched[roots[n].cell]
        BY <1>0, <1>1, <2>2, <2>4
      <4> HIDE DEF gone
      <4>2. QED BY <1>0, <2>1, <4>1
    <3>2. QED BY <2>2, <3>1 DEF WorkInv, Connected
  <2>5. QED BY <2>3, <2>4
<1> HIDE DEF i, n, connections, gone, v
<1>8. Watching'
  <2>1. SUFFICES ASSUME NEW j \in DOMAIN roots, roots[j].here PROVE j \in heard' \/ j \in Pending'
    BY <1>2 DEF Watching
  <2>2. j \in heard \/ j \in Pending
    BY <2>1 DEF Tracked, Watching
  <2>3. CASE w.for # "apply" \/ j # gone
    BY <1>3, <1>5, <2>2, <2>3
  <2>4. CASE w.for = "apply" /\ j = gone
    <3>1. n \in RootsOf(roots[n].cell) /\ j \in RootsOf(roots[n].cell)
      BY <1>1, <1>4, <1>6, <1>7, <2>1, <2>4 DEF Walked, RootsOf
    <3>2. j = n
      BY <3>1, OneHere
    <3>3. QED BY <1>3, <1>4, <3>2
  <2>5. QED BY <2>3, <2>4
<1>9. \A c : Clean(c)' <=> Clean(c)
  BY <1>2 DEF Clean, RootsOf
<1>10. Walkers'
  <2>1. SUFFICES ASSUME NEW u \in walks', u.for = "apply" PROVE Walked(u)'
    BY DEF Walkers
  <2>2. CASE u \in walks
    BY <1>2, <1>9, <2>1, <2>2 DEF Tracked, Walkers, Walked
  <2>3. CASE u = v
    <3>1. Walked(w) /\ u.left = Tail(w.left) /\ u.cells = w.cells
      BY <1>3, <1>6, <2>1, <2>3
    <3>2. \A k, l \in DOMAIN u.left : u.left[k] = u.left[l] => k = l
      <4>1. /\ Len(w.left) \in Nat \ {0} /\ DOMAIN w.left = 1 .. Len(w.left)
            /\ Len(u.left) = Len(w.left) - 1 /\ DOMAIN u.left = 1 .. Len(w.left) - 1
        BY <1>1, <1>4, <3>1, EmptySeq, LenProperties, HeadTailProperties
      <4>2. \A k \in 1 .. Len(w.left) - 1 : u.left[k] = w.left[k + 1]
        BY <1>1, <3>1, <4>1, HeadTailProperties
      <4>3. TAKE k, l \in DOMAIN u.left
      <4>4. HAVE u.left[k] = u.left[l]
      <4>5. k + 1 \in DOMAIN w.left /\ l + 1 \in DOMAIN w.left /\ w.left[k + 1] = w.left[l + 1]
        BY <4>1, <4>2, <4>4
      <4>6. k + 1 = l + 1
        BY <3>1, <4>5 DEF Walked
      <4>7. QED BY <4>1, <4>6
    <3>3. \A j \in Range(u.left) : roots'[j].here
      BY <1>2, <1>3, <1>4, <3>1 DEF Walked
    <3>4. QED BY <1>9, <3>1, <3>2, <3>3 DEF Walked
  <2>4. QED BY <1>2, <2>1, <2>2, <2>3
<1>11. /\ \A c \in Cells : ~dirty'[c] => Clean(c)'
       /\ capture' # Nil => Taken'
  BY <1>2, <1>9 DEF Tracked, Taken, RootsOf
<1>12. QED BY <1>8, <1>10, <1>11 DEF Tracked

\* Where a walk ends its last root is watched.
LEMMA LastWatching ==
  ASSUME WorkInv, Watching, SameRoots, NEW w \in walks, NEW kind, LastWatched(w, kind)
  PROVE  Watching'
<1>1. /\ Pending \subseteq Pending' \cup {Head(w.left)} /\ heard' = heard \cup {Head(w.left)}
  BY PassLast DEF LastWatched
<1>2. QED BY <1>1 DEF Watching, SameRoots

LEMMA TrackedWalkEnds ==
  ASSUME WorkInv, Tracked, NEW w \in walks, LoadEnds(w) \/ RegistrationEnds(w) \/ ApplyEnds(w)
  PROVE  Tracked'
<1>0. /\ roots \in Seq(Root) /\ epoch \in [Cells -> Nat] /\ dirty \in [Cells -> BOOLEAN]
      /\ \A j \in DOMAIN roots : roots[j].saved \in Nat
  BY WorkFacts, RootsAre
<1>1. /\ SameRoots /\ capture' = capture
      /\ \A j \in DOMAIN roots : roots'[j].saved = roots[j].saved
  BY WalkingRoots
<1>2. PICK kind : LastWatched(w, kind)
  BY DEF LoadEnds, RegistrationEnds, ApplyEnds
<1>3. Watching' /\ walks' \subseteq walks
  BY <1>1, <1>2, LastWatching DEF LastWatched, Tracked
<1>4. Applying => \A j \in DOMAIN roots : roots'[j].owed = roots[j].owed
  BY RegisteredRoot DEF LoadEnds, ApplyEnds
<1>5. Walkers'
  BY <1>0, <1>1, <1>3, <1>4, StillWalked DEF Tracked
<1>6. ASSUME NEW c \in Cells
      PROVE  \/ dirty'[c] /\ epoch'[c] = epoch[c] + 1
             \/ /\ dirty[c] => dirty'[c] \/ Clean(c)
                /\ epoch[c] <= epoch'[c] /\ epoch'[c] \in Nat
                /\ \A j \in DOMAIN roots : roots[j].cell = c => roots'[j].owed = roots[j].owed
  <2>1. CASE LoadEnds(w)
    <3>1. UNCHANGED <<roots, epoch, dirty>>
      BY <2>1 DEF LoadEnds
    <3>2. QED BY <1>0, <3>1
  <2>2. CASE ApplyEnds(w)
    <3>1. UNCHANGED <<roots, epoch>> /\ (dirty[c] => dirty'[c] \/ c \in w.cells)
      BY <1>0, <2>2 DEF ApplyEnds
    <3>2. \A d \in w.cells : Clean(d)
      BY <2>2 DEF ApplyEnds, LastWatched, Tracked, Walkers, Walked
    <3>3. QED BY <1>0, <3>1, <3>2
  <2>3. CASE RegistrationEnds(w)
    <3> DEFINE i == Head(w.left)
               d == roots[i].cell
    <3>1. d \in Cells /\ Mark(d)
      BY <2>3, WalkIs DEF RegistrationEnds
    <3>2. /\ KeepsMarks /\ \A e \in Cells : dirty[e] => dirty'[e]
          /\ ~suppressed => epoch' = [epoch EXCEPT ![d] = @ + 1] /\ dirty' = [dirty EXCEPT ![d] = TRUE]
      BY <3>1, MarkTracks
    <3>3. /\ \A j \in DOMAIN roots : j # i => roots'[j] = roots[j]
          /\ roots'[i].owed = roots[i].owed \/ ~Applying
      BY <2>3, RegisteredRoot
    <3> HIDE DEF i, d
    <3>4. CASE c = d /\ ~Applying
      <4>1. ~suppressed
        BY <3>4 DEF WorkInv, Connected
      <4>2. QED BY <1>0, <3>1, <3>2, <3>4, <4>1
    <3>5. CASE c # d \/ Applying
      <4>1. \A j \in DOMAIN roots : roots[j].cell = c => roots'[j].owed = roots[j].owed
        BY <3>3, <3>5 DEF d
      <4>2. QED BY <3>2, <4>1 DEF KeepsMarks
    <3>6. QED BY <3>4, <3>5
  <2>4. QED BY <2>1, <2>2, <2>3
<1>7. /\ \A c \in Cells : ~dirty'[c] => Clean(c)'
      /\ capture' # Nil => Taken'
  BY <1>1, <1>6, StillClean
<1>8. QED BY <1>3, <1>5, <1>7 DEF Tracked

LEMMA TrackedRollback ==
  ASSUME WorkInv, Tracked, NEW a, RolledBack(a)
  PROVE  Tracked'
<1>1. UNCHANGED <<roots, epoch, dirty, heard, walks, capture>>
  BY DEF RolledBack, work
<1>2. \A c : Clean(c)' <=> Clean(c)
  BY <1>1 DEF Clean, RootsOf
<1>3. Watching' /\ Walkers'
  BY <1>1, <1>2 DEF Tracked, Watching, Pending, Walkers, Walked
<1>4. QED BY <1>1, <1>2, <1>3 DEF Tracked, Taken, RootsOf

LEMMA TrackedReload ==
  ASSUME WorkInv, OneRootPerCell, ~recovery, Reload
  PROVE  Tracked'
<1>0. roots \in Seq(Root)
  BY WorkFacts
<1>1. SameRoots /\ \A j \in DOMAIN roots : roots'[j].owed = 0
  BY <1>0, AllForgotten DEF Reload
<1>2. walks' = LoadWalk /\ capture' = Nil
  BY DEF Reload
<1>3. Watching'
  BY <1>0, <1>1, <1>2, LoadFindsAll DEF Watching, Pending, SameRoots
<1>4. Walkers'
  BY <1>0, <1>2, LoadIs DEF Walkers
<1>5. \A c \in Cells : Clean(c)'
  <2>1. \A j \in DOMAIN roots' : roots'[j].owed = 0 /\ roots'[j].saved \in Nat
    BY <1>1, RootsAre DEF SameRoots
  <2>2. QED BY <2>1 DEF Clean, RootsOf
<1>6. QED BY <1>2, <1>3, <1>4, <1>5 DEF Tracked

LEMMA TrackedStep ==
  ASSUME PluginAssumption, WorkInv, OneRootPerCell, TrackedInv, [PluginNext]_pluginVars
  PROVE  TrackedInv'
<1>1. CASE UNCHANGED place
  BY <1>1, TrackedQuietly, TrackedCapture
<1>2. CASE ~UNCHANGED place
  <2>1. SUFFICES ASSUME ~recovery', ~crossed' PROVE Tracked'
    BY DEF TrackedInv
  <2>2. \/ Edits \/ (\E c \in Cells : RegisterSelection(c)) \/ Saves
        \/ (\E a \in applies : ApplySwaps(a)) \/ Rollbacks \/ Walking \/ Reload
    BY <1>2, <2>1, StepCases DEF Replacing, Swapping, RecordingFails, RollbackFails
  <2>3. ~recovery /\ ~crossed
    <3>1. ASSUME Edits \/ (\E c \in Cells : RegisterSelection(c)) \/ Saves \/ Rollbacks \/ Reload
          PROVE  recovery' = recovery /\ crossed' = crossed
      BY <3>1, Zenon DEF Edits, EditInstance, RegisterSelection, Saves, Proposed, Accepted,
                         Rollbacks, RolledBack, Reload, lapses
    <3>2. ASSUME Walking PROVE recovery' = recovery /\ crossed' = crossed
      BY <3>2, WalkingRoots DEF Walking
    <3>3. ASSUME NEW a \in applies, ApplySwaps(a)
          PROVE  recovery' = recovery /\ (crossed => crossed')
      BY <3>3 DEF ApplySwaps
    <3>4. QED BY <2>1, <2>2, <3>1, <3>2, <3>3
  <2>4. Tracked
    BY <2>3 DEF TrackedInv
  <2>5. QED
    BY <2>1, <2>2, <2>3, <2>4, TrackedEdit, TrackedSelection, TrackedSave, TrackedApply,
       TrackedRollback, TrackedWalkOn, TrackedWalkEnds, TrackedReload
       DEF Edits, Rollbacks, Walking
<1>3. QED BY <1>1, <1>2

\* The inductive invariant.
LEMMA PluginInvariant ==
  ASSUME PluginAssumption
  PROVE  PluginSpec => [](WorkInv /\ OneRootPerCell /\ TrackedInv)
<1>1. PluginInit => WorkInv /\ OneRootPerCell /\ TrackedInv
  BY WorkInit, OneRootInit, TrackedInit
<1>2. WorkInv /\ OneRootPerCell /\ TrackedInv /\ [PluginNext]_pluginVars
        => (WorkInv /\ OneRootPerCell /\ TrackedInv)'
  BY WorkStep, OneRootStep, TrackedStep
<1>3. QED BY <1>1, <1>2, PTL DEF PluginSpec

-----------------------------------------------------------------------------
(* What an apply may replace *)

\* Roots leave the place by an apply only.
LEMMA OnlyAppliesReplace ==
  ASSUME WorkInv, PluginAssumption, [PluginNext]_pluginVars, NEW i \in DOMAIN roots,
         roots[i].here, ~roots'[i].here
  PROVE  Replacing
<1>0. roots \in Seq(Root)
  BY WorkFacts
<1>1. CASE UNCHANGED place
  BY <1>1 DEF place
<1>2. CASE Edits \/ Saves \/ Walking
  BY <1>2, EditedRoot, SavedRoot, WalkingRoots DEF Edits, Walking, SameRoots
<1>3. ASSUME NEW c \in Cells, RegisterSelection(c) PROVE FALSE
  BY <1>0, <1>3, OneMore DEF RegisterSelection
<1>4. CASE Rollbacks \/ Reload
  BY <1>0, <1>4, AllForgotten DEF Rollbacks, RolledBack, Reload, SameRoots
<1>5. QED BY <1>1, <1>2, <1>3, <1>4, StepCases

\* The root an apply takes out is the one its cell had when the apply was started, and what
\* comes into the place is new and of that apply.
LEMMA Replaced ==
  ASSUME WorkInv, PluginAssumption, NEW a \in applies,
         Swapping(a),
         NEW i \in DOMAIN roots, roots[i].here, ~roots'[i].here
  PROVE  /\ roots[i].cell \in Cells /\ ~dirty[roots[i].cell] /\ roots[i].by <= a.id
         /\ \A j \in DOMAIN roots : roots'[j].cell = roots[j].cell /\ roots'[j].by = roots[j].by
                                    /\ (roots'[j].here => roots[j].here)
         /\ \A j \in DOMAIN roots' : j \notin DOMAIN roots => roots'[j].by = a.id
<1>0. roots \in Seq(Root) /\ Proper(a)
  BY WorkFacts DEF WorkInv
<1>1. PICK out, cs : /\ roots' = Swapped(a, out, cs) /\ cs \subseteq DOMAIN a.old
                     /\ out = {a.old[c] : c \in cs} \ {0} /\ Unedited(a)
  BY AppliesSwap DEF Swaps
<1>2. SwapsRoots(a, out, cs)
  <2>1. a.id \in Nat /\ cs \subseteq Cells
    BY <1>0, <1>1 DEF Proper
  <2>2. QED BY <1>0, <1>1, <2>1, RootsSwapped
<1>3. i \in out
  BY <1>2 DEF SwapsRoots
<1>4. PICK c \in cs : a.old[c] = i /\ i # 0
  BY <1>1, <1>3
<1>5. roots[i].cell = c /\ roots[i].by <= a.id /\ c \in Cells
  BY <1>0, <1>1, <1>4 DEF Proper, Replaces
<1>6. ~dirty[c]
  BY <1>1, <1>4 DEF Unedited
<1>7. QED BY <1>2, <1>5, <1>6 DEF SwapsRoots

\* Of every edit but those made while an apply was watching its new roots or before the root
\* was watched (studio_plugin.luau:383, :1616), and those below something the tracker does not
\* watch: an apply replaces no root with one that no revision holds, unless recovery-required
\* was reported or applies crossed with a serialization or with one another.  applyPending
\* looks at the tracker twice (:1528, :1579), and checkpointSelected accepts a cell as clean
\* only at the epoch of its bytes (:1285).
THEOREM DirtyNeverOverwrittenHolds == PluginSpec => DirtyNeverOverwritten
<1>1. PluginSpec => [](WorkInv /\ OneRootPerCell /\ TrackedInv)
  BY PluginAssumption, PluginInvariant
<1>2. ASSUME WorkInv, TrackedInv, [PluginNext]_pluginVars, ~recovery, ~crossed,
             NEW i \in DOMAIN roots, roots[i].here, ~roots'[i].here
      PROVE  roots[i].owed <= roots[i].saved
  <2>1. PICK a \in applies : Swapping(a)
    BY <1>2, PluginAssumption, OnlyAppliesReplace DEF Replacing
  <2>2. roots[i].cell \in Cells /\ ~dirty[roots[i].cell]
    BY <1>2, <2>1, PluginAssumption, Replaced
  <2>3. Clean(roots[i].cell)
    BY <1>2, <2>2 DEF TrackedInv, Tracked
  <2>4. QED BY <1>2, <2>3 DEF Clean, RootsOf
<1>3. WorkInv /\ OneRootPerCell /\ TrackedInv /\ [PluginNext]_pluginVars
        => [~recovery /\ ~crossed => \A i \in DOMAIN roots :
               roots[i].here /\ ~roots'[i].here => roots[i].owed <= roots[i].saved]_pluginVars
  BY <1>2
<1>4. QED BY <1>1, <1>3, PTL DEF PluginSpec, DirtyNeverOverwritten

\* However applies overlap, none puts an older command's root in the place of a newer one's:
\* each takes out only the roots its cells had when it was started (studio_plugin.luau:1521, :1569).
THEOREM NewestStaysHolds == PluginSpec => NewestStays
<1>1. PluginSpec => [](WorkInv /\ OneRootPerCell /\ TrackedInv)
  BY PluginAssumption, PluginInvariant
<1>2. ASSUME WorkInv, OneRootPerCell, [PluginNext]_pluginVars, ~recovery,
             NEW i \in DOMAIN roots, NEW j \in DOMAIN roots', roots[i].here, ~roots'[i].here,
             roots'[j].here, roots'[j].cell = roots[i].cell
      PROVE  roots'[j].by >= roots[i].by
  <2>1. PICK a \in applies : Swapping(a)
    BY <1>2, PluginAssumption, OnlyAppliesReplace DEF Replacing
  <2>2. /\ roots[i].by <= a.id
        /\ \A k \in DOMAIN roots : roots'[k].cell = roots[k].cell /\ roots'[k].by = roots[k].by
                                   /\ (roots'[k].here => roots[k].here)
        /\ \A k \in DOMAIN roots' : k \notin DOMAIN roots => roots'[k].by = a.id
    BY <1>2, <2>1, PluginAssumption, Replaced
  <2>3. CASE j \in DOMAIN roots
    <3>1. j = i
      BY <1>2, <2>2, <2>3, OneHere DEF RootsOf
    <3>2. QED BY <1>2, <3>1
  <2>4. CASE j \notin DOMAIN roots
    BY <2>2, <2>4
  <2>5. QED BY <2>3, <2>4
<1>3. WorkInv /\ OneRootPerCell /\ TrackedInv /\ [PluginNext]_pluginVars
        => [~recovery => \A i \in DOMAIN roots, j \in DOMAIN roots' :
          roots[i].here /\ ~roots'[i].here /\ roots'[j].here /\ roots'[j].cell = roots[i].cell
              => roots'[j].by >= roots[i].by]_pluginVars
  BY <1>2
<1>4. QED BY <1>1, <1>3, PTL DEF PluginSpec, NewestStays
=============================================================================
