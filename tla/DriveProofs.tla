---------------------------- MODULE DriveProofs ----------------------------
(***************************************************************************)
(* Proofs about the drive of one user (Drive): its types, that listings    *)
(* and cells agree, that no data is lost, and that no request throws, as   *)
(* long as nothing of what spoiled names has occurred.                     *)
(*                                                                         *)
(* The requests that run are then about different parts of the drive, no   *)
(* part above another.  Each request has a phase: what its next steps find *)
(* in the table, which cells no listing names for its sake (Orphan), and   *)
(* which listed paths have no cell for its sake (Wanting).  A step of one  *)
(* request changes nothing another one is about, but for listings that     *)
(* both are in; of a listing it changes its own entries only (Minds).      *)
(*                                                                         *)
(* The lemmas about a step are about cells c and requests R that are no    *)
(* variables, so that they can be used for both states of a step.          *)
(***************************************************************************)
EXTENDS Drive, SequenceTheorems, WellFoundedInduction, TLAPS

-----------------------------------------------------------------------------
(* Numbers and sequences.                                                  *)

(* A set of numbers has a least one.                                       *)
LEMMA MinIs ==
    ASSUME NEW S, S \subseteq Nat, S # {}
    PROVE  Min(S) \in S /\ \A j \in S : Min(S) <= j
<1> DEFINE Below == {p \in Nat \X Nat : p[1] < p[2]}
<1>1. IsWellFoundedOn(Below, Nat)
  BY NatLessThanWellFounded DEF OpToRel
<1> HIDE DEF Below
<1>2. PICK i \in S : \A j \in S : ~(<<j, i>> \in Below)
  BY <1>1, WFMin
<1>3. \A j \in S : ~(j < i)
  BY <1>2 DEF Below
<1>4. \A j \in S : i <= j
  BY <1>3
<1> QED BY <1>4 DEF Min

(* Sequences: one more at the end, one alone, one less, the rest of one.   *)
LEMMA AppendFacts ==
    ASSUME NEW S, NEW v \in Seq(S), NEW t \in S
    PROVE  /\ Append(v, t) \in Seq(S) /\ Len(v) \in Nat /\ Len(Append(v, t)) = Len(v) + 1
           /\ DOMAIN v = 1..Len(v) /\ DOMAIN Append(v, t) = 1..(Len(v) + 1)
           /\ \A i \in DOMAIN v : Append(v, t)[i] = v[i]
           /\ Append(v, t)[Len(v) + 1] = t /\ Append(v, t) # <<>>
OBVIOUS

LEMMA OneFacts ==
    ASSUME NEW S, NEW t \in S
    PROVE  /\ <<t>> \in Seq(S) /\ Len(<<t>>) = 1 /\ DOMAIN <<t>> = {1} /\ <<t>>[1] = t /\ <<t>> # <<>>
OBVIOUS

(* A sequence without its element k.                                       *)
LEMMA RemovedFacts ==
    ASSUME NEW S, NEW v \in Seq(S), NEW k \in 1..Len(v)
    PROVE  /\ RemoveAt(v, k) \in Seq(S) /\ Len(RemoveAt(v, k)) = Len(v) - 1
           /\ \A i \in 1..(k - 1) : RemoveAt(v, k)[i] = v[i]
           /\ \A i \in k..(Len(v) - 1) : RemoveAt(v, k)[i] = v[i + 1]
<1> DEFINE a == SubSeq(v, 1, k - 1)
           b == SubSeq(v, k + 1, Len(v))
<1>1. Len(v) \in Nat /\ k \in Nat
  OBVIOUS
<1>2. a \in Seq(S) /\ Len(a) = k - 1 /\ \A i \in 1..(k - 1) : a[i] = v[i]
  BY <1>1
<1>3. b \in Seq(S) /\ Len(b) = Len(v) - k /\ \A i \in 1..(Len(v) - k) : b[i] = v[i + k]
  BY <1>1
<1>4. RemoveAt(v, k) = a \o b
  BY DEF RemoveAt
<1> HIDE DEF a, b
<1>5. a \o b \in Seq(S) /\ Len(a \o b) = Len(v) - 1
  <2>1. a \o b \in Seq(S) /\ Len(a \o b) = Len(a) + Len(b)
    BY <1>2, <1>3, ConcatProperties
  <2>2. (k - 1) + (Len(v) - k) = Len(v) - 1
    BY <1>1
  <2> QED BY <2>1, <2>2, <1>2, <1>3
<1>6. ASSUME NEW i \in 1..(k - 1) PROVE (a \o b)[i] = v[i]
  <2>1. i \in 1..Len(a) /\ i \in 1..(Len(a) + Len(b))
    BY <1>1, <1>2, <1>3
  <2>2. (a \o b)[i] = a[i]
    BY <2>1, <1>2, <1>3
  <2> QED BY <2>2, <1>2
<1>7. ASSUME NEW i \in k..(Len(v) - 1) PROVE (a \o b)[i] = v[i + 1]
  <2>1. i \in 1..(Len(a) + Len(b)) /\ i > Len(a) /\ i - Len(a) = i - k + 1
    BY <1>1, <1>2, <1>3
  <2>2. (a \o b)[i] = b[i - Len(a)]
    BY <2>1, <1>2, <1>3
  <2>3. i - k + 1 \in 1..(Len(v) - k) /\ (i - k + 1) + k = i + 1
    BY <1>1
  <2> QED BY <2>1, <2>2, <2>3, <1>3
<1> QED BY <1>4, <1>5, <1>6, <1>7

LEMMA SuffixFacts ==
    ASSUME NEW S, NEW v \in Seq(S), NEW k \in 1..Len(v)
    PROVE  LET u == SubSeq(v, k, Len(v)) IN
           /\ u \in Seq(S) /\ Len(u) = Len(v) - k + 1 /\ u # <<>> /\ Head(u) = v[k]
           /\ \A i \in 1..Len(u) : u[i] = v[i + k - 1]
<1>1. Len(v) \in Nat /\ k \in Nat
  OBVIOUS
<1> DEFINE u == SubSeq(v, k, Len(v))
<1>2. u \in Seq(S) /\ Len(u) = Len(v) - k + 1 /\ \A i \in 1..(Len(v) - k + 1) : u[i] = v[k + i - 1]
  BY <1>1
<1> HIDE DEF u
<1>3. u # <<>>
  BY <1>1, <1>2
<1>4. 1 \in 1..(Len(v) - k + 1) /\ k + 1 - 1 = k
  BY <1>1
<1>5. Head(u) = v[k]
  BY <1>2, <1>3, <1>4
<1>6. \A i \in 1..Len(u) : u[i] = v[i + k - 1]
  BY <1>1, <1>2
<1> QED BY <1>2, <1>3, <1>5, <1>6 DEF u

-----------------------------------------------------------------------------
(* Paths.                                                                  *)

LEMMA PathFacts ==
    ASSUME NEW p \in Path
    PROVE  /\ p \in Seq(Name) /\ Len(p) \in Nat /\ Len(p) <= MaxDepth + 1
           /\ DOMAIN p = 1..Len(p) /\ \A i \in 1..Len(p) : p[i] \in Name
<1>1. PICK n \in 0..(MaxDepth + 1) : p \in [1..n -> Name]
  BY DEF Path
<1>2. n \in Nat /\ n <= MaxDepth + 1
  BY DriveAssumption
<1> QED BY <1>1, <1>2

LEMMA PathMade ==
    ASSUME NEW p \in Seq(Name), Len(p) <= MaxDepth + 1
    PROVE  p \in Path
<1>1. Len(p) \in 0..(MaxDepth + 1) /\ p \in [1..Len(p) -> Name]
  BY DriveAssumption
<1> QED BY <1>1 DEF Path

LEMMA RootIsPath == <<>> \in Path /\ Len(<<>>) = 0 /\ IsFolder(<<>>)
<1>1. <<>> \in Seq(Name) /\ Len(<<>>) = 0 /\ 0 <= MaxDepth + 1
  BY DriveAssumption
<1> QED BY <1>1, PathMade DEF IsFolder

LEMMA PathEqual ==
    ASSUME NEW p \in Path, NEW s \in Path, Len(p) = Len(s), \A i \in 1..Len(p) : p[i] = s[i]
    PROVE  p = s
BY PathFacts

(* A path is the path of its folder and a name.                            *)
LEMMA ParentFacts ==
    ASSUME NEW p \in Path, p # <<>>
    PROVE  /\ Parent(p) \in Path /\ Len(p) >= 1 /\ Len(Parent(p)) = Len(p) - 1
           /\ \A i \in 1..(Len(p) - 1) : Parent(p)[i] = p[i]
           /\ Last(p) \in Name /\ Last(p) = p[Len(p)]
<1>1. /\ p \in Seq(Name) /\ Len(p) \in Nat /\ Len(p) <= MaxDepth + 1 /\ MaxDepth \in Nat
      /\ \A i \in 1..Len(p) : p[i] \in Name
  BY PathFacts, DriveAssumption
<1>2. Len(p) >= 1
  BY <1>1
<1>3. Parent(p) = SubSeq(p, 1, Len(p) - 1)
  BY DEF Parent, Front
<1> DEFINE u == SubSeq(p, 1, Len(p) - 1)
<1>a. u \in Seq(Name) /\ Len(u) = Len(p) - 1 /\ \A i \in 1..(Len(p) - 1) : u[i] = p[i]
  <2>1. \A i \in 1..(Len(p) - 1) : p[i] \in Name
    BY <1>1, <1>2
  <2>2. Len(p) - 1 \in Int /\ 1 \in Int
    BY <1>1
  <2>3. /\ u \in Seq(Name) /\ Len(u) = (IF 1 <= Len(p) - 1 THEN Len(p) - 1 - 1 + 1 ELSE 0)
        /\ \A i \in 1..(Len(p) - 1 - 1 + 1) : u[i] = p[1 + i - 1]
    BY <2>1, <2>2, SubSeqProperties
  <2>4. Len(u) = Len(p) - 1
    <3>0. \A n \in Nat : n >= 1 => (IF 1 <= n - 1 THEN n - 1 - 1 + 1 ELSE 0) = n - 1
      OBVIOUS
    <3>1. (IF 1 <= Len(p) - 1 THEN Len(p) - 1 - 1 + 1 ELSE 0) = Len(p) - 1
      BY <3>0, <1>1, <1>2
    <3> QED BY <2>3, <3>1
  <2>6. \A i \in 1..(Len(p) - 1) : i \in 1..(Len(p) - 1 - 1 + 1) /\ 1 + i - 1 = i
    BY <1>1
  <2>5. \A i \in 1..(Len(p) - 1) : u[i] = p[i]
    BY <2>3, <2>6
  <2> QED BY <2>3, <2>4, <2>5
<1> HIDE DEF u
<1>4. /\ Parent(p) \in Seq(Name) /\ Len(Parent(p)) = Len(p) - 1
      /\ \A i \in 1..(Len(p) - 1) : Parent(p)[i] = p[i]
  BY <1>a, <1>3 DEF u
<1>5. Parent(p) \in Path
  BY <1>1, <1>4, PathMade
<1> QED BY <1>1, <1>2, <1>4, <1>5 DEF Last

LEMMA ChildFacts ==
    ASSUME NEW d \in Path, NEW n \in Name, Len(d) <= MaxDepth
    PROVE  LET p == d \o <<n>> IN
           /\ p \in Path /\ p # <<>> /\ Len(p) = Len(d) + 1 /\ Parent(p) = d /\ Last(p) = n
           /\ IsFolder(p) <=> n \in Dir
<1> DEFINE p == d \o <<n>>
<1>1. d \in Seq(Name) /\ Len(d) \in Nat /\ MaxDepth \in Nat
  BY PathFacts, DriveAssumption
<1>2. /\ p \in Seq(Name) /\ Len(p) = Len(d) + 1 /\ p[Len(d) + 1] = n
      /\ \A i \in 1..Len(d) : p[i] = d[i]
  BY <1>1
<1>4. p # <<>>
  BY <1>1, <1>2
<1> HIDE DEF p
<1>a. Len(p) <= MaxDepth + 1
  BY <1>1, <1>2
<1>3. p \in Path
  BY <1>2, <1>a, PathMade
<1>5. Last(p) = n
  BY <1>2 DEF Last
<1>6. Parent(p) = d
  <2>1. Parent(p) \in Path /\ Len(Parent(p)) = Len(p) - 1 /\ \A i \in 1..(Len(p) - 1) : Parent(p)[i] = p[i]
    BY <1>3, <1>4, ParentFacts
  <2>2. Len(p) - 1 = Len(d)
    BY <1>1, <1>2
  <2>3. \A i \in 1..Len(d) : Parent(p)[i] = d[i]
    BY <1>2, <2>1, <2>2
  <2> QED BY <2>1, <2>2, <2>3, PathEqual
<1>7. IsFolder(p) <=> n \in Dir
  BY <1>4, <1>5 DEF IsFolder
<1> QED BY <1>2, <1>3, <1>4, <1>5, <1>6, <1>7 DEF p

(* A path is its name in its folder.                                       *)
LEMMA ChildIs ==
    ASSUME NEW p \in Path, p # <<>>
    PROVE  p = Parent(p) \o <<Last(p)>>
<1>1. /\ Parent(p) \in Path /\ Len(Parent(p)) = Len(p) - 1 /\ Last(p) \in Name /\ Len(p) \in Nat
      /\ Len(p) >= 1 /\ Len(p) <= MaxDepth + 1 /\ Last(p) = p[Len(p)] /\ MaxDepth \in Nat
      /\ \A i \in 1..(Len(p) - 1) : Parent(p)[i] = p[i]
  BY ParentFacts, PathFacts, DriveAssumption
<1> DEFINE s == Parent(p) \o <<Last(p)>>
<1>2. Parent(p) \in Seq(Name) /\ Len(Parent(p)) <= MaxDepth
  BY <1>1, PathFacts
<1>3. s \in Path /\ Len(s) = Len(p)
  BY <1>1, <1>2, ChildFacts
<1>4. /\ \A i \in 1..(Len(p) - 1) : s[i] = p[i]
      /\ s[Len(p)] = p[Len(p)]
  BY <1>1, <1>2
<1> HIDE DEF s
<1>5. \A i \in 1..Len(p) : s[i] = p[i]
  <2> SUFFICES ASSUME NEW i \in 1..Len(p) PROVE s[i] = p[i]
    OBVIOUS
  <2>1. i \in 1..(Len(p) - 1) \/ i = Len(p)
    BY <1>1
  <2> QED BY <2>1, <1>4
<1>6. s = p
  BY <1>3, <1>5, PathEqual
<1> QED BY <1>6 DEF s

(* The entries of one folder differ by their names.                        *)
LEMMA SiblingsEqual ==
    ASSUME NEW p \in Path, NEW s \in Path, p # <<>>, s # <<>>, Parent(p) = Parent(s), Last(p) = Last(s)
    PROVE  p = s
BY ChildIs

(* Paths that begin like others.                                           *)
LEMMA PrefixIs ==
    ASSUME NEW p \in Path, NEW s \in Path
    PROVE  IsPrefix(p, s) <=> Len(p) <= Len(s) /\ \A i \in 1..Len(p) : p[i] = s[i]
<1>1. p \in Seq(Name) /\ s \in Seq(Name) /\ Len(p) \in Nat /\ Len(s) \in Nat
  BY PathFacts
<1> SUFFICES ASSUME Len(p) <= Len(s)
             PROVE  SubSeq(p, 1, Len(p)) = SubSeq(s, 1, Len(p)) <=> \A i \in 1..Len(p) : p[i] = s[i]
  BY DEF IsPrefix
<1> DEFINE u == SubSeq(p, 1, Len(p))
           w == SubSeq(s, 1, Len(p))
<1>2. u \in Seq(Name) /\ Len(u) = Len(p) /\ \A i \in 1..Len(p) : u[i] = p[i]
  BY <1>1
<1>3. w \in Seq(Name) /\ Len(w) = Len(p) /\ \A i \in 1..Len(p) : w[i] = s[i]
  BY <1>1
<1> HIDE DEF u, w
<1>4. u = w <=> \A i \in 1..Len(p) : u[i] = w[i]
  BY <1>1, <1>2, <1>3
<1>5. u = w <=> \A i \in 1..Len(p) : p[i] = s[i]
  BY <1>2, <1>3, <1>4
<1> QED BY <1>5 DEF u, w

LEMMA PrefixItself == ASSUME NEW p \in Path PROVE IsPrefix(p, p) /\ Related(p, p)
BY PathFacts, PrefixIs DEF Related

LEMMA PrefixParent == ASSUME NEW p \in Path, p # <<>> PROVE IsPrefix(Parent(p), p) /\ Parent(p) # p
<1>1. Len(Parent(p)) = Len(p) - 1 /\ Len(p) \in Nat /\ Parent(p) \in Path
  BY ParentFacts, PathFacts
<1> QED BY <1>1, ParentFacts, PathFacts, PrefixIs

LEMMA PrefixTransitive ==
    ASSUME NEW p \in Path, NEW s \in Path, NEW t \in Path, IsPrefix(p, s), IsPrefix(s, t)
    PROVE  IsPrefix(p, t)
BY PathFacts, PrefixIs

LEMMA PrefixComparable ==
    ASSUME NEW p \in Path, NEW s \in Path, NEW t \in Path, IsPrefix(p, t), IsPrefix(s, t)
    PROVE  Related(p, s)
<1>1. Len(p) \in Nat /\ Len(s) \in Nat
  BY PathFacts
<1>2. CASE Len(p) <= Len(s)
  <2>1. \A i \in 1..Len(p) : p[i] = s[i]
    BY <1>1, <1>2, PrefixIs
  <2> QED BY <1>2, <2>1, PrefixIs DEF Related
<1>3. CASE Len(s) <= Len(p)
  <2>1. \A i \in 1..Len(s) : s[i] = p[i]
    BY <1>1, <1>3, PrefixIs
  <2> QED BY <1>3, <2>1, PrefixIs DEF Related
<1> QED BY <1>1, <1>2, <1>3

(* A prefix of a path is the path or a prefix of its folder.               *)
LEMMA PrefixSteps ==
    ASSUME NEW p \in Path, NEW s \in Path, s # <<>>, IsPrefix(p, s), p # s
    PROVE  IsPrefix(p, Parent(s))
<1>1. /\ Len(p) <= Len(s) /\ \A i \in 1..Len(p) : p[i] = s[i]
      /\ Len(p) \in Nat /\ Len(s) \in Nat
  BY PathFacts, PrefixIs
<1>2. Len(p) # Len(s)
  BY <1>1, PathEqual
<1>3. /\ Parent(s) \in Path /\ Len(Parent(s)) = Len(s) - 1
      /\ \A i \in 1..(Len(s) - 1) : Parent(s)[i] = s[i]
  BY ParentFacts
<1>4. Len(p) <= Len(s) - 1 /\ \A i \in 1..Len(p) : p[i] = Parent(s)[i]
  BY <1>1, <1>2, <1>3
<1> QED BY <1>3, <1>4, PrefixIs

(* A path occurs in one of the same length only when it is that one.       *)
LEMMA OccursIs ==
    ASSUME NEW p \in Path, NEW t \in Path, Len(p) = Len(t)
    PROVE  Occurs(p, t) <=> p = t
<1>1. t \in Seq(Name) /\ Len(t) \in Nat
  BY PathFacts
<1>2. 0..(Len(t) - Len(p)) = {0}
  BY <1>1
<1>3. SubSeq(t, 0 + 1, 0 + Len(p)) = t
  BY <1>1
<1> QED BY <1>2, <1>3 DEF Occurs

-----------------------------------------------------------------------------
(* Listings.                                                               *)

Elems(v) == {v[i] : i \in DOMAIN v}
Paths(v) == {t \in Elems(v) : t \in Path}
Single(v) == \A i, j \in DOMAIN v : v[i] \in Path /\ v[i] = v[j] => i = j

(* v lists the folder p: nothing twice, nothing from another folder, and   *)
(* "../" except for the root.                                              *)
IsListing(v, p) ==
    /\ v \in Seq(Path \cup {Up, Blank}) /\ v # <<>>
    /\ Single(v)
    /\ \A t \in Paths(v) : t # <<>> /\ Parent(t) = p
    /\ p # <<>> <=> Up \in Elems(v)

IsCell(p, v) == IF IsFolder(p) THEN IsListing(v, p) ELSE \E d \in Content : v = <<d>>

(* "../", the blank and the error text are neither paths nor data.         *)
LEMMA Marks ==
    /\ Up \notin Path /\ Blank \notin Path /\ Err \notin Path
    /\ Up \notin Content /\ Blank \notin Content /\ Err \notin Content
    /\ Up # Blank /\ Up # Err /\ Blank # Err
    /\ \A d \in Content : d \notin Path
BY DriveAssumption

(* find() finds what a listing names, and in a listing nothing else.       *)
LEMMA FindsMember ==
    ASSUME NEW v, NEW p \in Path, p \in Elems(v)
    PROVE  Finds(v, p)
BY OccursIs DEF Finds, Elems

LEMMA FindsListed ==
    ASSUME NEW v, NEW p \in Path, p # <<>>, IsListing(v, Parent(p))
    PROVE  /\ Finds(v, p) <=> p \in Elems(v)
           /\ p \in Elems(v) => Place(v, p) \in DOMAIN v /\ v[Place(v, p)] = p
<1>1. \A i \in DOMAIN v : Occurs(p, v[i]) <=> v[i] = p
  <2> SUFFICES ASSUME NEW i \in DOMAIN v PROVE Occurs(p, v[i]) <=> v[i] = p
    OBVIOUS
  <2>1. CASE v[i] \notin Path
    BY <2>1 DEF Occurs
  <2>2. CASE v[i] \in Path
    <3>1. v[i] # <<>> /\ Parent(v[i]) = Parent(p)
      BY <2>2 DEF IsListing, Paths, Elems
    <3>2. Len(Parent(p)) = Len(p) - 1 /\ Len(Parent(p)) = Len(v[i]) - 1 /\ Len(p) \in Nat /\ Len(v[i]) \in Nat
      BY <2>2, <3>1, ParentFacts, PathFacts
    <3>3. Len(p) = Len(v[i])
      BY <3>2
    <3> QED BY <2>2, <3>3, OccursIs
  <2> QED BY <2>1, <2>2
<1>2. DOMAIN v \subseteq Nat
  BY DEF IsListing
<1>3. ASSUME p \in Elems(v) PROVE Place(v, p) \in DOMAIN v /\ v[Place(v, p)] = p
  <2> DEFINE S == {i \in DOMAIN v : Occurs(p, v[i])}
  <2>1. S \subseteq Nat /\ S # {}
    BY <1>1, <1>2, <1>3 DEF Elems
  <2>2. Min(S) \in S
    BY <2>1, MinIs
  <2> QED BY <1>1, <2>2 DEF Place
<1> QED BY <1>1, <1>3 DEF Finds, Elems

(* What append, the renaming, erase and the first entry make of a listing. *)
LEMMA AppendListing ==
    ASSUME NEW v, NEW p \in Path, p # <<>>, IsListing(v, Parent(p)), p \notin Elems(v)
    PROVE  /\ IsListing(Append(v, p), Parent(p))
           /\ Paths(Append(v, p)) = Paths(v) \cup {p}
<1> DEFINE u == Append(v, p)
           S == Path \cup {Up, Blank}
<1>1. v \in Seq(S) /\ p \in S
  BY DEF IsListing
<1>2. /\ u \in Seq(S) /\ Len(v) \in Nat /\ Len(u) = Len(v) + 1
      /\ DOMAIN v = 1..Len(v) /\ DOMAIN u = 1..(Len(v) + 1)
      /\ \A i \in DOMAIN v : u[i] = v[i]
      /\ u[Len(v) + 1] = p /\ u # <<>>
  BY <1>1, AppendFacts
<1> HIDE DEF u
<1>3. DOMAIN u = DOMAIN v \cup {Len(v) + 1}
  BY <1>2
<1>4. Elems(u) = Elems(v) \cup {p}
  BY <1>2, <1>3 DEF Elems
<1>5. Paths(u) = Paths(v) \cup {p}
  BY <1>4 DEF Paths
<1>6. Single(u)
  <2> SUFFICES ASSUME NEW i \in DOMAIN u, NEW j \in DOMAIN u, u[i] \in Path, u[i] = u[j] PROVE i = j
    BY DEF Single
  <2>1. \A k \in DOMAIN v : u[k] # p
    BY <1>2 DEF Elems
  <2>2. CASE i \in DOMAIN v /\ j \in DOMAIN v
    BY <1>2, <2>2 DEF IsListing, Single
  <2> QED BY <1>2, <1>3, <2>1, <2>2
<1>7. Up \in Elems(u) <=> Up \in Elems(v)
  BY <1>4, Marks
<1> QED BY <1>2, <1>5, <1>6, <1>7 DEF IsListing, u

LEMMA RenamedListing ==
    ASSUME NEW v, NEW p \in Path, p # <<>>, NEW n \in Path, n # <<>>, Parent(n) = Parent(p),
           IsListing(v, Parent(p)), p \in Elems(v), n \notin Elems(v)
    PROVE  /\ IsListing(Renamed(v, p, n), Parent(p))
           /\ Paths(Renamed(v, p, n)) = (Paths(v) \ {p}) \cup {n}
<1> DEFINE u == Renamed(v, p, n)
           S == Path \cup {Up, Blank}
<1>1. PICK k \in DOMAIN v : k = Place(v, p) /\ v[k] = p
  BY FindsListed
<1>2. v \in Seq(S)
  BY DEF IsListing
<1>3. u = [v EXCEPT ![k] = n]
  BY <1>1 DEF Renamed
<1>4. /\ u \in Seq(S) /\ DOMAIN u = DOMAIN v /\ u[k] = n /\ u # <<>>
      /\ \A i \in DOMAIN v : i # k => u[i] = v[i]
  BY <1>1, <1>2, <1>3
<1> HIDE DEF u
<1>5. \A i \in DOMAIN v : i # k => v[i] # p
  BY <1>1 DEF IsListing, Single
<1>6. Elems(u) = (Elems(v) \ {p}) \cup {n}
  <2>1. Elems(u) \subseteq (Elems(v) \ {p}) \cup {n}
    BY <1>4, <1>5 DEF Elems
  <2>2. Elems(v) \ {p} \subseteq Elems(u)
    BY <1>1, <1>4 DEF Elems
  <2>3. n \in Elems(u)
    BY <1>4 DEF Elems
  <2> QED BY <2>1, <2>2, <2>3
<1>7. Paths(u) = (Paths(v) \ {p}) \cup {n}
  BY <1>6 DEF Paths
<1>8. Single(u)
  <2> SUFFICES ASSUME NEW i \in DOMAIN u, NEW j \in DOMAIN u, u[i] \in Path, u[i] = u[j] PROVE i = j
    BY DEF Single
  <2>1. \A m \in DOMAIN v : v[m] # n
    BY DEF Elems
  <2>2. CASE i # k /\ j # k
    BY <1>4, <2>2 DEF IsListing, Single
  <2> QED BY <1>4, <2>1, <2>2
<1>9. Up \in Elems(u) <=> Up \in Elems(v)
  BY <1>6, Marks
<1> QED BY <1>4, <1>7, <1>8, <1>9 DEF IsListing, u

LEMMA ErasedListing ==
    ASSUME NEW v, NEW p \in Path, p # <<>>, IsListing(v, Parent(p)), p \in Elems(v)
    PROVE  /\ IsListing(Erased(v, p), Parent(p))
           /\ Paths(Erased(v, p)) = Paths(v) \ {p}
<1> DEFINE u == Erased(v, p)
           S == Path \cup {Up, Blank}
<1>1. PICK k \in DOMAIN v : k = Place(v, p) /\ v[k] = p
  BY FindsListed
<1>2. v \in Seq(S) /\ Len(v) \in Nat /\ DOMAIN v = 1..Len(v)
  BY DEF IsListing
<1>5. \A i \in DOMAIN v : i # k => v[i] # p
  BY <1>1 DEF IsListing, Single
<1>6. CASE Len(v) = 1
  <2>1. u = <<Blank>>
    BY <1>1, <1>6 DEF Erased
  <2>2. Elems(v) = {p}
    BY <1>1, <1>2, <1>6 DEF Elems
  <2>3. Parent(p) = <<>>
    BY <2>2, Marks DEF IsListing
  <2>4. u \in Seq(S) /\ u # <<>> /\ DOMAIN u = {1} /\ u[1] = Blank
    BY <2>1
  <2>5. Elems(u) = {Blank} /\ Paths(u) = {} /\ Single(u)
    BY <2>4, Marks DEF Elems, Paths, Single
  <2>6. Paths(v) \ {p} = {}
    BY <2>2 DEF Paths
  <2>7. Up \notin Elems(u)
    BY <2>5, Marks
  <2> QED BY <2>3, <2>4, <2>5, <2>6, <2>7 DEF IsListing
<1>7. CASE Len(v) # 1
  <2>1. u = RemoveAt(v, k)
    BY <1>1, <1>7 DEF Erased
  <2>2. k \in 1..Len(v) /\ Len(v) > 1
    BY <1>1, <1>2, <1>7
  <2>3. /\ u \in Seq(S) /\ Len(u) = Len(v) - 1
        /\ \A i \in 1..(k - 1) : u[i] = v[i]
        /\ \A i \in k..(Len(v) - 1) : u[i] = v[i + 1]
    BY <1>2, <2>1, <2>2, RemovedFacts
  <2> HIDE DEF u
  <2>4. DOMAIN u = 1..(Len(v) - 1) /\ u # <<>>
    BY <1>2, <2>2, <2>3
  <2>5. \A i \in DOMAIN u : \/ i \in 1..(k - 1) /\ i \in DOMAIN v /\ i # k
                            \/ i \in k..(Len(v) - 1) /\ i + 1 \in DOMAIN v /\ i + 1 # k
    BY <1>2, <2>2, <2>4
  <2>6. \A i \in DOMAIN v : i # k => (i \in 1..(k - 1) /\ i \in DOMAIN u)
                                      \/ (i - 1 \in k..(Len(v) - 1) /\ i - 1 \in DOMAIN u /\ (i - 1) + 1 = i)
    BY <1>2, <2>2, <2>4
  <2>7. Elems(u) = Elems(v) \ {p}
    <3>1. \A i \in DOMAIN u : u[i] \in Elems(v) \ {p}
      BY <1>5, <2>3, <2>5 DEF Elems
    <3>2. \A i \in DOMAIN v : v[i] # p => v[i] \in Elems(u)
      <4> SUFFICES ASSUME NEW i \in DOMAIN v, v[i] # p PROVE v[i] \in Elems(u)
        OBVIOUS
      <4>1. i # k
        BY <1>1
      <4>2. CASE i \in 1..(k - 1) /\ i \in DOMAIN u
        BY <2>3, <4>2 DEF Elems
      <4>3. CASE i - 1 \in k..(Len(v) - 1) /\ i - 1 \in DOMAIN u /\ (i - 1) + 1 = i
        <5>1. u[i - 1] = v[i]
          BY <2>3, <4>3
        <5> QED BY <4>3, <5>1 DEF Elems
      <4> QED BY <2>6, <4>1, <4>2, <4>3
    <3> QED BY <3>1, <3>2 DEF Elems
  <2>8. Paths(u) = Paths(v) \ {p}
    BY <2>7 DEF Paths
  <2>9. Single(u)
    <3> SUFFICES ASSUME NEW i \in DOMAIN u, NEW j \in DOMAIN u, u[i] \in Path, u[i] = u[j] PROVE i = j
      BY DEF Single
    <3>1. PICK a \in DOMAIN v : u[i] = v[a] /\ (i < k => a = i) /\ (i >= k => a = i + 1)
      BY <2>2, <2>3, <2>5
    <3>2. PICK b \in DOMAIN v : u[j] = v[b] /\ (j < k => b = j) /\ (j >= k => b = j + 1)
      BY <2>2, <2>3, <2>5
    <3>3. a = b
      BY <3>1, <3>2 DEF IsListing, Single
    <3>4. i \in Nat /\ j \in Nat /\ k \in Nat
      BY <1>2, <2>2, <2>4
    <3> QED BY <3>1, <3>2, <3>3, <3>4
  <2>10. Up \in Elems(u) <=> Up \in Elems(v)
    BY <2>7, Marks
  <2> QED BY <2>3, <2>4, <2>8, <2>9, <2>10 DEF IsListing, u
<1> QED BY <1>6, <1>7

LEMMA FirstListing ==
    ASSUME NEW p \in Path, p # <<>>, Parent(p) = <<>>
    PROVE  IsListing(<<p>>, <<>>) /\ Paths(<<p>>) = {p}
<1> DEFINE u == <<p>>
<1>1. /\ u \in Seq(Path \cup {Up, Blank}) /\ u # <<>> /\ DOMAIN u = {1} /\ u[1] = p
  OBVIOUS
<1> HIDE DEF u
<1>2. Elems(u) = {p} /\ Paths(u) = {p} /\ Single(u)
  BY <1>1 DEF Elems, Paths, Single
<1>3. Up \notin Elems(u)
  BY <1>2, Marks
<1> QED BY <1>1, <1>2, <1>3 DEF IsListing, u

(* The listing a new folder is stored with.                                *)
LEMMA EmptyListing ==
    ASSUME NEW p, p # <<>>
    PROVE  IsListing(<<Up>>, p) /\ Paths(<<Up>>) = {}
<1> DEFINE u == <<Up>>
<1>1. /\ u \in Seq(Path \cup {Up, Blank}) /\ u # <<>> /\ DOMAIN u = {1} /\ u[1] = Up
  OBVIOUS
<1> HIDE DEF u
<1>2. Elems(u) = {Up} /\ Paths(u) = {} /\ Single(u)
  BY <1>1, Marks DEF Elems, Paths, Single
<1> QED BY <1>1, <1>2 DEF IsListing, u

(* A listing is neither an error nor the data of a file.                   *)
LEMMA ListingIsNot ==
    ASSUME NEW v, NEW p, IsListing(v, p)
    PROVE  v # <<Err>> /\ (\A d \in Content : v # <<d>>) /\ (p # <<>> => v # <<Blank>>)
<1>1. DOMAIN v = 1..Len(v) /\ v \in Seq(Path \cup {Up, Blank}) /\ v # <<>>
  BY DEF IsListing
<1>2. v[1] \in Path \cup {Up, Blank}
  BY <1>1
<1>3. \A t : v = <<t>> => v[1] = t /\ Elems(v) = {t}
  BY DEF Elems
<1> QED BY <1>2, <1>3, Marks DEF IsListing

-----------------------------------------------------------------------------
(* Moving the files of a folder.                                           *)

Into(d, k) == d \o <<Last(k)>>
Renewed(d, v) == [i \in DOMAIN v |-> CASE v[i] = Up -> Up [] IsFile(v[i]) -> Into(d, v[i])
                                       [] OTHER -> Blank]

(* The path a file gets in a renamed folder, and the new listing of the    *)
(* folder.                                                                 *)
LEMMA IntoFacts ==
    ASSUME NEW d \in Path, Len(d) <= MaxDepth, NEW k \in Path, k # <<>>
    PROVE  /\ Into(d, k) \in Path /\ Into(d, k) # <<>> /\ Parent(Into(d, k)) = d
           /\ Last(Into(d, k)) = Last(k) /\ (IsFolder(Into(d, k)) <=> IsFolder(k))
<1>1. Last(k) \in Name
  BY ParentFacts
<1>2. IsFolder(k) <=> Last(k) \in Dir
  BY DEF IsFolder
<1> QED BY <1>1, <1>2, ChildFacts DEF Into

LEMMA IntoInjective ==
    ASSUME NEW d \in Path, Len(d) <= MaxDepth, NEW k \in Path, k # <<>>, NEW m \in Path, m # <<>>,
           Parent(k) = Parent(m), Into(d, k) = Into(d, m)
    PROVE  k = m
<1>1. Last(k) = Last(m)
  BY IntoFacts
<1> QED BY <1>1, SiblingsEqual

LEMMA RenewedListing ==
    ASSUME NEW d \in Path, d # <<>>, Len(d) <= MaxDepth, NEW s \in Path, s # <<>>, NEW v, IsListing(v, s),
           \A t \in Paths(v) : ~IsFolder(t)
    PROVE  IsListing(Renewed(d, v), d) /\ Paths(Renewed(d, v)) = {Into(d, k) : k \in Paths(v)}
<1> DEFINE u == Renewed(d, v)
           S == Path \cup {Up, Blank}
<1>1. v \in Seq(S) /\ Len(v) \in Nat /\ DOMAIN v = 1..Len(v) /\ v # <<>>
  BY DEF IsListing
<1>2. \A i \in DOMAIN v : v[i] \in S /\ (v[i] \in Path => v[i] \in Paths(v))
  BY <1>1 DEF Paths, Elems
<1>3. \A t \in Paths(v) : t \in Path /\ t # <<>> /\ Parent(t) = s /\ IsFile(t)
  BY DEF IsListing, Paths, IsFile, IsEntry
<1>4. \A i \in DOMAIN v : u[i] = IF v[i] = Up THEN Up ELSE IF v[i] \in Path THEN Into(d, v[i]) ELSE Blank
  <2> SUFFICES ASSUME NEW i \in DOMAIN v
               PROVE  u[i] = IF v[i] = Up THEN Up ELSE IF v[i] \in Path THEN Into(d, v[i]) ELSE Blank
    OBVIOUS
  <2>1. v[i] # Up => (IsFile(v[i]) <=> v[i] \in Path)
    BY <1>2, <1>3 DEF IsFile, IsEntry
  <2>2. u[i] = CASE v[i] = Up -> Up [] IsFile(v[i]) -> Into(d, v[i]) [] OTHER -> Blank
    BY DEF Renewed
  <2>3. CASE v[i] = Up
    <3>1. ~IsFile(v[i])
      BY <2>3, Marks DEF IsFile, IsEntry
    <3> QED BY <2>2, <2>3, <3>1
  <2>4. CASE v[i] # Up /\ v[i] \in Path
    BY <2>1, <2>2, <2>4
  <2>5. CASE v[i] # Up /\ v[i] \notin Path
    BY <2>1, <2>2, <2>5
  <2> QED BY <2>3, <2>4, <2>5
<1>5. \A i \in DOMAIN v : /\ u[i] \in S
                          /\ u[i] \in Path <=> v[i] \in Path
                          /\ u[i] = Up <=> v[i] = Up
                          /\ v[i] \in Path => u[i] = Into(d, v[i]) /\ u[i] # <<>> /\ Parent(u[i]) = d
  BY <1>2, <1>3, <1>4, IntoFacts, Marks
<1>6. DOMAIN u = DOMAIN v
  BY DEF Renewed
<1> HIDE DEF u
<1>7. u \in Seq(S) /\ u # <<>>
  <2>1. u = [i \in 1..Len(v) |-> u[i]]
    BY <1>1, <1>6 DEF u, Renewed
  <2>2. u \in [1..Len(v) -> S]
    BY <1>1, <1>5, <1>6, <2>1
  <2>3. u \in Seq(S)
    BY <1>1, <2>2
  <2>4. Len(v) > 0
    BY <1>1
  <2> QED BY <1>1, <1>6, <2>3, <2>4
<1>8. Single(u)
  <2> SUFFICES ASSUME NEW i \in DOMAIN u, NEW j \in DOMAIN u, u[i] \in Path, u[i] = u[j] PROVE i = j
    BY DEF Single
  <2>1. v[i] \in Path /\ v[j] \in Path /\ Into(d, v[i]) = Into(d, v[j])
    BY <1>5, <1>6
  <2>2. v[i] = v[j]
    BY <1>2, <1>3, <1>6, <2>1, IntoInjective
  <2> QED BY <1>6, <2>1, <2>2 DEF IsListing, Single
<1>9. Paths(u) = {Into(d, k) : k \in Paths(v)}
  <2>1. \A t \in Paths(u) : \E k \in Paths(v) : t = Into(d, k)
    BY <1>2, <1>5, <1>6 DEF Paths, Elems
  <2>2. \A k \in Paths(v) : Into(d, k) \in Paths(u)
    BY <1>2, <1>5, <1>6 DEF Paths, Elems
  <2> QED BY <2>1, <2>2
<1>10. \A t \in Paths(u) : t # <<>> /\ Parent(t) = d
  BY <1>3, <1>9, IntoFacts
<1>11. Up \in Elems(u)
  <2>1. Up \in Elems(v)
    BY DEF IsListing
  <2> QED BY <1>5, <1>6, <2>1 DEF Elems
<1> QED BY <1>7, <1>8, <1>9, <1>10, <1>11 DEF IsListing, u

(* What is left of a listing from its next file on.                        *)
LEMMA KidsFacts ==
    ASSUME NEW S, NEW v \in Seq(S), NEW q
    PROVE  LET u == Kids(q, v) IN
           /\ u \in Seq(S)
           /\ Single(v) => Single(u)
           /\ Elems(u) \subseteq Elems(v)
           /\ \A t \in Elems(v) : IsFile(t) => t \in Elems(u)
           /\ u # <<>> => IsFile(Head(u)) /\ Head(u) \in Elems(v)
<1> DEFINE u == Kids(q, v)
           files == {i \in DOMAIN v : IsFile(v[i])}
<1>1. Len(v) \in Nat /\ DOMAIN v = 1..Len(v)
  OBVIOUS
<1>2. CASE files = {}
  <2>1. u = <<>>
    BY <1>2 DEF Kids
  <2>2. u \in Seq(S) /\ DOMAIN u = {}
    BY <2>1
  <2>3. Single(u) /\ Elems(u) = {}
    BY <2>2 DEF Single, Elems
  <2>4. \A t \in Elems(v) : ~IsFile(t)
    BY <1>2 DEF Elems
  <2> QED BY <2>1, <2>2, <2>3, <2>4
<1>3. CASE files # {}
  <2>1. PICK k \in DOMAIN v : k = Min(files) /\ IsFile(v[k]) /\ \A j \in DOMAIN v : IsFile(v[j]) => k <= j
    <3>1. files \subseteq Nat
      BY <1>1
    <3> QED BY <1>3, <3>1, MinIs
  <2>2. u = SubSeq(v, k, Len(v))
    BY <1>3, <2>1 DEF Kids
  <2>a. k \in 1..Len(v)
    BY <1>1, <2>1
  <2> HIDE DEF u
  <2>3. /\ u \in Seq(S) /\ Len(u) = Len(v) - k + 1 /\ u # <<>> /\ Head(u) = v[k]
        /\ \A i \in 1..Len(u) : u[i] = v[i + k - 1]
    BY <2>a, <2>2, SuffixFacts
  <2>4. DOMAIN u = 1..(Len(v) - k + 1) /\ k \in 1..Len(v)
    BY <1>1, <2>1, <2>3
  <2>5. \A i \in DOMAIN u : u[i] = v[i + k - 1] /\ i + k - 1 \in DOMAIN v
    BY <1>1, <2>3, <2>4
  <2>6. Elems(u) \subseteq Elems(v)
    BY <2>5 DEF Elems
  <2>7. ASSUME Single(v) PROVE Single(u)
    <3> SUFFICES ASSUME NEW i \in DOMAIN u, NEW j \in DOMAIN u, u[i] \in Path, u[i] = u[j] PROVE i = j
      BY DEF Single
    <3>1. i + k - 1 = j + k - 1
      BY <2>5, <2>7 DEF Single
    <3> QED BY <1>1, <2>4, <3>1
  <2>8. \A t \in Elems(v) : IsFile(t) => t \in Elems(u)
    <3> SUFFICES ASSUME NEW j \in DOMAIN v, IsFile(v[j]) PROVE v[j] \in Elems(u)
      BY DEF Elems
    <3>1. j >= k /\ j \in Nat
      BY <1>1, <2>1
    <3>2. j - k + 1 \in DOMAIN u /\ (j - k + 1) + k - 1 = j
      BY <1>1, <2>4, <3>1
    <3>3. u[j - k + 1] = v[j]
      BY <2>5, <3>2
    <3> QED BY <3>2, <3>3 DEF Elems
  <2>9. IsFile(Head(u)) /\ Head(u) \in Elems(v)
    BY <2>1, <2>3 DEF Elems
  <2> QED BY <2>3, <2>6, <2>7, <2>8, <2>9 DEF u
<1> QED BY <1>2, <1>3

(* The loop leaves the first file of what is before it.                    *)
LEMMA RestFacts ==
    ASSUME NEW S, NEW v \in Seq(S), v # <<>>, Single(v), Head(v) \in Path
    PROVE  Tail(v) \in Seq(S) /\ Single(Tail(v)) /\ Paths(Tail(v)) = Paths(v) \ {Head(v)}
<1> DEFINE u == Tail(v)
<1>1. /\ Len(v) \in Nat /\ DOMAIN v = 1..Len(v) /\ u \in Seq(S) /\ Len(u) = Len(v) - 1 /\ Head(v) = v[1]
      /\ \A i \in 1..(Len(v) - 1) : u[i] = v[i + 1]
  BY HeadTailProperties
<1>2. Len(v) >= 1
  BY <1>1
<1> HIDE DEF u
<1>3. DOMAIN u = 1..(Len(v) - 1)
  BY <1>1, <1>2
<1>4. \A i \in DOMAIN u : i + 1 \in DOMAIN v /\ u[i] = v[i + 1] /\ i + 1 # 1
  BY <1>1, <1>2, <1>3
<1>5. \A j \in DOMAIN v : j = 1 \/ (j - 1 \in DOMAIN u /\ (j - 1) + 1 = j)
  BY <1>1, <1>2, <1>3
<1>6. Single(u)
  <2> SUFFICES ASSUME NEW i \in DOMAIN u, NEW j \in DOMAIN u, u[i] \in Path, u[i] = u[j] PROVE i = j
    BY DEF Single
  <2>1. i + 1 = j + 1
    BY <1>4 DEF Single
  <2> QED BY <1>1, <1>3, <2>1
<1>7. Paths(u) = Paths(v) \ {v[1]}
  <2>1. \A i \in DOMAIN u : u[i] \in Path => u[i] \in Paths(v) \ {v[1]}
    <3> SUFFICES ASSUME NEW i \in DOMAIN u, u[i] \in Path PROVE u[i] \in Paths(v) \ {v[1]}
      OBVIOUS
    <3>1. 1 \in DOMAIN v
      BY <1>1, <1>2
    <3>2. u[i] # v[1]
      BY <1>4, <3>1 DEF Single
    <3> QED BY <1>4, <3>2 DEF Paths, Elems
  <2>2. \A j \in DOMAIN v : v[j] # v[1] => v[j] \in Elems(u)
    <3> SUFFICES ASSUME NEW j \in DOMAIN v, v[j] # v[1] PROVE v[j] \in Elems(u)
      OBVIOUS
    <3>1. j - 1 \in DOMAIN u /\ (j - 1) + 1 = j
      BY <1>5
    <3>2. u[j - 1] = v[j]
      BY <1>4, <3>1
    <3> QED BY <3>1, <3>2 DEF Elems
  <2> QED BY <2>1, <2>2 DEF Paths, Elems
<1> QED BY <1>1, <1>6, <1>7 DEF u

-----------------------------------------------------------------------------
(* The invariant.                                                          *)

Busy(x) == x.pc \notin {"none", "done", "thrown"} /\ x.op \in Op \ {"list", "download"}

(* Two requests are about different parts of the drive.                    *)
Clear(x, y) == \A p \in {x.src, x.dst}, s \in {y.src, y.dst} : ~Related(p, s)
Kin(x, p)   == IsPrefix(x.src, p) \/ IsPrefix(x.dst, p)

Listed(c, p) == p # <<>> /\ Parent(p) \in DOMAIN c /\ p \in Elems(c[Parent(p)])

(* The files of a folder that is renamed: all, those before the loop, and  *)
(* those it has moved.                                                     *)
All(c, x)   == Paths(c[x.src])
Rest(x)     == Paths(x.left)
Gone(c, x)  == All(c, x) \ Rest(x)
Moved(x, k) == Into(x.dst, k)

Looping    == {"kid", "kiddrop", "kidput"}
Hanging(x) == x.pc \in {"to", "putto", "fetch", "drop"} \cup Looping
Carries(x) == x.op = "rename" /\ x.pc \in Looping \cup {"drop"} /\ IsFolder(x.src)

(* A cell no listing names, for which the request x answers.               *)
Orphan(c, x, p) ==
    \/ Hanging(x) /\ p = x.src
    \/ Carries(x) /\ \E k \in Gone(c, x) : p = Moved(x, k)
    \/ x.op \in {"rename", "move"} /\ x.pc = "store" /\ IsFolder(x.src) /\ p \in Paths(x.data)

(* A listed path without a cell, for which the request x answers.          *)
Wanting(c, x, p) ==
    \/ /\ \/ x.op \in {"rename", "move"} /\ x.pc \in {"fetch", "drop", "store"} \cup Looping
          \/ x.op \in {"upload", "mkdir"} /\ x.pc = "store"
       /\ p = x.dst
    \/ Carries(x) /\ (p \in Gone(c, x) \/ (x.pc = "kidput" /\ p = Head(x.left)))

Shape(x) ==
    /\ x.op \in {"upload", "mkdir", "delete", "rename", "move"}
    /\ {x.src, x.dst} \subseteq Asked \ {<<>>}
    /\ IsFolder(x.src) <=> IsFolder(x.dst)
    /\ IsFolder(Parent(x.src)) /\ IsFolder(Parent(x.dst))
    /\ x.op \in {"upload", "mkdir", "delete"} => x.dst = x.src
    /\ x.op = "rename" => Parent(x.dst) = Parent(x.src)
    /\ x.op = "move" /\ Parent(x.dst) = Parent(x.src) => x.dst = x.src
    /\ x.op = "upload" => ~IsFolder(x.src)
    /\ x.op = "mkdir" => IsFolder(x.src)
    /\ x.op \in {"upload", "mkdir"} => x.pc \in {"own", "put", "store"} /\ x.data = <<>>
    /\ x.op = "delete" => x.pc \in {"own", "put", "drop"}
    /\ x.op = "rename" => x.pc \in {"own", "put", "fetch", "drop", "store"} \cup Looping
    /\ x.op = "move" => x.pc \in {"own", "put", "to", "putto", "fetch", "drop", "store"}
    /\ x.pc \in Looping => IsFolder(x.src)

Prepared(x) ==
    \/ /\ x.op \in {"upload", "mkdir"}
       /\ \/ x.seen = <<Err>> /\ x.fids = <<x.src>>
          \/ x.seen # <<Err>> /\ ~Finds(x.seen, x.src) /\ x.fids = Append(x.seen, x.src)
    \/ x.op \in {"delete", "move"} /\ x.fids = Erased(x.seen, x.src)
    \/ x.op = "rename" /\ ~Finds(x.seen, x.dst) /\ x.fids = Renamed(x.seen, x.src, x.dst)

Begun(c, x) ==
    \/ x.op \in {"upload", "mkdir"} /\ (Parent(x.src) # <<>> => Parent(x.src) \in DOMAIN c)
    \/ /\ x.op \in {"delete", "rename", "move"}
       /\ Listed(c, x.src) /\ x.src \in DOMAIN c
       /\ x.op = "delete" /\ IsFolder(x.src) => All(c, x) = {}
       /\ x.op = "move" => Parent(x.dst) \in DOMAIN c

Erasing(c, x) ==
    /\ x.src \in DOMAIN c /\ ~Listed(c, x.src)
    /\ Parent(x.dst) # <<>> \/ Parent(x.src) # <<>> => Parent(x.dst) \in DOMAIN c
    /\ Parent(x.src) # <<>> => Parent(x.src) \in DOMAIN c

Halfway(c, x) ==
    /\ x.src \in DOMAIN c /\ Listed(c, x.dst)
    /\ x.op = "rename" => x.dst # x.src
    /\ x.dst # x.src => ~Listed(c, x.src) /\ x.dst \notin DOMAIN c

Loop(c, x) ==
    /\ x.left \in Seq(Path \cup {Up, Blank}) /\ Single(x.left)
    /\ Rest(x) \subseteq All(c, x)
    /\ \A k \in All(c, x) : ~IsFolder(k)
    /\ IsListing(x.data, x.dst) /\ Paths(x.data) = {Moved(x, k) : k \in All(c, x)}
    /\ \A k \in Gone(c, x) : Moved(x, k) \in DOMAIN c /\ k \notin DOMAIN c
    /\ \A k \in Rest(x) : k \in DOMAIN c <=> ~(x.pc = "kidput" /\ k = Head(x.left))

InLoop(c, x) ==
    /\ x.left # <<>> /\ Head(x.left) \in Rest(x)
    /\ x.pc = "kiddrop" => x.kid = c[Head(x.left)]
    /\ x.pc = "kidput" => \E d \in Content : x.kid = <<d>>

Phase(c, x) ==
    /\ Shape(x)
    /\ x.pc \in {"own", "put"} => Begun(c, x)
    /\ x.pc = "put" => Prepared(x)
    /\ x.pc \in {"to", "putto"} => Erasing(c, x)
    /\ x.pc = "putto" => x.fids = Append(x.seen, x.dst) /\ x.seen # <<Err>>
    /\ x.pc \in {"fetch", "drop"} \cup Looping /\ x.op # "delete" => Halfway(c, x)
    /\ x.pc = "drop" /\ x.op = "delete" =>
         x.src \in DOMAIN c /\ ~Listed(c, x.src) /\ (IsFolder(x.src) => All(c, x) = {})
    /\ x.pc \in Looping => Loop(c, x) /\ InLoop(c, x)
    /\ x.pc = "drop" /\ x.op # "delete" =>
         IF IsFolder(x.src) THEN Loop(c, x) /\ x.left = <<>> /\ (x.op = "move" => All(c, x) = {})
                            ELSE x.data = c[x.src]
    /\ x.pc = "store" => Listed(c, x.dst) /\ x.dst \notin DOMAIN c
    /\ x.pc = "store" /\ x.op \in {"rename", "move"} =>
         IF IsFolder(x.src) THEN IsListing(x.data, x.dst) /\ \A t \in Paths(x.data) : t \in DOMAIN c
                            ELSE \E d \in Content : x.data = <<d>>

CellInv(c)     == \A p \in DOMAIN c : p \in Path /\ IsCell(p, c[p])
ApartInv(R)    == \A q, o \in Request : q # o /\ Busy(R[q]) /\ Busy(R[o]) => Clear(R[q], R[o])
PhaseInv(c, R) == \A q \in Request : Busy(R[q]) => Phase(c, R[q])
OwnedInv(c, R) == \A p \in DOMAIN c : p # <<>> =>
                     Listed(c, p) \/ \E q \in Request : Busy(R[q]) /\ Orphan(c, R[q], p)
KnownInv(c, R) == \A p \in Path : Listed(c, p) =>
                     p \in DOMAIN c \/ \E q \in Request : Busy(R[q]) /\ Wanting(c, R[q], p)

Good(c, R) == /\ CellInv(c) /\ ApartInv(R) /\ PhaseInv(c, R)
              /\ OwnedInv(c, R) /\ KnownInv(c, R)

-----------------------------------------------------------------------------
(* Parts of the drive.                                                     *)
ShapePaths(x) == x.src \in Path /\ x.dst \in Path /\ x.src # <<>> /\ x.dst # <<>>

LEMMA PhasePaths ==
    ASSUME NEW c, NEW x, Phase(c, x)
    PROVE  ShapePaths(x) /\ Len(x.src) <= MaxDepth /\ Len(x.dst) <= MaxDepth
BY DEF Phase, Shape, ShapePaths, Asked

(* Two requests that are about different parts of the drive.               *)
LEMMA KinApart ==
    ASSUME NEW x, NEW y, ShapePaths(x), ShapePaths(y), Clear(x, y), NEW p \in Path, Kin(y, p)
    PROVE  ~Related(p, x.src) /\ ~Related(p, x.dst) /\ ~Kin(x, p)
<1>1. \A a, b \in Path : IsPrefix(b, p) /\ ~Related(a, b) => ~Related(p, a)
  BY PrefixTransitive, PrefixComparable DEF Related
<1> QED BY <1>1 DEF Clear, Kin, Related, ShapePaths

LEMMA KinAbove ==
    ASSUME NEW x, NEW y, ShapePaths(x), ShapePaths(y), Clear(x, y), NEW p \in Path,
           IsPrefix(p, y.src) \/ IsPrefix(p, y.dst)
    PROVE  ~Kin(x, p)
BY PrefixTransitive DEF Clear, Kin, Related, ShapePaths

LEMMA ClearSym == ASSUME NEW x, NEW y, Clear(x, y) PROVE Clear(y, x)
BY DEF Clear, Related

LEMMA Below ==
    ASSUME NEW a \in Path, NEW p \in Path, p # <<>>, IsPrefix(a, Parent(p))
    PROVE  IsPrefix(a, p) /\ p # a
<1>1. IsPrefix(Parent(p), p) /\ Parent(p) \in Path /\ Len(p) \in Nat /\ Len(Parent(p)) = Len(p) - 1
  BY PrefixParent, ParentFacts, PathFacts
<1>2. Len(a) <= Len(Parent(p))
  BY <1>1, PrefixIs
<1>3. Len(a) # Len(p)
  BY <1>1, <1>2, PathFacts
<1> QED BY <1>1, <1>3, PrefixTransitive

-----------------------------------------------------------------------------
(* What a step on other paths leaves alone.                                *)
Same(c, c2, p) == (p \in DOMAIN c2 <=> p \in DOMAIN c) /\ (p \in DOMAIN c => c2[p] = c[p])

(* What is in the cell of a folder and of a file.                          *)
LEMMA FolderCell ==
    ASSUME NEW c, CellInv(c), NEW p \in DOMAIN c
    PROVE  /\ p \in Path
           /\ IsFolder(p) => IsListing(c[p], p) /\ \A t \in Paths(c[p]) : t \in Path /\ t # <<>> /\ Parent(t) = p
           /\ ~IsFolder(p) => (\E d \in Content : c[p] = <<d>>) /\ Paths(c[p]) = {}
<1>1. p \in Path /\ IsCell(p, c[p])
  BY DEF CellInv
<1>2. \A d \in Content : Paths(<<d>>) = {}
  BY Marks DEF Paths, Elems
<1> QED BY <1>1, <1>2 DEF IsCell, IsListing, Paths

(* What is listed is listed in its folder.                                 *)
LEMMA ListedFacts ==
    ASSUME NEW c, CellInv(c), NEW p \in Path
    PROVE  Listed(c, p) => /\ p # <<>> /\ Parent(p) \in DOMAIN c /\ p \in Paths(c[Parent(p)])
                           /\ IsFolder(Parent(p))
BY FolderCell DEF Listed, Paths

(* The entries of a folder and their new paths are below what the request  *)
(* is about.                                                               *)
LEMMA AllKin ==
    ASSUME NEW c, CellInv(c), NEW x, Shape(x), x.src \in DOMAIN c, NEW k \in All(c, x)
    PROVE  /\ k \in Path /\ k # <<>> /\ Parent(k) = x.src /\ IsPrefix(x.src, k) /\ k # x.src
           /\ Moved(x, k) \in Path /\ Moved(x, k) # <<>> /\ Parent(Moved(x, k)) = x.dst
           /\ IsPrefix(x.dst, Moved(x, k)) /\ Moved(x, k) # x.dst
           /\ IsFolder(Moved(x, k)) <=> IsFolder(k)
<1>1. k \in Path /\ k # <<>> /\ Parent(k) = x.src
  BY FolderCell DEF All
<1>2. x.dst \in Path /\ Len(x.dst) <= MaxDepth
  BY DEF Shape, Asked
<1>3. Moved(x, k) \in Path /\ Moved(x, k) # <<>> /\ Parent(Moved(x, k)) = x.dst
      /\ (IsFolder(Moved(x, k)) <=> IsFolder(k))
  BY <1>1, <1>2, IntoFacts DEF Moved
<1> QED BY <1>1, <1>3, PrefixParent

(* What a request answers for is below the two paths it is about.          *)
LEMMA OrphanKin ==
    ASSUME NEW c, CellInv(c), NEW x, Phase(c, x), NEW p \in Path
    PROVE  Orphan(c, x, p) \/ Wanting(c, x, p) => Kin(x, p)
<1>1. ShapePaths(x)
  BY PhasePaths
<1>2. IsPrefix(x.src, x.src) /\ IsPrefix(x.dst, x.dst)
  BY <1>1, PrefixItself DEF ShapePaths
<1>3. ASSUME Carries(x)
      PROVE  /\ \A k \in Gone(c, x) : Kin(x, k) /\ Kin(x, Moved(x, k))
             /\ x.pc = "kidput" => Kin(x, Head(x.left))
  <2>1. x.src \in DOMAIN c /\ Shape(x)
    BY <1>3 DEF Carries, Phase, Halfway, Looping
  <2>2. \A k \in All(c, x) : Kin(x, k) /\ Kin(x, Moved(x, k))
    BY <2>1, AllKin DEF Kin
  <2>3. x.pc = "kidput" => Head(x.left) \in All(c, x)
    BY DEF Phase, Loop, InLoop, Looping
  <2> QED BY <2>2, <2>3 DEF Gone
<1>4. x.pc = "store" /\ x.op \in {"rename", "move"} /\ IsFolder(x.src) => \A t \in Paths(x.data) : Kin(x, t)
  <2>1. x.pc = "store" /\ x.op \in {"rename", "move"} /\ IsFolder(x.src) => IsListing(x.data, x.dst)
    BY DEF Phase
  <2>2. \A t \in Path : t # <<>> /\ Parent(t) = x.dst => Kin(x, t)
    BY PrefixParent DEF Kin
  <2> QED BY <2>1, <2>2 DEF IsListing, Paths
<1>5. Orphan(c, x, p) => Kin(x, p)
  BY <1>2, <1>3, <1>4 DEF Orphan, Kin
<1>6. Wanting(c, x, p) => Kin(x, p)
  BY <1>2, <1>3 DEF Wanting, Kin
<1> QED BY <1>5, <1>6

(* A file is on its way to the root, from another folder or not taken out  *)
(* of its listing yet.                                                     *)
NeedsRoot(y) == /\ Parent(y.dst) = <<>>
                /\ \/ y.pc \in {"own", "put"}
                   \/ y.pc \in {"to", "putto"} /\ Parent(y.src) # <<>>

(* A step that leaves the cells of a request, its places in the listings   *)
(* and the folders it is about alone leaves its phase alone.               *)
Untouched(c, c2, y) ==
    /\ \A p \in Path : Kin(y, p) => Same(c, c2, p)
    /\ Listed(c2, y.src) <=> Listed(c, y.src)
    /\ Listed(c2, y.dst) <=> Listed(c, y.dst)
    /\ \A p \in {Parent(y.src), Parent(y.dst)} : p # <<>> /\ p \in DOMAIN c => p \in DOMAIN c2
    /\ y.op = "move" /\ NeedsRoot(y) => Parent(y.dst) \in DOMAIN c2

(* A step that leaves alone what a request is about keeps its phase.       *)
LEMMA AllKept ==
    ASSUME NEW c, NEW c2, NEW y, ShapePaths(y), Untouched(c, c2, y), y.src \in DOMAIN c
    PROVE  /\ All(c2, y) = All(c, y) /\ Gone(c2, y) = Gone(c, y)
           /\ y.src \in DOMAIN c2 /\ c2[y.src] = c[y.src]
<1>1. Kin(y, y.src) /\ y.src \in Path
  BY PrefixItself DEF Kin, ShapePaths
<1>2. y.src \in DOMAIN c2 /\ c2[y.src] = c[y.src]
  BY <1>1 DEF Untouched, Same
<1> QED BY <1>2 DEF All, Gone

LEMMA LoopKept ==
    ASSUME NEW c, CellInv(c), NEW c2, NEW y, Shape(y), Untouched(c, c2, y),
           y.src \in DOMAIN c, Loop(c, y)
    PROVE  Loop(c2, y)
<1>1. ShapePaths(y)
  BY DEF Shape, ShapePaths, Asked
<1>2. All(c2, y) = All(c, y) /\ Gone(c2, y) = Gone(c, y)
  BY <1>1, AllKept
<1>3. \A k \in All(c, y) : k \in Path /\ Moved(y, k) \in Path /\ Kin(y, k) /\ Kin(y, Moved(y, k))
  BY AllKin DEF Kin
<1>4. \A k \in All(c, y) : Same(c, c2, k) /\ Same(c, c2, Moved(y, k))
  BY <1>3 DEF Untouched
<1>5. Rest(y) \subseteq All(c, y)
  BY DEF Loop
<1>6. Paths(y.data) = {Moved(y, k) : k \in All(c2, y)}
  BY <1>2 DEF Loop
<1>7. \A k \in Gone(c2, y) : Moved(y, k) \in DOMAIN c2 /\ k \notin DOMAIN c2
  BY <1>2, <1>4 DEF Loop, Gone, Same
<1>8. \A k \in Rest(y) : k \in DOMAIN c2 <=> ~(y.pc = "kidput" /\ k = Head(y.left))
  BY <1>4, <1>5 DEF Loop, Same
<1> QED BY <1>2, <1>5, <1>6, <1>7, <1>8 DEF Loop

LEMMA InLoopKept ==
    ASSUME NEW c, CellInv(c), NEW c2, NEW y, Shape(y), Untouched(c, c2, y),
           y.src \in DOMAIN c, Loop(c, y), InLoop(c, y)
    PROVE  InLoop(c2, y)
<1>1. Head(y.left) \in All(c, y)
  BY DEF Loop, InLoop
<1>2. Head(y.left) \in Path /\ Kin(y, Head(y.left))
  BY <1>1, AllKin DEF Kin
<1>3. Same(c, c2, Head(y.left))
  BY <1>2 DEF Untouched
<1>4. y.pc = "kiddrop" => Head(y.left) \in DOMAIN c
  BY DEF Loop, InLoop
<1> QED BY <1>3, <1>4 DEF InLoop, Same

LEMMA PhaseKept ==
    ASSUME NEW c, CellInv(c), NEW c2, NEW y, Phase(c, y), Untouched(c, c2, y)
    PROVE  Phase(c2, y)
<1>1. Shape(y) /\ ShapePaths(y)
  BY PhasePaths DEF Phase
<1>2. /\ Parent(y.src) \in Path /\ Parent(y.dst) \in Path
      /\ Kin(y, y.src) /\ Kin(y, y.dst) /\ y.src \in Path /\ y.dst \in Path
  BY <1>1, ParentFacts, PrefixItself DEF ShapePaths, Kin
<1>3. Same(c, c2, y.src) /\ Same(c, c2, y.dst)
  BY <1>2 DEF Untouched
<1>4. y.src \in DOMAIN c => All(c2, y) = All(c, y)
  BY <1>1, AllKept
<1>5. y.pc \in {"own", "put"} => Begun(c2, y)
  <2> SUFFICES ASSUME y.pc \in {"own", "put"} PROVE Begun(c2, y)
    OBVIOUS
  <2>1. Begun(c, y)
    BY DEF Phase
  <2>2. y.op = "move" /\ Parent(y.dst) \in DOMAIN c => Parent(y.dst) \in DOMAIN c2
    BY DEF Untouched, NeedsRoot
  <2> QED BY <2>1, <2>2, <1>3, <1>4 DEF Begun, Same, Untouched
<1>6. y.pc \in {"to", "putto"} => Erasing(c2, y)
  <2> SUFFICES ASSUME y.pc \in {"to", "putto"} PROVE Erasing(c2, y)
    OBVIOUS
  <2>1. Erasing(c, y)
    BY DEF Phase
  <2>2. y.op = "move"
    BY <1>1 DEF Shape, Looping
  <2>3. Parent(y.dst) # <<>> \/ Parent(y.src) # <<>> => Parent(y.dst) \in DOMAIN c2
    BY <2>1, <2>2 DEF Untouched, Erasing, NeedsRoot
  <2> QED BY <2>1, <2>3, <1>3 DEF Erasing, Same, Untouched
<1>7. y.pc \in {"fetch", "drop"} \cup Looping /\ y.op # "delete" => Halfway(c2, y)
  BY <1>3 DEF Phase, Halfway, Same, Untouched
<1>8. y.pc = "drop" /\ y.op = "delete" =>
         y.src \in DOMAIN c2 /\ ~Listed(c2, y.src) /\ (IsFolder(y.src) => All(c2, y) = {})
  BY <1>3, <1>4 DEF Phase, Same, Untouched
<1>9. y.pc \in Looping => Loop(c2, y) /\ InLoop(c2, y)
  <2> SUFFICES ASSUME y.pc \in Looping PROVE Loop(c2, y) /\ InLoop(c2, y)
    OBVIOUS
  <2>1. Loop(c, y) /\ InLoop(c, y)
    BY DEF Phase
  <2>2. y.src \in DOMAIN c
    BY <1>1 DEF Phase, Shape, Looping, Halfway
  <2> QED BY <1>1, <2>1, <2>2, LoopKept, InLoopKept
<1>10. y.pc = "drop" /\ y.op # "delete" =>
         IF IsFolder(y.src) THEN Loop(c2, y) /\ y.left = <<>> /\ (y.op = "move" => All(c2, y) = {})
                            ELSE y.data = c2[y.src]
  <2> SUFFICES ASSUME y.pc = "drop", y.op # "delete"
               PROVE  IF IsFolder(y.src)
                        THEN Loop(c2, y) /\ y.left = <<>> /\ (y.op = "move" => All(c2, y) = {})
                        ELSE y.data = c2[y.src]
    OBVIOUS
  <2>1. y.src \in DOMAIN c
    BY DEF Phase, Halfway
  <2>2. CASE IsFolder(y.src)
    <3>1. Loop(c, y) /\ y.left = <<>> /\ (y.op = "move" => All(c, y) = {})
      BY <2>2 DEF Phase
    <3> QED BY <1>1, <1>4, <2>1, <2>2, <3>1, LoopKept
  <2>3. CASE ~IsFolder(y.src)
    <3>1. y.data = c[y.src]
      BY <2>3 DEF Phase
    <3> QED BY <1>3, <2>1, <2>3, <3>1 DEF Same
  <2> QED BY <2>2, <2>3
<1>11. y.pc = "store" => Listed(c2, y.dst) /\ y.dst \notin DOMAIN c2
  BY <1>3 DEF Phase, Same, Untouched
<1>12. y.pc = "store" /\ y.op \in {"rename", "move"} =>
         IF IsFolder(y.src) THEN IsListing(y.data, y.dst) /\ \A t \in Paths(y.data) : t \in DOMAIN c2
                            ELSE \E d \in Content : y.data = <<d>>
  <2> SUFFICES ASSUME y.pc = "store", y.op \in {"rename", "move"}, IsFolder(y.src)
               PROVE  IsListing(y.data, y.dst) /\ \A t \in Paths(y.data) : t \in DOMAIN c2
    BY DEF Phase
  <2>1. IsListing(y.data, y.dst) /\ \A t \in Paths(y.data) : t \in DOMAIN c
    BY DEF Phase
  <2>2. \A t \in Paths(y.data) : t \in Path /\ Kin(y, t)
    BY <2>1, PrefixParent DEF IsListing, Paths, Kin
  <2> QED BY <2>1, <2>2 DEF Untouched, Same
<1> QED BY <1>1, <1>5, <1>6, <1>7, <1>8, <1>9, <1>10, <1>11, <1>12 DEF Phase

(* ... and what the request answers for.                                   *)
LEMMA OwnKept ==
    ASSUME NEW c, CellInv(c), NEW c2, NEW y, Phase(c, y), Untouched(c, c2, y), NEW p
    PROVE  /\ Orphan(c, y, p) => Orphan(c2, y, p)
           /\ Wanting(c, y, p) => Wanting(c2, y, p)
<1>1. ShapePaths(y)
  BY PhasePaths
<1>2. Carries(y) => y.src \in DOMAIN c
  BY DEF Carries, Phase, Halfway, Looping
<1>3. Carries(y) => Gone(c2, y) = Gone(c, y)
  BY <1>1, <1>2, AllKept
<1> QED BY <1>3 DEF Orphan, Wanting

(* A cell that no request is about, nor a folder above it, is reached from *)
(* the root.                                                               *)
LEMMA Rooted ==
    ASSUME NEW c, NEW R, CellInv(c), OwnedInv(c, R), NEW p \in DOMAIN c, p # <<>>,
           \A s \in Path, q \in Request :
               s # <<>> /\ IsPrefix(s, p) /\ Busy(R[q]) => ~Orphan(c, R[q], s)
    PROVE  <<>> \in DOMAIN c /\ \E t \in Paths(c[<<>>]) : IsPrefix(t, p)
<1>1. p \in Path /\ Len(p) \in Nat /\ IsPrefix(p, p)
  BY PrefixItself, PathFacts DEF CellInv
<1> DEFINE above == {s \in DOMAIN c : s # <<>> /\ IsPrefix(s, p)}
           lens  == {Len(s) : s \in above}
<1>2. \A s \in above : s \in Path /\ Len(s) \in Nat
  BY PathFacts DEF CellInv
<1>3. lens \subseteq Nat /\ lens # {}
  BY <1>1, <1>2
<1>4. PICK s \in above : \A t \in above : Len(s) <= Len(t)
  <2>1. Min(lens) \in lens /\ \A j \in lens : Min(lens) <= j
    BY <1>3, MinIs
  <2> QED BY <2>1
<1>5. s \in Path /\ s # <<>> /\ IsPrefix(s, p) /\ s \in DOMAIN c
  BY <1>2, <1>4
<1>6. Listed(c, s)
  BY <1>5 DEF OwnedInv
<1>7. Parent(s) \in DOMAIN c /\ s \in Paths(c[Parent(s)])
  BY <1>5, <1>6, ListedFacts
<1>8. Parent(s) \notin above
  <2>1. Len(Parent(s)) = Len(s) - 1 /\ Len(s) \in Nat
    BY <1>5, ParentFacts, PathFacts
  <2> QED BY <1>4, <2>1
<1>9. Parent(s) = <<>>
  <2>1. Parent(s) \in Path /\ IsPrefix(Parent(s), s)
    BY <1>5, ParentFacts, PrefixParent
  <2>2. IsPrefix(Parent(s), p)
    BY <1>1, <1>5, <2>1, PrefixTransitive
  <2> QED BY <1>7, <1>8, <2>2
<1> QED BY <1>5, <1>7, <1>9

(* While a file is on its way to the root another request cannot empty it. *)
LEMMA RootNeeded ==
    ASSUME NEW c, NEW R, Good(c, R), NEW o \in Request, Busy(R[o]), R[o].op = "move", NeedsRoot(R[o]),
           NEW x, ShapePaths(x), Clear(x, R[o])
    PROVE  <<>> \in DOMAIN c /\ ~(Paths(c[<<>>]) \subseteq {x.src})
<1> DEFINE y == R[o]
           s == Parent(y.src)
<1>1. Phase(c, y) /\ ShapePaths(y) /\ y.src \in Path /\ y.src # <<>>
  BY PhasePaths DEF Good, PhaseInv, ShapePaths
<1>2. s \in DOMAIN c
  <2>2. y.pc \in {"own", "put"} => s \in DOMAIN c
    BY DEF Good, PhaseInv, Phase, Begun, Listed
  <2>3. y.pc \in {"to", "putto"} => s \in DOMAIN c
    BY <1>1 DEF Phase, Erasing, NeedsRoot
  <2> QED BY <2>2, <2>3 DEF NeedsRoot
<1>0. CASE s = <<>>
  <2>1. Listed(c, y.src)
    BY <1>0, <1>1 DEF NeedsRoot, Phase, Begun
  <2>2. y.src \in Paths(c[<<>>])
    BY <1>0, <2>1, <1>1, ListedFacts DEF Good
  <2>3. y.src # x.src
    BY <1>1, PrefixItself DEF Clear, Related, ShapePaths
  <2> QED BY <1>0, <1>2, <2>2, <2>3
<1>a. CASE s # <<>>
  <2>3. s \in Path /\ IsPrefix(s, y.src) /\ Len(s) < Len(y.src) /\ Len(s) \in Nat
    BY <1>1, ParentFacts, PrefixParent, PathFacts
  <2>4. ASSUME NEW t \in Path, t # <<>>, IsPrefix(t, s), NEW q \in Request, Busy(R[q])
        PROVE  ~Orphan(c, R[q], t)
    <3>1. IsPrefix(t, y.src)
      BY <1>1, <2>3, <2>4, PrefixTransitive
    <3>2. CASE q # o
      <4>1. Phase(c, R[q]) /\ ShapePaths(R[q]) /\ Clear(R[q], y)
        BY <2>4, <3>2, PhasePaths DEF Good, PhaseInv, ApartInv
      <4>2. ~Kin(R[q], t)
        BY <1>1, <3>1, <4>1, KinAbove
      <4> QED BY <4>1, <4>2, OrphanKin DEF Good
    <3>3. CASE q = o
      <4>1. Len(t) <= Len(s) /\ Len(t) \in Nat /\ Len(y.src) \in Nat
        BY <1>1, <2>3, <2>4, PrefixIs, PathFacts
      <4>2. t # y.src
        BY <2>3, <4>1
      <4>3. y.pc \notin {"fetch"}
        BY <1>1 DEF NeedsRoot, Hanging
      <4> QED BY <1>1, <3>3, <4>2, <4>3 DEF Orphan, Carries, Looping, NeedsRoot, Hanging
    <3> QED BY <3>2, <3>3
  <2>5. <<>> \in DOMAIN c /\ \E t \in Paths(c[<<>>]) : IsPrefix(t, s)
    BY <1>a, <1>2, <2>4, Rooted, <2>3 DEF Good
  <2>6. \A t \in Paths(c[<<>>]) : IsPrefix(t, s) => t # x.src
    <3> SUFFICES ASSUME IsPrefix(x.src, s), x.src \in Path PROVE FALSE
      BY DEF Paths
    <3>1. IsPrefix(x.src, y.src)
      BY <1>1, <2>3, PrefixTransitive
    <3> QED BY <3>1 DEF Clear, Related
  <2> QED BY <2>5, <2>6
<1> QED BY <1>0, <1>a

-----------------------------------------------------------------------------
(* What a step of the request x may change: cells and places under its     *)
(* paths, and the listings that hold them.  The root goes when nothing but *)
(* the entry x deletes is in it.                                           *)
Minds(c, c2, x) ==
    /\ \A p \in Path : ~Related(p, x.src) /\ ~Related(p, x.dst) => Same(c, c2, p)
    /\ \A p \in Path : p # <<>> /\ ~Kin(x, p) =>
         (Listed(c2, p) <=> Listed(c, p)) /\ (p \in DOMAIN c2 <=> p \in DOMAIN c)
    /\ <<>> \in DOMAIN c /\ <<>> \notin DOMAIN c2 => Paths(c[<<>>]) \subseteq {x.src}

(* x answers for what is under its paths.                                  *)
Answers(c, x) ==
    \A p \in Path : p # <<>> /\ Kin(x, p) =>
        /\ p \in DOMAIN c => Listed(c, p) \/ (Busy(x) /\ Orphan(c, x, p))
        /\ Listed(c, p)   => p \in DOMAIN c \/ (Busy(x) /\ Wanting(c, x, p))

(* A step of one request leaves alone what another one is about.           *)
LEMMA UntouchedByOther ==
    ASSUME NEW c, NEW R, Good(c, R), NEW x, NEW c2, NEW o \in Request, Busy(R[o]),
           ShapePaths(x), Clear(x, R[o]), Minds(c, c2, x)
    PROVE  Untouched(c, c2, R[o])
<1> DEFINE y == R[o]
<1>1. Phase(c, y) /\ ShapePaths(y)
  BY PhasePaths DEF Good, PhaseInv
<1>2. \A p \in Path : Kin(y, p) => Same(c, c2, p)
  BY <1>1, KinApart DEF Minds
<1>3. ~Kin(x, y.src) /\ ~Kin(x, y.dst) /\ y.src \in Path /\ y.dst \in Path /\ y.src # <<>> /\ y.dst # <<>>
  BY <1>1, KinAbove, PrefixItself DEF ShapePaths
<1>4. \A p \in {Parent(y.src), Parent(y.dst)} : p \in Path /\ ~Kin(x, p)
  <2>1. \A p \in {Parent(y.src), Parent(y.dst)} : p \in Path /\ (IsPrefix(p, y.src) \/ IsPrefix(p, y.dst))
    BY <1>3, ParentFacts, PrefixParent
  <2> QED BY <1>1, <2>1, KinAbove
<1>5. y.op = "move" /\ NeedsRoot(y) => Parent(y.dst) \in DOMAIN c2
  <2>1. y.op = "move" /\ NeedsRoot(y) => <<>> \in DOMAIN c2
    BY RootNeeded DEF Minds
  <2> QED BY <2>1 DEF NeedsRoot
<1> QED BY <1>2, <1>3, <1>4, <1>5 DEF Minds, Untouched

(* A step of a request keeps the invariant when it minds the other         *)
(* requests and answers for what it leaves open.                           *)
LEMMA Kept ==
    ASSUME NEW c, NEW R, Good(c, R), Request = DOMAIN R, NEW q \in Request, Busy(R[q]),
           NEW c2, NEW x2, x2.src = R[q].src, x2.dst = R[q].dst,
           CellInv(c2), Minds(c, c2, R[q]), Answers(c2, x2), Busy(x2) => Phase(c2, x2)
    PROVE  Good(c2, [R EXCEPT ![q] = x2])
<1> DEFINE x == R[q]
           R2 == [R EXCEPT ![q] = x2]
<1>1. R2[q] = x2 /\ \A o \in Request : o # q => R2[o] = R[o]
  OBVIOUS
<1> HIDE DEF R2
<1>2. Phase(c, x) /\ ShapePaths(x)
  BY PhasePaths DEF Good, PhaseInv
<1>3. \A o \in Request : o # q /\ Busy(R[o]) => Clear(x, R[o]) /\ Phase(c, R[o]) /\ ShapePaths(R[o])
  BY PhasePaths DEF Good, PhaseInv, ApartInv
<1>4. \A o \in Request : o # q /\ Busy(R[o]) => Untouched(c, c2, R[o])
  BY <1>2, <1>3, UntouchedByOther
<1>5. ApartInv(R2)
  <2> SUFFICES ASSUME NEW o \in Request, NEW z \in Request, o # z, Busy(R2[o]), Busy(R2[z])
               PROVE  Clear(R2[o], R2[z])
    BY DEF ApartInv
  <2>1. \A y : Clear(x2, y) <=> Clear(x, y)
    BY DEF Clear
  <2>2. CASE o = q
    BY <1>1, <1>3, <2>1, <2>2
  <2>3. CASE z = q
    <3>1. Clear(x2, R2[o])
      BY <1>1, <1>3, <2>1, <2>3
    <3> QED BY <1>1, <2>3, <3>1, ClearSym
  <2>4. CASE o # q /\ z # q
    BY <1>1, <2>4 DEF Good, ApartInv
  <2> QED BY <2>2, <2>3, <2>4
<1>6. PhaseInv(c2, R2)
  <2> SUFFICES ASSUME NEW o \in Request, Busy(R2[o]) PROVE Phase(c2, R2[o])
    BY DEF PhaseInv
  <2>1. CASE o = q
    BY <1>1, <2>1
  <2>2. CASE o # q
    BY <1>1, <1>3, <1>4, <2>2, PhaseKept DEF Good
  <2> QED BY <2>1, <2>2
<1>7. \A p \in Path : Kin(x2, p) <=> Kin(x, p)
  BY DEF Kin
<1>8. OwnedInv(c2, R2)
  <2> SUFFICES ASSUME NEW p \in DOMAIN c2, p # <<>>, ~Listed(c2, p)
               PROVE  \E o \in Request : Busy(R2[o]) /\ Orphan(c2, R2[o], p)
    BY DEF OwnedInv
  <2>1. p \in Path
    BY DEF CellInv
  <2>2. CASE Kin(x, p)
    BY <1>1, <1>7, <2>1, <2>2 DEF Answers
  <2>3. CASE ~Kin(x, p)
    <3>1. p \in DOMAIN c /\ ~Listed(c, p)
      BY <2>1, <2>3 DEF Minds
    <3>2. PICK o \in Request : Busy(R[o]) /\ Orphan(c, R[o], p)
      BY <3>1 DEF Good, OwnedInv
    <3>3. o # q
      BY <1>2, <2>1, <2>3, <3>2, OrphanKin DEF Good
    <3> QED BY <1>1, <1>3, <1>4, <3>2, <3>3, OwnKept DEF Good
  <2> QED BY <2>2, <2>3
<1>9. KnownInv(c2, R2)
  <2> SUFFICES ASSUME NEW p \in Path, Listed(c2, p), p \notin DOMAIN c2
               PROVE  \E o \in Request : Busy(R2[o]) /\ Wanting(c2, R2[o], p)
    BY DEF KnownInv
  <2>1. p # <<>>
    BY DEF Listed
  <2>2. CASE Kin(x, p)
    BY <1>1, <1>7, <2>1, <2>2 DEF Answers
  <2>3. CASE ~Kin(x, p)
    <3>1. p \notin DOMAIN c /\ Listed(c, p)
      BY <2>1, <2>3 DEF Minds
    <3>2. PICK o \in Request : Busy(R[o]) /\ Wanting(c, R[o], p)
      BY <3>1 DEF Good, KnownInv
    <3>3. o # q
      BY <1>2, <2>3, <3>2, OrphanKin DEF Good
    <3> QED BY <1>1, <1>3, <1>4, <3>2, <3>3, OwnKept DEF Good
  <2> QED BY <2>2, <2>3
<1> QED BY <1>5, <1>6, <1>8, <1>9 DEF Good, R2

(* What x answers for now: the others do not answer for what is under its  *)
(* paths.                                                                  *)
LEMMA AnswersNow ==
    ASSUME NEW c, NEW R, Good(c, R), NEW q \in Request, Busy(R[q])
    PROVE  Answers(c, R[q])
<1> DEFINE x == R[q]
<1>1. Phase(c, x) /\ ShapePaths(x)
  BY PhasePaths DEF Good, PhaseInv
<1>2. ASSUME NEW p \in Path, Kin(x, p), NEW o \in Request, Busy(R[o]),
             Orphan(c, R[o], p) \/ Wanting(c, R[o], p)
      PROVE  o = q
  <2> SUFFICES ASSUME o # q PROVE FALSE
    OBVIOUS
  <2>1. Phase(c, R[o]) /\ ShapePaths(R[o]) /\ Clear(x, R[o])
    BY <1>2, PhasePaths DEF Good, PhaseInv, ApartInv
  <2>2. Kin(R[o], p)
    BY <1>2, <2>1, OrphanKin DEF Good
  <2> QED BY <1>1, <1>2, <2>1, <2>2, KinApart
<1> QED BY <1>2 DEF Good, OwnedInv, KnownInv, Answers

(* A request that was not at work starts, or ends.                         *)
LEMMA StartKept ==
    ASSUME NEW c, NEW R, Good(c, R), Request = DOMAIN R, NEW q \in Request, ~Busy(R[q]), NEW x2,
           Busy(x2) => Phase(c, x2) /\ \A o \in Request : o # q /\ Busy(R[o]) => Clear(x2, R[o])
    PROVE  Good(c, [R EXCEPT ![q] = x2])
<1> DEFINE R2 == [R EXCEPT ![q] = x2]
<1>1. R2[q] = x2 /\ \A o \in Request : o # q => R2[o] = R[o]
  OBVIOUS
<1> HIDE DEF R2
<1>2. ApartInv(R2)
  <2> SUFFICES ASSUME NEW o \in Request, NEW z \in Request, o # z, Busy(R2[o]), Busy(R2[z])
               PROVE  Clear(R2[o], R2[z])
    BY DEF ApartInv
  <2>1. CASE o = q
    BY <1>1, <2>1
  <2>2. CASE z = q
    <3>1. Clear(x2, R2[o])
      BY <1>1, <2>2
    <3> QED BY <1>1, <2>2, <3>1, ClearSym
  <2>3. CASE o # q /\ z # q
    BY <1>1, <2>3 DEF Good, ApartInv
  <2> QED BY <2>1, <2>2, <2>3
<1>3. PhaseInv(c, R2)
  BY <1>1 DEF Good, PhaseInv
<1>4. \A o \in Request : Busy(R[o]) => o # q /\ R2[o] = R[o]
  BY <1>1
<1>5. OwnedInv(c, R2) /\ KnownInv(c, R2)
  BY <1>4 DEF Good, OwnedInv, KnownInv
<1> QED BY <1>2, <1>3, <1>5 DEF Good, R2

(* A step that only changes the variables of its request.                  *)
LEMMA LocalKept ==
    ASSUME NEW c, NEW R, Good(c, R), Request = DOMAIN R, NEW q \in Request, Busy(R[q]),
           NEW x2, x2.src = R[q].src, x2.dst = R[q].dst, Busy(x2) => Phase(c, x2),
           \A p \in Path : Orphan(c, R[q], p) => Busy(x2) /\ Orphan(c, x2, p),
           \A p \in Path : Wanting(c, R[q], p) => Busy(x2) /\ Wanting(c, x2, p)
    PROVE  Good(c, [R EXCEPT ![q] = x2])
<1>1. Minds(c, c, R[q])
  BY DEF Minds, Same
<1>2. Answers(c, x2)
  BY AnswersNow DEF Answers, Kin
<1> QED BY <1>1, <1>2, Kept DEF Good

-----------------------------------------------------------------------------
(* The table.                                                              *)
Reading(c, p)   == IF p \in DOMAIN c THEN c[p] ELSE <<Err>>
PutIn(c, p, v)  == [s \in DOMAIN c \cup {p} |-> IF s = p THEN v ELSE c[s]]
DropFrom(c, p)  == [s \in DOMAIN c \ {p} |-> c[s]]

(* What a written and a deleted cell change in the listings.               *)
LEMMA PutFacts ==
    ASSUME NEW c, CellInv(c), NEW k \in Path, NEW v, IsCell(k, v)
    PROVE  /\ DOMAIN PutIn(c, k, v) = DOMAIN c \cup {k} /\ PutIn(c, k, v)[k] = v
           /\ \A p \in DOMAIN c \ {k} : PutIn(c, k, v)[p] = c[p]
           /\ CellInv(PutIn(c, k, v))
           /\ \A p \in Path : p # <<>> /\ Parent(p) = k => (Listed(PutIn(c, k, v), p) <=> p \in Elems(v))
           /\ \A p \in Path : p = <<>> \/ Parent(p) # k => (Listed(PutIn(c, k, v), p) <=> Listed(c, p))
BY DEF PutIn, CellInv, Listed

LEMMA PutAlso ==
    ASSUME NEW c, CellInv(c), NEW k \in Path, NEW v, IsCell(k, v), NEW c2, c2 = PutIn(c, k, v)
    PROVE  /\ CellInv(c2)
           /\ \A p \in Path : p # <<>> /\ Parent(p) = k => (Listed(c2, p) <=> p \in Elems(v))
           /\ \A p \in Path : p = <<>> \/ Parent(p) # k => (Listed(c2, p) <=> Listed(c, p))
BY PutFacts

LEMMA DropFacts ==
    ASSUME NEW c, CellInv(c), NEW k
    PROVE  /\ DOMAIN DropFrom(c, k) = DOMAIN c \ {k}
           /\ \A p \in DOMAIN c \ {k} : DropFrom(c, k)[p] = c[p]
           /\ CellInv(DropFrom(c, k))
           /\ \A p \in Path : Listed(DropFrom(c, k), p) <=> Listed(c, p) /\ Parent(p) # k
BY DEF DropFrom, CellInv, Listed

(* The steps of a request mind the other ones.                             *)
LEMMA ParentRelated ==
    ASSUME NEW x, ShapePaths(x), NEW P \in {Parent(x.src), Parent(x.dst)}
    PROVE  P \in Path /\ (Related(P, x.src) \/ Related(P, x.dst))
BY ParentFacts, PrefixParent DEF ShapePaths, Related

LEMMA KinRelated ==
    ASSUME NEW x, NEW k, Kin(x, k)
    PROVE  Related(k, x.src) \/ Related(k, x.dst)
BY DEF Kin, Related

(* A listing is written in which only the places of the request differ.    *)
LEMMA MindsListing ==
    ASSUME NEW c, CellInv(c), NEW x, ShapePaths(x), NEW P \in {Parent(x.src), Parent(x.dst)},
           P \in DOMAIN c \/ P = <<>>, NEW v, IsListing(v, P), IsFolder(P),
           \A t \in Path \ {x.src, x.dst, <<>>} : Parent(t) = P => (t \in Elems(v) <=> Listed(c, t))
    PROVE  Minds(c, PutIn(c, P, v), x)
<1> DEFINE c2 == PutIn(c, P, v)
<1>1. P \in Path /\ (Related(P, x.src) \/ Related(P, x.dst))
  BY ParentRelated
<1>2. /\ DOMAIN c2 = DOMAIN c \cup {P} /\ \A p \in DOMAIN c \ {P} : c2[p] = c[p]
      /\ \A p \in Path : p # <<>> /\ Parent(p) = P => (Listed(c2, p) <=> p \in Elems(v))
      /\ \A p \in Path : p = <<>> \/ Parent(p) # P => (Listed(c2, p) <=> Listed(c, p))
  BY <1>1, PutFacts DEF IsCell
<1> HIDE DEF c2
<1>3. Kin(x, x.src) /\ Kin(x, x.dst)
  BY PrefixItself DEF Kin, ShapePaths
<1>4. \A p \in Path : ~Related(p, x.src) /\ ~Related(p, x.dst) => Same(c, c2, p)
  BY <1>1, <1>2 DEF Same
<1>5. \A p \in Path : p # <<>> /\ ~Kin(x, p) =>
         (Listed(c2, p) <=> Listed(c, p)) /\ (p \in DOMAIN c2 <=> p \in DOMAIN c)
  BY <1>2, <1>3
<1>6. <<>> \in DOMAIN c => <<>> \in DOMAIN c2
  BY <1>2
<1> QED BY <1>4, <1>5, <1>6 DEF Minds, c2

(* A cell of the request is written or deleted.                            *)
LEMMA MindsPut ==
    ASSUME NEW c, CellInv(c), NEW x, ShapePaths(x), NEW k \in Path, Kin(x, k), k # <<>>,
           NEW v, IsCell(k, v)
    PROVE  Minds(c, PutIn(c, k, v), x)
<1> DEFINE c2 == PutIn(c, k, v)
<1>1. /\ DOMAIN c2 = DOMAIN c \cup {k} /\ \A p \in DOMAIN c \ {k} : c2[p] = c[p]
      /\ \A p \in Path : p # <<>> /\ Parent(p) = k => (Listed(c2, p) <=> p \in Elems(v))
      /\ \A p \in Path : p = <<>> \/ Parent(p) # k => (Listed(c2, p) <=> Listed(c, p))
  BY PutFacts
<1> HIDE DEF c2
<1>2. Related(k, x.src) \/ Related(k, x.dst)
  BY KinRelated
<1>3. \A p \in Path : p # <<>> /\ Parent(p) = k => Kin(x, p)
  BY Below DEF Kin, ShapePaths
<1> QED BY <1>1, <1>2, <1>3 DEF Minds, Same, c2

LEMMA MindsDrop ==
    ASSUME NEW c, CellInv(c), NEW x, ShapePaths(x), NEW k \in Path, Kin(x, k), k # <<>>
    PROVE  Minds(c, DropFrom(c, k), x)
<1> DEFINE c2 == DropFrom(c, k)
<1>1. /\ DOMAIN c2 = DOMAIN c \ {k} /\ \A p \in DOMAIN c \ {k} : c2[p] = c[p]
      /\ \A p \in Path : Listed(c2, p) <=> Listed(c, p) /\ Parent(p) # k
  BY DropFacts
<1> HIDE DEF c2
<1>2. Related(k, x.src) \/ Related(k, x.dst)
  BY KinRelated
<1>3. \A p \in Path : p # <<>> /\ Parent(p) = k => Kin(x, p)
  BY Below DEF Kin, ShapePaths
<1> QED BY <1>1, <1>2, <1>3 DEF Minds, Same, c2, Listed

-----------------------------------------------------------------------------
(* The listings.                                                           *)
Early(x) == x.pc \in {"own", "put"}

(* What a request answers for before it has written.                       *)
LEMMA EarlyOwns ==
    ASSUME NEW c, NEW x, NEW p
    PROVE  /\ Early(x) => ~Orphan(c, x, p) /\ ~Wanting(c, x, p)
           /\ x.pc = "own" => Early(x)
           /\ x.pc \in {"to", "putto"} => ~Wanting(c, x, p) /\ (Orphan(c, x, p) <=> p = x.src)
BY DEF Early, Orphan, Wanting, Hanging, Carries, Looping

(* The listing is read, or the request ends.                               *)
LEMMA PreparedKept ==
    ASSUME NEW c, NEW R, Good(c, R), Request = DOMAIN R, NEW q \in Request, Busy(R[q]), R[q].pc = "own",
           NEW x2, x2.op = R[q].op, x2.src = R[q].src, x2.dst = R[q].dst, x2.data = R[q].data,
           x2.pc = "put", Prepared(x2)
    PROVE  Good(c, [R EXCEPT ![q] = x2])
<1>1. Phase(c, R[q])
  BY DEF Good, PhaseInv
<1>2. Shape(R[q]) /\ Begun(c, R[q])
  BY <1>1 DEF Phase
<1>3. Shape(x2)
  BY <1>2 DEF Shape, Looping
<1>4. Begun(c, x2)
  BY <1>2 DEF Begun, All
<1>5. Phase(c, x2)
  BY <1>3, <1>4 DEF Phase, Looping
<1> QED BY <1>5, EarlyOwns, LocalKept

LEMMA EndKept ==
    ASSUME NEW c, NEW R, Good(c, R), Request = DOMAIN R, NEW q \in Request, Busy(R[q]), R[q].pc = "own",
           NEW x2, x2.src = R[q].src, x2.dst = R[q].dst, ~Busy(x2)
    PROVE  Good(c, [R EXCEPT ![q] = x2])
BY EarlyOwns, LocalKept

(* A listing is written: it is what it was but for the places of the       *)
(* request.                                                                *)
LEMMA ListingKept ==
    ASSUME NEW c, NEW R, Good(c, R), Request = DOMAIN R, NEW q \in Request, Busy(R[q]),
           NEW x2, x2.src = R[q].src, x2.dst = R[q].dst, Busy(x2),
           NEW P \in {Parent(R[q].src), Parent(R[q].dst)}, P \in DOMAIN c \/ P = <<>>,
           NEW v, IsListing(v, P), IsFolder(P), NEW c2, c2 = PutIn(c, P, v),
           \A t \in Path \ {R[q].src, R[q].dst, <<>>} : Parent(t) = P => (t \in Elems(v) <=> Listed(c, t)),
           \A p \in Path \ {R[q].src, R[q].dst} : ~Orphan(c, R[q], p) /\ ~Wanting(c, R[q], p),
           \A p \in {R[q].src, R[q].dst} :
               /\ p \in DOMAIN c2 => Listed(c2, p) \/ Orphan(c2, x2, p)
               /\ Listed(c2, p) => p \in DOMAIN c2 \/ Wanting(c2, x2, p),
           Phase(c2, x2)
    PROVE  Good(c2, [R EXCEPT ![q] = x2])
<1> DEFINE x == R[q]
<1>1. ShapePaths(x) /\ P \in Path
  BY PhasePaths, ParentRelated DEF Good, PhaseInv
<1>2. /\ DOMAIN c2 = DOMAIN c \cup {P} /\ CellInv(c2)
      /\ \A p \in Path : p # <<>> /\ Parent(p) = P => (Listed(c2, p) <=> p \in Elems(v))
      /\ \A p \in Path : p = <<>> \/ Parent(p) # P => (Listed(c2, p) <=> Listed(c, p))
  BY <1>1, PutFacts DEF IsCell, Good
<1>3. Minds(c, c2, x)
  BY <1>1, MindsListing DEF Good
<1>4. Answers(c2, x2)
  <2> SUFFICES ASSUME NEW p \in Path, p # <<>>, Kin(x, p)
               PROVE  /\ p \in DOMAIN c2 => Listed(c2, p) \/ Orphan(c2, x2, p)
                      /\ Listed(c2, p) => p \in DOMAIN c2 \/ Wanting(c2, x2, p)
    BY DEF Answers, Kin
  <2>1. CASE p \in {x.src, x.dst}
    BY <2>1
  <2>2. CASE p \notin {x.src, x.dst}
    <3>1. (p \in DOMAIN c => Listed(c, p)) /\ (Listed(c, p) => p \in DOMAIN c)
      BY <2>2, AnswersNow DEF Answers
    <3>2. p \in DOMAIN c2 <=> p \in DOMAIN c
      BY <1>2
    <3>3. Listed(c2, p) <=> Listed(c, p)
      BY <1>2, <2>2
    <3> QED BY <3>1, <3>2, <3>3
  <2> QED BY <2>1, <2>2
<1> QED BY <1>2, <1>3, <1>4, Kept

(* A path of the request is neither listed nor the name of a cell before   *)
(* the request has given it a place.                                       *)
LEMMA AbsentCell ==
    ASSUME NEW c, NEW R, Good(c, R), NEW q \in Request, Busy(R[q]), Early(R[q]) \/ R[q].pc = "putto",
           NEW p \in {R[q].src, R[q].dst}, ~Listed(c, p), R[q].pc = "putto" => p # R[q].src
    PROVE  p \notin DOMAIN c
<1>1. ShapePaths(R[q])
  BY PhasePaths DEF Good, PhaseInv
<1>2. p \in Path /\ p # <<>> /\ Kin(R[q], p)
  BY <1>1, PrefixItself DEF ShapePaths, Kin
<1> QED BY <1>2, AnswersNow, EarlyOwns DEF Answers

(* The listing of a folder.                                                *)
LEMMA PlaceIs ==
    ASSUME NEW c, CellInv(c), NEW P \in DOMAIN c, IsFolder(P)
    PROVE  /\ IsListing(c[P], P) /\ c[P] # <<Err>>
           /\ \A t \in Path : t # <<>> /\ Parent(t) = P => (Listed(c, t) <=> t \in Elems(c[P]))
           /\ \A t \in Path : t \in Elems(c[P]) => t \in Paths(c[P])
BY FolderCell, ListingIsNot DEF Listed, Paths

(* /upload-file and /create-folder write the listing.                      *)
LEMMA AddWritten ==
    ASSUME NEW c, NEW R, Good(c, R), Request = DOMAIN R, NEW q \in Request, Busy(R[q]), R[q].pc = "put",
           R[q].op \in {"upload", "mkdir"}, R[q].seen = Reading(c, Parent(R[q].src)),
           NEW x2, x2.op = R[q].op, x2.src = R[q].src, x2.dst = R[q].dst, x2.data = R[q].data,
           x2.pc = "store"
    PROVE  Good(PutIn(c, Parent(R[q].src), R[q].fids), [R EXCEPT ![q] = x2])
<1> DEFINE x == R[q]
           P == Parent(x.src)
           v == x.fids
           c2 == PutIn(c, P, v)
<1>1. Phase(c, x) /\ Shape(x) /\ ShapePaths(x) /\ x.dst = x.src /\ P # x.src
  BY PhasePaths, PrefixParent DEF Good, PhaseInv, Phase, Shape, ShapePaths
<1>2. P \in Path /\ IsFolder(P) /\ (P \in DOMAIN c \/ P = <<>>) /\ x.src \in Path /\ x.src # <<>>
  BY <1>1, ParentFacts DEF Phase, Shape, Begun, ShapePaths
<1>3. /\ IsListing(v, P) /\ ~Listed(c, x.src)
      /\ \A t \in Path : t # <<>> /\ Parent(t) = P => (t \in Elems(v) <=> t = x.src \/ Listed(c, t))
  <2>1. CASE x.seen = <<Err>>
    <3>1. P \notin DOMAIN c
      BY <1>2, <2>1, PlaceIs DEF Good, Reading
    <3>2. v = <<x.src>>
      BY <1>1, <2>1 DEF Phase, Prepared
    <3>3. IsListing(v, P) /\ Paths(v) = {x.src}
      BY <1>2, <3>1, <3>2, FirstListing
    <3>4. \A t \in Path : t \in Elems(v) <=> t = x.src
      BY <3>3 DEF Paths
    <3> QED BY <1>2, <3>1, <3>3, <3>4 DEF Listed
  <2>2. CASE x.seen # <<Err>>
    <3>1. P \in DOMAIN c /\ x.seen = c[P]
      BY <2>2 DEF Reading
    <3>2. ~Finds(c[P], x.src) /\ v = Append(c[P], x.src)
      BY <1>1, <2>2, <3>1 DEF Phase, Prepared
    <3>3. IsListing(c[P], P)
      BY <1>2, <3>1, PlaceIs DEF Good
    <3>4. x.src \notin Elems(c[P])
      BY <1>2, <3>2, FindsMember
    <3>5. IsListing(v, P) /\ Paths(v) = Paths(c[P]) \cup {x.src}
      BY <1>2, <3>2, <3>3, <3>4, AppendListing
    <3>6. \A t \in Path : t \in Elems(v) <=> t = x.src \/ t \in Elems(c[P])
      BY <3>5, <1>2 DEF Paths
    <3> QED BY <1>2, <3>1, <3>4, <3>5, <3>6, PlaceIs DEF Good
  <2> QED BY <2>1, <2>2
<1>4. x.src \notin DOMAIN c
  BY <1>3, AbsentCell DEF Early
<1>5. /\ DOMAIN c2 = DOMAIN c \cup {P}
      /\ \A p \in Path : p # <<>> /\ Parent(p) = P => (Listed(c2, p) <=> p \in Elems(v))
  <2>1. IsCell(P, v) /\ CellInv(c)
    BY <1>2, <1>3 DEF IsCell, Good
  <2>2. P \in Path
    BY <1>2
  <2> HIDE DEF P, v, x
  <2>3. DOMAIN c2 = DOMAIN c \cup {P}
    BY DEF PutIn
  <2>4. \A p \in Path : p # <<>> /\ Parent(p) = P => (Listed(c2, p) <=> p \in Elems(v))
    BY <2>1, <2>2, PutFacts
  <2> QED BY <2>3, <2>4
<1> HIDE DEF c2
<1>6. Listed(c2, x.src) /\ x.src \notin DOMAIN c2
  BY <1>1, <1>2, <1>3, <1>4, <1>5
<1>7. Wanting(c2, x2, x.src)
  BY <1>1 DEF Wanting
<1>8. Phase(c2, x2) /\ Busy(x2)
  BY <1>1, <1>6 DEF Phase, Shape, Looping, Busy, Op
<1>9. \A p \in Path : ~Orphan(c, x, p) /\ ~Wanting(c, x, p)
  BY EarlyOwns DEF Early
<1> QED BY <1>1, <1>2, <1>3, <1>6, <1>7, <1>8, <1>9, ListingKept DEF c2

(* The erased listing of a folder.                                         *)
LEMMA ErasedWritten ==
    ASSUME NEW c, NEW R, Good(c, R), NEW q \in Request, Busy(R[q]), R[q].pc = "put",
           R[q].op \in {"delete", "move"}, R[q].seen = Reading(c, Parent(R[q].src))
    PROVE  LET x == R[q]
               P == Parent(x.src)
           IN /\ Shape(x) /\ ShapePaths(x) /\ P \in Path /\ IsFolder(P) /\ P \in DOMAIN c /\ P # x.src
              /\ x.src \in DOMAIN c /\ IsListing(c[P], P) /\ IsListing(x.fids, P)
              /\ x.src \in Elems(c[P]) /\ Paths(x.fids) = Paths(c[P]) \ {x.src}
              /\ \A t \in Path : t # <<>> /\ Parent(t) = P => (t \in Elems(x.fids) <=> t # x.src /\ Listed(c, t))
<1> DEFINE x == R[q]
           P == Parent(x.src)
<1>1. Phase(c, x) /\ Shape(x) /\ ShapePaths(x) /\ P # x.src /\ P \in Path /\ IsFolder(P)
  BY PhasePaths, PrefixParent, ParentFacts DEF Good, PhaseInv, Phase, Shape, ShapePaths
<1>2. Listed(c, x.src) /\ x.src \in DOMAIN c /\ P \in DOMAIN c /\ x.src \in Path /\ x.src # <<>>
  BY <1>1 DEF Phase, Begun, Listed, ShapePaths
<1>3. /\ IsListing(c[P], P) /\ x.src \in Elems(c[P])
      /\ \A t \in Path : t # <<>> /\ Parent(t) = P => (Listed(c, t) <=> t \in Elems(c[P]))
  BY <1>1, <1>2, PlaceIs DEF Good
<1>4. x.fids = Erased(c[P], x.src)
  BY <1>1, <1>2 DEF Phase, Prepared, Reading
<1>5. IsListing(x.fids, P) /\ Paths(x.fids) = Paths(c[P]) \ {x.src}
  BY <1>2, <1>3, <1>4, ErasedListing
<1>6. \A t \in Path : t \in Elems(x.fids) <=> t # x.src /\ t \in Elems(c[P])
  BY <1>5 DEF Paths
<1> QED BY <1>1, <1>2, <1>3, <1>5, <1>6

(* /move-file writes the listing of the folder.                            *)
LEMMA MoveWritten ==
    ASSUME NEW c, NEW R, Good(c, R), Request = DOMAIN R, NEW q \in Request, Busy(R[q]), R[q].pc = "put",
           R[q].op = "move", R[q].seen = Reading(c, Parent(R[q].src)),
           NEW x2, x2.op = R[q].op, x2.src = R[q].src, x2.dst = R[q].dst, x2.pc = "to"
    PROVE  Good(PutIn(c, Parent(R[q].src), R[q].fids), [R EXCEPT ![q] = x2])
<1> DEFINE x == R[q]
           P == Parent(x.src)
           v == x.fids
           c2 == PutIn(c, P, v)
<1>1. /\ Shape(x) /\ ShapePaths(x) /\ P \in Path /\ IsFolder(P) /\ P \in DOMAIN c /\ P # x.src
      /\ x.src \in DOMAIN c /\ IsListing(v, P)
      /\ \A t \in Path : t # <<>> /\ Parent(t) = P => (t \in Elems(v) <=> t # x.src /\ Listed(c, t))
  BY ErasedWritten
<1>2. /\ x.src \in Path /\ x.src # <<>> /\ x.dst \in Path /\ x.dst # <<>>
      /\ x.dst # x.src => Parent(x.dst) # P
  BY <1>1 DEF Shape, ShapePaths
<1>3. /\ DOMAIN c2 = DOMAIN c
      /\ \A p \in Path : p # <<>> /\ Parent(p) = P => (Listed(c2, p) <=> p \in Elems(v))
      /\ \A p \in Path : p = <<>> \/ Parent(p) # P => (Listed(c2, p) <=> Listed(c, p))
  <2>1. IsCell(P, v) /\ CellInv(c)
    BY <1>1 DEF IsCell, Good
  <2>2. DOMAIN c2 = DOMAIN c
    BY <1>1 DEF PutIn
  <2>3. P \in Path
    BY <1>1
  <2> HIDE DEF P, v, x
  <2>4. \A p \in Path : p # <<>> /\ Parent(p) = P => (Listed(c2, p) <=> p \in Elems(v))
    BY <2>1, <2>3, PutFacts
  <2>5. \A p \in Path : p = <<>> \/ Parent(p) # P => (Listed(c2, p) <=> Listed(c, p))
    BY <2>1, <2>3, PutFacts
  <2> QED BY <2>2, <2>4, <2>5
<1> HIDE DEF c2
<1>4. ~Listed(c2, x.src)
  BY <1>1, <1>2, <1>3
<1>5. Parent(x.dst) \in DOMAIN c2
  BY <1>3 DEF Good, PhaseInv, Phase, Begun
<1>6. Erasing(c2, x2)
  BY <1>1, <1>3, <1>4, <1>5 DEF Erasing
<1>7. Phase(c2, x2) /\ Busy(x2)
  BY <1>1, <1>6 DEF Phase, Shape, Looping, Busy, Op
<1>8. Orphan(c2, x2, x.src)
  BY DEF Orphan, Hanging
<1>9. \A p \in Path : ~Orphan(c, x, p) /\ ~Wanting(c, x, p)
  BY EarlyOwns DEF Early
<1>10. x.dst # x.src => (x.dst \in DOMAIN c2 <=> Listed(c2, x.dst))
  <2>1. Kin(x, x.dst)
    BY <1>2, PrefixItself DEF Kin
  <2>2. x.dst \in DOMAIN c <=> Listed(c, x.dst)
    BY <1>2, <1>9, <2>1, AnswersNow DEF Answers
  <2> QED BY <1>2, <1>3, <2>2
<1> QED BY <1>1, <1>4, <1>7, <1>8, <1>9, <1>10, ListingKept DEF c2

(* /delete-file, of an entry among others ...                              *)
LEMMA DeleteWritten ==
    ASSUME NEW c, NEW R, Good(c, R), Request = DOMAIN R, NEW q \in Request, Busy(R[q]), R[q].pc = "put",
           R[q].op = "delete", R[q].seen = Reading(c, Parent(R[q].src)), R[q].fids # <<Blank>>,
           NEW x2, x2.op = R[q].op, x2.src = R[q].src, x2.dst = R[q].dst, x2.pc = "drop"
    PROVE  Good(PutIn(c, Parent(R[q].src), R[q].fids), [R EXCEPT ![q] = x2])
<1> DEFINE x == R[q]
           P == Parent(x.src)
           v == x.fids
           c2 == PutIn(c, P, v)
<1>1. /\ Shape(x) /\ ShapePaths(x) /\ P \in Path /\ IsFolder(P) /\ P \in DOMAIN c /\ P # x.src
      /\ x.src \in DOMAIN c /\ IsListing(v, P)
      /\ \A t \in Path : t # <<>> /\ Parent(t) = P => (t \in Elems(v) <=> t # x.src /\ Listed(c, t))
  BY ErasedWritten
<1>2. x.src \in Path /\ x.src # <<>> /\ x.dst = x.src
  BY <1>1 DEF Shape, ShapePaths
<1>3. /\ DOMAIN c2 = DOMAIN c /\ c2[x.src] = c[x.src]
      /\ \A p \in Path : p # <<>> /\ Parent(p) = P => (Listed(c2, p) <=> p \in Elems(v))
  <2>1. IsCell(P, v) /\ CellInv(c)
    BY <1>1 DEF IsCell, Good
  <2>2. DOMAIN c2 = DOMAIN c /\ c2[x.src] = c[x.src]
    BY <1>1 DEF PutIn
  <2>3. P \in Path
    BY <1>1
  <2> HIDE DEF P, v, x
  <2>4. \A p \in Path : p # <<>> /\ Parent(p) = P => (Listed(c2, p) <=> p \in Elems(v))
    BY <2>1, <2>3, PutFacts
  <2> QED BY <2>2, <2>4
<1> HIDE DEF c2
<1>4. ~Listed(c2, x.src)
  BY <1>1, <1>2, <1>3
<1>5. IsFolder(x.src) => All(c2, x2) = {}
  BY <1>3 DEF Good, PhaseInv, Phase, Begun, All
<1>7. Phase(c2, x2) /\ Busy(x2)
  BY <1>1, <1>3, <1>4, <1>5 DEF Phase, Shape, Looping, Busy, Op
<1>8. Orphan(c2, x2, x.src)
  BY DEF Orphan, Hanging
<1>9. \A p \in Path : ~Orphan(c, x, p) /\ ~Wanting(c, x, p)
  BY EarlyOwns DEF Early
<1> QED BY <1>1, <1>2, <1>4, <1>7, <1>8, <1>9, ListingKept DEF c2

(* ... and of the last entry of "/", whose cell is deleted.                *)
LEMMA DeleteDropped ==
    ASSUME NEW c, NEW R, Good(c, R), Request = DOMAIN R, NEW q \in Request, Busy(R[q]), R[q].pc = "put",
           R[q].op = "delete", R[q].seen = Reading(c, Parent(R[q].src)), R[q].fids = <<Blank>>,
           NEW x2, x2.op = R[q].op, x2.src = R[q].src, x2.dst = R[q].dst, x2.pc = "drop"
    PROVE  Good(DropFrom(c, Parent(R[q].src)), [R EXCEPT ![q] = x2])
<1> DEFINE x == R[q]
           P == Parent(x.src)
           c2 == DropFrom(c, P)
<1>1. /\ Shape(x) /\ ShapePaths(x) /\ P \in DOMAIN c /\ P # x.src
      /\ x.src \in DOMAIN c /\ IsListing(c[P], P) /\ IsListing(<<Blank>>, P)
      /\ Paths(<<Blank>>) = Paths(c[P]) \ {x.src}
  BY ErasedWritten
<1>2. x.src \in Path /\ x.src # <<>> /\ x.dst = x.src
  BY <1>1 DEF Shape, ShapePaths
<1>3. P = <<>>
  BY <1>1, ListingIsNot
<1>4. Paths(c[P]) \subseteq {x.src}
  BY <1>1, Marks DEF Paths, Elems
<1>5. /\ DOMAIN c2 = DOMAIN c \ {P} /\ CellInv(c2) /\ \A p \in DOMAIN c \ {P} : c2[p] = c[p]
      /\ \A p \in Path : Listed(c2, p) <=> Listed(c, p) /\ Parent(p) # P
  <2>1. CellInv(c)
    BY DEF Good
  <2> HIDE DEF P, x
  <2> QED BY <2>1, DropFacts
<1> HIDE DEF c2
<1>6. \A p \in Path : Parent(p) = P /\ Listed(c, p) => p = x.src
  BY <1>4, ListedFacts DEF Good
<1>7. Kin(x, x.src) /\ Related(P, x.src)
  BY <1>1, <1>2, PrefixItself, PrefixParent DEF Kin, Related
<1>8. Minds(c, c2, x)
  <2>1. \A p \in Path : p # <<>> /\ ~Kin(x, p) =>
          (Listed(c2, p) <=> Listed(c, p)) /\ (p \in DOMAIN c2 <=> p \in DOMAIN c)
    BY <1>3, <1>5, <1>6, <1>7
  <2>2. \A p \in Path : ~Related(p, x.src) /\ ~Related(p, x.dst) => Same(c, c2, p)
    BY <1>5, <1>7 DEF Same
  <2> QED BY <1>3, <1>4, <2>1, <2>2 DEF Minds
<1>9. ~Listed(c2, x.src) /\ x.src \in DOMAIN c2 /\ c2[x.src] = c[x.src]
  BY <1>1, <1>2, <1>5
<1>10. IsFolder(x.src) => All(c2, x2) = {}
  BY <1>9 DEF Good, PhaseInv, Phase, Begun, All
<1>11. Phase(c2, x2) /\ Busy(x2)
  BY <1>1, <1>9, <1>10 DEF Phase, Shape, Looping, Busy, Op
<1>12. Orphan(c2, x2, x.src)
  BY DEF Orphan, Hanging
<1>13. Answers(c2, x2)
  <2> SUFFICES ASSUME NEW p \in Path, p # <<>>, Kin(x, p)
               PROVE  /\ p \in DOMAIN c2 => Listed(c2, p) \/ Orphan(c2, x2, p)
                      /\ Listed(c2, p) => p \in DOMAIN c2
    BY <1>11 DEF Answers, Kin
  <2>1. p \in DOMAIN c <=> Listed(c, p)
    BY AnswersNow, EarlyOwns DEF Answers, Early
  <2> QED BY <1>3, <1>5, <1>6, <1>12, <2>1
<1> QED BY <1>5, <1>8, <1>11, <1>13, Kept DEF c2

(* /rename-file writes the listing.                                        *)
LEMMA RenameWritten ==
    ASSUME NEW c, NEW R, Good(c, R), Request = DOMAIN R, NEW q \in Request, Busy(R[q]), R[q].pc = "put",
           R[q].op = "rename", R[q].seen = Reading(c, Parent(R[q].src)),
           NEW x2, x2.op = R[q].op, x2.src = R[q].src, x2.dst = R[q].dst, x2.pc = "fetch"
    PROVE  Good(PutIn(c, Parent(R[q].src), R[q].fids), [R EXCEPT ![q] = x2])
<1> DEFINE x == R[q]
           P == Parent(x.src)
           v == x.fids
           c2 == PutIn(c, P, v)
<1>1. Phase(c, x) /\ Shape(x) /\ ShapePaths(x) /\ P # x.src /\ P \in Path /\ IsFolder(P)
  BY PhasePaths, PrefixParent, ParentFacts DEF Good, PhaseInv, Phase, Shape, ShapePaths
<1>2. /\ Listed(c, x.src) /\ x.src \in DOMAIN c /\ P \in DOMAIN c
      /\ x.src \in Path /\ x.src # <<>> /\ x.dst \in Path /\ x.dst # <<>> /\ Parent(x.dst) = P
  BY <1>1 DEF Phase, Begun, Listed, ShapePaths, Shape
<1>3. /\ IsListing(c[P], P) /\ x.src \in Elems(c[P])
      /\ \A t \in Path : t # <<>> /\ Parent(t) = P => (Listed(c, t) <=> t \in Elems(c[P]))
  BY <1>1, <1>2, PlaceIs DEF Good
<1>4. v = Renamed(c[P], x.src, x.dst) /\ ~Finds(c[P], x.dst)
  BY <1>1, <1>2 DEF Phase, Prepared, Reading
<1>5. x.dst \notin Elems(c[P])
  BY <1>2, <1>4, FindsMember
<1>6. IsListing(v, P) /\ Paths(v) = (Paths(c[P]) \ {x.src}) \cup {x.dst}
  BY <1>2, <1>3, <1>4, <1>5, RenamedListing
<1>7. \A t \in Path : t \in Elems(v) <=> t = x.dst \/ (t # x.src /\ t \in Elems(c[P]))
  BY <1>2, <1>6 DEF Paths
<1>8. ~Listed(c, x.dst) /\ x.dst # x.src
  BY <1>2, <1>3, <1>5
<1>9. x.dst \notin DOMAIN c
  BY <1>8, AbsentCell DEF Early
<1>10. /\ DOMAIN c2 = DOMAIN c
       /\ \A p \in Path : p # <<>> /\ Parent(p) = P => (Listed(c2, p) <=> p \in Elems(v))
  <2>1. IsCell(P, v) /\ CellInv(c)
    BY <1>1, <1>6 DEF IsCell, Good
  <2>2. DOMAIN c2 = DOMAIN c
    BY <1>2 DEF PutIn
  <2>3. P \in Path
    BY <1>1
  <2> HIDE DEF P, v, x
  <2>4. \A p \in Path : p # <<>> /\ Parent(p) = P => (Listed(c2, p) <=> p \in Elems(v))
    BY <2>1, <2>3, PutFacts
  <2> QED BY <2>2, <2>4
<1> HIDE DEF c2
<1>11. ~Listed(c2, x.src) /\ Listed(c2, x.dst) /\ x.src \in DOMAIN c2 /\ x.dst \notin DOMAIN c2
  BY <1>2, <1>7, <1>8, <1>9, <1>10
<1>12. Phase(c2, x2) /\ Busy(x2)
  BY <1>1, <1>11 DEF Phase, Shape, Looping, Busy, Op, Halfway
<1>13. Orphan(c2, x2, x.src) /\ Wanting(c2, x2, x.dst)
  BY DEF Orphan, Hanging, Wanting
<1>14. \A p \in Path : ~Orphan(c, x, p) /\ ~Wanting(c, x, p)
  BY EarlyOwns DEF Early
<1>15. \A t \in Path \ {x.src, x.dst, <<>>} : Parent(t) = P => (t \in Elems(v) <=> Listed(c, t))
  BY <1>3, <1>7
<1> QED BY <1>1, <1>2, <1>6, <1>11, <1>12, <1>13, <1>14, <1>15, ListingKept DEF c2

(* The listing of the target.                                              *)
LEMMA TargetRead ==
    ASSUME NEW c, NEW R, Good(c, R), Request = DOMAIN R, NEW q \in Request, Busy(R[q]), R[q].pc = "to",
           NEW x2, x2.op = R[q].op, x2.src = R[q].src, x2.dst = R[q].dst, x2.pc = "putto",
           x2.data = R[q].data, x2.fids = Append(x2.seen, x2.dst), x2.seen # <<Err>>
    PROVE  Good(c, [R EXCEPT ![q] = x2])
<1>1. Phase(c, R[q]) /\ Shape(R[q])
  BY DEF Good, PhaseInv, Phase
<1>2. Phase(c, x2) /\ Busy(x2)
  BY <1>1 DEF Phase, Shape, Looping, Busy, Op, Erasing
<1>3. \A p : (Orphan(c, R[q], p) <=> p = R[q].src) /\ (Orphan(c, x2, p) <=> p = R[q].src) /\ ~Wanting(c, R[q], p)
  BY EarlyOwns
<1> QED BY <1>2, <1>3, LocalKept

LEMMA TargetWritten ==
    ASSUME NEW c, NEW R, Good(c, R), Request = DOMAIN R, NEW q \in Request, Busy(R[q]), R[q].pc = "putto",
           R[q].seen = Reading(c, Parent(R[q].dst)), R[q].dst \notin Elems(R[q].seen),
           NEW x2, x2.op = R[q].op, x2.src = R[q].src, x2.dst = R[q].dst, x2.pc = "fetch"
    PROVE  Good(PutIn(c, Parent(R[q].dst), R[q].fids), [R EXCEPT ![q] = x2])
<1> DEFINE x == R[q]
           P == Parent(x.dst)
           v == x.fids
           c2 == PutIn(c, P, v)
<1>1. Phase(c, x) /\ Shape(x) /\ ShapePaths(x) /\ P # x.dst /\ P \in Path /\ IsFolder(P)
  BY PhasePaths, PrefixParent, ParentFacts DEF Good, PhaseInv, Phase, Shape, ShapePaths
<1>2. /\ ~Listed(c, x.src) /\ x.src \in DOMAIN c /\ P \in DOMAIN c /\ x.op = "move"
      /\ x.src \in Path /\ x.src # <<>> /\ x.dst \in Path /\ x.dst # <<>>
      /\ x.dst # x.src => Parent(x.src) # P
  BY <1>1 DEF Phase, Erasing, ShapePaths, Shape, Looping, Reading
<1>3. /\ IsListing(c[P], P)
      /\ \A t \in Path : t # <<>> /\ Parent(t) = P => (Listed(c, t) <=> t \in Elems(c[P]))
  BY <1>1, <1>2, PlaceIs DEF Good
<1>4. v = Append(c[P], x.dst) /\ x.dst \notin Elems(c[P])
  BY <1>1, <1>2 DEF Phase, Reading
<1>6. IsListing(v, P) /\ Paths(v) = Paths(c[P]) \cup {x.dst}
  BY <1>2, <1>3, <1>4, AppendListing
<1>7. \A t \in Path : t \in Elems(v) <=> t = x.dst \/ t \in Elems(c[P])
  BY <1>2, <1>6 DEF Paths
<1>8. ~Listed(c, x.dst)
  BY <1>2, <1>3, <1>4
<1>9. x.dst # x.src => x.dst \notin DOMAIN c
  BY <1>8, AbsentCell
<1>10. /\ DOMAIN c2 = DOMAIN c
       /\ \A p \in Path : p # <<>> /\ Parent(p) = P => (Listed(c2, p) <=> p \in Elems(v))
       /\ \A p \in Path : p = <<>> \/ Parent(p) # P => (Listed(c2, p) <=> Listed(c, p))
  <2>1. IsCell(P, v) /\ CellInv(c)
    BY <1>1, <1>6 DEF IsCell, Good
  <2>2. DOMAIN c2 = DOMAIN c
    BY <1>2 DEF PutIn
  <2>3. P \in Path
    BY <1>1
  <2> HIDE DEF P, v, x
  <2>4. \A p \in Path : p # <<>> /\ Parent(p) = P => (Listed(c2, p) <=> p \in Elems(v))
    BY <2>1, <2>3, PutFacts
  <2>5. \A p \in Path : p = <<>> \/ Parent(p) # P => (Listed(c2, p) <=> Listed(c, p))
    BY <2>1, <2>3, PutFacts
  <2> QED BY <2>2, <2>4, <2>5
<1> HIDE DEF c2
<1>11. /\ Listed(c2, x.dst) /\ x.src \in DOMAIN c2
       /\ x.dst # x.src => ~Listed(c2, x.src) /\ x.dst \notin DOMAIN c2
  BY <1>2, <1>7, <1>8, <1>9, <1>10
<1>12. Phase(c2, x2) /\ Busy(x2)
  BY <1>1, <1>2, <1>11 DEF Phase, Shape, Looping, Busy, Op, Halfway
<1>13. Orphan(c2, x2, x.src) /\ Wanting(c2, x2, x.dst)
  BY <1>2 DEF Orphan, Hanging, Wanting
<1>14. \A p \in Path \ {x.src, x.dst} : ~Orphan(c, x, p) /\ ~Wanting(c, x, p)
  BY EarlyOwns
<1>15. \A t \in Path \ {x.src, x.dst, <<>>} : Parent(t) = P => (t \in Elems(v) <=> Listed(c, t))
  BY <1>3, <1>7
<1> QED BY <1>1, <1>2, <1>6, <1>11, <1>12, <1>13, <1>14, <1>15, ListingKept DEF c2

-----------------------------------------------------------------------------
(* The data.                                                               *)
LEMMA FetchFacts ==
    ASSUME NEW c, NEW R, Good(c, R), NEW q \in Request, Busy(R[q]), R[q].pc = "fetch"
    PROVE  LET x == R[q] IN
           /\ Phase(c, x) /\ Shape(x) /\ ShapePaths(x) /\ x.op \in {"rename", "move"}
           /\ Halfway(c, x) /\ x.src \in DOMAIN c
           /\ \A p : (Orphan(c, x, p) <=> p = x.src) /\ (Wanting(c, x, p) <=> p = x.dst)
<1>1. Phase(c, R[q]) /\ ShapePaths(R[q])
  BY PhasePaths DEF Good, PhaseInv
<1>2. Shape(R[q]) /\ R[q].op \in {"rename", "move"}
  BY <1>1 DEF Phase, Shape, Looping
<1>3. Halfway(c, R[q])
  BY <1>1, <1>2 DEF Phase
<1>4. \A p : (Orphan(c, R[q], p) <=> p = R[q].src) /\ (Wanting(c, R[q], p) <=> p = R[q].dst)
  BY <1>2 DEF Orphan, Wanting, Hanging, Carries, Looping
<1> QED BY <1>1, <1>2, <1>3, <1>4 DEF Halfway

LEMMA FileRead ==
    ASSUME NEW c, NEW R, Good(c, R), Request = DOMAIN R, NEW q \in Request, Busy(R[q]), R[q].pc = "fetch",
           ~IsFolder(R[q].src),
           NEW x2, x2.op = R[q].op, x2.src = R[q].src, x2.dst = R[q].dst, x2.pc = "drop",
           x2.data = c[R[q].src]
    PROVE  Good(c, [R EXCEPT ![q] = x2])
<1> DEFINE x == R[q]
<1>1. /\ Shape(x) /\ ShapePaths(x) /\ x.op \in {"rename", "move"} /\ Halfway(c, x)
      /\ \A p : (Orphan(c, x, p) <=> p = x.src) /\ (Wanting(c, x, p) <=> p = x.dst)
  BY FetchFacts
<1>2. Halfway(c, x2)
  BY <1>1 DEF Halfway
<1>3. Shape(x2)
  BY <1>1 DEF Shape, Looping
<1>4. Phase(c, x2) /\ Busy(x2)
  BY <1>1, <1>2, <1>3 DEF Phase, Looping, Busy, Op
<1>5. Orphan(c, x2, x.src) /\ Wanting(c, x2, x.dst)
  BY <1>1 DEF Orphan, Wanting, Hanging
<1> QED BY <1>1, <1>4, <1>5, LocalKept

(* The listing of an empty folder serves for another one.                  *)
LEMMA EmptyFolderRead ==
    ASSUME NEW c, NEW R, Good(c, R), Request = DOMAIN R, NEW q \in Request, Busy(R[q]), R[q].pc = "fetch",
           R[q].op = "move", IsFolder(R[q].src), \A k : k \notin All(c, R[q]),
           NEW x2, x2.op = R[q].op, x2.src = R[q].src, x2.dst = R[q].dst, x2.pc = "drop",
           x2.data = c[R[q].src], x2.left = <<>>
    PROVE  Good(c, [R EXCEPT ![q] = x2])
<1> DEFINE x == R[q]
<1>a. /\ Shape(x) /\ ShapePaths(x) /\ Halfway(c, x)
      /\ \A p : (Orphan(c, x, p) <=> p = x.src) /\ (Wanting(c, x, p) <=> p = x.dst)
  <2>1. Shape(x) /\ ShapePaths(x) /\ Halfway(c, x)
    BY FetchFacts
  <2>2. \A p : (Orphan(c, x, p) <=> p = x.src) /\ (Wanting(c, x, p) <=> p = x.dst)
    BY DEF Orphan, Wanting, Hanging, Carries, Looping
  <2> QED BY <2>1, <2>2
<1>1. /\ Shape(x) /\ ShapePaths(x) /\ Halfway(c, x) /\ x.src \in DOMAIN c
      /\ \A p : (Orphan(c, x, p) <=> p = x.src) /\ (Wanting(c, x, p) <=> p = x.dst)
  BY <1>a DEF Halfway
<1>2. Halfway(c, x2)
  BY <1>1 DEF Halfway
<1>3. Shape(x2)
  BY <1>1 DEF Shape, Looping
<1>4. IsListing(c[x.src], x.src) /\ Paths(c[x.src]) = {}
  BY <1>1, PlaceIs DEF Good, All
<1>5. IsListing(c[x.src], x.dst)
  BY <1>1, <1>4 DEF IsListing, ShapePaths
<1>6. Rest(x2) = {} /\ x2.left \in Seq(Path \cup {Up, Blank}) /\ Single(x2.left)
  BY DEF Rest, Paths, Elems, Single
<1>7. All(c, x2) = {} /\ Gone(c, x2) = {}
  BY DEF All, Gone
<1>8. Paths(x2.data) = {Moved(x2, k) : k \in All(c, x2)}
  BY <1>4, <1>7
<1>9. Loop(c, x2)
  BY <1>5, <1>6, <1>7, <1>8 DEF Loop
<1>10. Phase(c, x2) /\ Busy(x2)
  BY <1>2, <1>3, <1>7, <1>9 DEF Phase, Looping, Busy, Op
<1>11. Orphan(c, x2, x.src) /\ Wanting(c, x2, x.dst)
  BY DEF Orphan, Wanting, Hanging
<1> QED BY <1>1, <1>10, <1>11, LocalKept

LEMMA FolderRead ==
    ASSUME NEW c, NEW R, Good(c, R), Request = DOMAIN R, NEW q \in Request, Busy(R[q]), R[q].pc = "fetch",
           R[q].op = "rename", IsFolder(R[q].src), \A k \in All(c, R[q]) : ~IsFolder(k),
           NEW x2, x2.op = R[q].op, x2.src = R[q].src, x2.dst = R[q].dst,
           x2.data = Renewed(R[q].dst, c[R[q].src]), x2.left = Kids(q, c[R[q].src]),
           x2.pc = IF x2.left = <<>> THEN "drop" ELSE "kid"
    PROVE  Good(c, [R EXCEPT ![q] = x2])
<1> DEFINE x == R[q]
           v == c[x.src]
<1>a. /\ Shape(x) /\ ShapePaths(x) /\ Halfway(c, x)
      /\ \A p : (Orphan(c, x, p) <=> p = x.src) /\ (Wanting(c, x, p) <=> p = x.dst)
  BY FetchFacts
<1>1. /\ Shape(x) /\ ShapePaths(x) /\ Halfway(c, x) /\ x.src \in DOMAIN c
      /\ \A p : (Orphan(c, x, p) <=> p = x.src) /\ (Wanting(c, x, p) <=> p = x.dst)
  BY <1>a DEF Halfway
<1>2. Halfway(c, x2)
  BY <1>1 DEF Halfway
<1>3. x2.pc \in {"drop", "kid"}
  OBVIOUS
<1>4. Shape(x2)
  BY <1>1, <1>3 DEF Shape, Looping
<1>5. IsListing(v, x.src) /\ v \in Seq(Path \cup {Up, Blank}) /\ Single(v)
  BY <1>1, PlaceIs DEF Good, IsListing
<1>6. /\ x2.left \in Seq(Path \cup {Up, Blank}) /\ Single(x2.left) /\ Elems(x2.left) \subseteq Elems(v)
      /\ \A t \in Elems(v) : IsFile(t) => t \in Elems(x2.left)
      /\ x2.left # <<>> => IsFile(Head(x2.left)) /\ Head(x2.left) \in Elems(v)
  BY <1>5, KidsFacts
<1>7. All(c, x2) = All(c, x) /\ All(c, x) = Paths(v)
  BY DEF All
<1>8. \A k \in Paths(v) : k \in Path /\ k # <<>> /\ ~IsFolder(k) /\ IsFile(k)
  BY <1>5, <1>7 DEF IsListing, IsFile, IsEntry, Paths
<1>9. Rest(x2) = Paths(v)
  BY <1>6, <1>8 DEF Rest, Paths
<1>10. Gone(c, x2) = {}
  BY <1>7, <1>9 DEF Gone
<1>11. IsListing(x2.data, x.dst) /\ Paths(x2.data) = {Into(x.dst, k) : k \in Paths(v)}
  <2>1. x.dst \in Path /\ x.dst # <<>> /\ Len(x.dst) <= MaxDepth /\ x.src \in Path /\ x.src # <<>>
    BY <1>1 DEF Shape, Asked
  <2>2. \A t \in Paths(v) : ~IsFolder(t)
    BY <1>8
  <2>3. x2.data = Renewed(x.dst, v)
    OBVIOUS
  <2> HIDE DEF v
  <2> QED BY <1>5, <2>1, <2>2, <2>3, RenewedListing
<1>12. \A k \in Paths(v) : k \in DOMAIN c
  <2> SUFFICES ASSUME NEW k \in Paths(v) PROVE k \in DOMAIN c
    OBVIOUS
  <2>1. k \in Path /\ k # <<>> /\ Parent(k) = x.src /\ IsPrefix(x.src, k)
    BY <1>1, <1>7, AllKin DEF Good
  <2>2. Listed(c, k) /\ Kin(x, k)
    BY <1>1, <2>1 DEF Listed, Paths, Kin
  <2>3. k # x.dst
    BY <1>1, <1>8 DEF Shape
  <2> QED BY <1>1, <2>1, <2>2, <2>3, AnswersNow DEF Answers
<1>13. Loop(c, x2)
  <2>1. Paths(x2.data) = {Moved(x2, k) : k \in All(c, x2)}
    BY <1>7, <1>11 DEF Moved
  <2> QED BY <1>3, <1>6, <1>7, <1>8, <1>9, <1>10, <1>11, <1>12, <2>1 DEF Loop
<1>14. x2.left # <<>> => Head(x2.left) \in Rest(x2)
  BY <1>6, <1>9 DEF Paths, IsFile, IsEntry
<1>15. x2.left # <<>> => InLoop(c, x2)
  BY <1>14 DEF InLoop
<1>16. Phase(c, x2) /\ Busy(x2)
  BY <1>2, <1>3, <1>4, <1>13, <1>15 DEF Phase, Looping, Busy, Op
<1>17. Orphan(c, x2, x.src) /\ Wanting(c, x2, x.dst)
  BY <1>3 DEF Orphan, Wanting, Hanging, Looping
<1> QED BY <1>1, <1>16, <1>17, LocalKept

(* The next file of a folder that is renamed.                              *)
LEMMA LoopFacts ==
    ASSUME NEW c, NEW R, Good(c, R), NEW q \in Request, Busy(R[q]), R[q].pc \in Looping,
           NEW k, k = Head(R[q].left)
    PROVE  LET x == R[q] IN
           /\ Phase(c, x) /\ Shape(x) /\ ShapePaths(x) /\ x.op = "rename" /\ IsFolder(x.src) /\ IsFolder(x.dst)
           /\ Halfway(c, x) /\ Loop(c, x) /\ InLoop(c, x) /\ Carries(x) /\ Hanging(x)
           /\ k \in All(c, x) /\ k \in Rest(x) /\ k \in Path /\ k # <<>> /\ Parent(k) = x.src /\ k # x.src
           /\ k # x.dst /\ ~IsFolder(k) /\ Kin(x, k)
           /\ Moved(x, k) \in Path /\ Moved(x, k) # <<>> /\ Parent(Moved(x, k)) = x.dst
           /\ ~IsFolder(Moved(x, k)) /\ Kin(x, Moved(x, k))
<1>1. Phase(c, R[q]) /\ ShapePaths(R[q])
  BY PhasePaths DEF Good, PhaseInv
<1>2. Shape(R[q]) /\ R[q].op = "rename" /\ IsFolder(R[q].src) /\ IsFolder(R[q].dst)
  BY <1>1 DEF Phase, Shape, Looping
<1>3. Halfway(c, R[q]) /\ Loop(c, R[q]) /\ InLoop(c, R[q])
  BY <1>1, <1>2 DEF Phase
<1>4. Carries(R[q]) /\ Hanging(R[q])
  BY <1>2 DEF Carries, Hanging
<1>5. k \in All(c, R[q]) /\ k \in Rest(R[q]) /\ ~IsFolder(k)
  BY <1>3 DEF Loop, InLoop
<1>6. R[q].src \in DOMAIN c
  BY <1>3 DEF Halfway
<1>7. /\ k \in Path /\ k # <<>> /\ Parent(k) = R[q].src /\ k # R[q].src /\ IsPrefix(R[q].src, k)
      /\ Moved(R[q], k) \in Path /\ Moved(R[q], k) # <<>> /\ Parent(Moved(R[q], k)) = R[q].dst
      /\ ~IsFolder(Moved(R[q], k)) /\ IsPrefix(R[q].dst, Moved(R[q], k))
  BY <1>2, <1>5, <1>6, AllKin DEF Good
<1> QED BY <1>1, <1>2, <1>3, <1>4, <1>5, <1>7 DEF Kin

(* Two files of a folder do not take one name in the other.                *)
LEMMA MovedOnce ==
    ASSUME NEW c, CellInv(c), NEW x, Shape(x), x.src \in DOMAIN c, NEW k \in All(c, x), NEW m \in All(c, x),
           Moved(x, k) = Moved(x, m)
    PROVE  k = m
<1>1. k \in Path /\ k # <<>> /\ m \in Path /\ m # <<>> /\ Parent(k) = Parent(m)
  BY AllKin
<1>2. x.dst \in Path /\ Len(x.dst) <= MaxDepth
  BY DEF Shape, Asked
<1> QED BY <1>1, <1>2, IntoInjective DEF Moved

(* A file of the folder is read, and its cell is deleted.                  *)
LEMMA KidRead ==
    ASSUME NEW c, NEW R, Good(c, R), Request = DOMAIN R, NEW q \in Request, Busy(R[q]), R[q].pc = "kid",
           NEW x2, x2.op = R[q].op, x2.src = R[q].src, x2.dst = R[q].dst, x2.pc = "kiddrop",
           x2.data = R[q].data, x2.left = R[q].left, x2.kid = c[Head(R[q].left)]
    PROVE  Good(c, [R EXCEPT ![q] = x2])
<1> DEFINE x == R[q]
<1>1. Shape(x) /\ x.op = "rename" /\ IsFolder(x.src) /\ Halfway(c, x) /\ Loop(c, x) /\ InLoop(c, x)
  BY LoopFacts DEF Looping
<1>2. Shape(x2) /\ Halfway(c, x2)
  BY <1>1 DEF Shape, Halfway, Looping
<1>3. All(c, x2) = All(c, x) /\ Gone(c, x2) = Gone(c, x) /\ Rest(x2) = Rest(x)
      /\ \A k : Moved(x2, k) = Moved(x, k)
  BY DEF All, Gone, Rest, Moved
<1>4. Loop(c, x2)
  BY <1>1, <1>3 DEF Loop
<1>5. InLoop(c, x2)
  BY <1>1, <1>3 DEF InLoop
<1>6. Phase(c, x2) /\ Busy(x2)
  BY <1>1, <1>2, <1>4, <1>5 DEF Phase, Looping, Busy, Op
<1>7. \A p : /\ Orphan(c, x, p) => Orphan(c, x2, p)
             /\ Wanting(c, x, p) => Wanting(c, x2, p)
  BY <1>1, <1>3 DEF Orphan, Wanting, Hanging, Carries, Looping
<1> QED BY <1>6, <1>7, LocalKept

LEMMA KidDropped ==
    ASSUME NEW c, NEW R, Good(c, R), Request = DOMAIN R, NEW q \in Request, Busy(R[q]), R[q].pc = "kiddrop",
           NEW x2, x2.op = R[q].op, x2.src = R[q].src, x2.dst = R[q].dst, x2.pc = "kidput",
           x2.data = R[q].data, x2.left = R[q].left, x2.kid = R[q].kid
    PROVE  /\ Good(DropFrom(c, Head(R[q].left)), [R EXCEPT ![q] = x2])
           /\ R[q].kid = c[Head(R[q].left)] /\ Head(R[q].left) \in DOMAIN c
<1> DEFINE x == R[q]
<1>0. PICK k : k = Head(x.left)
  OBVIOUS
<1>1. /\ Shape(x) /\ ShapePaths(x) /\ x.op = "rename" /\ IsFolder(x.src) /\ IsFolder(x.dst)
      /\ Halfway(c, x) /\ Loop(c, x) /\ InLoop(c, x) /\ Carries(x) /\ Hanging(x)
      /\ k \in All(c, x) /\ k \in Rest(x) /\ k \in Path /\ k # <<>> /\ Parent(k) = x.src /\ k # x.src
      /\ k # x.dst /\ ~IsFolder(k) /\ Kin(x, k)
  BY <1>0, LoopFacts DEF Looping
<1> DEFINE c2 == DropFrom(c, k)
<1>2. /\ DOMAIN c2 = DOMAIN c \ {k} /\ CellInv(c2) /\ \A p \in DOMAIN c \ {k} : c2[p] = c[p]
      /\ \A p \in Path : Listed(c2, p) <=> Listed(c, p) /\ Parent(p) # k
  BY DropFacts DEF Good
<1>3. Minds(c, c2, x)
  BY <1>1, MindsDrop DEF Good
<1> HIDE DEF c2
<1>4. \A p \in Path : Listed(c2, p) <=> Listed(c, p)
  BY <1>1, <1>2, ListedFacts DEF Good
<1>5. Halfway(c2, x2)
  BY <1>1, <1>2, <1>4 DEF Halfway, ShapePaths
<1>6. k \in DOMAIN c /\ x.kid = c[k]
  BY <1>0, <1>1 DEF Loop, InLoop
<1>7. \E d \in Content : x.kid = <<d>>
  BY <1>1, <1>6, FolderCell DEF Good
<1>8. x.src \in DOMAIN c /\ c2[x.src] = c[x.src] /\ x.dst \notin DOMAIN c
  BY <1>1, <1>2 DEF Halfway
<1>9. All(c2, x2) = All(c, x) /\ Gone(c2, x2) = Gone(c, x) /\ Rest(x2) = Rest(x)
      /\ \A m : Moved(x2, m) = Moved(x, m)
  BY <1>8 DEF All, Gone, Rest, Moved
<1>10. \A m \in All(c, x) : Parent(Moved(x, m)) = x.dst
  BY <1>1, <1>8, AllKin DEF Good
<1>11. \A m \in All(c, x) : Moved(x, m) # k
  BY <1>1, <1>8, <1>10
<1>12. \A m \in Gone(c, x) : Moved(x, m) \in DOMAIN c2 /\ m \notin DOMAIN c2
  BY <1>1, <1>2, <1>11 DEF Loop, Gone
<1>13. \A m \in Rest(x) : m \in DOMAIN c2 <=> m # k
  BY <1>1, <1>2 DEF Loop
<1>14. Loop(c2, x2)
  BY <1>0, <1>1, <1>9, <1>12, <1>13 DEF Loop
<1>15. InLoop(c2, x2)
  BY <1>0, <1>1, <1>7, <1>9 DEF InLoop
<1>16. Shape(x2)
  BY <1>1 DEF Shape, Looping
<1>17. Phase(c2, x2) /\ Busy(x2)
  BY <1>1, <1>5, <1>14, <1>15, <1>16 DEF Phase, Looping, Busy, Op
<1>18. \A p : /\ Orphan(c, x, p) => Orphan(c2, x2, p)
              /\ Wanting(c, x, p) \/ p = k => Wanting(c2, x2, p)
  BY <1>0, <1>1, <1>9 DEF Orphan, Wanting, Hanging, Carries, Looping
<1>19. Answers(c2, x2)
  <2> SUFFICES ASSUME NEW p \in Path, p # <<>>, Kin(x, p)
               PROVE  /\ p \in DOMAIN c2 => Listed(c2, p) \/ Orphan(c2, x2, p)
                      /\ Listed(c2, p) => p \in DOMAIN c2 \/ Wanting(c2, x2, p)
    BY <1>17 DEF Answers, Kin
  <2>1. /\ p \in DOMAIN c => Listed(c, p) \/ Orphan(c, x, p)
        /\ Listed(c, p) => p \in DOMAIN c \/ Wanting(c, x, p)
    BY AnswersNow DEF Answers
  <2> QED BY <1>2, <1>4, <1>18, <2>1
<1>20. Good(c2, [R EXCEPT ![q] = x2])
  BY <1>2, <1>3, <1>17, <1>19, Kept
<1> QED BY <1>0, <1>6, <1>20 DEF c2

(* The name a file is about to take in the new folder is free.             *)
LEMMA NewNameFree ==
    ASSUME NEW c, NEW R, Good(c, R), NEW q \in Request, Busy(R[q]), R[q].pc \in Looping,
           NEW k, k = Head(R[q].left)
    PROVE  Moved(R[q], k) \notin DOMAIN c
<1> DEFINE x == R[q]
           m == Moved(x, k)
<1>1. /\ Shape(x) /\ ShapePaths(x) /\ IsFolder(x.src) /\ Halfway(c, x) /\ Carries(x)
      /\ k \in All(c, x) /\ k \in Rest(x)
      /\ m \in Path /\ m # <<>> /\ Parent(m) = x.dst /\ ~IsFolder(m) /\ Kin(x, m)
  BY LoopFacts
<1>2. ~Listed(c, m)
  BY <1>1 DEF Listed, Halfway, Carries
<1>3. x.src \in DOMAIN c
  BY <1>1 DEF Halfway
<1>4. \A j \in Gone(c, x) : Moved(x, j) # m
  BY <1>1, <1>3, MovedOnce DEF Gone, Good
<1>5. ~Orphan(c, x, m)
  BY <1>1, <1>4 DEF Orphan, Looping
<1> QED BY <1>1, <1>2, <1>5, AnswersNow DEF Answers

(* The file is written under its new path.                                 *)
LEMMA KidWritten ==
    ASSUME NEW c, NEW R, Good(c, R), Request = DOMAIN R, NEW q \in Request, Busy(R[q]), R[q].pc = "kidput",
           NEW x2, x2.op = R[q].op, x2.src = R[q].src, x2.dst = R[q].dst,
           x2.data = R[q].data, x2.left = Kids(q, Tail(R[q].left)),
           x2.pc = IF x2.left = <<>> THEN "drop" ELSE "kid"
    PROVE  Good(PutIn(c, Moved(R[q], Head(R[q].left)), R[q].kid), [R EXCEPT ![q] = x2])
<1> DEFINE x == R[q]
<1>0. PICK k : k = Head(x.left)
  OBVIOUS
<1>1. /\ Shape(x) /\ ShapePaths(x) /\ x.op = "rename" /\ IsFolder(x.src) /\ IsFolder(x.dst)
      /\ Halfway(c, x) /\ Loop(c, x) /\ InLoop(c, x) /\ Carries(x) /\ Hanging(x)
      /\ k \in All(c, x) /\ k \in Rest(x) /\ k \in Path /\ k # <<>> /\ Parent(k) = x.src
      /\ ~IsFolder(k) /\ Kin(x, k)
  BY <1>0, LoopFacts DEF Looping
<1>2. PICK m : m = Moved(x, k)
  OBVIOUS
<1>3. m \in Path /\ m # <<>> /\ Parent(m) = x.dst /\ ~IsFolder(m) /\ Kin(x, m)
  BY <1>0, <1>2, LoopFacts DEF Looping
<1>4. m \notin DOMAIN c
  BY <1>0, <1>2, NewNameFree DEF Looping
<1>5. PICK d \in Content : x.kid = <<d>>
  BY <1>1 DEF InLoop
<1>6. IsCell(m, x.kid) /\ \A t \in Path : t \notin Elems(x.kid)
  BY <1>3, <1>5, Marks DEF IsCell, Elems
<1>7. PICK c2 : c2 = PutIn(c, m, x.kid)
  OBVIOUS
<1>8. /\ DOMAIN c2 = DOMAIN c \cup {m} /\ CellInv(c2) /\ \A p \in DOMAIN c \ {m} : c2[p] = c[p]
      /\ \A p \in Path : p # <<>> /\ Parent(p) = m => (Listed(c2, p) <=> p \in Elems(x.kid))
      /\ \A p \in Path : p = <<>> \/ Parent(p) # m => (Listed(c2, p) <=> Listed(c, p))
  <2>1. DOMAIN c2 = DOMAIN c \cup {m} /\ \A p \in DOMAIN c \ {m} : c2[p] = c[p]
    BY <1>7 DEF PutIn
  <2>2. CellInv(c) /\ IsCell(m, x.kid) /\ m \in Path
    BY <1>3, <1>6 DEF Good
  <2> HIDE DEF x
  <2>3. CellInv(c2)
    BY <1>7, <2>2, PutAlso
  <2>4. \A p \in Path : p # <<>> /\ Parent(p) = m => (Listed(c2, p) <=> p \in Elems(x.kid))
    BY <1>7, <2>2, PutAlso
  <2>5. \A p \in Path : p = <<>> \/ Parent(p) # m => (Listed(c2, p) <=> Listed(c, p))
    BY <1>7, <2>2, PutAlso
  <2> QED BY <2>1, <2>3, <2>4, <2>5
<1>9. Minds(c, c2, x)
  BY <1>1, <1>3, <1>6, <1>7, MindsPut DEF Good
<1>10. \A p \in Path : Listed(c2, p) <=> Listed(c, p)
  <2>1. \A p \in Path : p # <<>> /\ Parent(p) = m => ~Listed(c, p) /\ ~Listed(c2, p)
    BY <1>4, <1>6, <1>8 DEF Listed
  <2> QED BY <1>8, <2>1
<1>11. x.src \in DOMAIN c /\ c2[x.src] = c[x.src] /\ x.dst \notin DOMAIN c /\ x.dst # m /\ x.src # m
  BY <1>1, <1>3, <1>4, <1>8 DEF Halfway
<1>12. Halfway(c2, x2)
  BY <1>1, <1>8, <1>10, <1>11 DEF Halfway, ShapePaths
<1>13. All(c2, x2) = All(c, x) /\ (\A j : Moved(x2, j) = Moved(x, j))
  BY <1>11 DEF All, Moved
<1>14. x.left \in Seq(Path \cup {Up, Blank}) /\ Single(x.left) /\ x.left # <<>> /\ Rest(x) \subseteq All(c, x)
  BY <1>1 DEF Loop, InLoop
<1>15. PICK u : u = Tail(x.left)
  OBVIOUS
<1>16. u \in Seq(Path \cup {Up, Blank}) /\ Single(u) /\ Paths(u) = Rest(x) \ {k}
  BY <1>0, <1>1, <1>14, <1>15, RestFacts DEF Rest
<1>17. \A j \in Rest(x) : j \in Path /\ ~IsFolder(j) /\ IsFile(j)
  <2>1. \A j \in All(c, x) : j \in Path /\ j # <<>> /\ ~IsFolder(j)
    BY <1>1, <1>11, AllKin DEF Good, Loop
  <2> QED BY <1>14, <2>1 DEF IsFile, IsEntry
<1>18. PICK w : w = x2.left
  OBVIOUS
<1>19. /\ w \in Seq(Path \cup {Up, Blank}) /\ Single(w) /\ Elems(w) \subseteq Elems(u)
       /\ \A t \in Elems(u) : IsFile(t) => t \in Elems(w)
       /\ w # <<>> => IsFile(Head(w)) /\ Head(w) \in Elems(u)
  <2>1. w = Kids(q, u)
    BY <1>15, <1>18
  <2> QED BY <1>16, <2>1, KidsFacts
<1>20. Paths(w) = Rest(x) \ {k}
  BY <1>16, <1>17, <1>19 DEF Paths
<1>21. Rest(x2) = Rest(x) \ {k} /\ Gone(c2, x2) = Gone(c, x) \cup {k}
  BY <1>1, <1>13, <1>18, <1>20 DEF Rest, Gone
<1>22. \A j \in Rest(x) : j \in DOMAIN c <=> j # k
  BY <1>0, <1>1 DEF Loop
<1>23. \A j \in All(c, x) : j # m
  BY <1>1, <1>3, <1>11, AllKin DEF Good
<1>24. \A j \in Gone(c2, x2) : Moved(x2, j) \in DOMAIN c2 /\ j \notin DOMAIN c2
  <2>1. \A j \in Gone(c, x) : Moved(x, j) \in DOMAIN c /\ j \notin DOMAIN c /\ j \in All(c, x)
    BY <1>1 DEF Loop, Gone
  <2>2. k \notin DOMAIN c
    BY <1>1, <1>22
  <2> QED BY <1>1, <1>2, <1>8, <1>13, <1>21, <1>23, <2>1, <2>2
<1>25. x2.pc \in {"drop", "kid"} /\ (x2.pc = "kid" <=> w # <<>>)
  BY <1>18
<1>26. Loop(c2, x2)
  <2>1. \A j \in Rest(x2) : j \in DOMAIN c2
    BY <1>8, <1>21, <1>22
  <2>2. Rest(x2) \subseteq All(c2, x2)
    BY <1>13, <1>14, <1>21
  <2>3. IsListing(x2.data, x2.dst) /\ Paths(x2.data) = {Moved(x2, j) : j \in All(c2, x2)}
    BY <1>1, <1>13 DEF Loop
  <2>4. \A j \in All(c2, x2) : ~IsFolder(j)
    BY <1>1, <1>13 DEF Loop
  <2> QED BY <1>18, <1>19, <1>24, <1>25, <2>1, <2>2, <2>3, <2>4 DEF Loop
<1>27. w # <<>> => Head(w) \in Rest(x2)
  BY <1>18, <1>19 DEF Rest, Paths, IsFile, IsEntry
<1>28. w # <<>> => InLoop(c2, x2)
  BY <1>18, <1>25, <1>27 DEF InLoop
<1>29. Shape(x2)
  BY <1>1, <1>25 DEF Shape, Looping
<1>30. Phase(c2, x2) /\ Busy(x2)
  BY <1>1, <1>12, <1>18, <1>25, <1>26, <1>28, <1>29 DEF Phase, Looping, Busy, Op
<1>31. Carries(x2) /\ Hanging(x2)
  BY <1>1, <1>25 DEF Carries, Hanging, Looping
<1>32. \A p : /\ Orphan(c, x, p) \/ p = m => Orphan(c2, x2, p)
              /\ Wanting(c, x, p) => Wanting(c2, x2, p)
  BY <1>0, <1>1, <1>2, <1>13, <1>21, <1>25, <1>31 DEF Orphan, Wanting, Looping
<1>33. Answers(c2, x2)
  <2> SUFFICES ASSUME NEW p \in Path, p # <<>>, Kin(x, p)
               PROVE  /\ p \in DOMAIN c2 => Listed(c2, p) \/ Orphan(c2, x2, p)
                      /\ Listed(c2, p) => p \in DOMAIN c2 \/ Wanting(c2, x2, p)
    BY <1>30 DEF Answers, Kin
  <2>1. /\ p \in DOMAIN c => Listed(c, p) \/ Orphan(c, x, p)
        /\ Listed(c, p) => p \in DOMAIN c \/ Wanting(c, x, p)
    BY AnswersNow DEF Answers
  <2> QED BY <1>8, <1>10, <1>32, <2>1
<1>34. Good(c2, [R EXCEPT ![q] = x2])
  BY <1>8, <1>9, <1>30, <1>33, Kept
<1> QED BY <1>0, <1>2, <1>7, <1>34

(* The old cell is deleted, and the new one is written.                    *)
LEMMA DropFactsOf ==
    ASSUME NEW c, NEW R, Good(c, R), NEW q \in Request, Busy(R[q]), R[q].pc = "drop"
    PROVE  LET x == R[q] IN
           /\ Phase(c, x) /\ Shape(x) /\ ShapePaths(x) /\ x.op \in {"delete", "rename", "move"}
           /\ x.src \in DOMAIN c /\ Hanging(x) /\ Kin(x, x.src)
           /\ x.op = "delete" \/ x.dst # x.src => ~Listed(c, x.src)
<1>1. Phase(c, R[q]) /\ ShapePaths(R[q])
  BY PhasePaths DEF Good, PhaseInv
<1>2. Shape(R[q]) /\ R[q].op \in {"delete", "rename", "move"}
  BY <1>1 DEF Phase, Shape, Looping
<1>3. /\ R[q].src \in DOMAIN c
      /\ R[q].op = "delete" \/ R[q].dst # R[q].src => ~Listed(c, R[q].src)
  BY <1>1, <1>2 DEF Phase, Halfway
<1>4. Hanging(R[q]) /\ Kin(R[q], R[q].src)
  BY <1>1, PrefixItself DEF Hanging, Kin, ShapePaths
<1> QED BY <1>1, <1>2, <1>3, <1>4

LEMMA DeleteDone ==
    ASSUME NEW c, NEW R, Good(c, R), Request = DOMAIN R, NEW q \in Request, Busy(R[q]), R[q].pc = "drop",
           R[q].op = "delete", NEW x2, x2.src = R[q].src, x2.dst = R[q].dst, ~Busy(x2)
    PROVE  Good(DropFrom(c, R[q].src), [R EXCEPT ![q] = x2])
<1> DEFINE x == R[q]
<1>0. PICK s : s = x.src
  OBVIOUS
<1>1. /\ Phase(c, x) /\ ShapePaths(x) /\ s \in DOMAIN c /\ ~Listed(c, s) /\ Kin(x, s)
      /\ s \in Path /\ s # <<>>
  BY <1>0, DropFactsOf DEF ShapePaths
<1>2. PICK c2 : c2 = DropFrom(c, s)
  OBVIOUS
<1>3. /\ DOMAIN c2 = DOMAIN c \ {s} /\ CellInv(c2)
      /\ \A p \in Path : Listed(c2, p) <=> Listed(c, p) /\ Parent(p) # s
  BY <1>2, DropFacts DEF Good
<1>4. Minds(c, c2, x)
  BY <1>1, <1>2, MindsDrop DEF Good
<1>5. Paths(c[s]) = {}
  <2>1. IsFolder(s) => Paths(c[s]) = {}
    BY <1>0, <1>1 DEF Phase, All
  <2> QED BY <1>1, <2>1, FolderCell DEF Good
<1>6. \A p \in Path : Listed(c2, p) <=> Listed(c, p)
  BY <1>3, <1>5, ListedFacts DEF Good
<1>7. \A p \in Path : ~Wanting(c, x, p) /\ (Orphan(c, x, p) => p = s)
  BY <1>0 DEF Wanting, Orphan, Carries
<1>8. Answers(c2, x2)
  <2> SUFFICES ASSUME NEW p \in Path, p # <<>>, Kin(x, p)
               PROVE  p \in DOMAIN c2 <=> Listed(c2, p)
    BY DEF Answers, Kin
  <2>1. /\ p \in DOMAIN c => Listed(c, p) \/ Orphan(c, x, p)
        /\ Listed(c, p) => p \in DOMAIN c \/ Wanting(c, x, p)
    BY AnswersNow DEF Answers
  <2> QED BY <1>1, <1>3, <1>6, <1>7, <2>1
<1>9. Good(c2, [R EXCEPT ![q] = x2])
  BY <1>3, <1>4, <1>8, Kept
<1> QED BY <1>0, <1>2, <1>9

LEMMA DataDropped ==
    ASSUME NEW c, NEW R, Good(c, R), Request = DOMAIN R, NEW q \in Request, Busy(R[q]), R[q].pc = "drop",
           R[q].op \in {"rename", "move"},
           NEW x2, x2.op = R[q].op, x2.src = R[q].src, x2.dst = R[q].dst, x2.pc = "store",
           x2.data = R[q].data
    PROVE  Good(DropFrom(c, R[q].src), [R EXCEPT ![q] = x2])
<1> DEFINE x == R[q]
<1>0. PICK s : s = x.src
  OBVIOUS
<1>1. /\ Phase(c, x) /\ Shape(x) /\ ShapePaths(x) /\ s \in DOMAIN c /\ Kin(x, s)
      /\ Listed(c, s) => x.dst = s
      /\ s \in Path /\ s # <<>>
  BY <1>0, DropFactsOf DEF ShapePaths
<1>2. PICK c2 : c2 = DropFrom(c, s)
  OBVIOUS
<1>3. /\ DOMAIN c2 = DOMAIN c \ {s} /\ CellInv(c2)
      /\ \A p \in Path : Listed(c2, p) <=> Listed(c, p) /\ Parent(p) # s
  BY <1>2, DropFacts DEF Good
<1>4. Minds(c, c2, x)
  BY <1>1, <1>2, MindsDrop DEF Good
<1>5. Listed(c, x.dst) /\ x.dst \notin DOMAIN c \ {s} /\ x.dst \in Path /\ x.dst # <<>>
  BY <1>0, <1>1 DEF Phase, Halfway, ShapePaths
<1>6. \A p \in Path : Parent(p) = s /\ Listed(c, p) => p \in All(c, x) /\ IsFolder(s)
  BY <1>0, ListedFacts DEF Good, All
<1>7. IsFolder(s) => /\ Loop(c, x) /\ Gone(c, x) = All(c, x) /\ (x.op = "move" => All(c, x) = {})
                     /\ \A k \in All(c, x) : Moved(x, k) \in DOMAIN c /\ k \notin DOMAIN c
  <2> SUFFICES ASSUME IsFolder(s)
               PROVE  /\ Loop(c, x) /\ Gone(c, x) = All(c, x) /\ (x.op = "move" => All(c, x) = {})
                      /\ \A k \in All(c, x) : Moved(x, k) \in DOMAIN c /\ k \notin DOMAIN c
    OBVIOUS
  <2>1. Loop(c, x) /\ x.left = <<>> /\ (x.op = "move" => All(c, x) = {})
    BY <1>0, <1>1 DEF Phase
  <2>2. Rest(x) = {}
    BY <2>1 DEF Rest, Paths, Elems
  <2>3. Gone(c, x) = All(c, x)
    BY <2>2 DEF Gone
  <2> QED BY <2>1, <2>3 DEF Loop
<1>8. Parent(x.dst) # s
  <2> SUFFICES ASSUME Parent(x.dst) = s PROVE FALSE
    OBVIOUS
  <2>1. x.dst \in All(c, x) /\ IsFolder(s)
    BY <1>5, <1>6
  <2>2. x.op # "move"
    BY <1>7, <2>1
  <2>3. Parent(x.dst) = Parent(s)
    BY <1>0, <1>1, <2>2 DEF Shape
  <2> QED BY <1>1, <2>3, PrefixParent
<1>9. Listed(c2, x2.dst) /\ x2.dst \notin DOMAIN c2
  BY <1>3, <1>5, <1>8
<1>10. IsFolder(s) => IsListing(x2.data, x2.dst) /\ \A t \in Paths(x2.data) : t \in DOMAIN c2
  <2> SUFFICES ASSUME IsFolder(s) PROVE IsListing(x.data, x.dst) /\ \A t \in Paths(x.data) : t \in DOMAIN c2
    OBVIOUS
  <2>1. Loop(c, x) /\ \A k \in All(c, x) : Moved(x, k) \in DOMAIN c
    BY <1>7
  <2>2. \A k \in All(c, x) : Moved(x, k) # s
    BY <1>0, <1>1, <2>1, AllKin DEF Good, Loop
  <2> QED BY <1>3, <2>1, <2>2 DEF Loop
<1>11. ~IsFolder(s) => \E d \in Content : x2.data = <<d>>
  <2> SUFFICES ASSUME ~IsFolder(s) PROVE \E d \in Content : x.data = <<d>>
    OBVIOUS
  <2>1. x.data = c[s]
    BY <1>0, <1>1 DEF Phase
  <2> QED BY <1>1, <2>1, FolderCell DEF Good
<1>12. Shape(x2)
  BY <1>1 DEF Shape, Looping
<1>13. Phase(c2, x2) /\ Busy(x2)
  BY <1>0, <1>9, <1>10, <1>11, <1>12 DEF Phase, Looping, Busy, Op
<1>14. Wanting(c2, x2, x.dst)
  BY DEF Wanting
<1>15. \A p \in Path : Orphan(c, x, p) /\ p # s => Orphan(c2, x2, p)
  <2> SUFFICES ASSUME NEW p \in Path, Orphan(c, x, p), p # s PROVE Orphan(c2, x2, p)
    OBVIOUS
  <2>1. PICK k \in Gone(c, x) : p = Moved(x, k) /\ IsFolder(s)
    BY <1>0 DEF Orphan, Carries
  <2>2. p \in Paths(x.data)
    BY <1>7, <2>1 DEF Loop
  <2> QED BY <1>0, <2>1, <2>2 DEF Orphan
<1>16. \A p \in Path : Listed(c, p) /\ Parent(p) = s => p \notin DOMAIN c
  BY <1>6, <1>7
<1>17. \A p \in Path : Wanting(c, x, p) => p = x.dst \/ Parent(p) = s
  <2> SUFFICES ASSUME NEW p \in Path, Wanting(c, x, p), p # x.dst PROVE Parent(p) = s
    OBVIOUS
  <2>1. p \in Gone(c, x)
    BY DEF Wanting
  <2> QED BY <1>0, <1>1, <2>1, AllKin DEF Gone, Good
<1>18. Answers(c2, x2)
  <2> SUFFICES ASSUME NEW p \in Path, p # <<>>, Kin(x, p)
               PROVE  /\ p \in DOMAIN c2 => Listed(c2, p) \/ Orphan(c2, x2, p)
                      /\ Listed(c2, p) => p \in DOMAIN c2 \/ Wanting(c2, x2, p)
    BY <1>13 DEF Answers, Kin
  <2>1. /\ p \in DOMAIN c => Listed(c, p) \/ Orphan(c, x, p)
        /\ Listed(c, p) => p \in DOMAIN c \/ Wanting(c, x, p)
    BY AnswersNow DEF Answers
  <2>2. p \in DOMAIN c2 => Listed(c2, p) \/ Orphan(c2, x2, p)
    BY <1>3, <1>15, <1>16, <2>1
  <2>3. Listed(c2, p) => p \in DOMAIN c2 \/ Wanting(c2, x2, p)
    BY <1>1, <1>3, <1>14, <1>17, <2>1
  <2> QED BY <2>2, <2>3
<1>19. Good(c2, [R EXCEPT ![q] = x2])
  BY <1>3, <1>4, <1>13, <1>18, Kept
<1> QED BY <1>0, <1>2, <1>19

(* The new cell is written, and the request is answered.                   *)
LEMMA DataStored ==
    ASSUME NEW c, NEW R, Good(c, R), Request = DOMAIN R, NEW q \in Request, Busy(R[q]), R[q].pc = "store",
           NEW v, R[q].op = "upload" => v = <<q>>, R[q].op = "mkdir" => v = <<Up>>,
           R[q].op \in {"rename", "move"} => v = R[q].data,
           NEW x2, x2.src = R[q].src, x2.dst = R[q].dst, ~Busy(x2)
    PROVE  Good(PutIn(c, R[q].dst, v), [R EXCEPT ![q] = x2]) /\ R[q].dst \notin DOMAIN c
<1> DEFINE x == R[q]
<1>0. PICK t : t = x.dst
  OBVIOUS
<1>1. /\ Phase(c, x) /\ Shape(x) /\ ShapePaths(x) /\ t \in Path /\ t # <<>> /\ Kin(x, t)
      /\ (IsFolder(x.src) <=> IsFolder(t)) /\ x.op \in {"upload", "mkdir", "rename", "move"}
  BY <1>0, PhasePaths, PrefixItself DEF Good, PhaseInv, Phase, Shape, ShapePaths, Kin, Looping
<1>2. Listed(c, t) /\ t \notin DOMAIN c
  BY <1>0, <1>1 DEF Phase
<1>3. /\ IsCell(t, v) /\ \A p \in Paths(v) : p \in DOMAIN c
      /\ \A p \in Paths(x.data) : x.op \in {"rename", "move"} => p \in Elems(v)
  <2>1. CASE x.op = "upload"
    <3>1. v = <<q>> /\ q \in Content /\ ~IsFolder(t)
      BY <1>1, <2>1 DEF Shape, Content
    <3>2. Paths(v) = {}
      BY <3>1, Marks DEF Paths, Elems
    <3> QED BY <2>1, <3>1, <3>2 DEF IsCell
  <2>2. CASE x.op = "mkdir"
    <3>1. v = <<Up>> /\ IsFolder(t)
      BY <1>1, <2>2 DEF Shape
    <3>2. IsListing(v, t) /\ Paths(v) = {}
      BY <1>1, <3>1, EmptyListing
    <3> QED BY <2>2, <3>1, <3>2 DEF IsCell
  <2>3. CASE x.op \in {"rename", "move"}
    <3>1. v = x.data
      BY <2>3
    <3>2. IsFolder(t) => IsListing(v, t) /\ \A p \in Paths(v) : p \in DOMAIN c
      BY <1>0, <1>1, <2>3, <3>1 DEF Phase
    <3>3. ~IsFolder(t) => \E d \in Content : v = <<d>>
      BY <1>1, <2>3, <3>1 DEF Phase
    <3>4. ~IsFolder(t) => Paths(v) = {}
      BY <3>3, Marks DEF Paths, Elems
    <3> QED BY <3>1, <3>2, <3>3, <3>4 DEF IsCell, Paths
  <2> QED BY <1>1, <2>1, <2>2, <2>3
<1>4. PICK c2 : c2 = PutIn(c, t, v)
  OBVIOUS
<1>5. /\ DOMAIN c2 = DOMAIN c \cup {t} /\ CellInv(c2)
      /\ \A p \in Path : p # <<>> /\ Parent(p) = t => (Listed(c2, p) <=> p \in Elems(v))
      /\ \A p \in Path : p = <<>> \/ Parent(p) # t => (Listed(c2, p) <=> Listed(c, p))
  <2>1. DOMAIN c2 = DOMAIN c \cup {t}
    BY <1>4 DEF PutIn
  <2>2. CellInv(c) /\ IsCell(t, v) /\ t \in Path
    BY <1>1, <1>3 DEF Good
  <2> HIDE DEF x
  <2>3. CellInv(c2)
    BY <1>4, <2>2, PutAlso
  <2>4. \A p \in Path : p # <<>> /\ Parent(p) = t => (Listed(c2, p) <=> p \in Elems(v))
    BY <1>4, <2>2, PutAlso
  <2>5. \A p \in Path : p = <<>> \/ Parent(p) # t => (Listed(c2, p) <=> Listed(c, p))
    BY <1>4, <2>2, PutAlso
  <2> QED BY <2>1, <2>3, <2>4, <2>5
<1>6. Minds(c, c2, x)
  BY <1>1, <1>3, <1>4, MindsPut DEF Good
<1>7. \A p \in Path : p # <<>> /\ Parent(p) = t => ~Listed(c, p)
  BY <1>2 DEF Listed
<1>8. Parent(t) # t
  BY <1>1, PrefixParent
<1>9. \A p \in Path : Orphan(c, x, p) => p # <<>> /\ Parent(p) = t /\ p \in Elems(v)
  <2> SUFFICES ASSUME NEW p \in Path, Orphan(c, x, p) PROVE p # <<>> /\ Parent(p) = t /\ p \in Elems(v)
    OBVIOUS
  <2>1. x.op \in {"rename", "move"} /\ IsFolder(x.src) /\ p \in Paths(x.data)
    BY DEF Orphan, Hanging, Carries, Looping
  <2>2. IsListing(x.data, t)
    BY <1>0, <1>1, <2>1 DEF Phase
  <2> QED BY <1>3, <2>1, <2>2 DEF IsListing
<1>10. \A p : Wanting(c, x, p) => p = t
  BY <1>0 DEF Wanting, Carries, Looping
<1>11. Answers(c2, x2)
  <2> SUFFICES ASSUME NEW p \in Path, p # <<>>, Kin(x, p)
               PROVE  p \in DOMAIN c2 <=> Listed(c2, p)
    BY DEF Answers, Kin
  <2>1. /\ p \in DOMAIN c => Listed(c, p) \/ Orphan(c, x, p)
        /\ Listed(c, p) => p \in DOMAIN c \/ Wanting(c, x, p)
    BY AnswersNow DEF Answers
  <2>2. CASE Parent(p) = t
    <3>1. p \in Elems(v) => p \in DOMAIN c
      BY <1>3 DEF Paths
    <3> QED BY <1>5, <1>7, <1>8, <1>9, <2>1, <2>2, <3>1
  <2>3. CASE Parent(p) # t
    BY <1>2, <1>5, <1>9, <1>10, <2>1, <2>3
  <2> QED BY <2>2, <2>3
<1>12. Good(c2, [R EXCEPT ![q] = x2])
  BY <1>5, <1>6, <1>11, Kept
<1> QED BY <1>0, <1>2, <1>4, <1>12

-----------------------------------------------------------------------------
(* The types.                                                              *)
Texts == Text \cup Content

CellTypes(c) == DOMAIN c \subseteq Path /\ \A p \in DOMAIN c : c[p] \in Value

(* The requests that only read never get beyond their first step.          *)
Quiet == \A q \in Request :
    /\ r[q].op = "none" <=> r[q].pc = "none"
    /\ r[q].op \in {"list", "download"} => r[q].pc \in {"own", "done", "thrown"}

Typed == TypeOK /\ Quiet

(* Values, and what the operators of the listings make of them.            *)
LEMMA ValueFacts ==
    /\ Value = Seq(Texts) /\ <<Err>> \in Value /\ <<Blank>> \in Value /\ <<Up>> \in Value /\ <<>> \in Value
    /\ \A p \in Path : p \in Texts /\ <<p>> \in Value
    /\ \A d \in Content : <<d>> \in Value
    /\ Blank \in Texts /\ Up \in Texts
<1>1. Value = Seq(Texts)
  BY DEF Value, Texts
<1>2. Err \in Texts /\ Blank \in Texts /\ Up \in Texts /\ Path \subseteq Texts /\ Content \subseteq Texts
  BY DEF Texts, Text
<1>3. \A t \in Texts : <<t>> \in Seq(Texts)
  BY OneFacts
<1> QED BY <1>1, <1>2, <1>3

LEMMA PlaceFacts ==
    ASSUME NEW v \in Value, NEW p \in Path, Finds(v, p)
    PROVE  Place(v, p) \in 1..Len(v) /\ Len(v) \in Nat /\ v \in Seq(Texts)
<1>1. v \in Seq(Texts) /\ Len(v) \in Nat /\ DOMAIN v = 1..Len(v)
  BY ValueFacts
<1> DEFINE S == {i \in DOMAIN v : Occurs(p, v[i])}
<1>2. S \subseteq Nat /\ S # {}
  BY <1>1 DEF Finds
<1>3. Min(S) \in S
  BY <1>2, MinIs
<1> QED BY <1>1, <1>3 DEF Place

LEMMA ErasedType ==
    ASSUME NEW v \in Value, NEW p \in Path, Finds(v, p)
    PROVE  Erased(v, p) \in Value
<1>1. PICK k : k = Place(v, p)
  OBVIOUS
<1>2. k \in 1..Len(v) /\ v \in Seq(Texts)
  BY <1>1, PlaceFacts
<1>3. RemoveAt(v, k) \in Value
  BY <1>2, RemovedFacts, ValueFacts
<1>4. [v EXCEPT ![k] = Blank] \in Value
  BY <1>2, ValueFacts
<1> QED BY <1>1, <1>3, <1>4, ValueFacts DEF Erased

LEMMA RenamedType ==
    ASSUME NEW v \in Value, NEW p \in Path, Finds(v, p), NEW n \in Path
    PROVE  Renamed(v, p, n) \in Value
<1>1. PICK k : k = Place(v, p)
  OBVIOUS
<1>2. k \in 1..Len(v) /\ v \in Seq(Texts)
  BY <1>1, PlaceFacts
<1>3. \A t \in Texts : [v EXCEPT ![k] = t] \in Value
  BY <1>2, ValueFacts
<1>4. Renamed(v, p, n) = [v EXCEPT ![k] = IF v[k] = p THEN n ELSE Blank]
  BY <1>1 DEF Renamed
<1> QED BY <1>3, <1>4, ValueFacts

LEMMA AppendType ==
    ASSUME NEW v \in Value, NEW p \in Path
    PROVE  Append(v, p) \in Value
BY AppendFacts, ValueFacts

LEMMA KidsType ==
    ASSUME NEW v \in Value, NEW q
    PROVE  Kids(q, v) \in Value /\ (Kids(q, v) # <<>> => IsFile(Head(Kids(q, v))))
BY KidsFacts, ValueFacts

(* The new path of a file.                                                 *)
LEMMA KidPathType ==
    ASSUME Typed, NEW q \in Request, NEW k, IsFile(k)
    PROVE  KidPath(q, k) \in Path /\ (r[q].op = "rename" => KidPath(q, k) = Moved(r[q], k))
<1>1. r[q] \in Local
  BY DEF Typed, TypeOK
<1>2. r[q].dst \in Path /\ Len(r[q].dst) <= MaxDepth /\ k \in Path /\ k # <<>>
  BY <1>1 DEF Local, Asked, IsFile, IsEntry
<1>3. Into(r[q].dst, k) \in Path
  BY <1>2, IntoFacts
<1> QED BY <1>2, <1>3 DEF KidPath, Into, Moved

LEMMA NewListingType ==
    ASSUME Typed, NEW q \in Request, NEW v \in Value
    PROVE  NewListing(q, v) \in Value /\ (r[q].op = "rename" => NewListing(q, v) = Renewed(r[q].dst, v))
<1>1. Len(v) \in Nat /\ DOMAIN v = 1..Len(v)
  BY ValueFacts
<1>2. \A i \in DOMAIN v : (CASE v[i] = Up -> Up [] IsFile(v[i]) -> KidPath(q, v[i]) [] OTHER -> Blank) \in Texts
  BY KidPathType, ValueFacts
<1>3. NewListing(q, v) \in Seq(Texts)
  BY <1>1, <1>2 DEF NewListing
<1>4. r[q].op = "rename" => NewListing(q, v) = Renewed(r[q].dst, v)
  BY KidPathType DEF NewListing, Renewed, Moved
<1> QED BY <1>3, <1>4, ValueFacts

(* The table.                                                              *)
LEMMA GetType ==
    ASSUME Typed, NEW p
    PROVE  Get(p) \in Value
BY ValueFacts DEF Typed, TypeOK, Get

LEMMA PutType ==
    ASSUME Typed, NEW p \in Path, NEW v \in Value
    PROVE  CellTypes(Put(p, v))
BY DEF Typed, TypeOK, Put, CellTypes

LEMMA DropType ==
    ASSUME Typed, NEW p
    PROVE  CellTypes(Drop(p))
BY DEF Typed, TypeOK, Drop, CellTypes

(* The paths of a request.                                                 *)
LEMMA FolderType ==
    ASSUME Typed, NEW q \in Request
    PROVE  /\ r[q] \in Local /\ r[q].src \in Path /\ r[q].dst \in Path
           /\ Folder(q) \in Path /\ Target(q) \in Path
<1>1. r[q] \in Local /\ r[q].src \in Path /\ r[q].dst \in Path
  BY DEF Typed, TypeOK, Local, Asked
<1>2. \A p \in Path : Parent(p) \in Path
  <2>1. Parent(<<>>) = SubSeq(<<>>, 1, 0 - 1)
    BY RootIsPath DEF Parent, Front
  <2>2. 1 \in Int /\ 0 - 1 \in Int /\ 0 - 1 < 1
    OBVIOUS
  <2>3. SubSeq(<<>>, 1, 0 - 1) = <<>>
    BY <2>2, SubSeqEmpty
  <2> QED BY <2>1, <2>3, ParentFacts, RootIsPath
<1> QED BY <1>1, <1>2 DEF Folder, Target

(* The records of the requests.                                            *)
LEMMA GoFacts ==
    ASSUME Typed, NEW q \in Request,
           NEW pc \in {"put", "to", "putto", "fetch", "kid", "kiddrop", "kidput", "drop", "store", "thrown"}
    PROVE  LET x == Go(q, pc) IN
           /\ x \in Local /\ x.pc = pc /\ x.op = r[q].op /\ x.src = r[q].src /\ x.dst = r[q].dst
           /\ x.seen = r[q].seen /\ x.fids = r[q].fids /\ x.data = r[q].data
           /\ x.left = r[q].left /\ x.kid = r[q].kid /\ x.ans = r[q].ans
<1>1. r[q] \in Local
  BY FolderType
<1> QED BY <1>1 DEF Go, Local

LEMMA ReplyFacts ==
    ASSUME Typed, NEW q \in Request, NEW a \in {"200", "404", "409", "500"}
    PROVE  LET x == Reply(q, a) IN
           /\ x \in Local /\ x.pc = "done" /\ x.op = r[q].op /\ x.src = r[q].src /\ x.dst = r[q].dst
           /\ x.ans = a /\ ~Busy(x)
<1>1. r[q] \in Local
  BY FolderType
<1> QED BY <1>1, ValueFacts DEF Reply, Local, Busy

LEMMA FoundFacts ==
    ASSUME Typed, NEW q \in Request, NEW v \in Value
    PROVE  LET x == Found(q, v) IN
           /\ x \in Local /\ x.pc = "put" /\ x.op = r[q].op /\ x.src = r[q].src /\ x.dst = r[q].dst
           /\ x.seen = Get(Folder(q)) /\ x.fids = v /\ x.data = r[q].data /\ x.ans = r[q].ans
<1>1. r[q] \in Local /\ Get(Folder(q)) \in Value
  BY FolderType, GetType
<1> QED BY <1>1 DEF Found, Local

(* A step that writes one well-formed record keeps the types.              *)
LEMMA TypedFrom ==
    ASSUME Typed, NEW q \in Request, NEW x, x \in Local,
           x.pc \in {"kid", "kiddrop", "kidput"} => x.left # <<>> /\ IsFile(Head(x.left)),
           x.pc = "done" <=> x.ans # "none",
           x.op = "none" <=> x.pc = "none",
           x.op \in {"list", "download"} => x.pc \in {"own", "done", "thrown"},
           r' = [r EXCEPT ![q] = x],
           CellTypes(cells'), up' \in BOOLEAN, kept' \subseteq Content, spoiled' \subseteq Window
    PROVE  Typed'
<1>1. r \in [Request -> Local]
  BY DEF Typed, TypeOK
<1>2. r' \in [Request -> Local] /\ r'[q] = x /\ \A o \in Request : o # q => r'[o] = r[o]
  BY <1>1
<1>3. \A o \in Request :
         /\ r'[o].pc \in {"kid", "kiddrop", "kidput"} => r'[o].left # <<>> /\ IsFile(Head(r'[o].left))
         /\ r'[o].pc = "done" <=> r'[o].ans # "none"
         /\ r'[o].op = "none" <=> r'[o].pc = "none"
         /\ r'[o].op \in {"list", "download"} => r'[o].pc \in {"own", "done", "thrown"}
  <2> SUFFICES ASSUME NEW o \in Request
               PROVE /\ r'[o].pc \in {"kid", "kiddrop", "kidput"} => r'[o].left # <<>> /\ IsFile(Head(r'[o].left))
                     /\ r'[o].pc = "done" <=> r'[o].ans # "none"
                     /\ r'[o].op = "none" <=> r'[o].pc = "none"
                     /\ r'[o].op \in {"list", "download"} => r'[o].pc \in {"own", "done", "thrown"}
    OBVIOUS
  <2>1. CASE o = q
    BY <1>2, <2>1
  <2>2. CASE o # q
    BY <1>2, <2>2 DEF Typed, TypeOK, Quiet
  <2> QED BY <2>1, <2>2
<1> QED BY <1>2, <1>3 DEF Typed, TypeOK, Quiet, CellTypes

(* The types, taken apart.                                                 *)
LEMMA Now ==
    ASSUME Typed, NEW q \in Request
    PROVE  /\ CellTypes(cells) /\ up \in BOOLEAN /\ kept \subseteq Content /\ spoiled \subseteq Window
           /\ r[q].op \in Op \cup {"none"} /\ (r[q].pc = "done" <=> r[q].ans # "none")
           /\ r[q].op = "none" <=> r[q].pc = "none"
           /\ r[q].op \in {"list", "download"} => r[q].pc \in {"own", "done", "thrown"}
           /\ r[q].pc \in {"kid", "kiddrop", "kidput"} => r[q].left # <<>> /\ IsFile(Head(r[q].left))
           /\ {r[q].seen, r[q].fids, r[q].data, r[q].left, r[q].kid} \subseteq Value
           /\ r \in [Request -> Local] /\ DOMAIN r = Request
<1>1. r[q] \in Local
  BY FolderType
<1> QED BY <1>1 DEF Typed, TypeOK, Quiet, CellTypes, Local

(* The steps keep the types.                                               *)
LEMMA ReadTyped ==
    ASSUME Typed, NEW q \in Request, ReadToAdd(q) \/ ReadToErase(q) \/ ReadToRename(q)
    PROVE  Typed'
<1>1. /\ r[q].pc = "own" /\ r[q].src \in Path /\ r[q].dst \in Path /\ Get(Folder(q)) \in Value
      /\ r[q].op \in Op \ {"list", "download"}
  BY FolderType, GetType DEF ReadToAdd, ReadToErase, ReadToRename, At, Op
<1>2. \A v \in Value : Found(q, v) \in Local /\ Found(q, v).pc = "put" /\ Found(q, v).op = r[q].op /\ Found(q, v).ans = "none"
  BY <1>1, FoundFacts, Now
<1>3. \A a \in {"404", "409"} : Reply(q, a) \in Local /\ Reply(q, a).pc = "done" /\ Reply(q, a).op = r[q].op
                                 /\ Reply(q, a).ans # "none"
  BY ReplyFacts
<1>4. Go(q, "thrown") \in Local /\ Go(q, "thrown").pc = "thrown" /\ Go(q, "thrown").op = r[q].op
      /\ Go(q, "thrown").ans = "none"
  BY <1>1, GoFacts, Now
<1>5. CellTypes(cells') /\ up' \in BOOLEAN /\ kept' \subseteq Content /\ spoiled' \subseteq Window
  <2>1. UNCHANGED <<cells, kept>> /\ up' \in {up, FALSE}
    BY DEF ReadToAdd, ReadToErase, ReadToRename
  <2>2. spoiled' \in {spoiled, spoiled \cup {"ended"}}
    BY DEF ReadToAdd, ReadToErase, ReadToRename
  <2> QED BY <2>1, <2>2, Now DEF Window
<1>6. PICK x : /\ r' = [r EXCEPT ![q] = x]
               /\ x = Go(q, "thrown") \/ (\E a \in {"404", "409"} : x = Reply(q, a)) \/ \E v \in Value : x = Found(q, v)
  <2>1. CASE ReadToAdd(q)
    <3>1. <<r[q].src>> \in Value /\ Append(Get(Folder(q)), r[q].src) \in Value
      BY <1>1, AppendType, ValueFacts
    <3> QED BY <2>1, <3>1 DEF ReadToAdd, Set
  <2>2. CASE ReadToErase(q)
    <3>1. Finds(Get(Folder(q)), r[q].src) => Erased(Get(Folder(q)), r[q].src) \in Value
      BY <1>1, ErasedType
    <3> QED BY <2>2, <3>1 DEF ReadToErase, Set
  <2>3. CASE ReadToRename(q)
    <3>1. Finds(Get(Folder(q)), r[q].src) => Renamed(Get(Folder(q)), r[q].src, r[q].dst) \in Value
      BY <1>1, RenamedType
    <3> QED BY <2>3, <3>1 DEF ReadToRename, Set
  <2> QED BY <2>1, <2>2, <2>3
<1>7. /\ x \in Local /\ x.pc \in {"put", "done", "thrown"} /\ x.op = r[q].op
      /\ (x.pc = "done" <=> x.ans # "none")
  BY <1>2, <1>3, <1>4, <1>6
<1> QED BY <1>1, <1>5, <1>6, <1>7, TypedFrom DEF Op

LEMMA WriteTyped ==
    ASSUME Typed, NEW q \in Request, WriteFolder(q) \/ ReadTarget(q) \/ WriteTarget(q)
    PROVE  Typed'
<1>1. /\ r[q].src \in Path /\ r[q].dst \in Path /\ Folder(q) \in Path /\ Target(q) \in Path
      /\ Get(Target(q)) \in Value /\ r[q].fids \in Value
      /\ r[q].pc \in {"put", "to", "putto"} /\ r[q].op \in Op \ {"list", "download"} /\ r[q].ans = "none"
  BY FolderType, GetType, Now DEF WriteFolder, ReadTarget, WriteTarget, At
<1>2. \A pc \in {"store", "drop", "to", "fetch", "putto"} :
        Go(q, pc) \in Local /\ Go(q, pc).pc = pc /\ Go(q, pc).op = r[q].op /\ Go(q, pc).ans = "none"
  BY <1>1, GoFacts
<1>3. Reply(q, "409") \in Local /\ Reply(q, "409").pc = "done" /\ Reply(q, "409").op = r[q].op
      /\ Reply(q, "409").ans = "409"
  BY ReplyFacts
<1>4. CellTypes(cells') /\ up' \in BOOLEAN /\ kept' \subseteq Content
  <2>1. UNCHANGED <<up, kept>>
    BY DEF WriteFolder, ReadTarget, WriteTarget
  <2>2. \/ UNCHANGED cells \/ cells' = Drop(Folder(q)) \/ cells' = Put(Folder(q), r[q].fids)
        \/ cells' = Put(Target(q), r[q].fids)
    BY DEF WriteFolder, ReadTarget, WriteTarget
  <2> QED BY <1>1, <2>1, <2>2, PutType, DropType, Now
<1>5. spoiled' \subseteq Window
  <2>1. spoiled' \subseteq spoiled \cup {"raced", "refused", "conflict", "clobbered", "gone"}
    <3>1. \A p : Raced(p, q) \subseteq {"raced"}
      BY DEF Raced
    <3>2. CASE WriteFolder(q)
      BY <3>1, <3>2 DEF WriteFolder
    <3>3. CASE ReadTarget(q)
      BY <3>3 DEF ReadTarget
    <3>4. CASE WriteTarget(q)
      BY <3>1, <3>4 DEF WriteTarget
    <3> QED BY <3>2, <3>3, <3>4
  <2> QED BY <2>1, Now DEF Window
<1>6. PICK x : r' = [r EXCEPT ![q] = x] /\ x \in Local /\ x.pc \in {"store", "drop", "to", "fetch", "putto", "done"}
               /\ x.op = r[q].op /\ (x.pc = "done" <=> x.ans # "none")
  <2>1. CASE WriteFolder(q)
    <3>1. After(r[q].op) \in {"store", "drop", "to", "fetch"}
      BY <1>1 DEF After, Op
    <3> QED BY <1>2, <2>1, <3>1 DEF WriteFolder, Set
  <2>2. CASE ReadTarget(q)
    <3> DEFINE y == [Go(q, "putto") EXCEPT !.seen = Get(Target(q)), !.fids = Append(Get(Target(q)), r[q].dst)]
    <3>1. Append(Get(Target(q)), r[q].dst) \in Value
      BY <1>1, AppendType
    <3>2. y \in Local /\ y.pc = "putto" /\ y.op = r[q].op /\ y.ans = "none"
      BY <1>1, <1>2, <3>1 DEF Local
    <3>3. r' \in {[r EXCEPT ![q] = y], [r EXCEPT ![q] = Reply(q, "409")]}
      BY <2>2 DEF ReadTarget, Set
    <3> QED BY <1>3, <3>2, <3>3
  <2>3. CASE WriteTarget(q)
    BY <1>2, <2>3 DEF WriteTarget, Set
  <2> QED BY <2>1, <2>2, <2>3
<1> QED BY <1>1, <1>4, <1>5, <1>6, TypedFrom, Now

LEMMA KidTyped ==
    ASSUME Typed, NEW q \in Request, ReadData(q) \/ ReadKid(q) \/ DropKid(q) \/ WriteKid(q)
    PROVE  Typed'
<1>1. /\ r[q].src \in Path /\ r[q].dst \in Path /\ Get(r[q].src) \in Value /\ r[q] \in Local
      /\ r[q].pc \in {"fetch", "kid", "kiddrop", "kidput"} /\ r[q].op \in Op \ {"list", "download"} /\ r[q].ans = "none"
      /\ r[q].left \in Value /\ r[q].kid \in Value
      /\ (r[q].pc # "fetch" => r[q].left # <<>> /\ IsFile(Head(r[q].left)))
  BY FolderType, GetType, Now DEF ReadData, ReadKid, DropKid, WriteKid, At
<1>2. \A pc \in {"drop", "kid", "kiddrop", "kidput"} :
        /\ Go(q, pc) \in Local /\ Go(q, pc).pc = pc /\ Go(q, pc).op = r[q].op /\ Go(q, pc).ans = "none"
        /\ Go(q, pc).left = r[q].left
  BY <1>1, GoFacts
<1>3. CellTypes(cells') /\ up' \in BOOLEAN /\ kept' \subseteq Content
  <2>1. UNCHANGED <<up, kept>>
    BY DEF ReadData, ReadKid, DropKid, WriteKid
  <2>2. CASE WriteKid(q)
    <3>1. KidPath(q, Head(r[q].left)) \in Path
      BY <1>1, <2>2, KidPathType DEF WriteKid, At
    <3>2. UNCHANGED cells \/ cells' = Put(KidPath(q, Head(r[q].left)), r[q].kid)
      BY <2>2 DEF WriteKid
    <3> QED BY <1>1, <2>1, <3>1, <3>2, PutType, Now
  <2>3. CASE ~WriteKid(q)
    <3>1. UNCHANGED cells \/ cells' = Drop(Head(r[q].left))
      BY <2>3 DEF ReadData, ReadKid, DropKid
    <3> QED BY <2>1, <3>1, DropType, Now
  <2> QED BY <2>2, <2>3
<1>4. spoiled' \subseteq Window
  <2>1. spoiled' \subseteq spoiled \cup {"refused", "emptied", "nested"}
    <3>1. CASE ReadData(q)
      BY <3>1 DEF ReadData
    <3>2. CASE ~ReadData(q)
      BY <3>2 DEF ReadKid, DropKid, WriteKid
    <3> QED BY <3>1, <3>2
  <2> QED BY <2>1, Now DEF Window
<1>5. PICK x : /\ r' = [r EXCEPT ![q] = x] /\ x \in Local /\ x.pc \in {"drop", "kid", "kiddrop", "kidput"}
               /\ x.op = r[q].op /\ x.ans = "none"
               /\ x.pc # "drop" => x.left # <<>> /\ IsFile(Head(x.left))
  <2>1. CASE ReadData(q)
    <3>1. PICK v : v = Get(r[q].src)
      OBVIOUS
    <3>2. PICK kids : kids = IF IsFolder(r[q].src) THEN Kids(q, v) ELSE <<>>
      OBVIOUS
    <3>3. kids \in Value /\ (kids # <<>> => IsFile(Head(kids)))
      BY <1>1, <3>1, <3>2, KidsType, ValueFacts
    <3>4. PICK d : d = IF IsFolder(r[q].src) /\ r[q].op = "rename" THEN NewListing(q, v) ELSE v
      OBVIOUS
    <3>5. d \in Value
      BY <1>1, <3>1, <3>4, NewListingType
    <3>6. PICK pc : pc = IF kids = <<>> THEN "drop" ELSE "kid"
      OBVIOUS
    <3> DEFINE y == [Go(q, pc) EXCEPT !.data = d, !.left = kids]
    <3>7. r' = [r EXCEPT ![q] = y]
      BY <2>1, <3>1, <3>2, <3>4, <3>6 DEF ReadData, Set
    <3>8. y \in Local /\ y.pc = pc /\ y.op = r[q].op /\ y.ans = "none" /\ y.left = kids
      BY <1>1, <1>2, <3>3, <3>5, <3>6 DEF Local
    <3> QED BY <3>3, <3>6, <3>7, <3>8
  <2>2. CASE ReadKid(q)
    <3> DEFINE y == [Go(q, "kiddrop") EXCEPT !.kid = Get(Head(r[q].left))]
    <3>1. r' = [r EXCEPT ![q] = y]
      BY <2>2 DEF ReadKid, Set
    <3>2. Get(Head(r[q].left)) \in Value
      BY GetType
    <3>3. y \in Local /\ y.pc = "kiddrop" /\ y.op = r[q].op /\ y.ans = "none" /\ y.left = r[q].left
      BY <1>2, <3>2 DEF Local
    <3>4. r[q].pc # "fetch"
      BY <2>2 DEF ReadKid, At
    <3> QED BY <1>1, <3>1, <3>3, <3>4
  <2>3. CASE DropKid(q)
    <3>1. r' = [r EXCEPT ![q] = Go(q, "kidput")] /\ r[q].pc # "fetch"
      BY <2>3 DEF DropKid, Set, At
    <3> QED BY <1>1, <1>2, <3>1
  <2>4. CASE WriteKid(q)
    <3>1. PICK rest : rest = OtherKids(q)
      OBVIOUS
    <3>2. r[q].pc # "fetch"
      BY <2>4 DEF WriteKid, At
    <3>3. Tail(r[q].left) \in Value
      BY <1>1, <3>2, ValueFacts, HeadTailProperties
    <3>4. rest \in Value /\ (rest # <<>> => IsFile(Head(rest)))
      BY <3>1, <3>3, KidsType DEF OtherKids
    <3>5. PICK pc : pc = IF rest = <<>> THEN "drop" ELSE "kid"
      OBVIOUS
    <3> DEFINE y == [Go(q, pc) EXCEPT !.left = rest, !.kid = <<>>]
    <3>6. r' = [r EXCEPT ![q] = y]
      BY <2>4, <3>1, <3>5 DEF WriteKid, Set
    <3>7. y \in Local /\ y.pc = pc /\ y.op = r[q].op /\ y.ans = "none" /\ y.left = rest
      BY <1>2, <3>4, <3>5, ValueFacts DEF Local
    <3> QED BY <3>4, <3>5, <3>6, <3>7
  <2> QED BY <2>1, <2>2, <2>3, <2>4
<1> QED BY <1>1, <1>3, <1>4, <1>5, TypedFrom, Now

LEMMA EndTyped ==
    ASSUME Typed, NEW q \in Request, DropData(q) \/ StoreData(q)
    PROVE  Typed'
<1>1. /\ r[q].src \in Path /\ r[q].dst \in Path /\ r[q] \in Local /\ r[q].data \in Value
      /\ r[q].pc \in {"drop", "store"} /\ r[q].op \in Op \ {"list", "download"} /\ r[q].ans = "none"
  BY FolderType, Now DEF DropData, StoreData, At
<1>2. Go(q, "store") \in Local /\ Go(q, "store").pc = "store" /\ Go(q, "store").op = r[q].op
      /\ Go(q, "store").ans = "none"
  BY <1>1, GoFacts
<1>3. \A a \in {"200", "404", "500"} : Reply(q, a) \in Local /\ Reply(q, a).pc = "done"
                                 /\ Reply(q, a).op = r[q].op /\ Reply(q, a).ans = a
  BY ReplyFacts
<1>4. CellTypes(cells')
  <2>1. Stored(q) \in Value
    <3>1. q \in Content
      BY DEF Content
    <3> QED BY <1>1, <3>1, ValueFacts DEF Stored
  <2>2. \/ UNCHANGED cells \/ cells' = Drop(r[q].src) \/ cells' = Put(r[q].dst, Stored(q))
    BY DEF DropData, StoreData
  <2> QED BY <1>1, <2>1, <2>2, PutType, DropType, Now
<1>5. up' \in BOOLEAN /\ kept' \subseteq Content /\ spoiled' \subseteq Window
  <2>1. UNCHANGED up /\ kept' \subseteq kept \cup {q} /\ spoiled' \subseteq spoiled \cup {"refused"}
    <3>1. CASE DropData(q)
      BY <3>1 DEF DropData
    <3>2. CASE StoreData(q)
      BY <3>2 DEF StoreData
    <3> QED BY <3>1, <3>2
  <2> QED BY <2>1, Now DEF Window, Content
<1>6. PICK x : r' = [r EXCEPT ![q] = x] /\ (x = Go(q, "store") \/ \E a \in {"200", "404", "500"} : x = Reply(q, a))
  <2>1. CASE DropData(q)
    BY <2>1 DEF DropData, Set
  <2>2. CASE StoreData(q)
    BY <2>2 DEF StoreData, Set
  <2> QED BY <2>1, <2>2
<1>7. x \in Local /\ x.pc \in {"store", "done"} /\ x.op = r[q].op /\ (x.pc = "done" <=> x.ans # "none")
  BY <1>2, <1>3, <1>6
<1> QED BY <1>1, <1>4, <1>5, <1>6, <1>7, TypedFrom, Now

LEMMA ShowTyped ==
    ASSUME Typed, NEW q \in Request, List(q) \/ Download(q)
    PROVE  Typed'
<1>1. r[q].pc = "own" /\ r[q].op \in {"list", "download"} /\ r[q].ans = "none"
  BY Now DEF List, Download, At
<1>2. Go(q, "thrown") \in Local /\ Go(q, "thrown").pc = "thrown" /\ Go(q, "thrown").op = r[q].op
      /\ Go(q, "thrown").ans = "none"
  BY <1>1, GoFacts
<1>3. \A a \in {"200", "404"} : Reply(q, a) \in Local /\ Reply(q, a).pc = "done"
                                 /\ Reply(q, a).op = r[q].op /\ Reply(q, a).ans = a
  BY ReplyFacts
<1>4. CellTypes(cells') /\ up' \in BOOLEAN /\ kept' \subseteq Content /\ spoiled' \subseteq Window
  <2>1. UNCHANGED <<cells, kept>> /\ up' \in {up, FALSE} /\ spoiled' \in {spoiled, spoiled \cup {"ended"}}
    BY DEF List, Download
  <2> QED BY <2>1, Now DEF Window
<1>5. PICK x : r' = [r EXCEPT ![q] = x] /\ (x = Go(q, "thrown") \/ \E a \in {"200", "404"} : x = Reply(q, a))
  <2>1. CASE List(q)
    BY <2>1 DEF List, Set
  <2>2. CASE Download(q)
    BY <2>2 DEF Download, Set
  <2> QED BY <2>1, <2>2
<1>6. x \in Local /\ x.pc \in {"thrown", "done"} /\ x.op = r[q].op /\ (x.pc = "done" <=> x.ans # "none")
  BY <1>2, <1>3, <1>5
<1> QED BY <1>1, <1>4, <1>5, <1>6, TypedFrom

(* Where a request starts: an entry of a folder that is shown.             *)
LEMMA EntryFacts ==
    ASSUME NEW d \in Path, Len(d) < MaxDepth, NEW n \in Name
    PROVE  LET p == d \o <<n>> IN
           p \in Asked /\ p \in Path /\ p # <<>> /\ Parent(p) = d /\ Last(p) = n /\ (IsFolder(p) <=> n \in Dir)
<1>1. Len(d) \in Nat /\ MaxDepth \in Nat
  BY PathFacts, DriveAssumption
<1>2. Len(d) <= MaxDepth /\ Len(d) + 1 <= MaxDepth
  BY <1>1
<1> QED BY <1>2, ChildFacts DEF Asked

LEMMA FoldersFacts ==
    ASSUME Typed, NEW d \in Folders
    PROVE  d \in Path /\ IsFolder(d) /\ (d \in DOMAIN cells \/ d = <<>>)
BY RootIsPath DEF Folders, Typed, TypeOK

LEMMA FolderPathFacts ==
    ASSUME NEW d \in FolderPath
    PROVE  d \in Path /\ IsFolder(d) /\ d \in Asked /\ Len(d) < MaxDepth
<1>1. d \in Asked /\ Len(d) < MaxDepth /\ ToSet(d) \subseteq Dir /\ d \in Path
  BY DEF FolderPath, Asked
<1>2. CASE d = <<>>
  BY <1>1, <1>2 DEF IsFolder
<1>3. CASE d # <<>>
  <2>1. d \in Seq(Name) /\ Len(d) \in DOMAIN d
    BY <1>1, <1>3, PathFacts
  <2>2. Last(d) \in Dir
    BY <1>1, <2>1 DEF ToSet, Last
  <2> QED BY <1>1, <2>2 DEF IsFolder
<1> QED BY <1>2, <1>3

Fresh(op, src, dst) == [Idle EXCEPT !.op = op, !.pc = "own", !.src = src, !.dst = dst]

(* The record of a new request.                                            *)
LEMMA BeginFacts ==
    ASSUME NEW op \in Op, NEW src \in Asked, NEW dst \in Asked
    PROVE  LET x == Fresh(op, src, dst) IN
           /\ x \in Local /\ x.op = op /\ x.pc = "own" /\ x.src = src /\ x.dst = dst /\ x.ans = "none"
           /\ x.data = <<>>
BY ValueFacts DEF Idle, Local, Fresh

(* The same, of every request at once.                                     *)
LEMMA FreshFields ==
    \A op \in Op, a \in Asked, b \in Asked : \A x :
        x = Fresh(op, a, b) => /\ x.op = op /\ x.pc = "own" /\ x.src = a /\ x.dst = b
                               /\ x.data = <<>>
BY BeginFacts

LEMMA SendIs ==
    ASSUME Typed, NEW q \in Request, Send(q)
    PROVE  \E op \in Op, src, dst \in Asked, now \in BOOLEAN : Begin(q, op, src, dst, now)
<1>1. \A d \in FolderPath, n \in Name : d \o <<n>> \in Asked /\ Parent(d \o <<n>>) = d /\ Last(d \o <<n>>) = n
  BY FolderPathFacts, EntryFacts
<1>2. \A d \in FolderPath : d \in Asked
  BY FolderPathFacts
<1>3. {"upload", "mkdir", "delete", "move", "rename", "list", "download"} = Op
  BY DEF Op
<1>4. PICK d \in FolderPath :
         \/ Upload(q, d) \/ CreateFolder(q, d)
         \/ \E n \in Name : LET p == d \o <<n>> IN
              \/ n \in File /\ (DeleteFile(q, p) \/ Begin(q, "download", p, p, TRUE))
              \/ n \in Dir /\ DeleteFolder(q, p)
              \/ Whole(p) /\ (RenameFile(q, p) \/ MoveFile(q, p))
         \/ Begin(q, "list", d, d, TRUE)
  BY DEF Send
<1>5. CASE Upload(q, d)
  BY <1>1, <1>3, <1>5 DEF Upload, Name, Here
<1>6. CASE CreateFolder(q, d)
  BY <1>1, <1>3, <1>6 DEF CreateFolder, Name, Here
<1>7. ASSUME NEW n \in Name, NEW p, p = d \o <<n>>,
             \/ DeleteFile(q, p) \/ Begin(q, "download", p, p, TRUE)
             \/ DeleteFolder(q, p) \/ RenameFile(q, p) \/ MoveFile(q, p)
      PROVE  \E op \in Op, src, dst \in Asked, now \in BOOLEAN : Begin(q, op, src, dst, now)
  <2>1. p \in Asked /\ Parent(p) = d /\ Last(p) = n /\ Dir \cup File = Name
    BY <1>1, <1>7 DEF Name
  <2>2. CASE DeleteFile(q, p)
    BY <1>3, <2>1, <2>2 DEF DeleteFile, Here, Shown
  <2>3. CASE Begin(q, "download", p, p, TRUE)
    BY <1>3, <2>1, <2>3
  <2>4. CASE DeleteFolder(q, p)
    BY <1>3, <2>1, <2>4 DEF DeleteFolder, Here, Shown
  <2>5. CASE RenameFile(q, p)
    <3>1. PICK k \in Name : Begin(q, "rename", p, d \o <<k>>, Here(Parent(p)) /\ Shown(p))
      BY <2>1, <2>5 DEF RenameFile, OfKind
    <3> QED BY <1>1, <1>3, <2>1, <3>1 DEF Here, Shown
  <2>6. CASE MoveFile(q, p)
    <3>1. PICK t \in FolderPath : Begin(q, "move", p, t \o <<n>>, Here(Parent(p)) /\ Shown(p) /\ Here(t))
      BY <2>1, <2>6 DEF MoveFile
    <3> QED BY <1>1, <1>3, <2>1, <3>1 DEF Here, Shown
  <2> QED BY <1>7, <2>2, <2>3, <2>4, <2>5, <2>6
<1>8. CASE Begin(q, "list", d, d, TRUE)
  BY <1>2, <1>3, <1>8
<1> QED BY <1>4, <1>5, <1>6, <1>7, <1>8

LEMMA SendTyped ==
    ASSUME Typed, NEW q \in Request, Send(q)
    PROVE  Typed'
<1>1. PICK op \in Op, src \in Asked, dst \in Asked, now \in BOOLEAN : Begin(q, op, src, dst, now)
  BY SendIs
<1> DEFINE x == Fresh(op, src, dst)
<1>2. x \in Local /\ x.op = op /\ x.pc = "own" /\ x.ans = "none"
  BY BeginFacts
<1>3. r' = [r EXCEPT ![q] = x]
  BY <1>1 DEF Begin, Set, Fresh
<1> HIDE DEF x
<1>4. CellTypes(cells') /\ up' \in BOOLEAN /\ kept' \subseteq Content /\ spoiled' \subseteq Window
  <2>1. UNCHANGED <<cells, up, kept>> /\ spoiled' \subseteq spoiled \cup {"overlapped", "stale"}
    BY <1>1 DEF Begin
  <2> QED BY <2>1, Now DEF Window
<1>5. op # "none"
  BY DEF Op
<1> QED BY <1>2, <1>3, <1>4, <1>5, TypedFrom

(* The drives at the start are well-typed.                                 *)
LEMMA DriveCells ==
    ASSUME NEW d, IsDrive(d)
    PROVE  CellTypes(d)
<1>1. \A p \in DOMAIN d : p \in Path /\ (IsFolder(p) \/ \E t \in Old : d[p] = <<t>>)
  BY DEF IsDrive
<1>2. \A p \in DOMAIN d : IsFolder(p) => d[p] \in Seq(Path \cup {Up})
  BY DEF IsDrive
<1>3. Path \cup {Up} \subseteq Texts
  BY ValueFacts
<1>4. \A t \in Old : <<t>> \in Value
  BY ValueFacts DEF Content
<1>5. Seq(Path \cup {Up}) \subseteq Seq(Texts)
  BY <1>3
<1> QED BY <1>1, <1>2, <1>4, <1>5, ValueFacts DEF CellTypes

LEMMA InitTyped == Init => Typed
<1> SUFFICES ASSUME Init PROVE Typed
  OBVIOUS
<1>1. CellTypes(cells)
  BY DriveCells, DriveAssumption DEF Init
<1>2. Idle \in Local /\ Idle.pc = "none" /\ Idle.op = "none" /\ Idle.ans = "none"
  <2>1. <<>> \in Asked
    BY RootIsPath, DriveAssumption DEF Asked
  <2> QED BY <2>1, ValueFacts DEF Idle, Local
<1>3. r = [q \in Request |-> Idle]
  BY DEF Init
<1>4. kept \subseteq Content /\ spoiled \subseteq Window /\ up \in BOOLEAN
  BY DEF Init, Content
<1>5. r \in [Request -> Local] /\ \A q \in Request : r[q] = Idle
  BY <1>2, <1>3
<1> QED BY <1>1, <1>2, <1>4, <1>5 DEF Typed, TypeOK, Quiet, CellTypes, Op

LEMMA TypedStep == Typed /\ [Next]_vars => Typed'
<1> SUFFICES ASSUME Typed, [Next]_vars PROVE Typed'
  OBVIOUS
<1>1. CASE UNCHANGED vars
  BY <1>1 DEF vars, Typed, TypeOK, Quiet
<1>2. CASE Exit
  <2>1. UNCHANGED <<cells, r, kept>> /\ up' = FALSE /\ spoiled' \in {spoiled, spoiled \cup {"ended"}}
    BY <1>2 DEF Exit
  <2>2. spoiled' \subseteq Window
    BY <2>1 DEF Typed, TypeOK, Window
  <2> QED BY <2>1, <2>2 DEF Typed, TypeOK, Quiet
<1>3. CASE \E q \in Request : Send(q) \/ Step(q)
  BY <1>3, SendTyped, ReadTyped, WriteTyped, KidTyped, EndTyped, ShowTyped DEF Step
<1> QED BY <1>1, <1>2, <1>3 DEF Next

(* The drive is well-typed: cells, requests, their local variables and the *)
(* two histories (TypeOK), with the loop at a file whenever it is in the   *)
(* middle of its three steps (stringutils.cc:278-327).                      *)
THEOREM DriveTypes == Spec => []TypeOK
<1>1. Spec => []Typed
  BY InitTyped, TypedStep, PTL DEF Spec
<1>2. Typed => TypeOK
  BY DEF Typed
<1> QED BY <1>1, <1>2, PTL

-----------------------------------------------------------------------------
(* The start, and the start of a request.                                  *)
LEMMA DriveGood ==
    ASSUME NEW d, IsDrive(d), NEW R, \A q \in Request : ~Busy(R[q])
    PROVE  Good(d, R)
<1>1. /\ \A p \in DOMAIN d : p \in Path /\ (IsFolder(p) \/ \E t \in Old : d[p] = <<t>>)
      /\ \A p \in DOMAIN d \ {<<>>} : Parent(p) \in DOMAIN d /\ p \in Elems(d[Parent(p)])
  BY DEF IsDrive, ToSet, Elems
<1>2. \A p \in DOMAIN d : IsFolder(p) =>
         /\ d[p] \in Seq(Path \cup {Up}) /\ d[p] # <<>> /\ IsInjective(d[p])
         /\ Elems(d[p]) = {x \in DOMAIN d : x # <<>> /\ Parent(x) = p} \cup (IF p = <<>> THEN {} ELSE {Up})
  BY DEF IsDrive, ToSet, Elems
<1>3. CellInv(d)
  <2> SUFFICES ASSUME NEW p \in DOMAIN d PROVE IsCell(p, d[p])
    BY <1>1 DEF CellInv
  <2>1. CASE IsFolder(p)
    <3>1. PICK v : v = d[p]
      OBVIOUS
    <3>2. /\ v \in Seq(Path \cup {Up}) /\ v # <<>> /\ IsInjective(v)
          /\ Elems(v) = {x \in DOMAIN d : x # <<>> /\ Parent(x) = p} \cup (IF p = <<>> THEN {} ELSE {Up})
      BY <1>2, <2>1, <3>1
    <3>3. v \in Seq(Path \cup {Up, Blank})
      BY <3>2
    <3>4. Single(v)
      BY <3>2 DEF Single, IsInjective
    <3>5. p # <<>> <=> Up \in Elems(v)
      BY <1>1, <3>2, Marks
    <3>6. \A t \in Paths(v) : t # <<>> /\ Parent(t) = p
      BY <3>2, Marks DEF Paths
    <3> QED BY <2>1, <3>1, <3>2, <3>3, <3>4, <3>5, <3>6 DEF IsCell, IsListing
  <2>2. CASE ~IsFolder(p)
    BY <1>1, <2>2 DEF IsCell, Content
  <2> QED BY <2>1, <2>2
<1>4. OwnedInv(d, R)
  BY <1>1 DEF OwnedInv, Listed
<1>5. KnownInv(d, R)
  <2> SUFFICES ASSUME NEW p \in Path, Listed(d, p) PROVE p \in DOMAIN d
    BY DEF KnownInv
  <2>1. Parent(p) \in DOMAIN d /\ IsFolder(Parent(p)) /\ p \in Elems(d[Parent(p)])
    BY <1>3, ListedFacts DEF Paths
  <2>2. p # Up
    BY Marks
  <2> QED BY <1>2, <2>1, <2>2
<1> QED BY <1>3, <1>4, <1>5 DEF Good, ApartInv, PhaseInv

(* A request that meets no other one starts from what it has to find.      *)
LEMMA BeginGood ==
    ASSUME Typed, Good(cells, r), NEW q \in Request, NEW op \in Op, NEW src \in Asked, NEW dst \in Asked,
           NEW now, Begin(q, op, src, dst, now), ~Meets(q, src, dst),
           op \notin {"list", "download"} => Phase(cells, Fresh(op, src, dst))
    PROVE  Good(cells', r')
<1> DEFINE x == Fresh(op, src, dst)
<1>1. x.op = op /\ x.pc = "own" /\ x.src = src /\ x.dst = dst
  BY BeginFacts
<1>2. cells' = cells /\ r' = [r EXCEPT ![q] = x] /\ r[q].pc = "none"
  BY DEF Begin, Set, Fresh
<1> HIDE DEF x
<1>3. Busy(x) => Phase(cells, x)
  BY <1>1 DEF Busy, x
<1>4. \A o \in Request : o # q /\ Busy(r[o]) => Clear(x, r[o])
  BY <1>1 DEF Meets, Running, Changes, Busy, Clear
<1>5. ~Busy(r[q]) /\ DOMAIN r = Request
  BY <1>2, Now DEF Busy
<1> QED BY <1>2, <1>3, <1>4, <1>5, StartKept

(* What a request is about and no other request is about.                  *)
LEMMA AloneFacts ==
    ASSUME Typed, Good(cells, r), NEW q \in Request, r[q].pc = "none", NEW src \in Asked, src # <<>>,
           NEW dst \in Asked, ~Meets(q, src, dst)
    PROVE  /\ Listed(cells, src) => src \in DOMAIN cells
           /\ \A s \in Path, o \in Request :
                IsPrefix(s, src) /\ Busy(r[o]) => ~Orphan(cells, r[o], s)
<1>1. src \in Path
  BY DEF Asked
<1>2. \A o \in Request : Busy(r[o]) => o # q /\ ~Related(src, r[o].src) /\ ~Related(src, r[o].dst)
  BY DEF Meets, Running, Changes, Busy
<1>3. \A o \in Request : Busy(r[o]) => Phase(cells, r[o]) /\ r[o].src \in Path /\ r[o].dst \in Path
  BY FolderType DEF Good, PhaseInv
<1>4. ASSUME NEW o \in Request, Busy(r[o]), NEW s \in Path, IsPrefix(s, src)
      PROVE  ~Orphan(cells, r[o], s) /\ ~Wanting(cells, r[o], s)
  <2>1. ~Kin(r[o], s)
    BY <1>1, <1>2, <1>3, <1>4, PrefixTransitive DEF Kin, Related
  <2> QED BY <1>3, <1>4, <2>1, OrphanKin DEF Good
<1>5. IsPrefix(src, src)
  BY <1>1, PrefixItself
<1> QED BY <1>1, <1>4, <1>5 DEF Good, KnownInv

(* What the page shows is listed.                                          *)
LEMMA ShownListed ==
    ASSUME Typed, Good(cells, r), NEW d \in FolderPath, NEW n \in Name, NEW p, p = d \o <<n>>, Shown(p)
    PROVE  /\ Listed(cells, p) /\ p \in Path /\ p \in Asked /\ p # <<>> /\ Parent(p) = d /\ Last(p) = n
           /\ IsFolder(p) <=> n \in Dir
<1>2. d \in Path /\ IsFolder(d) /\ Len(d) < MaxDepth
  BY FolderPathFacts
<1>0. Parent(p) = d
  BY <1>2, EntryFacts
<1>1. PICK t \in Path : t # <<>> /\ t \in Elems(Get(d)) /\ p = d \o <<Last(t)>> /\ Last(t) \in Name
  BY <1>0, ParentFacts DEF Shown, IsEntry, ToSet, Elems
<1>8. Last(p) = n /\ (IsFolder(p) <=> n \in Dir)
  BY <1>2, EntryFacts
<1>3. p \in Asked /\ p \in Path /\ p # <<>> /\ Parent(p) = d /\ Last(p) = Last(t) /\ (IsFolder(p) <=> Last(p) \in Dir)
  BY <1>1, <1>2, EntryFacts
<1>4. d \in DOMAIN cells
  <2>1. Elems(<<Err>>) = {Err}
    BY DEF Elems
  <2> QED BY <1>1, <2>1, Marks DEF Get
<1>5. t \in Elems(cells[d])
  BY <1>1, <1>4 DEF Get
<1>6. Parent(t) = d
  BY <1>1, <1>2, <1>4, <1>5, PlaceIs DEF Good, IsListing
<1>7. t = p
  BY <1>1, <1>3, <1>6, SiblingsEqual
<1> QED BY <1>1, <1>3, <1>4, <1>5, <1>7, <1>8 DEF Listed

(* A request that spoils nothing meets no other one and its page is fresh. *)
LEMMA BeginClean ==
    ASSUME NEW q \in Request, NEW op, NEW src, NEW dst, NEW now \in BOOLEAN,
           Begin(q, op, src, dst, now), spoiled' = {}
    PROVE  spoiled = {} /\ ~Meets(q, src, dst) /\ now /\ r[q].pc = "none"
<1>1. spoiled' = spoiled \cup (IF Meets(q, src, dst) THEN {"overlapped"} ELSE {})
                         \cup (IF now THEN {} ELSE {"stale"})
  BY DEF Begin
<1> QED BY <1>1 DEF Begin

LEMMA OwnPhase ==
    ASSUME NEW c, NEW x, x.pc = "own", Shape(x), Begun(c, x)
    PROVE  Phase(c, x)
BY DEF Phase, Looping

(* /upload-file and /create-folder start.                                  *)
LEMMA AddBegins ==
    ASSUME Typed, NEW d \in FolderPath, Here(d), NEW n \in Name, NEW op \in {"upload", "mkdir"},
           op = "upload" <=> n \notin Dir
    PROVE  Phase(cells, Fresh(op, d \o <<n>>, d \o <<n>>))
<1>1. PICK p : p = d \o <<n>>
  OBVIOUS
<1>2. d \in Path /\ IsFolder(d) /\ Len(d) < MaxDepth /\ (d # <<>> => d \in DOMAIN cells)
  BY FolderPathFacts DEF Here
<1>3. p \in Asked /\ p # <<>> /\ Parent(p) = d /\ (IsFolder(p) <=> n \in Dir)
  BY <1>1, <1>2, EntryFacts
<1>4. PICK x : x = Fresh(op, p, p)
  OBVIOUS
<1>5. x.op = op /\ x.pc = "own" /\ x.src = p /\ x.dst = p /\ x.data = <<>>
  BY <1>3, <1>4, BeginFacts DEF Op
<1>6. Shape(x)
  BY <1>2, <1>3, <1>5 DEF Shape, Looping
<1>7. Begun(cells, x)
  BY <1>2, <1>3, <1>5 DEF Begun
<1> QED BY <1>1, <1>4, <1>5, <1>6, <1>7, OwnPhase

(* The request is about an entry that is shown and that no other request   *)
(* is about.                                                               *)
LEMMA ChangeBegins ==
    ASSUME Typed, Good(cells, r), NEW q \in Request, r[q].pc = "none",
           NEW d \in FolderPath, NEW n \in Name, NEW p, p = d \o <<n>>, Shown(p), NEW s \in Asked,
           NEW op \in {"delete", "rename", "move"}, ~Meets(q, p, s),
           s # <<>>, IsFolder(s) <=> IsFolder(p), IsFolder(Parent(s)),
           op = "delete" => s = p, op = "rename" => Parent(s) = d,
           op = "move" /\ Parent(s) # <<>> => Parent(s) \in DOMAIN cells,
           op = "move" /\ Parent(s) = d => s = p,
           op = "delete" /\ IsFolder(p) => ToSet(Get(p)) \subseteq {Up}
    PROVE  Phase(cells, Fresh(op, p, s))
<1>1. Listed(cells, p) /\ p \in Path /\ p \in Asked /\ p # <<>> /\ Parent(p) = d /\ IsFolder(d)
  BY ShownListed, FolderPathFacts
<1>2. PICK x : x = Fresh(op, p, s)
  OBVIOUS
<1>0. op \in Op
  BY DEF Op
<1>3. x.op = op /\ x.pc = "own" /\ x.src = p /\ x.dst = s /\ x.data = <<>>
  <2>1. PICK a : a = p
    OBVIOUS
  <2>2. a \in Asked /\ x = Fresh(op, a, s)
    BY <1>1, <1>2, <2>1
  <2>3. x.op = op /\ x.pc = "own" /\ x.src = a /\ x.dst = s /\ x.data = <<>>
    BY <1>0, <2>2, FreshFields
  <2> QED BY <2>1, <2>3
<1>4. Shape(x)
  BY <1>1, <1>3 DEF Shape, Looping
<1>5. /\ p \in DOMAIN cells
      /\ \A t \in Path, o \in Request : IsPrefix(t, p) /\ Busy(r[o]) => ~Orphan(cells, r[o], t)
  BY <1>1, AloneFacts
<1>6. op = "move" => Parent(s) \in DOMAIN cells
  <2>1. <<>> \in DOMAIN cells
    BY <1>1, <1>5, Rooted DEF Good
  <2> QED BY <2>1
<1>7. op = "delete" /\ IsFolder(p) => All(cells, x) = {}
  <2> SUFFICES ASSUME op = "delete", IsFolder(p) PROVE All(cells, x) = {}
    OBVIOUS
  <2>1. Elems(cells[p]) \subseteq {Up}
    BY <1>5 DEF Get, ToSet, Elems
  <2> QED BY <1>3, <2>1, Marks DEF All, Paths
<1>8. Begun(cells, x)
  BY <1>1, <1>3, <1>5, <1>6, <1>7 DEF Begun
<1> QED BY <1>2, <1>3, <1>4, <1>8, OwnPhase

Sound(x) == x.pc # "thrown" /\ (x.op = "download" => ~IsFolder(x.src))

(* Every request starts well.                                              *)
LEMMA SendGood ==
    ASSUME Typed, Good(cells, r), NEW q \in Request, Send(q), spoiled' = {}
    PROVE  /\ spoiled = {} /\ Good(cells', r') /\ cells' = cells /\ up' = up /\ kept' = kept
           /\ r[q].pc = "none" /\ \E x : r' = [r EXCEPT ![q] = x] /\ Sound(x)
<1> DEFINE Begins(op, src, dst, now) ==
       /\ Begin(q, op, src, dst, now) /\ op \in Op /\ src \in Asked /\ dst \in Asked /\ now \in BOOLEAN
       /\ op \notin {"list", "download"} => Phase(cells, Fresh(op, src, dst))
       /\ op = "download" => ~IsFolder(src)
<1>1. PICK d \in FolderPath :
         \/ Upload(q, d) \/ CreateFolder(q, d)
         \/ \E n \in Name : LET p == d \o <<n>> IN
              \/ n \in File /\ (DeleteFile(q, p) \/ Begin(q, "download", p, p, TRUE))
              \/ n \in Dir /\ DeleteFolder(q, p)
              \/ Whole(p) /\ (RenameFile(q, p) \/ MoveFile(q, p))
         \/ Begin(q, "list", d, d, TRUE)
  BY DEF Send
<1>2. \A t \in FolderPath, n \in Name :
         /\ t \o <<n>> \in Asked /\ t \o <<n>> # <<>> /\ Parent(t \o <<n>>) = t
         /\ Last(t \o <<n>>) = n /\ (IsFolder(t \o <<n>>) <=> n \in Dir)
  BY FolderPathFacts, EntryFacts
<1>3. d \in Asked /\ IsFolder(d) /\ File \cap Dir = {} /\ Name = File \cup Dir
  BY FolderPathFacts, DriveAssumption DEF Name
<1>4. \E op, src, dst, now : Begins(op, src, dst, now)
  <2>1. CASE Upload(q, d)
    <3>1. PICK n \in File : Begin(q, "upload", d \o <<n>>, d \o <<n>>, Here(d))
      BY <2>1 DEF Upload
    <3>2. Here(d) \in BOOLEAN
      BY DEF Here
    <3>3. Here(d)
      BY <3>1, <3>2, BeginClean
    <3>4. Phase(cells, Fresh("upload", d \o <<n>>, d \o <<n>>))
      BY <1>3, <3>3, AddBegins
    <3> QED BY <1>2, <1>3, <3>1, <3>2, <3>4 DEF Op
  <2>2. CASE CreateFolder(q, d)
    <3>1. PICK n \in Dir : Begin(q, "mkdir", d \o <<n>>, d \o <<n>>, Here(d))
      BY <2>2 DEF CreateFolder
    <3>2. Here(d) \in BOOLEAN
      BY DEF Here
    <3>3. Here(d)
      BY <3>1, <3>2, BeginClean
    <3>4. Phase(cells, Fresh("mkdir", d \o <<n>>, d \o <<n>>))
      BY <1>3, <3>3, AddBegins
    <3> QED BY <1>2, <1>3, <3>1, <3>2, <3>4 DEF Op
  <2>3. CASE Begin(q, "list", d, d, TRUE)
    <3>1. Begins("list", d, d, TRUE)
      BY <1>3, <2>3 DEF Op
    <3> QED BY <3>1
  <2>4. ASSUME NEW n \in Name, NEW p, p = d \o <<n>>,
               \/ n \in File /\ (DeleteFile(q, p) \/ Begin(q, "download", p, p, TRUE))
               \/ n \in Dir /\ DeleteFolder(q, p)
               \/ RenameFile(q, p) \/ MoveFile(q, p)
        PROVE  \E op, src, dst, now : Begins(op, src, dst, now)
    <3>1. p \in Asked /\ p # <<>> /\ Parent(p) = d /\ Last(p) = n /\ (IsFolder(p) <=> n \in Dir)
      BY <1>2, <2>4
    <3>2. Shown(p) \in BOOLEAN /\ \A t : Here(t) \in BOOLEAN
      BY DEF Shown, Here
    <3>3. ASSUME NEW now \in BOOLEAN, Begin(q, "delete", p, p, now), now => Shown(p),
                 now /\ IsFolder(p) => ToSet(Get(p)) \subseteq {Up}
          PROVE  Begins("delete", p, p, now)
      <4>1. ~Meets(q, p, p) /\ now /\ r[q].pc = "none"
        BY <3>3, BeginClean
      <4>2. Phase(cells, Fresh("delete", p, p))
        BY <1>3, <2>4, <3>1, <3>3, <4>1, ChangeBegins
      <4> QED BY <3>1, <3>3, <4>2 DEF Op
    <3>4. CASE n \in File /\ DeleteFile(q, p)
      <4>1. PICK now \in BOOLEAN : now = (Here(Parent(p)) /\ Shown(p))
        BY <3>2
      <4>2. Begin(q, "delete", p, p, now) /\ ~IsFolder(p)
        BY <1>3, <3>1, <3>4, <4>1 DEF DeleteFile
      <4> QED BY <3>3, <4>1, <4>2
    <3>5. CASE n \in Dir /\ DeleteFolder(q, p)
      <4>1. PICK now \in BOOLEAN : now = (Here(Parent(p)) /\ Shown(p) /\ ToSet(Get(p)) \subseteq {Up})
        BY <3>2
      <4>2. Begin(q, "delete", p, p, now)
        BY <3>5, <4>1 DEF DeleteFolder
      <4> QED BY <3>3, <4>1, <4>2
    <3>6. CASE RenameFile(q, p)
      <4>1. PICK k \in Name : /\ Begin(q, "rename", p, d \o <<k>>, Here(Parent(p)) /\ Shown(p))
                              /\ (IsFolder(p) <=> k \in Dir)
        BY <1>3, <3>1, <3>6 DEF RenameFile, OfKind
      <4>2. PICK s : s = d \o <<k>>
        OBVIOUS
      <4>3. PICK now \in BOOLEAN : now = (Here(Parent(p)) /\ Shown(p))
        BY <3>2
      <4>4. s \in Asked /\ s # <<>> /\ Parent(s) = d /\ (IsFolder(s) <=> IsFolder(p))
        BY <1>2, <4>1, <4>2
      <4>5. Begin(q, "rename", p, s, now)
        BY <4>1, <4>2, <4>3
      <4>6. ~Meets(q, p, s) /\ now /\ r[q].pc = "none"
        BY <4>5, BeginClean
      <4>7. Phase(cells, Fresh("rename", p, s))
        BY <1>3, <2>4, <3>1, <4>3, <4>4, <4>6, ChangeBegins
      <4> QED BY <3>1, <4>4, <4>5, <4>7 DEF Op
    <3>7. CASE MoveFile(q, p)
      <4>1. PICK t \in FolderPath : Begin(q, "move", p, t \o <<n>>, Here(Parent(p)) /\ Shown(p) /\ Here(t))
        BY <3>1, <3>7 DEF MoveFile
      <4>2. PICK s : s = t \o <<n>>
        OBVIOUS
      <4>3. PICK now \in BOOLEAN : now = (Here(Parent(p)) /\ Shown(p) /\ Here(t))
        BY <3>2
      <4>4. s \in Asked /\ s # <<>> /\ Parent(s) = t /\ (IsFolder(s) <=> IsFolder(p)) /\ IsFolder(t)
        BY <1>2, <3>1, <4>2, FolderPathFacts
      <4>5. Begin(q, "move", p, s, now)
        BY <4>1, <4>2, <4>3
      <4>6. ~Meets(q, p, s) /\ now /\ r[q].pc = "none"
        BY <4>5, BeginClean
      <4>7. Shown(p) /\ (t # <<>> => t \in DOMAIN cells) /\ (t = d => s = p)
        BY <2>4, <4>2, <4>3, <4>6 DEF Here
      <4>8. Phase(cells, Fresh("move", p, s))
        BY <1>3, <2>4, <3>1, <4>4, <4>6, <4>7, ChangeBegins
      <4> QED BY <3>1, <4>4, <4>5, <4>8 DEF Op
    <3>8. CASE n \in File /\ Begin(q, "download", p, p, TRUE)
      BY <1>3, <3>1, <3>8 DEF Op
    <3> QED BY <2>4, <3>4, <3>5, <3>6, <3>7, <3>8
  <2> QED BY <1>1, <2>1, <2>2, <2>3, <2>4
<1>5. PICK op, src, dst, now : Begins(op, src, dst, now)
  BY <1>4
<1>6. spoiled = {} /\ ~Meets(q, src, dst) /\ r[q].pc = "none"
  BY <1>5, BeginClean
<1>7. Good(cells', r')
  BY <1>5, <1>6, BeginGood
<1>8. cells' = cells /\ up' = up /\ kept' = kept /\ r' = [r EXCEPT ![q] = Fresh(op, src, dst)]
  BY <1>5 DEF Begin, Set, Fresh
<1>9. Sound(Fresh(op, src, dst))
  BY <1>5, BeginFacts DEF Sound
<1> QED BY <1>6, <1>7, <1>8, <1>9

-----------------------------------------------------------------------------
(* The steps of a request.                                                 *)
Hand(x, c)   == \/ x.pc = "store" /\ x.data = <<c>>
                \/ x.pc = "kidput" /\ x.kid = <<c>>
InCell(d, c) == \E p \in DOMAIN d : d[p] = <<c>>
Holds        == \A c \in kept : InCell(cells, c) \/ \E q \in Request : up /\ Hand(r[q], c)

Fine(q) == /\ spoiled = {} /\ Good(cells', r') /\ up' = up
           /\ \E x : r' = [r EXCEPT ![q] = x] /\ Sound(x)
           /\ Holds => Holds'

(* Data is kept by a step that leaves it in its cell, writes it, or has it *)
(* in its hands.                                                           *)
LEMMA HoldsKept ==
    ASSUME Typed, Holds, NEW q \in Request, NEW x, r' = [r EXCEPT ![q] = x], up, up' = up,
           \A c \in kept' : \/ InCell(cells', c)
                            \/ /\ c \in kept
                               /\ InCell(cells, c) => InCell(cells', c) \/ Hand(x, c)
                               /\ Hand(r[q], c) => InCell(cells', c) \/ Hand(x, c)
    PROVE  Holds'
<1>1. r'[q] = x /\ \A o \in Request : o # q => r'[o] = r[o]
  BY Now
<1> SUFFICES ASSUME NEW c \in kept'
             PROVE  InCell(cells', c) \/ \E o \in Request : up' /\ Hand(r'[o], c)
  BY DEF Holds
<1>2. CASE InCell(cells', c)
  BY <1>2
<1>3. CASE /\ c \in kept
           /\ InCell(cells, c) => InCell(cells', c) \/ Hand(x, c)
           /\ Hand(r[q], c) => InCell(cells', c) \/ Hand(x, c)
  BY <1>1, <1>3 DEF Holds
<1> QED BY <1>2, <1>3

(* A listing that is written overwrites no data.                           *)
LEMMA DataStays ==
    ASSUME NEW c, CellInv(c), NEW P, IsFolder(P), NEW v, NEW c2, c2 = PutIn(c, P, v) \/ c2 = DropFrom(c, P),
           NEW d \in Content, InCell(c, d)
    PROVE  InCell(c2, d)
<1>1. PICK p \in DOMAIN c : c[p] = <<d>>
  BY DEF InCell
<1>2. p # P
  BY <1>1, FolderCell, ListingIsNot
<1> QED BY <1>1, <1>2 DEF InCell, PutIn, DropFrom

(* The table commands of the model are those of the lemmas.                *)
LEMMA TableIs ==
    ASSUME NEW p, NEW v
    PROVE  Get(p) = Reading(cells, p) /\ Put(p, v) = PutIn(cells, p, v) /\ Drop(p) = DropFrom(cells, p)
BY DEF Get, Reading, Put, PutIn, Drop, DropFrom

(* A request beyond its first step changes the drive.                      *)
LEMMA BusyNow ==
    ASSUME Typed, NEW q \in Request, r[q].pc \notin {"none", "done", "thrown"},
           r[q].pc # "own" \/ r[q].op \in Op \ {"list", "download"}
    PROVE  Busy(r[q]) /\ DOMAIN r = Request /\ r[q].op \in Op \ {"list", "download"}
BY Now DEF Busy

(* Every step of a request that spoils nothing keeps the invariant and the *)
(* data, and no request throws.                                            *)
LEMMA ReadFine ==
    ASSUME Typed, Good(cells, r), NEW q \in Request, spoiled' = {},
           ReadToAdd(q) \/ ReadToErase(q) \/ ReadToRename(q)
    PROVE  Fine(q)
<1>1. /\ r[q].pc = "own" /\ Busy(r[q]) /\ DOMAIN r = Request /\ up
      /\ r[q].op \in Op \ {"list", "download"} /\ r[q].src \in Path /\ r[q].dst \in Path
      /\ Get(Folder(q)) \in Value /\ UNCHANGED <<cells, kept>>
  BY BusyNow, FolderType, GetType DEF ReadToAdd, ReadToErase, ReadToRename, At, Op
<1>2. Phase(cells, r[q]) /\ Begun(cells, r[q]) /\ Shape(r[q]) /\ CellInv(cells)
  BY <1>1 DEF Good, PhaseInv, Phase
<1>3. PICK v : v = Get(Folder(q))
  OBVIOUS
<1>4. PICK x : /\ r' = [r EXCEPT ![q] = x] /\ spoiled = {} /\ up' = up
               /\ \/ \E a \in {"404", "409"} : x = Reply(q, a)
                  \/ \E w \in Value : x = Found(q, w) /\ Prepared(x)
  <2>1. ASSUME NEW w \in Value
        PROVE  Found(q, w).op = r[q].op /\ Found(q, w).src = r[q].src /\ Found(q, w).dst = r[q].dst
               /\ Found(q, w).seen = v /\ Found(q, w).fids = w
    BY <1>3, FoundFacts
  <2>2. CASE ReadToAdd(q)
    <3>1. <<r[q].src>> \in Value /\ Append(v, r[q].src) \in Value
      BY <1>1, <1>3, AppendType, ValueFacts
    <3>2. v = <<Err>> => Prepared(Found(q, <<r[q].src>>))
      BY <2>1, <2>2, <3>1 DEF Prepared, ReadToAdd
    <3>3. v # <<Err>> /\ ~Finds(v, r[q].src) => Prepared(Found(q, Append(v, r[q].src)))
      BY <2>1, <2>2, <3>1 DEF Prepared, ReadToAdd
    <3> QED BY <1>3, <2>2, <3>1, <3>2, <3>3 DEF ReadToAdd, Set
  <2>3. CASE ReadToErase(q)
    <3>1. Finds(v, r[q].src)
      <4>1. Listed(cells, r[q].src)
        BY <1>2, <2>3 DEF Begun, ReadToErase
      <4> QED BY <1>1, <1>3, <4>1, FindsMember DEF Listed, Get, Folder
    <3>2. Erased(v, r[q].src) \in Value
      BY <1>1, <1>3, <3>1, ErasedType
    <3>3. Prepared(Found(q, Erased(v, r[q].src)))
      BY <2>1, <2>3, <3>2 DEF Prepared, ReadToErase
    <3> QED BY <1>3, <2>3, <3>1, <3>2, <3>3 DEF ReadToErase, Set
  <2>4. CASE ReadToRename(q)
    <3>1. Finds(v, r[q].src) => Renamed(v, r[q].src, r[q].dst) \in Value
      BY <1>1, <1>3, RenamedType
    <3>2. Finds(v, r[q].src) /\ ~Finds(v, r[q].dst) => Prepared(Found(q, Renamed(v, r[q].src, r[q].dst)))
      BY <2>1, <2>4, <3>1 DEF Prepared, ReadToRename
    <3> QED BY <1>3, <2>4, <3>1, <3>2 DEF ReadToRename, Set, NameTaken
  <2> QED BY <2>2, <2>3, <2>4
<1>5. Good(cells, [r EXCEPT ![q] = x]) /\ Sound(x)
  <2>1. CASE \E a \in {"404", "409"} : x = Reply(q, a)
    <3>1. x.src = r[q].src /\ x.dst = r[q].dst /\ x.op = r[q].op /\ x.pc = "done" /\ ~Busy(x)
      BY <2>1, ReplyFacts
    <3> QED BY <1>1, <3>1, EndKept DEF Sound
  <2>2. CASE \E w \in Value : x = Found(q, w) /\ Prepared(x)
    <3>1. x.src = r[q].src /\ x.dst = r[q].dst /\ x.op = r[q].op /\ x.pc = "put" /\ x.data = r[q].data /\ Prepared(x)
      BY <2>2, FoundFacts
    <3> QED BY <1>1, <3>1, PreparedKept DEF Sound
  <2> QED BY <1>4, <2>1, <2>2
<1>6. Holds => Holds'
  BY <1>1, <1>4, HoldsKept DEF Hand
<1> QED BY <1>1, <1>4, <1>5, <1>6 DEF Fine

LEMMA WriteFine ==
    ASSUME Typed, Good(cells, r), NEW q \in Request, spoiled' = {}, WriteFolder(q)
    PROVE  Fine(q)
<1>1. /\ r[q].pc = "put" /\ Busy(r[q]) /\ DOMAIN r = Request /\ up /\ UNCHANGED <<up, kept>>
      /\ r[q].op \in Op \ {"list", "download"} /\ r[q].src \in Path
  BY BusyNow, FolderType DEF WriteFolder, At
<1>2. PICK P : P = Folder(q)
  OBVIOUS
<1>3. /\ spoiled = {} /\ Get(P) = r[q].seen
      /\ cells' = IF r[q].op = "delete" /\ r[q].fids = <<Blank>> THEN Drop(P) ELSE Put(P, r[q].fids)
  BY <1>2 DEF WriteFolder, Raced
<1>4. r[q].seen = Reading(cells, Parent(r[q].src)) /\ P = Parent(r[q].src)
  BY <1>2, <1>3, TableIs DEF Folder
<1>5. PICK x : x = Go(q, After(r[q].op))
  OBVIOUS
<1>6. After(r[q].op) = CASE r[q].op \in {"upload", "mkdir"} -> "store" [] r[q].op = "delete" -> "drop"
                         [] r[q].op = "move" -> "to" [] r[q].op = "rename" -> "fetch"
  BY DEF After
<1>7. /\ r' = [r EXCEPT ![q] = x] /\ x.pc = After(r[q].op) /\ x.op = r[q].op /\ x.src = r[q].src
      /\ x.dst = r[q].dst /\ x.data = r[q].data /\ After(r[q].op) \in {"store", "drop", "to", "fetch"}
  <2>1. After(r[q].op) \in {"store", "drop", "to", "fetch"}
    BY <1>1, <1>6 DEF Op
  <2> QED BY <1>5, <2>1, GoFacts DEF WriteFolder, Set
<1>8. cells' = PutIn(cells, P, r[q].fids) \/ cells' = DropFrom(cells, P)
  BY <1>3, TableIs
<1>9. Good(cells', r')
  <2>1. CASE r[q].op \in {"upload", "mkdir"}
    <3>1. x.pc = "store" /\ cells' = PutIn(cells, Parent(r[q].src), r[q].fids)
      BY <1>3, <1>4, <1>6, <1>7, <2>1, TableIs
    <3> QED BY <1>1, <1>4, <1>7, <2>1, <3>1, AddWritten
  <2>2. CASE r[q].op = "delete" /\ r[q].fids # <<Blank>>
    <3>1. x.pc = "drop" /\ cells' = PutIn(cells, Parent(r[q].src), r[q].fids)
      BY <1>3, <1>4, <1>6, <1>7, <2>2, TableIs
    <3> QED BY <1>1, <1>4, <1>7, <2>2, <3>1, DeleteWritten
  <2>3. CASE r[q].op = "delete" /\ r[q].fids = <<Blank>>
    <3>1. x.pc = "drop" /\ cells' = DropFrom(cells, Parent(r[q].src))
      BY <1>3, <1>4, <1>6, <1>7, <2>3, TableIs
    <3> QED BY <1>1, <1>4, <1>7, <2>3, <3>1, DeleteDropped
  <2>4. CASE r[q].op = "move"
    <3>1. x.pc = "to" /\ cells' = PutIn(cells, Parent(r[q].src), r[q].fids)
      BY <1>3, <1>4, <1>6, <1>7, <2>4, TableIs
    <3> QED BY <1>1, <1>4, <1>7, <2>4, <3>1, MoveWritten
  <2>5. CASE r[q].op = "rename"
    <3>1. x.pc = "fetch" /\ cells' = PutIn(cells, Parent(r[q].src), r[q].fids)
      BY <1>3, <1>4, <1>6, <1>7, <2>5, TableIs
    <3> QED BY <1>1, <1>4, <1>7, <2>5, <3>1, RenameWritten
  <2> QED BY <1>1, <2>1, <2>2, <2>3, <2>4, <2>5 DEF Op
<1>10. CellInv(cells) /\ IsFolder(P)
  BY <1>1, <1>4 DEF Good, PhaseInv, Phase, Shape
<1>11. \A c \in Content : InCell(cells, c) => InCell(cells', c)
  BY <1>8, <1>10, DataStays
<1>12. Holds => Holds'
  BY <1>1, <1>7, <1>11, Now, HoldsKept DEF Hand
<1> QED BY <1>1, <1>3, <1>7, <1>9, <1>12 DEF Fine, Sound, Op

LEMMA TargetFine ==
    ASSUME Typed, Good(cells, r), NEW q \in Request, spoiled' = {}, ReadTarget(q)
    PROVE  Fine(q)
<1>1. /\ r[q].pc = "to" /\ Busy(r[q]) /\ DOMAIN r = Request /\ up /\ UNCHANGED <<cells, up, kept>>
      /\ r[q].op \in Op \ {"list", "download"} /\ r[q].dst \in Path /\ Get(Target(q)) \in Value
  BY BusyNow, FolderType, GetType DEF ReadTarget, At
<1>2. PICK v : v = Get(Target(q))
  OBVIOUS
<1>3. PICK x : x = [Go(q, "putto") EXCEPT !.seen = v, !.fids = Append(v, r[q].dst)]
  OBVIOUS
<1>4. r' = [r EXCEPT ![q] = x] /\ spoiled = {}
  BY <1>2, <1>3 DEF ReadTarget, Set
<1>5. Go(q, "putto") \in Local /\ Append(v, r[q].dst) \in Value
  BY <1>1, <1>2, GoFacts, AppendType
<1>6. /\ x.pc = "putto" /\ x.op = r[q].op /\ x.src = r[q].src /\ x.dst = r[q].dst
      /\ x.data = r[q].data /\ x.fids = Append(x.seen, x.dst) /\ x.seen = v
  BY <1>3, <1>5, GoFacts DEF Local
<1>9. v # <<Err>>
  BY <1>2 DEF ReadTarget
<1>7. Good(cells', r')
  BY <1>1, <1>4, <1>6, <1>9, TargetRead
<1>8. Holds => Holds'
  BY <1>1, <1>4, HoldsKept DEF Hand
<1> QED BY <1>1, <1>4, <1>6, <1>7, <1>8 DEF Fine, Sound

LEMMA PutTargetFine ==
    ASSUME Typed, Good(cells, r), NEW q \in Request, spoiled' = {}, WriteTarget(q)
    PROVE  Fine(q)
<1>1. /\ r[q].pc = "putto" /\ Busy(r[q]) /\ DOMAIN r = Request /\ up /\ UNCHANGED <<up, kept>>
      /\ r[q].op \in Op \ {"list", "download"}
  BY BusyNow DEF WriteTarget, At
<1>2. PICK P : P = Target(q)
  OBVIOUS
<1>3. spoiled = {} /\ Get(P) = r[q].seen /\ r[q].dst \notin ToSet(r[q].seen) /\ cells' = Put(P, r[q].fids)
  BY <1>2 DEF WriteTarget, Raced
<1>4. /\ P = Parent(r[q].dst) /\ r[q].seen = Reading(cells, Parent(r[q].dst))
      /\ r[q].dst \notin Elems(r[q].seen) /\ cells' = PutIn(cells, Parent(r[q].dst), r[q].fids)
  BY <1>2, <1>3, TableIs DEF Target, ToSet, Elems
<1>5. PICK x : x = Go(q, "fetch")
  OBVIOUS
<1>6. /\ r' = [r EXCEPT ![q] = x] /\ x.pc = "fetch" /\ x.op = r[q].op /\ x.src = r[q].src /\ x.dst = r[q].dst
  BY <1>5, GoFacts DEF WriteTarget, Set
<1>7. Good(cells', r')
  BY <1>1, <1>4, <1>6, TargetWritten
<1>8. CellInv(cells) /\ IsFolder(P)
  BY <1>1, <1>4 DEF Good, PhaseInv, Phase, Shape
<1>9. \A c \in Content : InCell(cells, c) => InCell(cells', c)
  BY <1>4, <1>8, DataStays
<1>10. Holds => Holds'
  BY <1>1, <1>6, <1>9, Now, HoldsKept DEF Hand
<1> QED BY <1>1, <1>3, <1>6, <1>7, <1>10 DEF Fine, Sound

LEMMA DataFine ==
    ASSUME Typed, Good(cells, r), NEW q \in Request, spoiled' = {}, ReadData(q)
    PROVE  Fine(q)
<1>1. /\ r[q].pc = "fetch" /\ Busy(r[q]) /\ DOMAIN r = Request /\ up /\ UNCHANGED <<cells, up, kept>>
      /\ r[q].op \in Op \ {"list", "download"} /\ Get(r[q].src) \in Value
  BY BusyNow, GetType DEF ReadData, At
<1>2. /\ r[q].op \in {"rename", "move"} /\ r[q].src \in DOMAIN cells /\ CellInv(cells)
  BY <1>1, FetchFacts DEF Good
<1>3. PICK v : v = cells[r[q].src]
  OBVIOUS
<1>4. Get(r[q].src) = v /\ v \in Value
  BY <1>1, <1>2, <1>3 DEF Get
<1>5. PICK kids : kids = IF IsFolder(r[q].src) THEN Kids(q, v) ELSE <<>>
  OBVIOUS
<1>6. PICK w : w = IF IsFolder(r[q].src) /\ r[q].op = "rename" THEN NewListing(q, v) ELSE v
  OBVIOUS
<1>7. PICK pc : pc = IF kids = <<>> THEN "drop" ELSE "kid"
  OBVIOUS
<1>8. PICK x : x = [Go(q, pc) EXCEPT !.data = w, !.left = kids]
  OBVIOUS
<1>9. /\ r' = [r EXCEPT ![q] = x] /\ spoiled = {}
      /\ IsFolder(r[q].src) /\ r[q].op = "move" => kids = <<>>
      /\ IsFolder(r[q].src) => \A t \in ToSet(v) : IsEntry(t) => ~IsFolder(t)
  BY <1>4, <1>5, <1>6, <1>7, <1>8 DEF ReadData, Set
<1>10. pc \in {"drop", "kid"} /\ Go(q, pc) \in Local
  BY <1>7, GoFacts
<1>11. x.pc = pc /\ x.op = r[q].op /\ x.src = r[q].src /\ x.dst = r[q].dst /\ x.data = w /\ x.left = kids
  BY <1>8, <1>10, GoFacts DEF Local
<1>12. IsFolder(r[q].src) => \A k \in All(cells, r[q]) : IsFile(k) /\ k \in Elems(v)
  <2> SUFFICES ASSUME IsFolder(r[q].src), NEW k \in All(cells, r[q]) PROVE IsFile(k) /\ k \in Elems(v)
    OBVIOUS
  <2>1. k \in Path /\ k # <<>> /\ k \in Elems(v) /\ k \in ToSet(v)
    BY <1>2, <1>3, FolderCell DEF All, Paths, Elems, ToSet
  <2> QED BY <1>9, <2>1 DEF IsEntry, IsFile
<1>13. Good(cells, [r EXCEPT ![q] = x])
  <2>1. CASE ~IsFolder(r[q].src)
    BY <1>1, <1>3, <1>5, <1>6, <1>7, <1>11, <2>1, FileRead
  <2>2. CASE IsFolder(r[q].src) /\ r[q].op = "move"
    <3>1. kids = <<>> /\ kids = Kids(q, v) /\ v \in Seq(Texts)
      BY <1>4, <1>5, <1>9, <2>2, ValueFacts
    <3>2. \A k : k \notin All(cells, r[q])
      <4>1. \A t : t \notin Elems(kids)
        BY <3>1 DEF Elems
      <4> QED BY <1>12, <2>2, <3>1, <4>1, KidsFacts
    <3>3. x.pc = "drop" /\ x.data = v /\ x.left = <<>>
      BY <1>6, <1>7, <1>11, <2>2, <3>1
    <3> QED BY <1>1, <1>3, <1>11, <2>2, <3>2, <3>3, EmptyFolderRead
  <2>3. CASE IsFolder(r[q].src) /\ r[q].op = "rename"
    <3>1. /\ x.data = Renewed(r[q].dst, cells[r[q].src]) /\ x.left = Kids(q, cells[r[q].src])
          /\ x.pc = IF x.left = <<>> THEN "drop" ELSE "kid"
      BY <1>3, <1>4, <1>5, <1>6, <1>7, <1>11, <2>3, NewListingType
    <3>2. \A k \in All(cells, r[q]) : ~IsFolder(k)
      BY <1>12, <2>3 DEF IsFile
    <3> QED BY <1>1, <1>11, <2>3, <3>1, <3>2, FolderRead
  <2> QED BY <1>2, <2>1, <2>2, <2>3
<1>14. Holds => Holds'
  BY <1>1, <1>9, HoldsKept DEF Hand
<1> QED BY <1>1, <1>2, <1>9, <1>10, <1>11, <1>13, <1>14 DEF Fine, Sound

LEMMA KidFine ==
    ASSUME Typed, Good(cells, r), NEW q \in Request, spoiled' = {}, ReadKid(q) \/ DropKid(q)
    PROVE  Fine(q)
<1>1. /\ r[q].pc \in {"kid", "kiddrop"} /\ Busy(r[q]) /\ DOMAIN r = Request /\ up /\ UNCHANGED <<up, kept>>
      /\ r[q].op \in Op \ {"list", "download"}
  BY BusyNow DEF ReadKid, DropKid, At
<1>2. PICK k : k = Head(r[q].left)
  OBVIOUS
<1>3. /\ r[q].op = "rename" /\ k \in Rest(r[q]) /\ Loop(cells, r[q])
  BY <1>1, <1>2, LoopFacts DEF Looping
<1>4. CASE ReadKid(q)
  <2>1. r[q].pc = "kid" /\ UNCHANGED <<cells, spoiled>> /\ k \in DOMAIN cells
    BY <1>3, <1>4 DEF ReadKid, At, Loop
  <2>2. PICK x : x = [Go(q, "kiddrop") EXCEPT !.kid = cells[k]]
    OBVIOUS
  <2>3. r' = [r EXCEPT ![q] = x]
    BY <1>2, <1>4, <2>1, <2>2 DEF ReadKid, Set, Get
  <2>4. Go(q, "kiddrop") \in Local
    BY GoFacts
  <2>5. /\ x.pc = "kiddrop" /\ x.op = r[q].op /\ x.src = r[q].src /\ x.dst = r[q].dst
        /\ x.data = r[q].data /\ x.left = r[q].left /\ x.kid = cells[Head(r[q].left)]
    BY <1>2, <2>2, <2>4, GoFacts DEF Local
  <2>6. Good(cells', r')
    BY <1>1, <2>1, <2>3, <2>5, KidRead
  <2>7. Holds => Holds'
    BY <1>1, <2>1, <2>3, HoldsKept DEF Hand
  <2> QED BY <1>1, <1>3, <2>1, <2>3, <2>5, <2>6, <2>7 DEF Fine, Sound
<1>5. CASE DropKid(q)
  <2>1. r[q].pc = "kiddrop" /\ spoiled = {} /\ cells' = DropFrom(cells, k)
    BY <1>2, <1>5, TableIs DEF DropKid, At
  <2>2. PICK x : x = Go(q, "kidput")
    OBVIOUS
  <2>3. /\ r' = [r EXCEPT ![q] = x] /\ x.pc = "kidput" /\ x.op = r[q].op /\ x.src = r[q].src /\ x.dst = r[q].dst
        /\ x.data = r[q].data /\ x.left = r[q].left /\ x.kid = r[q].kid
    BY <1>5, <2>2, GoFacts DEF DropKid, Set
  <2>4. Good(cells', r') /\ x.kid = cells[k] /\ k \in DOMAIN cells
    <3>1. /\ Good(DropFrom(cells, Head(r[q].left)), [r EXCEPT ![q] = x])
          /\ r[q].kid = cells[Head(r[q].left)] /\ Head(r[q].left) \in DOMAIN cells
      BY <1>1, <2>1, <2>3, KidDropped
    <3> QED BY <1>2, <2>1, <2>3, <3>1
  <2>5. \A c : InCell(cells, c) => InCell(cells', c) \/ Hand(x, c)
    BY <2>1, <2>3, <2>4 DEF InCell, Hand, DropFrom
  <2>6. Holds => Holds'
    <3>1. \A c : ~Hand(r[q], c)
      BY <2>1 DEF Hand
    <3> QED BY <1>1, <2>3, <2>5, <3>1, HoldsKept
  <2> QED BY <1>1, <1>3, <2>1, <2>3, <2>4, <2>6 DEF Fine, Sound
<1> QED BY <1>4, <1>5

LEMMA PutKidFine ==
    ASSUME Typed, Good(cells, r), NEW q \in Request, spoiled' = {}, WriteKid(q)
    PROVE  Fine(q)
<1>1. /\ r[q].pc = "kidput" /\ Busy(r[q]) /\ DOMAIN r = Request /\ up /\ UNCHANGED <<up, kept>>
      /\ r[q].left # <<>> /\ IsFile(Head(r[q].left)) /\ r[q].left \in Value
  BY BusyNow, Now DEF WriteKid, At
<1>2. PICK k : k = Head(r[q].left)
  OBVIOUS
<1>3. /\ r[q].op = "rename" /\ Moved(r[q], k) \notin DOMAIN cells
  BY <1>1, <1>2, LoopFacts, NewNameFree DEF Looping
<1>4. PICK m : m = Moved(r[q], k)
  OBVIOUS
<1>5. KidPath(q, k) = m
  BY <1>1, <1>2, <1>3, <1>4, KidPathType
<1>6. spoiled = {} /\ cells' = PutIn(cells, m, r[q].kid)
  BY <1>2, <1>5, TableIs DEF WriteKid
<1>7. PICK rest : rest = Kids(q, Tail(r[q].left))
  OBVIOUS
<1>8. PICK pc : pc = IF rest = <<>> THEN "drop" ELSE "kid"
  OBVIOUS
<1>9. PICK x : x = [Go(q, pc) EXCEPT !.left = rest, !.kid = <<>>]
  OBVIOUS
<1>10. r' = [r EXCEPT ![q] = x] /\ pc \in {"drop", "kid"}
  BY <1>7, <1>8, <1>9 DEF WriteKid, Set, OtherKids
<1>11. Go(q, pc) \in Local
  BY <1>10, GoFacts
<1>12. /\ x.pc = pc /\ x.op = r[q].op /\ x.src = r[q].src /\ x.dst = r[q].dst
       /\ x.data = r[q].data /\ x.left = Kids(q, Tail(r[q].left))
       /\ x.pc = IF x.left = <<>> THEN "drop" ELSE "kid"
  BY <1>7, <1>8, <1>9, <1>10, <1>11, GoFacts DEF Local
<1>13. Good(cells', r')
  BY <1>1, <1>2, <1>4, <1>6, <1>10, <1>12, KidWritten
<1>14. \A c : /\ InCell(cells, c) => InCell(cells', c)
              /\ Hand(r[q], c) => InCell(cells', c)
  BY <1>1, <1>3, <1>4, <1>6 DEF InCell, Hand, PutIn
<1>15. Holds => Holds'
  BY <1>1, <1>10, <1>14, HoldsKept
<1> QED BY <1>1, <1>3, <1>6, <1>10, <1>12, <1>13, <1>15 DEF Fine, Sound

LEMMA DropFine ==
    ASSUME Typed, Good(cells, r), NEW q \in Request, spoiled' = {}, DropData(q)
    PROVE  Fine(q)
<1>1. /\ r[q].pc = "drop" /\ Busy(r[q]) /\ DOMAIN r = Request /\ up /\ UNCHANGED up
  BY BusyNow DEF DropData, At
<1>2. PICK p : p = r[q].src
  OBVIOUS
<1>3. /\ r[q].op \in {"delete", "rename", "move"} /\ p \in DOMAIN cells /\ CellInv(cells) /\ Phase(cells, r[q])
  BY <1>1, <1>2, DropFactsOf DEF Good
<1>4. /\ spoiled = {} /\ cells' = DropFrom(cells, p)
      /\ r' = [r EXCEPT ![q] = IF r[q].op = "delete" THEN Reply(q, "200") ELSE Go(q, "store")]
      /\ kept' = IF r[q].op = "delete" THEN {c \in kept : cells[p] # <<c>>} ELSE kept
  BY <1>2, <1>3, TableIs DEF DropData, Set, Get
<1>5. CASE r[q].op = "delete"
  <2>1. PICK x : x = Reply(q, "200")
    OBVIOUS
  <2>2. r' = [r EXCEPT ![q] = x] /\ x.src = r[q].src /\ x.dst = r[q].dst /\ ~Busy(x) /\ x.pc = "done" /\ x.op = r[q].op
    BY <1>4, <1>5, <2>1, ReplyFacts
  <2>3. Good(cells', r')
    <3>1. Good(DropFrom(cells, r[q].src), [r EXCEPT ![q] = x])
      BY <1>1, <1>5, <2>2, DeleteDone
    <3> QED BY <1>2, <1>4, <2>2, <3>1
  <2>4. \A c \in kept' : c \in kept /\ (InCell(cells, c) => InCell(cells', c))
    BY <1>4, <1>5 DEF InCell, DropFrom
  <2>5. \A c : ~Hand(r[q], c)
    BY <1>1 DEF Hand
  <2>6. Holds => Holds'
    BY <1>1, <2>2, <2>4, <2>5, HoldsKept
  <2> QED BY <1>1, <1>4, <1>5, <2>2, <2>3, <2>6 DEF Fine, Sound
<1>6. CASE r[q].op \in {"rename", "move"}
  <2>1. PICK x : x = Go(q, "store")
    OBVIOUS
  <2>2. /\ r' = [r EXCEPT ![q] = x] /\ x.src = r[q].src /\ x.dst = r[q].dst /\ x.pc = "store" /\ x.op = r[q].op
        /\ x.data = r[q].data
    BY <1>4, <1>6, <2>1, GoFacts
  <2>3. Good(cells', r')
    <3>1. Good(DropFrom(cells, r[q].src), [r EXCEPT ![q] = x])
      BY <1>1, <1>6, <2>2, DataDropped
    <3> QED BY <1>2, <1>4, <2>2, <3>1
  <2>4. ~IsFolder(p) => r[q].data = cells[p]
    BY <1>1, <1>2, <1>3, <1>6 DEF Phase
  <2>5. \A c \in Content : cells[p] = <<c>> => ~IsFolder(p)
    BY <1>3, FolderCell, ListingIsNot
  <2>6. \A c \in Content : InCell(cells, c) => InCell(cells', c) \/ Hand(x, c)
    <3> SUFFICES ASSUME NEW c \in Content, NEW s \in DOMAIN cells, cells[s] = <<c>>
                 PROVE  InCell(cells', c) \/ Hand(x, c)
      BY DEF InCell
    <3>1. CASE s = p
      <4>1. cells[p] = <<c>>
        BY <3>1
      <4>2. ~IsFolder(p)
        BY <2>5, <4>1
      <4>3. x.pc = "store" /\ x.data = <<c>>
        BY <2>2, <2>4, <4>1, <4>2
      <4> QED BY <4>3 DEF Hand
    <3>2. CASE s # p
      BY <1>4, <3>2 DEF InCell, DropFrom
    <3> QED BY <3>1, <3>2
  <2>7. \A c : ~Hand(r[q], c)
    BY <1>1 DEF Hand
  <2>8. kept' = kept /\ kept \subseteq Content
    BY <1>4, <1>6, Now
  <2>9. Holds => Holds'
    BY <1>1, <2>2, <2>6, <2>7, <2>8, HoldsKept
  <2> QED BY <1>1, <1>4, <1>6, <2>2, <2>3, <2>9 DEF Fine, Sound
<1> QED BY <1>3, <1>5, <1>6

LEMMA StoreFine ==
    ASSUME Typed, Good(cells, r), NEW q \in Request, spoiled' = {}, StoreData(q)
    PROVE  Fine(q)
<1>1. /\ r[q].pc = "store" /\ Busy(r[q]) /\ DOMAIN r = Request /\ up /\ UNCHANGED up
      /\ r[q].op \in Op \ {"list", "download"}
  BY BusyNow DEF StoreData, At
<1>2. PICK v : v = Stored(q)
  OBVIOUS
<1>3. PICK x : x = Reply(q, "200")
  OBVIOUS
<1>4. /\ spoiled = {} /\ cells' = PutIn(cells, r[q].dst, v) /\ r' = [r EXCEPT ![q] = x]
      /\ kept' = IF r[q].op = "upload" THEN kept \cup {q} ELSE kept
  BY <1>2, <1>3, TableIs DEF StoreData, Set
<1>5. /\ r[q].op = "upload" => v = <<q>>
      /\ r[q].op = "mkdir" => v = <<Up>>
      /\ r[q].op \notin {"upload", "mkdir"} => v = r[q].data
  BY <1>2 DEF Stored
<1>6. x.src = r[q].src /\ x.dst = r[q].dst /\ ~Busy(x) /\ x.pc = "done" /\ x.op = r[q].op
  BY <1>3, ReplyFacts
<1>7. Good(cells', r') /\ r[q].dst \notin DOMAIN cells
  <2>1. Good(PutIn(cells, r[q].dst, v), [r EXCEPT ![q] = x]) /\ r[q].dst \notin DOMAIN cells
    BY <1>1, <1>5, <1>6, DataStored
  <2> QED BY <1>4, <2>1
<1>8. r[q].op \in {"upload", "mkdir"} => r[q].data = <<>>
  BY <1>1 DEF Good, PhaseInv, Phase, Shape
<1>9. \A c : /\ InCell(cells, c) => InCell(cells', c)
             /\ v = <<c>> => InCell(cells', c)
  BY <1>4, <1>7 DEF InCell, PutIn
<1>10. \A c : Hand(r[q], c) => InCell(cells', c)
  <2> SUFFICES ASSUME NEW c, Hand(r[q], c) PROVE InCell(cells', c)
    OBVIOUS
  <2>1. r[q].data = <<c>>
    BY <1>1 DEF Hand
  <2>2. <<c>> # <<>>
    OBVIOUS
  <2> QED BY <1>5, <1>8, <1>9, <2>1, <2>2
<1>11. \A c \in kept' : c \in kept \/ InCell(cells', c)
  BY <1>4, <1>5, <1>9
<1>12. Holds => Holds'
  BY <1>1, <1>4, <1>9, <1>10, <1>11, HoldsKept
<1> QED BY <1>1, <1>4, <1>6, <1>7, <1>12 DEF Fine, Sound, Op

LEMMA ShowFine ==
    ASSUME Typed, Good(cells, r), NEW q \in Request, Sound(r[q]), spoiled' = {}, List(q) \/ Download(q)
    PROVE  Fine(q)
<1>1. /\ r[q].pc = "own" /\ r[q].op \in {"list", "download"} /\ up /\ UNCHANGED <<cells, kept>>
      /\ DOMAIN r = Request /\ ~Busy(r[q])
  BY Now DEF List, Download, At, Busy
<1>2. PICK x : r' = [r EXCEPT ![q] = x] /\ up' = up /\ spoiled = {} /\ \E a \in {"200", "404"} : x = Reply(q, a)
  <2>1. CASE List(q)
    BY <2>1 DEF List, Set
  <2>2. CASE Download(q)
    <3>1. ~IsFolder(r[q].src) /\ CellInv(cells)
      BY <2>2 DEF Download, Sound, Good
    <3>2. Get(r[q].src) = <<Err>> \/ Head(Get(r[q].src)) \in Content
      BY <3>1, FolderCell DEF Get
    <3> QED BY <2>2, <3>2 DEF Download, Set
  <2> QED BY <2>1, <2>2
<1>3. x.pc = "done" /\ x.op = r[q].op /\ x.src = r[q].src /\ ~Busy(x)
  BY <1>2, ReplyFacts
<1>4. Good(cells', r')
  BY <1>1, <1>2, <1>3, StartKept
<1>5. Holds => Holds'
  BY <1>1, <1>2, HoldsKept DEF Hand
<1> QED BY <1>1, <1>2, <1>3, <1>4, <1>5 DEF Fine, Sound

-----------------------------------------------------------------------------
(* The inductive invariant.                                                *)
Sane == Good(cells, r) /\ (\A q \in Request : Sound(r[q])) /\ Holds

DriveInv == Typed /\ (spoiled = {} => Sane)

LEMMA InitDrive == Init => DriveInv
<1> SUFFICES ASSUME Init PROVE Sane
  BY InitTyped DEF DriveInv
<1>1. \A q \in Request : r[q].pc = "none" /\ r[q].op = "none"
  BY DEF Init, Idle
<1>2. Good(cells, r)
  BY <1>1, DriveGood, DriveAssumption DEF Init, Busy
<1>3. Holds
  BY DEF Init, Holds, InCell
<1> QED BY <1>1, <1>2, <1>3 DEF Sane, Sound

(* The steps together.                                                     *)
LEMMA FineSane ==
    ASSUME Typed, NEW q \in Request, Fine(q), spoiled = {} => Sane
    PROVE  Sane'
<1>1. Sane
  BY DEF Fine
<1>2. PICK x : r' = [r EXCEPT ![q] = x] /\ Sound(x)
  BY DEF Fine
<1>3. \A o \in Request : r'[o] = IF o = q THEN x ELSE r[o]
  BY <1>2, Now
<1>4. \A o \in Request : Sound(r'[o])
  BY <1>1, <1>2, <1>3 DEF Sane
<1> QED BY <1>1, <1>4 DEF Fine, Sane

(* What befell the drive is remembered.                                    *)
LEMMA SpoiledStays ==
    ASSUME [Next]_vars
    PROVE  spoiled \subseteq spoiled'
<1>1. CASE UNCHANGED vars
  BY <1>1 DEF vars
<1>2. CASE Exit
  BY <1>2 DEF Exit
<1>3. ASSUME NEW q \in Request, Send(q) PROVE spoiled \subseteq spoiled'
  <2>1. PICK op, src, dst, now : Begin(q, op, src, dst, now)
    BY <1>3 DEF Send, Upload, CreateFolder, DeleteFile, DeleteFolder, RenameFile, MoveFile
  <2> QED BY <2>1 DEF Begin
<1>4. ASSUME NEW q \in Request, Step(q) PROVE spoiled \subseteq spoiled'
  BY <1>4 DEF Step, ReadToAdd, ReadToErase, ReadToRename, WriteFolder, ReadTarget, WriteTarget, ReadData,
              ReadKid, DropKid, WriteKid, DropData, StoreData, List, Download
<1> QED BY <1>1, <1>2, <1>3, <1>4 DEF Next

(* The server ends while no request changes the drive.                     *)
LEMMA ExitSane ==
    ASSUME Typed, Sane, Exit, spoiled' = {}
    PROVE  Sane'
<1>1. UNCHANGED <<cells, r, kept>> /\ \A q \in Request : ~Busy(r[q])
  BY DEF Exit, Running, Changes, Busy
<1>2. \A q \in Request : \A c : ~Hand(r[q], c)
  <2> SUFFICES ASSUME NEW q \in Request, NEW c, Hand(r[q], c) PROVE FALSE
    OBVIOUS
  <2>1. r[q].pc \in {"store", "kidput"}
    BY DEF Hand
  <2> QED BY <1>1, <2>1, BusyNow
<1>3. Holds'
  BY <1>1, <1>2 DEF Sane, Holds
<1> QED BY <1>1, <1>3 DEF Sane

LEMMA DriveStep == DriveInv /\ [Next]_vars => DriveInv'
<1> SUFFICES ASSUME DriveInv, [Next]_vars, spoiled' = {} PROVE Sane'
  BY TypedStep DEF DriveInv
<1>1. Typed /\ Sane
  BY SpoiledStays DEF DriveInv
<1>2. Good(cells, r) /\ \A q \in Request : Sound(r[q])
  BY <1>1 DEF Sane
<1>3. CASE UNCHANGED vars
  BY <1>1, <1>3 DEF vars, Sane, Holds
<1>4. CASE Exit
  BY <1>1, <1>4, ExitSane
<1>5. ASSUME NEW q \in Request, Send(q) PROVE Sane'
  <2>1. /\ Good(cells', r') /\ UNCHANGED <<cells, up, kept>> /\ r[q].pc = "none"
        /\ \E x : r' = [r EXCEPT ![q] = x] /\ Sound(x)
    BY <1>1, <1>2, <1>5, SendGood
  <2>2. Holds => Holds'
    <3>1. PICK x : r' = [r EXCEPT ![q] = x]
      BY <2>1
    <3>2. \A o \in Request : o # q => r'[o] = r[o]
      BY <3>1, <1>1, Now
    <3>3. \A c : ~Hand(r[q], c)
      BY <2>1 DEF Hand
    <3> QED BY <2>1, <3>2, <3>3 DEF Holds
  <2>3. Fine(q)
    BY <1>1, <1>2, <1>5, <2>1, <2>2, SendGood DEF Fine
  <2> QED BY <1>1, <2>3, FineSane
<1>6. ASSUME NEW q \in Request, Step(q) PROVE Sane'
  <2>1. Fine(q)
    BY <1>1, <1>2, <1>6, ReadFine, WriteFine, TargetFine, PutTargetFine, DataFine, KidFine, PutKidFine,
       DropFine, StoreFine, ShowFine DEF Step
  <2> QED BY <1>1, <2>1, FineSane
<1> QED BY <1>3, <1>4, <1>5, <1>6 DEF Next

LEMMA DriveAlways == Spec => []DriveInv
BY InitDrive, DriveStep, PTL DEF Spec

LEMMA AgreesNow == DriveInv => DriveAgrees
<1> SUFFICES ASSUME DriveInv, spoiled = {}
             PROVE  /\ \A p \in Folders : \A t \in Entries(p) : t \in DOMAIN cells \/ Changing(t)
                    /\ \A p \in DOMAIN cells \ {<<>>} : p \in Entries(Parent(p)) \/ Changing(p)
  BY DEF DriveAgrees
<1>1. Typed /\ Good(cells, r) /\ CellInv(cells)
  BY DEF DriveInv, Sane, Good
<1>2. ASSUME NEW p \in Path, NEW q \in Request, Busy(r[q]),
             Orphan(cells, r[q], p) \/ Wanting(cells, r[q], p)
      PROVE  Changing(p)
  <2>1. Kin(r[q], p)
    BY <1>1, <1>2, OrphanKin DEF Good, PhaseInv
  <2> QED BY <1>2, <2>1 DEF Changing, Kin, Busy, Running, Changes
<1>3. ASSUME NEW p \in Folders, NEW t \in Entries(p) PROVE t \in DOMAIN cells \/ Changing(t)
  <2>1. t \in Path /\ t # <<>> /\ t \in Elems(Get(p)) /\ IsFolder(p)
    BY <1>1, <1>3, FoldersFacts DEF Entries, IsEntry, ToSet, Elems
  <2>2. p \in DOMAIN cells
    <3>1. Elems(<<Err>>) = {Err}
      BY DEF Elems
    <3> QED BY <2>1, <3>1, Marks DEF Get
  <2>3. t \in Paths(cells[p])
    BY <2>1, <2>2 DEF Get, Paths
  <2>4. Parent(t) = p
    BY <1>1, <2>1, <2>2, <2>3, FolderCell
  <2>5. Listed(cells, t)
    BY <2>1, <2>2, <2>3, <2>4 DEF Listed, Paths
  <2> QED BY <1>1, <1>2, <2>1, <2>5 DEF Good, KnownInv
<1>4. ASSUME NEW p \in DOMAIN cells \ {<<>>} PROVE p \in Entries(Parent(p)) \/ Changing(p)
  <2>1. p \in Path /\ p # <<>>
    BY <1>1 DEF CellInv
  <2>2. Listed(cells, p) => p \in Entries(Parent(p))
    BY <2>1 DEF Listed, Entries, IsEntry, ToSet, Elems, Get
  <2> QED BY <1>1, <1>2, <1>4, <2>1, <2>2 DEF Good, OwnedInv
<1> QED BY <1>3, <1>4

(* Every listed path has a cell and every cell is listed in its folder,    *)
(* but for what a running request changes (http.cc:374-426, 896-1150): a   *)
(* drive where none of the listed mishaps has occurred stays one, however  *)
(* many requests run at a time and whatever their order.                   *)
THEOREM DriveAgreesAlways == Spec => []DriveAgrees
BY DriveAlways, AgreesNow, PTL

(* Data that was uploaded and answered 200 is in a cell or in the hands of *)
(* a request that is about to write it, until the file is deleted: neither *)
(* the delete-and-write of a rename or a move nor the loop over the files  *)
(* of a folder (stringutils.cc:278-327) overwrites or loses a file.         *)
THEOREM FilesSurvive == Spec => []FileSurvives
<1>1. DriveInv => FileSurvives
  BY DEF DriveInv, Sane, Holds, FileSurvives, InCell, InHand, Hand
<1> QED BY <1>1, DriveAlways, PTL

(* No request ends the server by an exception (http.cc:896-1150) unless one*)
(* of the mishaps came before: erase() finds what the page has shown, and a*)
(* download decodes data.                                                  *)
THEOREM ThrowsAreRaced == Spec => []ThrownIsRaced
<1>1. DriveInv => ThrownIsRaced
  BY DEF DriveInv, Sane, Sound, ThrownIsRaced
<1> QED BY <1>1, DriveAlways, PTL

=============================================================================
