----------------------------- MODULE FileSyncProofs -----------------------------
(***************************************************************************)
(* Theorems about FileSync: join_checksum_arrays is an outer join, for     *)
(* directories of any size and in whatever order they are listed, and a    *)
(* transfer that is done has brought over every file that was not spared.  *)
(*                                                                         *)
(* The loop of join_checksum_arrays is a fold, so what it computes is      *)
(* proved by induction, which rests on the least-element form of           *)
(* well-foundedness (WFMin): a set of numbers stands for the predicate.    *)
(***************************************************************************)
EXTENDS FileSync, FiniteSetTheorems, WellFoundedInduction, TLAPS

LEMMA SetInduction ==
    ASSUME NEW S, 0 \in S, \A n \in Nat : n \in S => n + 1 \in S
    PROVE  Nat \subseteq S
<1> SUFFICES ASSUME Nat \ S # {} PROVE FALSE
  OBVIOUS
<1>1. IsWellFoundedOn(OpToRel(<, Nat), Nat)
  BY NatLessThanWellFounded
<1>2. \E x \in Nat \ S : \A y \in Nat \ S : ~ (<<y, x>> \in OpToRel(<, Nat))
  BY <1>1, WFMin
<1>3. \A x, y \in Nat : y < x => <<y, x>> \in OpToRel(<, Nat)
  BY DEF OpToRel
<1>4. PICK x \in Nat \ S : \A y \in Nat \ S : ~ (y < x)
  BY <1>2, <1>3
<1>5. x # 0 /\ x \in Nat /\ x \notin S
  BY <1>4
<1>6. x - 1 \in Nat /\ x - 1 < x /\ (x - 1) + 1 = x
  BY <1>5
<1> QED
  BY <1>4, <1>5, <1>6

-----------------------------------------------------------------------------
(***************************************************************************)
(* The fold of JoinOne goes from left to right.                            *)
(***************************************************************************)

\* The largest element, as Max of FiniteSetsExt has it.
Largest(t) == CHOOSE i \in t : \A j \in t : i >= j
Iterates(g, m, base, s) ==
    g = [t \in SUBSET (1 .. m) |->
            IF t = {} THEN base ELSE JoinOne(g[t \ {Largest(t)}], s[Largest(t)])]

LEMMA IterationExists ==
    ASSUME NEW base, NEW s, NEW n \in Nat
    PROVE  \E g : Iterates(g, n, base, s)
<1> DEFINE S == {m \in Nat : \E g : Iterates(g, m, base, s)}
<1>1. 0 \in S
  <2> DEFINE g0 == [t \in SUBSET (1 .. 0) |-> base]
  <2>1. \A t \in SUBSET (1 .. 0) : t = {}
    OBVIOUS
  <2>2. Iterates(g0, 0, base, s)
    BY <2>1 DEF Iterates
  <2> QED
    BY <2>2
<1>2. ASSUME NEW m \in Nat, m \in S PROVE m + 1 \in S
  <2>1. PICK g : Iterates(g, m, base, s)
    BY <1>2
  <2> DEFINE step(t) == IF m + 1 \in t THEN JoinOne(g[t \ {m + 1}], s[m + 1]) ELSE g[t]
  <2> DEFINE h == [t \in SUBSET (1 .. m + 1) |-> step(t)]
  <2>2. \A t \in SUBSET (1 .. m + 1) : m + 1 \notin t => t \in SUBSET (1 .. m)
    OBVIOUS
  <2>3. ASSUME NEW t \in SUBSET (1 .. m + 1)
        PROVE  h[t] = IF t = {} THEN base ELSE JoinOne(h[t \ {Largest(t)}], s[Largest(t)])
    <3>1. CASE m + 1 \in t
      <4>1. Largest(t) = m + 1
        <5>1. m + 1 \in t /\ \A j \in t : m + 1 >= j
          BY <3>1
        <5>2. \A i \in t : (\A j \in t : i >= j) => i = m + 1
          BY <3>1
        <5> QED
          BY <5>1, <5>2 DEF Largest
      <4>2. t \ {m + 1} \in SUBSET (1 .. m + 1) /\ m + 1 \notin t \ {m + 1}
        OBVIOUS
      <4>3. h[t \ {m + 1}] = g[t \ {m + 1}]
        BY <4>2
      <4> QED
        BY <3>1, <4>1, <4>3
    <3>2. CASE m + 1 \notin t
      <4>1. t \in SUBSET (1 .. m) /\ h[t] = g[t]
        BY <2>2, <3>2
      <4>2. t \ {Largest(t)} \in SUBSET (1 .. m + 1) /\ m + 1 \notin t \ {Largest(t)}
        BY <3>2
      <4>3. h[t \ {Largest(t)}] = g[t \ {Largest(t)}]
        BY <4>2
      <4>4. g[t] = IF t = {} THEN base ELSE JoinOne(g[t \ {Largest(t)}], s[Largest(t)])
        BY <2>1, <4>1 DEF Iterates
      <4> QED
        BY <4>1, <4>3, <4>4
    <3> QED
      BY <3>1, <3>2
  <2>4. Iterates(h, m + 1, base, s)
    <3>1. h = [t \in SUBSET (1 .. m + 1) |-> h[t]]
      OBVIOUS
    <3> HIDE DEF h
    <3> QED
      BY <2>3, <3>1 DEF Iterates
  <2> QED
    BY <2>4
<1> HIDE DEF S
<1>3. Nat \subseteq S
  BY <1>1, <1>2, SetInduction
<1> QED
  BY <1>3 DEF S

Joined(base, s) == FoldLeft(JoinOne, base, s)
Rounds(acc, base, s, n) ==
    /\ acc[0] = base
    /\ \A k \in 1 .. n : acc[k] = JoinOne(acc[k - 1], s[k])
    /\ Joined(base, s) = acc[n]

LEMMA FoldOfJoin ==
    ASSUME NEW base, NEW s, NEW n \in Nat, DOMAIN s = 1 .. n
    PROVE  \E acc : Rounds(acc, base, s, n)
<1> DEFINE g == CHOOSE f : Iterates(f, n, base, s)
<1>1. Joined(base, s) = g[1 .. n]
  BY DEF Joined, FoldLeft, MapThenFoldSet, Max, Iterates, Largest
<1>2. Iterates(g, n, base, s)
  BY IterationExists
<1> HIDE DEF g
<1> DEFINE acc == [k \in 0 .. n |-> g[1 .. k]]
<1>3. acc[0] = base
  <2>1. 1 .. 0 = {}
    OBVIOUS
  <2>2. {} \in SUBSET (1 .. n)
    OBVIOUS
  <2>3. g[{}] = base
    BY <1>2, <2>2 DEF Iterates
  <2> QED
    BY <2>1, <2>3
<1>4. ASSUME NEW k \in 1 .. n PROVE acc[k] = JoinOne(acc[k - 1], s[k])
  <2>1. 1 .. k \in SUBSET (1 .. n) /\ 1 .. k # {}
    <3>1. k \in 1 .. k
      OBVIOUS
    <3>2. 1 .. k \subseteq 1 .. n
      OBVIOUS
    <3> QED
      BY <3>1, <3>2
  <2>2. Largest(1 .. k) = k
    <3>1. k \in 1 .. k /\ \A j \in 1 .. k : k >= j
      OBVIOUS
    <3>2. \A i \in 1 .. k : (\A j \in 1 .. k : i >= j) => i = k
      OBVIOUS
    <3> QED
      BY <3>1, <3>2 DEF Largest
  <2>3. (1 .. k) \ {k} = 1 .. k - 1
    OBVIOUS
  <2>4. g[1 .. k] = JoinOne(g[(1 .. k) \ {Largest(1 .. k)}], s[Largest(1 .. k)])
    BY <1>2, <2>1 DEF Iterates
  <2>5. g[1 .. k] = JoinOne(g[1 .. k - 1], s[k])
    BY <2>2, <2>3, <2>4
  <2>6. k \in 0 .. n /\ k - 1 \in 0 .. n
    OBVIOUS
  <2> QED
    BY <2>5, <2>6
<1>5. Joined(base, s) = acc[n]
  BY <1>1
<1> QED
  BY <1>3, <1>4, <1>5 DEF Rounds

-----------------------------------------------------------------------------
(***************************************************************************)
(* sy_status.                                                              *)
(***************************************************************************)

\* readdir lists every file once.
ListsAll(d, names, n) ==
    /\ names \in [1 .. n -> Name]
    /\ \A i, j \in 1 .. n : names[i] = names[j] => i = j
    /\ \A x \in Name : d[x] # Absent <=> \E i \in 1 .. n : names[i] = x

LEMMA ListingIsComplete ==
    ASSUME NEW d, NEW names \in Listings(d)
    PROVE  \E n \in Nat : ListsAll(d, names, n)
<1> DEFINE S == {x \in Name : d[x] # Absent}
<1> DEFINE n == Cardinality(S)
<1> DEFINE D == 1 .. n
<1>1. IsFiniteSet(S) /\ n \in Nat
  <2>1. S \subseteq Name
    OBVIOUS
  <2> QED
    BY <2>1, NameIsFinite, FS_Subset, FS_CardinalityType
<1>2. names \in [D -> S] /\ \A i, j \in D : i # j => names[i] # names[j]
  BY DEF Listings, SetToSeqs
<1>3. ASSUME NEW x \in S, \A i \in D : names[i] # x PROVE FALSE
  <2> DEFINE R == S \ {x}
  <2>1. names \in [D -> R]
    BY <1>2, <1>3
  <2>2. IsFiniteSet(R) /\ Cardinality(R) = n - 1
    BY <1>1, FS_RemoveElement
  <2>3. IsFiniteSet(D) /\ Cardinality(D) = n
    <3>1. n # 0
      BY <1>1, FS_EmptySet
    <3>2. 1 \in Int /\ n \in Int /\ ~(1 > n)
      BY <1>1, <3>1
    <3> HIDE DEF n
    <3>3. Cardinality(1 .. n) = n - 1 + 1 /\ IsFiniteSet(1 .. n)
      BY <3>2, FS_Interval
    <3> QED
      BY <3>2, <3>3
  <2>4. Cardinality(R) < Cardinality(D)
    BY <1>1, <2>2, <2>3
  <2> HIDE DEF R, D
  <2>5. \E i, j \in D : i # j /\ names[i] = names[j]
    BY <2>1, <2>2, <2>3, <2>4, FS_PigeonHole
  <2> QED
    BY <1>2, <2>5
<1> HIDE DEF n
<1> QED
  BY <1>1, <1>2, <1>3 DEF ListsAll

\* After k rounds over the client's list cl, acc has an entry for every file of
\* the file server and for those of the client that came so far.
Seen(cl, k, x) == \E j \in 1 .. k : cl[j] = x
SeenSum(l, cl, k, x) == IF Seen(cl, k, x) THEN l[x] ELSE Absent
JoinedUpTo(acc, r, l, cl, k) ==
    /\ \E m \in Nat : acc = [i \in 1 .. m |-> acc[i]]
    /\ \A i \in DOMAIN acc : \E x \in Name : acc[i] = Entry(x, r[x], SeenSum(l, cl, k, x))
    /\ \A i, j \in DOMAIN acc : acc[i].filename = acc[j].filename => i = j
    /\ \A x \in Name : r[x] # Absent \/ Seen(cl, k, x) =>
           \E i \in DOMAIN acc : acc[i].filename = x
    /\ \A i \in DOMAIN acc : r[acc[i].filename] # Absent \/ Seen(cl, k, acc[i].filename)

LEMMA EntryFields == \A n, f, c :
    /\ Entry(n, f, c).filename = n /\ Entry(n, f, c).fs_checksum = f
    /\ Entry(n, f, c).client_checksum = c
    /\ \A d : [Entry(n, f, c) EXCEPT !.client_checksum = d] = Entry(n, f, d)
BY DEF Entry

LEMMA JoinRound ==
    ASSUME NEW r, NEW l, NEW k \in Nat, NEW cl, NEW acc,
           JoinedUpTo(acc, r, l, cl, k), cl[k + 1] \in Name,
           \A j \in 1 .. k : cl[j] # cl[k + 1],
           NEW b, b = [filename |-> cl[k + 1], client_checksum |-> l[cl[k + 1]]]
    PROVE  JoinedUpTo(JoinOne(acc, b), r, l, cl, k + 1)
<1> DEFINE x0 == cl[k + 1]
<1>1. \A x : Seen(cl, k + 1, x) <=> Seen(cl, k, x) \/ x = x0
  <2>1. \A j : j \in 1 .. k + 1 <=> j \in 1 .. k \/ j = k + 1
    OBVIOUS
  <2> QED
    BY <2>1 DEF Seen
<1>2. b.filename = x0 /\ b.client_checksum = l[x0]
  OBVIOUS
<1>3. ~Seen(cl, k, x0)
  BY DEF Seen
<1>4. \A x : x # x0 => SeenSum(l, cl, k + 1, x) = SeenSum(l, cl, k, x)
  BY <1>1 DEF SeenSum
<1>5. SeenSum(l, cl, k + 1, x0) = l[x0]
  BY <1>1 DEF SeenSum
<1>6. PICK m \in Nat : acc = [i \in 1 .. m |-> acc[i]] /\ DOMAIN acc = 1 .. m
  <2>1. PICK m \in Nat : acc = [i \in 1 .. m |-> acc[i]]
    BY DEF JoinedUpTo
  <2> QED
    BY <2>1
<1>7. \A i \in DOMAIN acc : \E x \in Name : acc[i] = Entry(x, r[x], SeenSum(l, cl, k, x))
  BY DEF JoinedUpTo
<1> HIDE DEF x0
<1>8. CASE \E i \in DOMAIN acc : acc[i].filename = x0
  <2> DEFINE new == [i \in DOMAIN acc |-> IF acc[i].filename = x0
                               THEN [acc[i] EXCEPT !.client_checksum = l[x0]]
                               ELSE acc[i]]
  <2>1. JoinOne(acc, b) = new
    BY <1>2, <1>8 DEF JoinOne
  <2>2. \A i \in DOMAIN acc : \E x \in Name :
           /\ acc[i].filename = x /\ new[i].filename = x
           /\ new[i] = Entry(x, r[x], SeenSum(l, cl, k + 1, x))
    <3> TAKE i \in DOMAIN acc
    <3>1. PICK x \in Name : acc[i] = Entry(x, r[x], SeenSum(l, cl, k, x))
      BY <1>7
    <3>2. acc[i].filename = x
      BY <3>1, EntryFields
    <3>3. CASE x = x0
      <4>1. new[i] = [acc[i] EXCEPT !.client_checksum = l[x0]]
        BY <3>2, <3>3
      <4>2. new[i] = Entry(x, r[x], l[x0])
        BY <3>1, <4>1, EntryFields
      <4> QED
        BY <1>5, <3>2, <3>3, <4>2, EntryFields
    <3>4. CASE x # x0
      <4>1. new[i] = acc[i]
        BY <3>2, <3>4
      <4> QED
        BY <1>4, <3>1, <3>2, <3>4, <4>1
    <3> QED
      BY <3>3, <3>4
  <2>3. DOMAIN new = DOMAIN acc /\ new = [i \in 1 .. m |-> new[i]]
    BY <1>6
  <2> HIDE DEF new
  <2>4. \A i \in DOMAIN acc : new[i].filename = acc[i].filename
    BY <2>2
  <2>5. JoinedUpTo(new, r, l, cl, k + 1)
    <3>1. \A i \in DOMAIN new : \E x \in Name : new[i] = Entry(x, r[x], SeenSum(l, cl, k + 1, x))
      BY <2>2, <2>3
    <3>2. \A i, j \in DOMAIN new : new[i].filename = new[j].filename => i = j
      BY <2>3, <2>4 DEF JoinedUpTo
    <3>3. \A x \in Name : r[x] # Absent \/ Seen(cl, k + 1, x) =>
             \E i \in DOMAIN new : new[i].filename = x
      BY <1>1, <1>8, <2>3, <2>4 DEF JoinedUpTo
    <3>4. \A i \in DOMAIN new : r[new[i].filename] # Absent \/ Seen(cl, k + 1, new[i].filename)
      BY <1>1, <2>3, <2>4 DEF JoinedUpTo
    <3> QED
      BY <1>6, <2>3, <3>1, <3>2, <3>3, <3>4 DEF JoinedUpTo
  <2> QED
    BY <2>1, <2>5
<1>9. CASE \A i \in DOMAIN acc : acc[i].filename # x0
  <2> DEFINE e0 == Entry(x0, Absent, l[x0])
  <2> DEFINE new == Append(acc, e0)
  <2>1. JoinOne(acc, b) = new
    BY <1>2, <1>9 DEF JoinOne
  <2>2. x0 \in Name
    BY DEF x0
  <2>3. r[x0] = Absent
    BY <1>9, <2>2 DEF JoinedUpTo
  <2>4. /\ DOMAIN new = 1 .. m + 1 /\ new[m + 1] = e0
        /\ \A i \in 1 .. m : new[i] = acc[i]
        /\ new = [i \in 1 .. m + 1 |-> new[i]]
    <3>1. \A i \in 1 .. m : acc[i] \in {acc[j] : j \in 1 .. m}
      OBVIOUS
    <3>2. acc \in Seq({acc[j] : j \in 1 .. m})
      BY <1>6, <3>1
    <3>3. Len(acc) = m
      BY <1>6, <3>2
    <3> HIDE DEF e0
    <3> QED
      BY <1>6, <3>2, <3>3
  <2>5. e0 = Entry(x0, r[x0], SeenSum(l, cl, k + 1, x0)) /\ e0.filename = x0
    BY <1>5, <2>3, EntryFields
  <2> HIDE DEF new, e0
  <2>6. \A i \in 1 .. m : \E x \in Name :
           new[i] = Entry(x, r[x], SeenSum(l, cl, k + 1, x))
    <3> TAKE i \in 1 .. m
    <3>1. PICK x \in Name : acc[i] = Entry(x, r[x], SeenSum(l, cl, k, x))
      BY <1>6, <1>7
    <3>2. x # x0
      BY <1>6, <1>9, <3>1, EntryFields
    <3> QED
      BY <1>4, <2>4, <3>1, <3>2
  <2>7. \A i \in 1 .. m + 1 : i \in 1 .. m \/ i = m + 1
    OBVIOUS
  <2>8. JoinedUpTo(new, r, l, cl, k + 1)
    <3>1. \A i \in DOMAIN new : \E x \in Name : new[i] = Entry(x, r[x], SeenSum(l, cl, k + 1, x))
      BY <2>2, <2>4, <2>5, <2>6, <2>7
    <3>2. \A i, j \in DOMAIN new : new[i].filename = new[j].filename => i = j
      <4>1. \A i, j \in 1 .. m : acc[i].filename = acc[j].filename => i = j
        BY <1>6 DEF JoinedUpTo
      <4>2. /\ \A i \in 1 .. m : new[i].filename = acc[i].filename /\ new[i].filename # x0
            /\ new[m + 1].filename = x0
        BY <1>6, <1>9, <2>4, <2>5
      <4>3. ASSUME NEW i \in 1 .. m + 1, NEW j \in 1 .. m + 1,
                   new[i].filename = new[j].filename
            PROVE  i = j
        <5>1. CASE i \in 1 .. m /\ j \in 1 .. m
          BY <4>1, <4>2, <4>3, <5>1
        <5>2. CASE i = m + 1 \/ j = m + 1
          BY <2>7, <4>2, <4>3, <5>2
        <5> QED
          BY <2>7, <5>1, <5>2
      <4> QED
        BY <2>4, <4>3
    <3>3. \A x \in Name : r[x] # Absent \/ Seen(cl, k + 1, x) =>
             \E i \in DOMAIN new : new[i].filename = x
      <4> SUFFICES ASSUME NEW x \in Name, r[x] # Absent \/ Seen(cl, k + 1, x)
                   PROVE  \E i \in DOMAIN new : new[i].filename = x
        OBVIOUS
      <4>1. CASE x = x0
        <5>1. m + 1 \in 1 .. m + 1
          OBVIOUS
        <5> QED
          BY <2>4, <2>5, <4>1, <5>1
      <4>2. CASE x # x0
        <5>1. PICK i \in 1 .. m : acc[i].filename = x
          BY <1>1, <1>6, <4>2 DEF JoinedUpTo
        <5>2. i \in 1 .. m + 1
          OBVIOUS
        <5> QED
          BY <2>4, <5>1, <5>2
      <4> QED
        BY <4>1, <4>2
    <3>4. \A i \in DOMAIN new : r[new[i].filename] # Absent \/ Seen(cl, k + 1, new[i].filename)
      BY <1>1, <1>6, <2>4, <2>5, <2>7 DEF JoinedUpTo
    <3>5. m + 1 \in Nat
      OBVIOUS
    <3> QED
      BY <2>4, <3>1, <3>2, <3>3, <3>4, <3>5 DEF JoinedUpTo
  <2> QED
    BY <2>1, <2>8
<1> QED
  BY <1>8, <1>9

\* join_checksum_arrays is an outer join of the two listings.
IsJoin(J, r, l) ==
    /\ \E m \in Nat : J = [i \in 1 .. m |-> J[i]]
    /\ \A i \in DOMAIN J : \E x \in Name : /\ J[i] = Entry(x, r[x], l[x])
                                           /\ r[x] # Absent \/ l[x] # Absent
    /\ \A i, j \in DOMAIN J : J[i].filename = J[j].filename => i = j
    /\ \A x \in Name : r[x] # Absent \/ l[x] # Absent =>
           \E i \in DOMAIN J : J[i].filename = x

LEMMA OuterJoin ==
    ASSUME NEW r, NEW l,
           NEW fs \in Listings(r), NEW cl \in Listings(l),
           NEW J, J = join_checksum_arrays(FsChecksums(r, fs), ClientChecksums(l, cl))
    PROVE  IsJoin(J, r, l)
<1>1. PICK m \in Nat :
         /\ fs \in [1 .. m -> Name]
         /\ \A i, j \in 1 .. m : fs[i] = fs[j] => i = j
         /\ \A x \in Name : r[x] # Absent <=> \E i \in 1 .. m : fs[i] = x
  BY ListingIsComplete DEF ListsAll
<1>2. PICK n \in Nat :
         /\ cl \in [1 .. n -> Name]
         /\ \A i, j \in 1 .. n : cl[i] = cl[j] => i = j
         /\ \A x \in Name : l[x] # Absent <=> \E i \in 1 .. n : cl[i] = x
  BY ListingIsComplete DEF ListsAll
<1> DEFINE B == ClientChecksums(l, cl)
<1> DEFINE base == [k \in DOMAIN fs |-> Entry(fs[k], r[fs[k]], Absent)]
<1>3. J = Joined(base, B)
  <2> DEFINE A == FsChecksums(r, fs)
  <2>1. DOMAIN A = DOMAIN fs
    BY DEF FsChecksums
  <2>2. \A k \in DOMAIN fs : A[k].filename = fs[k] /\ A[k].fs_checksum = r[fs[k]]
    BY DEF FsChecksums
  <2>3. base = [k \in DOMAIN A |-> Entry(A[k].filename, A[k].fs_checksum, Absent)]
    BY <2>1, <2>2
  <2> HIDE DEF A, B, base
  <2> QED
    BY <2>3 DEF join_checksum_arrays, Joined, A, B
<1>4. DOMAIN B = 1 .. n
  BY <1>2 DEF ClientChecksums
<1>5. \A k \in 1 .. n : B[k] = [filename |-> cl[k], client_checksum |-> l[cl[k]]]
  BY <1>2 DEF ClientChecksums
<1> HIDE DEF B
<1>6. JoinedUpTo(base, r, l, cl, 0)
  <2>1. \A x : ~Seen(cl, 0, x) /\ SeenSum(l, cl, 0, x) = Absent
    BY DEF Seen, SeenSum
  <2>2. DOMAIN base = 1 .. m /\ \A k \in 1 .. m : base[k] = Entry(fs[k], r[fs[k]], Absent)
    BY <1>1
  <2>3. \A k \in 1 .. m : base[k].filename = fs[k] /\ fs[k] \in Name
    BY <1>1, <2>2, EntryFields
  <2>4. base = [k \in 1 .. m |-> base[k]]
    BY <1>1
  <2> HIDE DEF base
  <2> QED
    BY <1>1, <2>1, <2>2, <2>3, <2>4 DEF JoinedUpTo
<1> HIDE DEF base
<1>7. PICK acc : /\ acc[0] = base
                 /\ \A k \in 1 .. n : acc[k] = JoinOne(acc[k - 1], B[k])
                 /\ Joined(base, B) = acc[n]
  <2>1. \E acc : Rounds(acc, base, B, n)
    BY Zenon, <1>4, FoldOfJoin
  <2> QED
    BY Zenon, <2>1 DEF Rounds
<1> DEFINE S == {k \in Nat : k <= n => JoinedUpTo(acc[k], r, l, cl, k)}
<1>8. 0 \in S
  BY <1>6, <1>7
<1>9. ASSUME NEW k \in Nat, k \in S PROVE k + 1 \in S
  <2> SUFFICES ASSUME k + 1 <= n PROVE JoinedUpTo(acc[k + 1], r, l, cl, k + 1)
    OBVIOUS
  <2>1. k + 1 \in 1 .. n /\ (k + 1) - 1 = k /\ k <= n
    OBVIOUS
  <2>2. JoinedUpTo(acc[k], r, l, cl, k)
    BY <1>9, <2>1
  <2>3. acc[k + 1] = JoinOne(acc[k], B[k + 1])
    BY <1>7, <2>1
  <2>4. cl[k + 1] \in Name /\ \A j \in 1 .. k : cl[j] # cl[k + 1]
    <3>1. \A j \in 1 .. k : j \in 1 .. n /\ j # k + 1
      BY <2>1
    <3> QED
      BY <1>2, <2>1, <3>1
  <2>5. B[k + 1] = [filename |-> cl[k + 1], client_checksum |-> l[cl[k + 1]]]
    BY <1>5, <2>1
  <2> QED
    BY <2>2, <2>3, <2>4, <2>5, JoinRound
<1> HIDE DEF S
<1>10. Nat \subseteq S
  BY <1>8, <1>9, SetInduction
<1>11. JoinedUpTo(J, r, l, cl, n)
  BY <1>3, <1>7, <1>10 DEF S
<1>12. \A x \in Name : /\ Seen(cl, n, x) <=> l[x] # Absent
                       /\ SeenSum(l, cl, n, x) = l[x]
  BY <1>2 DEF Seen, SeenSum
<1>13. \A i \in DOMAIN J : \E x \in Name : /\ J[i] = Entry(x, r[x], l[x])
                                           /\ r[x] # Absent \/ l[x] # Absent
  <2> TAKE i \in DOMAIN J
  <2>1. PICK x \in Name : J[i] = Entry(x, r[x], SeenSum(l, cl, n, x))
    BY <1>11 DEF JoinedUpTo
  <2>2. J[i].filename = x
    BY <2>1, EntryFields
  <2>3. r[x] # Absent \/ Seen(cl, n, x)
    BY <1>11, <2>2 DEF JoinedUpTo
  <2> QED
    BY <1>12, <2>1, <2>3
<1> QED
  BY <1>11, <1>12, <1>13 DEF JoinedUpTo, IsJoin

\* What sy_status returns for the directories l and r.
IsDiff(D, l, r) ==
    /\ \E m \in Nat : D = [i \in 1 .. m |-> D[i]]
    /\ \A i \in DOMAIN D : \E x \in Name :
          /\ D[i] = [filename |-> x, dirty |-> Reference(l[x], r[x])]
          /\ l[x] # Absent \/ r[x] # Absent
    /\ \A i, j \in DOMAIN D : D[i].filename = D[j].filename => i = j
    /\ \A x \in Name : l[x] # Absent \/ r[x] # Absent =>
          \E i \in DOMAIN D : D[i].filename = x

LEMMA CompareIsReference ==
    \A n, f, c : Compare(Entry(n, f, c)) = Reference(c, f)
BY DEF Compare, Reference, Entry

LEMMA DiffOfListings ==
    ASSUME NEW r, NEW l,
           NEW fs \in Listings(r), NEW cl \in Listings(l),
           NEW J, J = join_checksum_arrays(FsChecksums(r, fs), ClientChecksums(l, cl)),
           NEW D, D = [k \in DOMAIN J |-> [filename |-> J[k].filename, dirty |-> Compare(J[k])]]
    PROVE  IsDiff(D, l, r)
<1>1. /\ \E m \in Nat : J = [i \in 1 .. m |-> J[i]]
      /\ \A i \in DOMAIN J : \E x \in Name : /\ J[i] = Entry(x, r[x], l[x])
                                             /\ r[x] # Absent \/ l[x] # Absent
      /\ \A i, j \in DOMAIN J : J[i].filename = J[j].filename => i = j
      /\ \A x \in Name : r[x] # Absent \/ l[x] # Absent =>
             \E i \in DOMAIN J : J[i].filename = x
  <2>1. IsJoin(J, r, l)
    BY OuterJoin
  <2> QED
    BY <2>1 DEF IsJoin
<1>2. DOMAIN D = DOMAIN J /\ \A i \in DOMAIN J : D[i].filename = J[i].filename
  OBVIOUS
<1>3. \A i \in DOMAIN J : \E x \in Name :
          /\ D[i] = [filename |-> x, dirty |-> Reference(l[x], r[x])]
          /\ l[x] # Absent \/ r[x] # Absent
  <2> TAKE i \in DOMAIN J
  <2>1. PICK x \in Name : J[i] = Entry(x, r[x], l[x]) /\ (r[x] # Absent \/ l[x] # Absent)
    BY <1>1
  <2>2. J[i].filename = x /\ Compare(J[i]) = Reference(l[x], r[x])
    BY <2>1, EntryFields, CompareIsReference
  <2>3. D[i] = [filename |-> J[i].filename, dirty |-> Compare(J[i])]
    OBVIOUS
  <2> QED
    BY <2>1, <2>2, <2>3
<1>4. \E m \in Nat : D = [i \in 1 .. m |-> D[i]]
  <2>1. PICK m \in Nat : J = [i \in 1 .. m |-> J[i]]
    BY <1>1
  <2>2. DOMAIN J = 1 .. m
    BY <2>1
  <2> QED
    BY <2>2
<1>5. \A i, j \in DOMAIN D : D[i].filename = D[j].filename => i = j
  BY <1>1, <1>2
<1>6. \A x \in Name : l[x] # Absent \/ r[x] # Absent =>
          \E i \in DOMAIN D : D[i].filename = x
  <2> TAKE x \in Name
  <2> HAVE l[x] # Absent \/ r[x] # Absent
  <2>1. PICK i \in DOMAIN J : J[i].filename = x
    BY <1>1
  <2> QED
    BY <1>2, <2>1
<1>7. \A i \in DOMAIN D : \E x \in Name :
          /\ D[i] = [filename |-> x, dirty |-> Reference(l[x], r[x])]
          /\ l[x] # Absent \/ r[x] # Absent
  BY <1>2, <1>3
<1> QED
  BY <1>4, <1>5, <1>6, <1>7 DEF IsDiff

-----------------------------------------------------------------------------
(***************************************************************************)
(* The sums of a directory.                                                *)
(***************************************************************************)
Sums(d) == Checksums(d, Present(d))

LEMMA SumIsNat ==
    ASSUME NEW X, NEW f \in Seq(X)
    PROVE  gen_md5(f) \in Nat
<1>1. DOMAIN f = 1 .. Len(f) /\ Len(f) \in Nat
  OBVIOUS
<1>2. IsFiniteSet(1 .. Len(f))
  BY <1>1, FS_Interval
<1>3. IsFiniteSet({k \in DOMAIN f : f[k] # CutPiece})
  BY <1>1, <1>2, FS_Subset
<1> QED
  BY <1>3, FS_CardinalityType DEF gen_md5

LEMMA SumsFacts ==
    ASSUME NEW X, NEW d \in [Name -> Seq(X) \cup {Absent}], NEW x \in Name
    PROVE  /\ Sums(d)[x] = SumOf(d[x])
           /\ Sums(d)[x] # Absent <=> d[x] # Absent
           /\ Sums(d)[x] \in Nat \cup {Absent}
<1>1. Sums(d)[x] = SumOf(d[x])
  BY DEF Sums, Checksums, Present, SumOf
<1>2. CASE d[x] = Absent
  BY <1>1, <1>2 DEF SumOf
<1>3. CASE d[x] # Absent
  <2>1. gen_md5(d[x]) \in Nat
    BY <1>3, SumIsNat
  <2> QED
    BY <1>1, <1>3, <2>1, AbsentIsNoSum DEF SumOf
<1> QED
  BY <1>1, <1>2, <1>3

-----------------------------------------------------------------------------
(***************************************************************************)
(* The diff is right, whatever overlaps: between sy_status and its answer  *)
(* nothing writes to the client's directory.                               *)
(***************************************************************************)
AskedInv ==
    /\ local = [c \in Client |-> local[c]] /\ pc = [c \in Client |-> pc[c]]
    /\ files = [c \in Client |-> files[c]] /\ diff = [c \in Client |-> diff[c]]
    /\ channel = [c \in Client |-> channel[c]]
    /\ \A c \in Client : pc[c] = "asked" =>
           \E names \in Listings(Sums(local[c])) :
                           files[c] = ClientChecksums(Sums(local[c]), names)
    /\ \A c \in Client : channel[c] # <<>> => pc[c] = "moving"

LEMMA AskedInvHolds == ASSUME SamePath PROVE Spec => []AskedInv
<1>1. Init => AskedInv
  BY DEF Init, AskedInv
<1>2. AskedInv /\ [Next]_vars => AskedInv'
  <2> SUFFICES ASSUME AskedInv, [Next]_vars PROVE AskedInv'
    OBVIOUS
  <2>1. CASE UNCHANGED vars
    BY <2>1 DEF AskedInv, vars, status, transfer
  <2>2. ASSUME NEW c \in Client, Status(c) PROVE AskedInv'
    <3>1. /\ files' = [files EXCEPT ![c] = files'[c]]
          /\ \E names \in Listings(Sums(local[c])) :
                              files'[c] = ClientChecksums(Sums(local[c]), names)
      <4>1. PICK x : /\ files' = [files EXCEPT ![c] = x]
                     /\ \E names \in Listings(Sums(local[c])) :
                                         x = ClientChecksums(Sums(local[c]), names)
        BY <2>2 DEF Status, Sums
      <4> QED
        BY <4>1 DEF AskedInv
    <3>2. /\ pc[c] \in {"idle", "known"} /\ pc' = [pc EXCEPT ![c] = "asked"]
          /\ UNCHANGED <<local, diff, channel>>
      BY <2>2 DEF Status, transfer
    <3>3. ASSUME NEW d \in Client, pc'[d] = "asked"
          PROVE  \E ns \in Listings(Sums(local'[d])) :
                              files'[d] = ClientChecksums(Sums(local'[d]), ns)
      <4>1. CASE d = c
        BY <3>1, <3>2, <4>1 DEF AskedInv
      <4>2. CASE d # c
        BY <3>1, <3>2, <3>3, <4>2 DEF AskedInv
      <4> QED
        BY <4>1, <4>2
    <3> QED
      BY <3>1, <3>2, <3>3 DEF AskedInv
  <2>3. ASSUME NEW c \in Client, FsStatus(c) PROVE AskedInv'
    <3>1. /\ pc' = [pc EXCEPT ![c] = "known"] /\ UNCHANGED <<local, channel>> /\ pc[c] = "asked"
          /\ files' = [files EXCEPT ![c] = files'[c]] /\ diff' = [diff EXCEPT ![c] = diff'[c]]
      BY <2>3 DEF FsStatus, transfer, AskedInv
    <3> QED
      BY <3>1 DEF AskedInv
  <2>4. ASSUME NEW c \in Client, NEW k \in {"upload", "download"}, Start(c, k) PROVE AskedInv'
    BY <2>4 DEF AskedInv, Start, status
  <2>5. ASSUME NEW c \in Client, SendFile(c) PROVE AskedInv'
    <3>1. /\ pc[c] = "moving" /\ UNCHANGED <<local, pc, files, diff>>
          /\ \E x : channel' = [channel EXCEPT ![c] = x]
      <4>1. channel = [channel EXCEPT ![c] = channel[c]]
        BY DEF AskedInv
      <4> QED
        BY <2>5, <4>1 DEF SendFile, status
    <3> QED
      BY <3>1 DEF AskedInv
  <2>6. ASSUME NEW c \in Client, OnMessage(c) PROVE AskedInv'
    <3>1. /\ channel[c] # <<>> /\ channel' = [channel EXCEPT ![c] = Tail(@)]
          /\ UNCHANGED <<files, diff, pc>>
      BY <2>6 DEF OnMessage, status
    <3>2. \/ UNCHANGED local
          \/ \E n, f : local' = [local EXCEPT ![c][n] = f]
      BY <2>6 DEF OnMessage, Write
    <3>3. pc[c] = "moving"
      BY <3>1 DEF AskedInv
    <3>4. local' = [local EXCEPT ![c] = local'[c]] \/ UNCHANGED local
      BY <3>2 DEF AskedInv
    <3>5. local' = [d \in Client |-> local'[d]] /\ \A d \in Client \ {c} : local'[d] = local[d]
      BY <3>4 DEF AskedInv
    <3>6. \A d \in Client : pc'[d] = "asked" => d # c
      BY <3>1, <3>3
    <3>7. \A d \in Client : pc'[d] = "asked" =>
             \E names \in Listings(Sums(local'[d])) :
                             files'[d] = ClientChecksums(Sums(local'[d]), names)
      BY <3>1, <3>5, <3>6 DEF AskedInv
    <3>8. channel' = [d \in Client |-> channel'[d]] /\ \A d \in Client \ {c} : channel'[d] = channel[d]
      BY <3>1 DEF AskedInv
    <3> QED
      BY <3>1, <3>3, <3>5, <3>7, <3>8 DEF AskedInv
  <2>7. ASSUME NEW c \in Client, Quit(c) PROVE AskedInv'
    BY <2>7 DEF AskedInv, Quit
  <2> QED
    BY <2>1, <2>2, <2>3, <2>4, <2>5, <2>6, <2>7 DEF Next
<1> QED
  BY <1>1, <1>2, PTL DEF Spec

LEMMA DiffSet ==
    ASSUME NEW D, NEW l, NEW r, IsDiff(D, l, r)
    PROVE  /\ {<<e.filename, e.dirty>> : e \in ToSet(D)} =
                {<<n, Reference(l[n], r[n])>> : n \in {m \in Name : l[m] # Absent \/ r[m] # Absent}}
           /\ IsInjective([k \in DOMAIN D |-> D[k].filename])
<1>1. ToSet(D) = {D[i] : i \in DOMAIN D}
  BY DEF ToSet
<1>2. \A i \in DOMAIN D : \E x \in Name :
          /\ D[i] = [filename |-> x, dirty |-> Reference(l[x], r[x])]
          /\ l[x] # Absent \/ r[x] # Absent
  BY DEF IsDiff
<1>3. \A x \in Name : l[x] # Absent \/ r[x] # Absent =>
          \E i \in DOMAIN D : D[i] = [filename |-> x, dirty |-> Reference(l[x], r[x])]
  <2> SUFFICES ASSUME NEW x \in Name, l[x] # Absent \/ r[x] # Absent
               PROVE  \E i \in DOMAIN D : D[i] = [filename |-> x, dirty |-> Reference(l[x], r[x])]
    OBVIOUS
  <2>1. PICK i \in DOMAIN D : D[i].filename = x
    BY DEF IsDiff
  <2>2. PICK y \in Name : D[i] = [filename |-> y, dirty |-> Reference(l[y], r[y])]
    BY <1>2
  <2> QED
    BY <2>1, <2>2
<1>4. {<<e.filename, e.dirty>> : e \in ToSet(D)} =
          {<<n, Reference(l[n], r[n])>> : n \in {m \in Name : l[m] # Absent \/ r[m] # Absent}}
  <2> DEFINE L == {<<e.filename, e.dirty>> : e \in ToSet(D)}
  <2> DEFINE N == {m \in Name : l[m] # Absent \/ r[m] # Absent}
  <2> DEFINE R == {<<n, Reference(l[n], r[n])>> : n \in N}
  <2>1. ASSUME NEW z \in L PROVE z \in R
    <3>1. PICK i \in DOMAIN D : z = <<D[i].filename, D[i].dirty>>
      BY <1>1
    <3>2. PICK x \in Name : /\ D[i] = [filename |-> x, dirty |-> Reference(l[x], r[x])]
                            /\ l[x] # Absent \/ r[x] # Absent
      BY <1>2
    <3>3. z = <<x, Reference(l[x], r[x])>> /\ x \in N
      BY <3>1, <3>2
    <3> QED
      BY <3>3
  <2>2. ASSUME NEW z \in R PROVE z \in L
    <3>1. PICK x \in N : z = <<x, Reference(l[x], r[x])>>
      OBVIOUS
    <3>2. PICK i \in DOMAIN D : D[i] = [filename |-> x, dirty |-> Reference(l[x], r[x])]
      BY <1>3
    <3>3. D[i] \in ToSet(D) /\ z = <<D[i].filename, D[i].dirty>>
      BY <1>1, <3>1, <3>2
    <3> QED
      BY <3>3
  <2> QED
    BY <2>1, <2>2
<1>5. IsInjective([k \in DOMAIN D |-> D[k].filename])
  BY DEF IsDiff, IsInjective
<1> QED
  BY <1>4, <1>5

\* What FsStatus puts into diff.
LEMMA FsStatusDiff ==
    ASSUME AskedInv, NEW c \in Client, FsStatus(c)
    PROVE  IsDiff(diff'[c], Sums(local[c]), Sums(repo))
<1> DEFINE l == Sums(local[c])
<1> DEFINE r == Sums(repo)
<1>1. PICK cl \in Listings(l) : files[c] = ClientChecksums(l, cl)
  BY DEF AskedInv, FsStatus
<1>2. PICK fs \in Listings(r) :
         diff' = [diff EXCEPT ![c] =
            [k \in DOMAIN join_checksum_arrays(FsChecksums(r, fs), files[c]) |->
                [filename |-> join_checksum_arrays(FsChecksums(r, fs), files[c])[k].filename,
                 dirty |-> Compare(join_checksum_arrays(FsChecksums(r, fs), files[c])[k])]]]
  BY DEF FsStatus, Sums
<1> DEFINE J == join_checksum_arrays(FsChecksums(r, fs), ClientChecksums(l, cl))
<1> DEFINE D == [k \in DOMAIN J |-> [filename |-> J[k].filename, dirty |-> Compare(J[k])]]
<1> HIDE DEF l, r
<1>3. diff'[c] = D
  BY <1>1, <1>2 DEF AskedInv
<1>4. IsDiff(D, l, r)
  <2> HIDE DEF J
  <2>1. J = join_checksum_arrays(FsChecksums(r, fs), ClientChecksums(l, cl))
    BY DEF J
  <2>2. D = [k \in DOMAIN J |-> [filename |-> J[k].filename, dirty |-> Compare(J[k])]]
    OBVIOUS
  <2> HIDE DEF D
  <2> QED
    BY Zenon, <2>1, <2>2, DiffOfListings
<1> QED
  BY <1>3, <1>4 DEF l, r

DiffEntry == [filename : Name, dirty : Dirty]

LEMMA DiffTypes ==
    ASSUME NEW D, NEW l, NEW r, IsDiff(D, l, r)
    PROVE  D \in Seq(DiffEntry) /\ ToSet(D) \subseteq DiffEntry
<1>1. \A i \in DOMAIN D : D[i] \in DiffEntry
  <2> TAKE i \in DOMAIN D
  <2>1. PICK x \in Name : D[i] = [filename |-> x, dirty |-> Reference(l[x], r[x])]
    BY DEF IsDiff
  <2>2. Reference(l[x], r[x]) \in Dirty
    BY DEF Reference, Dirty
  <2> QED
    BY <2>1, <2>2 DEF DiffEntry
<1>2. PICK m \in Nat : D = [i \in 1 .. m |-> D[i]]
  BY DEF IsDiff
<1>3. DOMAIN D = 1 .. m
  BY <1>2
<1>4. D \in [1 .. m -> DiffEntry]
  BY <1>1, <1>2, <1>3
<1> QED
  BY <1>1, <1>4 DEF ToSet

(***************************************************************************)
(* The types of what moves, whatever overlaps: every file is a sequence.   *)
(***************************************************************************)
Character == Piece \cup {CutPiece}
Buffer == Name \cup Character \cup {Absent}
Contents == Seq(Buffer) \cup {Absent}
AnyPacket == [index : {"first"}, buf : Name] \cup [index : {"next", "last"}, buf : Buffer]
OpenFile == [name : Name, written : Seq(Buffer)]

FilesAreSequences ==
    /\ local \in [Client -> [Name -> Contents]] /\ repo \in [Name -> Contents]
    /\ diff \in [Client -> Seq(DiffEntry)] /\ todo \in [Client -> Seq(DiffEntry)]
    /\ channel \in [Client -> Seq(AnyPacket)]
    /\ pFILE \in [Client \cup {FileServer} -> {Closed} \cup OpenFile]

LEMMA CountedTypes ==
    ASSUME NEW X, NEW D \in Seq(X)
    PROVE  /\ Counted(D) \in Seq(X) /\ Len(Counted(D)) <= Len(D) /\ Len(Counted(D)) \in Nat
           /\ \A i \in 1 .. Len(Counted(D)) : Counted(D)[i] = D[i]
           /\ Len(D) < 256 => Counted(D) = D
<1> DEFINE m == Len(D) % 256
<1>1. Len(D) \in Nat /\ m \in Nat /\ m <= Len(D) /\ (Len(D) < 256 => m = Len(D))
  OBVIOUS
<1>2. Counted(D) = SubSeq(D, 1, m)
  BY DEF Counted
<1> HIDE DEF m
<1>3. /\ SubSeq(D, 1, m) \in Seq(X) /\ Len(SubSeq(D, 1, m)) = m
      /\ \A i \in 1 .. m : SubSeq(D, 1, m)[i] = D[i]
  BY <1>1
<1>4. m = Len(D) => SubSeq(D, 1, m) = D
  BY <1>1, <1>3
<1> QED
  BY <1>1, <1>2, <1>3, <1>4

LEMMA InitSequences == Init => FilesAreSequences
<1> SUFFICES ASSUME Init PROVE FilesAreSequences
  OBVIOUS
<1>1. InitialFile \cup {Absent} \subseteq Contents
  <2>1. ASSUME NEW f \in InitialFile PROVE f \in Seq(Buffer)
    <3>1. PICK n \in 0 .. MaxPieces : f \in [1 .. n -> Piece]
      BY DEF InitialFile
    <3>2. f \in [1 .. n -> Buffer] /\ n \in Nat
      BY <3>1, MaxPiecesIsNat DEF Buffer, Character
    <3> QED
      BY <3>2
  <2> QED
    BY <2>1 DEF Contents
<1>2. /\ local \in [Client -> [Name -> InitialFile \cup {Absent}]]
      /\ repo \in [Name -> InitialFile \cup {Absent}]
  BY DEF Init
<1>3. [Name -> InitialFile \cup {Absent}] \subseteq [Name -> Contents]
  BY <1>1
<1>4. local \in [Client -> [Name -> Contents]] /\ repo \in [Name -> Contents]
  BY <1>2, <1>3
<1> QED
  BY <1>4 DEF Init, FilesAreSequences

LEMMA PacketsTypes ==
    ASSUME NEW n \in Name, NEW f \in Seq(Buffer)
    PROVE  Packets(n, f) \in Seq(AnyPacket)
<1> DEFINE body == [k \in DOMAIN f |-> [index |-> "next", buf |-> Packed(f[k])]]
<1>1. \A k \in 1 .. Len(f) : Packed(f[k]) \in Buffer
  BY DEF Packed, Buffer, Character
<1>2. body \in Seq(AnyPacket)
  <2>1. DOMAIN f = 1 .. Len(f) /\ Len(f) \in Nat
    OBVIOUS
  <2>2. \A k \in 1 .. Len(f) : [index |-> "next", buf |-> Packed(f[k])] \in AnyPacket
    BY <1>1 DEF AnyPacket
  <2>3. body \in [1 .. Len(f) -> AnyPacket]
    BY <2>1, <2>2
  <2> HIDE DEF body
  <2> QED
    BY <2>1, <2>3
<1> HIDE DEF body
<1>3. <<[index |-> "first", buf |-> n]>> \in Seq(AnyPacket)
  BY DEF AnyPacket
<1>4. <<[index |-> "last", buf |-> Absent]>> \in Seq(AnyPacket)
  BY DEF AnyPacket, Buffer
<1> QED
  BY <1>2, <1>3, <1>4 DEF Packets, body

LEMMA OnMessageSequences ==
    ASSUME FilesAreSequences, NEW c \in Client, OnMessage(c)
    PROVE  FilesAreSequences'
<1> DEFINE p == Head(channel[c])
<1> DEFINE r == Receiver(c)
<1> DEFINE pf == pFILE[r]
<1>1. channel[c] \in Seq(AnyPacket) /\ channel[c] # <<>>
  BY DEF OnMessage, FilesAreSequences
<1>2. p \in AnyPacket /\ Tail(channel[c]) \in Seq(AnyPacket)
  BY <1>1
<1>3. channel' \in [Client -> Seq(AnyPacket)]
  BY <1>2 DEF OnMessage, FilesAreSequences
<1>4. UNCHANGED <<diff, todo>>
  BY DEF OnMessage, status
<1>5. r \in Client \cup {FileServer} /\ pf \in {Closed} \cup OpenFile
  BY DEF FilesAreSequences, Receiver
<1>6. ASSUME NEW n \in Name, NEW f \in Seq(Buffer), Write(c, n, f)
      PROVE  local' \in [Client -> [Name -> Contents]] /\ repo' \in [Name -> Contents]
  <2>1. f \in Contents
    BY DEF Contents
  <2>2. CASE kind[c] = "upload"
    BY <1>6, <2>1, <2>2 DEF Write, FilesAreSequences
  <2>3. CASE kind[c] # "upload"
    <3>1. local' = [local EXCEPT ![c] = [local[c] EXCEPT ![n] = f]] /\ repo' = repo
      BY <1>6, <2>3 DEF Write, FilesAreSequences
    <3>2. [local[c] EXCEPT ![n] = f] \in [Name -> Contents]
      BY <2>1 DEF FilesAreSequences
    <3> QED
      BY <3>1, <3>2 DEF FilesAreSequences
  <2> QED
    BY <2>2, <2>3
<1>7. \/ /\ p.index = "first"
         /\ Write(c, p.buf, <<>>)
         /\ pFILE' = [pFILE EXCEPT ![r] = [name |-> p.buf, written |-> <<>>]]
      \/ /\ p.index = "next" /\ pf # Closed
         /\ pFILE' = [pFILE EXCEPT ![r].written = Append(@, p.buf)]
         /\ UNCHANGED <<local, repo>>
      \/ /\ p.index = "last" /\ pf # Closed
         /\ Write(c, pf.name, pf.written)
         /\ pFILE' = [pFILE EXCEPT ![r] = Closed]
      \/ UNCHANGED <<local, repo, pFILE>>
  BY DEF OnMessage
<1> HIDE DEF p, r, pf
<1>8. CASE p.index = "first" /\ Write(c, p.buf, <<>>)
           /\ pFILE' = [pFILE EXCEPT ![r] = [name |-> p.buf, written |-> <<>>]]
  <2>1. p.buf \in Name /\ <<>> \in Seq(Buffer)
    BY <1>2, <1>8 DEF AnyPacket
  <2>2. [name |-> p.buf, written |-> <<>>] \in OpenFile
    BY <2>1 DEF OpenFile
  <2> QED
    BY <1>3, <1>4, <1>6, <1>8, <2>1, <2>2 DEF FilesAreSequences
<1>9. CASE p.index = "next" /\ pf # Closed /\ UNCHANGED <<local, repo>>
           /\ pFILE' = [pFILE EXCEPT ![r].written = Append(@, p.buf)]
  <2>1. p.buf \in Buffer
    BY <1>2, <1>9 DEF AnyPacket
  <2>2. pf \in OpenFile
    BY <1>5, <1>9
  <2>3. [pf EXCEPT !.written = Append(@, p.buf)] \in OpenFile
    BY <2>1, <2>2 DEF OpenFile
  <2>4. pFILE' = [pFILE EXCEPT ![r] = [pf EXCEPT !.written = Append(@, p.buf)]]
    BY <1>5, <1>9 DEF pf
  <2> QED
    BY <1>3, <1>4, <1>9, <2>3, <2>4 DEF FilesAreSequences
<1>10. CASE p.index = "last" /\ pf # Closed /\ Write(c, pf.name, pf.written)
            /\ pFILE' = [pFILE EXCEPT ![r] = Closed]
  <2>1. pf.name \in Name /\ pf.written \in Seq(Buffer)
    BY <1>5, <1>10 DEF OpenFile
  <2> QED
    BY <1>3, <1>4, <1>6, <1>10, <2>1 DEF FilesAreSequences
<1>11. CASE UNCHANGED <<local, repo, pFILE>>
  BY <1>3, <1>4, <1>11 DEF FilesAreSequences
<1> QED
  BY <1>7, <1>8, <1>9, <1>10, <1>11

LEMMA SequencesStep ==
    ASSUME AskedInv, FilesAreSequences, [Next]_vars
    PROVE  FilesAreSequences'
<1>1. CASE UNCHANGED vars
  BY <1>1 DEF FilesAreSequences, vars, status, transfer
<1>2. ASSUME NEW c \in Client, Status(c) PROVE FilesAreSequences'
  BY <1>2 DEF FilesAreSequences, Status, transfer
<1>3. ASSUME NEW c \in Client, FsStatus(c) PROVE FilesAreSequences'
  <2>1. diff'[c] \in Seq(DiffEntry)
    BY <1>3, FsStatusDiff, DiffTypes
  <2>2. UNCHANGED <<local, repo, todo, channel, pFILE>> /\ \E x : diff' = [diff EXCEPT ![c] = x]
    BY <1>3 DEF FsStatus, transfer
  <2>3. diff' = [diff EXCEPT ![c] = diff'[c]]
    BY <2>2 DEF FilesAreSequences
  <2>4. diff' \in [Client -> Seq(DiffEntry)]
    BY <2>1, <2>3 DEF FilesAreSequences
  <2> QED
    BY <2>2, <2>4 DEF FilesAreSequences
<1>4. ASSUME NEW c \in Client, NEW k \in {"upload", "download"}, Start(c, k)
      PROVE  FilesAreSequences'
  <2>1. Counted(diff[c]) \in Seq(DiffEntry)
    BY CountedTypes DEF FilesAreSequences
  <2> QED
    BY <1>4, <2>1 DEF FilesAreSequences, Start, status
<1>5. ASSUME NEW c \in Client, SendFile(c) PROVE FilesAreSequences'
  <2> DEFINE n == Head(todo[c]).filename
  <2> DEFINE f == Source(c)[n]
  <2>1. todo[c] \in Seq(DiffEntry) /\ todo[c] # <<>> /\ UNCHANGED <<local, repo, diff, pFILE>>
    BY <1>5 DEF SendFile, FilesAreSequences, status
  <2>2. n \in Name /\ Tail(todo[c]) \in Seq(DiffEntry)
    <3>1. Head(todo[c]) \in DiffEntry /\ Tail(todo[c]) \in Seq(DiffEntry)
      BY <2>1
    <3> QED
      BY <3>1 DEF DiffEntry
  <2>3. todo' \in [Client -> Seq(DiffEntry)]
    BY <1>5, <2>2 DEF SendFile, FilesAreSequences
  <2>4. f # Absent => f \in Seq(Buffer)
    BY <2>2 DEF Source, FilesAreSequences, Contents
  <2>5. channel' = channel \/ (f # Absent /\ channel' = [channel EXCEPT ![c] = @ \o Packets(n, f)])
    BY <1>5 DEF SendFile
  <2> HIDE DEF n, f
  <2>6. channel' \in [Client -> Seq(AnyPacket)]
    <3>1. CASE channel' = channel
      BY <3>1 DEF FilesAreSequences
    <3>2. CASE f # Absent /\ channel' = [channel EXCEPT ![c] = @ \o Packets(n, f)]
      <4>1. Packets(n, f) \in Seq(AnyPacket)
        BY <2>2, <2>4, <3>2, PacketsTypes
      <4>2. channel[c] \o Packets(n, f) \in Seq(AnyPacket)
        BY <4>1 DEF FilesAreSequences
      <4> QED
        BY <3>2, <4>2 DEF FilesAreSequences
    <3> QED
      BY <2>5, <3>1, <3>2
  <2> QED
    BY <2>1, <2>3, <2>6 DEF FilesAreSequences
<1>6. ASSUME NEW c \in Client, OnMessage(c) PROVE FilesAreSequences'
  BY <1>6, OnMessageSequences
<1>7. ASSUME NEW c \in Client, Quit(c) PROVE FilesAreSequences'
  BY <1>7 DEF FilesAreSequences, Quit
<1> QED
  BY <1>1, <1>2, <1>3, <1>4, <1>5, <1>6, <1>7 DEF Next

LEMMA SequencesHold == ASSUME SamePath PROVE Spec => [](AskedInv /\ FilesAreSequences)
<1>1. AskedInv /\ FilesAreSequences /\ [Next]_vars => FilesAreSequences'
  BY SequencesStep
<1> QED
  BY <1>1, InitSequences, AskedInvHolds, PTL DEF Spec

\* In whatever order readdir lists the two directories, the diff sy_status
\* returns is the outer join of them, each file with its class by what
\* sy_status sees of it, once; also when other clients transfer files
\* meanwhile.
THEOREM DiffIsRightHolds == ASSUME SamePath PROVE Spec => DiffIsRight
<1>1. AskedInv /\ FilesAreSequences /\ [Next]_vars =>
        [\A c \in Client : pc[c] = "asked" /\ pc'[c] = "known" =>
          /\ {<<e.filename, e.dirty>> : e \in ToSet(diff'[c])} =
                {<<n, Reference(SumOf(local[c][n]), SumOf(repo[n]))>> :
                     n \in Present(local[c]) \cup Present(repo)}
          /\ IsInjective([k \in DOMAIN diff'[c] |-> diff'[c][k].filename])]_vars
  <2> SUFFICES ASSUME AskedInv, FilesAreSequences, Next,
                      NEW c \in Client, pc[c] = "asked", pc'[c] = "known"
               PROVE  /\ {<<e.filename, e.dirty>> : e \in ToSet(diff'[c])} =
                            {<<n, Reference(SumOf(local[c][n]), SumOf(repo[n]))>> :
                               n \in Present(local[c]) \cup Present(repo)}
                      /\ IsInjective([k \in DOMAIN diff'[c] |-> diff'[c][k].filename])
    OBVIOUS
  <2>1. FsStatus(c)
    <3>1. PICK d \in Client : \/ Status(d) \/ FsStatus(d)
                               \/ Start(d, "upload") \/ Start(d, "download")
                               \/ SendFile(d) \/ OnMessage(d) \/ Quit(d)
      BY DEF Next
    <3>2. ~Status(d)
      BY DEF AskedInv, Status
    <3>3. ASSUME NEW k \in {"upload", "download"} PROVE ~Start(d, k)
      BY DEF AskedInv, Start
    <3>4. ~SendFile(d) /\ ~OnMessage(d) /\ ~Quit(d)
      BY DEF AskedInv, SendFile, OnMessage, Quit
    <3>5. FsStatus(d)
      BY <3>1, <3>2, <3>3, <3>4
    <3>6. pc = [e \in Client |-> pc[e]] /\ pc' = [pc EXCEPT ![d] = "known"]
      BY <3>5 DEF AskedInv, FsStatus
    <3>7. c = d
      BY <3>6
    <3> QED
      BY <3>5, <3>7
  <2> DEFINE l == Sums(local[c])
  <2> DEFINE r == Sums(repo)
  <2>2. IsDiff(diff'[c], l, r)
    BY <2>1, FsStatusDiff
  <2>3. /\ local[c] \in [Name -> Seq(Buffer) \cup {Absent}]
        /\ repo \in [Name -> Seq(Buffer) \cup {Absent}]
    BY DEF FilesAreSequences, Contents
  <2>4. \A x \in Name : /\ l[x] = SumOf(local[c][x]) /\ (l[x] # Absent <=> local[c][x] # Absent)
                        /\ r[x] = SumOf(repo[x]) /\ (r[x] # Absent <=> repo[x] # Absent)
    BY <2>3, SumsFacts
  <2> HIDE DEF l, r
  <2>5. /\ {<<e.filename, e.dirty>> : e \in ToSet(diff'[c])} =
               {<<n, Reference(l[n], r[n])>> : n \in {m \in Name : l[m] # Absent \/ r[m] # Absent}}
        /\ IsInjective([k \in DOMAIN diff'[c] |-> diff'[c][k].filename])
    BY <2>2, DiffSet
  <2>6. {m \in Name : l[m] # Absent \/ r[m] # Absent} = Present(local[c]) \cup Present(repo)
    BY <2>4 DEF Present
  <2>7. \A n \in Present(local[c]) \cup Present(repo) :
            Reference(l[n], r[n]) = Reference(SumOf(local[c][n]), SumOf(repo[n]))
    BY <2>4 DEF Present
  <2>8. {<<n, Reference(l[n], r[n])>> : n \in Present(local[c]) \cup Present(repo)} =
            {<<n, Reference(SumOf(local[c][n]), SumOf(repo[n]))>> :
                n \in Present(local[c]) \cup Present(repo)}
    BY <2>7
  <2> QED
    BY <2>5, <2>6, <2>8
<1> QED
  BY <1>1, SequencesHold, PTL DEF Spec, DiffIsRight

-----------------------------------------------------------------------------
(***************************************************************************)
(* A transfer under way, seen from its two ends: S is the sender's         *)
(* directory, T the receiver's, K the classes that are sent, td the        *)
(* entries the sending loop has not come to, ch the channel and pf the     *)
(* receiver's pFILE.                                                       *)
(***************************************************************************)
Packet == [index : {"first", "next", "last"}, buf : Name \cup Character \cup {Absent}]

InTodo(td, n) == \E i \in DOMAIN td : td[i].filename = n
OnItsWay(ch, n) == \E i \in DOMAIN ch : ch[i].index = "first" /\ ch[i].buf = n
InFile(ch) == ch # <<>> /\ ch[1].index # "first"

\* From i on, ch has the packets of file n that follow its first w pieces.
RestAt(S, ch, i, w, n) ==
    /\ n \in Name /\ S[n] # Absent /\ w <= Len(S[n])
    /\ i + (Len(S[n]) - w) <= Len(ch)
    /\ \A j \in w + 1 .. Len(S[n]) : ch[(i + j) - (w + 1)] = [index |-> "next", buf |-> S[n][j]]
    /\ ch[i + (Len(S[n]) - w)] = [index |-> "last", buf |-> Absent]
    /\ i + (Len(S[n]) - w) < Len(ch) => ch[i + (Len(S[n]) - w) + 1].index = "first"

\* Nothing has to be sent of file n.
Settled(S, T, D, n) == \/ T[n] = S[n]
                       \/ Spared(D, n) /\ SumOf(T[n]) = SumOf(S[n])

TodoOK(S, T, D, K, td) ==
    /\ td \in Seq(DiffEntry)
    /\ \A i, j \in DOMAIN td : td[i].filename = td[j].filename => i = j
    /\ \A i \in DOMAIN td : td[i].dirty \in K \/ S[td[i].filename] = Absent
                                              \/ Settled(S, T, D, td[i].filename)
ChannelOK(S, td, ch) ==
    /\ ch \in Seq(Packet)
    /\ \A i \in DOMAIN ch : ch[i].index = "first" =>
           RestAt(S, ch, i + 1, 0, ch[i].buf) /\ ~InTodo(td, ch[i].buf)
    /\ \A i, j \in DOMAIN ch : ch[i].index = "first" /\ ch[j] = ch[i] => i = j
FileOK(S, td, ch, pf) == InFile(ch) =>
    /\ RestAt(S, ch, 1, Len(pf.written), pf.name)
    /\ \A j \in 1 .. Len(pf.written) : pf.written[j] = S[pf.name][j]
    /\ ~InTodo(td, pf.name) /\ ~OnItsWay(ch, pf.name)
NothingForgotten(S, T, D, td, ch, pf) ==
    Len(D) < 256 => \A n \in Name : S[n] # Absent =>
        Settled(S, T, D, n) \/ InTodo(td, n) \/ OnItsWay(ch, n) \/ (InFile(ch) /\ pf.name = n)

Moving(S, T, D, K, td, ch, pf) ==
    /\ TodoOK(S, T, D, K, td) /\ ChannelOK(S, td, ch)
    /\ FileOK(S, td, ch, pf) /\ NothingForgotten(S, T, D, td, ch, pf)

PFile == [name : Name \cup {Absent}, written : File]

LEMMA FileFacts ==
    ASSUME NEW f \in File
    PROVE  /\ f \in Seq(Character) /\ Len(f) \in 0 .. MaxPieces
           /\ \A m \in 0 .. MaxPieces : \A g \in [1 .. m -> Character] : g \in File
<1>1. PICK n \in 0 .. MaxPieces : f \in [1 .. n -> Character]
  BY DEF File, Character
<1>2. f \in Seq(Character) /\ Len(f) = n
  BY <1>1, MaxPiecesIsNat
<1>3. \A m \in 0 .. MaxPieces : \A g \in [1 .. m -> Character] : g \in File
  BY DEF File, Character
<1> QED
  BY <1>1, <1>2, <1>3

LEMMA TailFacts ==
    ASSUME NEW P, NEW s \in Seq(P), s # <<>>
    PROVE  /\ Tail(s) \in Seq(P) /\ Len(s) >= 1 /\ Len(Tail(s)) = Len(s) - 1 /\ Len(s) \in Nat
           /\ \A i \in 1 .. Len(s) - 1 : Tail(s)[i] = s[i + 1]
           /\ DOMAIN s = 1 .. Len(s) /\ DOMAIN Tail(s) = 1 .. Len(s) - 1
           /\ Head(s) = s[1] /\ \A i \in 1 .. Len(s) : s[i] \in P
OBVIOUS

LEMMA DirectorySums ==
    ASSUME NEW d \in Directory, NEW x \in Name
    PROVE  /\ Sums(d)[x] = SumOf(d[x])
           /\ Sums(d)[x] # Absent <=> d[x] # Absent
           /\ Sums(d)[x] \in Nat \cup {Absent}
<1>1. d \in [Name -> Seq(Character) \cup {Absent}]
  BY FileFacts DEF Directory
<1> QED
  BY <1>1, SumsFacts

\* A packet less in front.
LEMMA RestShifts ==
    ASSUME NEW S \in Directory, NEW ch \in Seq(Packet), ch # <<>>,
           NEW i \in Nat, i >= 1, NEW w \in Nat, NEW n, RestAt(S, ch, i + 1, w, n)
    PROVE  RestAt(S, Tail(ch), i, w, n)
<1>1. /\ Len(ch) >= 1 /\ Len(Tail(ch)) = Len(ch) - 1 /\ Len(ch) \in Nat
      /\ \A k \in 1 .. Len(ch) - 1 : Tail(ch)[k] = ch[k + 1]
  BY TailFacts
<1>2. n \in Name /\ S[n] # Absent /\ w <= Len(S[n]) /\ Len(S[n]) \in Nat
  <2>1. n \in Name /\ S[n] # Absent /\ w <= Len(S[n])
    BY DEF RestAt
  <2>2. S[n] \in File
    BY <2>1 DEF Directory
  <2> QED
    BY <2>1, <2>2, FileFacts
<1> DEFINE L == Len(S[n])
<1> DEFINE N == Len(ch)
<1>3. /\ i + 1 + (L - w) <= N
      /\ \A j \in w + 1 .. L : ch[(i + 1 + j) - (w + 1)] = [index |-> "next", buf |-> S[n][j]]
      /\ ch[i + 1 + (L - w)] = [index |-> "last", buf |-> Absent]
      /\ i + 1 + (L - w) < N => ch[i + 1 + (L - w) + 1].index = "first"
  BY DEF RestAt
<1>4. L \in Nat /\ N \in Nat /\ w <= L /\ Len(Tail(ch)) = N - 1
      /\ \A k \in 1 .. N - 1 : Tail(ch)[k] = ch[k + 1]
  BY <1>1, <1>2
<1> HIDE DEF L, N
<1>5. \A j \in w + 1 .. L : Tail(ch)[(i + j) - (w + 1)] = [index |-> "next", buf |-> S[n][j]]
  <2> TAKE j \in w + 1 .. L
  <2>1. ch[(i + 1 + j) - (w + 1)] = [index |-> "next", buf |-> S[n][j]]
    BY <1>3
  <2>2. (i + j) - (w + 1) \in 1 .. N - 1
    BY <1>3, <1>4
  <2>3. ((i + j) - (w + 1)) + 1 = (i + 1 + j) - (w + 1)
    BY <1>4
  <2> QED
    BY <1>4, <2>1, <2>2, <2>3
<1>6. Tail(ch)[i + (L - w)] = [index |-> "last", buf |-> Absent]
  <2>1. i + (L - w) \in 1 .. N - 1
    BY <1>3, <1>4
  <2>2. (i + (L - w)) + 1 = i + 1 + (L - w)
    BY <1>4
  <2> QED
    BY <1>3, <1>4, <2>1, <2>2
<1>7. i + (L - w) < Len(Tail(ch)) => Tail(ch)[i + (L - w) + 1].index = "first"
  <2> SUFFICES ASSUME i + (L - w) < N - 1
               PROVE  Tail(ch)[i + (L - w) + 1].index = "first"
    BY <1>4
  <2>1. i + 1 + (L - w) < N
    BY <1>4
  <2>2. i + (L - w) + 1 \in 1 .. N - 1
    BY <1>4
  <2>3. (i + (L - w) + 1) + 1 = i + 1 + (L - w) + 1
    BY <1>4
  <2> QED
    BY <1>3, <1>4, <2>1, <2>2, <2>3
<1>8. i + (L - w) <= Len(Tail(ch))
  BY <1>3, <1>4
<1> QED
  BY <1>2, <1>5, <1>6, <1>7, <1>8 DEF RestAt, L

\* What is left of a channel when its first packet is taken.
LEMMA ChannelShifts ==
    ASSUME NEW S \in Directory, NEW td, NEW ch, ChannelOK(S, td, ch), ch # <<>>
    PROVE  /\ ChannelOK(S, td, Tail(ch))
           /\ \A n : OnItsWay(ch, n) <=> \/ OnItsWay(Tail(ch), n)
                                         \/ ch[1].index = "first" /\ ch[1].buf = n
           /\ ch[1].index = "first" => ~OnItsWay(Tail(ch), ch[1].buf)
<1> DEFINE t == Tail(ch)
<1>1. ch \in Seq(Packet)
  BY DEF ChannelOK
<1>2. /\ t \in Seq(Packet) /\ Len(ch) >= 1 /\ Len(ch) \in Nat
      /\ \A k \in 1 .. Len(ch) - 1 : t[k] = ch[k + 1]
      /\ DOMAIN ch = 1 .. Len(ch) /\ DOMAIN t = 1 .. Len(ch) - 1
      /\ \A k \in 1 .. Len(ch) : ch[k] \in Packet
  BY <1>1, TailFacts
<1>3. \A k \in DOMAIN t : k \in Nat /\ k >= 1 /\ k + 1 \in DOMAIN ch /\ k + 1 # 1 /\ t[k] = ch[k + 1]
  BY <1>2
<1>4. \A k \in DOMAIN ch : k = 1 \/ (k - 1 \in DOMAIN t /\ t[k - 1] = ch[k])
  BY <1>2
<1>5. 1 \in DOMAIN ch
  BY <1>2
<1> HIDE DEF t
<1>6. ASSUME NEW i \in DOMAIN t, t[i].index = "first"
      PROVE  RestAt(S, t, i + 1, 0, t[i].buf) /\ ~InTodo(td, t[i].buf)
  <2>1. RestAt(S, ch, (i + 1) + 1, 0, t[i].buf) /\ ~InTodo(td, t[i].buf)
    BY <1>3, <1>6 DEF ChannelOK
  <2>2. i + 1 \in Nat /\ i + 1 >= 1 /\ 0 \in Nat
    BY <1>3
  <2> QED
    BY <1>1, <2>1, <2>2, RestShifts DEF t
<1>7. ASSUME NEW i \in DOMAIN t, NEW j \in DOMAIN t, t[i].index = "first", t[j] = t[i]
      PROVE  i = j
  BY <1>3, <1>7 DEF ChannelOK
<1>8. ASSUME ch[1].index = "first" PROVE ~OnItsWay(t, ch[1].buf)
  <2> SUFFICES ASSUME NEW i \in DOMAIN t, t[i].index = "first", t[i].buf = ch[1].buf
               PROVE  FALSE
    BY DEF OnItsWay
  <2>1. ch[1] \in Packet /\ ch[i + 1] \in Packet /\ ch[i + 1] = t[i]
    BY <1>2, <1>3, <1>5
  <2>2. ch[i + 1] = ch[1]
    BY <1>8, <2>1 DEF Packet
  <2> QED
    BY <1>3, <1>5, <1>8, <2>2 DEF ChannelOK
<1>9. \A n : OnItsWay(ch, n) <=> OnItsWay(t, n) \/ (ch[1].index = "first" /\ ch[1].buf = n)
  BY <1>3, <1>4, <1>5 DEF OnItsWay
<1>10. ChannelOK(S, td, t)
  BY <1>2, <1>6, <1>7 DEF ChannelOK
<1> QED
  BY <1>8, <1>9, <1>10 DEF t

\* The first of the packets that are left of a file.
Starts(S, ch, w, n) ==
    /\ InFile(ch) /\ n \in Name /\ S[n] \in File /\ S[n] # Absent /\ w <= Len(S[n])
    /\ w < Len(S[n]) => /\ ch[1] = [index |-> "next", buf |-> S[n][w + 1]]
                        /\ RestAt(S, Tail(ch), 1, w + 1, n)
    /\ w = Len(S[n]) => /\ ch[1] = [index |-> "last", buf |-> Absent]
                        /\ ~InFile(Tail(ch))

LEMMA RestStarts ==
    ASSUME NEW S \in Directory, NEW ch \in Seq(Packet), NEW w \in Nat, NEW n,
           RestAt(S, ch, 1, w, n)
    PROVE  Starts(S, ch, w, n)
<1>1. n \in Name /\ S[n] \in File /\ S[n] # Absent /\ w <= Len(S[n]) /\ Len(S[n]) \in Nat
  <2>1. n \in Name /\ S[n] # Absent /\ w <= Len(S[n])
    BY DEF RestAt
  <2>2. S[n] \in File
    BY <2>1 DEF Directory
  <2> QED
    BY <2>1, <2>2, FileFacts
<1> DEFINE L == Len(S[n])
<1> DEFINE N == Len(ch)
<1>2. /\ 1 + (L - w) <= N
      /\ \A j \in w + 1 .. L : ch[(1 + j) - (w + 1)] = [index |-> "next", buf |-> S[n][j]]
      /\ ch[1 + (L - w)] = [index |-> "last", buf |-> Absent]
      /\ 1 + (L - w) < N => ch[1 + (L - w) + 1].index = "first"
  BY DEF RestAt
<1>3. L \in Nat /\ N \in Nat /\ w <= L
  BY <1>1
<1> HIDE DEF L, N
<1>4. N >= 1 /\ ch # <<>>
  <2>1. N >= 1
    BY <1>2, <1>3
  <2> QED
    BY <2>1 DEF N
<1>5. /\ N - 1 \in Nat /\ Len(Tail(ch)) = N - 1 /\ Tail(ch) \in Seq(Packet)
      /\ \A k \in 1 .. N - 1 : Tail(ch)[k] = ch[k + 1]
  BY <1>4, TailFacts DEF N
<1>6. ASSUME w < L
      PROVE  /\ ch[1] = [index |-> "next", buf |-> S[n][w + 1]]
             /\ RestAt(S, Tail(ch), 1, w + 1, n)
  <2>1. w + 1 \in w + 1 .. L /\ (1 + (w + 1)) - (w + 1) = 1
    BY <1>3, <1>6
  <2>2. ch[1] = [index |-> "next", buf |-> S[n][w + 1]]
    BY <1>2, <2>1
  <2>3. 1 + (L - (w + 1)) <= N - 1 /\ w + 1 <= L
    BY <1>2, <1>3, <1>6
  <2>4. \A j \in (w + 1) + 1 .. L :
           Tail(ch)[(1 + j) - ((w + 1) + 1)] = [index |-> "next", buf |-> S[n][j]]
    <3> TAKE j \in (w + 1) + 1 .. L
    <3>1. /\ (1 + j) - ((w + 1) + 1) \in 1 .. N - 1 /\ j \in w + 1 .. L
          /\ ((1 + j) - ((w + 1) + 1)) + 1 = (1 + j) - (w + 1)
      BY <1>2, <1>3, <1>6
    <3> QED
      BY <1>2, <1>5, <3>1
  <2>5. Tail(ch)[1 + (L - (w + 1))] = [index |-> "last", buf |-> Absent]
    <3>1. /\ 1 + (L - (w + 1)) \in 1 .. N - 1
          /\ (1 + (L - (w + 1))) + 1 = 1 + (L - w)
      BY <1>2, <1>3, <1>6
    <3> QED
      BY <1>2, <1>5, <3>1
  <2>6. 1 + (L - (w + 1)) < N - 1 => Tail(ch)[1 + (L - (w + 1)) + 1].index = "first"
    <3> SUFFICES ASSUME 1 + (L - (w + 1)) < N - 1
                 PROVE  Tail(ch)[1 + (L - (w + 1)) + 1].index = "first"
      OBVIOUS
    <3>1. /\ 1 + (L - (w + 1)) + 1 \in 1 .. N - 1 /\ 1 + (L - w) < N
          /\ (1 + (L - (w + 1)) + 1) + 1 = 1 + (L - w) + 1
      BY <1>2, <1>3, <1>6
    <3> QED
      BY <1>2, <1>5, <3>1
  <2> QED
    BY <1>1, <1>5, <2>2, <2>3, <2>4, <2>5, <2>6 DEF RestAt, L
<1>7. ASSUME w = L
      PROVE  ch[1] = [index |-> "last", buf |-> Absent] /\ ~InFile(Tail(ch))
  <2>1. 1 + (L - w) = 1
    BY <1>3, <1>7
  <2>2. ch[1] = [index |-> "last", buf |-> Absent] /\ (1 < N => ch[2].index = "first")
    BY <1>2, <2>1
  <2>3. ASSUME Tail(ch) # <<>> PROVE Tail(ch)[1].index = "first"
    <3>1. N - 1 # 0
      BY <1>5, <2>3
    <3>2. 1 < N /\ 1 \in 1 .. N - 1 /\ 1 + 1 = 2
      BY <1>3, <1>4, <3>1
    <3> QED
      BY <1>5, <2>2, <3>2
  <2> QED
    BY <2>2, <2>3 DEF InFile
<1>8. InFile(ch)
  <2>1. w < L \/ w = L
    BY <1>3
  <2>2. ch[1].index # "first"
    BY <1>6, <1>7, <2>1
  <2> QED
    BY <1>4, <2>2 DEF InFile
<1> QED
  BY <1>1, <1>6, <1>7, <1>8 DEF L, Starts

LEMMA FirstPacket ==
    ASSUME NEW S \in Directory, NEW T \in Directory, NEW D, NEW K, NEW td, NEW ch, NEW pf,
           Moving(S, T, D, K, td, ch, pf), ch # <<>>, NEW n, n = ch[1].buf,
           ch[1].index = "first"
    PROVE  /\ n \in Name
           /\ Moving(S, [T EXCEPT ![n] = <<>>], D, K, td, Tail(ch), [name |-> n, written |-> <<>>])
<1> DEFINE T2 == [T EXCEPT ![n] = <<>>]
<1> DEFINE pf2 == [name |-> n, written |-> <<>>]
<1>1. ch \in Seq(Packet) /\ ChannelOK(S, td, ch) /\ 1 \in DOMAIN ch
  <2>1. ChannelOK(S, td, ch) /\ ch \in Seq(Packet)
    BY DEF Moving, ChannelOK
  <2> QED
    BY <2>1
<1>2. RestAt(S, ch, 1 + 1, 0, n) /\ ~InTodo(td, n)
  BY <1>1 DEF ChannelOK
<1>3. RestAt(S, Tail(ch), 1, 0, n)
  BY <1>1, <1>2, RestShifts
<1>4. /\ ChannelOK(S, td, Tail(ch)) /\ Tail(ch) \in Seq(Packet) /\ ~OnItsWay(Tail(ch), n)
      /\ \A x : OnItsWay(ch, x) => OnItsWay(Tail(ch), x) \/ x = n
  BY <1>1, ChannelShifts, TailFacts
<1>5. n \in Name /\ InFile(Tail(ch))
  <2> DEFINE t == Tail(ch)
  <2>1. t \in Seq(Packet) /\ 0 \in Nat /\ RestAt(S, t, 1, 0, n)
    BY <1>3, <1>4
  <2> HIDE DEF t
  <2>2. InFile(t) /\ n \in Name
    <3>1. Starts(S, t, 0, n)
      BY <2>1, RestStarts
    <3> QED
      BY <3>1 DEF Starts
  <2> QED
    BY <2>2 DEF t
<1>6. T2[n] = <<>> /\ \A x \in Name : x # n => T2[x] = T[x]
  BY <1>5 DEF Directory
<1>7. pf2.name = n /\ pf2.written = <<>> /\ Len(pf2.written) = 0
  OBVIOUS
<1> HIDE DEF T2, pf2
<1>8. TodoOK(S, T2, D, K, td)
  <2>1. TodoOK(S, T, D, K, td)
    BY DEF Moving
  <2>2. \A i \in DOMAIN td : td[i].filename \in Name /\ td[i].filename # n
    <3> TAKE i \in DOMAIN td
    <3>1. td[i] \in DiffEntry
      BY <2>1 DEF TodoOK
    <3> QED
      BY <1>2, <3>1 DEF InTodo, DiffEntry
  <2> QED
    BY <1>6, <2>1, <2>2 DEF TodoOK, Settled
<1>9. FileOK(S, td, Tail(ch), pf2)
  BY <1>2, <1>3, <1>4, <1>7 DEF FileOK
<1>10. NothingForgotten(S, T2, D, td, Tail(ch), pf2)
  <2> SUFFICES ASSUME NEW x \in Name, S[x] # Absent, x # n, Len(D) < 256
               PROVE  Settled(S, T2, D, x) \/ InTodo(td, x) \/ OnItsWay(Tail(ch), x)
    BY <1>5, <1>7 DEF NothingForgotten
  <2>1. ~InFile(ch)
    BY DEF InFile
  <2>2. Settled(S, T, D, x) \/ InTodo(td, x) \/ OnItsWay(ch, x)
    BY <2>1 DEF Moving, NothingForgotten
  <2> QED
    BY <1>4, <1>6, <2>2 DEF Settled
<1> QED
  BY <1>4, <1>5, <1>8, <1>9, <1>10 DEF Moving, T2, pf2

LEMMA NextPacket ==
    ASSUME NEW S \in Directory, NEW T, NEW D, NEW K, NEW td, NEW ch, NEW pf \in PFile,
           Moving(S, T, D, K, td, ch, pf), ch # <<>>, ch[1].index = "next", Absent \notin Name
    PROVE  /\ pf # Closed /\ [pf EXCEPT !.written = Append(@, ch[1].buf)] \in PFile
           /\ Moving(S, T, D, K, td, Tail(ch), [pf EXCEPT !.written = Append(@, ch[1].buf)])
<1> DEFINE pf2 == [pf EXCEPT !.written = Append(@, ch[1].buf)]
<1> DEFINE n == pf.name
<1> DEFINE f == pf.written
<1>1. ch \in Seq(Packet) /\ ChannelOK(S, td, ch) /\ InFile(ch)
  BY DEF Moving, ChannelOK, InFile
<1>2. f \in Seq(Character) /\ Len(f) \in Nat
  <2>1. f \in File
    BY DEF PFile
  <2> QED
    BY <2>1, FileFacts
<1>3. /\ RestAt(S, ch, 1, Len(f), n) /\ ~InTodo(td, n) /\ ~OnItsWay(ch, n)
      /\ \A j \in 1 .. Len(f) : f[j] = S[n][j]
  BY <1>1 DEF Moving, FileOK
<1>4. /\ n \in Name /\ S[n] \in File /\ Len(f) < Len(S[n])
      /\ ch[1] = [index |-> "next", buf |-> S[n][Len(f) + 1]]
      /\ RestAt(S, Tail(ch), 1, Len(f) + 1, n)
  <2>1. /\ n \in Name /\ S[n] \in File /\ Len(f) <= Len(S[n]) /\ Len(S[n]) \in Nat
        /\ Len(f) < Len(S[n]) => /\ ch[1] = [index |-> "next", buf |-> S[n][Len(f) + 1]]
                                 /\ RestAt(S, Tail(ch), 1, Len(f) + 1, n)
        /\ Len(f) = Len(S[n]) => ch[1] = [index |-> "last", buf |-> Absent]
    <3> DEFINE w == Len(f)
    <3>1. S[n] \in File => Len(S[n]) \in Nat
      BY FileFacts
    <3>2. w \in Nat /\ RestAt(S, ch, 1, w, n)
      BY <1>2, <1>3
    <3> HIDE DEF n, f, w
    <3>3. /\ n \in Name /\ S[n] \in File /\ w <= Len(S[n])
          /\ w < Len(S[n]) => /\ ch[1] = [index |-> "next", buf |-> S[n][w + 1]]
                              /\ RestAt(S, Tail(ch), 1, w + 1, n)
          /\ w = Len(S[n]) => ch[1] = [index |-> "last", buf |-> Absent]
      <4>1. Starts(S, ch, w, n)
        BY <1>1, <3>2, RestStarts
      <4> QED
        BY <4>1 DEF Starts
    <3> QED
      BY <3>1, <3>3 DEF w
  <2>2. Len(f) # Len(S[n])
    BY <2>1
  <2> HIDE DEF n, f
  <2> QED
    BY <1>2, <2>1, <2>2
<1>5. /\ pf2 \in [name : Name, written : Seq(Character)] /\ pf2.name = n
      /\ pf2.written = Append(f, S[n][Len(f) + 1])
  <2>1. ch[1].buf = S[n][Len(f) + 1]
    BY <1>4
  <2>2. S[n][Len(f) + 1] \in Character
    <3>1. S[n] \in Seq(Character)
      BY <1>4, FileFacts
    <3>2. Len(f) + 1 \in 1 .. Len(S[n])
      BY <1>2, <1>4, <3>1
    <3> QED
      BY <3>1, <3>2
  <2> QED
    BY <1>2, <1>4, <2>1, <2>2 DEF PFile
<1>6. /\ Len(pf2.written) = Len(f) + 1
      /\ \A j \in 1 .. Len(f) + 1 : pf2.written[j] = S[n][j]
  <2> HIDE DEF n, f, pf2
  <2>1. \A j \in 1 .. Len(f) + 1 : j \in 1 .. Len(f) \/ j = Len(f) + 1
    BY <1>2
  <2>2. /\ Len(Append(f, S[n][Len(f) + 1])) = Len(f) + 1
        /\ \A j \in 1 .. Len(f) : Append(f, S[n][Len(f) + 1])[j] = f[j]
        /\ Append(f, S[n][Len(f) + 1])[Len(f) + 1] = S[n][Len(f) + 1]
    BY <1>2
  <2> QED
    BY <1>3, <1>5, <2>1, <2>2
<1>7. pf2 \in PFile
  <2>1. Len(S[n]) \in 0 .. MaxPieces /\ S[n] \in Seq(Character)
    BY <1>4, FileFacts
  <2> HIDE DEF n, f, pf2
  <2>2. Len(f) + 1 \in 0 .. MaxPieces
    BY <1>2, <1>4, <2>1, MaxPiecesIsNat
  <2>3. pf2.written \in [1 .. Len(f) + 1 -> Character]
    <3>1. pf2.written \in Seq(Character)
      BY <1>5
    <3>2. pf2.written \in [1 .. Len(pf2.written) -> Character]
      BY <3>1
    <3> QED
      BY <1>6, <3>2
  <2>4. pf2.written \in File
    BY <1>4, <2>2, <2>3, FileFacts
  <2> QED
    BY <1>4, <1>5, <2>4 DEF PFile
<1>8. pf # Closed
  <2>1. pf.name # Absent
    BY <1>4
  <2> QED
    BY <2>1 DEF Closed
<1> HIDE DEF n, f, pf2
<1>9. /\ ChannelOK(S, td, Tail(ch)) /\ Tail(ch) \in Seq(Packet)
      /\ \A x : OnItsWay(ch, x) <=> OnItsWay(Tail(ch), x)
  BY <1>1, ChannelShifts, TailFacts
<1>10. InFile(Tail(ch))
  <2>1. Len(f) + 1 \in Nat
    BY <1>2
  <2> QED
    <3>1. Starts(S, Tail(ch), Len(f) + 1, n)
      BY <1>4, <1>9, <2>1, RestStarts
    <3> QED
      BY <3>1 DEF Starts
<1>11. FileOK(S, td, Tail(ch), pf2)
  BY <1>3, <1>4, <1>5, <1>6, <1>9 DEF FileOK
<1>12. NothingForgotten(S, T, D, td, Tail(ch), pf2)
  BY <1>1, <1>5, <1>9, <1>10 DEF Moving, NothingForgotten, n
<1>13. TodoOK(S, T, D, K, td)
  BY DEF Moving
<1> QED
  BY <1>7, <1>8, <1>9, <1>11, <1>12, <1>13 DEF Moving, pf2

LEMMA LastPacket ==
    ASSUME NEW S \in Directory, NEW T \in Directory, NEW D, NEW K, NEW td, NEW ch, NEW pf \in PFile,
           Moving(S, T, D, K, td, ch, pf), ch # <<>>, ch[1].index = "last", Absent \notin Name
    PROVE  /\ pf # Closed /\ pf.name \in Name
           /\ Moving(S, [T EXCEPT ![pf.name] = pf.written], D, K, td, Tail(ch), Closed)
<1> DEFINE n == pf.name
<1> DEFINE f == pf.written
<1> DEFINE T2 == [T EXCEPT ![n] = f]
<1>1. ch \in Seq(Packet) /\ ChannelOK(S, td, ch) /\ InFile(ch)
  BY DEF Moving, ChannelOK, InFile
<1>2. f \in Seq(Character) /\ Len(f) \in Nat
  <2>1. f \in File
    BY DEF PFile
  <2> QED
    BY <2>1, FileFacts
<1>3. /\ RestAt(S, ch, 1, Len(f), n) /\ ~InTodo(td, n) /\ ~OnItsWay(ch, n)
      /\ \A j \in 1 .. Len(f) : f[j] = S[n][j]
  BY <1>1 DEF Moving, FileOK
<1>4. n \in Name /\ S[n] \in File /\ Len(f) = Len(S[n]) /\ ~InFile(Tail(ch))
  <2> DEFINE w == Len(f)
  <2>1. w \in Nat /\ RestAt(S, ch, 1, w, n)
    BY <1>2, <1>3
  <2> HIDE DEF n, f, w
  <2>2. /\ n \in Name /\ S[n] \in File /\ w <= Len(S[n])
        /\ w < Len(S[n]) => ch[1] = [index |-> "next", buf |-> S[n][w + 1]]
        /\ w = Len(S[n]) => ~InFile(Tail(ch))
    <3>1. Starts(S, ch, w, n)
      BY <1>1, <2>1, RestStarts
    <3> QED
      BY <3>1 DEF Starts
  <2>3. Len(S[n]) \in Nat
    BY <2>2, FileFacts
  <2>4. ~(w < Len(S[n]))
    BY <2>2
  <2>5. w = Len(S[n])
    BY <2>1, <2>2, <2>3, <2>4
  <2> QED
    BY <2>2, <2>5 DEF w
<1>5. f = S[n]
  <2>1. S[n] \in Seq(Character)
    BY <1>4, FileFacts
  <2> HIDE DEF n, f
  <2> QED
    BY <1>2, <1>3, <1>4, <2>1
<1>6. T2[n] = S[n] /\ \A x \in Name : x # n => T2[x] = T[x]
  BY <1>4, <1>5 DEF Directory
<1>7. pf # Closed
  <2>1. pf.name # Absent
    BY <1>4
  <2> QED
    BY <2>1 DEF Closed
<1>8. /\ ChannelOK(S, td, Tail(ch))
      /\ \A x : OnItsWay(ch, x) <=> OnItsWay(Tail(ch), x)
  BY <1>1, ChannelShifts
<1> HIDE DEF f, T2
<1>9. TodoOK(S, T2, D, K, td)
  <2>1. TodoOK(S, T, D, K, td)
    BY DEF Moving
  <2>2. \A i \in DOMAIN td : td[i].filename \in Name /\ td[i].filename # n
    <3> TAKE i \in DOMAIN td
    <3>1. td[i] \in DiffEntry
      BY <2>1 DEF TodoOK
    <3> QED
      BY <1>3, <3>1 DEF InTodo, DiffEntry
  <2> HIDE DEF n
  <2> QED
    BY <1>6, <2>1, <2>2 DEF TodoOK, Settled
<1>10. FileOK(S, td, Tail(ch), Closed)
  BY <1>4 DEF FileOK
<1>11. NothingForgotten(S, T2, D, td, Tail(ch), Closed)
  <2> SUFFICES ASSUME NEW x \in Name, S[x] # Absent, x # n, Len(D) < 256
               PROVE  Settled(S, T2, D, x) \/ InTodo(td, x) \/ OnItsWay(Tail(ch), x)
    BY <1>6 DEF NothingForgotten, Settled
  <2>1. Settled(S, T, D, x) \/ InTodo(td, x) \/ OnItsWay(ch, x)
    BY DEF Moving, NothingForgotten
  <2> QED
    BY <1>6, <1>8, <2>1 DEF Settled
<1> QED
  BY <1>4, <1>7, <1>8, <1>9, <1>10, <1>11 DEF Moving, T2, f

Shifted(S, T, D, K, td, n) ==
    /\ TodoOK(S, T, D, K, Tail(td)) /\ n \in Name /\ InTodo(td, n) /\ ~InTodo(Tail(td), n)
    /\ \A x : InTodo(td, x) <=> InTodo(Tail(td), x) \/ x = n

LEMMA TodoShifts ==
    ASSUME NEW S, NEW T, NEW D, NEW K, NEW td, TodoOK(S, T, D, K, td), td # <<>>,
           NEW n, n = Head(td).filename
    PROVE  Shifted(S, T, D, K, td, n)
<1> DEFINE t == Tail(td)
<1>1. td \in Seq(DiffEntry)
  BY DEF TodoOK
<1>2. /\ t \in Seq(DiffEntry) /\ Len(td) >= 1 /\ Len(td) \in Nat
      /\ \A k \in 1 .. Len(td) - 1 : t[k] = td[k + 1]
      /\ DOMAIN td = 1 .. Len(td) /\ DOMAIN t = 1 .. Len(td) - 1
      /\ Head(td) = td[1] /\ td[1] \in DiffEntry
  BY <1>1, TailFacts
<1>3. \A k \in DOMAIN t : k \in Nat /\ k + 1 \in DOMAIN td /\ k + 1 # 1 /\ t[k] = td[k + 1]
  BY <1>2
<1>4. \A k \in DOMAIN td : k = 1 \/ (k - 1 \in DOMAIN t /\ t[k - 1] = td[k])
  BY <1>2
<1>5. 1 \in DOMAIN td /\ td[1].filename = n /\ n \in Name
  BY <1>2 DEF DiffEntry
<1> HIDE DEF t
<1>6. ASSUME NEW i \in DOMAIN t, NEW j \in DOMAIN t, t[i].filename = t[j].filename
      PROVE  i = j
  <2>1. i + 1 = j + 1
    BY <1>3, <1>6 DEF TodoOK
  <2> QED
    BY <1>3, <2>1
<1>7. ASSUME NEW i \in DOMAIN t
      PROVE  \/ t[i].dirty \in K \/ S[t[i].filename] = Absent
             \/ Settled(S, T, D, t[i].filename)
  BY <1>3 DEF TodoOK
<1>8. TodoOK(S, T, D, K, t)
  BY <1>2, <1>6, <1>7 DEF TodoOK
<1>9. ~InTodo(t, n)
  BY <1>3, <1>5 DEF TodoOK, InTodo
<1>10. \A x : InTodo(td, x) <=> InTodo(t, x) \/ x = n
  BY <1>3, <1>4, <1>5 DEF InTodo
<1> QED
  BY <1>5, <1>8, <1>9, <1>10 DEF t, Shifted

\* The packets of a file, when no piece has a NUL in it.
LEMMA PacketsFacts ==
    ASSUME NEW n \in Name, NEW f \in File, BinaryPiece \notin Piece
    PROVE  /\ Packets(n, f) \in Seq(Packet) /\ Len(Packets(n, f)) = Len(f) + 2
           /\ Packets(n, f)[1] = [index |-> "first", buf |-> n]
           /\ \A j \in 1 .. Len(f) : Packets(n, f)[j + 1] = [index |-> "next", buf |-> f[j]]
           /\ Packets(n, f)[Len(f) + 2] = [index |-> "last", buf |-> Absent]
<1>1. f \in Seq(Character) /\ Len(f) \in Nat /\ DOMAIN f = 1 .. Len(f)
  BY FileFacts
<1> DEFINE middle == [k \in DOMAIN f |-> [index |-> "next", buf |-> Packed(f[k])]]
<1>2. \A k \in DOMAIN f : Packed(f[k]) = f[k]
  <2> TAKE k \in DOMAIN f
  <2>1. f[k] \in Character
    BY <1>1
  <2> QED
    BY <2>1 DEF Character, Packed
<1>3. \A k \in 1 .. Len(f) : middle[k] = [index |-> "next", buf |-> f[k]] /\ middle[k] \in Packet
  <2> TAKE k \in 1 .. Len(f)
  <2>1. f[k] \in Character
    BY <1>1
  <2> QED
    BY <1>1, <1>2, <2>1 DEF Packet
<1>4. middle \in Seq(Packet) /\ Len(middle) = Len(f)
  <2>1. middle \in [1 .. Len(f) -> Packet]
    BY <1>1, <1>3
  <2> HIDE DEF middle
  <2> QED
    BY <1>1, <2>1
<1> DEFINE a == [index |-> "first", buf |-> n]
<1> DEFINE z == [index |-> "last", buf |-> Absent]
<1>5. a \in Packet /\ z \in Packet
  BY DEF Packet
<1>6. Packets(n, f) = <<a>> \o middle \o <<z>>
  BY DEF Packets
<1> HIDE DEF a, z, middle
<1>7. <<a>> \o middle \in Seq(Packet) /\ Len(<<a>> \o middle) = Len(f) + 1
  BY <1>1, <1>4, <1>5
<1>8. (<<a>> \o middle)[1] = a /\ \A j \in 1 .. Len(f) : (<<a>> \o middle)[j + 1] = middle[j]
  BY <1>1, <1>4, <1>5
<1> DEFINE am == <<a>> \o middle
<1> DEFINE amz == am \o <<z>>
<1>9. am \in Seq(Packet) /\ Len(am) = Len(f) + 1
  BY <1>7
<1>10. am[1] = a /\ \A j \in 1 .. Len(f) : am[j + 1] = middle[j]
  BY <1>8
<1> HIDE DEF am
<1>11. /\ amz \in Seq(Packet) /\ Len(amz) = Len(f) + 2
       /\ \A j \in 1 .. Len(f) + 1 : amz[j] = am[j]
       /\ amz[Len(f) + 2] = z
  BY <1>1, <1>5, <1>9
<1>12. 1 \in 1 .. Len(f) + 1 /\ \A j \in 1 .. Len(f) : j + 1 \in 1 .. Len(f) + 1
  BY <1>1
<1>13. Packets(n, f) = amz
  BY <1>6 DEF am
<1> HIDE DEF amz
<1> QED
  BY <1>3, <1>10, <1>11, <1>12, <1>13 DEF a, z

LEMMA RestStays ==
    ASSUME NEW S \in Directory, NEW ch \in Seq(Packet), NEW ch2 \in Seq(Packet),
           Len(ch2) > Len(ch), ch2[Len(ch) + 1].index = "first",
           \A k \in 1 .. Len(ch) : ch2[k] = ch[k],
           NEW i \in Nat, i >= 1, NEW w \in Nat, NEW n, RestAt(S, ch, i, w, n)
    PROVE  RestAt(S, ch2, i, w, n)
<1>1. n \in Name /\ S[n] # Absent /\ w <= Len(S[n]) /\ Len(S[n]) \in Nat
  <2>1. n \in Name /\ S[n] # Absent /\ w <= Len(S[n])
    BY DEF RestAt
  <2>2. S[n] \in File
    BY <2>1 DEF Directory
  <2> QED
    BY <2>1, <2>2, FileFacts
<1> DEFINE L == Len(S[n])
<1> DEFINE N == Len(ch)
<1> DEFINE N2 == Len(ch2)
<1>2. /\ i + (L - w) <= N
      /\ \A j \in w + 1 .. L : ch[(i + j) - (w + 1)] = [index |-> "next", buf |-> S[n][j]]
      /\ ch[i + (L - w)] = [index |-> "last", buf |-> Absent]
      /\ i + (L - w) < N => ch[i + (L - w) + 1].index = "first"
  BY DEF RestAt
<1>3. /\ L \in Nat /\ N \in Nat /\ w <= L /\ N2 \in Nat /\ N < N2
      /\ ch2[N + 1].index = "first" /\ \A k \in 1 .. N : ch2[k] = ch[k]
  BY <1>1
<1> HIDE DEF L, N, N2
<1>4. i + (L - w) <= N2
  BY <1>2, <1>3
<1>5. \A j \in w + 1 .. L : ch2[(i + j) - (w + 1)] = [index |-> "next", buf |-> S[n][j]]
  <2> TAKE j \in w + 1 .. L
  <2>1. (i + j) - (w + 1) \in 1 .. N
    BY <1>2, <1>3
  <2> QED
    BY <1>2, <1>3, <2>1
<1>6. ch2[i + (L - w)] = [index |-> "last", buf |-> Absent]
  <2>1. i + (L - w) \in 1 .. N
    BY <1>2, <1>3
  <2> QED
    BY <1>2, <1>3, <2>1
<1>7. ch2[i + (L - w) + 1].index = "first"
  <2>1. CASE i + (L - w) < N
    <3>1. i + (L - w) + 1 \in 1 .. N
      BY <1>2, <1>3, <2>1
    <3> QED
      BY <1>2, <1>3, <2>1, <3>1
  <2>2. CASE i + (L - w) = N
    BY <1>3, <2>2
  <2> QED
    BY <1>2, <1>3, <2>1, <2>2
<1> QED
  BY <1>1, <1>4, <1>5, <1>6, <1>7 DEF RestAt, L, N2

\* The round of the sending loop that sends file n.
LEMMA FileSent ==
    ASSUME NEW S \in Directory, NEW T, NEW D, NEW K, NEW td, NEW ch, NEW pf \in PFile,
           Moving(S, T, D, K, td, ch, pf), td # <<>>, NEW n, n = Head(td).filename,
           S[n] # Absent, BinaryPiece \notin Piece
    PROVE  Moving(S, T, D, K, Tail(td), ch \o Packets(n, S[n]), pf)
<1> DEFINE t == Tail(td)
<1> DEFINE p == Packets(n, S[n])
<1> DEFINE ch2 == ch \o p
<1> DEFINE L == Len(S[n])
<1> DEFINE N == Len(ch)
<1>1. /\ TodoOK(S, T, D, K, td) /\ ChannelOK(S, td, ch) /\ ch \in Seq(Packet)
      /\ FileOK(S, td, ch, pf) /\ NothingForgotten(S, T, D, td, ch, pf)
  BY DEF Moving, ChannelOK
<1>2. /\ TodoOK(S, T, D, K, t) /\ n \in Name /\ InTodo(td, n) /\ ~InTodo(t, n)
      /\ \A x : InTodo(td, x) <=> InTodo(t, x) \/ x = n
  <2>1. Shifted(S, T, D, K, td, n)
    BY <1>1, TodoShifts
  <2> QED
    BY <2>1 DEF Shifted
<1>3. S[n] \in File
  BY <1>2 DEF Directory
<1>4. /\ p \in Seq(Packet) /\ Len(p) = L + 2 /\ p[1] = [index |-> "first", buf |-> n]
      /\ \A j \in 1 .. L : p[j + 1] = [index |-> "next", buf |-> S[n][j]]
      /\ p[L + 2] = [index |-> "last", buf |-> Absent]
  BY <1>2, <1>3, PacketsFacts
<1>5. L \in Nat /\ N \in Nat
  BY <1>1, <1>3, FileFacts
<1> HIDE DEF t, p, L
<1>6. /\ ch2 \in Seq(Packet) /\ Len(ch2) = N + (L + 2)
      /\ \A k \in 1 .. N : ch2[k] = ch[k]
      /\ \A k \in 1 .. L + 2 : ch2[N + k] = p[k]
      /\ DOMAIN ch2 = 1 .. N + (L + 2) /\ DOMAIN ch = 1 .. N
  BY <1>1, <1>4, <1>5
<1> HIDE DEF N, ch2
<1>7. ch2[N + 1] = [index |-> "first", buf |-> n]
  BY <1>4, <1>5, <1>6
<1>8. \A j \in 1 .. L : ch2[N + (j + 1)] = [index |-> "next", buf |-> S[n][j]]
  BY <1>4, <1>5, <1>6
<1>9. ch2[N + (L + 2)] = [index |-> "last", buf |-> Absent]
  BY <1>4, <1>5, <1>6
<1>10. \A i \in DOMAIN ch2 : ch2[i].index = "first" =>
           (i \in DOMAIN ch /\ ch2[i] = ch[i]) \/ i = N + 1
  <2> SUFFICES ASSUME NEW i \in 1 .. N + (L + 2), i > N + 1 PROVE ch2[i].index # "first"
    BY <1>5, <1>6
  <2>1. CASE i = N + (L + 2)
    BY <1>9, <2>1
  <2>2. CASE i # N + (L + 2)
    <3>1. PICK j \in 1 .. L : i = N + (j + 1)
      <4>1. i - (N + 1) \in 1 .. L /\ N + ((i - (N + 1)) + 1) = i
        BY <1>5, <2>2
      <4> QED
        BY <4>1
    <3>2. ch2[i] = [index |-> "next", buf |-> S[n][j]]
      BY <1>8, <3>1
    <3> QED
      BY <3>2
  <2> QED
    BY <2>1, <2>2
<1>11. RestAt(S, ch2, (N + 1) + 1, 0, n)
  <2>1. (N + 1) + 1 + (L - 0) = N + (L + 2)
    BY <1>5
  <2>2. ASSUME NEW j \in 0 + 1 .. L
        PROVE  ch2[((N + 1) + 1 + j) - (0 + 1)] = [index |-> "next", buf |-> S[n][j]]
    <3>1. ((N + 1) + 1 + j) - (0 + 1) = N + (j + 1) /\ j \in 1 .. L
      BY <1>5
    <3> QED
      BY <1>8, <3>1
  <2>3. /\ 0 <= L /\ (N + 1) + 1 + (L - 0) <= Len(ch2)
        /\ ch2[(N + 1) + 1 + (L - 0)] = [index |-> "last", buf |-> Absent]
        /\ ~((N + 1) + 1 + (L - 0) < Len(ch2))
    BY <1>5, <1>6, <1>9, <2>1
  <2> QED
    BY <1>2, <2>2, <2>3 DEF RestAt, L
<1>12. \A i, w, m : i \in Nat /\ i >= 1 /\ w \in Nat /\ RestAt(S, ch, i, w, m)
          => RestAt(S, ch2, i, w, m)
  <2> TAKE i, w, m
  <2> HAVE i \in Nat /\ i >= 1 /\ w \in Nat /\ RestAt(S, ch, i, w, m)
  <2>1. Len(ch2) > Len(ch) /\ ch2[Len(ch) + 1].index = "first"
    BY <1>5, <1>6, <1>7 DEF N
  <2>2. \A k \in 1 .. Len(ch) : ch2[k] = ch[k]
    BY <1>6 DEF N
  <2> QED
    BY <1>1, <1>6, <2>1, <2>2, RestStays
<1>13. ~OnItsWay(ch, n)
  BY <1>1, <1>2 DEF ChannelOK, OnItsWay
<1>14. \A x : OnItsWay(ch2, x) <=> OnItsWay(ch, x) \/ x = n
  <2>1. N + 1 \in DOMAIN ch2 /\ \A i \in DOMAIN ch : i \in DOMAIN ch2 /\ ch2[i] = ch[i]
    BY <1>5, <1>6
  <2> QED
    BY <1>7, <1>10, <2>1 DEF OnItsWay
<1>15. ChannelOK(S, t, ch2)
  <2>1. ASSUME NEW i \in DOMAIN ch2, ch2[i].index = "first"
        PROVE  RestAt(S, ch2, i + 1, 0, ch2[i].buf) /\ ~InTodo(t, ch2[i].buf)
    <3>1. CASE i \in DOMAIN ch /\ ch2[i] = ch[i]
      <4>1. RestAt(S, ch, i + 1, 0, ch2[i].buf) /\ ~InTodo(td, ch2[i].buf)
        BY <1>1, <2>1, <3>1 DEF ChannelOK
      <4>2. i + 1 \in Nat /\ i + 1 >= 1
        BY <1>5, <1>6
      <4> QED
        BY <1>2, <1>12, <4>1, <4>2
    <3>2. CASE i = N + 1
      BY <1>2, <1>7, <1>11, <3>2
    <3> QED
      BY <1>10, <2>1, <3>1, <3>2
  <2>2. ASSUME NEW i \in DOMAIN ch2, NEW j \in DOMAIN ch2, ch2[i].index = "first", ch2[j] = ch2[i]
        PROVE  i = j
    <3>1. CASE i = N + 1 \/ j = N + 1
      <4>1. ch2[i].buf = n /\ ch2[j].buf = n /\ ch2[j].index = "first"
        BY <1>7, <2>2, <3>1
      <4>2. \A k \in DOMAIN ch : ~(ch[k].index = "first" /\ ch[k].buf = n)
        BY <1>13 DEF OnItsWay
      <4> QED
        BY <1>10, <2>2, <4>1, <4>2
    <3>2. CASE i # N + 1 /\ j # N + 1
      <4>1. ch2[j].index = "first"
        BY <2>2
      <4>2. i \in DOMAIN ch /\ j \in DOMAIN ch /\ ch[i] = ch2[i] /\ ch[j] = ch2[j]
        BY <1>10, <2>2, <3>2, <4>1
      <4> QED
        BY <1>1, <2>2, <4>2 DEF ChannelOK
    <3> QED
      BY <3>1, <3>2
  <2> QED
    BY <1>6, <2>1, <2>2 DEF ChannelOK
<1>16. InFile(ch2) <=> InFile(ch)
  <2>1. CASE ch = <<>>
    <3>1. N = 0
      BY <2>1 DEF N
    <3> QED
      BY <1>7, <2>1, <3>1 DEF InFile
  <2>2. CASE ch # <<>>
    <3>1. N # 0
      BY <1>1, <2>2 DEF N
    <3>2. ch2[1] = ch[1] /\ ch2 # <<>>
      BY <1>5, <1>6, <3>1
    <3> QED
      BY <2>2, <3>2 DEF InFile
  <2> QED
    BY <2>1, <2>2
<1>17. FileOK(S, t, ch2, pf)
  <2> SUFFICES ASSUME InFile(ch)
               PROVE  /\ RestAt(S, ch2, 1, Len(pf.written), pf.name)
                      /\ \A j \in 1 .. Len(pf.written) : pf.written[j] = S[pf.name][j]
                      /\ ~InTodo(t, pf.name) /\ ~OnItsWay(ch2, pf.name)
    BY <1>16 DEF FileOK
  <2>1. /\ RestAt(S, ch, 1, Len(pf.written), pf.name)
        /\ \A j \in 1 .. Len(pf.written) : pf.written[j] = S[pf.name][j]
        /\ ~InTodo(td, pf.name) /\ ~OnItsWay(ch, pf.name)
    BY <1>1 DEF FileOK
  <2>2. Len(pf.written) \in Nat
    <3>1. pf.written \in File
      BY DEF PFile
    <3> QED
      BY <3>1, FileFacts
  <2> QED
    BY <1>2, <1>12, <1>14, <2>1, <2>2
<1>18. NothingForgotten(S, T, D, t, ch2, pf)
  BY <1>1, <1>2, <1>14, <1>16 DEF NothingForgotten
<1> QED
  BY <1>2, <1>15, <1>17, <1>18 DEF Moving, t, ch2, p

\* The round that does not.
LEMMA FileSkipped ==
    ASSUME NEW S, NEW T, NEW D, NEW K, NEW td, NEW ch, NEW pf,
           Moving(S, T, D, K, td, ch, pf), td # <<>>, NEW n, n = Head(td).filename,
           ~(Head(td).dirty \in K /\ S[n] # Absent)
    PROVE  Moving(S, T, D, K, Tail(td), ch, pf)
<1>1. /\ TodoOK(S, T, D, K, td) /\ ChannelOK(S, td, ch)
      /\ FileOK(S, td, ch, pf) /\ NothingForgotten(S, T, D, td, ch, pf)
  BY DEF Moving
<1>2. /\ TodoOK(S, T, D, K, Tail(td))
      /\ Head(td).dirty \in K \/ S[n] = Absent \/ Settled(S, T, D, n)
      /\ \A x : InTodo(td, x) <=> InTodo(Tail(td), x) \/ x = n
  <2>1. Shifted(S, T, D, K, td, n)
    BY <1>1, TodoShifts
  <2>2. Head(td).dirty \in K \/ S[n] = Absent \/ Settled(S, T, D, n)
    <3>1. Head(td) = td[1] /\ 1 \in DOMAIN td
      <4>1. td \in Seq(DiffEntry)
        BY <1>1 DEF TodoOK
      <4> QED
        BY <4>1, TailFacts
    <3> QED
      BY <1>1, <3>1 DEF TodoOK
  <2> QED
    BY <2>1, <2>2 DEF Shifted
<1>3. ChannelOK(S, Tail(td), ch)
  BY <1>1, <1>2 DEF ChannelOK
<1>4. FileOK(S, Tail(td), ch, pf)
  BY <1>1, <1>2 DEF FileOK
<1>5. NothingForgotten(S, T, D, Tail(td), ch, pf)
  BY <1>1, <1>2 DEF NothingForgotten
<1> QED
  BY <1>2, <1>3, <1>4, <1>5 DEF Moving

-----------------------------------------------------------------------------
(***************************************************************************)
(* The inductive invariant of the transfers when an upload overlaps with   *)
(* nothing (~Overlap): a diff that is known holds until the transfer that  *)
(* it is for starts, and every transfer is as Moving says.                 *)
(***************************************************************************)
TypesInv ==
    /\ local \in [Client -> Directory] /\ repo \in Directory
    /\ pc \in [Client -> {"idle", "asked", "known", "moving"}]
    /\ kind \in [Client -> {"upload", "download"}]
    /\ todo \in [Client -> Seq(DiffEntry)] /\ channel \in [Client -> Seq(Packet)]
    /\ pFILE \in [Client \cup {FileServer} -> PFile]
FilesInv == \A c \in Client : \A e \in ToSet(files[c]) :
                e.filename \in Name /\ e.client_checksum \in Nat \cup {Absent}
AloneInv == \A c, d \in Client :
                pc[c] = "moving" /\ kind[c] = "upload" /\ d # c => pc[d] = "idle"
KnownInv == \A c \in Client : /\ pc[c] = "known" => IsDiff(diff[c], Sums(local[c]), Sums(repo))
                              /\ ToSet(diff[c]) \subseteq DiffEntry
MovingInv == \A c \in Client :
    IF pc[c] = "moving"
    THEN Moving(Source(c), Target(c), diff[c], Sent(kind[c]), todo[c], channel[c], pFILE[Receiver(c)])
    ELSE channel[c] = <<>> /\ todo[c] = <<>>

TransferInv == /\ AskedInv /\ TypesInv /\ FilesInv
               /\ AloneInv /\ KnownInv /\ MovingInv

LEMMA EmptyFile == <<>> \in File
<1>1. <<>> \in [1 .. 0 -> Piece \cup {CutPiece}]
  OBVIOUS
<1>2. 0 \in 0 .. MaxPieces
  BY MaxPiecesIsNat
<1> QED
  BY <1>1, <1>2 DEF File

LEMMA InitTransfer == Init => TransferInv
<1> SUFFICES ASSUME Init PROVE TransferInv
  OBVIOUS
<1>1. AskedInv
  BY DEF Init, AskedInv
<1>2. InitialFile \cup {Absent} \subseteq File \cup {Absent}
  BY DEF File, InitialFile
<1>3. /\ local \in [Client -> [Name -> InitialFile \cup {Absent}]]
      /\ repo \in [Name -> InitialFile \cup {Absent}]
  BY DEF Init
<1>4. [Name -> InitialFile \cup {Absent}] \subseteq Directory
  BY <1>2 DEF Directory
<1>5. local \in [Client -> Directory] /\ repo \in Directory
  BY <1>3, <1>4
<1>6. Closed \in PFile
  BY EmptyFile DEF Closed, PFile
<1>7. TypesInv
  BY <1>5, <1>6 DEF TypesInv, Init
<1>8. \A c \in Client : ToSet(files[c]) = {} /\ ToSet(diff[c]) = {}
  BY DEF Init, ToSet
<1>9. \A c \in Client : pc[c] = "idle" /\ channel[c] = <<>> /\ todo[c] = <<>>
  BY DEF Init
<1> QED
  BY <1>1, <1>7, <1>8, <1>9 DEF TransferInv, FilesInv, AloneInv, KnownInv, MovingInv

\* A transfer starts with the entries that num counts of the diff of l and r,
\* whose sums the diff D is made of.
LEMMA TransferStarts ==
    ASSUME NEW l \in Directory, NEW r \in Directory, NEW D, IsDiff(D, Sums(l), Sums(r)),
           NEW k \in {"upload", "download"}, NEW pf,
           NEW S, NEW T, S = (IF k = "upload" THEN l ELSE r), T = (IF k = "upload" THEN r ELSE l)
    PROVE  Moving(S, T, D, Sent(k), Counted(D), <<>>, pf)
<1> DEFINE td == Counted(D)
<1>1. D \in Seq(DiffEntry)
  BY DiffTypes
<1>2. /\ td \in Seq(DiffEntry) /\ \A i \in DOMAIN td : i \in DOMAIN D /\ td[i] = D[i]
      /\ Len(D) < 256 => td = D
  BY <1>1, CountedTypes
<1> HIDE DEF td
<1>3. ASSUME NEW i \in DOMAIN D
      PROVE  \/ D[i].dirty \in Sent(k) \/ S[D[i].filename] = Absent
             \/ Settled(S, T, D, D[i].filename)
  <2>1. PICK x \in Name : D[i] = [filename |-> x, dirty |-> Reference(Sums(l)[x], Sums(r)[x])]
    BY DEF IsDiff
  <2>2. D[i].filename = x /\ D[i].dirty = Reference(Sums(l)[x], Sums(r)[x])
    BY <2>1
  <2>3. /\ Sums(l)[x] = SumOf(l[x]) /\ Sums(r)[x] = SumOf(r[x])
        /\ Sums(l)[x] # Absent <=> l[x] # Absent
        /\ Sums(r)[x] # Absent <=> r[x] # Absent
    BY DirectorySums
  <2>4. CASE D[i].dirty = "FILE_CLEAN"
    <3>1. Sums(l)[x] = Sums(r)[x]
      BY <2>2, <2>4 DEF Reference
    <3>2. [filename |-> x, dirty |-> "FILE_CLEAN"] \in ToSet(D)
      BY <2>1, <2>2, <2>4 DEF ToSet
    <3> QED
      BY <2>2, <2>3, <3>1, <3>2 DEF Settled, Spared
  <2>5. CASE D[i].dirty # "FILE_CLEAN"
    BY <2>2, <2>3, <2>5 DEF Reference, Sent
  <2> QED
    BY <2>4, <2>5
<1>4. TodoOK(S, T, D, Sent(k), td)
  <2>1. \A i, j \in DOMAIN td : td[i].filename = td[j].filename => i = j
    BY <1>2 DEF IsDiff
  <2> QED
    BY <1>2, <1>3, <2>1 DEF TodoOK
<1>5. ChannelOK(S, td, <<>>)
  BY DEF ChannelOK
<1>6. FileOK(S, td, <<>>, pf)
  BY DEF FileOK, InFile
<1>7. NothingForgotten(S, T, D, td, <<>>, pf)
  <2> SUFFICES ASSUME Len(D) < 256, NEW n \in Name, S[n] # Absent PROVE InTodo(D, n)
    BY <1>2 DEF NothingForgotten
  <2>1. Sums(l)[n] # Absent \/ Sums(r)[n] # Absent
    BY DirectorySums
  <2> QED
    BY <2>1 DEF IsDiff, InTodo
<1> QED
  BY <1>4, <1>5, <1>6, <1>7 DEF Moving, td

\* What one packet changes at its receiver.
Received(c, T2, pf2) ==
    /\ Moving(Source(c), T2, diff[c], Sent(kind[c]), todo[c], Tail(channel[c]), pf2)
    /\ pFILE' = [pFILE EXCEPT ![Receiver(c)] = pf2]
    /\ IF kind[c] = "upload" THEN repo' = T2 /\ local' = local
                             ELSE local' = [local EXCEPT ![c] = T2] /\ repo' = repo

LEMMA WriteIs ==
    ASSUME TypesInv, NEW c \in Client, NEW n, NEW f, Write(c, n, f)
    PROVE  IF kind[c] = "upload"
           THEN repo' = [Target(c) EXCEPT ![n] = f] /\ local' = local
           ELSE local' = [local EXCEPT ![c] = [Target(c) EXCEPT ![n] = f]] /\ repo' = repo
BY DEF Write, Target, TypesInv

LEMMA PacketReceived ==
    ASSUME TransferInv, NEW c \in Client, OnMessage(c)
    PROVE  \E T2 \in Directory, pf2 \in PFile : Received(c, T2, pf2)
<1> DEFINE S == Source(c)
<1> DEFINE T == Target(c)
<1> DEFINE D == diff[c]
<1> DEFINE K == Sent(kind[c])
<1> DEFINE td == todo[c]
<1> DEFINE ch == channel[c]
<1> DEFINE r == Receiver(c)
<1> DEFINE pf == pFILE[r]
<1>1. ch # <<>> /\ pc[c] = "moving"
  BY DEF OnMessage, TransferInv, AskedInv
<1>2. Moving(S, T, D, K, td, ch, pf)
  BY <1>1 DEF TransferInv, MovingInv
<1>3. TypesInv /\ S \in Directory /\ T \in Directory /\ ch \in Seq(Packet)
  BY DEF TransferInv, TypesInv, Source, Target
<1>4. r \in Client \cup {FileServer} /\ pf \in PFile
  BY <1>3 DEF TypesInv, Receiver
<1>5. Head(ch) = ch[1] /\ ch[1] \in Packet
  BY <1>1, <1>3, TailFacts
<1>6. pf.written \in File
  BY <1>4 DEF PFile
<1>7. \/ /\ ch[1].index = "first"
         /\ Write(c, ch[1].buf, <<>>)
         /\ pFILE' = [pFILE EXCEPT ![r] = [name |-> ch[1].buf, written |-> <<>>]]
      \/ /\ ch[1].index = "next" /\ pf # Closed
         /\ pFILE' = [pFILE EXCEPT ![r].written = Append(@, ch[1].buf)]
         /\ UNCHANGED <<local, repo>>
      \/ /\ ch[1].index = "last" /\ pf # Closed
         /\ Write(c, pf.name, pf.written)
         /\ pFILE' = [pFILE EXCEPT ![r] = Closed]
      \/ ch[1].index # "first" /\ pf = Closed
  BY <1>5 DEF OnMessage
<1>8. ch[1].index \in {"first", "next", "last"}
  BY <1>5 DEF Packet
<1> HIDE DEF S, T, D, K, td, ch, r, pf
<1>9. CASE ch[1].index = "first"
  <2> DEFINE n == ch[1].buf
  <2> DEFINE T2 == [T EXCEPT ![n] = <<>>]
  <2> DEFINE pf2 == [name |-> n, written |-> <<>>]
  <2>1. n \in Name /\ Moving(S, T2, D, K, td, Tail(ch), pf2)
    BY <1>1, <1>2, <1>3, <1>9, FirstPacket
  <2>2. Write(c, n, <<>>) /\ pFILE' = [pFILE EXCEPT ![r] = pf2]
    BY <1>7, <1>9
  <2>3. IF kind[c] = "upload" THEN repo' = T2 /\ local' = local
                              ELSE local' = [local EXCEPT ![c] = T2] /\ repo' = repo
    BY <1>3, <2>2, WriteIs DEF T
  <2>4. T2 \in Directory /\ pf2 \in PFile
    BY <1>3, <2>1, EmptyFile DEF Directory, PFile
  <2> HIDE DEF T2, pf2
  <2>5. Received(c, T2, pf2)
    BY <2>1, <2>2, <2>3 DEF Received, S, D, K, td, ch, r
  <2> QED
    BY <2>4, <2>5
<1>10. CASE ch[1].index = "next"
  <2> DEFINE pf2 == [pf EXCEPT !.written = Append(@, ch[1].buf)]
  <2>1. pf # Closed /\ pf2 \in PFile /\ Moving(S, T, D, K, td, Tail(ch), pf2)
    BY <1>1, <1>2, <1>3, <1>4, <1>10, NextPacket, AbsentIsNoName
  <2>2. UNCHANGED <<local, repo>> /\ pFILE' = [pFILE EXCEPT ![r].written = Append(@, ch[1].buf)]
    BY <1>7, <1>10, <2>1
  <2>3. pFILE' = [pFILE EXCEPT ![r] = pf2]
    BY <1>4, <2>2 DEF pf
  <2>4. IF kind[c] = "upload" THEN repo' = T /\ local' = local
                              ELSE local' = [local EXCEPT ![c] = T] /\ repo' = repo
    BY <1>3, <2>2 DEF T, Target, TypesInv
  <2> HIDE DEF pf2
  <2>5. Received(c, T, pf2)
    BY <2>1, <2>3, <2>4 DEF Received, S, D, K, td, ch, r
  <2> QED
    BY <1>3, <2>1, <2>5
<1>11. CASE ch[1].index = "last"
  <2> DEFINE T2 == [T EXCEPT ![pf.name] = pf.written]
  <2>1. pf # Closed /\ pf.name \in Name /\ Moving(S, T2, D, K, td, Tail(ch), Closed)
    BY <1>1, <1>2, <1>3, <1>4, <1>11, LastPacket, AbsentIsNoName
  <2>2. Write(c, pf.name, pf.written) /\ pFILE' = [pFILE EXCEPT ![r] = Closed]
    BY <1>7, <1>11, <2>1
  <2>3. IF kind[c] = "upload" THEN repo' = T2 /\ local' = local
                              ELSE local' = [local EXCEPT ![c] = T2] /\ repo' = repo
    BY <1>3, <2>2, WriteIs DEF T
  <2>4. T2 \in Directory /\ Closed \in PFile
    BY <1>3, <1>6, <2>1, EmptyFile DEF Directory, PFile, Closed
  <2> HIDE DEF T2
  <2>5. Received(c, T2, Closed)
    BY <2>1, <2>2, <2>3 DEF Received, S, D, K, td, ch, r
  <2> QED
    BY <2>4, <2>5
<1> QED
  BY <1>8, <1>9, <1>10, <1>11

\* Transfers that the step leaves as they are.
LEMMA Undisturbed ==
    ASSUME MovingInv, NEW d \in Client, pc'[d] = pc[d], channel'[d] = channel[d],
           todo'[d] = todo[d], kind'[d] = kind[d],
           pc[d] = "moving" => diff'[d] = diff[d],
           pc[d] = "moving" => /\ Source(d)' = Source(d) /\ Target(d)' = Target(d)
                               /\ pFILE'[Receiver(d)] = pFILE[Receiver(d)]
    PROVE  IF pc'[d] = "moving"
           THEN Moving(Source(d), Target(d), diff[d], Sent(kind[d]), todo[d], channel[d], pFILE[Receiver(d)])'
           ELSE channel'[d] = <<>> /\ todo'[d] = <<>>
<1>1. CASE pc[d] = "moving"
  <2>1. Moving(Source(d), Target(d), diff[d], Sent(kind[d]), todo[d], channel[d], pFILE[Receiver(d)])
    BY <1>1 DEF MovingInv
  <2>2. Receiver(d)' = Receiver(d) /\ Sent(kind[d])' = Sent(kind[d])
    BY DEF Receiver, Sent
  <2> QED
    BY <1>1, <2>1, <2>2
<1>2. CASE pc[d] # "moving"
  BY <1>2 DEF MovingInv
<1> QED
  BY <1>1, <1>2

LEMMA StatusKeeps ==
    ASSUME TransferInv, AskedInv', ~Overlap, SamePath, NEW c \in Client, Status(c)
    PROVE  TransferInv'
<1> DEFINE l == Sums(local[c])
<1>1. PICK names \in Listings(l) : files' = [files EXCEPT ![c] = ClientChecksums(l, names)]
  BY DEF Status, Sums
<1>2. /\ pc[c] \in {"idle", "known"} /\ pc' = [pc EXCEPT ![c] = "asked"] /\ NoUpload
      /\ UNCHANGED <<local, repo, diff, kind, todo, channel, pFILE>>
  BY DEF Status, transfer
<1>3. TypesInv /\ FilesInv /\ AloneInv /\ KnownInv /\ MovingInv
  BY DEF TransferInv
<1>4. TypesInv'
  BY <1>2, <1>3 DEF TypesInv
<1>5. FilesInv'
  <2>0. \A x \in Name : l[x] \in Nat \cup {Absent}
    BY <1>3, DirectorySums DEF TypesInv
  <2> HIDE DEF l
  <2>1. PICK m \in Nat : ListsAll(l, names, m)
    BY ListingIsComplete
  <2>2. \A k \in DOMAIN names : names[k] \in Name
    BY <2>1 DEF ListsAll
  <2>4. ASSUME NEW e \in ToSet(ClientChecksums(l, names))
        PROVE  e.filename \in Name /\ e.client_checksum \in Nat \cup {Absent}
    <3>1. PICK k \in DOMAIN names : e = [filename |-> names[k], client_checksum |-> l[names[k]]]
      BY DEF ToSet, ClientChecksums
    <3> QED
      BY <2>0, <2>2, <3>1
  <2>5. files = [d \in Client |-> files[d]]
    BY DEF TransferInv, AskedInv
  <2>6. files'[c] = ClientChecksums(l, names) /\ \A d \in Client \ {c} : files'[d] = files[d]
    BY <1>1, <2>5
  <2> QED
    BY <1>3, <2>4, <2>6 DEF FilesInv
<1>6. AloneInv'
  BY <1>2, <1>3 DEF AloneInv, TypesInv, NoUpload
<1>7. KnownInv'
  <2>1. \A d \in Client : pc'[d] = "known" => pc[d] = "known"
    BY <1>2, <1>3 DEF TypesInv
  <2> QED
    BY <1>2, <1>3, <2>1 DEF KnownInv
<1>8. MovingInv'
  <2> SUFFICES ASSUME NEW d \in Client
               PROVE  IF pc'[d] = "moving"
                      THEN Moving(Source(d), Target(d), diff[d], Sent(kind[d]), todo[d], channel[d],
                                  pFILE[Receiver(d)])'
                      ELSE channel'[d] = <<>> /\ todo'[d] = <<>>
    BY DEF MovingInv
  <2>1. CASE d = c
    <3>1. pc'[c] = "asked" /\ channel'[c] = <<>> /\ todo'[c] = <<>>
      BY <1>2, <1>3 DEF MovingInv, TypesInv
    <3> QED
      BY <2>1, <3>1
  <2>2. CASE d # c
    <3>1. pc'[d] = pc[d]
      BY <1>2, <1>3, <2>2 DEF TypesInv
    <3>2. Source(d)' = Source(d) /\ Target(d)' = Target(d)
      BY <1>2 DEF Source, Target
    <3> QED
      BY <1>2, <1>3, <3>1, <3>2, Undisturbed
  <2> QED
    BY <2>1, <2>2
<1> QED
  BY <1>4, <1>5, <1>6, <1>7, <1>8 DEF TransferInv

LEMMA FsStatusKeeps ==
    ASSUME TransferInv, AskedInv', NEW c \in Client, FsStatus(c)
    PROVE  TransferInv'
<1> DEFINE l == Sums(local[c])
<1> DEFINE r == Sums(repo)
<1>1. PICK fs \in Listings(r) :
         files' = [files EXCEPT ![c] = join_checksum_arrays(FsChecksums(r, fs), files[c])]
  BY DEF FsStatus, Sums
<1>2. /\ pc[c] = "asked" /\ pc' = [pc EXCEPT ![c] = "known"]
      /\ UNCHANGED <<local, repo, kind, todo, channel, pFILE>>
  BY DEF FsStatus, transfer
<1>3. AskedInv /\ TypesInv /\ FilesInv /\ AloneInv /\ KnownInv /\ MovingInv
  BY DEF TransferInv
<1>4. TypesInv'
  BY <1>2, <1>3 DEF TypesInv
<1>5. FilesInv'
  <2>1. PICK cl \in Listings(l) : files[c] = ClientChecksums(l, cl)
    BY <1>2, <1>3 DEF AskedInv
  <2>5. \A x \in Name : l[x] \in Nat \cup {Absent}
    BY <1>3, DirectorySums DEF TypesInv
  <2> HIDE DEF l, r
  <2> DEFINE J == join_checksum_arrays(FsChecksums(r, fs), ClientChecksums(l, cl))
  <2>2. files'[c] = J /\ \A d \in Client \ {c} : files'[d] = files[d]
    BY <1>1, <1>3, <2>1 DEF AskedInv
  <2>3. J = join_checksum_arrays(FsChecksums(r, fs), ClientChecksums(l, cl))
    OBVIOUS
  <2> HIDE DEF J
  <2>4. IsJoin(J, r, l)
    BY <2>3, OuterJoin
  <2>6. ASSUME NEW e \in ToSet(J)
        PROVE  e.filename \in Name /\ e.client_checksum \in Nat \cup {Absent}
    <3>1. PICK k \in DOMAIN J : e = J[k]
      BY DEF ToSet
    <3>2. PICK x \in Name : J[k] = Entry(x, r[x], l[x])
      BY <2>4 DEF IsJoin
    <3> QED
      BY <2>5, <3>1, <3>2, EntryFields
  <2> QED
    BY <1>3, <2>2, <2>6 DEF FilesInv
<1>6. AloneInv'
  <2> SUFFICES ASSUME NEW a \in Client, NEW d \in Client, a # d,
                      pc'[a] = "moving", kind'[a] = "upload"
               PROVE  pc'[d] = "idle"
    BY DEF AloneInv
  <2>1. a # c /\ pc[a] = "moving" /\ kind[a] = "upload"
    BY <1>2, <1>3 DEF TypesInv
  <2>2. pc[c] = "idle"
    BY <1>3, <2>1 DEF AloneInv
  <2> QED
    BY <1>2, <2>2
<1>7. KnownInv'
  <2>1. diff = [d \in Client |-> diff[d]] /\ \E D : diff' = [diff EXCEPT ![c] = D]
    BY <1>3 DEF AskedInv, FsStatus
  <2>2. \A d \in Client \ {c} : diff'[d] = diff[d] /\ pc'[d] = pc[d]
    BY <1>2, <1>3, <2>1 DEF TypesInv
  <2>3. IsDiff(diff'[c], Sums(local[c]), Sums(repo))
    BY <1>3, FsStatusDiff
  <2>4. ToSet(diff'[c]) \subseteq DiffEntry
    BY <2>3, DiffTypes
  <2> SUFFICES ASSUME NEW d \in Client
               PROVE  /\ pc'[d] = "known" => IsDiff(diff'[d], Sums(local'[d]), Sums(repo'))
                      /\ ToSet(diff'[d]) \subseteq DiffEntry
    BY DEF KnownInv
  <2>5. CASE d = c
    BY <1>2, <2>3, <2>4, <2>5
  <2>6. CASE d # c
    BY <1>2, <1>3, <2>2, <2>6 DEF KnownInv
  <2> QED
    BY <2>5, <2>6
<1>8. MovingInv'
  <2> SUFFICES ASSUME NEW d \in Client
               PROVE  IF pc'[d] = "moving"
                      THEN Moving(Source(d), Target(d), diff[d], Sent(kind[d]), todo[d], channel[d],
                                  pFILE[Receiver(d)])'
                      ELSE channel'[d] = <<>> /\ todo'[d] = <<>>
    BY DEF MovingInv
  <2>1. CASE d = c
    <3>1. pc'[c] = "known" /\ channel'[c] = <<>> /\ todo'[c] = <<>>
      BY <1>2, <1>3 DEF MovingInv, TypesInv
    <3> QED
      BY <2>1, <3>1
  <2>2. CASE d # c
    <3>1. pc'[d] = pc[d]
      BY <1>2, <1>3, <2>2 DEF TypesInv
    <3>2. Source(d)' = Source(d) /\ Target(d)' = Target(d)
      BY <1>2 DEF Source, Target
    <3>3. diff'[d] = diff[d]
      <4>1. \E D : diff' = [diff EXCEPT ![c] = D]
        BY DEF FsStatus
      <4> QED
        BY <1>3, <2>2, <4>1 DEF AskedInv
    <3> QED
      BY <1>2, <1>3, <3>1, <3>2, <3>3, Undisturbed
  <2> QED
    BY <2>1, <2>2
<1> QED
  BY <1>4, <1>5, <1>6, <1>7, <1>8 DEF TransferInv

LEMMA StartKeeps ==
    ASSUME TransferInv, AskedInv', ~Overlap, NEW c \in Client,
           NEW k \in {"upload", "download"}, Start(c, k)
    PROVE  TransferInv'
<1>1. /\ pc[c] = "known" /\ pc' = [pc EXCEPT ![c] = "moving"]
      /\ kind' = [kind EXCEPT ![c] = k] /\ todo' = [todo EXCEPT ![c] = Counted(diff[c])]
      /\ UNCHANGED <<local, repo, files, diff, channel, pFILE>>
      /\ \/ k = "download" /\ NoUpload
         \/ k = "upload" /\ \A d \in Client \ {c} : pc[d] = "idle"
  BY DEF Start, status
<1>2. TypesInv /\ FilesInv /\ AloneInv /\ KnownInv /\ MovingInv
  BY DEF TransferInv
<1>3. IsDiff(diff[c], Sums(local[c]), Sums(repo))
  BY <1>1, <1>2 DEF KnownInv
<1>4. TypesInv'
  <2>1. Counted(diff[c]) \in Seq(DiffEntry)
    BY <1>3, DiffTypes, CountedTypes
  <2> QED
    BY <1>1, <1>2, <2>1 DEF TypesInv
<1>5. FilesInv'
  BY <1>1, <1>2 DEF FilesInv
<1>6. AloneInv'
  <2> SUFFICES ASSUME NEW a \in Client, NEW d \in Client, a # d,
                      pc'[a] = "moving", kind'[a] = "upload"
               PROVE  pc'[d] = "idle"
    BY DEF AloneInv
  <2>1. CASE a = c
    BY <1>1, <1>2, <2>1 DEF TypesInv
  <2>2. CASE a # c
    <3>1. pc[a] = "moving" /\ kind[a] = "upload"
      BY <1>1, <1>2, <2>2 DEF TypesInv
    <3>2. pc[c] = "idle"
      BY <1>2, <2>2, <3>1 DEF AloneInv
    <3> QED
      BY <1>1, <3>2
  <2> QED
    BY <2>1, <2>2
<1>7. KnownInv'
  <2>1. \A d \in Client : pc'[d] = "known" => pc[d] = "known"
    BY <1>1, <1>2 DEF TypesInv
  <2> QED
    BY <1>1, <1>2, <2>1 DEF KnownInv
<1>8. MovingInv'
  <2> SUFFICES ASSUME NEW d \in Client
               PROVE  IF pc'[d] = "moving"
                      THEN Moving(Source(d), Target(d), diff[d], Sent(kind[d]), todo[d], channel[d],
                                  pFILE[Receiver(d)])'
                      ELSE channel'[d] = <<>> /\ todo'[d] = <<>>
    BY DEF MovingInv
  <2>1. CASE d = c
    <3>1. /\ pc'[c] = "moving" /\ kind'[c] = k /\ todo'[c] = Counted(diff[c]) /\ channel'[c] = <<>>
            /\ diff'[c] = diff[c] /\ local[c] \in Directory /\ repo \in Directory
      BY <1>1, <1>2 DEF MovingInv, TypesInv
    <3>2. /\ Source(c)' = (IF k = "upload" THEN local[c] ELSE repo)
          /\ Target(c)' = (IF k = "upload" THEN repo ELSE local[c])
          /\ Sent(kind[c])' = Sent(k)
      BY <1>1, <3>1 DEF Source, Target, Sent
    <3> DEFINE S == IF k = "upload" THEN local[c] ELSE repo
    <3> DEFINE T == IF k = "upload" THEN repo ELSE local[c]
    <3> DEFINE pf == pFILE[Receiver(c)]'
    <3>3. S = (IF k = "upload" THEN local[c] ELSE repo)
          /\ T = (IF k = "upload" THEN repo ELSE local[c])
      OBVIOUS
    <3>4. Source(c)' = S /\ Target(c)' = T
      BY <3>2
    <3> HIDE DEF S, T, pf
    <3>5. Moving(S, T, diff[c], Sent(k), Counted(diff[c]), <<>>, pf)
      BY <1>3, <3>1, <3>3, TransferStarts
    <3> QED
      BY <2>1, <3>1, <3>2, <3>4, <3>5 DEF pf
  <2>2. CASE d # c
    <3>1. pc'[d] = pc[d] /\ kind'[d] = kind[d] /\ todo'[d] = todo[d] /\ channel'[d] = channel[d]
      BY <1>1, <1>2, <2>2 DEF TypesInv
    <3>2. Source(d)' = Source(d) /\ Target(d)' = Target(d)
      BY <1>1, <3>1 DEF Source, Target
    <3> QED
      BY <1>1, <1>2, <3>1, <3>2, Undisturbed
  <2> QED
    BY <2>1, <2>2
<1> QED
  BY <1>4, <1>5, <1>6, <1>7, <1>8 DEF TransferInv

LEMMA SendFileKeeps ==
    ASSUME TransferInv, AskedInv', BinaryPiece \notin Piece, NEW c \in Client, SendFile(c)
    PROVE  TransferInv'
<1> DEFINE S == Source(c)
<1> DEFINE T == Target(c)
<1> DEFINE D == diff[c]
<1> DEFINE K == Sent(kind[c])
<1> DEFINE td == todo[c]
<1> DEFINE ch == channel[c]
<1> DEFINE pf == pFILE[Receiver(c)]
<1> DEFINE n == Head(td).filename
<1> DEFINE ch2 == IF Head(td).dirty \in K /\ S[n] # Absent THEN ch \o Packets(n, S[n]) ELSE ch
<1>1. TypesInv /\ FilesInv /\ AloneInv /\ KnownInv /\ MovingInv
  BY DEF TransferInv
<1>2. /\ pc[c] = "moving" /\ td # <<>> /\ todo' = [todo EXCEPT ![c] = Tail(td)]
      /\ UNCHANGED <<local, repo, files, diff, pc, kind, pFILE>>
      /\ channel' = IF Head(td).dirty \in K /\ S[n] # Absent
                    THEN [channel EXCEPT ![c] = ch \o Packets(n, S[n])] ELSE channel
  BY <1>1 DEF SendFile, status, TypesInv
<1>3. channel' = [channel EXCEPT ![c] = ch2]
  BY <1>1, <1>2 DEF TypesInv
<1>4. Moving(S, T, D, K, td, ch, pf) /\ S \in Directory /\ pf \in PFile
  BY <1>1, <1>2 DEF MovingInv, Source, Receiver, TypesInv
<1>5. Moving(S, T, D, K, Tail(td), ch2, pf)
  <2> HIDE DEF S, T, D, K, td, ch, pf
  <2>1. CASE Head(td).dirty \in K /\ S[n] # Absent
    <3>1. Moving(S, T, D, K, Tail(td), ch \o Packets(n, S[n]), pf)
      BY <1>2, <1>4, <2>1, FileSent
    <3> QED
      BY <2>1, <3>1
  <2>2. CASE ~(Head(td).dirty \in K /\ S[n] # Absent)
    <3>1. Moving(S, T, D, K, Tail(td), ch, pf)
      BY <1>2, <1>4, <2>2, FileSkipped
    <3> QED
      BY <2>2, <3>1
  <2> QED
    BY <2>1, <2>2
<1> HIDE DEF ch2
<1>6. TypesInv'
  <2>1. ch2 \in Seq(Packet) /\ Tail(td) \in Seq(DiffEntry)
    BY <1>5 DEF Moving, ChannelOK, TodoOK
  <2> HIDE DEF td
  <2> QED
    BY <1>1, <1>2, <1>3, <2>1 DEF TypesInv
<1>7. FilesInv' /\ AloneInv' /\ KnownInv'
  BY <1>1, <1>2 DEF FilesInv, AloneInv, KnownInv
<1>8. MovingInv'
  <2> SUFFICES ASSUME NEW d \in Client
               PROVE  IF pc'[d] = "moving"
                      THEN Moving(Source(d), Target(d), diff[d], Sent(kind[d]), todo[d], channel[d],
                                  pFILE[Receiver(d)])'
                      ELSE channel'[d] = <<>> /\ todo'[d] = <<>>
    BY DEF MovingInv
  <2>1. Source(d)' = Source(d) /\ Target(d)' = Target(d) /\ Receiver(d)' = Receiver(d)
        /\ Sent(kind[d])' = Sent(kind[d])
    BY <1>2 DEF Source, Target, Receiver, Sent
  <2>2. CASE d = c
    <3>1. channel'[c] = ch2 /\ todo'[c] = Tail(td) /\ pc'[c] = "moving"
      BY <1>1, <1>2, <1>3 DEF TypesInv
    <3>2. Moving(Source(c), Target(c), diff[c], Sent(kind[c]), Tail(td), ch2, pFILE[Receiver(c)])
      BY <1>5
    <3> QED
      BY <1>2, <2>1, <2>2, <3>1, <3>2
  <2>3. CASE d # c
    <3>1. channel'[d] = channel[d] /\ todo'[d] = todo[d]
      BY <1>1, <1>2, <1>3, <2>3 DEF TypesInv
    <3> QED
      BY <1>1, <1>2, <2>1, <3>1, Undisturbed
  <2> QED
    BY <2>2, <2>3
<1> QED
  BY <1>6, <1>7, <1>8 DEF TransferInv

LEMMA OnMessageKeeps ==
    ASSUME TransferInv, AskedInv', NEW c \in Client, OnMessage(c)
    PROVE  TransferInv'
<1>1. PICK T2 \in Directory, pf2 \in PFile : Received(c, T2, pf2)
  BY PacketReceived
<1>2. TypesInv /\ FilesInv /\ AloneInv /\ KnownInv /\ MovingInv
  BY DEF TransferInv
<1>3. /\ channel[c] # <<>> /\ channel' = [channel EXCEPT ![c] = Tail(channel[c])]
      /\ UNCHANGED <<files, diff, pc, kind, todo>> /\ pc[c] = "moving"
  BY DEF OnMessage, status, TransferInv, AskedInv
<1>4. /\ Moving(Source(c), T2, diff[c], Sent(kind[c]), todo[c], Tail(channel[c]), pf2)
      /\ pFILE' = [pFILE EXCEPT ![Receiver(c)] = pf2]
      /\ kind[c] = "upload" => repo' = T2 /\ local' = local
      /\ kind[c] # "upload" => local' = [local EXCEPT ![c] = T2] /\ repo' = repo
  BY <1>1 DEF Received
<1>5. TypesInv'
  <2>1. Tail(channel[c]) \in Seq(Packet)
    BY <1>4 DEF Moving, ChannelOK
  <2>2. channel' \in [Client -> Seq(Packet)]
    BY <1>2, <1>3, <2>1 DEF TypesInv
  <2>3. local' \in [Client -> Directory] /\ repo' \in Directory
    BY <1>2, <1>4 DEF TypesInv
  <2>4. pFILE' \in [Client \cup {FileServer} -> PFile]
    BY <1>2, <1>4 DEF TypesInv
  <2> QED
    BY <1>2, <1>3, <2>2, <2>3, <2>4 DEF TypesInv
<1>6. FilesInv' /\ AloneInv'
  BY <1>2, <1>3 DEF FilesInv, AloneInv
<1>7. ASSUME NEW d \in Client, d # c, pc[d] # "idle"
      PROVE  /\ kind[c] # "upload" /\ repo' = repo /\ local'[d] = local[d]
             /\ Receiver(c) = c /\ (pc[d] = "moving" => kind[d] = "download" /\ Receiver(d) = d)
  <2>1. kind[c] # "upload"
    BY <1>2, <1>3, <1>7 DEF AloneInv
  <2>2. pc[d] = "moving" => kind[d] = "download"
    BY <1>2, <1>3, <1>7 DEF AloneInv, TypesInv
  <2> QED
    BY <1>2, <1>4, <1>7, <2>1, <2>2 DEF Receiver, TypesInv
<1>8. KnownInv'
  <2> SUFFICES ASSUME NEW d \in Client
               PROVE  /\ pc'[d] = "known" => IsDiff(diff'[d], Sums(local'[d]), Sums(repo'))
                      /\ ToSet(diff'[d]) \subseteq DiffEntry
    BY DEF KnownInv
  <2>1. ASSUME pc'[d] = "known" PROVE IsDiff(diff'[d], Sums(local'[d]), Sums(repo'))
    <3>1. d # c /\ pc[d] = "known"
      BY <1>3, <2>1
    <3>2. repo' = repo /\ local'[d] = local[d]
      BY <1>7, <3>1
    <3> QED
      BY <1>2, <1>3, <3>1, <3>2 DEF KnownInv
  <2> QED
    BY <1>2, <1>3, <2>1 DEF KnownInv
<1>9. MovingInv'
  <2> SUFFICES ASSUME NEW d \in Client
               PROVE  IF pc'[d] = "moving"
                      THEN Moving(Source(d), Target(d), diff[d], Sent(kind[d]), todo[d], channel[d],
                                  pFILE[Receiver(d)])'
                      ELSE channel'[d] = <<>> /\ todo'[d] = <<>>
    BY DEF MovingInv
  <2>1. CASE d = c
    <3>1. channel'[c] = Tail(channel[c]) /\ todo'[c] = todo[c] /\ pc'[c] = "moving"
          /\ diff'[c] = diff[c]
      BY <1>2, <1>3 DEF TypesInv
    <3>2. /\ Source(c)' = Source(c) /\ Target(c)' = T2
          /\ Receiver(c)' = Receiver(c) /\ Sent(kind[c])' = Sent(kind[c])
      BY <1>2, <1>3, <1>4 DEF Source, Target, Receiver, Sent, TypesInv
    <3>3. pFILE'[Receiver(c)] = pf2
      BY <1>2, <1>4 DEF Receiver, TypesInv
    <3> QED
      BY <1>4, <2>1, <3>1, <3>2, <3>3
  <2>2. CASE d # c
    <3>1. /\ channel'[d] = channel[d] /\ todo'[d] = todo[d]
          /\ pc'[d] = pc[d] /\ kind'[d] = kind[d] /\ diff'[d] = diff[d]
      BY <1>2, <1>3, <2>2 DEF TypesInv
    <3>2. ASSUME pc[d] = "moving"
          PROVE  /\ Source(d)' = Source(d) /\ Target(d)' = Target(d)
                 /\ pFILE'[Receiver(d)] = pFILE[Receiver(d)]
      <4>1. /\ kind[d] = "download" /\ Receiver(d) = d /\ Receiver(c) = c
            /\ repo' = repo /\ local'[d] = local[d]
        BY <1>7, <2>2, <3>2
      <4>2. pFILE'[d] = pFILE[d]
        BY <1>2, <1>4, <2>2, <4>1 DEF TypesInv
      <4> QED
        BY <3>1, <4>1, <4>2 DEF Source, Target
    <3> QED
      BY <1>2, <3>1, <3>2, Undisturbed
  <2> QED
    BY <2>1, <2>2
<1> QED
  BY <1>5, <1>6, <1>8, <1>9 DEF TransferInv

LEMMA QuitKeeps ==
    ASSUME TransferInv, AskedInv', NEW c \in Client, Quit(c)
    PROVE  TransferInv'
<1>1. /\ pc[c] = "moving" /\ pc' = [pc EXCEPT ![c] = "idle"]
      /\ todo' = [todo EXCEPT ![c] = <<>>] /\ channel' = [channel EXCEPT ![c] = <<>>]
      /\ pFILE' = [pFILE EXCEPT ![c] = Closed]
      /\ files' = [files EXCEPT ![c] = <<>>] /\ diff' = [diff EXCEPT ![c] = <<>>]
      /\ UNCHANGED <<local, repo, kind>>
  BY DEF Quit
<1>2. AskedInv /\ TypesInv /\ FilesInv /\ AloneInv /\ KnownInv /\ MovingInv
  BY DEF TransferInv
<1>3. TypesInv'
  <2>1. Closed \in PFile
    BY EmptyFile DEF Closed, PFile
  <2> QED
    BY <1>1, <1>2, <2>1 DEF TypesInv
<1>4. FilesInv' /\ AloneInv' /\ KnownInv'
  <2>1. \A d \in Client : /\ files'[d] = <<>> \/ files'[d] = files[d]
                          /\ diff'[d] = <<>> \/ (diff'[d] = diff[d] /\ d # c)
                          /\ pc'[d] = "idle" \/ (pc'[d] = pc[d] /\ d # c /\ diff'[d] = diff[d])
    BY <1>1, <1>2 DEF AskedInv, TypesInv
  <2>2. \A e : e \notin ToSet(<<>>)
    BY DEF ToSet
  <2>3. FilesInv'
    BY <1>2, <2>1, <2>2 DEF FilesInv
  <2>4. AloneInv'
    BY <1>1, <1>2, <2>1 DEF AloneInv
  <2>5. KnownInv'
    BY <1>1, <1>2, <2>1, <2>2 DEF KnownInv
  <2> QED
    BY <2>3, <2>4, <2>5
<1>5. MovingInv'
  <2> SUFFICES ASSUME NEW d \in Client
               PROVE  IF pc'[d] = "moving"
                      THEN Moving(Source(d), Target(d), diff[d], Sent(kind[d]), todo[d], channel[d],
                                  pFILE[Receiver(d)])'
                      ELSE channel'[d] = <<>> /\ todo'[d] = <<>>
    BY DEF MovingInv
  <2>1. CASE d = c
    <3>1. pc'[c] = "idle" /\ channel'[c] = <<>> /\ todo'[c] = <<>>
      BY <1>1, <1>2 DEF TypesInv
    <3> QED
      BY <2>1, <3>1
  <2>2. CASE d # c
    <3>1. /\ channel'[d] = channel[d] /\ todo'[d] = todo[d]
          /\ pc'[d] = pc[d] /\ kind'[d] = kind[d] /\ diff'[d] = diff[d]
          /\ Source(d)' = Source(d) /\ Target(d)' = Target(d)
      BY <1>1, <1>2, <2>2 DEF AskedInv, TypesInv, Source, Target
    <3>2. ASSUME pc[d] = "moving" PROVE pFILE'[Receiver(d)] = pFILE[Receiver(d)]
      <4>1. kind[d] = "download"
        BY <1>1, <1>2, <2>2, <3>2 DEF AloneInv, TypesInv
      <4> QED
        BY <1>1, <1>2, <2>2, <4>1 DEF Receiver, TypesInv
    <3> QED
      BY <1>2, <3>1, <3>2, Undisturbed
  <2> QED
    BY <2>1, <2>2
<1> QED
  BY <1>3, <1>4, <1>5 DEF TransferInv

LEMMA TransferStep ==
    ASSUME ~Overlap, SamePath, BinaryPiece \notin Piece, TransferInv, AskedInv', [Next]_vars
    PROVE  TransferInv'
<1>1. CASE UNCHANGED vars
  <2>1. UNCHANGED <<local, repo, files, diff, kind, pc, todo, channel, pFILE>>
    BY <1>1 DEF vars, status, transfer
  <2>2. TypesInv' /\ FilesInv' /\ AloneInv' /\ KnownInv'
    BY <2>1 DEF TransferInv, TypesInv, FilesInv, AloneInv, KnownInv
  <2>3. MovingInv'
    <3> SUFFICES ASSUME NEW d \in Client
                 PROVE  IF pc'[d] = "moving"
                        THEN Moving(Source(d), Target(d), diff[d], Sent(kind[d]), todo[d], channel[d],
                                    pFILE[Receiver(d)])'
                        ELSE channel'[d] = <<>> /\ todo'[d] = <<>>
      BY DEF MovingInv
    <3>1. Source(d)' = Source(d) /\ Target(d)' = Target(d)
      BY <2>1 DEF Source, Target
    <3> QED
      BY <2>1, <3>1, Undisturbed DEF TransferInv
  <2> QED
    BY <2>2, <2>3 DEF TransferInv
<1>2. ASSUME NEW c \in Client, Status(c) PROVE TransferInv'
  BY <1>2, StatusKeeps
<1>3. ASSUME NEW c \in Client, FsStatus(c) PROVE TransferInv'
  BY <1>3, FsStatusKeeps
<1>4. ASSUME NEW c \in Client, NEW k \in {"upload", "download"}, Start(c, k) PROVE TransferInv'
  BY <1>4, StartKeeps
<1>5. ASSUME NEW c \in Client, SendFile(c) PROVE TransferInv'
  BY <1>5, SendFileKeeps
<1>6. ASSUME NEW c \in Client, OnMessage(c) PROVE TransferInv'
  BY <1>6, OnMessageKeeps
<1>7. ASSUME NEW c \in Client, Quit(c) PROVE TransferInv'
  BY <1>7, QuitKeeps
<1> QED
  BY <1>1, <1>2, <1>3, <1>4, <1>5, <1>6, <1>7 DEF Next

LEMMA TransferInvHolds ==
    ASSUME ~Overlap, SamePath, BinaryPiece \notin Piece PROVE Spec => []TransferInv
<1>1. TransferInv /\ AskedInv' /\ [Next]_vars => TransferInv'
  BY TransferStep
<1> QED
  BY <1>1, InitTransfer, AskedInvHolds, PTL DEF Spec

LEMMA InvTypes == TransferInv => TypeOK
<1> SUFFICES ASSUME TransferInv PROVE TypeOK
  OBVIOUS
<1>1. TypesInv /\ FilesInv /\ KnownInv
  BY DEF TransferInv
<1>2. ASSUME NEW c \in Client, NEW e \in ToSet(diff[c]) \cup ToSet(todo[c])
      PROVE  e.filename \in Name /\ e.dirty \in Dirty
  <2>1. todo[c] \in Seq(DiffEntry)
    BY <1>1 DEF TypesInv
  <2>2. ToSet(todo[c]) \subseteq DiffEntry
    BY <2>1 DEF ToSet
  <2>3. e \in DiffEntry
    BY <1>1, <2>2 DEF KnownInv
  <2> QED
    BY <2>3 DEF DiffEntry
<1>3. ASSUME NEW c \in Client, NEW p \in ToSet(channel[c])
      PROVE  p.index \in {"first", "next", "last"}
  <2>1. channel[c] \in Seq(Packet)
    BY <1>1 DEF TypesInv
  <2>2. p \in Packet
    BY <2>1 DEF ToSet
  <2> QED
    BY <2>2 DEF Packet
<1>4. \A p \in DOMAIN pFILE : pFILE[p].name \in Name \cup {Absent} /\ pFILE[p].written \in File
  BY <1>1 DEF TypesInv, PFile
<1> QED
  BY <1>1, <1>2, <1>3, <1>4 DEF TypeOK, TypesInv, FilesInv

\* Every variable has its type; a file never gets longer than the one it
\* is a copy of.
THEOREM TypeCorrect ==
    ASSUME ~Overlap, SamePath, BinaryPiece \notin Piece PROVE Spec => []TypeOK
BY TransferInvHolds, InvTypes, PTL

LEMMA InvTransferred == TransferInv => Transferred
<1> SUFFICES ASSUME TransferInv, NEW c \in Client, Done(c), Len(diff[c]) < 256, NEW n \in Name, Source(c)[n] # Absent
             PROVE  Settled(Source(c), Target(c), diff[c], n)
  BY DEF Transferred, Settled
<1>1. pc[c] = "moving" /\ todo[c] = <<>> /\ channel[c] = <<>>
  BY DEF Done
<1>2. NothingForgotten(Source(c), Target(c), diff[c], <<>>, <<>>, pFILE[Receiver(c)])
  BY <1>1 DEF TransferInv, MovingInv, Moving
<1>3. ~InTodo(<<>>, n) /\ ~OnItsWay(<<>>, n) /\ ~InFile(<<>>)
  BY DEF InTodo, OnItsWay, InFile
<1> QED
  BY <1>2, <1>3 DEF NothingForgotten

\* A transfer of up to 255 entries that is done has brought over every file
\* of its sender but those of which the receiver had one of the same length,
\* for any number of clients, files and pieces, after any number of transfers
\* that broke off, if no upload overlaps with what other clients do, the
\* program works in LOCAL_REPO_PATH and no piece has a NUL in it.
THEOREM TransferredHolds ==
    ASSUME ~Overlap, SamePath, BinaryPiece \notin Piece PROVE Spec => []Transferred
BY TransferInvHolds, InvTransferred, PTL

=================================================================================
