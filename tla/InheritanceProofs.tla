------------------------- MODULE InheritanceProofs -------------------------
(***************************************************************************)
(* Proofs about Inheritance, for any threads, objects, names and bounds:   *)
(* what a resolution cache answers is what a walk over the transaction's   *)
(* view would find, parents stay a forest, and names stay unique along a   *)
(* line.  The first sections are about walks up a tree, searches along     *)
(* them, and what an edit of the tree changes of both; then come the       *)
(* inductive invariant, one lemma per edit, lookup and step of a           *)
(* transaction, and the theorems.                                          *)
(***************************************************************************)
EXTENDS Inheritance, LeastNumbers, SequenceTheorems

\* A walk takes at most as many steps as there are objects
Depth == Cardinality(Objects)

\* f lists the first N steps of a walk from o
Climbing(f, edge, o, N) ==
  f = [k \in 0..N |-> IF k = 0 THEN o
                      ELSE IF f[k - 1] = Nothing THEN Nothing ELSE edge[f[k - 1]]]

\* Where a walk may start or end up
Place == Objects \union {Nothing}

\* There is at least one object, #0
LEMMA DepthType == Depth \in Nat /\ Depth >= 1
<1>1. IsFiniteSet(Objects) /\ SystemObject \in Objects  BY InheritanceConstants
<1>2. Depth \in Nat  BY <1>1, FS_CardinalityType DEF Depth
<1>3. Depth # 0  BY <1>1, FS_EmptySet DEF Depth
<1> QED BY <1>2, <1>3

\* Walks of every length exist
LEMMA ClimbingExists ==
  ASSUME NEW edge, NEW o, NEW N \in Nat
  PROVE  \E f : Climbing(f, edge, o, N)
<1> DEFINE H(f, n) == f = [k \in 0..n |-> IF k = 0 THEN o
                      ELSE IF f[k - 1] = Nothing THEN Nothing ELSE edge[f[k - 1]]]
           T == {n \in Nat : ~\E f : H(f, n)}
<1> SUFFICES ASSUME T # {} PROVE FALSE  BY DEF Climbing
<1>1. PICK n \in T : \A m \in T : n <= m
  <2>1. T \in SUBSET Nat  OBVIOUS
  <2> HIDE DEF T
  <2> QED BY <2>1, LeastNumber
<1>2. n # 0
  <2>1. H([k \in 0..0 |-> o], 0)  OBVIOUS
  <2> QED BY <2>1
<1>3. n - 1 \in Nat /\ n - 1 \notin T  BY <1>1, <1>2
<1>4. PICK f : H(f, n - 1)  BY <1>3
<1> DEFINE g == [k \in 0..n |-> IF k < n THEN f[k]
                 ELSE IF f[n - 1] = Nothing THEN Nothing ELSE edge[f[n - 1]]]
<1>5. H(g, n)
  <2>1. \A k \in 0..n : g[k] = IF k = 0 THEN o
                 ELSE IF g[k - 1] = Nothing THEN Nothing ELSE edge[g[k - 1]]
    <3> TAKE k \in 0..n
    <3>1. CASE k = n
      <4>1. g[n - 1] = f[n - 1] /\ n # 0  BY <1>2
      <4> QED BY <3>1, <4>1
    <3>2. CASE k < n
      <4>1. g[k] = f[k]  BY <3>2
      <4>2. k # 0 => g[k - 1] = f[k - 1]  BY <3>2
      <4>3. f[k] = IF k = 0 THEN o
                 ELSE IF f[k - 1] = Nothing THEN Nothing ELSE edge[f[k - 1]]
        BY <1>4, <3>2
      <4> QED BY <4>1, <4>2, <4>3
    <3> QED BY <3>1, <3>2
  <2> QED BY <2>1
<1> QED BY <1>1, <1>5

\* A walk starts at o, follows the edges, and stays where there is nothing
LEMMA ClimbIs ==
  ASSUME NEW e \in Edge, NEW o \in Place
  PROVE  /\ Climb(e, o) \in [0..Depth -> Place]
         /\ Climb(e, o)[0] = o
         /\ \A k \in 1..Depth : Climb(e, o)[k] =
              IF Climb(e, o)[k - 1] = Nothing THEN Nothing ELSE e[Climb(e, o)[k - 1]]
<1> DEFINE c == Climb(e, o)
<1>1. Climbing(c, e, o, Depth)
  <2>1. c = CHOOSE f : Climbing(f, e, o, Depth)  BY DEF Climb, Climbing, Depth
  <2> HIDE DEF c
  <2> QED BY <2>1, ClimbingExists, DepthType
<1>2. c = [k \in 0..Depth |-> IF k = 0 THEN o
             ELSE IF c[k - 1] = Nothing THEN Nothing ELSE e[c[k - 1]]]
  BY <1>1 DEF Climbing
<1> HIDE DEF c
<1>3. c[0] = o  BY <1>2, DepthType
<1>4. \A k \in 1..Depth : c[k] = IF c[k - 1] = Nothing THEN Nothing ELSE e[c[k - 1]]
  BY <1>2, DepthType
<1> DEFINE T == {k \in 0..Depth : c[k] \notin Place}
<1>5. T = {}
  <2> SUFFICES ASSUME T # {} PROVE FALSE  OBVIOUS
  <2>1. PICK k \in T : \A m \in T : k <= m
    <3>1. T \in SUBSET Nat  BY DepthType
    <3> HIDE DEF T
    <3> QED BY <3>1, LeastNumber
  <2>2. k # 0  BY <1>3, <2>1
  <2>3. k \in 1..Depth /\ k - 1 \in 0..Depth /\ k - 1 \notin T  BY <2>1, <2>2, DepthType
  <2>4. c[k - 1] \in Place /\ c[k] \notin Place  BY <2>1, <2>3
  <2>5. c[k] \in Place  BY <1>4, <2>3, <2>4 DEF Edge, Place
  <2> QED BY <2>4, <2>5
<1>6. c \in [0..Depth -> Place]
  <2>1. DOMAIN c = 0..Depth /\ c = [k \in 0..Depth |-> c[k]]  BY <1>2
  <2> QED BY <1>5, <2>1
<1> QED BY <1>3, <1>4, <1>6 DEF c

\* A walk that has ended stays ended
LEMMA ClimbStays ==
  ASSUME NEW e \in Edge, NEW o \in Place, NEW i \in 0..Depth, NEW j \in i..Depth,
         Climb(e, o)[i] = Nothing
  PROVE  Climb(e, o)[j] = Nothing
<1> DEFINE c == Climb(e, o)
           T == {k \in i..Depth : c[k] # Nothing}
<1>1. \A k \in 1..Depth : c[k] = IF c[k - 1] = Nothing THEN Nothing ELSE e[c[k - 1]]
  BY ClimbIs
<1>2. c[i] = Nothing  OBVIOUS
<1> HIDE DEF c
<1> SUFFICES ASSUME T # {} PROVE FALSE  BY DEF c
<1>3. PICK k \in T : \A m \in T : k <= m
  <2>1. T \in SUBSET Nat  BY DepthType
  <2> HIDE DEF T
  <2> QED BY <2>1, LeastNumber
<1>4. k # i /\ k \in i..Depth  BY <1>2, <1>3
<1>5. k \in 1..Depth /\ k - 1 \in i..Depth /\ k - 1 \notin T  BY <1>3, <1>4, DepthType
<1>6. c[k - 1] = Nothing  BY <1>5
<1> QED BY <1>1, <1>3, <1>5, <1>6

\* A walk from the m-th place of a walk is the rest of that walk
LEMMA ClimbShift ==
  ASSUME NEW e \in Edge, NEW o \in Place, NEW m \in 0..Depth, NEW k \in 0..(Depth - m)
  PROVE  Climb(e, Climb(e, o)[m])[k] = Climb(e, o)[m + k]
<1> DEFINE c == Climb(e, o)
           d == Climb(e, c[m])
           T == {n \in 0..(Depth - m) : d[n] # c[m + n]}
<1>1. c[m] \in Place  BY ClimbIs
<1>2. \A n \in 1..Depth : c[n] = IF c[n - 1] = Nothing THEN Nothing ELSE e[c[n - 1]]
  BY ClimbIs
<1>3. d[0] = c[m] /\ \A n \in 1..Depth : d[n] = IF d[n - 1] = Nothing THEN Nothing ELSE e[d[n - 1]]
  BY <1>1, ClimbIs
<1> HIDE DEF c, d
<1> SUFFICES ASSUME T # {} PROVE FALSE  BY DEF c, d
<1>4. PICK n \in T : \A l \in T : n <= l
  <2>1. T \in SUBSET Nat  BY DepthType
  <2> HIDE DEF T
  <2> QED BY <2>1, LeastNumber
<1>5. n # 0  BY <1>3, <1>4, DepthType
<1>6. /\ n \in 1..Depth /\ n - 1 \in 0..(Depth - m) /\ n - 1 \notin T
      /\ m + n \in 1..Depth /\ m + (n - 1) = (m + n) - 1
  BY <1>4, <1>5, DepthType
<1>7. d[n - 1] = c[(m + n) - 1]  BY <1>6
<1>8. d[n] = c[m + n]  BY <1>2, <1>3, <1>6, <1>7
<1> QED BY <1>4, <1>8

\* A line lists the places of the walk up to where it ends
LEMMA LineIs ==
  ASSUME NEW e \in Edge, NEW o \in Objects
  PROVE  \E h \in 1..Depth :
           /\ Line(e, o) \in Seq(Objects) /\ Len(Line(e, o)) = h /\ DOMAIN Line(e, o) = 1..h
           /\ Line(e, o)[1] = o
           /\ \A k \in 1..h : Line(e, o)[k] = Climb(e, o)[k - 1]
           /\ \A k \in 0..(Depth - 1) : Climb(e, o)[k] # Nothing <=> k + 1 <= h
<1> DEFINE c == Climb(e, o)
           D == {j \in 1..Depth : c[j - 1] # Nothing}
           l == Line(e, o)
<1>1. o \in Place /\ o # Nothing  BY InheritanceConstants DEF Place
<1>2. c \in [0..Depth -> Place] /\ c[0] = o  BY <1>1, ClimbIs
<1>3. \A i \in 0..Depth : \A j \in i..Depth : c[i] = Nothing => c[j] = Nothing
  BY <1>1, ClimbStays
<1>4. l = [k \in D |-> c[k - 1]]  BY DEF Line, Depth
<1> HIDE DEF c, l
<1>5. 1 \in D  BY <1>1, <1>2, DepthType
<1>6. PICK h \in D : \A m \in D : m <= h
  <2>1. D \in SUBSET Int /\ D # {} /\ Depth \in Int /\ \A n \in D : n <= Depth
    BY <1>5, DepthType
  <2> HIDE DEF D
  <2> QED BY <2>1, LargestNumber
<1>7. h \in 1..Depth /\ c[h - 1] # Nothing  BY <1>6
<1>8. D = 1..h
  <2>1. ASSUME NEW j \in 1..h PROVE j \in D
    <3>1. j - 1 \in 0..Depth /\ h - 1 \in (j - 1)..Depth /\ j \in 1..Depth  BY <1>7, DepthType
    <3>2. c[j - 1] # Nothing  BY <1>3, <1>7, <3>1
    <3> QED BY <3>1, <3>2
  <2>2. ASSUME NEW j \in D PROVE j \in 1..h  BY <1>6, <1>7, DepthType
  <2> QED BY <2>1, <2>2
<1>9. \A k \in 1..h : c[k - 1] \in Objects
  <2> TAKE k \in 1..h
  <2>1. k \in D  BY <1>8
  <2>2. k \in 1..Depth /\ c[k - 1] # Nothing  BY <2>1
  <2>3. k - 1 \in 0..Depth  BY <2>2, DepthType
  <2> QED BY <1>2, <2>2, <2>3 DEF Place
<1>10. h \in Nat /\ 1 \in 1..h  BY <1>7, DepthType
<1>11. \A k \in 0..(Depth - 1) : c[k] # Nothing <=> k + 1 <= h
  <2> TAKE k \in 0..(Depth - 1)
  <2>1. k + 1 \in 1..Depth /\ (k + 1) - 1 = k  BY DepthType
  <2>2. k + 1 \in D <=> c[k] # Nothing  BY <2>1
  <2> QED BY <1>8, <1>10, <2>1, <2>2
<1>12. l = [k \in 1..h |-> c[k - 1]]  BY <1>4, <1>8
<1> HIDE DEF D
<1>13. l \in [1..h -> Objects] /\ DOMAIN l = 1..h /\ \A k \in 1..h : l[k] = c[k - 1]
  BY <1>9, <1>12
<1>14. l \in Seq(Objects) /\ Len(l) = h  BY <1>10, <1>13
<1>15. l[1] = o  BY <1>2, <1>10, <1>13
<1> QED BY <1>7, <1>11, <1>13, <1>14, <1>15 DEF c, l

\* What is on a line
LEMMA OnLine ==
  ASSUME NEW e \in Edge, NEW o \in Objects
  PROVE  /\ ToSet(Line(e, o)) = {Climb(e, o)[k] : k \in 0..(Depth - 1)} \ {Nothing}
         /\ o \in ToSet(Line(e, o)) /\ ToSet(Line(e, o)) \subseteq Objects
<1> DEFINE c == Climb(e, o)
           l == Line(e, o)
<1>1. PICK h \in 1..Depth :
           /\ l \in Seq(Objects) /\ Len(l) = h /\ DOMAIN l = 1..h /\ l[1] = o
           /\ \A k \in 1..h : l[k] = c[k - 1]
           /\ \A k \in 0..(Depth - 1) : c[k] # Nothing <=> k + 1 <= h
  BY LineIs
<1> HIDE DEF c, l
<1>2. 1 \in 1..h /\ h \in Nat /\ h <= Depth  BY <1>1, DepthType
<1>3. ToSet(l) \subseteq Objects /\ o \in ToSet(l)  BY <1>1, <1>2 DEF ToSet
<1>4. ASSUME NEW y \in ToSet(l) PROVE y \in {c[k] : k \in 0..(Depth - 1)} \ {Nothing}
  <2>1. PICK i \in 1..h : y = l[i]  BY <1>1 DEF ToSet
  <2>2. i - 1 \in 0..(Depth - 1) /\ y = c[i - 1]  BY <1>1, <1>2, <2>1, DepthType
  <2>3. y # Nothing  BY <1>3, InheritanceConstants
  <2> QED BY <2>2, <2>3
<1>5. ASSUME NEW k \in 0..(Depth - 1), c[k] # Nothing PROVE c[k] \in ToSet(l)
  <2>1. k + 1 \in 1..h  BY <1>1, <1>2, <1>5, DepthType
  <2>2. l[k + 1] = c[(k + 1) - 1] /\ (k + 1) - 1 = k  BY <1>1, <2>1, DepthType
  <2> QED BY <1>1, <2>1, <2>2 DEF ToSet
<1>6. ToSet(l) = {c[k] : k \in 0..(Depth - 1)} \ {Nothing}  BY <1>4, <1>5
<1> QED BY <1>3, <1>6 DEF c, l

\* A walk does not notice changes of edges it does not take
LEMMA LineLocal ==
  ASSUME NEW e \in Edge, NEW e2 \in Edge, NEW x \in Objects,
         \A y \in ToSet(Line(e, x)) : e2[y] = e[y]
  PROVE  Climb(e2, x) = Climb(e, x) /\ Line(e2, x) = Line(e, x)
<1> DEFINE c == Climb(e, x)
           d == Climb(e2, x)
           T == {k \in 0..Depth : d[k] # c[k]}
<1>1. /\ c \in [0..Depth -> Place] /\ c[0] = x
      /\ \A k \in 1..Depth : c[k] = IF c[k - 1] = Nothing THEN Nothing ELSE e[c[k - 1]]
  BY ClimbIs DEF Place
<1>2. /\ d \in [0..Depth -> Place] /\ d[0] = x
      /\ \A k \in 1..Depth : d[k] = IF d[k - 1] = Nothing THEN Nothing ELSE e2[d[k - 1]]
  BY ClimbIs DEF Place
<1>3. \A k \in 0..(Depth - 1) : c[k] # Nothing => e2[c[k]] = e[c[k]]  BY OnLine
<1> HIDE DEF c, d
<1>4. T = {}
  <2> SUFFICES ASSUME T # {} PROVE FALSE  OBVIOUS
  <2>1. PICK k \in T : \A m \in T : k <= m
    <3>1. T \in SUBSET Nat  BY DepthType
    <3> HIDE DEF T
    <3> QED BY <3>1, LeastNumber
  <2>2. k # 0  BY <1>1, <1>2, <2>1
  <2>3. /\ k \in 1..Depth /\ k - 1 \in 0..Depth /\ k - 1 \in 0..(Depth - 1) /\ k - 1 \notin T
    BY <2>1, <2>2, DepthType
  <2>4. d[k - 1] = c[k - 1]  BY <2>3
  <2> QED BY <1>1, <1>2, <1>3, <2>1, <2>3, <2>4
<1>5. d = c
  <2>1. \A k \in 0..Depth : d[k] = c[k]  BY <1>4
  <2>2. c = [k \in 0..Depth |-> c[k]] /\ d = [k \in 0..Depth |-> d[k]]  BY <1>1, <1>2
  <2>3. [k \in 0..Depth |-> d[k]] = [k \in 0..Depth |-> c[k]]  BY <2>1
  <2> QED BY <2>2, <2>3
<1> QED BY <1>5 DEF Line, c, d

\* A walk that starts in a set it cannot leave stays in it
LEMMA LineWithin ==
  ASSUME NEW e \in Edge, NEW S \in SUBSET Objects, NEW x \in S,
         \A y \in S : e[y] \in S \union {Nothing}
  PROVE  ToSet(Line(e, x)) \subseteq S
<1> DEFINE c == Climb(e, x)
           T == {k \in 0..Depth : c[k] \notin S \union {Nothing}}
<1>1. /\ c[0] = x
      /\ \A k \in 1..Depth : c[k] = IF c[k - 1] = Nothing THEN Nothing ELSE e[c[k - 1]]
  BY ClimbIs DEF Place
<1>2. ToSet(Line(e, x)) = {c[k] : k \in 0..(Depth - 1)} \ {Nothing}  BY OnLine
<1> HIDE DEF c
<1>3. T = {}
  <2> SUFFICES ASSUME T # {} PROVE FALSE  OBVIOUS
  <2>1. PICK k \in T : \A m \in T : k <= m
    <3>1. T \in SUBSET Nat  BY DepthType
    <3> HIDE DEF T
    <3> QED BY <3>1, LeastNumber
  <2>2. k # 0  BY <1>1, <2>1
  <2>3. k \in 1..Depth /\ k - 1 \in 0..Depth /\ k - 1 \notin T  BY <2>1, <2>2, DepthType
  <2>4. c[k - 1] \in S \union {Nothing}  BY <2>3
  <2> QED BY <1>1, <2>1, <2>3, <2>4
<1>4. \A k \in 0..(Depth - 1) : c[k] \in S \union {Nothing}  BY <1>3, DepthType
<1> QED BY <1>2, <1>4

\* In a forest, the parent of what is on a line is on it too
LEMMA NextOnLine ==
  ASSUME NEW e \in Edge, Acyclic(e), NEW x \in Objects, NEW y \in ToSet(Line(e, x))
  PROVE  e[y] \in ToSet(Line(e, x)) \union {Nothing}
<1> DEFINE c == Climb(e, x)
<1>1. \A k \in 1..Depth : c[k] = IF c[k - 1] = Nothing THEN Nothing ELSE e[c[k - 1]]
  BY ClimbIs DEF Place
<1>2. ToSet(Line(e, x)) = {c[k] : k \in 0..(Depth - 1)} \ {Nothing}  BY OnLine
<1>3. c[Depth] = Nothing  BY DEF Acyclic, Depth
<1> HIDE DEF c
<1>4. PICK k \in 0..(Depth - 1) : y = c[k] /\ y # Nothing  BY <1>2
<1>5. k + 1 \in 1..Depth /\ (k + 1) - 1 = k /\ (k + 1 = Depth \/ k + 1 \in 0..(Depth - 1))
  BY DepthType
<1>6. c[k + 1] = e[y]  BY <1>1, <1>4, <1>5
<1> QED BY <1>2, <1>3, <1>5, <1>6

\* ... and so is everything above it
LEMMA LineAbove ==
  ASSUME NEW e \in Edge, Acyclic(e), NEW x \in Objects, NEW y \in ToSet(Line(e, x))
  PROVE  y \in Objects /\ ToSet(Line(e, y)) \subseteq ToSet(Line(e, x))
<1>1. ToSet(Line(e, x)) \in SUBSET Objects  BY OnLine
<1>2. \A z \in ToSet(Line(e, x)) : e[z] \in ToSet(Line(e, x)) \union {Nothing}  BY NextOnLine
<1> QED BY <1>1, <1>2, LineWithin

\* Of two objects on one line, one is above the other
LEMMA Comparable ==
  ASSUME NEW e \in Edge, NEW x \in Objects, NEW a \in ToSet(Line(e, x)), NEW b \in ToSet(Line(e, x))
  PROVE  a \in ToSet(Line(e, b)) \/ b \in ToSet(Line(e, a))
<1> DEFINE c == Climb(e, x)
<1>1. ToSet(Line(e, x)) = {c[k] : k \in 0..(Depth - 1)} \ {Nothing} /\ x \in Place
      /\ ToSet(Line(e, x)) \subseteq Objects
  BY OnLine DEF Place
<1>2. PICK i \in 0..(Depth - 1), j \in 0..(Depth - 1) : a = c[i] /\ b = c[j]  BY <1>1
<1>3. \A m \in 0..Depth : \A k \in 0..(Depth - m) : Climb(e, c[m])[k] = c[m + k]
  BY <1>1, ClimbShift
<1> HIDE DEF c
<1>4. ASSUME NEW m \in 0..(Depth - 1), NEW n \in 0..(Depth - 1), m <= n,
             c[m] \in Objects, c[n] \in Objects
      PROVE  c[n] \in ToSet(Line(e, c[m]))
  <2>1. n - m \in 0..(Depth - m) /\ m + (n - m) = n /\ m \in 0..Depth /\ n - m \in 0..(Depth - 1)
    BY <1>4, DepthType
  <2>2. Climb(e, c[m])[n - m] = c[n]  BY <1>3, <2>1
  <2>3. c[n] # Nothing  BY <1>4, InheritanceConstants
  <2>4. ToSet(Line(e, c[m])) = {Climb(e, c[m])[k] : k \in 0..(Depth - 1)} \ {Nothing}
    BY <1>4, OnLine
  <2> QED BY <2>1, <2>2, <2>3, <2>4
<1>5. i <= j \/ j <= i  BY DepthType
<1>6. c[i] \in Objects /\ c[j] \in Objects  BY <1>1, <1>2
<1>7. CASE i <= j
  <2>1. c[j] \in ToSet(Line(e, c[i]))  BY <1>4, <1>6, <1>7
  <2> QED BY <1>2, <2>1
<1>8. CASE j <= i
  <2>1. c[i] \in ToSet(Line(e, c[j]))  BY <1>4, <1>6, <1>8
  <2> QED BY <1>2, <2>1
<1> QED BY <1>5, <1>7, <1>8

\* In a forest, the line of an object on a line is the rest of that line
LEMMA LineTail ==
  ASSUME NEW e \in Edge, Acyclic(e), NEW o \in Objects, NEW i \in 1..Len(Line(e, o))
  PROVE  /\ Line(e, o)[i] \in Objects
         /\ Len(Line(e, Line(e, o)[i])) = Len(Line(e, o)) - i + 1
         /\ \A k \in 1..Len(Line(e, Line(e, o)[i])) :
              Line(e, Line(e, o)[i])[k] = Line(e, o)[k + i - 1]
<1> DEFINE c == Climb(e, o)
           l == Line(e, o)
           a == l[i]
           d == Climb(e, a)
           r == Line(e, a)
<1>1. PICK h \in 1..Depth :
           /\ l \in Seq(Objects) /\ Len(l) = h /\ DOMAIN l = 1..h /\ l[1] = o
           /\ \A k \in 1..h : l[k] = c[k - 1]
           /\ \A k \in 0..(Depth - 1) : c[k] # Nothing <=> k + 1 <= h
  BY LineIs
<1>0. i \in 1..Len(l)  OBVIOUS
<1>2. a \in Objects
  <2> HIDE DEF l
  <2> QED BY <1>0, <1>1
<1>3. PICK g \in 1..Depth :
           /\ r \in Seq(Objects) /\ Len(r) = g /\ DOMAIN r = 1..g /\ r[1] = a
           /\ \A k \in 1..g : r[k] = d[k - 1]
           /\ \A k \in 0..(Depth - 1) : d[k] # Nothing <=> k + 1 <= g
  <2> HIDE DEF a
  <2> QED BY <1>2, LineIs
<1>4. i \in 1..h /\ a = c[i - 1] /\ i - 1 \in 0..Depth
  <2> HIDE DEF c, l
  <2>1. i \in 1..h  BY <1>0, <1>1
  <2> QED BY <1>1, <2>1, DepthType
<1>5. \A k \in 0..(Depth - (i - 1)) : d[k] = c[(i - 1) + k]
  <2>1. o \in Place  BY DEF Place
  <2>2. \A k \in 0..(Depth - (i - 1)) : Climb(e, c[i - 1])[k] = c[(i - 1) + k]
    BY <1>4, <2>1, ClimbShift
  <2> HIDE DEF c, l
  <2> QED BY <1>4, <2>2
<1>6. c[Depth] = Nothing  BY DEF Acyclic, Depth
<1>7. \A j \in 0..Depth : \A k \in j..Depth : d[j] = Nothing => d[k] = Nothing
  <2>1. a \in Place  BY <1>2 DEF Place
  <2> HIDE DEF a
  <2> QED BY <2>1, ClimbStays
<1> HIDE DEF c, d, a, l, r
<1>8. g <= h - i + 1
  <2> SUFFICES ASSUME g > h - i + 1 PROVE FALSE  BY <1>1, <1>3, <1>4, DepthType
  <2> DEFINE n == h - i + 1
  <2>1. n \in 0..(Depth - (i - 1)) /\ (i - 1) + n = h /\ n \in 0..Depth
        /\ g - 1 \in n..Depth /\ g - 1 \in 0..(Depth - 1) /\ (g - 1) + 1 <= g
    BY <1>1, <1>3, <1>4, DepthType
  <2>2. d[n] = c[h]  BY <1>5, <2>1
  <2>3. c[h] = Nothing
    <3>1. h = Depth \/ (h \in 0..(Depth - 1) /\ ~(h + 1 <= h))  BY <1>1, DepthType
    <3> QED BY <1>1, <1>6, <3>1
  <2>4. d[g - 1] # Nothing  BY <1>3, <2>1
  <2> HIDE DEF n
  <2> QED BY <1>7, <2>1, <2>2, <2>3, <2>4
<1>9. g >= h - i + 1
  <2> DEFINE n == h - i
  <2>1. n \in 0..(Depth - (i - 1)) /\ (i - 1) + n = h - 1 /\ n \in 0..(Depth - 1)
        /\ h - 1 \in 0..(Depth - 1) /\ (h - 1) + 1 <= h
    BY <1>1, <1>4, DepthType
  <2>2. d[n] = c[h - 1] /\ c[h - 1] # Nothing  BY <1>1, <1>5, <2>1
  <2>3. n + 1 <= g  BY <1>3, <2>1, <2>2
  <2> QED BY <2>3, <1>1, <1>3, <1>4, DepthType
<1>10. g = h - i + 1  BY <1>1, <1>3, <1>4, <1>8, <1>9, DepthType
<1>11. ASSUME NEW k \in 1..g PROVE r[k] = l[k + i - 1]
  <2>1. k - 1 \in 0..(Depth - (i - 1)) /\ (i - 1) + (k - 1) = (k + i - 1) - 1 /\ k + i - 1 \in 1..h
    BY <1>1, <1>3, <1>4, <1>10, DepthType
  <2>2. r[k] = d[k - 1] /\ l[k + i - 1] = c[(k + i - 1) - 1]  BY <1>1, <1>3, <2>1
  <2>3. d[k - 1] = c[(i - 1) + (k - 1)]  BY <1>5, <2>1
  <2> QED BY <2>1, <2>2, <2>3
<1> QED BY <1>1, <1>2, <1>3, <1>10, <1>11 DEF a, r, l

\* Edges that lower a rank form no cycle: a walk of Depth steps would meet some object twice
LEMMA RankedIsAcyclic ==
  ASSUME NEW e \in Edge, NEW r \in [Objects -> Int],
         \A x \in Objects : e[x] # Nothing => r[e[x]] < r[x]
  PROVE  Acyclic(e)
<1> SUFFICES ASSUME NEW x \in Objects, Climb(e, x)[Depth] # Nothing PROVE FALSE
  BY DEF Acyclic, Depth
<1> DEFINE c == Climb(e, x)
<1>1. x \in Place  BY DEF Place
<1>2. /\ c \in [0..Depth -> Place] /\ c[0] = x
      /\ \A k \in 1..Depth : c[k] = IF c[k - 1] = Nothing THEN Nothing ELSE e[c[k - 1]]
  BY <1>1, ClimbIs
<1>3. \A k \in 0..Depth : c[k] # Nothing
  <2>1. \A i \in 0..Depth : \A j \in i..Depth : c[i] = Nothing => c[j] = Nothing
    BY <1>1, ClimbStays
  <2>2. c[Depth] # Nothing /\ \A k \in 0..Depth : Depth \in k..Depth  BY DepthType
  <2> HIDE DEF c
  <2> QED BY <2>1, <2>2
<1> HIDE DEF c
<1>4. c \in [0..Depth -> Objects]  BY <1>2, <1>3 DEF Place
<1>5. PICK i, j \in 0..Depth : i # j /\ c[i] = c[j]
  <2>1. 0 \in Int /\ Depth \in Int  BY DepthType
  <2>2. IsFiniteSet(0..Depth) /\ Cardinality(0..Depth) = Depth + 1  BY <2>1, DepthType, FS_Interval
  <2>3. IsFiniteSet(Objects) /\ Cardinality(Objects) < Cardinality(0..Depth)
    BY <2>2, DepthType, InheritanceConstants DEF Depth
  <2> QED BY <1>4, <2>2, <2>3, FS_PigeonHole
<1>6. ASSUME NEW a \in 0..Depth, NEW b \in 0..Depth, a < b PROVE r[c[b]] < r[c[a]]
  <2> DEFINE T == {k \in (a + 1)..Depth : ~(r[c[k]] < r[c[a]])}
  <2>1. T = {}
    <3> SUFFICES ASSUME T # {} PROVE FALSE  OBVIOUS
    <3>1. PICK k \in T : \A m \in T : k <= m
      <4>1. T \in SUBSET Nat  BY DepthType
      <4> HIDE DEF T
      <4> QED BY <4>1, LeastNumber
    <3>2. k \in 1..Depth /\ k - 1 \in 0..Depth /\ (k - 1 = a \/ k - 1 \in (a + 1)..Depth)
      BY DepthType
    <3>3. k - 1 \notin T  BY <3>1, <3>2
    <3>4. c[k] = e[c[k - 1]] /\ c[k] # Nothing /\ c[k] \in Objects
          /\ c[k - 1] \in Objects /\ c[a] \in Objects
      BY <1>2, <1>3, <1>4, <3>2, DepthType
    <3>5. r[c[k]] < r[c[k - 1]]  BY <3>4
    <3>6. r[c[k]] \in Int /\ r[c[k - 1]] \in Int /\ r[c[a]] \in Int  BY <3>4
    <3>7. k - 1 = a \/ r[c[k - 1]] < r[c[a]]  BY <3>2, <3>3
    <3>8. r[c[k]] < r[c[a]]  BY <3>5, <3>6, <3>7
    <3> QED BY <3>1, <3>8
  <2>2. b \in (a + 1)..Depth  BY <1>6, DepthType
  <2> QED BY <2>1, <2>2
<1>7. r[c[i]] \in Int /\ r[c[j]] \in Int  BY <1>4
<1>8. i < j \/ j < i  BY <1>5
<1> QED BY <1>5, <1>6, <1>7, <1>8

\* A rank of the objects of a forest: the length of the line
LEMMA AcyclicIsRanked ==
  ASSUME NEW e \in Edge, Acyclic(e)
  PROVE  \E r \in [Objects -> 1..Depth] :
           \A x \in Objects : e[x] # Nothing => r[e[x]] < r[x]
<1> DEFINE r == [x \in Objects |-> Len(Line(e, x))]
<1>1. \A x \in Objects : Len(Line(e, x)) \in 1..Depth  BY LineIs
<1>2. ASSUME NEW x \in Objects, e[x] # Nothing PROVE Len(Line(e, e[x])) < Len(Line(e, x))
  <2> DEFINE l == Line(e, x)
             c == Climb(e, x)
  <2>1. PICK h \in 1..Depth :
           /\ l \in Seq(Objects) /\ Len(l) = h /\ DOMAIN l = 1..h /\ l[1] = x
           /\ \A k \in 1..h : l[k] = c[k - 1]
           /\ \A k \in 0..(Depth - 1) : c[k] # Nothing <=> k + 1 <= h
    BY LineIs
  <2>2. c[0] = x /\ c[1] = IF c[0] = Nothing THEN Nothing ELSE e[c[0]]
    <3>1. x \in Place /\ 1 \in 1..Depth /\ 1 - 1 = 0  BY DepthType DEF Place
    <3> QED BY <3>1, ClimbIs
  <2>3. c[1] = e[x]  BY <2>2, InheritanceConstants
  <2>4. c[Depth] = Nothing  BY DEF Acyclic, Depth
  <2>5. h >= 2
    <3> HIDE DEF c, l
    <3>1. Depth # 1  BY <1>2, <2>3, <2>4
    <3>2. 1 \in 0..(Depth - 1)  BY <3>1, DepthType
    <3>3. 1 + 1 <= h  BY <1>2, <2>1, <2>3, <3>2
    <3> QED BY <3>3
  <2>6. 2 \in 1..Len(l) /\ l[2] = e[x]
    <3> HIDE DEF c, l
    <3>1. 2 \in 1..h /\ 2 - 1 = 1  BY <2>1, <2>5, DepthType
    <3> QED BY <2>1, <2>3, <3>1
  <2>7. Len(Line(e, l[2])) = Len(l) - 2 + 1  BY <2>6, LineTail
  <2> HIDE DEF l, c
  <2>8. Len(Line(e, e[x])) = h - 1  BY <2>1, <2>6, <2>7, DepthType
  <2> QED BY <2>1, <2>8, DepthType DEF l
<1>3. r \in [Objects -> 1..Depth]  BY <1>1
<1>4. ASSUME NEW x \in Objects, e[x] # Nothing PROVE r[e[x]] < r[x]
  <2>1. e[x] \in Objects  BY <1>4 DEF Edge
  <2> QED BY <1>2, <1>4, <2>1
<1> HIDE DEF r
<1> QED BY <1>3, <1>4

\* In a forest nothing is above its parent but what the parent's line shows
LEMMA NotAboveItself ==
  ASSUME NEW e \in Edge, Acyclic(e), NEW o \in Objects, e[o] # Nothing
  PROVE  e[o] \in Objects /\ o \notin ToSet(Line(e, e[o]))
<1>1. PICK r \in [Objects -> 1..Depth] : \A x \in Objects : e[x] # Nothing => r[e[x]] < r[x]
  BY AcyclicIsRanked
<1>2. e[o] \in Objects  BY DEF Edge
<1> DEFINE S == {x \in Objects : r[x] <= r[e[o]]}
<1>3. \A x \in Objects : r[x] \in Int  BY <1>1, DepthType
<1>4. \A x \in S : e[x] \in S \union {Nothing}
  <2> TAKE x \in S
  <2>1. e[x] \in Objects \union {Nothing}  BY DEF Edge
  <2>2. e[x] # Nothing => e[x] \in Objects /\ r[e[x]] < r[x]  BY <1>1, <2>1
  <2>3. e[x] # Nothing => r[e[x]] <= r[e[o]]  BY <1>2, <1>3, <2>2
  <2> QED BY <2>2, <2>3
<1>5. e[o] \in S  BY <1>2, <1>3
<1>6. o \notin S  BY <1>1, <1>2, <1>3
<1>7. S \in SUBSET Objects  OBVIOUS
<1> HIDE DEF S
<1>8. ToSet(Line(e, e[o])) \subseteq S  BY <1>4, <1>5, <1>7, LineWithin
<1> QED BY <1>2, <1>6, <1>8

\* A forest stays one when an object moves under something that is not below it
LEMMA ReparentAcyclic ==
  ASSUME NEW e \in Edge, Acyclic(e), NEW o \in Objects, NEW p \in Place,
         p # Nothing => o \notin ToSet(Line(e, p))
  PROVE  [e EXCEPT ![o] = p] \in Edge /\ Acyclic([e EXCEPT ![o] = p])
<1> DEFINE e2 == [e EXCEPT ![o] = p]
           B == {x \in Objects : o \in ToSet(Line(e, x))}
<1>1. PICK r \in [Objects -> 1..Depth] : \A x \in Objects : e[x] # Nothing => r[e[x]] < r[x]
  BY AcyclicIsRanked
<1> DEFINE q == [x \in Objects |-> IF x \in B THEN r[x] + Depth ELSE r[x]]
<1>2. e2 \in Edge  BY DEF Edge, Place
<1>3. \A x \in Objects : r[x] \in Int /\ 1 <= r[x] /\ r[x] <= Depth  BY <1>1, DepthType
<1>4. q \in [Objects -> Int]  BY <1>3, DepthType
<1>5. ASSUME NEW x \in Objects, x # o, e[x] # Nothing PROVE e[x] \in B <=> x \in B
  <2>1. e[x] \in Objects  BY <1>5 DEF Edge
  <2>2. x \in ToSet(Line(e, x))  BY OnLine
  <2>3. e[x] \in ToSet(Line(e, x))  BY <1>5, <2>2, NextOnLine
  <2>4. ToSet(Line(e, e[x])) \subseteq ToSet(Line(e, x))  BY <2>3, LineAbove
  <2>5. ASSUME o \in ToSet(Line(e, x)) PROVE o \in ToSet(Line(e, e[x]))
    <3> DEFINE S == {x} \union ToSet(Line(e, e[x]))
    <3>1. S \in SUBSET Objects /\ e[x] \in S  BY <2>1, OnLine
    <3>2. \A y \in S : e[y] \in S \union {Nothing}  BY <2>1, <3>1, NextOnLine
    <3> HIDE DEF S
    <3>3. x \in S  BY DEF S
    <3>4. ToSet(Line(e, x)) \subseteq S  BY <3>1, <3>2, <3>3, LineWithin
    <3> QED BY <1>5, <2>5, <3>4 DEF S
  <2> QED BY <2>1, <2>4, <2>5
<1>6. o \in B  BY OnLine
<1>7. p # Nothing => p \in Objects /\ p \notin B  BY DEF Place
<1> HIDE DEF B
<1>8. ASSUME NEW x \in Objects, e2[x] # Nothing PROVE q[e2[x]] < q[x]
  <2>1. CASE x = o
    <3>1. e2[x] = p /\ p \in Objects /\ p \notin B  BY <1>7, <1>8, <2>1 DEF Edge
    <3>2. q[p] = r[p] /\ q[o] = r[o] + Depth  BY <1>6, <3>1
    <3> QED BY <1>3, <2>1, <3>1, <3>2, DepthType
  <2>2. CASE x # o
    <3>1. e2[x] = e[x] /\ e[x] \in Objects  BY <1>8, <2>2 DEF Edge
    <3>2. e[x] \in B <=> x \in B  BY <1>5, <1>8, <2>2, <3>1
    <3>3. r[e[x]] < r[x]  BY <1>1, <1>8, <3>1
    <3> QED BY <1>3, <3>1, <3>2, <3>3, DepthType
  <2> QED BY <2>1, <2>2
<1> HIDE DEF q, e2
<1>9. Acyclic(e2)  BY <1>2, <1>4, <1>8, RankedIsAcyclic
<1> QED BY <1>2, <1>9 DEF e2

-----------------------------------------------------------------------------
(* Searches along a line. *)

\* Where on a line something in S is
Hits(line, S) == {i \in 1..Len(line) : line[i] \in S}

\* The first object on the line that is in S, <<>> if there is none
Nearest(line, S) == IF Hits(line, S) = {} THEN <<>> ELSE <<line[Min(Hits(line, S))]>>

\* The least of a set of naturals
LEMMA MinIs ==
  ASSUME NEW T \in SUBSET Nat, T # {}
  PROVE  Min(T) \in T /\ \A m \in T : Min(T) <= m
BY LeastNumber DEF Min

\* The nearest is on the line and in S, and nothing before it is
LEMMA NearestIs ==
  ASSUME NEW line \in Seq(Objects), NEW S
  PROVE  \/ Nearest(line, S) = <<>> /\ \A i \in 1..Len(line) : line[i] \notin S
         \/ \E i \in 1..Len(line) : /\ Nearest(line, S) = <<line[i]>> /\ line[i] \in S
                                    /\ line[i] \in ToSet(line) /\ line[i] \in Objects
                                    /\ \A j \in 1..(i - 1) : line[j] \notin S
<1>1. CASE Hits(line, S) = {}  BY <1>1 DEF Nearest, Hits
<1>2. CASE Hits(line, S) # {}
  <2> DEFINE T == Hits(line, S)
             i == Min(T)
  <2>1. T \in SUBSET Nat /\ T # {}  BY <1>2 DEF Hits
  <2>2. i \in T /\ \A m \in T : i <= m
    <3> HIDE DEF T
    <3> QED BY <2>1, MinIs
  <2>3. Nearest(line, S) = <<line[i]>>  BY <1>2 DEF Nearest
  <2>4. i \in 1..Len(line) /\ line[i] \in S  BY <2>2 DEF Hits
  <2>5. \A j \in 1..(i - 1) : line[j] \notin S
    <3> SUFFICES ASSUME NEW j \in 1..(i - 1), line[j] \in S PROVE FALSE  OBVIOUS
    <3> HIDE DEF i
    <3>1. j \in 1..Len(line) /\ Len(line) \in Nat /\ j < i  BY <2>4
    <3>2. j \in T  BY <3>1 DEF Hits
    <3> QED BY <2>2, <2>4, <3>1, <3>2
  <2>6. line[i] \in Objects /\ line[i] \in ToSet(line)
    <3> HIDE DEF i
    <3> QED BY <2>4 DEF ToSet
  <2> HIDE DEF i, T
  <2> QED BY <2>3, <2>4, <2>5, <2>6
<1> QED BY <1>1, <1>2

\* What is in S and has nothing before it in S is the nearest
LEMMA NearestAt ==
  ASSUME NEW line \in Seq(Objects), NEW S, NEW i \in 1..Len(line), line[i] \in S,
         \A j \in 1..(i - 1) : line[j] \notin S
  PROVE  Nearest(line, S) = <<line[i]>>
<1> DEFINE T == Hits(line, S)
<1>1. T \in SUBSET Nat /\ i \in T  BY DEF Hits
<1>2. Min(T) \in T /\ Min(T) <= i
  <2> HIDE DEF T
  <2> QED BY <1>1, MinIs
<1>3. Min(T) \in 1..Len(line) /\ line[Min(T)] \in S  BY <1>2 DEF Hits
<1>4. Min(T) = i
  <2> DEFINE m == Min(T)
  <2>1. m \in 1..Len(line) /\ line[m] \in S /\ m <= i  BY <1>2, <1>3
  <2> HIDE DEF m
  <2>2. m \in 1..(i - 1) \/ m = i  BY <2>1
  <2> QED BY <2>1, <2>2 DEF m
<1> QED BY <1>1, <1>4 DEF Nearest

\* Only what is on the line counts
LEMMA NearestSame ==
  ASSUME NEW line \in Seq(Objects), NEW S, NEW S2,
         \A a \in ToSet(line) : a \in S <=> a \in S2
  PROVE  Nearest(line, S) = Nearest(line, S2)
<1>1. \A i \in 1..Len(line) : line[i] \in ToSet(line)  BY DEF ToSet
<1>2. Hits(line, S) = Hits(line, S2)  BY <1>1 DEF Hits
<1> QED BY <1>2 DEF Nearest

\* A search may skip what it would not find anything on
LEMMA NearestRest ==
  ASSUME NEW l \in Seq(Objects), NEW r \in Seq(Objects), NEW i \in 1..Len(l), NEW S,
         Len(r) = Len(l) - i + 1, \A k \in 1..Len(r) : r[k] = l[k + i - 1],
         \A k \in 1..(i - 1) : l[k] \notin S
  PROVE  Nearest(r, S) = Nearest(l, S)
<1>0. Len(l) \in Nat /\ Len(r) \in Nat  OBVIOUS
<1>1. CASE Nearest(l, S) = <<>> /\ \A k \in 1..Len(l) : l[k] \notin S
  <2>1. \A k \in 1..Len(r) : k + i - 1 \in 1..Len(l)  BY <1>0
  <2>2. \A k \in 1..Len(r) : r[k] \notin S  BY <1>1, <2>1
  <2>3. Hits(r, S) = {}  BY <2>2 DEF Hits
  <2> QED BY <1>1, <2>3 DEF Nearest
<1>2. ASSUME NEW k \in 1..Len(l), Nearest(l, S) = <<l[k]>>, l[k] \in S,
             \A j \in 1..(k - 1) : l[j] \notin S
      PROVE  Nearest(r, S) = Nearest(l, S)
  <2>1. k >= i  BY <1>0, <1>2
  <2> DEFINE m == k - i + 1
  <2>2. m \in 1..Len(r) /\ m + i - 1 = k  BY <1>0, <2>1
  <2>3. r[m] = l[k]  BY <2>2
  <2>4. \A j \in 1..(m - 1) : j \in 1..Len(r) /\ j + i - 1 \in 1..(k - 1)  BY <1>0, <2>1, <2>2
  <2>5. \A j \in 1..(m - 1) : r[j] \notin S  BY <1>2, <2>4
  <2> HIDE DEF m
  <2>6. Nearest(r, S) = <<r[m]>>  BY <1>2, <2>2, <2>3, <2>5, NearestAt
  <2> QED BY <1>2, <2>3, <2>6
<1> QED BY <1>1, <1>2, NearestIs

\* The objects that define a property, or a verb, of a name
PropHolders(w, n) == {a \in Objects : \E d \in ToSet(w.props[a]) : d.name = n}
VerbHolders(w, n, x) ==
  {a \in Objects : \E v \in ToSet(VerbRow(w, a)) : v.name = n /\ (x => v.exec)}

\* The first definition, or verb, of a name in one object's row
DefNamed(s, n) == FirstWhere(s, LAMBDA d : d.name = n)
VerbNamed(s, n, x) == FirstWhere(s, LAMBDA v : v.name = n /\ (x => v.exec))

\* The search for a property finds the nearest holder and takes its first definition
LEMMA PropAlongIs ==
  ASSUME NEW w, NEW line \in Seq(Objects), NEW n
  PROVE  PropAlong(w, line, n) =
           IF Nearest(line, PropHolders(w, n)) = <<>> THEN <<>>
           ELSE DefNamed(w.props[Nearest(line, PropHolders(w, n))[1]], n)
<1> DEFINE S == PropHolders(w, n)
           I == {i \in 1..Len(line) : \E d \in ToSet(w.props[line[i]]) : d.name = n}
           k == IF I # {} THEN Min(I) ELSE 0
<1>1. I = Hits(line, S)  BY DEF Hits, PropHolders
<1>2. I \in SUBSET Nat /\ 0 \notin I  OBVIOUS
<1>3. PropAlong(w, line, n) =
        IF (IF k = 0 THEN <<>> ELSE <<line[k]>>) = <<>> THEN <<>>
        ELSE DefNamed(w.props[(IF k = 0 THEN <<>> ELSE <<line[k]>>)[1]], n)
  BY DEF PropAlong, FirstWhere, SelectInSeq, DefNamed
<1>4. (IF k = 0 THEN <<>> ELSE <<line[k]>>) = Nearest(line, S)
  <2> HIDE DEF I, S
  <2>1. I # {} => Min(I) \in I  BY <1>2, MinIs
  <2> QED BY <1>1, <1>2, <2>1 DEF Nearest
<1> HIDE DEF k
<1> QED BY <1>3, <1>4

\* The search for a verb does the same
LEMMA VerbAlongIs ==
  ASSUME NEW w, NEW line \in Seq(Objects), NEW n, NEW x
  PROVE  VerbAlong(w, line, n, x) =
           IF Nearest(line, VerbHolders(w, n, x)) = <<>> THEN <<>>
           ELSE VerbNamed(VerbRow(w, Nearest(line, VerbHolders(w, n, x))[1]), n, x)
<1> DEFINE S == VerbHolders(w, n, x)
           I == {i \in 1..Len(line) :
                   \E v \in ToSet(VerbRow(w, line[i])) : v.name = n /\ (x => v.exec)}
           k == IF I # {} THEN Min(I) ELSE 0
<1>1. I = Hits(line, S)  BY DEF Hits, VerbHolders
<1>2. I \in SUBSET Nat /\ 0 \notin I  OBVIOUS
<1>3. VerbAlong(w, line, n, x) =
        IF (IF k = 0 THEN <<>> ELSE <<line[k]>>) = <<>> THEN <<>>
        ELSE VerbNamed(VerbRow(w, (IF k = 0 THEN <<>> ELSE <<line[k]>>)[1]), n, x)
  BY DEF VerbAlong, FirstWhere, SelectInSeq, VerbNamed
<1>4. (IF k = 0 THEN <<>> ELSE <<line[k]>>) = Nearest(line, S)
  <2> HIDE DEF I, S
  <2>1. I # {} => Min(I) \in I  BY <1>2, MinIs
  <2> QED BY <1>1, <1>2, <2>1 DEF Nearest
<1> HIDE DEF k
<1> QED BY <1>3, <1>4

\* The objects with definitions, or with a row of verbs
PropOwners(w) == {a \in Objects : w.props[a] # <<>>}
VerbOwners(w) == {a \in Objects : w.verbs[a] # NoRow}

\* A search starts at the nearest object that has anything
LEMMA HomesAre ==
  ASSUME NEW w, NEW o, Line(w.parent, o) \in Seq(Objects)
  PROVE  /\ PropHome(w, o) = Nearest(Line(w.parent, o), PropOwners(w))
         /\ VerbHome(w, o) = Nearest(Line(w.parent, o), VerbOwners(w))
<1> DEFINE line == Line(w.parent, o)
<1>1. PropHome(w, o) = Nearest(line, PropOwners(w))
  <2> DEFINE I == {i \in 1..Len(line) : w.props[line[i]] # <<>>}
             k == IF I # {} THEN Min(I) ELSE 0
  <2>1. PropHome(w, o) = IF k = 0 THEN <<>> ELSE <<line[k]>>
    BY DEF PropHome, FirstWhere, SelectInSeq
  <2> HIDE DEF line
  <2>2. I = Hits(line, PropOwners(w))  BY DEF Hits, PropOwners, line
  <2>3. I \in SUBSET Nat /\ 0 \notin I  OBVIOUS
  <2> HIDE DEF I
  <2>4. I # {} => Min(I) \in I  BY <2>3, MinIs
  <2> QED BY <2>1, <2>2, <2>3, <2>4 DEF Nearest
<1>2. VerbHome(w, o) = Nearest(line, VerbOwners(w))
  <2> DEFINE I == {i \in 1..Len(line) : w.verbs[line[i]] # NoRow}
             k == IF I # {} THEN Min(I) ELSE 0
  <2>1. VerbHome(w, o) = IF k = 0 THEN <<>> ELSE <<line[k]>>
    BY DEF VerbHome, FirstWhere, SelectInSeq
  <2> HIDE DEF line
  <2>2. I = Hits(line, VerbOwners(w))  BY DEF Hits, VerbOwners, line
  <2>3. I \in SUBSET Nat /\ 0 \notin I  OBVIOUS
  <2> HIDE DEF I
  <2>4. I # {} => Min(I) \in I  BY <2>3, MinIs
  <2> QED BY <2>1, <2>2, <2>3, <2>4 DEF Nearest
<1> QED BY <1>1, <1>2

\* The fields of a world
LEMMA WorldFacts ==
  ASSUME NEW w \in World
  PROVE  /\ w.parent \in Edge /\ w.loc \in Edge /\ w.valid \in SUBSET Objects
         /\ w.props \in [Objects -> Seq(PropDef)]
         /\ w.verbs \in [Objects -> Seq(Verb) \union {NoRow}]
         /\ \A a \in Objects : VerbRow(w, a) \in Seq(Verb)
         /\ \A o \in Objects : /\ Line(w.parent, o) \in Seq(Objects) /\ Line(w.parent, o) # <<>>
                               /\ Above(w, o) \in Seq(Objects)
<1>1. /\ w.parent \in Edge /\ w.loc \in Edge /\ w.valid \in SUBSET Objects
      /\ w.props \in [Objects -> Seq(PropDef)]
      /\ w.verbs \in [Objects -> Seq(Verb) \union {NoRow}]
  BY DEF World
<1>2. \A a \in Objects : VerbRow(w, a) \in Seq(Verb)
  <2> TAKE a \in Objects
  <2>1. <<>> \in Seq(Verb)  OBVIOUS
  <2> QED BY <1>1, <2>1 DEF VerbRow
<1>3. ASSUME NEW o \in Objects
      PROVE  /\ Line(w.parent, o) \in Seq(Objects) /\ Line(w.parent, o) # <<>>
             /\ Above(w, o) \in Seq(Objects)
  <2> DEFINE l == Line(w.parent, o)
  <2>0. w.parent \in Edge  BY <1>1
  <2>1. PICK h \in 1..Depth : l \in Seq(Objects) /\ Len(l) = h  BY <2>0, LineIs
  <2> HIDE DEF l
  <2>2. l # <<>>  BY <2>1, DepthType
  <2>3. Tail(l) \in Seq(Objects)  BY <2>1, <2>2
  <2> QED BY <2>1, <2>2, <2>3 DEF l, Above
<1> QED BY <1>1, <1>2, <1>3

\* What searches return
LEMMA SearchTypes ==
  ASSUME NEW w \in World, NEW line \in Seq(Objects), NEW n, NEW x
  PROVE  /\ PropAlong(w, line, n) \in Seq(PropDef)
         /\ VerbAlong(w, line, n, x) \in Seq(Verb)
<1>1. ASSUME NEW s \in Seq(PropDef) PROVE DefNamed(s, n) \in Seq(PropDef)
  <2> DEFINE I == {i \in 1..Len(s) : s[i].name = n}
             k == IF I # {} THEN Min(I) ELSE 0
  <2>1. DefNamed(s, n) = IF k = 0 THEN <<>> ELSE <<s[k]>>  BY DEF DefNamed, FirstWhere, SelectInSeq
  <2>2. I \in SUBSET Nat /\ I \subseteq 1..Len(s)  OBVIOUS
  <2> HIDE DEF I
  <2>3. I # {} => Min(I) \in I  BY <2>2, MinIs
  <2>4. k = 0 \/ k \in 1..Len(s)  BY <2>2, <2>3
  <2> HIDE DEF k
  <2>5. CASE k = 0  BY <2>1, <2>5
  <2>6. CASE k \in 1..Len(s)
    <3>1. s[k] \in PropDef /\ k # 0  BY <2>6
    <3>2. <<s[k]>> \in Seq(PropDef)  BY <3>1
    <3> QED BY <2>1, <3>1, <3>2
  <2> QED BY <2>4, <2>5, <2>6
<1>2. ASSUME NEW s \in Seq(Verb) PROVE VerbNamed(s, n, x) \in Seq(Verb)
  <2> DEFINE I == {i \in 1..Len(s) : s[i].name = n /\ (x => s[i].exec)}
             k == IF I # {} THEN Min(I) ELSE 0
  <2>1. VerbNamed(s, n, x) = IF k = 0 THEN <<>> ELSE <<s[k]>>
    BY DEF VerbNamed, FirstWhere, SelectInSeq
  <2>2. I \in SUBSET Nat /\ I \subseteq 1..Len(s)  OBVIOUS
  <2> HIDE DEF I
  <2>3. I # {} => Min(I) \in I  BY <2>2, MinIs
  <2>4. k = 0 \/ k \in 1..Len(s)  BY <2>2, <2>3
  <2> HIDE DEF k
  <2>5. CASE k = 0  BY <2>1, <2>5
  <2>6. CASE k \in 1..Len(s)
    <3>1. s[k] \in Verb /\ k # 0  BY <2>6
    <3>2. <<s[k]>> \in Seq(Verb)  BY <3>1
    <3> QED BY <2>1, <3>1, <3>2
  <2> QED BY <2>4, <2>5, <2>6
<1>3. ASSUME NEW S, Nearest(line, S) # <<>> PROVE Nearest(line, S)[1] \in Objects
  <2>1. PICK i \in 1..Len(line) : Nearest(line, S) = <<line[i]>> /\ line[i] \in Objects
    BY <1>3, NearestIs
  <2> QED BY <2>1
<1>4. PropAlong(w, line, n) \in Seq(PropDef)
  <2> DEFINE h == Nearest(line, PropHolders(w, n))
  <2>1. PropAlong(w, line, n) = IF h = <<>> THEN <<>> ELSE DefNamed(w.props[h[1]], n)
    BY PropAlongIs
  <2>2. h # <<>> => h[1] \in Objects  BY <1>3
  <2> HIDE DEF h
  <2>3. h # <<>> => w.props[h[1]] \in Seq(PropDef)  BY <2>2, WorldFacts
  <2>4. <<>> \in Seq(PropDef)  OBVIOUS
  <2> QED BY <1>1, <2>1, <2>3, <2>4
<1>5. VerbAlong(w, line, n, x) \in Seq(Verb)
  <2> DEFINE h == Nearest(line, VerbHolders(w, n, x))
  <2>1. VerbAlong(w, line, n, x) = IF h = <<>> THEN <<>> ELSE VerbNamed(VerbRow(w, h[1]), n, x)
    BY VerbAlongIs
  <2>2. h # <<>> => h[1] \in Objects  BY <1>3
  <2> HIDE DEF h
  <2>3. h # <<>> => VerbRow(w, h[1]) \in Seq(Verb)  BY <2>2, WorldFacts
  <2>4. <<>> \in Seq(Verb)  OBVIOUS
  <2> QED BY <1>2, <2>1, <2>3, <2>4
<1> QED BY <1>4, <1>5

\* The object at which a search starts
LEMMA HomeTypes ==
  ASSUME NEW w \in World, NEW o \in Objects
  PROVE  PropHome(w, o) \in Seq(Objects) /\ VerbHome(w, o) \in Seq(Objects)
<1>1. Line(w.parent, o) \in Seq(Objects)  BY WorldFacts
<1>2. \A S : Nearest(Line(w.parent, o), S) \in Seq(Objects)
  <2> TAKE S
  <2> DEFINE l == Line(w.parent, o)
  <2>1. l \in Seq(Objects)  BY <1>1
  <2> HIDE DEF l
  <2>2. Nearest(l, S) = <<>> \/ \E i \in 1..Len(l) : Nearest(l, S) = <<l[i]>> /\ l[i] \in Objects
    BY <2>1, NearestIs
  <2>3. <<>> \in Seq(Objects) /\ \A a \in Objects : <<a>> \in Seq(Objects)  OBVIOUS
  <2>4. Nearest(l, S) \in Seq(Objects)  BY <2>2, <2>3
  <2> QED BY <2>4 DEF l
<1> QED BY <1>1, <1>2, HomesAre

\* A search that starts at home finds what a search from the object finds
LEMMA PropFromHome ==
  ASSUME NEW w \in World, Acyclic(w.parent), NEW o \in Objects, NEW n, PropHome(w, o) # <<>>
  PROVE  /\ PropHome(w, o)[1] \in Objects
         /\ PropAlong(w, Line(w.parent, PropHome(w, o)[1]), n) = PropAlong(w, Line(w.parent, o), n)
<1> DEFINE l == Line(w.parent, o)
           h == PropHome(w, o)
           S == PropOwners(w)
           T == PropHolders(w, n)
<1>1. w.parent \in Edge /\ l \in Seq(Objects) /\ h = Nearest(l, S) /\ h # <<>>
  BY WorldFacts, HomesAre
<1>2. PICK i \in 1..Len(l) : h = <<l[i]>> /\ l[i] \in Objects /\ \A j \in 1..(i - 1) : l[j] \notin S
  <2> HIDE DEF l, h, S
  <2> QED BY <1>1, NearestIs
<1> DEFINE r == Line(w.parent, l[i])
<1>3. /\ r \in Seq(Objects) /\ Len(r) = Len(l) - i + 1
      /\ \A k \in 1..Len(r) : r[k] = l[k + i - 1]
  BY <1>1, <1>2, WorldFacts, LineTail
<1>4. T \subseteq S  BY DEF PropHolders, PropOwners, ToSet
<1>5. h[1] = l[i] /\ Line(w.parent, h[1]) = r  BY <1>2
<1> HIDE DEF l, h, S, T, r
<1>6. Nearest(r, T) = Nearest(l, T)  BY <1>1, <1>2, <1>3, <1>4, NearestRest
<1>7. PropAlong(w, r, n) = PropAlong(w, l, n)  BY <1>1, <1>3, <1>6, PropAlongIs DEF T
<1> QED BY <1>2, <1>5, <1>7 DEF l, h

\* ... of verbs too, and without a home there are none
LEMMA VerbFromHome ==
  ASSUME NEW w \in World, Acyclic(w.parent), NEW o \in Objects, NEW n, NEW x
  PROVE  /\ VerbHome(w, o) # <<>> =>
              /\ VerbHome(w, o)[1] \in Objects
              /\ VerbAlong(w, Line(w.parent, VerbHome(w, o)[1]), n, x)
                   = VerbAlong(w, Line(w.parent, o), n, x)
         /\ VerbHome(w, o) = <<>> => VerbAlong(w, <<>>, n, x) = VerbAlong(w, Line(w.parent, o), n, x)
<1> DEFINE l == Line(w.parent, o)
           h == VerbHome(w, o)
           S == VerbOwners(w)
           T == VerbHolders(w, n, x)
<1>1. w.parent \in Edge /\ l \in Seq(Objects) /\ h = Nearest(l, S)
  BY WorldFacts, HomesAre
<1>4. T \subseteq S  BY DEF VerbHolders, VerbOwners, VerbRow, ToSet
<1>a. CASE h # <<>>
  <2>2. PICK i \in 1..Len(l) :
          h = <<l[i]>> /\ l[i] \in Objects /\ \A j \in 1..(i - 1) : l[j] \notin S
    <3> HIDE DEF l, h, S
    <3> QED BY <1>1, <1>a, NearestIs
  <2> DEFINE r == Line(w.parent, l[i])
  <2>3. /\ r \in Seq(Objects) /\ Len(r) = Len(l) - i + 1
        /\ \A k \in 1..Len(r) : r[k] = l[k + i - 1]
    BY <1>1, <2>2, WorldFacts, LineTail
  <2>5. h[1] = l[i] /\ Line(w.parent, h[1]) = r  BY <2>2
  <2> HIDE DEF l, h, S, T, r
  <2>6. Nearest(r, T) = Nearest(l, T)  BY <1>1, <2>2, <2>3, <1>4, NearestRest
  <2>7. VerbAlong(w, r, n, x) = VerbAlong(w, l, n, x)  BY <1>1, <2>3, <2>6, VerbAlongIs DEF T
  <2> QED BY <1>a, <2>2, <2>5, <2>7 DEF l, h
<1>b. CASE h = <<>>
  <2>1. \A i \in 1..Len(l) : l[i] \notin S
    <3> HIDE DEF l, h, S
    <3>1. \A a : <<a>> # <<>>  OBVIOUS
    <3>2. l \in Seq(Objects) /\ Nearest(l, S) = <<>>  BY <1>1, <1>b
    <3>3. ~\E i \in 1..Len(l) : Nearest(l, S) = <<l[i]>>  BY <3>1, <3>2
    <3> QED BY <3>2, <3>3, NearestIs
  <2>2. Nearest(l, T) = <<>>
    <3>1. Hits(l, T) = {}  BY <1>4, <2>1 DEF Hits
    <3> QED BY <3>1 DEF Nearest
  <2>3. Nearest(<<>>, T) = <<>> /\ <<>> \in Seq(Objects)
    <3>1. Hits(<<>>, T) = {}  BY DEF Hits
    <3> QED BY <3>1 DEF Nearest
  <2> HIDE DEF l, T
  <2>4. VerbAlong(w, l, n, x) = <<>> /\ VerbAlong(w, <<>>, n, x) = <<>>
    BY <1>1, <2>2, <2>3, VerbAlongIs DEF T
  <2> QED BY <1>b, <2>4 DEF l
<1> QED BY <1>a, <1>b

-----------------------------------------------------------------------------
(* What caches an edit leaves good. *)

\* What x inherits is the same in both worlds
KeepsLine(w, w2, x) == Line(w2.parent, x) = Line(w.parent, x)
KeepsProps(w, w2, x) ==
  KeepsLine(w, w2, x) /\ \A a \in ToSet(Line(w.parent, x)) : w2.props[a] = w.props[a]
KeepsVerbs(w, w2, x) ==
  KeepsLine(w, w2, x) /\ \A a \in ToSet(Line(w.parent, x)) : w2.verbs[a] = w.verbs[a]

\* Searches that meet the same rows have the same answers
LEMMA PropsKept ==
  ASSUME NEW w \in World, NEW w2 \in World, NEW x \in Objects, KeepsProps(w, w2, x)
  PROVE  /\ PropHome(w2, x) = PropHome(w, x)
         /\ \A n : PropAlong(w2, Line(w2.parent, x), n) = PropAlong(w, Line(w.parent, x), n)
<1> DEFINE l == Line(w.parent, x)
<1>1. l \in Seq(Objects) /\ Line(w2.parent, x) = l /\ \A a \in ToSet(l) : w2.props[a] = w.props[a]
      /\ ToSet(l) \subseteq Objects
  BY WorldFacts, OnLine DEF KeepsProps, KeepsLine
<1>2. /\ PropHome(w, x) = Nearest(l, PropOwners(w))
      /\ PropHome(w2, x) = Nearest(l, PropOwners(w2))
  BY <1>1, HomesAre
<1> HIDE DEF l
<1>3. \A a \in ToSet(l) : a \in PropOwners(w) <=> a \in PropOwners(w2)  BY <1>1 DEF PropOwners
<1>4. PropHome(w2, x) = PropHome(w, x)  BY <1>1, <1>2, <1>3, NearestSame
<1>5. ASSUME NEW n PROVE PropAlong(w2, l, n) = PropAlong(w, l, n)
  <2> DEFINE h == Nearest(l, PropHolders(w, n))
  <2>1. \A a \in ToSet(l) : a \in PropHolders(w, n) <=> a \in PropHolders(w2, n)
    BY <1>1 DEF PropHolders
  <2>2. Nearest(l, PropHolders(w2, n)) = h  BY <1>1, <2>1, NearestSame
  <2>3. h = <<>> \/ \E i \in 1..Len(l) : h = <<l[i]>> /\ l[i] \in ToSet(l)  BY <1>1, NearestIs
  <2>4. /\ PropAlong(w, l, n) = IF h = <<>> THEN <<>> ELSE DefNamed(w.props[h[1]], n)
        /\ PropAlong(w2, l, n) = IF h = <<>> THEN <<>> ELSE DefNamed(w2.props[h[1]], n)
    BY <1>1, <2>2, PropAlongIs
  <2> HIDE DEF h
  <2>5. h # <<>> => h[1] \in ToSet(l)  BY <2>3
  <2>6. h # <<>> => w2.props[h[1]] = w.props[h[1]]  BY <1>1, <2>5
  <2> QED BY <2>4, <2>6
<1> QED BY <1>1, <1>4, <1>5 DEF l

\* The same for verbs
LEMMA VerbsKept ==
  ASSUME NEW w \in World, NEW w2 \in World, NEW x \in Objects, KeepsVerbs(w, w2, x)
  PROVE  /\ VerbHome(w2, x) = VerbHome(w, x)
         /\ \A n, e : VerbAlong(w2, Line(w2.parent, x), n, e) = VerbAlong(w, Line(w.parent, x), n, e)
<1> DEFINE l == Line(w.parent, x)
<1>1. l \in Seq(Objects) /\ Line(w2.parent, x) = l /\ \A a \in ToSet(l) : w2.verbs[a] = w.verbs[a]
      /\ ToSet(l) \subseteq Objects
  BY WorldFacts, OnLine DEF KeepsVerbs, KeepsLine
<1>2. /\ VerbHome(w, x) = Nearest(l, VerbOwners(w))
      /\ VerbHome(w2, x) = Nearest(l, VerbOwners(w2))
  BY <1>1, HomesAre
<1> HIDE DEF l
<1>3. \A a \in ToSet(l) : a \in VerbOwners(w) <=> a \in VerbOwners(w2)  BY <1>1 DEF VerbOwners
<1>4. VerbHome(w2, x) = VerbHome(w, x)  BY <1>1, <1>2, <1>3, NearestSame
<1>5. ASSUME NEW n, NEW e PROVE VerbAlong(w2, l, n, e) = VerbAlong(w, l, n, e)
  <2> DEFINE h == Nearest(l, VerbHolders(w, n, e))
  <2>0. \A a \in ToSet(l) : VerbRow(w2, a) = VerbRow(w, a)  BY <1>1 DEF VerbRow
  <2>1. \A a \in ToSet(l) : a \in VerbHolders(w, n, e) <=> a \in VerbHolders(w2, n, e)
    BY <2>0 DEF VerbHolders
  <2>2. Nearest(l, VerbHolders(w2, n, e)) = h  BY <1>1, <2>1, NearestSame
  <2>3. h = <<>> \/ \E i \in 1..Len(l) : h = <<l[i]>> /\ l[i] \in ToSet(l)  BY <1>1, NearestIs
  <2>4. /\ VerbAlong(w, l, n, e) = IF h = <<>> THEN <<>> ELSE VerbNamed(VerbRow(w, h[1]), n, e)
        /\ VerbAlong(w2, l, n, e) = IF h = <<>> THEN <<>> ELSE VerbNamed(VerbRow(w2, h[1]), n, e)
    BY <1>1, <2>2, VerbAlongIs
  <2> HIDE DEF h
  <2>5. h # <<>> => h[1] \in ToSet(l)  BY <2>3
  <2> QED BY <2>0, <2>4, <2>5
<1> QED BY <1>1, <1>4, <1>5 DEF l

\* Answers about objects that keep what they inherit stay good
LEMMA SoundKept ==
  ASSUME NEW w \in World, NEW w2 \in World, NEW c \in Caches, NEW c2 \in Caches, Sound(w, c),
         c2.chain \subseteq c.chain, c2.prop \subseteq c.prop, c2.propHome \subseteq c.propHome,
         c2.verb \subseteq c.verb, c2.verbHome \subseteq c.verbHome, c2.absent \subseteq c.absent,
         \A f \in c2.chain : KeepsLine(w, w2, f.on),
         \A f \in c2.prop : KeepsProps(w, w2, f.on),
         \A f \in c2.propHome : KeepsProps(w, w2, f.on),
         \A f \in c2.verb : KeepsVerbs(w, w2, f.on),
         \A f \in c2.verbHome : KeepsVerbs(w, w2, f.on),
         c2.absent # {} => KeepsVerbs(w, w2, SystemObject)
  PROVE  Sound(w2, c2)
<1>1. \A f \in c2.chain : f.val = Above(w2, f.on)  BY DEF Sound, Above, KeepsLine
<1>2. ASSUME NEW f \in c2.prop PROVE f.val = PropAlong(w2, Line(w2.parent, f.on), f.name)
  <2>1. f.on \in Objects /\ f \in c.prop /\ KeepsProps(w, w2, f.on)  BY DEF Caches
  <2>2. f.val = PropAlong(w, Line(w.parent, f.on), f.name)  BY <2>1 DEF Sound
  <2>3. PropAlong(w2, Line(w2.parent, f.on), f.name) = PropAlong(w, Line(w.parent, f.on), f.name)
    BY <2>1, PropsKept
  <2> QED BY <2>2, <2>3
<1>3. ASSUME NEW f \in c2.propHome PROVE f.val = PropHome(w2, f.on)
  <2>1. f.on \in Objects /\ f \in c.propHome /\ KeepsProps(w, w2, f.on)  BY DEF Caches
  <2>2. f.val = PropHome(w, f.on)  BY <2>1 DEF Sound
  <2> QED BY <2>1, <2>2, PropsKept
<1>4. ASSUME NEW f \in c2.verb PROVE f.val = VerbAlong(w2, Line(w2.parent, f.on), f.name, f.exec)
  <2>1. f.on \in Objects /\ f \in c.verb /\ KeepsVerbs(w, w2, f.on)  BY DEF Caches
  <2>2. f.val = VerbAlong(w, Line(w.parent, f.on), f.name, f.exec)  BY <2>1 DEF Sound
  <2>3. VerbAlong(w2, Line(w2.parent, f.on), f.name, f.exec)
          = VerbAlong(w, Line(w.parent, f.on), f.name, f.exec)
    BY <2>1, VerbsKept
  <2> QED BY <2>2, <2>3
<1>5. ASSUME NEW f \in c2.verbHome PROVE f.val = VerbHome(w2, f.on)
  <2>1. f.on \in Objects /\ f \in c.verbHome /\ KeepsVerbs(w, w2, f.on)  BY DEF Caches
  <2>2. f.val = VerbHome(w, f.on)  BY <2>1 DEF Sound
  <2> QED BY <2>1, <2>2, VerbsKept
<1>6. ASSUME NEW n \in c2.absent
      PROVE  VerbAlong(w2, Line(w2.parent, SystemObject), n, TRUE) = <<>>
  <2>1. n \in c.absent /\ KeepsVerbs(w, w2, SystemObject) /\ SystemObject \in Objects
    BY InheritanceConstants
  <2>2. VerbAlong(w, Line(w.parent, SystemObject), n, TRUE) = <<>>  BY <2>1 DEF Sound
  <2>3. \A m, e : VerbAlong(w2, Line(w2.parent, SystemObject), m, e)
                   = VerbAlong(w, Line(w.parent, SystemObject), m, e)
    BY <2>1, VerbsKept
  <2> QED BY <2>2, <2>3
<1> QED BY <1>1, <1>2, <1>3, <1>4, <1>5, <1>6 DEF Sound

\* Invalidation yields caches that forget everything filed under the given objects
LEMMA InvalidateTypes ==
  ASSUME NEW c \in Caches, NEW objs
  PROVE  /\ InvalidateProps(c, objs) \in Caches /\ InvalidateVerbs(c, objs) \in Caches
         /\ InvalidateHierarchy(c, objs) \in Caches
<1>1. \A S : Without(S, objs) \subseteq S  BY DEF Without
<1>2. \A d \in Caches : InvalidateProps(d, objs) \in Caches  BY <1>1 DEF Caches, InvalidateProps
<1>3. \A d \in Caches : InvalidateVerbs(d, objs) \in Caches  BY <1>1 DEF Caches, InvalidateVerbs
<1>4. \A d \in Caches : InvalidateAncestry(d, objs) \in Caches
  BY <1>1 DEF Caches, InvalidateAncestry
<1> QED BY <1>2, <1>3, <1>4 DEF InvalidateHierarchy

\* Forgetting what hangs on `objs' is enough if the others keep what they inherit
LEMMA HierarchySound ==
  ASSUME NEW w \in World, NEW w2 \in World, NEW c \in Caches, Sound(w, c), NEW objs,
         \A x \in Objects \ objs : KeepsProps(w, w2, x) /\ KeepsVerbs(w, w2, x)
  PROVE  Sound(w2, InvalidateHierarchy(c, objs))
<1> DEFINE d == InvalidateHierarchy(c, objs)
<1>1. d \in Caches  BY InvalidateTypes
<1>2. /\ d.chain = Without(c.chain, objs)
      /\ d.prop = Without(c.prop, objs) /\ d.propHome = Without(c.propHome, objs)
      /\ d.verb = Without(c.verb, objs) /\ d.verbHome = Without(c.verbHome, objs)
      /\ d.absent = IF SystemObject \in objs THEN {} ELSE c.absent
  BY DEF Caches, InvalidateHierarchy, InvalidateAncestry, InvalidateProps, InvalidateVerbs
<1> HIDE DEF d
<1>3. /\ \A f \in d.chain : f.on \in Objects \ objs
      /\ \A f \in d.prop : f.on \in Objects \ objs
      /\ \A f \in d.propHome : f.on \in Objects \ objs
      /\ \A f \in d.verb : f.on \in Objects \ objs
      /\ \A f \in d.verbHome : f.on \in Objects \ objs
  BY <1>1, <1>2 DEF Caches, Without
<1>4. /\ d.chain \subseteq c.chain /\ d.prop \subseteq c.prop /\ d.propHome \subseteq c.propHome
      /\ d.verb \subseteq c.verb /\ d.verbHome \subseteq c.verbHome /\ d.absent \subseteq c.absent
  BY <1>2 DEF Without
<1>5. d.absent # {} => KeepsVerbs(w, w2, SystemObject)  BY <1>2, InheritanceConstants
<1>6. \A f \in d.chain : KeepsLine(w, w2, f.on)  BY <1>3 DEF KeepsProps
<1>7. Sound(w2, d)  BY <1>1, <1>3, <1>4, <1>5, <1>6, SoundKept
<1> QED BY <1>7 DEF d

\* Dropping what is filed under `objs' suffices for an edit that only changes
\* properties inherited there
LEMMA PropsSound ==
  ASSUME NEW w \in World, NEW w2 \in World, NEW c \in Caches, Sound(w, c), NEW objs,
         w2.parent = w.parent, w2.verbs = w.verbs,
         \A x \in Objects \ objs : KeepsProps(w, w2, x)
  PROVE  Sound(w2, InvalidateProps(c, objs))
<1> DEFINE d == InvalidateProps(c, objs)
<1>1. d \in Caches  BY InvalidateTypes
<1>2. /\ d.prop = Without(c.prop, objs) /\ d.propHome = Without(c.propHome, objs)
      /\ d.chain = c.chain /\ d.verb = c.verb /\ d.verbHome = c.verbHome /\ d.absent = c.absent
  BY DEF Caches, InvalidateProps
<1> HIDE DEF d
<1>3. \A x : KeepsLine(w, w2, x) /\ KeepsVerbs(w, w2, x)  BY DEF KeepsLine, KeepsVerbs
<1>4. (\A f \in d.prop : f.on \in Objects \ objs) /\ \A f \in d.propHome : f.on \in Objects \ objs
  BY <1>1, <1>2 DEF Caches, Without
<1>5. d.prop \subseteq c.prop /\ d.propHome \subseteq c.propHome  BY <1>2 DEF Without
<1>6. Sound(w2, d)  BY <1>1, <1>2, <1>3, <1>4, <1>5, SoundKept
<1> QED BY <1>6 DEF d

\* The same for an edit that only changes verbs
LEMMA VerbsSound ==
  ASSUME NEW w \in World, NEW w2 \in World, NEW c \in Caches, Sound(w, c), NEW objs,
         w2.parent = w.parent, w2.props = w.props,
         \A x \in Objects \ objs : KeepsVerbs(w, w2, x)
  PROVE  Sound(w2, InvalidateVerbs(c, objs))
<1> DEFINE d == InvalidateVerbs(c, objs)
<1>1. d \in Caches  BY InvalidateTypes
<1>2. /\ d.verb = Without(c.verb, objs) /\ d.verbHome = Without(c.verbHome, objs)
      /\ d.chain = c.chain /\ d.prop = c.prop /\ d.propHome = c.propHome
      /\ d.absent = IF SystemObject \in objs THEN {} ELSE c.absent
  BY DEF Caches, InvalidateVerbs
<1> HIDE DEF d
<1>3. \A x : KeepsLine(w, w2, x) /\ KeepsProps(w, w2, x)  BY DEF KeepsLine, KeepsProps
<1>4. (\A f \in d.verb : f.on \in Objects \ objs) /\ \A f \in d.verbHome : f.on \in Objects \ objs
  BY <1>1, <1>2 DEF Caches, Without
<1>5. d.verb \subseteq c.verb /\ d.verbHome \subseteq c.verbHome /\ d.absent \subseteq c.absent
  BY <1>2 DEF Without
<1>6. d.absent # {} => KeepsVerbs(w, w2, SystemObject)  BY <1>2, InheritanceConstants
<1>7. Sound(w2, d)  BY <1>1, <1>2, <1>3, <1>4, <1>5, <1>6, SoundKept
<1> QED BY <1>7 DEF d

\* The ancestors an operation believes are the ancestors, and remembering them is sound
LEMMA AncestorsSound ==
  ASSUME NEW w \in World, NEW c \in Caches, Sound(w, c), NEW o \in Objects
  PROVE  /\ Ancestors(w, c, o) = Above(w, o)
         /\ Sound(w, FillAncestors(w, c, o))
<1>1. Ancestors(w, c, o) = Above(w, o)
  <2>1. \A f \in Filed(c.chain, o) : f.val = Above(w, o)  BY DEF Filed, Sound
  <2> QED BY <2>1 DEF Ancestors
<1> DEFINE f == [on |-> o, val |-> Above(w, o)]
           d == FillAncestors(w, c, o)
<1>2. d = [c EXCEPT !.chain = Without(@, {o}) \union {f}]  BY <1>1 DEF FillAncestors
<1>3. /\ d.chain = Without(c.chain, {o}) \union {f}
      /\ d.prop = c.prop /\ d.propHome = c.propHome
      /\ d.verb = c.verb /\ d.verbHome = c.verbHome /\ d.absent = c.absent
  BY <1>2 DEF Caches
<1> HIDE DEF d
<1>4. \A g \in d.chain : g.val = Above(w, g.on)  BY <1>3 DEF Without, Sound
<1>5. Sound(w, d)  BY <1>3, <1>4 DEF Sound
<1> QED BY <1>1, <1>5 DEF d

\* Remembered ancestors are objects, and remembering them touches nothing else
LEMMA FillTypes ==
  ASSUME NEW w \in World, NEW c \in Caches, NEW o \in Objects
  PROVE  /\ Ancestors(w, c, o) \in Seq(Objects)
         /\ FillAncestors(w, c, o) \in Caches
         /\ FillAncestors(w, c, o).verb = c.verb /\ FillAncestors(w, c, o).verbHome = c.verbHome
         /\ FillAncestors(w, c, o).absent = c.absent
<1>1. Ancestors(w, c, o) \in Seq(Objects)
  <2>1. \A f \in Filed(c.chain, o) : f.val \in Seq(Objects)  BY DEF Filed, Caches
  <2>2. Above(w, o) \in Seq(Objects)  BY WorldFacts
  <2> QED BY <2>1, <2>2 DEF Ancestors
<1> DEFINE a == Ancestors(w, c, o)
<1>2. [on |-> o, val |-> a] \in [on : Objects, val : Seq(Objects)]  BY <1>1
<1>3. FillAncestors(w, c, o) = [c EXCEPT !.chain = Without(@, {o}) \union {[on |-> o, val |-> a]}]
  BY DEF FillAncestors
<1> HIDE DEF a
<1>4. FillAncestors(w, c, o) \in Caches  BY <1>2, <1>3 DEF Caches, Without
<1> QED BY <1>1, <1>3, <1>4 DEF Caches

-----------------------------------------------------------------------------
(* The inductive invariant. *)

\* w and w2 differ only in the rows R
Agrees(w, w2, R) ==
  \A o \in Objects :
    /\ <<"object", o>> \notin R => (o \in w.valid <=> o \in w2.valid)
    /\ <<"parent", o>> \notin R => w2.parent[o] = w.parent[o]
    /\ <<"loc", o>> \notin R => w2.loc[o] = w.loc[o]
    /\ <<"props", o>> \notin R => w2.props[o] = w.props[o]
    /\ <<"verbs", o>> \notin R => w2.verbs[o] = w.verbs[o]

\* R removes every row of an object if it removes the object
Whole(R) ==
  \A o \in Objects : <<"object", o>> \in R =>
    Row("parent", {o}) \union Row("props", {o}) \union Row("verbs", {o}) \subseteq R

\* Only one thread edits, or no number is given to another object
NumbersKept == SoleEditor \/ scenario.ops \intersect {"create", "renumber"} = {}

\* A transaction that has written nothing: what it sees is the world of its base version
Reader(r) == r.phase \in {"loaded", "active", "publishing"} /\ r.touched = {}

\* Everything a single editor keeps true of a world
Good(w) ==
  /\ TreeOK(w) /\ Bare(w) /\ AtHome(w)
  /\ {"move", "renumber"} \subseteq scenario.ops \/ Acyclic(w.loc)
  /\ "move" \notin scenario.ops => LocsExist(w)
  /\ "rename" \notin scenario.ops => NamesOnce(w)

\* What every view and every root satisfies, whoever edits
ViewOK(w) == Bare(w) /\ (SoleEditor => Good(w))

\* Who may have written what, and how the view of a transaction may differ from the root
PhaseOK(t, r) ==
  /\ r.base <= root.version
  /\ r.phase = "idle" => r = NoTx
  /\ r.phase = "loaded" => r.caches = NoCaches
  /\ r.phase \in {"loaded", "publishing"} => r.touched = {}
  /\ r.phase \in {"storing", "swapping", "lost"} => r.touched # {}
  /\ r.touched # {} => t \in scenario.editors
  /\ SoleEditor /\ t \in scenario.editors => r.foreign = {}
  /\ r.phase \in {"storing", "swapping"} /\ r.base = root.version
       => r.touched \intersect r.foreign = {}
  /\ r.phase # "idle" => Agrees(root.world, r.view, r.touched \union r.foreign)

\* A version is one world, and caches published under it are sound for it
SightOK(t, r) ==
  Reader(r) =>
    /\ r.base = root.version => r.view = root.world
    /\ r.base = pub.version => Sound(r.view, pub.caches)
    /\ \A u \in Threads \ {t} : Reader(tx[u]) /\ tx[u].base = r.base => tx[u].view = r.view

\* The caches of a running transaction are sound for what it sees
CachesOK(r) ==
  r.phase \in {"active", "publishing"} => Sound(r.view, r.caches) /\ r.local \subseteq r.caches.absent

\* Where several edit, an object is removed with all its rows, and what is written
\* belongs to an object that exists
RowsOK(r) ==
  ~SoleEditor =>
    /\ Whole(r.touched) /\ Whole(r.foreign)
    /\ \A o \in Objects :
         /\ <<"object", o>> \in r.touched => o \notin r.view.valid
         /\ \A k \in {"parent", "props", "verbs"} :
              <<k, o>> \in r.touched => <<"object", o>> \in r.touched \/ o \in r.view.valid

\* All that is known of the transaction r of thread t
TxOK(t, r) == PhaseOK(t, r) /\ SightOK(t, r) /\ CachesOK(r) /\ RowsOK(r) /\ ViewOK(r.view)

\* A root never carries caches, and published caches are sound for their version
PlanesOK ==
  /\ root.caches = NoCaches
  /\ pub.version <= root.version \/ pub.caches = NoCaches
  /\ pub.version = root.version => Sound(root.world, pub.caches)
  /\ ViewOK(root.world)

\* The inductive invariant
TreeInv == NumbersKept => PlanesOK /\ \A t \in Threads : TxOK(t, tx[t])

\* What an edit may assume of the view and the caches it works on
Fit(w, c) ==
  NumbersKept /\ Acyclic(w.parent) /\ Sound(w, c) /\ Bare(w) /\ (SoleEditor => Good(w))

\* What an edit yields is a world, caches, and the rows it wrote
EditTyped(w2, c2, rows) ==
  w2 \in World /\ c2 \in Caches /\ rows \in SUBSET (Kind \X Objects) /\ rows # {}

\* Rows that remove objects remove them whole, and others belong to objects that exist
RowsFit(w, w2, rows) ==
  /\ Whole(rows)
  /\ w2.valid = {o \in w.valid : <<"object", o>> \notin rows}
  /\ \A o \in Objects, k \in {"parent", "props", "verbs"} : <<k, o>> \in rows => o \in w.valid

\* What an edit owes the invariant
EditFits(w, c, w2, c2, rows) ==
  /\ Agrees(w, w2, rows)
  /\ c2.absent = c.absent \/ c2.absent = {}
  /\ Sound(w2, c2) /\ Bare(w2)
  /\ SoleEditor => Good(w2)
  /\ ~SoleEditor => RowsFit(w, w2, rows)

\* An edit from w and c to w2 and c2, writing `rows', is well-typed and fits
EditOK(w, c, w2, c2, rows) ==
  EditTyped(w2, c2, rows) /\ (Fit(w, c) => EditFits(w, c, w2, c2, rows))

\* Membership in the rows of one kind
LEMMA RowIs ==
  ASSUME NEW kind, NEW objs
  PROVE  \A k, o : <<k, o>> \in Row(kind, objs) <=> k = kind /\ o \in objs
BY DEF Row

\* Rows have the type that transactions record
LEMMA RowTypes ==
  ASSUME NEW kind \in Kind, NEW objs \in SUBSET Objects
  PROVE  Row(kind, objs) \in SUBSET (Kind \X Objects) /\ (objs # {} => Row(kind, objs) # {})
<1>1. ASSUME NEW r \in Row(kind, objs) PROVE r \in Kind \X Objects  BY DEF Row
<1>2. ASSUME NEW o \in objs PROVE <<kind, o>> \in Row(kind, objs)  BY RowIs
<1> QED BY <1>1, <1>2

\* An object and everything above it
LEMMA AboveIs ==
  ASSUME NEW w \in World, NEW o \in Objects
  PROVE  ToSet(Line(w.parent, o)) = {o} \union ToSet(Above(w, o))
<1> DEFINE l == Line(w.parent, o)
<1>1. PICK h \in 1..Depth : l \in Seq(Objects) /\ Len(l) = h /\ DOMAIN l = 1..h /\ l[1] = o
  BY WorldFacts, LineIs
<1> HIDE DEF l
<1>2. h \in Nat /\ h >= 1  BY <1>1, DepthType
<1>3. l # <<>>  BY <1>1, <1>2
<1>4. Len(Tail(l)) = h - 1 /\ Tail(l) \in Seq(Objects) /\ \A i \in 1..(h - 1) : Tail(l)[i] = l[i + 1]
  BY <1>1, <1>2, <1>3
<1>5. DOMAIN Tail(l) = 1..(h - 1)  BY <1>2, <1>4
<1>6. ASSUME NEW y \in ToSet(l) PROVE y \in {o} \union ToSet(Tail(l))
  <2>1. PICK i \in 1..h : y = l[i]  BY <1>1 DEF ToSet
  <2>2. CASE i = 1  BY <1>1, <2>1, <2>2
  <2>3. CASE i # 1
    <3>1. i - 1 \in 1..(h - 1) /\ (i - 1) + 1 = i  BY <1>2, <2>3
    <3>2. Tail(l)[i - 1] = y  BY <1>4, <2>1, <3>1
    <3> QED BY <1>5, <3>1, <3>2 DEF ToSet
  <2> QED BY <2>2, <2>3
<1>7. ASSUME NEW y \in ToSet(Tail(l)) PROVE y \in ToSet(l)
  <2>1. PICK i \in 1..(h - 1) : y = Tail(l)[i]  BY <1>5 DEF ToSet
  <2>2. i + 1 \in 1..h /\ y = l[i + 1]  BY <1>2, <1>4, <2>1
  <2> QED BY <1>1, <2>2 DEF ToSet
<1>8. o \in ToSet(l)
  <2>1. 1 \in 1..h  BY <1>2
  <2> QED BY <1>1, <2>1 DEF ToSet
<1> QED BY <1>6, <1>7, <1>8 DEF l, Above

\* The branch of o: everything with o on its line
LEMMA BranchIs ==
  ASSUME NEW w \in World, NEW o \in Objects
  PROVE  branch_objects(w, o) = {x \in Objects : o \in ToSet(Line(w.parent, x))}
BY WorldFacts, OnLine DEF branch_objects, descendants

\* Objects outside of a branch have nothing of the branch on their line
LEMMA OffBranch ==
  ASSUME NEW w \in World, Acyclic(w.parent), NEW o \in Objects, NEW x \in Objects,
         x \notin branch_objects(w, o), NEW a \in ToSet(Line(w.parent, x))
  PROVE  a \in Objects /\ a \notin branch_objects(w, o)
<1>1. w.parent \in Edge  BY WorldFacts
<1>2. a \in Objects /\ ToSet(Line(w.parent, a)) \subseteq ToSet(Line(w.parent, x))
  BY <1>1, LineAbove
<1>3. o \notin ToSet(Line(w.parent, x))  BY BranchIs
<1> QED BY <1>2, <1>3, BranchIs

\* Caches answer about parents, properties and verbs only
LEMMA SoundSame ==
  ASSUME NEW w \in World, NEW w2 \in World, NEW c \in Caches, Sound(w, c),
         w2.parent = w.parent, w2.props = w.props, w2.verbs = w.verbs
  PROVE  Sound(w2, c)
<1>1. \A x : KeepsLine(w, w2, x) /\ KeepsProps(w, w2, x) /\ KeepsVerbs(w, w2, x)
  BY DEF KeepsLine, KeepsProps, KeepsVerbs
<1> QED BY <1>1, SoundKept

\* Moving an object fits: caches do not know locations
LEMMA LocationOK ==
  ASSUME NEW w \in World, NEW c \in Caches, NEW o \in Objects, NEW l \in Place,
         Acyclic(w.loc), l # Nothing => o \notin ToSet(Line(w.loc, l)), "move" \in scenario.ops
  PROVE  EditOK(w, c, [w EXCEPT !.loc[o] = l], c, Row("loc", {o}))
<1> DEFINE w2 == [w EXCEPT !.loc[o] = l]
           rows == Row("loc", {o})
<1>1. /\ w.loc \in Edge /\ w2.loc = [w.loc EXCEPT ![o] = l] /\ w2.valid = w.valid
      /\ w2.parent = w.parent /\ w2.props = w.props /\ w2.verbs = w.verbs
  BY DEF World
<1>2. w2.loc \in Edge /\ Acyclic(w2.loc)
  <2>1. [w.loc EXCEPT ![o] = l] \in Edge /\ Acyclic([w.loc EXCEPT ![o] = l])
    BY <1>1, ReparentAcyclic
  <2> QED BY <1>1, <2>1
<1>3. w2 \in World  BY <1>1, <1>2 DEF World
<1>4. EditTyped(w2, c, rows)
  <2>1. "loc" \in Kind /\ {o} \in SUBSET Objects /\ {o} # {}  BY DEF Kind
  <2>2. rows \in SUBSET (Kind \X Objects) /\ rows # {}  BY <2>1, RowTypes
  <2> HIDE DEF w2, rows
  <2> QED BY <1>3, <2>2 DEF EditTyped
<1> HIDE DEF w2
<1>5. ASSUME Fit(w, c) PROVE EditFits(w, c, w2, c, rows)
  <2>1. Agrees(w, w2, rows)
    <3>1. \A x \in Objects : x # o => w2.loc[x] = w.loc[x]  BY <1>1 DEF Edge
    <3>2. \A x \in Objects : <<"loc", x>> \notin rows => x # o  BY RowIs
    <3> QED BY <1>1, <3>1, <3>2 DEF Agrees
  <2>2. Sound(w2, c)  BY <1>1, <1>3, <1>5, SoundSame DEF Fit
  <2>3. Bare(w2)  BY <1>1, <1>5 DEF Fit, Bare
  <2>4. ASSUME SoleEditor PROVE Good(w2)
    <3>1. Good(w)  BY <1>5, <2>4 DEF Fit
    <3>2. TreeOK(w2)  BY <1>1, <3>1 DEF Good, TreeOK
    <3>3. AtHome(w2)  BY <1>1, <3>1 DEF Good, AtHome, VerbRow
    <3>4. NamesOnce(w) => NamesOnce(w2)  BY <1>1 DEF NamesOnce
    <3> QED BY <1>2, <2>3, <3>1, <3>2, <3>3, <3>4 DEF Good
  <2>5. RowsFit(w, w2, rows)
    <3>1. \A k, x : <<k, x>> \in rows => k = "loc"  BY RowIs
    <3> QED BY <1>1, <3>1, WorldFacts DEF RowsFit, Whole
  <2> QED BY <2>1, <2>2, <2>3, <2>4, <2>5 DEF EditFits
<1> QED BY <1>4, <1>5 DEF EditOK, w2

\* Changing the property definitions of some objects of a branch, and forgetting what
\* the branch inherits
LEMMA PropRowsOK ==
  ASSUME NEW w \in World, NEW c \in Caches, NEW c3 \in Caches, NEW o \in Objects,
         NEW D \in SUBSET branch_objects(w, o), D # {}, NEW props2 \in [Objects -> Seq(PropDef)],
         NEW w2, w2 = [w EXCEPT !.props = props2], \A a \in Objects \ D : props2[a] = w.props[a],
         c3.absent = c.absent,
         Fit(w, c) => /\ Sound(w, c3) /\ D \subseteq w.valid
                      /\ SoleEditor => AtHome(w2) /\ ("rename" \notin scenario.ops => NamesOnce(w2))
  PROVE  EditOK(w, c, w2, InvalidateProps(c3, branch_objects(w, o)), Row("props", D))
<1> DEFINE B == branch_objects(w, o)
           c2 == InvalidateProps(c3, B)
           rows == Row("props", D)
<1>1. /\ w2.props = props2 /\ w2.valid = w.valid /\ w2.loc = w.loc
      /\ w2.parent = w.parent /\ w2.verbs = w.verbs
  BY DEF World
<1>2. w2 \in World  BY <1>1 DEF World
<1>3. B \in SUBSET Objects  BY BranchIs
<1>4. c2 \in Caches /\ c2.absent = c.absent
  <2>1. c2 \in Caches  BY InvalidateTypes
  <2> QED BY <2>1 DEF InvalidateProps, Caches
<1>5. EditTyped(w2, c2, rows)
  <2>1. "props" \in Kind /\ D \in SUBSET Objects  BY <1>3 DEF Kind
  <2>2. rows \in SUBSET (Kind \X Objects) /\ rows # {}  BY <2>1, RowTypes
  <2> HIDE DEF c2, rows
  <2> QED BY <1>2, <1>4, <2>2 DEF EditTyped
<1>6. ASSUME Fit(w, c) PROVE EditFits(w, c, w2, c2, rows)
  <2>1. Agrees(w, w2, rows)
    <3>1. \A x \in Objects : <<"props", x>> \notin rows => x \notin D  BY RowIs
    <3> HIDE DEF rows
    <3> QED BY <1>1, <3>1 DEF Agrees
  <2>2. Sound(w2, c2)
    <3>1. Sound(w, c3) /\ Acyclic(w.parent)  BY <1>6 DEF Fit
    <3>2. ASSUME NEW x \in Objects \ B PROVE KeepsProps(w, w2, x)
      <4>1. \A a \in ToSet(Line(w.parent, x)) : a \in Objects /\ a \notin B  BY <3>1, OffBranch
      <4>2. \A a \in ToSet(Line(w.parent, x)) : w2.props[a] = w.props[a]  BY <1>1, <4>1
      <4> QED BY <1>1, <4>2 DEF KeepsProps, KeepsLine
    <3> HIDE DEF B
    <3> QED BY <1>1, <1>2, <3>1, <3>2, PropsSound
  <2>3. Bare(w2)
    <3>1. \A x \in Objects \ w.valid : w2.props[x] = w.props[x]  BY <1>1, <1>6
    <3> QED BY <1>1, <1>6, <3>1 DEF Fit, Bare
  <2>4. ASSUME SoleEditor PROVE Good(w2)
    <3>1. Good(w)  BY <1>6, <2>4 DEF Fit
    <3>2. TreeOK(w2)  BY <1>1, <3>1 DEF Good, TreeOK
    <3>3. LocsExist(w) => LocsExist(w2)  BY <1>1 DEF LocsExist
    <3> QED BY <1>1, <1>6, <2>3, <2>4, <3>1, <3>2, <3>3 DEF Good
  <2>5. RowsFit(w, w2, rows)
    <3>1. \A k, x : <<k, x>> \in rows => k = "props" /\ x \in D  BY RowIs
    <3>2. D \subseteq w.valid  BY <1>6
    <3> HIDE DEF rows
    <3>3. \A x : <<"object", x>> \notin rows  BY <3>1
    <3>4. Whole(rows) /\ w2.valid = {x \in w.valid : <<"object", x>> \notin rows}
      BY <1>1, <3>3 DEF Whole
    <3>5. \A x \in Objects, k \in {"parent", "props", "verbs"} : <<k, x>> \in rows => x \in w.valid
      BY <3>1, <3>2
    <3> QED BY <3>4, <3>5 DEF RowsFit
  <2> HIDE DEF c2, rows
  <2> QED BY <1>4, <2>1, <2>2, <2>3, <2>4, <2>5 DEF EditFits
<1> QED BY <1>5, <1>6 DEF EditOK

\* Changing the verbs of one object, and forgetting what its branch inherits
LEMMA VerbRowOK ==
  ASSUME NEW w \in World, NEW c \in Caches, NEW o \in Objects,
         NEW verbs2 \in [Objects -> Seq(Verb) \union {NoRow}],
         NEW w2, w2 = [w EXCEPT !.verbs = verbs2], \A a \in Objects \ {o} : verbs2[a] = w.verbs[a],
         Fit(w, c) => o \in w.valid /\ (SoleEditor => AtHome(w2))
  PROVE  EditOK(w, c, w2, InvalidateVerbs(c, branch_objects(w, o)), Row("verbs", {o}))
<1> DEFINE B == branch_objects(w, o)
           c2 == InvalidateVerbs(c, B)
           rows == Row("verbs", {o})
<1>1. /\ w2.verbs = verbs2 /\ w2.valid = w.valid /\ w2.loc = w.loc
      /\ w2.parent = w.parent /\ w2.props = w.props
  BY DEF World
<1>2. w2 \in World  BY <1>1 DEF World
<1>3. B \in SUBSET Objects /\ \A x \in Objects \ B : o \notin ToSet(Line(w.parent, x))  BY BranchIs
<1>4. c2 \in Caches /\ (c2.absent = c.absent \/ c2.absent = {})
  <2>1. c2 \in Caches  BY InvalidateTypes
  <2> QED BY <2>1 DEF InvalidateVerbs, Caches
<1>5. EditTyped(w2, c2, rows)
  <2>1. "verbs" \in Kind /\ {o} \in SUBSET Objects /\ {o} # {}  BY DEF Kind
  <2>2. rows \in SUBSET (Kind \X Objects) /\ rows # {}  BY <2>1, RowTypes
  <2> HIDE DEF c2, rows
  <2> QED BY <1>2, <1>4, <2>2 DEF EditTyped
<1>6. ASSUME Fit(w, c) PROVE EditFits(w, c, w2, c2, rows)
  <2>1. Agrees(w, w2, rows)
    <3>1. \A x \in Objects : <<"verbs", x>> \notin rows => x # o  BY RowIs
    <3> HIDE DEF rows
    <3> QED BY <1>1, <3>1 DEF Agrees
  <2>2. Sound(w2, c2)
    <3>1. Sound(w, c)  BY <1>6 DEF Fit
    <3>2. ASSUME NEW x \in Objects \ B PROVE KeepsVerbs(w, w2, x)
      <4>1. ToSet(Line(w.parent, x)) \subseteq Objects  BY WorldFacts, OnLine
      <4>2. \A a \in ToSet(Line(w.parent, x)) : w2.verbs[a] = w.verbs[a]  BY <1>1, <1>3, <4>1
      <4> QED BY <1>1, <4>2 DEF KeepsVerbs, KeepsLine
    <3> HIDE DEF B
    <3> QED BY <1>1, <1>2, <3>1, <3>2, VerbsSound
  <2>3. Bare(w2)
    <3>1. \A x \in Objects \ w.valid : w2.verbs[x] = w.verbs[x]  BY <1>1, <1>6
    <3> QED BY <1>1, <1>6, <3>1 DEF Fit, Bare
  <2>4. ASSUME SoleEditor PROVE Good(w2)
    <3>1. Good(w)  BY <1>6, <2>4 DEF Fit
    <3>2. TreeOK(w2)  BY <1>1, <3>1 DEF Good, TreeOK
    <3>3. LocsExist(w) => LocsExist(w2)  BY <1>1 DEF LocsExist
    <3>4. NamesOnce(w) => NamesOnce(w2)  BY <1>1 DEF NamesOnce
    <3> QED BY <1>1, <1>6, <2>3, <2>4, <3>1, <3>2, <3>3, <3>4 DEF Good
  <2>5. RowsFit(w, w2, rows)
    <3>1. \A k, x : <<k, x>> \in rows => k = "verbs" /\ x = o  BY RowIs
    <3>2. o \in w.valid  BY <1>6
    <3> HIDE DEF rows
    <3>3. \A x : <<"object", x>> \notin rows  BY <3>1
    <3>4. Whole(rows) /\ w2.valid = {x \in w.valid : <<"object", x>> \notin rows}
      BY <1>1, <3>3 DEF Whole
    <3>5. \A x \in Objects, k \in {"parent", "props", "verbs"} : <<k, x>> \in rows => x \in w.valid
      BY <3>1, <3>2
    <3> QED BY <3>4, <3>5 DEF RowsFit
  <2> HIDE DEF c2, rows
  <2> QED BY <1>4, <2>1, <2>2, <2>3, <2>4, <2>5 DEF EditFits
<1> QED BY <1>5, <1>6 DEF EditOK

\* A step of t that makes some edit which fits
SomeEdit(t) ==
  \E op, w2, c2, rows : \E m \in 0..1 :
    Edits(t, op, w2, c2, rows, m) /\ EditOK(tx[t].view, tx[t].caches, w2, c2, rows)

\* The names of definitions
LEMMA NameIn ==
  ASSUME NEW w, NEW objs, NEW a \in objs, NEW i \in DOMAIN w.props[a]
  PROVE  w.props[a][i].name \in PropNames(w, objs)
<1>1. w.props[a][i] \in UNION {ToSet(w.props[x]) : x \in objs}  BY DEF ToSet
<1> QED BY <1>1 DEF PropNames

\* A transaction that runs has a view and caches
LEMMA ViewTypes ==
  ASSUME TypeOK, NEW t \in Threads
  PROVE  tx[t].view \in World /\ tx[t].caches \in Caches /\ minted \in Nat
BY InheritanceConstants DEF TypeOK, Transaction

\* A new name that nothing above or below o has stays the only one of its line
LEMMA DefineNames ==
  ASSUME NEW w \in World, Acyclic(w.parent), NamesOnce(w), NEW o \in Objects, NEW def \in PropDef,
         def.name \notin PropNames(w, branch_objects(w, o) \union ToSet(Above(w, o))),
         NEW w2 \in World, w2.parent = w.parent,
         w2.props = [w.props EXCEPT ![o] = Append(w.props[o], def)]
  PROVE  NamesOnce(w2)
<1> DEFINE R == branch_objects(w, o) \union ToSet(Above(w, o))
           P == w.props[o]
           N == Len(P) + 1
<1>1. w.props \in [Objects -> Seq(PropDef)] /\ w.parent \in Edge  BY WorldFacts
<1>2. P \in Seq(PropDef) /\ Len(P) \in Nat  BY <1>1
<1>3. /\ w2.props[o] = Append(P, def) /\ DOMAIN w2.props[o] = 1..N
      /\ w2.props[o][N] = def /\ DOMAIN P = 1..Len(P)
      /\ \A i \in 1..Len(P) : w2.props[o][i] = P[i]
  BY <1>1, <1>2
<1>4. \A a \in Objects : a # o => w2.props[a] = w.props[a]  BY <1>1
<1> SUFFICES ASSUME NEW x \in Objects, NEW a \in ToSet(Line(w.parent, x)),
                    NEW b \in ToSet(Line(w.parent, x)),
                    NEW i \in DOMAIN w2.props[a], NEW j \in DOMAIN w2.props[b],
                    w2.props[a][i].name = w2.props[b][j].name
             PROVE  a = b /\ i = j
  BY DEF NamesOnce
<1>5. a \in Objects /\ b \in Objects  BY <1>1, OnLine
<1>6. ASSUME NEW y \in ToSet(Line(w.parent, x)), o \in ToSet(Line(w.parent, x)) PROVE y \in R
  <2>1. y \in Objects  BY <1>1, OnLine
  <2>2. y \in ToSet(Line(w.parent, o)) \/ o \in ToSet(Line(w.parent, y))
    BY <1>1, <1>6, Comparable
  <2>3. CASE y \in ToSet(Line(w.parent, o))
    <3>1. y \in {o} \union ToSet(Above(w, o))  BY <2>3, AboveIs
    <3>2. o \in branch_objects(w, o)  BY DEF branch_objects
    <3> QED BY <3>1, <3>2
  <2>4. CASE o \in ToSet(Line(w.parent, y))  BY <2>1, <2>4, BranchIs
  <2> QED BY <2>2, <2>3, <2>4
<1>7. ASSUME NEW y \in ToSet(Line(w.parent, x)), o \in ToSet(Line(w.parent, x)),
             NEW k \in DOMAIN w.props[y]
      PROVE  w.props[y][k].name # def.name
  BY <1>6, <1>7, NameIn
<1> HIDE DEF P, N, R
<1>8. CASE (a = o /\ i = N) /\ (b = o /\ j = N)  BY <1>8
<1>9. CASE (a = o /\ i = N) /\ ~(b = o /\ j = N)
  <2>1. j \in DOMAIN w.props[b] /\ w2.props[b][j] = w.props[b][j]
    <3>1. CASE b = o  BY <1>2, <1>3, <1>9, <3>1 DEF P, N
    <3>2. CASE b # o  BY <1>4, <1>5, <3>2
    <3> QED BY <3>1, <3>2
  <2> QED BY <1>3, <1>7, <1>9, <2>1
<1>10. CASE ~(a = o /\ i = N) /\ (b = o /\ j = N)
  <2>1. i \in DOMAIN w.props[a] /\ w2.props[a][i] = w.props[a][i]
    <3>1. CASE a = o  BY <1>2, <1>3, <1>10, <3>1 DEF P, N
    <3>2. CASE a # o  BY <1>4, <1>5, <3>2
    <3> QED BY <3>1, <3>2
  <2> QED BY <1>3, <1>7, <1>10, <2>1
<1>11. CASE ~(a = o /\ i = N) /\ ~(b = o /\ j = N)
  <2>1. i \in DOMAIN w.props[a] /\ w2.props[a][i] = w.props[a][i]
    <3>1. CASE a = o  BY <1>2, <1>3, <1>11, <3>1 DEF P, N
    <3>2. CASE a # o  BY <1>4, <1>5, <3>2
    <3> QED BY <3>1, <3>2
  <2>2. j \in DOMAIN w.props[b] /\ w2.props[b][j] = w.props[b][j]
    <3>1. CASE b = o  BY <1>2, <1>3, <1>11, <3>1 DEF P, N
    <3>2. CASE b # o  BY <1>4, <1>5, <3>2
    <3> QED BY <3>1, <3>2
  <2> QED BY <2>1, <2>2 DEF NamesOnce
<1> QED BY <1>8, <1>9, <1>10, <1>11

\* Appending adds one element
LEMMA AppendSet ==
  ASSUME NEW S, NEW s \in Seq(S), NEW d \in S
  PROVE  Append(s, d) \in Seq(S) /\ ToSet(Append(s, d)) = ToSet(s) \union {d}
<1> DEFINE r == Append(s, d)
<1>1. Len(s) \in Nat /\ DOMAIN s = 1..Len(s)  OBVIOUS
<1>2. r \in Seq(S) /\ Len(r) = Len(s) + 1  OBVIOUS
<1>3. DOMAIN r = 1..(Len(s) + 1)  BY <1>2, LenProperties
<1>4. r[Len(s) + 1] = d  OBVIOUS
<1>5. \A i \in 1..Len(s) : r[i] = s[i]  OBVIOUS
<1> HIDE DEF r
<1>6. ASSUME NEW y \in ToSet(r) PROVE y \in ToSet(s) \union {d}
  <2>1. PICK i \in 1..(Len(s) + 1) : y = r[i]  BY <1>3 DEF ToSet
  <2>2. i = Len(s) + 1 \/ i \in 1..Len(s)  BY <1>1
  <2> QED BY <1>1, <1>4, <1>5, <2>1, <2>2 DEF ToSet
<1>7. d \in ToSet(r)
  <2>1. Len(s) + 1 \in 1..(Len(s) + 1)  BY <1>1
  <2> QED BY <1>3, <1>4, <2>1 DEF ToSet
<1>8. ASSUME NEW y \in ToSet(s) PROVE y \in ToSet(r)
  <2>1. PICK i \in 1..Len(s) : y = s[i]  BY <1>1 DEF ToSet
  <2>2. i \in 1..(Len(s) + 1) /\ r[i] = y  BY <1>1, <1>5, <2>1
  <2> QED BY <1>3, <2>2 DEF ToSet
<1> QED BY <1>2, <1>6, <1>7, <1>8 DEF r

\* Defining a property is an edit that fits
LEMMA DefineEdit ==
  ASSUME TypeOK, NEW t \in Threads, NEW o \in Objects, NEW n \in Names, define_property(t, o, n)
  PROVE  SomeEdit(t)
<1> DEFINE w == tx[t].view
           c == tx[t].caches
           c3 == FillAncestors(w, c, o)
           def == [id |-> minted + 1, name |-> n, definer |-> o, at |-> o]
           w2 == [w EXCEPT !.props[o] = Append(@, def)]
           props2 == [w.props EXCEPT ![o] = Append(w.props[o], def)]
           B == branch_objects(w, o)
<1>1. w \in World /\ c \in Caches /\ def \in PropDef  BY ViewTypes DEF PropDef
<1>2. /\ o \in w.valid
      /\ n \notin PropNames(w, branch_objects(w, o) \union ToSet(Ancestors(w, c, o)))
      /\ Edits(t, "define", w2, InvalidateProps(c3, B), Row("props", {o}), 1)
  BY DEF define_property
<1>3. w.props \in [Objects -> Seq(PropDef)]  BY <1>1, WorldFacts
<1>4. /\ props2 \in [Objects -> Seq(PropDef)] /\ w2 = [w EXCEPT !.props = props2]
      /\ \A a \in Objects \ {o} : props2[a] = w.props[a]
      /\ props2[o] = Append(w.props[o], def)
  <2> HIDE DEF w, def
  <2>1. w.props[o] \in Seq(PropDef)  BY <1>3
  <2>2. Append(w.props[o], def) \in Seq(PropDef)  BY <1>1, <2>1
  <2> QED BY <1>1, <1>3, <2>2 DEF World
<1>5. c3 \in Caches /\ c3.absent = c.absent
  <2> HIDE DEF w, c
  <2> QED BY <1>1, FillTypes
<1>6. {o} \in SUBSET B /\ {o} # {}  BY DEF branch_objects
<1> HIDE DEF w, c, c3, def, w2, props2, B
<1>7. w2 \in World /\ w2.props = props2 /\ w2.parent = w.parent /\ w2.verbs = w.verbs
  BY <1>1, <1>4 DEF World
<1>8. ASSUME Fit(w, c)
      PROVE  /\ Sound(w, c3) /\ {o} \subseteq w.valid
             /\ SoleEditor => AtHome(w2) /\ ("rename" \notin scenario.ops => NamesOnce(w2))
  <2>1. Sound(w, c) /\ Acyclic(w.parent)  BY <1>8 DEF Fit
  <2>2. Ancestors(w, c, o) = Above(w, o) /\ Sound(w, c3)  BY <1>1, <2>1, AncestorsSound DEF c3
  <2>3. ASSUME SoleEditor PROVE AtHome(w2)
    <3>1. AtHome(w)  BY <1>8, <2>3 DEF Fit, Good
    <3>2. \A a \in Objects : VerbRow(w2, a) = VerbRow(w, a)  BY <1>7 DEF VerbRow
    <3>3. ToSet(props2[o]) = ToSet(w.props[o]) \union {def}
      <4>1. w.props[o] \in Seq(PropDef)  BY <1>3
      <4>2. ToSet(Append(w.props[o], def)) = ToSet(w.props[o]) \union {def}
        BY <1>1, <4>1, AppendSet
      <4>3. props2[o] = Append(w.props[o], def)  BY <1>4
      <4> QED BY <4>2, <4>3
    <3>4. def.definer = o  BY DEF def
    <3> QED BY <1>4, <1>7, <3>1, <3>2, <3>3, <3>4 DEF AtHome
  <2>4. ASSUME SoleEditor, "rename" \notin scenario.ops PROVE NamesOnce(w2)
    <3>1. NamesOnce(w)  BY <1>8, <2>4 DEF Fit, Good
    <3>2. def.name \notin PropNames(w, branch_objects(w, o) \union ToSet(Above(w, o)))
      BY <1>2, <2>2 DEF def
    <3> QED BY <1>1, <1>7, <2>1, <3>1, <3>2, DefineNames DEF props2
  <2> QED BY <1>2, <2>2, <2>3, <2>4
<1>9. EditOK(w, c, w2, InvalidateProps(c3, branch_objects(w, o)), Row("props", {o}))
  BY <1>1, <1>4, <1>5, <1>6, <1>8, PropRowsOK DEF B
<1>10. 1 \in 0..1  OBVIOUS
<1> QED BY <1>2, <1>9, <1>10 DEF SomeEdit, B, w, c

\* Replacing one element of a sequence
LEMMA ReplaceIs ==
  ASSUME NEW S, NEW s \in Seq(S), NEW i \in DOMAIN s, NEW d \in S
  PROVE  /\ [s EXCEPT ![i] = d] \in Seq(S)
         /\ ToSet([s EXCEPT ![i] = d]) \subseteq ToSet(s) \union {d}
<1>1. [s EXCEPT ![i] = d] \in Seq(S)  BY ExceptSeq
<1>2. \A k \in DOMAIN s : [s EXCEPT ![i] = d][k] \in ToSet(s) \union {d}  BY DEF ToSet
<1> QED BY <1>1, <1>2 DEF ToSet

\* Every element of s2 is an element of s, at a place of its own
Thinner(s2, s) ==
  \E f \in [DOMAIN s2 -> DOMAIN s] :
    /\ \A k \in DOMAIN s2 : s2[k] = s[f[k]]
    /\ \A j, k \in DOMAIN s2 : f[j] = f[k] => j = k

\* A sequence without one of its elements
LEMMA RemoveAtIs ==
  ASSUME NEW S, NEW s \in Seq(S), NEW i \in DOMAIN s
  PROVE  RemoveAt(s, i) \in Seq(S) /\ Thinner(RemoveAt(s, i), s)
<1> DEFINE a == SubSeq(s, 1, i - 1)
           b == SubSeq(s, i + 1, Len(s))
           r == a \o b
<1>1. Len(s) \in Nat /\ DOMAIN s = 1..Len(s) /\ i \in 1..Len(s) /\ \A k \in 1..Len(s) : s[k] \in S
  BY LenProperties
<1>2. a \in Seq(S) /\ Len(a) = i - 1 /\ \A k \in 1..(i - 1) : a[k] = s[k]
  <2>1. 1 \in Int /\ i - 1 \in Int /\ \A k \in 1..(i - 1) : s[k] \in S  BY <1>1
  <2>2. /\ a \in Seq(S) /\ Len(a) = IF 1 <= i - 1 THEN (i - 1) - 1 + 1 ELSE 0
        /\ \A k \in 1..((i - 1) - 1 + 1) : a[k] = s[1 + k - 1]
    BY <2>1, SubSeqProperties
  <2> HIDE DEF a
  <2>3. i \in Int /\ 1 <= i /\ (i - 1) - 1 + 1 = i - 1 /\ \A k \in Int : 1 + k - 1 = k  BY <1>1
  <2>4. Len(a) = i - 1  BY <2>2, <2>3
  <2>5. \A k \in 1..(i - 1) : a[k] = s[k]  BY <2>2, <2>3
  <2> QED BY <2>2, <2>4, <2>5
<1>3. b \in Seq(S) /\ Len(b) = Len(s) - i /\ \A k \in 1..(Len(s) - i) : b[k] = s[k + i]
  <2>1. i + 1 \in Int /\ Len(s) \in Int /\ \A k \in (i + 1)..Len(s) : s[k] \in S  BY <1>1
  <2>2. /\ b \in Seq(S) /\ Len(b) = IF i + 1 <= Len(s) THEN Len(s) - (i + 1) + 1 ELSE 0
        /\ \A k \in 1..(Len(s) - (i + 1) + 1) : b[k] = s[(i + 1) + k - 1]
    BY <2>1, SubSeqProperties
  <2> HIDE DEF b
  <2>3. i \in Int /\ i <= Len(s) /\ Len(s) - (i + 1) + 1 = Len(s) - i  BY <1>1
  <2>4. Len(b) = Len(s) - i
    <3>1. CASE i + 1 <= Len(s)  BY <2>2, <2>3, <3>1
    <3>2. CASE ~(i + 1 <= Len(s))
      <4>1. Len(s) - i = 0  BY <2>1, <2>3, <3>2
      <4> QED BY <2>2, <3>2, <4>1
    <3> QED BY <3>1, <3>2
  <2>5. ASSUME NEW k \in 1..(Len(s) - i) PROVE b[k] = s[k + i]
    <3>1. (i + 1) + k - 1 = k + i  BY <2>3
    <3> QED BY <2>2, <2>3, <3>1
  <2> QED BY <2>2, <2>4, <2>5
<1> HIDE DEF a, b
<1>4. /\ r \in Seq(S) /\ Len(r) = Len(a) + Len(b)
      /\ \A k \in 1..(Len(a) + Len(b)) : r[k] = IF k <= Len(a) THEN a[k] ELSE b[k - Len(a)]
  BY <1>2, <1>3, ConcatProperties
<1>5. DOMAIN r = 1..Len(r) /\ Len(r) = Len(s) - 1  BY <1>1, <1>2, <1>3, <1>4, LenProperties
<1> HIDE DEF r
<1> DEFINE f == [k \in 1..(Len(s) - 1) |-> IF k < i THEN k ELSE k + 1]
<1>6. f \in [DOMAIN r -> DOMAIN s]  BY <1>1, <1>5
<1>7. ASSUME NEW k \in 1..(Len(s) - 1) PROVE r[k] = s[f[k]]
  <2>1. CASE k < i
    <3>1. k \in 1..(i - 1) /\ k <= Len(a) /\ f[k] = k  BY <1>1, <1>2, <2>1
    <3> HIDE DEF f
    <3>2. r[k] = a[k]  BY <1>1, <1>4, <1>5, <3>1
    <3> QED BY <1>2, <3>1, <3>2
  <2>2. CASE ~(k < i)
    <3>1. k - (i - 1) \in 1..(Len(s) - i) /\ ~(k <= Len(a)) /\ f[k] = k + 1
          /\ (k - (i - 1)) + i = k + 1
      BY <1>1, <1>2, <2>2
    <3> HIDE DEF f
    <3>2. r[k] = b[k - (i - 1)]  BY <1>1, <1>2, <1>4, <1>5, <3>1
    <3> QED BY <1>3, <3>1, <3>2
  <2> QED BY <2>1, <2>2
<1>8. \A j, k \in 1..(Len(s) - 1) : f[j] = f[k] => j = k  BY <1>1
<1> HIDE DEF f
<1>9. Thinner(r, s)  BY <1>5, <1>6, <1>7, <1>8 DEF Thinner
<1> QED BY <1>4, <1>9 DEF r, a, b, RemoveAt

\* The elements of a thinned sequence are elements of the sequence
LEMMA ThinnerSet ==
  ASSUME NEW s, NEW s2, Thinner(s2, s)
  PROVE  ToSet(s2) \subseteq ToSet(s)
BY DEF Thinner, ToSet

\* Nothing is dropped
LEMMA ThinnerSelf == \A s : Thinner(s, s)
<1> TAKE s
<1> DEFINE f == [k \in DOMAIN s |-> k]
<1>1. f \in [DOMAIN s -> DOMAIN s] /\ \A k \in DOMAIN s : s[k] = s[f[k]]  OBVIOUS
<1>2. \A j, k \in DOMAIN s : f[j] = f[k] => j = k  OBVIOUS
<1> QED BY <1>1, <1>2 DEF Thinner

\* The row of definitions s without the first of one identity
WithoutId(s, id) == RemoveFirstMatch(s, LAMBDA d : d.id = id)

\* It is a row of some of these definitions
LEMMA WithoutIdIs ==
  ASSUME NEW s \in Seq(PropDef), NEW id
  PROVE  WithoutId(s, id) \in Seq(PropDef) /\ Thinner(WithoutId(s, id), s)
<1> DEFINE I == {i \in 1..Len(s) : s[i].id = id}
           r == WithoutId(s, id)
<1>1. r = IF \E i \in 1..Len(s) : s[i].id = id
          THEN RemoveAt(s, IF I # {} THEN Min(I) ELSE 0) ELSE s
  BY DEF WithoutId, RemoveFirstMatch, SelectInSeq
<1>2. CASE I = {}
  <2>1. r = s  BY <1>1, <1>2
  <2> QED BY <2>1, ThinnerSelf
<1>3. CASE I # {}
  <2>1. r = RemoveAt(s, Min(I))  BY <1>1, <1>3
  <2>2. Min(I) \in 1..Len(s)
    <3>1. I \in SUBSET Nat /\ I \subseteq 1..Len(s)  OBVIOUS
    <3> HIDE DEF I
    <3> QED BY <1>3, <3>1, MinIs
  <2>3. Min(I) \in DOMAIN s  BY <2>2, LenProperties
  <2> HIDE DEF I
  <2>4. RemoveAt(s, Min(I)) \in Seq(PropDef) /\ Thinner(RemoveAt(s, Min(I)), s)
    BY <2>3, RemoveAtIs
  <2> QED BY <2>1, <2>4
<1> QED BY <1>2, <1>3

\* Objects that have definitions exist
LEMMA OwnersExist ==
  ASSUME NEW w \in World, Bare(w), NEW o \in Objects
  PROVE  /\ w.props[o] # <<>> => o \in w.valid
         /\ VerbRow(w, o) # <<>> => o \in w.valid
BY DEF Bare, VerbRow

\* Renaming a property is an edit that fits
LEMMA RenameEdit ==
  ASSUME TypeOK, NEW t \in Threads, NEW o \in Objects, NEW n \in Names,
         NEW i \in DOMAIN tx[t].view.props[o], update_property_info(t, o, i, n)
  PROVE  SomeEdit(t)
<1> DEFINE w == tx[t].view
           c == tx[t].caches
           B == branch_objects(w, o)
           def == [w.props[o][i] EXCEPT !.name = n]
           props2 == [w.props EXCEPT ![o] = [w.props[o] EXCEPT ![i] = def]]
           w2 == [w EXCEPT !.props[o][i].name = n]
<1>1. w \in World /\ c \in Caches  BY ViewTypes
<1>2. "rename" \in scenario.ops /\ Edits(t, "rename", w2, InvalidateProps(c, B), Row("props", {o}), 0)
  BY DEF update_property_info, Edits
<1>3. w.props \in [Objects -> Seq(PropDef)] /\ w.props[o] \in Seq(PropDef)  BY <1>1, WorldFacts
<1>4. w2 = [w EXCEPT !.props = props2]  BY <1>1, <1>3 DEF World
<1>0. i \in DOMAIN w.props[o]  OBVIOUS
<1>5. w.props[o][i] \in PropDef /\ def \in PropDef /\ def.definer = w.props[o][i].definer
      /\ w.props[o][i] \in ToSet(w.props[o])
  <2> HIDE DEF w
  <2>1. w.props[o][i] \in PropDef  BY <1>0, <1>3, LenProperties, ElementOfSeq
  <2>2. w.props[o][i] \in ToSet(w.props[o])  BY <1>0 DEF ToSet
  <2>3. ASSUME NEW d \in PropDef
        PROVE  [d EXCEPT !.name = n] \in PropDef /\ [d EXCEPT !.name = n].definer = d.definer
    BY DEF PropDef
  <2> QED BY <2>1, <2>2, <2>3
<1> HIDE DEF w, c, w2, def
<1>6. /\ [w.props[o] EXCEPT ![i] = def] \in Seq(PropDef)
      /\ ToSet([w.props[o] EXCEPT ![i] = def]) \subseteq ToSet(w.props[o]) \union {def}
  BY <1>0, <1>3, <1>5, ReplaceIs
<1>7. /\ props2 \in [Objects -> Seq(PropDef)]
      /\ \A a \in Objects \ {o} : props2[a] = w.props[a]
      /\ props2[o] = [w.props[o] EXCEPT ![i] = def]
  BY <1>3, <1>6
<1>8. {o} \in SUBSET B /\ {o} # {}  BY DEF branch_objects
<1> HIDE DEF props2, B
<1>9. w2.props = props2 /\ w2.verbs = w.verbs  BY <1>1, <1>4 DEF World
<1>10. ASSUME Fit(w, c)
      PROVE  /\ Sound(w, c) /\ {o} \subseteq w.valid
             /\ SoleEditor => AtHome(w2) /\ ("rename" \notin scenario.ops => NamesOnce(w2))
  <2>1. Sound(w, c) /\ Bare(w)  BY <1>10 DEF Fit
  <2>2. w.props[o] # <<>>  BY <1>0
  <2>3. ASSUME SoleEditor PROVE AtHome(w2)
    <3>1. AtHome(w)  BY <1>10, <2>3 DEF Fit, Good
    <3>2. \A a \in Objects : VerbRow(w2, a) = VerbRow(w, a)  BY <1>9 DEF VerbRow
    <3>3. \A d \in ToSet(w2.props[o]) : d.definer = o  BY <1>5, <1>6, <1>7, <1>9, <3>1 DEF AtHome
    <3> QED BY <1>7, <1>9, <3>1, <3>2, <3>3 DEF AtHome
  <2> QED BY <1>1, <1>2, <2>1, <2>2, <2>3, OwnersExist
<1>11. EditOK(w, c, w2, InvalidateProps(c, branch_objects(w, o)), Row("props", {o}))
  BY <1>1, <1>4, <1>7, <1>8, <1>10, PropRowsOK DEF B
<1>12. 0 \in 0..1  OBVIOUS
<1> QED BY <1>2, <1>11, <1>12 DEF SomeEdit, B, w, c

\* Fewer definitions have fewer names in common
LEMMA ThinnerNames ==
  ASSUME NEW w \in World, NEW w2 \in World, w2.parent = w.parent, NamesOnce(w),
         \A a \in Objects : Thinner(w2.props[a], w.props[a])
  PROVE  NamesOnce(w2)
<1> SUFFICES ASSUME NEW x \in Objects, NEW a \in ToSet(Line(w.parent, x)),
                    NEW b \in ToSet(Line(w.parent, x)),
                    NEW i \in DOMAIN w2.props[a], NEW j \in DOMAIN w2.props[b],
                    w2.props[a][i].name = w2.props[b][j].name
             PROVE  a = b /\ i = j
  BY DEF NamesOnce
<1>1. a \in Objects /\ b \in Objects  BY WorldFacts, OnLine
<1>2. PICK f \in [DOMAIN w2.props[a] -> DOMAIN w.props[a]] :
         /\ \A k \in DOMAIN w2.props[a] : w2.props[a][k] = w.props[a][f[k]]
         /\ \A k, l \in DOMAIN w2.props[a] : f[k] = f[l] => k = l
  BY <1>1 DEF Thinner
<1>3. PICK g \in [DOMAIN w2.props[b] -> DOMAIN w.props[b]] :
         \A k \in DOMAIN w2.props[b] : w2.props[b][k] = w.props[b][g[k]]
  BY <1>1 DEF Thinner
<1>4. a = b
  <2>1. f[i] \in DOMAIN w.props[a] /\ g[j] \in DOMAIN w.props[b]  BY <1>2, <1>3
  <2>2. w.props[a][f[i]].name = w.props[b][g[j]].name  BY <1>2, <1>3
  <2> QED BY <2>1, <2>2 DEF NamesOnce
<1>5. f[i] \in DOMAIN w.props[a] /\ f[j] \in DOMAIN w.props[a]
      /\ w.props[a][f[i]].name = w.props[a][f[j]].name
  BY <1>2, <1>4
<1>6. f[i] = f[j]  BY <1>5 DEF NamesOnce
<1> QED BY <1>2, <1>4, <1>6

\* Deleting a property is an edit that fits
LEMMA DeletePropertyEdit ==
  ASSUME TypeOK, NEW t \in Threads, NEW o \in Objects,
         NEW i \in DOMAIN tx[t].view.props[o], delete_property(t, o, i)
  PROVE  SomeEdit(t)
<1> DEFINE w == tx[t].view
           c == tx[t].caches
           B == branch_objects(w, o)
           id == w.props[o][i].id
           props2 == [x \in Objects |-> IF x \in branch_objects(w, o)
                        THEN WithoutId(w.props[x], id) ELSE w.props[x]]
           w2 == [w EXCEPT !.props = props2]
           D == {x \in branch_objects(w, o) : w.props[x] # <<>>}
<1>1. w \in World /\ c \in Caches  BY ViewTypes
<1>2. Edits(t, "define", w2, InvalidateProps(c, B), Row("props", D), 0)
  BY DEF delete_property, WithoutId
<1>3. w.props \in [Objects -> Seq(PropDef)]  BY <1>1, WorldFacts
<1>0. i \in DOMAIN w.props[o]  OBVIOUS
<1> HIDE DEF w, c
<1>4. ASSUME NEW x \in Objects PROVE props2[x] \in Seq(PropDef) /\ Thinner(props2[x], w.props[x])
  <2>1. w.props[x] \in Seq(PropDef)  BY <1>3
  <2>2. WithoutId(w.props[x], id) \in Seq(PropDef) /\ Thinner(WithoutId(w.props[x], id), w.props[x])
    BY <2>1, WithoutIdIs
  <2> QED BY <2>1, <2>2, ThinnerSelf
<1>5. D \in SUBSET B /\ D # {}
  <2>1. o \in D  BY <1>0 DEF branch_objects
  <2> QED BY <2>1
<1>6. ASSUME NEW x \in Objects \ D PROVE props2[x] = w.props[x]
  <2>1. CASE x \notin branch_objects(w, o)  BY <2>1
  <2>2. CASE w.props[x] = <<>>
    <3>1. props2[x] \in Seq(PropDef) /\ Thinner(props2[x], <<>>)  BY <1>4, <2>2
    <3> HIDE DEF props2
    <3>2. PICK f \in [DOMAIN props2[x] -> DOMAIN <<>>] : TRUE  BY <3>1 DEF Thinner
    <3>3. \A k \in DOMAIN props2[x] : f[k] \in {}  BY <3>2
    <3>4. Len(props2[x]) = 0
      <4>1. Len(props2[x]) \in Nat /\ DOMAIN props2[x] = 1..Len(props2[x])  BY <3>1, LenProperties
      <4>2. Len(props2[x]) # 0 => 1 \in DOMAIN props2[x]  BY <4>1
      <4> QED BY <3>3, <4>1, <4>2
    <3> QED BY <2>2, <3>1, <3>4, EmptySeq
  <2> QED BY <2>1, <2>2
<1>7. props2 \in [Objects -> Seq(PropDef)]  BY <1>4
<1>8. w2.props = props2 /\ w2.verbs = w.verbs /\ w2.parent = w.parent  BY <1>1 DEF World
<1> HIDE DEF props2, B
<1>9. w2 \in World  BY <1>1, <1>7 DEF World
<1>10. D \in SUBSET Objects  BY <1>1, BranchIs
<1>11. ASSUME Fit(w, c)
      PROVE  /\ Sound(w, c) /\ D \subseteq w.valid
             /\ SoleEditor => AtHome(w2) /\ ("rename" \notin scenario.ops => NamesOnce(w2))
  <2>1. Sound(w, c) /\ Bare(w)  BY <1>11 DEF Fit
  <2>2. D \subseteq w.valid  BY <1>1, <1>10, <2>1, OwnersExist
  <2>3. ASSUME SoleEditor PROVE AtHome(w2)
    <3>1. AtHome(w)  BY <1>11, <2>3 DEF Fit, Good
    <3>2. \A a \in Objects : VerbRow(w2, a) = VerbRow(w, a)  BY <1>8 DEF VerbRow
    <3>3. \A a \in Objects : ToSet(w2.props[a]) \subseteq ToSet(w.props[a])
      BY <1>4, <1>8, ThinnerSet
    <3> QED BY <3>1, <3>2, <3>3 DEF AtHome
  <2>4. ASSUME SoleEditor, "rename" \notin scenario.ops PROVE NamesOnce(w2)
    <3>1. NamesOnce(w)  BY <1>11, <2>4 DEF Fit, Good
    <3> HIDE DEF w2
    <3> QED BY <1>1, <1>4, <1>8, <1>9, <3>1, ThinnerNames
  <2> QED BY <2>1, <2>2, <2>3, <2>4
<1> HIDE DEF D
<1>12. EditOK(w, c, w2, InvalidateProps(c, branch_objects(w, o)), Row("props", D))
  BY <1>1, <1>5, <1>6, <1>7, <1>11, PropRowsOK DEF B
<1>13. 0 \in 0..1  OBVIOUS
<1> QED BY <1>2, <1>12, <1>13 DEF SomeEdit, B, w, c

\* Adding a verb is an edit that fits
LEMMA AddVerbEdit ==
  ASSUME TypeOK, NEW t \in Threads, NEW o \in Objects, NEW n \in Names, NEW x \in BOOLEAN,
         add_object_verb(t, o, n, x)
  PROVE  SomeEdit(t)
<1> DEFINE w == tx[t].view
           c == tx[t].caches
           verb == [id |-> minted + 1, name |-> n, exec |-> x, at |-> o]
           w2 == [w EXCEPT !.verbs[o] = Append(VerbRow(w, o), verb)]
           verbs2 == [w.verbs EXCEPT ![o] = Append(VerbRow(w, o), verb)]
<1>1. w \in World /\ c \in Caches /\ verb \in Verb /\ verb.at = o  BY ViewTypes DEF Verb
<1>2. /\ o \in w.valid
      /\ Edits(t, "verbs", w2, InvalidateVerbs(c, branch_objects(w, o)), Row("verbs", {o}), 1)
  BY DEF add_object_verb
<1> HIDE DEF w, c, verb
<1>3. w.verbs \in [Objects -> Seq(Verb) \union {NoRow}] /\ VerbRow(w, o) \in Seq(Verb)
  BY <1>1, WorldFacts
<1>4. /\ Append(VerbRow(w, o), verb) \in Seq(Verb)
      /\ ToSet(Append(VerbRow(w, o), verb)) = ToSet(VerbRow(w, o)) \union {verb}
  BY <1>1, <1>3, AppendSet
<1>5. /\ verbs2 \in [Objects -> Seq(Verb) \union {NoRow}]
      /\ w2 = [w EXCEPT !.verbs = verbs2]
      /\ \A a \in Objects \ {o} : verbs2[a] = w.verbs[a]
      /\ verbs2[o] = Append(VerbRow(w, o), verb)
  BY <1>1, <1>3, <1>4 DEF World
<1> HIDE DEF w2, verbs2
<1>6. w2.verbs = verbs2 /\ w2.props = w.props  BY <1>1, <1>5 DEF World
<1>7. ASSUME Fit(w, c), SoleEditor PROVE AtHome(w2)
  <2>1. AtHome(w)  BY <1>7 DEF Fit, Good
  <2>2. \A a \in Objects \ {o} : VerbRow(w2, a) = VerbRow(w, a)  BY <1>5, <1>6 DEF VerbRow
  <2>3. ASSUME NEW v \in ToSet(VerbRow(w2, o)) PROVE v.at = o
    <3>1. VerbRow(w2, o) = <<>> \/ VerbRow(w2, o) = Append(VerbRow(w, o), verb)
      BY <1>5, <1>6 DEF VerbRow
    <3>2. ToSet(<<>>) = {}  BY DEF ToSet
    <3>3. v \in ToSet(VerbRow(w, o)) \union {verb}  BY <1>4, <2>3, <3>1, <3>2
    <3> QED BY <1>1, <2>1, <3>3 DEF AtHome
  <2> QED BY <1>6, <2>1, <2>2, <2>3 DEF AtHome
<1>8. EditOK(w, c, w2, InvalidateVerbs(c, branch_objects(w, o)), Row("verbs", {o}))
  BY <1>1, <1>2, <1>5, <1>7, VerbRowOK
<1>9. 1 \in 0..1  OBVIOUS
<1> QED BY <1>2, <1>8, <1>9 DEF SomeEdit, w, c

\* Replacing the row of verbs of o by another one, of verbs at o, is an edit that fits
LEMMA VerbRowEdit ==
  ASSUME TypeOK, NEW t \in Threads, NEW o \in Objects, NEW row \in Seq(Verb),
         VerbRow(tx[t].view, o) # <<>>,
         \A v \in ToSet(row) : \E u \in ToSet(VerbRow(tx[t].view, o)) : v.at = u.at,
         NEW w2, w2 = [tx[t].view EXCEPT !.verbs[o] = row],
         Edits(t, "verbs", w2,
               InvalidateVerbs(tx[t].caches, branch_objects(tx[t].view, o)), Row("verbs", {o}), 0)
  PROVE  SomeEdit(t)
<1> DEFINE w == tx[t].view
           c == tx[t].caches
           verbs2 == [w.verbs EXCEPT ![o] = row]
<1>1. w \in World /\ c \in Caches  BY ViewTypes
<1>2. /\ VerbRow(w, o) # <<>>
      /\ \A v \in ToSet(row) : \E u \in ToSet(VerbRow(w, o)) : v.at = u.at
      /\ w2 = [w EXCEPT !.verbs = verbs2]
      /\ Edits(t, "verbs", w2, InvalidateVerbs(c, branch_objects(w, o)), Row("verbs", {o}), 0)
  BY <1>1 DEF World
<1> HIDE DEF w, c
<1>3. w.verbs \in [Objects -> Seq(Verb) \union {NoRow}]  BY <1>1, WorldFacts
<1>5. /\ verbs2 \in [Objects -> Seq(Verb) \union {NoRow}]
      /\ \A a \in Objects \ {o} : verbs2[a] = w.verbs[a]
      /\ verbs2[o] = row
  BY <1>3
<1> HIDE DEF verbs2
<1>6. w2.verbs = verbs2 /\ w2.props = w.props  BY <1>1, <1>2 DEF World
<1>7. ASSUME Fit(w, c) PROVE o \in w.valid /\ (SoleEditor => AtHome(w2))
  <2>0. o \in w.valid  BY <1>1, <1>2, <1>7, OwnersExist DEF Fit
  <2> SUFFICES ASSUME SoleEditor PROVE AtHome(w2)  BY <2>0
  <2>1. AtHome(w)  BY <1>7 DEF Fit, Good
  <2>2. \A a \in Objects \ {o} : VerbRow(w2, a) = VerbRow(w, a)  BY <1>5, <1>6 DEF VerbRow
  <2>3. ASSUME NEW v \in ToSet(VerbRow(w2, o)) PROVE v.at = o
    <3>1. VerbRow(w2, o) = <<>> \/ VerbRow(w2, o) = row  BY <1>5, <1>6 DEF VerbRow
    <3>2. ToSet(<<>>) = {}  BY DEF ToSet
    <3>3. v \in ToSet(row)  BY <2>3, <3>1, <3>2
    <3> QED BY <1>2, <2>1, <3>3 DEF AtHome
  <2> QED BY <1>6, <2>1, <2>2, <2>3 DEF AtHome
<1>8. EditOK(w, c, w2, InvalidateVerbs(c, branch_objects(w, o)), Row("verbs", {o}))
  BY <1>1, <1>2, <1>5, <1>7, VerbRowOK
<1>9. 0 \in 0..1  OBVIOUS
<1> QED BY <1>2, <1>8, <1>9 DEF SomeEdit, w, c

\* Updating a verb is an edit that fits
LEMMA UpdateVerbEdit ==
  ASSUME TypeOK, NEW t \in Threads, NEW o \in Objects, NEW n \in Names, NEW x \in BOOLEAN,
         NEW i \in DOMAIN VerbRow(tx[t].view, o), update_verb(t, o, i, n, x)
  PROVE  SomeEdit(t)
<1> DEFINE w == tx[t].view
           s == w.verbs[o]
           d == [[s[i] EXCEPT !.name = n] EXCEPT !.exec = x]
           row == [s EXCEPT ![i] = d]
           w2 == [w EXCEPT !.verbs[o][i].name = n, !.verbs[o][i].exec = x]
<1>1. w \in World  BY ViewTypes
<1>2. Edits(t, "verbs", w2, InvalidateVerbs(tx[t].caches, branch_objects(w, o)), Row("verbs", {o}), 0)
  BY DEF update_verb
<1>0. i \in DOMAIN VerbRow(w, o)  OBVIOUS
<1>3. w.verbs \in [Objects -> Seq(Verb) \union {NoRow}] /\ VerbRow(w, o) \in Seq(Verb)
  BY <1>1, WorldFacts
<1>4. VerbRow(w, o) = s /\ s # <<>>
  <2> HIDE DEF w
  <2> QED BY <1>0 DEF VerbRow
<1>5. s \in Seq(Verb) /\ i \in DOMAIN s  BY <1>0, <1>3, <1>4
<1> HIDE DEF w, s
<1>6. s[i] \in Verb /\ s[i] \in ToSet(s)
  BY <1>5, LenProperties, ElementOfSeq DEF ToSet
<1>7. ASSUME NEW v \in Verb
      PROVE  /\ [[v EXCEPT !.name = n] EXCEPT !.exec = x] \in Verb
             /\ [[v EXCEPT !.name = n] EXCEPT !.exec = x].at = v.at
  BY DEF Verb
<1>8. d \in Verb /\ d.at = s[i].at  BY <1>6, <1>7
<1>9. w2 = [w EXCEPT !.verbs[o] = row]
  <2>1. s \in [1..Len(s) -> Verb] /\ i \in 1..Len(s)  BY <1>5, LenProperties
  <2> DEFINE s1 == [s EXCEPT ![i] = [s[i] EXCEPT !.name = n]]
  <2>2. [s1 EXCEPT ![i] = [s1[i] EXCEPT !.exec = x]] = row
    <3>1. s1[i] = [s[i] EXCEPT !.name = n]  BY <2>1
    <3> QED BY <2>1, <3>1
  <2>3. w2 = [[w EXCEPT !.verbs[o] = s1] EXCEPT !.verbs[o] = [s1 EXCEPT ![i] = [s1[i] EXCEPT !.exec = x]]]
    BY <1>1, <1>3 DEF World, s
  <2> HIDE DEF s1, row, w2
  <2>4. w2 = [[w EXCEPT !.verbs[o] = s1] EXCEPT !.verbs[o] = row]  BY <2>2, <2>3
  <2>5. ASSUME NEW a, NEW b
        PROVE  [[w EXCEPT !.verbs[o] = a] EXCEPT !.verbs[o] = b] = [w EXCEPT !.verbs[o] = b]
    BY <1>1, <1>3 DEF World
  <2> QED BY <2>4, <2>5
<1> HIDE DEF d
<1>10. row \in Seq(Verb) /\ ToSet(row) \subseteq ToSet(s) \union {d}  BY <1>5, <1>8, ReplaceIs
<1>11. \A v \in ToSet(row) : \E u \in ToSet(VerbRow(w, o)) : v.at = u.at
  BY <1>4, <1>6, <1>8, <1>10
<1> HIDE DEF row, w2
<1>12. VerbRow(w, o) # <<>>  BY <1>4
<1> QED BY <1>2, <1>9, <1>10, <1>11, <1>12, VerbRowEdit DEF w

\* Deleting a verb is an edit that fits
LEMMA DeleteVerbEdit ==
  ASSUME TypeOK, NEW t \in Threads, NEW o \in Objects,
         NEW i \in DOMAIN VerbRow(tx[t].view, o), delete_verb(t, o, i)
  PROVE  SomeEdit(t)
<1> DEFINE w == tx[t].view
           row == RemoveAt(w.verbs[o], i)
           w2 == [w EXCEPT !.verbs[o] = RemoveAt(@, i)]
<1>1. w \in World  BY ViewTypes
<1>2. Edits(t, "verbs", w2, InvalidateVerbs(tx[t].caches, branch_objects(w, o)), Row("verbs", {o}), 0)
  BY DEF delete_verb
<1>0. i \in DOMAIN VerbRow(w, o)  OBVIOUS
<1> HIDE DEF w
<1>3. w.verbs \in [Objects -> Seq(Verb) \union {NoRow}] /\ VerbRow(w, o) \in Seq(Verb)
  BY <1>1, WorldFacts
<1>4. VerbRow(w, o) = w.verbs[o] /\ w.verbs[o] # <<>>  BY <1>0 DEF VerbRow
<1>5. row \in Seq(Verb) /\ Thinner(row, w.verbs[o])  BY <1>0, <1>3, <1>4, RemoveAtIs
<1>6. ToSet(row) \subseteq ToSet(VerbRow(w, o))  BY <1>4, <1>5, ThinnerSet
<1>7. w2 = [w EXCEPT !.verbs[o] = row]  BY <1>1, <1>3 DEF World
<1>8. \A v \in ToSet(row) : \E u \in ToSet(VerbRow(w, o)) : v.at = u.at  BY <1>6
<1>9. VerbRow(w, o) # <<>>  BY <1>4
<1> HIDE DEF row, w2
<1> QED BY <1>2, <1>5, <1>7, <1>8, <1>9, VerbRowEdit DEF w

\* Moving is an edit that fits
LEMMA MoveEdit ==
  ASSUME TypeOK, NEW t \in Threads, NEW o \in Objects, NEW l \in Place,
         set_object_location(t, o, l)
  PROVE  SomeEdit(t)
<1> DEFINE w == tx[t].view
           c == tx[t].caches
<1>1. w \in World /\ c \in Caches  BY ViewTypes
<1>2. /\ Acyclic(w.loc) /\ (l # Nothing => o \notin ToSet(Line(w.loc, l)))
      /\ Edits(t, "move", [w EXCEPT !.loc[o] = l], c, Row("loc", {o}), 0)
      /\ "move" \in scenario.ops
  BY DEF set_object_location, Edits
<1> HIDE DEF w, c
<1>3. EditOK(w, c, [w EXCEPT !.loc[o] = l], c, Row("loc", {o}))
  BY <1>1, <1>2, LocationOK
<1>4. 0 \in 0..1  OBVIOUS
<1> QED BY <1>2, <1>3, <1>4 DEF SomeEdit, w, c

\* What is above x is x or above its parent
LEMMA BranchStep ==
  ASSUME NEW e \in Edge, Acyclic(e), NEW o \in Objects, NEW x \in Objects, x # o, e[x] # Nothing
  PROVE  e[x] \in Objects /\ (o \in ToSet(Line(e, e[x])) <=> o \in ToSet(Line(e, x)))
<1>1. e[x] \in Objects  BY DEF Edge
<1>2. x \in ToSet(Line(e, x))  BY OnLine
<1>3. e[x] \in ToSet(Line(e, x))  BY <1>2, NextOnLine
<1>4. ToSet(Line(e, e[x])) \subseteq ToSet(Line(e, x))  BY <1>3, LineAbove
<1>5. ASSUME o \in ToSet(Line(e, x)) PROVE o \in ToSet(Line(e, e[x]))
  <2> DEFINE S == {x} \union ToSet(Line(e, e[x]))
  <2>1. S \in SUBSET Objects /\ e[x] \in S  BY <1>1, OnLine
  <2>2. \A y \in S : e[y] \in S \union {Nothing}  BY <1>1, <2>1, NextOnLine
  <2> HIDE DEF S
  <2>3. x \in S  BY DEF S
  <2>4. ToSet(Line(e, x)) \subseteq S  BY <2>1, <2>2, <2>3, LineWithin
  <2> QED BY <1>5, <2>4 DEF S
<1> QED BY <1>1, <1>4, <1>5

\* The new line of an object of the branch: what it had of the branch, then the new parent's
LEMMA ReparentLine ==
  ASSUME NEW e \in Edge, Acyclic(e), NEW o \in Objects, NEW p \in Place,
         p # Nothing => o \notin ToSet(Line(e, p)), NEW x \in Objects,
         NEW e2 \in Edge, e2 = [e EXCEPT ![o] = p]
  PROVE  /\ o \notin ToSet(Line(e, x)) => Line(e2, x) = Line(e, x)
         /\ \A y \in ToSet(Line(e2, x)) :
              \/ y \in ToSet(Line(e, x)) /\ o \in ToSet(Line(e, y))
              \/ p # Nothing /\ y \in ToSet(Line(e, p))
              \/ y \in ToSet(Line(e, x)) /\ o \notin ToSet(Line(e, x))
<1>0. \A y \in Objects : y # o => e2[y] = e[y]  BY DEF Edge
<1>1. ASSUME o \notin ToSet(Line(e, x)) PROVE Line(e2, x) = Line(e, x)
  <2>1. \A y \in ToSet(Line(e, x)) : e2[y] = e[y]  BY <1>0, <1>1, OnLine
  <2> QED BY <2>1, LineLocal
<1>2. CASE o \notin ToSet(Line(e, x))  BY <1>1, <1>2
<1>3. CASE o \in ToSet(Line(e, x))
  <2> DEFINE L == IF p = Nothing THEN {} ELSE ToSet(Line(e, p))
             M == {y \in ToSet(Line(e, x)) : o \in ToSet(Line(e, y))}
             S == M \union L
  <2>1. L \in SUBSET Objects /\ M \in SUBSET Objects /\ S \in SUBSET Objects
    BY OnLine DEF Place
  <2>2. x \in S  BY <1>3, OnLine
  <2>3. ASSUME NEW y \in L PROVE e2[y] \in L \union {Nothing}
    <3>1. p \in Objects /\ y \in ToSet(Line(e, p)) /\ L = ToSet(Line(e, p))  BY <2>3 DEF Place
    <3>2. y # o /\ y \in Objects  BY <2>1, <2>3, <3>1
    <3>3. e[y] \in ToSet(Line(e, p)) \union {Nothing}  BY <3>1, NextOnLine
    <3> QED BY <1>0, <3>1, <3>2, <3>3
  <2>4. ASSUME NEW y \in M PROVE e2[y] \in S \union {Nothing}
    <3>1. CASE y = o
      <4>1. e2[y] = p  BY <3>1 DEF Edge
      <4>2. p # Nothing => p \in L  BY OnLine DEF Place
      <4> QED BY <4>1, <4>2
    <3>2. CASE y # o
      <4>1. y \in Objects /\ e2[y] = e[y]  BY <1>0, <2>1, <3>2
      <4>2. e[y] \in ToSet(Line(e, x)) \union {Nothing}  BY NextOnLine
      <4>3. CASE e[y] # Nothing
        <5>1. o \in ToSet(Line(e, e[y]))  BY <3>2, <4>1, <4>3, BranchStep
        <5> QED BY <4>1, <4>2, <4>3, <5>1
      <4> QED BY <4>1, <4>3
    <3> QED BY <3>1, <3>2
  <2>5. \A y \in S : e2[y] \in S \union {Nothing}  BY <2>3, <2>4
  <2> HIDE DEF S
  <2>6. ToSet(Line(e2, x)) \subseteq S  BY <2>1, <2>2, <2>5, LineWithin
  <2> QED BY <1>3, <2>6 DEF S
<1> QED BY <1>1, <1>2, <1>3

\* Names stay unique if the branch has none of those of the new parent's line
LEMMA ReparentNames ==
  ASSUME NEW w \in World, NEW w2 \in World, Acyclic(w.parent), NamesOnce(w),
         NEW o \in Objects, NEW p \in Place,
         p # Nothing => o \notin ToSet(Line(w.parent, p)),
         w2.parent = [w.parent EXCEPT ![o] = p], w2.props = w.props,
         p # Nothing =>
           \A a \in Objects, b \in ToSet(Line(w.parent, p)) : o \in ToSet(Line(w.parent, a)) =>
             \A i \in DOMAIN w.props[a], j \in DOMAIN w.props[b] :
                w.props[a][i].name # w.props[b][j].name
  PROVE  NamesOnce(w2)
<1> DEFINE e == w.parent
           e2 == w2.parent
<1>1. e \in Edge /\ e2 \in Edge /\ Acyclic(e) /\ e2 = [e EXCEPT ![o] = p]  BY WorldFacts
<1>2. p # Nothing => p \in Objects /\ o \notin ToSet(Line(e, p))  BY DEF Place
<1> SUFFICES ASSUME NEW x \in Objects, NEW a \in ToSet(Line(e2, x)), NEW b \in ToSet(Line(e2, x)),
                    NEW i \in DOMAIN w.props[a], NEW j \in DOMAIN w.props[b],
                    w.props[a][i].name = w.props[b][j].name
             PROVE  a = b /\ i = j
  BY DEF NamesOnce
<1> HIDE DEF e, e2
<1>3. a \in Objects /\ b \in Objects  BY <1>1, OnLine
<1>4. \A y \in Objects : \A f, g \in ToSet(Line(e, y)) :
         \A k \in DOMAIN w.props[f], l \in DOMAIN w.props[g] :
            w.props[f][k].name = w.props[g][l].name => f = g /\ k = l
  BY DEF NamesOnce, e
<1>7. p # Nothing => o \notin ToSet(Line(e, p))  BY <1>2
<1>8. /\ o \notin ToSet(Line(e, x)) => Line(e2, x) = Line(e, x)
      /\ \A y \in ToSet(Line(e2, x)) :
              \/ y \in ToSet(Line(e, x)) /\ o \in ToSet(Line(e, y))
              \/ p # Nothing /\ y \in ToSet(Line(e, p))
              \/ y \in ToSet(Line(e, x)) /\ o \notin ToSet(Line(e, x))
  BY <1>1, <1>7, ReparentLine
<1>5. CASE o \notin ToSet(Line(e, x))
  <2>1. Line(e2, x) = Line(e, x)  BY <1>5, <1>8
  <2> QED BY <1>4, <2>1
<1>6. CASE o \in ToSet(Line(e, x))
  <2>1. \A y \in ToSet(Line(e2, x)) :
              \/ y \in ToSet(Line(e, x)) /\ o \in ToSet(Line(e, y))
              \/ p # Nothing /\ y \in ToSet(Line(e, p))
    BY <1>6, <1>8
  <2>2. p # Nothing =>
           \A f \in Objects, g \in ToSet(Line(e, p)) : o \in ToSet(Line(e, f)) =>
             \A k \in DOMAIN w.props[f], l \in DOMAIN w.props[g] :
                w.props[f][k].name # w.props[g][l].name
    BY DEF e
  <2>3. CASE a \in ToSet(Line(e, x)) /\ b \in ToSet(Line(e, x))  BY <1>4, <2>3
  <2>4. CASE p # Nothing /\ a \in ToSet(Line(e, p)) /\ b \in ToSet(Line(e, p))
    BY <1>2, <1>4, <2>4
  <2>5. CASE p # Nothing /\ a \in ToSet(Line(e, p)) /\ o \in ToSet(Line(e, b))
    BY <1>3, <2>2, <2>5
  <2>6. CASE p # Nothing /\ b \in ToSet(Line(e, p)) /\ o \in ToSet(Line(e, a))
    BY <1>3, <2>2, <2>6
  <2> QED BY <2>1, <2>3, <2>4, <2>5, <2>6
<1> QED BY <1>5, <1>6

\* An edit of the hierarchy fits if it drops the caches of all whose inheritance it changes
LEMMA HierarchyOK ==
  ASSUME NEW w \in World, NEW w2 \in World, NEW c \in Caches, NEW c3 \in Caches,
         c3.absent = c.absent, NEW objs, NEW rows \in SUBSET (Kind \X Objects), rows # {},
         Fit(w, c) => /\ Sound(w, c3) /\ Agrees(w, w2, rows) /\ Bare(w2)
                      /\ \A x \in Objects \ objs : KeepsProps(w, w2, x) /\ KeepsVerbs(w, w2, x)
                      /\ SoleEditor => Good(w2)
                      /\ ~SoleEditor => RowsFit(w, w2, rows)
  PROVE  EditOK(w, c, w2, InvalidateHierarchy(c3, objs), rows)
<1> DEFINE c2 == InvalidateHierarchy(c3, objs)
<1>1. c2 \in Caches  BY InvalidateTypes
<1>2. c2.absent = c.absent \/ c2.absent = {}
  BY DEF Caches, InvalidateHierarchy, InvalidateAncestry, InvalidateProps, InvalidateVerbs
<1>3. EditTyped(w2, c2, rows)  BY <1>1 DEF EditTyped
<1>4. ASSUME Fit(w, c) PROVE EditFits(w, c, w2, c2, rows)
  <2>1. Sound(w2, c2)  BY <1>4, HierarchySound
  <2> QED BY <1>2, <1>4, <2>1 DEF EditFits
<1> QED BY <1>3, <1>4 DEF EditOK

\* Giving o the parent p changes what the branch of o inherits, and nothing else
LEMMA ReparentKeeps ==
  ASSUME NEW w \in World, NEW w2 \in World, Acyclic(w.parent), NEW o \in Objects, NEW p \in Place,
         p # Nothing => o \notin ToSet(Line(w.parent, p)),
         w2.parent = [w.parent EXCEPT ![o] = p], w2.props = w.props, w2.verbs = w.verbs
  PROVE  \A x \in Objects \ branch_objects(w, o) : KeepsProps(w, w2, x) /\ KeepsVerbs(w, w2, x)
<1> TAKE x \in Objects \ branch_objects(w, o)
<1>1. w.parent \in Edge /\ w2.parent \in Edge  BY WorldFacts
<1>2. o \notin ToSet(Line(w.parent, x))  BY BranchIs
<1>3. Line(w2.parent, x) = Line(w.parent, x)  BY <1>1, <1>2, ReparentLine
<1> QED BY <1>3 DEF KeepsProps, KeepsVerbs, KeepsLine

\* Changing a parent is an edit that fits
LEMMA ChparentEdit ==
  ASSUME TypeOK, NEW t \in Threads, NEW o \in Objects, NEW p \in Place,
         Acyclic(tx[t].view.parent), change_parent(t, o, p)
  PROVE  SomeEdit(t)
<1> DEFINE w == tx[t].view
           c == tx[t].caches
           c3 == IF p = Nothing THEN c ELSE FillAncestors(w, c, p)
           w2 == [w EXCEPT !.parent[o] = p]
           rows == Row("parent", {o})
           B == branch_objects(w, o)
<1>1. w \in World /\ c \in Caches /\ Acyclic(w.parent)  BY ViewTypes
<1>2. /\ o \in w.valid /\ p \in w.valid \union {Nothing}
      /\ p # Nothing => /\ o \notin ToSet(Line(w.parent, p))
                        /\ ~chparent_property_conflict(w, c, o, p)
      /\ Edits(t, "chparent", w2, InvalidateHierarchy(c3, B), rows, 0)
  BY DEF change_parent
<1>3. p # Nothing => p \in Objects  BY DEF Place
<1> HIDE DEF w, c
<1>4. c3 \in Caches /\ c3.absent = c.absent  BY <1>1, <1>3, FillTypes
<1>5. /\ w2.parent = [w.parent EXCEPT ![o] = p] /\ w2.valid = w.valid /\ w2.loc = w.loc
      /\ w2.props = w.props /\ w2.verbs = w.verbs
  BY <1>1 DEF World
<1>6. w.parent \in Edge  BY <1>1, WorldFacts
<1>7. [w.parent EXCEPT ![o] = p] \in Edge /\ Acyclic([w.parent EXCEPT ![o] = p])
  BY <1>1, <1>2, <1>6, ReparentAcyclic
<1>8. w2 \in World  BY <1>1, <1>5, <1>7 DEF World
<1>9. rows \in SUBSET (Kind \X Objects) /\ rows # {}
  <2>1. "parent" \in Kind /\ {o} \in SUBSET Objects /\ {o} # {}  BY DEF Kind
  <2> QED BY <2>1, RowTypes
<1>10. \A k, x : <<k, x>> \in rows <=> k = "parent" /\ x = o  BY RowIs
<1> HIDE DEF w2, rows, B, c3
<1>11. ASSUME Fit(w, c)
       PROVE  /\ Sound(w, c3) /\ Agrees(w, w2, rows) /\ Bare(w2)
              /\ \A x \in Objects \ B : KeepsProps(w, w2, x) /\ KeepsVerbs(w, w2, x)
              /\ SoleEditor => Good(w2)
              /\ ~SoleEditor => RowsFit(w, w2, rows)
  <2>1. Sound(w, c) /\ Bare(w)  BY <1>11 DEF Fit
  <2>2. p # Nothing => Ancestors(w, c, p) = Above(w, p) /\ Sound(w, FillAncestors(w, c, p))
    BY <1>1, <1>3, <2>1, AncestorsSound
  <2>3. Sound(w, c3)  BY <2>1, <2>2 DEF c3
  <2>4. \A x \in Objects : x # o => w2.parent[x] = w.parent[x]  BY <1>5, <1>6 DEF Edge
  <2>5. Agrees(w, w2, rows)  BY <1>5, <1>10, <2>4 DEF Agrees
  <2>6. Bare(w2)  BY <1>2, <1>5, <2>1, <2>4 DEF Bare
  <2>7. \A x \in Objects \ B : KeepsProps(w, w2, x) /\ KeepsVerbs(w, w2, x)
    BY <1>1, <1>2, <1>5, <1>8, ReparentKeeps DEF B
  <2>8. ASSUME SoleEditor PROVE Good(w2)
    <3>1. Good(w)  BY <1>11, <2>8 DEF Fit
    <3>2. TreeOK(w2)
      <4>1. w2.parent[o] = p  BY <1>5, <1>6 DEF Edge
      <4> QED BY <1>2, <1>5, <1>7, <2>4, <3>1, <4>1 DEF Good, TreeOK
    <3>3. AtHome(w2)  BY <1>5, <3>1 DEF Good, AtHome, VerbRow
    <3>4. LocsExist(w) => LocsExist(w2)  BY <1>5 DEF LocsExist
    <3>5. ASSUME NamesOnce(w) PROVE NamesOnce(w2)
      <4>1. ASSUME p # Nothing, NEW a \in Objects, NEW b \in ToSet(Line(w.parent, p)),
                   o \in ToSet(Line(w.parent, a)),
                   NEW i \in DOMAIN w.props[a], NEW j \in DOMAIN w.props[b],
                   w.props[a][i].name = w.props[b][j].name
            PROVE  FALSE
        <5>1. a \in branch_objects(w, o)  BY <1>1, <4>1, BranchIs
        <5>2. b \in {p} \union ToSet(Ancestors(w, c, p))  BY <1>1, <1>3, <2>2, <4>1, AboveIs
        <5>3. w.props[a][i].name \in PropNames(w, branch_objects(w, o))  BY <5>1, NameIn
        <5>4. w.props[b][j].name \in PropNames(w, {p} \union ToSet(Ancestors(w, c, p)))
          BY <5>2, NameIn
        <5> QED BY <1>2, <4>1, <5>3, <5>4 DEF chparent_property_conflict
      <4>2. p # Nothing => o \notin ToSet(Line(w.parent, p))  BY <1>2
      <4>3. p # Nothing =>
             \A a \in Objects, b \in ToSet(Line(w.parent, p)) : o \in ToSet(Line(w.parent, a)) =>
               \A i \in DOMAIN w.props[a], j \in DOMAIN w.props[b] :
                  w.props[a][i].name # w.props[b][j].name
        BY <4>1
      <4> QED BY <1>1, <1>5, <1>8, <3>5, <4>2, <4>3, ReparentNames
    <3> QED BY <1>5, <2>6, <3>1, <3>2, <3>3, <3>4, <3>5 DEF Good
  <2>9. RowsFit(w, w2, rows)
    <3>1. \A x : <<"object", x>> \notin rows  BY <1>10
    <3>2. Whole(rows) /\ w2.valid = {x \in w.valid : <<"object", x>> \notin rows}
      BY <1>5, <3>1 DEF Whole
    <3>3. \A x \in Objects, k \in {"parent", "props", "verbs"} : <<k, x>> \in rows => x \in w.valid
      BY <1>2, <1>10
    <3> QED BY <3>2, <3>3 DEF RowsFit
  <2> QED BY <2>3, <2>5, <2>6, <2>7, <2>8, <2>9
<1>12. EditOK(w, c, w2, InvalidateHierarchy(c3, B), rows)
  BY <1>1, <1>4, <1>8, <1>9, <1>11, HierarchyOK
<1>13. 0 \in 0..1  OBVIOUS
<1> QED BY <1>2, <1>12, <1>13 DEF SomeEdit, w, c

\* Nothing but itself is on or below a number that is free
LEMMA FreeNumber ==
  ASSUME NEW e \in Edge, NEW V \in SUBSET Objects,
         \A x \in Objects : e[x] \in V \union {Nothing},
         \A x \in Objects \ V : e[x] = Nothing
  PROVE  /\ \A x \in V : ToSet(Line(e, x)) \subseteq V
         /\ \A x \in Objects \ V : ToSet(Line(e, x)) = {x}
<1>1. \A x \in V : ToSet(Line(e, x)) \subseteq V  BY LineWithin
<1>2. ASSUME NEW x \in Objects \ V PROVE ToSet(Line(e, x)) = {x}
  <2>1. {x} \in SUBSET Objects /\ x \in {x} /\ \A y \in {x} : e[y] \in {x} \union {Nothing}  OBVIOUS
  <2>2. ToSet(Line(e, x)) \subseteq {x}  BY <2>1, LineWithin
  <2>3. x \in ToSet(Line(e, x))  BY OnLine
  <2> QED BY <2>2, <2>3
<1> QED BY <1>1, <1>2

\* Creating an object without a parent fits: the caches know nothing of what exists
LEMMA CreateOrphan ==
  ASSUME TypeOK, NEW t \in Threads, NEW o \in Objects, Acyclic(tx[t].view.parent),
         o \notin tx[t].view.valid,
         Edits(t, "create", [tx[t].view EXCEPT !.valid = @ \union {o}], tx[t].caches,
               Row("object", {o}), 0)
  PROVE  SomeEdit(t)
<1> DEFINE w == tx[t].view
           c == tx[t].caches
           w2 == [w EXCEPT !.valid = @ \union {o}]
           rows == Row("object", {o})
<1>1. w \in World /\ c \in Caches /\ Acyclic(w.parent)  BY ViewTypes
<1>2. o \notin w.valid /\ "create" \in scenario.ops /\ Edits(t, "create", w2, c, rows, 0)
  BY DEF Edits
<1> HIDE DEF w, c
<1>3. /\ w2.parent = w.parent /\ w2.valid = w.valid \union {o} /\ w2.loc = w.loc
      /\ w2.props = w.props /\ w2.verbs = w.verbs
  BY <1>1 DEF World
<1>4. w.parent \in Edge /\ w.loc \in Edge /\ w.valid \in SUBSET Objects  BY <1>1, WorldFacts
<1>5. w2 \in World
  <2>1. PICK V : V = w.valid \union {o}  OBVIOUS
  <2>2. V \in SUBSET Objects /\ w2 = [w EXCEPT !.valid = V]  BY <1>1, <1>4, <2>1 DEF World
  <2> QED BY <1>1, <2>2 DEF World
<1>6. rows \in SUBSET (Kind \X Objects) /\ rows # {}
  <2>1. "object" \in Kind /\ {o} \in SUBSET Objects /\ {o} # {}  BY DEF Kind
  <2> QED BY <2>1, RowTypes
<1>7. \A k, x : <<k, x>> \in rows <=> k = "object" /\ x = o  BY RowIs
<1> HIDE DEF w2, rows
<1>8. ASSUME Fit(w, c) PROVE EditFits(w, c, w2, c, rows)
  <2>1. SoleEditor  BY <1>2, <1>8 DEF Fit, NumbersKept
  <2>2. Good(w) /\ Sound(w, c) /\ Bare(w) /\ TreeOK(w)  BY <1>8, <2>1 DEF Fit, Good
  <2>3. Agrees(w, w2, rows)
    <3>1. \A x \in Objects : x # o => (x \in w.valid <=> x \in w2.valid)  BY <1>3
    <3> QED BY <1>3, <1>7, <3>1 DEF Agrees
  <2>4. Bare(w2)  BY <1>3, <2>2 DEF Bare
  <2>5. Sound(w2, c)  BY <1>1, <1>3, <1>5, <2>2, SoundSame
  <2>6. TreeOK(w2)  BY <1>3, <2>2 DEF TreeOK
  <2>7. AtHome(w2)  BY <1>3, <2>2 DEF Good, AtHome, VerbRow
  <2>8. LocsExist(w) => LocsExist(w2)  BY <1>3 DEF LocsExist
  <2>9. NamesOnce(w) => NamesOnce(w2)  BY <1>3 DEF NamesOnce
  <2>10. Good(w2)  BY <1>3, <2>2, <2>4, <2>6, <2>7, <2>8, <2>9 DEF Good
  <2> QED BY <2>1, <2>3, <2>4, <2>5, <2>10 DEF EditFits
<1>9. EditOK(w, c, w2, c, rows)  BY <1>1, <1>5, <1>6, <1>8 DEF EditOK, EditTyped
<1>10. 0 \in 0..1  OBVIOUS
<1> QED BY <1>2, <1>9, <1>10 DEF SomeEdit, w, c

\* Creating an object under a parent is an edit that fits
LEMMA CreateChild ==
  ASSUME TypeOK, NEW t \in Threads, NEW o \in Objects, Acyclic(tx[t].view.parent),
         o \notin tx[t].view.valid, NEW p \in tx[t].view.valid,
         Edits(t, "create", [tx[t].view EXCEPT !.valid = @ \union {o}, !.parent[o] = p],
               InvalidateHierarchy(tx[t].caches, {o}),
               Row("object", {o}) \union Row("parent", {o}), 0)
  PROVE  SomeEdit(t)
<1> DEFINE w == tx[t].view
           c == tx[t].caches
           w2 == [w EXCEPT !.valid = @ \union {o}, !.parent[o] = p]
           rows == Row("object", {o}) \union Row("parent", {o})
<1>1. w \in World /\ c \in Caches /\ Acyclic(w.parent)  BY ViewTypes
<1>2. /\ o \notin w.valid /\ p \in w.valid /\ p \in Place /\ "create" \in scenario.ops
      /\ Edits(t, "create", w2, InvalidateHierarchy(c, {o}), rows, 0)
  BY ViewTypes, WorldFacts DEF Edits, Place
<1> HIDE DEF w, c
<1>3. /\ w2.parent = [w.parent EXCEPT ![o] = p] /\ w2.valid = w.valid \union {o}
      /\ w2.loc = w.loc
      /\ w2.props = w.props /\ w2.verbs = w.verbs
  BY <1>1 DEF World
<1>4. w.parent \in Edge /\ w.loc \in Edge /\ w.valid \in SUBSET Objects  BY <1>1, WorldFacts
<1>5. w2 \in World
  <2>1. w2.parent \in Edge /\ w2.loc \in Edge  BY <1>2, <1>3, <1>4 DEF Edge
  <2>2. w2.valid \in SUBSET Objects  BY <1>3, <1>4
  <2>3. w2 = [w EXCEPT !.valid = w2.valid, !.parent = w2.parent, !.loc = w2.loc]
    BY <1>1, <1>3 DEF World
  <2> HIDE DEF w2
  <2>4. PICK V, P, L : V = w2.valid /\ P = w2.parent /\ L = w2.loc  OBVIOUS
  <2>5. [w EXCEPT !.valid = V, !.parent = P, !.loc = L] \in World
    BY <1>1, <2>1, <2>2, <2>4 DEF World
  <2> QED BY <2>3, <2>4, <2>5
<1>6. rows \in SUBSET (Kind \X Objects) /\ rows # {}
  <2>1. {"object", "parent"} \subseteq Kind /\ {o} \in SUBSET Objects /\ {o} # {}  BY DEF Kind
  <2>2. \A k \in {"object", "parent"} : Row(k, {o}) \in SUBSET (Kind \X Objects) /\ Row(k, {o}) # {}
    BY <2>1, RowTypes
  <2> QED BY <2>2
<1>7. \A k, x : <<k, x>> \in rows <=> k \in {"object", "parent"} /\ x = o  BY RowIs
<1> HIDE DEF w2, rows
<1>8. ASSUME Fit(w, c)
       PROVE  /\ Sound(w, c) /\ Agrees(w, w2, rows) /\ Bare(w2)
              /\ \A x \in Objects \ {o} : KeepsProps(w, w2, x) /\ KeepsVerbs(w, w2, x)
              /\ SoleEditor => Good(w2)
              /\ ~SoleEditor => RowsFit(w, w2, rows)
  <2>1. SoleEditor  BY <1>2, <1>8 DEF Fit, NumbersKept
  <2>2. Good(w) /\ Sound(w, c) /\ Bare(w) /\ TreeOK(w)  BY <1>8, <2>1 DEF Fit, Good
  <2>3. /\ \A x \in Objects : x # o => w2.parent[x] = w.parent[x] /\ w2.loc[x] = w.loc[x]
        /\ w2.parent[o] = p /\ w2.loc[o] = w.loc[o]
    BY <1>3, <1>4 DEF Edge
  <2>4. Agrees(w, w2, rows)
    <3>1. \A x \in Objects : x # o => (x \in w.valid <=> x \in w2.valid)  BY <1>3
    <3> QED BY <1>3, <1>7, <2>3, <3>1 DEF Agrees
  <2>5. Bare(w2)  BY <1>3, <2>2, <2>3 DEF Bare
  <2>6. /\ \A x \in w.valid : ToSet(Line(w.parent, x)) \subseteq w.valid
        /\ \A x \in Objects \ w.valid : ToSet(Line(w.parent, x)) = {x}
    BY <1>1, <1>4, <2>2, FreeNumber DEF TreeOK, Bare
  <2>7. p # Nothing => o \notin ToSet(Line(w.parent, p))  BY <1>2, <2>6
  <2>8. \A x \in Objects : o \in ToSet(Line(w.parent, x)) => x = o  BY <1>2, <2>6
  <2>9. \A x \in Objects \ {o} : KeepsProps(w, w2, x) /\ KeepsVerbs(w, w2, x)
    <3>1. branch_objects(w, o) \subseteq {o}  BY <1>1, <2>8, BranchIs
    <3>2. \A x \in Objects \ branch_objects(w, o) : KeepsProps(w, w2, x) /\ KeepsVerbs(w, w2, x)
      BY <1>1, <1>2, <1>3, <1>5, <2>7, ReparentKeeps
    <3> QED BY <3>1, <3>2
  <2>10. TreeOK(w2)
    <3>1. Acyclic(w2.parent)  BY <1>1, <1>2, <1>3, <1>4, <2>7, ReparentAcyclic
    <3> QED BY <1>2, <1>3, <2>2, <2>3, <3>1 DEF TreeOK
  <2>11. AtHome(w2)  BY <1>3, <2>2 DEF Good, AtHome, VerbRow
  <2>12. Acyclic(w.loc) => Acyclic(w2.loc)  BY <1>3
  <2>13. LocsExist(w) => LocsExist(w2)  BY <1>3, <2>3 DEF LocsExist
  <2>14. ASSUME NamesOnce(w) PROVE NamesOnce(w2)
    <3>1. DOMAIN w.props[o] = {}  BY <1>2, <2>2 DEF Bare
    <3>2. p # Nothing =>
             \A a \in Objects, b \in ToSet(Line(w.parent, p)) : o \in ToSet(Line(w.parent, a)) =>
               \A i \in DOMAIN w.props[a], j \in DOMAIN w.props[b] :
                  w.props[a][i].name # w.props[b][j].name
      BY <2>8, <3>1
    <3> QED BY <1>1, <1>2, <1>3, <1>5, <2>7, <2>14, <3>2, ReparentNames
  <2>15. Good(w2)  BY <2>2, <2>5, <2>10, <2>11, <2>12, <2>13, <2>14 DEF Good
  <2> QED BY <2>1, <2>2, <2>4, <2>5, <2>9, <2>15
<1>9. EditOK(w, c, w2, InvalidateHierarchy(c, {o}), rows)
  BY <1>1, <1>5, <1>6, <1>8, HierarchyOK
<1>10. 0 \in 0..1  OBVIOUS
<1> QED BY <1>2, <1>9, <1>10 DEF SomeEdit, w, c

\* Creating an object is an edit that fits
LEMMA CreateEdit ==
  ASSUME TypeOK, NEW t \in Threads, NEW o \in Objects, NEW p \in Place,
         Acyclic(tx[t].view.parent), create_object(t, o, p)
  PROVE  SomeEdit(t)
BY CreateOrphan, CreateChild DEF create_object

\* The rows a removal writes
LEMMA RemovedRowsAre ==
  ASSUME NEW w \in World, NEW gone \in SUBSET Objects
  PROVE  /\ RemovedRows(w, gone) \in SUBSET (Kind \X Objects)
         /\ gone # {} => RemovedRows(w, gone) # {}
         /\ \A k, x : <<k, x>> \in RemovedRows(w, gone) <=>
              \/ k \in {"object", "props", "verbs"} /\ x \in gone
              \/ k = "parent" /\ (x \in gone \/ (x \in Objects /\ w.parent[x] \in gone))
              \/ k = "loc" /\ (x \in gone \/ (x \in Objects /\ w.loc[x] \in gone))
<1> DEFINE P == gone \union {x \in Objects : w.parent[x] \in gone}
           L == gone \union {x \in Objects : w.loc[x] \in gone}
<1>1. {"object", "props", "verbs", "parent", "loc"} \subseteq Kind /\ P \in SUBSET Objects
      /\ L \in SUBSET Objects
  BY DEF Kind
<1>2. RemovedRows(w, gone) = Row("object", gone) \union Row("props", gone) \union Row("verbs", gone)
         \union Row("parent", P) \union Row("loc", L)
  BY DEF RemovedRows
<1> HIDE DEF P, L
<1>3. /\ Row("object", gone) \in SUBSET (Kind \X Objects) /\ Row("props", gone) \in SUBSET (Kind \X Objects)
      /\ Row("verbs", gone) \in SUBSET (Kind \X Objects) /\ Row("parent", P) \in SUBSET (Kind \X Objects)
      /\ Row("loc", L) \in SUBSET (Kind \X Objects) /\ (gone # {} => Row("object", gone) # {})
  BY <1>1, RowTypes
<1>4. \A k, x : <<k, x>> \in RemovedRows(w, gone) <=>
              \/ k \in {"object", "props", "verbs"} /\ x \in gone
              \/ k = "parent" /\ x \in P
              \/ k = "loc" /\ x \in L
  <2>1. \A k, x : /\ <<k, x>> \in Row("object", gone) <=> k = "object" /\ x \in gone
                  /\ <<k, x>> \in Row("props", gone) <=> k = "props" /\ x \in gone
                  /\ <<k, x>> \in Row("verbs", gone) <=> k = "verbs" /\ x \in gone
                  /\ <<k, x>> \in Row("parent", P) <=> k = "parent" /\ x \in P
                  /\ <<k, x>> \in Row("loc", L) <=> k = "loc" /\ x \in L
    BY RowIs
  <2> QED BY <1>2, <2>1
<1> QED BY <1>2, <1>3, <1>4 DEF P, L

\* Removing objects whose children, if any stay, go to an object that stays
LEMMA RemovedOK ==
  ASSUME NEW w \in World, NEW c \in Caches, NEW gone \in SUBSET Objects, gone # {},
         gone \subseteq w.valid, NEW objs, NEW w2, w2 = Removed(w, gone, w.parent),
         Fit(w, c) =>
           /\ \A x \in Objects \ gone : w.parent[x] \in gone => w.parent[w.parent[x]] \notin gone
           /\ \A x \in Objects \ objs : \A y \in ToSet(Line(w.parent, x)) : y \notin gone
  PROVE  EditOK(w, c, w2, InvalidateHierarchy(c, objs), RemovedRows(w, gone))
<1> DEFINE e == w.parent
           e2 == w2.parent
           rows == RemovedRows(w, gone)
<1>1. /\ e \in Edge /\ w.loc \in Edge /\ w.valid \in SUBSET Objects
      /\ w.props \in [Objects -> Seq(PropDef)]
      /\ w.verbs \in [Objects -> Seq(Verb) \union {NoRow}]
  BY WorldFacts
<1>2. /\ w2.valid = w.valid \ gone
      /\ e2 = [x \in Objects |-> IF x \in gone THEN Nothing
                                 ELSE IF e[x] \in gone THEN e[e[x]] ELSE e[x]]
      /\ w2.loc = [x \in Objects |-> IF x \in gone \/ w.loc[x] \in gone THEN Nothing ELSE w.loc[x]]
      /\ w2.props = [x \in Objects |-> IF x \in gone THEN <<>> ELSE w.props[x]]
      /\ w2.verbs = [x \in Objects |-> IF x \in gone THEN NoRow ELSE w.verbs[x]]
      /\ w2 = [valid |-> w2.valid, parent |-> e2, loc |-> w2.loc, props |-> w2.props, verbs |-> w2.verbs]
  BY DEF Removed
<1>3. w2 \in World
  <2>1. e2 \in Edge  BY <1>1, <1>2 DEF Edge
  <2>2. w2.loc \in Edge  BY <1>1, <1>2 DEF Edge
  <2>3. w2.props \in [Objects -> Seq(PropDef)]  BY <1>1, <1>2
  <2>4. w2.verbs \in [Objects -> Seq(Verb) \union {NoRow}]  BY <1>1, <1>2
  <2>5. w2.valid \in SUBSET Objects  BY <1>1, <1>2
  <2>6. PICK V, P, L, R, B : V = w2.valid /\ P = e2 /\ L = w2.loc /\ R = w2.props /\ B = w2.verbs
    OBVIOUS
  <2>7. w2 = [valid |-> V, parent |-> P, loc |-> L, props |-> R, verbs |-> B]  BY <1>2, <2>6
  <2> HIDE DEF e2
  <2>8. [valid |-> V, parent |-> P, loc |-> L, props |-> R, verbs |-> B] \in World
    BY <2>1, <2>2, <2>3, <2>4, <2>5, <2>6 DEF World
  <2> QED BY <2>7, <2>8
<1>4. rows \in SUBSET (Kind \X Objects) /\ rows # {}  BY RemovedRowsAre
<1>5. \A k, x : <<k, x>> \in rows <=>
              \/ k \in {"object", "props", "verbs"} /\ x \in gone
              \/ k = "parent" /\ (x \in gone \/ (x \in Objects /\ e[x] \in gone))
              \/ k = "loc" /\ (x \in gone \/ (x \in Objects /\ w.loc[x] \in gone))
  BY RemovedRowsAre
<1>6. Fit(w, c) =>
           /\ \A x \in Objects \ gone : e[x] \in gone => e[e[x]] \notin gone
           /\ \A x \in Objects \ objs : \A y \in ToSet(Line(e, x)) : y \notin gone
  OBVIOUS
<1>7. e = w.parent /\ e2 = w2.parent /\ rows = RemovedRows(w, gone) /\ e2 \in Edge
  BY <1>3, WorldFacts
<1> HIDE DEF e, e2, rows
<1>8. Nothing \notin gone  BY InheritanceConstants
<1>9. ASSUME Fit(w, c)
       PROVE  /\ Sound(w, c) /\ Agrees(w, w2, rows) /\ Bare(w2)
              /\ \A x \in Objects \ objs : KeepsProps(w, w2, x) /\ KeepsVerbs(w, w2, x)
              /\ SoleEditor => Good(w2)
              /\ ~SoleEditor => RowsFit(w, w2, rows)
  <2>1. Sound(w, c) /\ Bare(w) /\ Acyclic(e)  BY <1>7, <1>9 DEF Fit
  <2>2. Agrees(w, w2, rows)
    <3>1. \A x \in Objects : <<"object", x>> \notin rows => (x \in w.valid <=> x \in w2.valid)
      BY <1>2, <1>5
    <3>2. \A x \in Objects : <<"parent", x>> \notin rows => w2.parent[x] = w.parent[x]
      BY <1>2, <1>5, <1>7
    <3>3. \A x \in Objects : <<"loc", x>> \notin rows => w2.loc[x] = w.loc[x]  BY <1>2, <1>5
    <3>4. \A x \in Objects : /\ <<"props", x>> \notin rows => w2.props[x] = w.props[x]
                             /\ <<"verbs", x>> \notin rows => w2.verbs[x] = w.verbs[x]
      BY <1>2, <1>5
    <3> QED BY <3>1, <3>2, <3>3, <3>4 DEF Agrees
  <2>3. Bare(w2)
    <3>1. ASSUME NEW x \in Objects \ w2.valid
          PROVE  e2[x] = Nothing /\ w2.props[x] = <<>> /\ w2.verbs[x] = NoRow
      <4>1. CASE x \in gone  BY <1>2, <4>1
      <4>2. CASE x \notin gone
        <5>1. x \notin w.valid  BY <1>2, <4>2
        <5>2. e[x] = Nothing /\ w.props[x] = <<>> /\ w.verbs[x] = NoRow
          BY <1>7, <2>1, <5>1 DEF Bare
        <5> QED BY <1>2, <1>8, <4>2, <5>2
      <4> QED BY <4>1, <4>2
    <3> QED BY <1>7, <3>1 DEF Bare
  <2>4. ASSUME NEW x \in Objects \ objs PROVE KeepsProps(w, w2, x) /\ KeepsVerbs(w, w2, x)
    <3>1. ASSUME NEW y \in ToSet(Line(e, x))
          PROVE  e2[y] = e[y] /\ w2.props[y] = w.props[y] /\ w2.verbs[y] = w.verbs[y]
      <4>1. y \in Objects /\ y \notin gone  BY <1>1, <1>6, <1>9, OnLine
      <4>2. e[y] \in ToSet(Line(e, x)) \union {Nothing}  BY <1>1, <2>1, NextOnLine
      <4>3. e[y] \notin gone  BY <1>6, <1>8, <1>9, <4>2
      <4> QED BY <1>2, <4>1, <4>3
    <3>2. Line(e2, x) = Line(e, x)  BY <1>1, <1>7, <3>1, LineLocal
    <3> QED BY <1>7, <3>1, <3>2 DEF KeepsProps, KeepsVerbs, KeepsLine
  <2>5. ASSUME SoleEditor PROVE Good(w2)
    <3>1. Good(w) /\ TreeOK(w)  BY <1>9, <2>5 DEF Fit, Good
    <3>2. Acyclic(e2)
      <4>1. PICK r \in [Objects -> 1..Depth] : \A x \in Objects : e[x] # Nothing => r[e[x]] < r[x]
        BY <1>1, <2>1, AcyclicIsRanked
      <4>2. \A x \in Objects : r[x] \in Int  BY <4>1, DepthType
      <4>3. ASSUME NEW x \in Objects, e2[x] # Nothing PROVE r[e2[x]] < r[x]
        <5>1. CASE e[x] \in gone
          <6>1. e2[x] = e[e[x]] /\ e[x] # Nothing /\ e[x] \in Objects  BY <1>2, <1>8, <4>3, <5>1
          <6>2. r[e[x]] < r[x] /\ r[e[e[x]]] < r[e[x]]  BY <4>1, <4>3, <6>1
          <6>3. e[e[x]] \in Objects  BY <1>1, <4>3, <6>1 DEF Edge
          <6> QED BY <4>2, <6>1, <6>2, <6>3
        <5>2. CASE e[x] \notin gone
          <6>1. e2[x] = e[x]  BY <1>2, <4>3, <5>2
          <6> QED BY <4>1, <4>3, <6>1
        <5> QED BY <5>1, <5>2
      <4>4. r \in [Objects -> Int]  BY <4>1, <4>2
      <4> QED BY <1>7, <4>3, <4>4, RankedIsAcyclic
    <3>3. ASSUME NEW x \in Objects PROVE e2[x] \in w2.valid \union {Nothing}
      <4>1. \A y \in Objects : e[y] \in w.valid \union {Nothing}  BY <1>7, <3>1 DEF TreeOK
      <4>2. CASE x \in gone  BY <1>2, <4>2
      <4>3. CASE x \notin gone /\ e[x] \in gone
        <5>1. e2[x] = e[e[x]] /\ e[e[x]] \notin gone  BY <1>2, <1>6, <1>9, <4>3
        <5>2. e[e[x]] \in w.valid \union {Nothing}  BY <4>1, <4>3
        <5> QED BY <1>2, <5>1, <5>2
      <4>4. CASE x \notin gone /\ e[x] \notin gone  BY <1>2, <4>1, <4>4
      <4> QED BY <4>2, <4>3, <4>4
    <3>4. TreeOK(w2)  BY <1>7, <3>2, <3>3 DEF TreeOK
    <3>5. AtHome(w2)
      <4>1. ASSUME NEW x \in Objects
            PROVE  VerbRow(w2, x) \in {<<>>, VerbRow(w, x)} /\ w2.props[x] \in {<<>>, w.props[x]}
        BY <1>2 DEF VerbRow
      <4>2. ToSet(<<>>) = {}  BY DEF ToSet
      <4> QED BY <3>1, <4>1, <4>2 DEF Good, AtHome
    <3>6. ASSUME Acyclic(w.loc) PROVE Acyclic(w2.loc)
      <4>1. PICK r \in [Objects -> 1..Depth] : \A x \in Objects : w.loc[x] # Nothing => r[w.loc[x]] < r[x]
        BY <1>1, <3>6, AcyclicIsRanked
      <4>2. r \in [Objects -> Int]  BY <4>1, DepthType
      <4>3. \A x \in Objects : w2.loc[x] # Nothing => r[w2.loc[x]] < r[x]  BY <1>2, <4>1
      <4>4. w2.loc \in Edge  BY <1>3, WorldFacts
      <4> QED BY <4>2, <4>3, <4>4, RankedIsAcyclic
    <3>7. LocsExist(w) => LocsExist(w2)  BY <1>2 DEF LocsExist
    <3>8. ASSUME NamesOnce(w) PROVE NamesOnce(w2)
      <4> SUFFICES ASSUME NEW x \in Objects, NEW a \in ToSet(Line(e2, x)), NEW b \in ToSet(Line(e2, x)),
                          NEW i \in DOMAIN w2.props[a], NEW j \in DOMAIN w2.props[b],
                          w2.props[a][i].name = w2.props[b][j].name
                   PROVE  a = b /\ i = j
        BY <1>7 DEF NamesOnce
      <4>1. a \in Objects /\ b \in Objects  BY <1>7, OnLine
      <4>2. DOMAIN <<>> = {}  OBVIOUS
      <4>3. a \notin gone /\ b \notin gone  BY <1>2, <4>1, <4>2
      <4>4. w2.props[a] = w.props[a] /\ w2.props[b] = w.props[b]  BY <1>2, <4>1, <4>3
      <4>5. x \notin gone
        <5> SUFFICES ASSUME x \in gone PROVE FALSE  OBVIOUS
        <5>1. {x} \in SUBSET Objects /\ x \in {x} /\ \A y \in {x} : e2[y] \in {x} \union {Nothing}
          BY <1>2
        <5>2. ToSet(Line(e2, x)) \subseteq {x}  BY <1>7, <5>1, LineWithin
        <5> QED BY <4>3, <5>2
      <4> DEFINE S == ToSet(Line(e, x)) \ gone
      <4>6. ToSet(Line(e2, x)) \subseteq S
        <5>1. S \in SUBSET Objects /\ x \in S  BY <1>1, <4>5, OnLine
        <5>2. ASSUME NEW y \in S PROVE e2[y] \in S \union {Nothing}
          <6>1. y \in ToSet(Line(e, x)) /\ y \notin gone /\ y \in Objects  BY <5>1
          <6>2. e[y] \in ToSet(Line(e, x)) \union {Nothing}  BY <1>1, <2>1, <6>1, NextOnLine
          <6>3. CASE e[y] \in gone
            <7>1. e2[y] = e[e[y]] /\ e[e[y]] \notin gone  BY <1>2, <1>6, <1>9, <6>1, <6>3
            <7>2. e[y] \in ToSet(Line(e, x))  BY <1>8, <6>2, <6>3
            <7>3. e[e[y]] \in ToSet(Line(e, x)) \union {Nothing}  BY <1>1, <2>1, <7>2, NextOnLine
            <7> QED BY <7>1, <7>3
          <6>4. CASE e[y] \notin gone
            <7>1. e2[y] = e[y]  BY <1>2, <6>1, <6>4
            <7> QED BY <6>2, <6>4, <7>1
          <6> QED BY <6>3, <6>4
        <5> HIDE DEF S
        <5> QED BY <1>7, <5>1, <5>2, LineWithin
      <4>7. a \in ToSet(Line(w.parent, x)) /\ b \in ToSet(Line(w.parent, x))  BY <1>7, <4>6
      <4>8. /\ i \in DOMAIN w.props[a] /\ j \in DOMAIN w.props[b]
            /\ w.props[a][i].name = w.props[b][j].name
        BY <4>4
      <4> QED BY <3>8, <4>7, <4>8 DEF NamesOnce
    <3> QED BY <2>3, <3>1, <3>4, <3>5, <3>6, <3>7, <3>8 DEF Good
  <2>6. RowsFit(w, w2, rows)
    <3>1. Whole(rows)
      <4>1. ASSUME NEW x \in Objects, <<"object", x>> \in rows
            PROVE  Row("parent", {x}) \union Row("props", {x}) \union Row("verbs", {x}) \subseteq rows
        <5>1. x \in gone  BY <1>5, <4>1
        <5>2. <<"parent", x>> \in rows /\ <<"props", x>> \in rows /\ <<"verbs", x>> \in rows
          BY <1>5, <5>1
        <5> QED BY <5>2 DEF Row
      <4> QED BY <4>1 DEF Whole
    <3>2. w2.valid = {x \in w.valid : <<"object", x>> \notin rows}  BY <1>2, <1>5
    <3>3. \A x \in Objects : e[x] \in gone => x \in w.valid  BY <1>7, <1>8, <2>1 DEF Bare
    <3>4. \A x \in Objects, k \in {"parent", "props", "verbs"} : <<k, x>> \in rows => x \in w.valid
      BY <1>5, <3>3
    <3> QED BY <3>1, <3>2, <3>4 DEF RowsFit
  <2> QED BY <2>1, <2>2, <2>3, <2>4, <2>5, <2>6
<1>10. EditOK(w, c, w2, InvalidateHierarchy(c, objs), rows)
  BY <1>3, <1>4, <1>9, HierarchyOK
<1> QED BY <1>7, <1>10

\* Recycling an object is an edit that fits
LEMMA RecycleEdit ==
  ASSUME TypeOK, NEW t \in Threads, NEW o \in Objects, Acyclic(tx[t].view.parent),
         recycle_object(t, o)
  PROVE  SomeEdit(t)
<1> DEFINE w == tx[t].view
           c == tx[t].caches
           w2 == Removed(w, {o}, w.parent)
           B == branch_objects(w, o)
<1>1. w \in World /\ c \in Caches /\ Acyclic(w.parent)  BY ViewTypes
<1>2. o \in w.valid /\ Edits(t, "recycle", w2, InvalidateHierarchy(c, B), RemovedRows(w, {o}), 0)
  BY DEF recycle_object
<1> HIDE DEF w, c
<1>3. w.parent \in Edge  BY <1>1, WorldFacts
<1>4. \A x \in Objects \ {o} : w.parent[x] \in {o} => w.parent[w.parent[x]] \notin {o}
  <2>1. w.parent[o] # o
    <3> SUFFICES ASSUME w.parent[o] = o PROVE FALSE  OBVIOUS
    <3>1. w.parent[o] # Nothing  BY InheritanceConstants
    <3>2. o \notin ToSet(Line(w.parent, o))  BY <1>1, <1>3, <3>1, NotAboveItself
    <3> QED BY <1>3, <3>2, OnLine
  <2> QED BY <2>1
<1>5. \A x \in Objects \ B : \A y \in ToSet(Line(w.parent, x)) : y \notin {o}
  BY <1>1, BranchIs DEF B
<1> HIDE DEF w2, B
<1>6. {o} \in SUBSET Objects /\ {o} # {} /\ {o} \subseteq w.valid  BY <1>2
<1>7. EditOK(w, c, w2, InvalidateHierarchy(c, B), RemovedRows(w, {o}))
  BY <1>1, <1>4, <1>5, <1>6, RemovedOK DEF w2
<1>8. 0 \in 0..1  OBVIOUS
<1> QED BY <1>2, <1>7, <1>8 DEF SomeEdit, w, c

\* A sweep is an edit that fits
LEMMA SweepEdit ==
  ASSUME TypeOK, NEW t \in Threads, NEW gone \in SUBSET Objects, recycle_objects(t, gone)
  PROVE  SomeEdit(t)
<1> DEFINE w == tx[t].view
           c == tx[t].caches
           w2 == Removed(w, gone, w.parent)
           moved == {x \in Objects : w.parent[x] \in gone}
           objs == gone \union UNION {branch_objects(w, x) : x \in moved}
<1>1. w \in World /\ c \in Caches  BY ViewTypes
<1>2. /\ Cardinality(gone) > 1 /\ gone \subseteq w.valid
      /\ \A x \in Objects : w.parent[x] \in gone \/ w.loc[x] \in gone => x \in gone
      /\ Edits(t, "recycle", w2, InvalidateHierarchy(c, objs), RemovedRows(w, gone), 0)
  BY DEF recycle_objects
<1> HIDE DEF w, c
<1>3. w.parent \in Edge  BY <1>1, WorldFacts
<1>4. gone # {}  BY <1>2, FS_EmptySet
<1>5. ASSUME NEW x \in Objects \ objs, NEW y \in ToSet(Line(w.parent, x)) PROVE y \notin gone
  <2> DEFINE S == Objects \ gone
  <2>1. S \in SUBSET Objects /\ x \in S  OBVIOUS
  <2>2. \A z \in S : w.parent[z] \in S \union {Nothing}  BY <1>2, <1>3 DEF Edge
  <2> HIDE DEF S, objs
  <2>3. ToSet(Line(w.parent, x)) \subseteq S  BY <1>3, <2>1, <2>2, LineWithin
  <2> QED BY <1>5, <2>3 DEF S
<1>6. \A x \in Objects \ gone : w.parent[x] \in gone => w.parent[w.parent[x]] \notin gone
  BY <1>2
<1>7. \A x \in Objects \ objs : \A y \in ToSet(Line(w.parent, x)) : y \notin gone  BY <1>5
<1>8. gone \subseteq w.valid  BY <1>2
<1> HIDE DEF w2, objs
<1>9. EditOK(w, c, w2, InvalidateHierarchy(c, objs), RemovedRows(w, gone))
  BY <1>1, <1>4, <1>6, <1>7, <1>8, RemovedOK DEF w2
<1>10. 0 \in 0..1  OBVIOUS
<1> QED BY <1>2, <1>9, <1>10 DEF SomeEdit, w, c

\* x under the number it has after o became m
Renamed(o, m, x) == IF x = o THEN m ELSE x

\* The number x had before o became m
Origin(o, m, x) == IF x = m THEN o ELSE x

\* The edges after o became m
EdgesMoved(e, o, m) ==
  [x \in Objects |-> IF x = o THEN Nothing
                     ELSE IF x = m THEN Renamed(o, m, e[o]) ELSE Renamed(o, m, e[x])]

\* A renumbering keeps a forest a forest
LEMMA RenumberEdge ==
  ASSUME NEW e \in Edge, NEW V \in SUBSET Objects, NEW o \in V, NEW m \in Objects \ V,
         \A x \in Objects : e[x] \in V \union {Nothing}, Acyclic(e)
  PROVE  /\ EdgesMoved(e, o, m) \in Edge /\ Acyclic(EdgesMoved(e, o, m))
         /\ \A x \in Objects : EdgesMoved(e, o, m)[x] \in ((V \ {o}) \union {m}) \union {Nothing}
<1> DEFINE e2 == EdgesMoved(e, o, m)
<1>1. o # Nothing /\ m # Nothing /\ o # m /\ o \in Objects /\ Nothing \notin V
  BY InheritanceConstants
<1>2. PICK r \in [Objects -> 1..Depth] : \A x \in Objects : e[x] # Nothing => r[e[x]] < r[x]
  BY AcyclicIsRanked
<1>3. \A x \in Objects : r[x] \in Int  BY <1>2, DepthType
<1>4. e[o] # o  BY <1>1, <1>2, <1>3
<1>5. \A x \in Objects : e[x] # m  BY <1>1
<1>6. /\ \A x \in Objects \ {o, m} : e2[x] = Renamed(o, m, e[x])
      /\ e2[m] = e[o] /\ e2[o] = Nothing
  BY <1>1, <1>4 DEF EdgesMoved, Renamed
<1>7. \A x \in Objects : e2[x] \in ((V \ {o}) \union {m}) \union {Nothing}
  BY <1>1, <1>4, <1>6 DEF Renamed
<1>8. e2 \in Edge
  <2>1. e2 = [x \in Objects |-> e2[x]]  BY DEF EdgesMoved
  <2> HIDE DEF e2
  <2> QED BY <1>7, <2>1 DEF Edge
<1> HIDE DEF e2
<1> DEFINE q == [x \in Objects |-> IF x = m THEN r[o] ELSE r[x]]
<1>9. q \in [Objects -> Int]  BY <1>1, <1>3
<1>10. ASSUME NEW x \in Objects, e2[x] # Nothing PROVE q[e2[x]] < q[x]
  <2>1. CASE x = m
    <3>1. e2[x] = e[o] /\ e[o] # Nothing /\ e[o] # m /\ e[o] \in Objects
      BY <1>1, <1>5, <1>6, <1>10, <2>1
    <3>2. r[e[o]] < r[o]  BY <1>1, <1>2, <3>1
    <3> QED BY <1>1, <2>1, <3>1, <3>2
  <2>2. CASE x # m
    <3>1. x # o /\ e2[x] = Renamed(o, m, e[x])  BY <1>6, <1>10, <2>2
    <3>2. e[x] # Nothing /\ e[x] # m /\ e[x] \in Objects  BY <1>1, <1>5, <1>10, <3>1 DEF Renamed
    <3>3. r[e[x]] < r[x]  BY <1>2, <3>2
    <3>4. q[x] = r[x]  BY <2>2
    <3>5. q[e2[x]] = r[e[x]]
      <4>1. CASE e[x] = o  BY <3>1, <4>1 DEF Renamed
      <4>2. CASE e[x] # o  BY <3>1, <3>2, <4>2 DEF Renamed
      <4> QED BY <4>1, <4>2
    <3> QED BY <3>3, <3>4, <3>5
  <2> QED BY <2>1, <2>2
<1> HIDE DEF q
<1>11. Acyclic(e2)  BY <1>8, <1>9, <1>10, RankedIsAcyclic
<1> QED BY <1>7, <1>8, <1>11 DEF e2

\* The lines after o became m
LEMMA RenumberLine ==
  ASSUME NEW w \in World, TreeOK(w), Bare(w), NEW o \in w.valid, NEW m \in Objects \ w.valid,
         NEW e2 \in Edge, e2 = EdgesMoved(w.parent, o, m), NEW x \in Objects
  PROVE  /\ x = o => ToSet(Line(e2, x)) = {o}
         /\ x # o => \A y \in ToSet(Line(e2, x)) :
                        \E z \in ToSet(Line(w.parent, Origin(o, m, x))) : z # m /\ y = Renamed(o, m, z)
         /\ x # m => m \notin ToSet(Line(w.parent, x))
         /\ x # m /\ o \notin ToSet(Line(w.parent, x)) => Line(e2, x) = Line(w.parent, x)
<1> DEFINE e == w.parent
           V == w.valid
<1>0. /\ e \in Edge /\ V \in SUBSET Objects /\ Acyclic(e) /\ e2 = EdgesMoved(e, o, m)
      /\ \A y \in Objects : e[y] \in V \union {Nothing}
      /\ \A y \in Objects \ V : e[y] = Nothing
      /\ o \in V /\ m \in Objects \ V
  BY WorldFacts DEF TreeOK, Bare
<1> HIDE DEF e, V
<1>1. o # Nothing /\ m # Nothing /\ o # m /\ o \in Objects /\ Nothing \notin V
  BY <1>0, InheritanceConstants
<1>2. /\ \A y \in V : ToSet(Line(e, y)) \subseteq V
      /\ \A y \in Objects \ V : ToSet(Line(e, y)) = {y}
  BY <1>0, FreeNumber
<1>3. \A y \in Objects : y # m => m \notin ToSet(Line(e, y))  BY <1>0, <1>2
<1>4. /\ \A y \in Objects \ {o, m} : e2[y] = Renamed(o, m, e[y])
      /\ e2[m] = Renamed(o, m, e[o]) /\ e2[o] = Nothing
  BY <1>0, <1>1 DEF EdgesMoved
<1>5. ASSUME x = o PROVE ToSet(Line(e2, x)) = {o}
  <2>1. {o} \in SUBSET Objects /\ \A y \in {o} : e2[y] \in {o} \union {Nothing}  BY <1>1, <1>4
  <2>2. ToSet(Line(e2, o)) \subseteq {o}  BY <2>1, LineWithin
  <2>3. o \in ToSet(Line(e2, o))  BY <1>1, OnLine
  <2> QED BY <1>5, <2>2, <2>3
<1>6. ASSUME x # o
      PROVE  \A y \in ToSet(Line(e2, x)) :
                \E z \in ToSet(Line(e, Origin(o, m, x))) : z # m /\ y = Renamed(o, m, z)
  <2> DEFINE s == Origin(o, m, x)
             L == ToSet(Line(e, s))
             S == {Renamed(o, m, z) : z \in L}
  <2>1. s \in Objects /\ s # m  BY <1>1 DEF Origin
  <2>2. L \in SUBSET Objects /\ s \in L /\ m \notin L  BY <1>0, <1>3, <2>1, OnLine
  <2>3. \A z \in L : e[z] \in L \union {Nothing}  BY <1>0, <2>1, NextOnLine
  <2>4. x \in S
    <3>1. x = Renamed(o, m, s)  BY <1>6 DEF Renamed, Origin
    <3> QED BY <2>2, <3>1
  <2> HIDE DEF L
  <2>5. S \in SUBSET Objects  BY <1>0, <2>2 DEF Renamed
  <2>6. ASSUME NEW z \in L PROVE e2[Renamed(o, m, z)] \in S \union {Nothing}
    <3>1. e2[Renamed(o, m, z)] = Renamed(o, m, e[z])
      <4>1. CASE z = o  BY <1>4, <4>1 DEF Renamed
      <4>2. CASE z # o  BY <1>4, <2>2, <4>2 DEF Renamed
      <4> QED BY <4>1, <4>2
    <3>2. Renamed(o, m, Nothing) = Nothing  BY <1>1 DEF Renamed
    <3> QED BY <2>3, <3>1, <3>2
  <2>7. \A y \in S : e2[y] \in S \union {Nothing}  BY <2>6
  <2>8. ToSet(Line(e2, x)) \subseteq S
    <3> HIDE DEF S
    <3> QED BY <2>4, <2>5, <2>7, LineWithin
  <2> QED BY <2>2, <2>8 DEF L
<1>7. ASSUME x # m, o \notin ToSet(Line(e, x)) PROVE Line(e2, x) = Line(e, x)
  <2>1. ASSUME NEW y \in ToSet(Line(e, x)) PROVE e2[y] = e[y]
    <3>1. y \in Objects /\ y # o /\ y # m  BY <1>0, <1>3, <1>7, OnLine
    <3>2. e[y] \in ToSet(Line(e, x)) \union {Nothing}  BY <1>0, NextOnLine
    <3>3. e[y] # o  BY <1>1, <1>7, <3>2
    <3> QED BY <1>4, <3>1, <3>3 DEF Renamed
  <2> QED BY <1>0, <2>1, LineLocal
<1> QED BY <1>3, <1>5, <1>6, <1>7 DEF e

\* The definitions of a row after o became m
Redefined(s, o, m) == [i \in DOMAIN s |-> [s[i] EXCEPT !.definer = Renamed(o, m, @)]]

\* The verbs of a row that moved to m
Relocated(s, m) == [i \in DOMAIN s |-> [s[i] EXCEPT !.at = m]]

\* They are definitions of the same names, and the same ones if o defined none of them
LEMMA RedefinedIs ==
  ASSUME NEW s \in Seq(PropDef), NEW o \in Objects, NEW m \in Objects
  PROVE  /\ Redefined(s, o, m) \in Seq(PropDef) /\ DOMAIN Redefined(s, o, m) = DOMAIN s
         /\ \A i \in DOMAIN s : /\ Redefined(s, o, m)[i].name = s[i].name
                                /\ Redefined(s, o, m)[i].definer = Renamed(o, m, s[i].definer)
         /\ (\A d \in ToSet(s) : d.definer # o) => Redefined(s, o, m) = s
<1> DEFINE r == Redefined(s, o, m)
<1>1. Len(s) \in Nat /\ DOMAIN s = 1..Len(s) /\ \A i \in 1..Len(s) : s[i] \in PropDef
  BY LenProperties
<1>2. ASSUME NEW d \in PropDef
      PROVE  /\ [d EXCEPT !.definer = Renamed(o, m, @)] \in PropDef
             /\ [d EXCEPT !.definer = Renamed(o, m, @)].name = d.name
             /\ [d EXCEPT !.definer = Renamed(o, m, @)].definer = Renamed(o, m, d.definer)
             /\ d.definer # o => [d EXCEPT !.definer = Renamed(o, m, @)] = d
  BY DEF PropDef, Renamed
<1>3. DOMAIN r = DOMAIN s /\ \A i \in DOMAIN s : r[i] = [s[i] EXCEPT !.definer = Renamed(o, m, @)]
  BY DEF Redefined
<1>4. r = [i \in 1..Len(s) |-> r[i]]  BY <1>1, <1>3 DEF Redefined
<1> HIDE DEF r
<1>5. \A i \in 1..Len(s) : r[i] \in PropDef  BY <1>1, <1>2, <1>3
<1>6. r \in Seq(PropDef)  BY <1>1, <1>4, <1>5
<1>7. ASSUME \A d \in ToSet(s) : d.definer # o PROVE r = s
  <2>1. ASSUME NEW i \in 1..Len(s) PROVE r[i] = s[i]
    <3>1. s[i] \in ToSet(s)  BY <1>1 DEF ToSet
    <3> QED BY <1>1, <1>2, <1>3, <1>7, <3>1
  <2>2. s = [i \in 1..Len(s) |-> s[i]]  BY <1>1, LenProperties
  <2> QED BY <1>4, <2>1, <2>2
<1> QED BY <1>1, <1>2, <1>3, <1>6, <1>7 DEF r

\* They are verbs at m
LEMMA RelocatedIs ==
  ASSUME NEW s \in Seq(Verb), NEW m \in Objects
  PROVE  Relocated(s, m) \in Seq(Verb) /\ \A v \in ToSet(Relocated(s, m)) : v.at = m
<1> DEFINE r == Relocated(s, m)
<1>1. Len(s) \in Nat /\ DOMAIN s = 1..Len(s) /\ \A i \in 1..Len(s) : s[i] \in Verb
  BY LenProperties
<1>2. ASSUME NEW d \in Verb PROVE [d EXCEPT !.at = m] \in Verb /\ [d EXCEPT !.at = m].at = m
  BY DEF Verb
<1>3. DOMAIN r = 1..Len(s) /\ \A i \in 1..Len(s) : r[i] = [s[i] EXCEPT !.at = m]
  BY <1>1 DEF Relocated
<1>4. r = [i \in 1..Len(s) |-> r[i]]  BY <1>1, <1>3 DEF Relocated
<1> HIDE DEF r
<1>5. ASSUME NEW i \in 1..Len(s) PROVE r[i] \in Verb /\ r[i].at = m
  <2>1. PICK d \in Verb : d = s[i]  BY <1>1
  <2>2. r[i] = [d EXCEPT !.at = m]  BY <1>3, <2>1
  <2> QED BY <1>2, <2>2
<1>6. r \in Seq(Verb)  BY <1>1, <1>4, <1>5
<1> QED BY <1>3, <1>5, <1>6 DEF r, ToSet

\* The definitions of all objects after o became m
PropsMoved(w, o, m) ==
  [x \in Objects |-> IF x = o THEN <<>>
                     ELSE IF x = m THEN Redefined(w.props[o], o, m) ELSE Redefined(w.props[x], o, m)]

\* The verbs of all objects after o became m
VerbsMoved(w, o, m) ==
  [x \in Objects |-> IF x = o THEN NoRow
                     ELSE IF x = m THEN IF w.verbs[o] = NoRow THEN NoRow ELSE Relocated(w.verbs[o], m)
                     ELSE w.verbs[x]]

\* The world after o became m
WorldMoved(w, o, m) ==
  [valid |-> (w.valid \ {o}) \union {m}, parent |-> EdgesMoved(w.parent, o, m),
   loc |-> EdgesMoved(w.loc, o, m), props |-> PropsMoved(w, o, m), verbs |-> VerbsMoved(w, o, m)]

\* It is a world
LEMMA WorldMovedType ==
  ASSUME NEW w \in World, NEW o \in Objects, NEW m \in Objects
  PROVE  WorldMoved(w, o, m) \in World
<1>1. /\ w.parent \in Edge /\ w.loc \in Edge /\ w.valid \in SUBSET Objects
      /\ w.props \in [Objects -> Seq(PropDef)]
      /\ w.verbs \in [Objects -> Seq(Verb) \union {NoRow}]
  BY WorldFacts
<1>2. \A e \in Edge : EdgesMoved(e, o, m) \in Edge  BY DEF EdgesMoved, Edge, Renamed
<1>3. PropsMoved(w, o, m) \in [Objects -> Seq(PropDef)]
  <2>1. \A x \in Objects : Redefined(w.props[x], o, m) \in Seq(PropDef)  BY <1>1, RedefinedIs
  <2> QED BY <2>1 DEF PropsMoved
<1>4. VerbsMoved(w, o, m) \in [Objects -> Seq(Verb) \union {NoRow}]
  <2>1. w.verbs[o] # NoRow => Relocated(w.verbs[o], m) \in Seq(Verb)  BY <1>1, RelocatedIs
  <2> QED BY <1>1, <2>1 DEF VerbsMoved
<1> QED BY <1>1, <1>2, <1>3, <1>4 DEF WorldMoved, World

\* What a renumbering makes of a good world
LEMMA WorldMovedGood ==
  ASSUME NEW w \in World, NEW o \in w.valid, NEW m \in Objects \ w.valid, Good(w),
         "renumber" \in scenario.ops
  PROVE  /\ Good(WorldMoved(w, o, m)) /\ Bare(WorldMoved(w, o, m))
         /\ \A x \in Objects \ (branch_objects(w, o) \union {m}) :
               KeepsProps(w, WorldMoved(w, o, m), x) /\ KeepsVerbs(w, WorldMoved(w, o, m), x)
         /\ \A x \in Objects \ {o, m} :
               WorldMoved(w, o, m).props[x] = w.props[x] /\ WorldMoved(w, o, m).verbs[x] = w.verbs[x]
<1> DEFINE w2 == WorldMoved(w, o, m)
           e == w.parent
           e2 == w2.parent
<1>1. /\ e \in Edge /\ w.loc \in Edge /\ w.valid \in SUBSET Objects
      /\ w.props \in [Objects -> Seq(PropDef)]
      /\ w.verbs \in [Objects -> Seq(Verb) \union {NoRow}]
  BY WorldFacts
<1>2. o \in Objects /\ o # m /\ m \in Objects /\ o # Nothing /\ m # Nothing
  BY <1>1, InheritanceConstants
<1>3. w2 \in World  BY <1>2, WorldMovedType
<1>4. /\ w2.valid = (w.valid \ {o}) \union {m} /\ e2 = EdgesMoved(e, o, m)
      /\ w2.loc = EdgesMoved(w.loc, o, m)
      /\ w2.props = PropsMoved(w, o, m) /\ w2.verbs = VerbsMoved(w, o, m)
  BY DEF WorldMoved
<1>5. e2 \in Edge  BY <1>3, WorldFacts
<1>6. e = w.parent /\ e2 = w2.parent  OBVIOUS
<1> HIDE DEF w2, e, e2
<1>7. TreeOK(w) /\ Bare(w) /\ AtHome(w)  BY DEF Good
<1>8. Acyclic(e) /\ (\A x \in Objects : e[x] \in w.valid \union {Nothing})
      /\ (\A x \in Objects \ w.valid : e[x] = Nothing)
  BY <1>6, <1>7 DEF TreeOK, Bare
<1>0. \A s \in Seq(PropDef) :
        /\ DOMAIN Redefined(s, o, m) = DOMAIN s
        /\ \A i \in DOMAIN s : Redefined(s, o, m)[i].name = s[i].name
        /\ (\A d \in ToSet(s) : d.definer # o) => Redefined(s, o, m) = s
  BY <1>2, RedefinedIs
<1>9. \A x \in Objects \ {o, m} : w2.props[x] = w.props[x] /\ w2.verbs[x] = w.verbs[x]
  <2> TAKE x \in Objects \ {o, m}
  <2>1. w.props[x] \in Seq(PropDef) /\ \A d \in ToSet(w.props[x]) : d.definer # o
    BY <1>1, <1>7 DEF AtHome
  <2>2. Redefined(w.props[x], o, m) = w.props[x]  BY <1>0, <2>1
  <2> QED BY <1>4, <2>2 DEF PropsMoved, VerbsMoved
<1>10. w2.props[m] = Redefined(w.props[o], o, m) /\ w2.props[o] = <<>> /\ w2.verbs[o] = NoRow
       /\ w2.verbs[m] = IF w.verbs[o] = NoRow THEN NoRow ELSE Relocated(w.verbs[o], m)
  BY <1>2, <1>4 DEF PropsMoved, VerbsMoved
<1>11. TreeOK(w2)
  <2>1. /\ EdgesMoved(e, o, m) \in Edge /\ Acyclic(EdgesMoved(e, o, m))
        /\ \A x \in Objects : EdgesMoved(e, o, m)[x] \in ((w.valid \ {o}) \union {m}) \union {Nothing}
    BY <1>1, <1>8, RenumberEdge
  <2> QED BY <1>4, <1>6, <2>1 DEF TreeOK
<1>12. Bare(w2)
  <2>1. ASSUME NEW x \in Objects \ w2.valid
        PROVE  e2[x] = Nothing /\ w2.props[x] = <<>> /\ w2.verbs[x] = NoRow
    <3>1. CASE x = o  BY <1>4, <1>10, <3>1 DEF EdgesMoved
    <3>2. CASE x # o
      <4>1. x \notin w.valid /\ x # m  BY <1>4, <3>2
      <4>2. e[x] = Nothing /\ w.props[x] = <<>> /\ w.verbs[x] = NoRow  BY <1>6, <1>7, <4>1 DEF Bare
      <4>3. e2[x] = Nothing  BY <1>2, <1>4, <3>2, <4>1, <4>2 DEF EdgesMoved, Renamed
      <4> QED BY <1>9, <3>2, <4>1, <4>2, <4>3
    <3> QED BY <3>1, <3>2
  <2> QED BY <1>6, <2>1 DEF Bare
<1>13. AtHome(w2)
  <2>0. ToSet(<<>>) = {}  BY DEF ToSet
  <2>1. ASSUME NEW v \in ToSet(VerbRow(w2, m)) PROVE v.at = m
    <3>1. w2.verbs[m] # NoRow  BY <2>0, <2>1 DEF VerbRow
    <3>2. w.verbs[o] # NoRow /\ VerbRow(w2, m) = Relocated(w.verbs[o], m)
      BY <1>10, <3>1 DEF VerbRow
    <3>3. w.verbs[o] \in Seq(Verb)  BY <1>1, <1>2, <3>2
    <3> QED BY <1>2, <2>1, <3>2, <3>3, RelocatedIs
  <2>2. ASSUME NEW d \in ToSet(w2.props[m]) PROVE d.definer = m
    <3>1. w.props[o] \in Seq(PropDef)  BY <1>1, <1>2
    <3>2. PICK i \in DOMAIN w2.props[m] : d = w2.props[m][i]  BY <2>2 DEF ToSet
    <3>3. i \in DOMAIN w.props[o] /\ d.definer = Renamed(o, m, w.props[o][i].definer)
      BY <1>2, <1>10, <3>1, <3>2, RedefinedIs
    <3>4. w.props[o][i].definer = o
      <4>1. w.props[o][i] \in ToSet(w.props[o])  BY <3>3 DEF ToSet
      <4> QED BY <1>2, <1>7, <4>1 DEF AtHome
    <3> QED BY <3>3, <3>4 DEF Renamed
  <2>3. VerbRow(w2, o) = <<>> /\ w2.props[o] = <<>>  BY <1>10 DEF VerbRow
  <2>4. \A x \in Objects \ {o, m} : VerbRow(w2, x) = VerbRow(w, x) /\ w2.props[x] = w.props[x]
    BY <1>9 DEF VerbRow
  <2> QED BY <1>7, <2>0, <2>1, <2>2, <2>3, <2>4 DEF AtHome
<1>14. "move" \notin scenario.ops => Acyclic(w2.loc) /\ LocsExist(w2)
  <2>1. SUFFICES ASSUME "move" \notin scenario.ops PROVE Acyclic(w2.loc) /\ LocsExist(w2)
    OBVIOUS
  <2>2. Acyclic(w.loc) /\ \A x \in Objects : w.loc[x] \in w.valid \union {Nothing}
    BY <2>1 DEF Good, LocsExist
  <2>3. /\ EdgesMoved(w.loc, o, m) \in Edge /\ Acyclic(EdgesMoved(w.loc, o, m))
        /\ \A x \in Objects : EdgesMoved(w.loc, o, m)[x] \in ((w.valid \ {o}) \union {m}) \union {Nothing}
    BY <1>1, <2>2, RenumberEdge
  <2> QED BY <1>4, <2>3 DEF LocsExist
<1>15. \A x \in Objects :
         /\ x = o => ToSet(Line(e2, x)) = {o}
         /\ x # o => \A y \in ToSet(Line(e2, x)) :
                        \E z \in ToSet(Line(e, Origin(o, m, x))) : z # m /\ y = Renamed(o, m, z)
         /\ x # m => m \notin ToSet(Line(e, x))
         /\ x # m /\ o \notin ToSet(Line(e, x)) => Line(e2, x) = Line(e, x)
  <2>1. e2 \in Edge /\ e2 = EdgesMoved(w.parent, o, m)  BY <1>4, <1>5, <1>6
  <2>2. ASSUME NEW x \in Objects
        PROVE  /\ x = o => ToSet(Line(e2, x)) = {o}
               /\ x # o => \A y \in ToSet(Line(e2, x)) :
                    \E z \in ToSet(Line(w.parent, Origin(o, m, x))) : z # m /\ y = Renamed(o, m, z)
               /\ x # m => m \notin ToSet(Line(w.parent, x))
               /\ x # m /\ o \notin ToSet(Line(w.parent, x)) => Line(e2, x) = Line(w.parent, x)
    BY <1>7, <2>1, RenumberLine
  <2> QED BY <1>6, <2>2
<1>16. ASSUME NamesOnce(w) PROVE NamesOnce(w2)
  <2> SUFFICES ASSUME NEW x \in Objects, NEW a \in ToSet(Line(e2, x)), NEW b \in ToSet(Line(e2, x)),
                      NEW i \in DOMAIN w2.props[a], NEW j \in DOMAIN w2.props[b],
                      w2.props[a][i].name = w2.props[b][j].name
               PROVE  a = b /\ i = j
    BY <1>6 DEF NamesOnce
  <2>1. DOMAIN <<>> = {}  OBVIOUS
  <2>2. x # o  BY <1>10, <1>15, <2>1
  <2> DEFINE s == Origin(o, m, x)
  <2>3. s \in Objects  BY <1>2 DEF Origin
  <2>4. \A y \in ToSet(Line(e2, x)) : \E z \in ToSet(Line(e, s)) : z # m /\ y = Renamed(o, m, z)
    BY <1>15, <2>2
  <2> HIDE DEF s
  <2>5. ToSet(Line(e, s)) \subseteq Objects  BY <1>1, <2>3, OnLine
  <2>6. PICK f \in ToSet(Line(e, s)) : f # m /\ a = Renamed(o, m, f)  BY <2>4
  <2>7. PICK g \in ToSet(Line(e, s)) : g # m /\ b = Renamed(o, m, g)  BY <2>4
  <2>8. ASSUME NEW z \in Objects, z # m, NEW k \in DOMAIN w2.props[Renamed(o, m, z)]
        PROVE  k \in DOMAIN w.props[z] /\ w2.props[Renamed(o, m, z)][k].name = w.props[z][k].name
    <3>1. CASE z = o
      <4>1. Renamed(o, m, z) = m /\ w.props[o] \in Seq(PropDef)  BY <1>1, <1>2, <3>1 DEF Renamed
      <4>2. k \in DOMAIN Redefined(w.props[o], o, m)  BY <1>10, <2>8, <4>1
      <4>3. k \in DOMAIN w.props[o] /\ Redefined(w.props[o], o, m)[k].name = w.props[o][k].name
        BY <1>0, <4>1, <4>2
      <4> QED BY <1>10, <3>1, <4>1, <4>3
    <3>2. CASE z # o
      <4>1. Renamed(o, m, z) = z  BY <3>2 DEF Renamed
      <4> QED BY <1>9, <2>8, <3>2, <4>1
    <3> QED BY <3>1, <3>2
  <2>9. /\ i \in DOMAIN w.props[f] /\ w2.props[a][i].name = w.props[f][i].name
        /\ j \in DOMAIN w.props[g] /\ w2.props[b][j].name = w.props[g][j].name
    BY <2>5, <2>6, <2>7, <2>8
  <2>10. f = g /\ i = j  BY <1>6, <1>16, <2>3, <2>6, <2>7, <2>9 DEF NamesOnce
  <2> QED BY <2>6, <2>7, <2>10
<1>17. ASSUME NEW x \in Objects \ (branch_objects(w, o) \union {m})
       PROVE  KeepsProps(w, w2, x) /\ KeepsVerbs(w, w2, x)
  <2>1. o \notin ToSet(Line(e, x)) /\ x # m  BY <1>2, <1>6, BranchIs
  <2>2. Line(e2, x) = Line(e, x) /\ m \notin ToSet(Line(e, x))  BY <1>15, <2>1
  <2>3. ToSet(Line(e, x)) \subseteq Objects  BY <1>1, OnLine
  <2>4. \A y \in ToSet(Line(e, x)) : w2.props[y] = w.props[y] /\ w2.verbs[y] = w.verbs[y]
    BY <1>9, <2>1, <2>2, <2>3
  <2> QED BY <1>6, <2>2, <2>4 DEF KeepsProps, KeepsVerbs, KeepsLine
<1>18. Good(w2)  BY <1>11, <1>12, <1>13, <1>14, <1>16 DEF Good
<1> QED BY <1>9, <1>12, <1>17, <1>18 DEF w2

\* Renumbering is an edit that fits
LEMMA RenumberEdit ==
  ASSUME TypeOK, NEW t \in Threads, NEW o \in Objects, NEW m \in Objects, renumber_object(t, o, m)
  PROVE  SomeEdit(t)
<1> DEFINE w == tx[t].view
           c == tx[t].caches
           To(x) == IF x = o THEN m ELSE x
           Move(f, none) == [x \in Objects |-> IF x = o THEN none ELSE IF x = m THEN f[o] ELSE f[x]]
           Refs(f) == [x \in Objects |-> To(f[x])]
           propsTo == [x \in Objects |-> [i \in DOMAIN w.props[x] |->
                        [w.props[x][i] EXCEPT !.definer = To(@)]]]
           verbsTo == [w.verbs EXCEPT ![o] = IF @ = NoRow THEN @
                        ELSE [i \in DOMAIN @ |-> [@[i] EXCEPT !.at = m]]]
           children == {x \in Objects : w.parent[x] = o}
           contents == {x \in Objects : w.loc[x] = o}
           w2 == [valid  |-> (w.valid \ {o}) \union {m},
                  parent |-> Move(Refs(w.parent), Nothing),
                  loc    |-> Move(Refs(w.loc), Nothing),
                  props  |-> Move(propsTo, <<>>),
                  verbs  |-> Move(verbsTo, NoRow)]
           objs == branch_objects(w, o) \union {m}
           rows == Row("object", {o, m}) \union Row("props", {o, m}) \union Row("verbs", {o, m})
                   \union Row("parent", {o, m} \union children)
                   \union Row("loc", {o, m} \union contents)
           v == WorldMoved(w, o, m)
<1>1. w \in World /\ c \in Caches  BY ViewTypes
<1>2. /\ o \in w.valid /\ m \notin w.valid /\ "renumber" \in scenario.ops
      /\ Edits(t, "renumber", w2, InvalidateHierarchy(c, objs), rows, 0)
  BY DEF renumber_object, Edits
<1> HIDE DEF w, c
<1>3. /\ w.parent \in Edge /\ w.loc \in Edge /\ w.valid \in SUBSET Objects
      /\ w.props \in [Objects -> Seq(PropDef)]
      /\ w.verbs \in [Objects -> Seq(Verb) \union {NoRow}]
  BY <1>1, WorldFacts
<1>4. w2 = v
  <2>1. \A f : Move(Refs(f), Nothing) = EdgesMoved(f, o, m)  BY DEF EdgesMoved, Renamed
  <2>2. Move(propsTo, <<>>) = PropsMoved(w, o, m)  BY DEF PropsMoved, Redefined, Renamed
  <2>3. Move(verbsTo, NoRow) = VerbsMoved(w, o, m)
    <3>1. verbsTo[o] = IF w.verbs[o] = NoRow THEN NoRow ELSE Relocated(w.verbs[o], m)
      BY <1>3 DEF Relocated
    <3>2. \A x \in Objects : x # o => verbsTo[x] = w.verbs[x]  BY <1>3
    <3> HIDE DEF verbsTo
    <3> QED BY <3>1, <3>2 DEF VerbsMoved
  <2> HIDE DEF Move, Refs, propsTo, verbsTo
  <2> QED BY <2>1, <2>2, <2>3 DEF WorldMoved
<1>5. v \in World  BY <1>1, WorldMovedType
<1>6. /\ rows \in SUBSET (Kind \X Objects) /\ rows # {}
      /\ \A x \in {o, m}, k \in {"object", "props", "verbs", "parent", "loc"} : <<k, x>> \in rows
      /\ \A x \in children : <<"parent", x>> \in rows
      /\ \A x \in contents : <<"loc", x>> \in rows
  <2> DEFINE P == {o, m} \union children
             L == {o, m} \union contents
  <2>1. {"object", "props", "verbs", "parent", "loc"} \subseteq Kind /\ P \in SUBSET Objects
        /\ L \in SUBSET Objects /\ {o, m} \in SUBSET Objects /\ {o, m} # {}
    BY DEF Kind
  <2>2. rows = Row("object", {o, m}) \union Row("props", {o, m}) \union Row("verbs", {o, m})
                   \union Row("parent", P) \union Row("loc", L)
    OBVIOUS
  <2>3. children \subseteq P /\ contents \subseteq L /\ {o, m} \subseteq P /\ {o, m} \subseteq L
    OBVIOUS
  <2> HIDE DEF P, L, rows, children, contents
  <2>4. /\ Row("object", {o, m}) \in SUBSET (Kind \X Objects) /\ Row("props", {o, m}) \in SUBSET (Kind \X Objects)
        /\ Row("verbs", {o, m}) \in SUBSET (Kind \X Objects) /\ Row("parent", P) \in SUBSET (Kind \X Objects)
        /\ Row("loc", L) \in SUBSET (Kind \X Objects) /\ Row("object", {o, m}) # {}
    BY <2>1, RowTypes
  <2>5. /\ \A x \in {o, m} : /\ <<"object", x>> \in Row("object", {o, m})
                             /\ <<"props", x>> \in Row("props", {o, m})
                             /\ <<"verbs", x>> \in Row("verbs", {o, m})
        /\ \A x \in P : <<"parent", x>> \in Row("parent", P)
        /\ \A x \in L : <<"loc", x>> \in Row("loc", L)
    BY RowIs
  <2>6. rows \in SUBSET (Kind \X Objects) /\ rows # {}  BY <2>2, <2>4
  <2>7. \A x \in {o, m}, k \in {"object", "props", "verbs", "parent", "loc"} : <<k, x>> \in rows
    BY <2>2, <2>3, <2>5
  <2>8. (\A x \in children : <<"parent", x>> \in rows) /\ (\A x \in contents : <<"loc", x>> \in rows)
    BY <2>2, <2>3, <2>5
  <2> QED BY <2>6, <2>7, <2>8
<1> HIDE DEF w2, rows, v
<1>7. ASSUME Fit(w, c)
       PROVE  /\ Sound(w, c) /\ Agrees(w, v, rows) /\ Bare(v)
              /\ \A x \in Objects \ objs : KeepsProps(w, v, x) /\ KeepsVerbs(w, v, x)
              /\ SoleEditor => Good(v)
              /\ ~SoleEditor => RowsFit(w, v, rows)
  <2>1. SoleEditor  BY <1>2, <1>7 DEF Fit, NumbersKept
  <2>2. Good(w) /\ Sound(w, c)  BY <1>7, <2>1 DEF Fit
  <2>3. /\ Good(v) /\ Bare(v)
        /\ \A x \in Objects \ objs : KeepsProps(w, v, x) /\ KeepsVerbs(w, v, x)
        /\ \A x \in Objects \ {o, m} : v.props[x] = w.props[x] /\ v.verbs[x] = w.verbs[x]
    BY <1>1, <1>2, <2>2, WorldMovedGood DEF v
  <2>4. v.valid = (w.valid \ {o}) \union {m} /\ v.parent = EdgesMoved(w.parent, o, m)
        /\ v.loc = EdgesMoved(w.loc, o, m)
    BY DEF v, WorldMoved
  <2>5. Agrees(w, v, rows)
    <3>0. \A x \in Objects, k \in {"object", "props", "verbs", "parent", "loc"} :
             <<k, x>> \notin rows => x # o /\ x # m
      BY <1>6
    <3>1. \A x \in Objects : <<"object", x>> \notin rows => (x \in w.valid <=> x \in v.valid)
      BY <2>4, <3>0
    <3>2. ASSUME NEW x \in Objects, <<"parent", x>> \notin rows PROVE v.parent[x] = w.parent[x]
      <4>1. x # o /\ x # m /\ w.parent[x] # o  BY <1>6, <3>0, <3>2
      <4> QED BY <2>4, <4>1 DEF EdgesMoved, Renamed
    <3>3. ASSUME NEW x \in Objects, <<"loc", x>> \notin rows PROVE v.loc[x] = w.loc[x]
      <4>1. x # o /\ x # m /\ w.loc[x] # o  BY <1>6, <3>0, <3>3
      <4> QED BY <2>4, <4>1 DEF EdgesMoved, Renamed
    <3>4. \A x \in Objects : /\ <<"props", x>> \notin rows => v.props[x] = w.props[x]
                             /\ <<"verbs", x>> \notin rows => v.verbs[x] = w.verbs[x]
      BY <2>3, <3>0
    <3> QED BY <3>1, <3>2, <3>3, <3>4 DEF Agrees
  <2> QED BY <2>1, <2>2, <2>3, <2>5
<1> HIDE DEF objs
<1>8. EditOK(w, c, v, InvalidateHierarchy(c, objs), rows)
  BY <1>1, <1>5, <1>6, <1>7, HierarchyOK
<1>9. 0 \in 0..1  OBVIOUS
<1> QED BY <1>2, <1>4, <1>8, <1>9 DEF SomeEdit, w, c

-----------------------------------------------------------------------------
(* Steps of one transaction. *)

\* Every edit is one that fits, by an editor that runs in a view without a cycle
LEMMA EditIsSome ==
  ASSUME TypeOK, NEW t \in Threads, Edit(t)
  PROVE  /\ SomeEdit(t) /\ tx[t].phase = "active" /\ t \in scenario.editors
         /\ Acyclic(tx[t].view.parent)
<1>1. tx[t].phase = "active" /\ t \in scenario.editors /\ Acyclic(tx[t].view.parent)
  BY DEF Edit, Active
<1>2. scenario.names \subseteq Names  BY InheritanceConstants DEF TypeOK
<1>3. CASE \E o \in Objects, p \in Objects \union {Nothing} :
             create_object(t, o, p) \/ change_parent(t, o, p) \/ set_object_location(t, o, p)
  BY <1>1, <1>3, CreateEdit, ChparentEdit, MoveEdit DEF Place
<1>4. CASE \E o \in Objects : recycle_object(t, o)  BY <1>1, <1>4, RecycleEdit
<1>5. CASE \E gone \in SUBSET Objects : recycle_objects(t, gone)
  <2>1. PICK gone \in SUBSET Objects : recycle_objects(t, gone)  BY <1>5
  <2> QED BY <1>1, <2>1, SweepEdit
<1>6. CASE \E o, m \in Objects : renumber_object(t, o, m)
  <2>1. PICK o \in Objects, m \in Objects : renumber_object(t, o, m)  BY <1>6
  <2> QED BY <1>1, <2>1, RenumberEdit
<1>7. CASE \E o \in Objects, n \in scenario.names :
             \/ define_property(t, o, n)
             \/ \E i \in DOMAIN tx[t].view.props[o] : update_property_info(t, o, i, n)
             \/ \E x \in BOOLEAN :
                   \/ add_object_verb(t, o, n, x)
                   \/ \E i \in DOMAIN VerbRow(tx[t].view, o) : update_verb(t, o, i, n, x)
  <2>1. PICK o \in Objects, n \in Names :
             \/ define_property(t, o, n)
             \/ \E i \in DOMAIN tx[t].view.props[o] : update_property_info(t, o, i, n)
             \/ \E x \in BOOLEAN :
                   \/ add_object_verb(t, o, n, x)
                   \/ \E i \in DOMAIN VerbRow(tx[t].view, o) : update_verb(t, o, i, n, x)
    BY <1>2, <1>7
  <2>2. CASE define_property(t, o, n)  BY <1>1, <2>2, DefineEdit
  <2>3. ASSUME NEW i \in DOMAIN tx[t].view.props[o], update_property_info(t, o, i, n) PROVE SomeEdit(t)
    BY <2>3, RenameEdit
  <2>4. ASSUME NEW x \in BOOLEAN, add_object_verb(t, o, n, x) PROVE SomeEdit(t)
    BY <2>4, AddVerbEdit
  <2>5. ASSUME NEW x \in BOOLEAN, NEW i \in DOMAIN VerbRow(tx[t].view, o), update_verb(t, o, i, n, x)
        PROVE  SomeEdit(t)
    BY <2>5, UpdateVerbEdit
  <2> QED BY <1>1, <2>1, <2>2, <2>3, <2>4, <2>5
<1>8. CASE \E o \in Objects :
             \/ \E i \in DOMAIN tx[t].view.props[o] : delete_property(t, o, i)
             \/ \E i \in DOMAIN VerbRow(tx[t].view, o) : delete_verb(t, o, i)
  <2>1. PICK o \in Objects :
             \/ \E i \in DOMAIN tx[t].view.props[o] : delete_property(t, o, i)
             \/ \E i \in DOMAIN VerbRow(tx[t].view, o) : delete_verb(t, o, i)
    BY <1>8
  <2>2. ASSUME NEW i \in DOMAIN tx[t].view.props[o], delete_property(t, o, i) PROVE SomeEdit(t)
    BY <2>2, DeletePropertyEdit
  <2>3. ASSUME NEW i \in DOMAIN VerbRow(tx[t].view, o), delete_verb(t, o, i) PROVE SomeEdit(t)
    BY <2>3, DeleteVerbEdit
  <2> QED BY <1>1, <2>1, <2>2, <2>3
<1> QED BY <1>3, <1>4, <1>5, <1>6, <1>7, <1>8 DEF Edit

\* An idle transaction, and an empty world and empty caches
LEMMA NothingTypes == NoWorld \in World /\ NoCaches \in Caches /\ NoTx \in Transaction
<1>1. NoWorld \in World
  <2>1. [o \in Objects |-> Nothing] \in Edge  BY DEF Edge
  <2>2. [o \in Objects |-> <<>>] \in [Objects -> Seq(PropDef)]  BY EmptySeq
  <2>3. [o \in Objects |-> NoRow] \in [Objects -> Seq(Verb) \union {NoRow}]  OBVIOUS
  <2>4. {} \in SUBSET Objects  OBVIOUS
  <2> QED BY <2>1, <2>2, <2>3, <2>4 DEF NoWorld, World
<1>2. NoCaches \in Caches  BY DEF NoCaches, Caches
<1>3. NoTx \in Transaction  BY <1>1, <1>2 DEF NoTx, Transaction
<1> QED BY <1>1, <1>2, <1>3

\* Caches that remember nothing are sound
LEMMA NothingIsSound == \A w : Sound(w, NoCaches)
BY DEF Sound, NoCaches

\* An empty world is a good one
LEMMA NothingIsGood == ViewOK(NoWorld)
<1>1. NoWorld.parent \in Edge /\ NoWorld.loc \in Edge  BY DEF NoWorld, Edge
<1>2. \A o \in Objects : /\ NoWorld.parent[o] = Nothing /\ NoWorld.loc[o] = Nothing
                         /\ NoWorld.props[o] = <<>> /\ NoWorld.verbs[o] = NoRow
  BY DEF NoWorld
<1>3. Acyclic(NoWorld.parent) /\ Acyclic(NoWorld.loc)
  <2>1. [x \in Objects |-> 0] \in [Objects -> Int]  OBVIOUS
  <2> QED BY <1>1, <1>2, <2>1, RankedIsAcyclic
<1>4. Bare(NoWorld)  BY <1>2 DEF Bare
<1>5. AtHome(NoWorld)
  <2>1. ToSet(<<>>) = {}  BY DEF ToSet
  <2>2. \A o \in Objects : VerbRow(NoWorld, o) = <<>>  BY <1>2 DEF VerbRow
  <2> QED BY <1>2, <2>1, <2>2 DEF AtHome
<1>6. NamesOnce(NoWorld)
  <2>1. \A x \in Objects : ToSet(Line(NoWorld.parent, x)) \subseteq Objects  BY <1>1, OnLine
  <2>2. \A a \in Objects : DOMAIN NoWorld.props[a] = {}  BY <1>2
  <2> QED BY <2>1, <2>2 DEF NamesOnce
<1>7. TreeOK(NoWorld) /\ LocsExist(NoWorld)  BY <1>2, <1>3 DEF TreeOK, LocsExist
<1> QED BY <1>3, <1>4, <1>5, <1>6, <1>7 DEF ViewOK, Good

\* An idle transaction keeps every promise
LEMMA IdleOK ==
  ASSUME TypeOK, NEW t \in Threads
  PROVE  TxOK(t, NoTx)
<1>1. /\ NoTx.phase = "idle" /\ NoTx.base = 0 /\ NoTx.view = NoWorld
      /\ NoTx.touched = {} /\ NoTx.foreign = {}
  BY DEF NoTx
<1>2. root.version \in Nat  BY DEF TypeOK
<1>3. PhaseOK(t, NoTx)  BY <1>1, <1>2 DEF PhaseOK
<1>4. SightOK(t, NoTx)  BY <1>1 DEF SightOK, Reader
<1>5. CachesOK(NoTx)  BY <1>1 DEF CachesOK
<1>6. RowsOK(NoTx)  BY <1>1 DEF RowsOK, Whole
<1> QED BY <1>1, <1>3, <1>4, <1>5, <1>6, NothingIsGood DEF TxOK

\* A step of t alone keeps the invariant if it keeps t's promises
LEMMA LocalStep ==
  ASSUME TreeInv, NEW t \in Threads, NEW r, tx \in [Threads -> Transaction],
         NumbersKept => TxOK(t, r), tx' = [tx EXCEPT ![t] = r], UNCHANGED <<scenario, root, pub>>
  PROVE  TreeInv'
<1> SUFFICES ASSUME NumbersKept' PROVE (PlanesOK /\ \A u \in Threads : TxOK(u, tx[u]))'
  BY DEF TreeInv
<1>1. SoleEditor' = SoleEditor /\ NumbersKept /\ \A w : Good(w)' = Good(w)
  BY DEF NumbersKept, SoleEditor, Good
<1>2. PlanesOK /\ \A u \in Threads : TxOK(u, tx[u])  BY <1>1 DEF TreeInv
<1>3. TxOK(t, r)  BY <1>1
<1>4. \A w : ViewOK(w)' <=> ViewOK(w)  BY <1>1 DEF ViewOK
<1>5. PlanesOK'  BY <1>2, <1>4 DEF PlanesOK
<1>6. \A u \in Threads : tx'[u] = IF u = t THEN r ELSE tx[u]  OBVIOUS
<1>7. ASSUME NEW u \in Threads PROVE TxOK(u, tx[u])'
  <2> DEFINE q == tx'[u]
  <2>1. TxOK(u, q)  BY <1>2, <1>3, <1>6
  <2>2. PhaseOK(u, tx[u])'  BY <1>1, <2>1 DEF TxOK, PhaseOK
  <2>3. CachesOK(tx[u])'  BY <2>1 DEF TxOK, CachesOK
  <2>4. RowsOK(tx[u])'  BY <1>1, <2>1 DEF TxOK, RowsOK
  <2>5. ViewOK(tx[u].view)'  BY <1>1, <2>1 DEF TxOK, ViewOK, Good
  <2>6. SightOK(u, tx[u])'
    <3>1. SightOK(u, q) /\ SightOK(t, r)  BY <1>3, <2>1 DEF TxOK
    <3>2. ASSUME Reader(q), NEW v \in Threads \ {u}, Reader(tx'[v]), tx'[v].base = q.base
          PROVE  tx'[v].view = q.view
      <4>1. CASE u = t  BY <1>6, <3>1, <3>2, <4>1 DEF SightOK
      <4>2. CASE v = t
        <5>1. tx'[v] = r /\ q = tx[u] /\ u # t  BY <1>6, <3>2, <4>2
        <5> QED BY <3>1, <3>2, <5>1 DEF SightOK
      <4>3. CASE u # t /\ v # t  BY <1>6, <3>1, <3>2, <4>3 DEF SightOK
      <4> QED BY <4>1, <4>2, <4>3
    <3>3. /\ q.base = root.version /\ Reader(q) => q.view = root.world
          /\ q.base = pub.version /\ Reader(q) => Sound(q.view, pub.caches)
      BY <3>1 DEF SightOK
    <3> QED BY <3>2, <3>3 DEF SightOK, Reader
  <2> QED BY <2>2, <2>3, <2>4, <2>5, <2>6 DEF TxOK
<1> QED BY <1>5, <1>7

\* Two differences in a row
LEMMA AgreesTwice ==
  ASSUME NEW w, NEW w2, NEW w3, NEW R, NEW S, Agrees(w, w2, R), Agrees(w2, w3, S)
  PROVE  Agrees(w, w3, R \union S)
BY DEF Agrees

\* Rows that are whole together
LEMMA WholeUnion ==
  ASSUME NEW R, NEW S, Whole(R), Whole(S)
  PROVE  Whole(R \union S)
BY DEF Whole

\* What an edit of t makes of its transaction
Edited(r, w, c, rows) ==
  [r EXCEPT !.view = w, !.caches = c, !.local = refresh_builtin_proxy_cache(r.caches, c, r.local),
            !.touched = r.touched \union rows, !.edits = r.edits + 1]

\* An edit that fits keeps the promises of the transaction
LEMMA EditedOK ==
  ASSUME TypeOK, NEW t \in Threads, TxOK(t, tx[t]), NumbersKept, tx[t].phase = "active",
         t \in scenario.editors, Acyclic(tx[t].view.parent), NEW w, NEW c, NEW rows,
         EditOK(tx[t].view, tx[t].caches, w, c, rows)
  PROVE  TxOK(t, Edited(tx[t], w, c, rows))
<1> DEFINE r == tx[t]
           q == Edited(r, w, c, rows)
<1>1. r \in Transaction /\ r.phase = "active" /\ TxOK(t, r)  BY DEF TypeOK
<1>2. /\ q.phase = r.phase /\ q.base = r.base /\ q.view = w /\ q.caches = c /\ q.foreign = r.foreign
      /\ q.touched = r.touched \union rows
      /\ q.local = refresh_builtin_proxy_cache(r.caches, c, r.local)
  BY <1>1 DEF Edited, Transaction
<1>3. Sound(r.view, r.caches) /\ r.local \subseteq r.caches.absent  BY <1>1 DEF TxOK, CachesOK
<1>4. Fit(r.view, r.caches)  BY <1>1, <1>3 DEF Fit, TxOK, ViewOK
<1>5. rows # {} /\ EditFits(r.view, r.caches, w, c, rows)  BY <1>4 DEF EditOK, EditTyped
<1>0. t \in scenario.editors  OBVIOUS
<1> HIDE DEF r, q
<1>6. PhaseOK(t, q)
  <2>1. Agrees(root.world, r.view, r.touched \union r.foreign)  BY <1>1 DEF TxOK, PhaseOK
  <2>2. Agrees(r.view, w, rows)  BY <1>5 DEF EditFits
  <2>3. Agrees(root.world, w, (r.touched \union r.foreign) \union rows)  BY <2>1, <2>2, AgreesTwice
  <2>4. (r.touched \union r.foreign) \union rows = q.touched \union q.foreign  BY <1>2
  <2>5. Agrees(root.world, q.view, q.touched \union q.foreign)  BY <1>2, <2>3, <2>4
  <2>6. r.base <= root.version /\ (SoleEditor => r.foreign = {})  BY <1>0, <1>1 DEF TxOK, PhaseOK
  <2> QED BY <1>0, <1>1, <1>2, <2>5, <2>6 DEF PhaseOK
<1>7. SightOK(t, q)  BY <1>2, <1>5 DEF SightOK, Reader
<1>8. CachesOK(q)
  <2>1. Sound(w, c) /\ (c.absent = r.caches.absent \/ c.absent = {})  BY <1>5 DEF EditFits
  <2>2. q.local \subseteq c.absent
    <3>1. q.local = c.absent \/ (q.local = r.local /\ r.caches.absent \ c.absent = {})
      BY <1>2 DEF refresh_builtin_proxy_cache
    <3> QED BY <1>3, <2>1, <3>1
  <2> QED BY <1>2, <2>1, <2>2 DEF CachesOK
<1>9. RowsOK(q)
  <2> SUFFICES ASSUME ~SoleEditor
               PROVE  /\ Whole(q.touched) /\ Whole(q.foreign)
                      /\ \A o \in Objects :
                           /\ <<"object", o>> \in q.touched => o \notin q.view.valid
                           /\ \A k \in {"parent", "props", "verbs"} :
                                <<k, o>> \in q.touched => <<"object", o>> \in q.touched \/ o \in q.view.valid
    BY DEF RowsOK
  <2>1. Whole(rows) /\ w.valid = {o \in r.view.valid : <<"object", o>> \notin rows}
        /\ \A o \in Objects, k \in {"parent", "props", "verbs"} : <<k, o>> \in rows => o \in r.view.valid
    BY <1>5 DEF EditFits, RowsFit
  <2>2. /\ Whole(r.touched) /\ Whole(r.foreign)
        /\ \A o \in Objects :
             /\ <<"object", o>> \in r.touched => o \notin r.view.valid
             /\ \A k \in {"parent", "props", "verbs"} :
                  <<k, o>> \in r.touched => <<"object", o>> \in r.touched \/ o \in r.view.valid
    BY <1>1 DEF TxOK, RowsOK
  <2>3. Whole(q.touched) /\ Whole(q.foreign)  BY <1>2, <2>1, <2>2, WholeUnion
  <2> QED BY <1>2, <2>1, <2>2, <2>3
<1>10. ViewOK(q.view)  BY <1>2, <1>5 DEF EditFits, ViewOK
<1>11. TxOK(t, q)  BY <1>6, <1>7, <1>8, <1>9, <1>10 DEF TxOK
<1> QED BY <1>11 DEF q, r

\* An edit keeps types and the invariant
LEMMA EditStep ==
  ASSUME TypeOK, TreeInv, NEW t \in Threads, Edit(t)
  PROVE  TypeOK' /\ TreeInv'
<1>1. /\ SomeEdit(t) /\ tx[t].phase = "active" /\ t \in scenario.editors
      /\ Acyclic(tx[t].view.parent)
  BY EditIsSome
<1>2. PICK op, w, c, rows : \E m \in 0..1 :
         Edits(t, op, w, c, rows, m) /\ EditOK(tx[t].view, tx[t].caches, w, c, rows)
  BY <1>1 DEF SomeEdit
<1>3. PICK m \in 0..1 : Edits(t, op, w, c, rows, m)  BY <1>2
<1>4. EditOK(tx[t].view, tx[t].caches, w, c, rows)  BY <1>2
<1> DEFINE q == Edited(tx[t], w, c, rows)
<1>5. tx[t] \in Transaction /\ tx \in [Threads -> Transaction]  BY DEF TypeOK
<1>6. tx' = [tx EXCEPT ![t] = q]  BY <1>3, <1>5 DEF Edits, Edited
<1>7. minted' = minted + m /\ minted + m <= MaxIds /\ UNCHANGED <<scenario, root, pub>>
  BY <1>3 DEF Edits
<1>8. w \in World /\ c \in Caches /\ rows \in SUBSET (Kind \X Objects)
  BY <1>4 DEF EditOK, EditTyped
<1>9. q \in Transaction
  <2>1. PICK r \in Transaction : r = tx[t]  BY <1>5
  <2>2. refresh_builtin_proxy_cache(r.caches, c, r.local) \in SUBSET Names
    BY <1>8 DEF refresh_builtin_proxy_cache, Transaction, Caches
  <2>3. r.touched \union rows \in SUBSET (Kind \X Objects)  BY <1>8 DEF Transaction
  <2>4. r.edits + 1 \in Nat  BY DEF Transaction
  <2>5. PICK l, h, e : /\ l = refresh_builtin_proxy_cache(r.caches, c, r.local)
                       /\ h = r.touched \union rows /\ e = r.edits + 1
    OBVIOUS
  <2>6. q = [r EXCEPT !.view = w, !.caches = c, !.local = l, !.touched = h, !.edits = e]
    BY <2>1, <2>5 DEF Edited
  <2> HIDE DEF q
  <2> QED BY <1>8, <2>2, <2>3, <2>4, <2>5, <2>6 DEF Transaction
<1> HIDE DEF q
<1>10. TypeOK'
  <2>1. tx' \in [Threads -> Transaction]  BY <1>5, <1>6, <1>9
  <2>2. minted' \in 0..MaxIds  BY <1>7, InheritanceConstants DEF TypeOK
  <2> QED BY <1>7, <2>1, <2>2 DEF TypeOK
<1>11. NumbersKept => TxOK(t, q)  BY <1>1, <1>4, EditedOK DEF q, TreeInv
<1>12. TreeInv'  BY <1>5, <1>6, <1>7, <1>11, LocalStep
<1> QED BY <1>10, <1>12

\* A lookup keeps types and the invariant if what it leaves in the caches is sound
LEMMA LookedUp ==
  ASSUME TypeOK, TreeInv, NEW t \in Threads, tx[t].phase = "active",
         NEW c \in Caches, NEW l \in SUBSET Names, NEW b \in BOOLEAN,
         NumbersKept => Sound(tx[t].view, c) /\ l \subseteq c.absent,
         tx' = [tx EXCEPT ![t] = [tx[t] EXCEPT !.caches = c, !.local = l, !.changed = b]],
         UNCHANGED <<scenario, root, pub, minted>>
  PROVE  TypeOK' /\ TreeInv'
<1>1. PICK r \in Transaction : r = tx[t] /\ tx \in [Threads -> Transaction]  BY DEF TypeOK
<1> DEFINE q == [r EXCEPT !.caches = c, !.local = l, !.changed = b]
<1>2. tx' = [tx EXCEPT ![t] = q]  BY <1>1
<1>3. q \in Transaction  BY DEF Transaction
<1>4. /\ q.phase = r.phase /\ q.base = r.base /\ q.view = r.view /\ q.caches = c /\ q.local = l
      /\ q.touched = r.touched /\ q.foreign = r.foreign /\ r.phase = "active"
  BY <1>1 DEF Transaction
<1> HIDE DEF q
<1>5. TypeOK'
  <2>1. tx' \in [Threads -> Transaction]  BY <1>1, <1>2, <1>3
  <2> QED BY <2>1 DEF TypeOK
<1>6. ASSUME NumbersKept PROVE TxOK(t, q)
  <2>1. TxOK(t, r)  BY <1>1, <1>6 DEF TreeInv
  <2>2. PhaseOK(t, q)  BY <1>4, <2>1 DEF TxOK, PhaseOK
  <2>3. SightOK(t, q)  BY <1>4, <2>1 DEF TxOK, SightOK, Reader
  <2>4. CachesOK(q)  BY <1>1, <1>4, <1>6 DEF CachesOK
  <2>5. RowsOK(q)  BY <1>4, <2>1 DEF TxOK, RowsOK
  <2>6. ViewOK(q.view)  BY <1>4, <2>1 DEF TxOK
  <2> QED BY <2>2, <2>3, <2>4, <2>5, <2>6 DEF TxOK
<1>7. TreeInv'  BY <1>1, <1>2, <1>6, LocalStep
<1> QED BY <1>5, <1>7

\* The same for a lookup that leaves the task's own copy of the absent builtins alone
LEMMA ReadsStep ==
  ASSUME TypeOK, TreeInv, NEW t \in Threads, tx[t].phase = "active", NEW op, NEW c \in Caches,
         NEW b \in BOOLEAN, Reads(t, op, c, b), c.absent = tx[t].caches.absent,
         NumbersKept => Sound(tx[t].view, c)
  PROVE  TypeOK' /\ TreeInv'
<1>1. tx[t] \in Transaction /\ tx \in [Threads -> Transaction]  BY DEF TypeOK
<1>2. tx[t].local \in SUBSET Names /\ (tx[t].changed \/ b) \in BOOLEAN  BY <1>1 DEF Transaction
<1>3. [tx[t] EXCEPT !.caches = c, !.changed = tx[t].changed \/ b]
        = [tx[t] EXCEPT !.caches = c, !.local = tx[t].local, !.changed = tx[t].changed \/ b]
  BY <1>1 DEF Transaction
<1>4. tx' = [tx EXCEPT ![t] = [tx[t] EXCEPT !.caches = c, !.changed = tx[t].changed \/ b]]
      /\ UNCHANGED <<scenario, root, pub, minted>>
  BY <1>1 DEF Reads
<1>5. NumbersKept => tx[t].local \subseteq c.absent  BY DEF TreeInv, TxOK, CachesOK
<1>6. PICK l, d : l = tx[t].local /\ d = (tx[t].changed \/ b)  OBVIOUS
<1>7. l \in SUBSET Names /\ d \in BOOLEAN /\ (NumbersKept => Sound(tx[t].view, c) /\ l \subseteq c.absent)
  BY <1>2, <1>5, <1>6
<1>8. tx' = [tx EXCEPT ![t] = [tx[t] EXCEPT !.caches = c, !.local = l, !.changed = d]]
  BY <1>3, <1>4, <1>6
<1>9. UNCHANGED <<scenario, root, pub, minted>>  BY <1>4
<1>10. NumbersKept => Sound(tx[t].view, c) /\ l \subseteq c.absent  BY <1>7
<1>11. l \in SUBSET Names /\ d \in BOOLEAN  BY <1>7
<1> QED BY <1>8, <1>9, <1>10, <1>11, LookedUp

\* Ancestors are remembered truly
LEMMA AncestorsStep ==
  ASSUME TypeOK, TreeInv, NEW t \in Threads, Active(t), NEW o \in Objects, ancestors(t, o)
  PROVE  TypeOK' /\ TreeInv'
<1> DEFINE w == tx[t].view
           c == tx[t].caches
           c2 == FillAncestors(w, c, o)
<1>1. w \in World /\ c \in Caches  BY ViewTypes
<1>2. Reads(t, "ancestors", c2, FALSE) /\ tx[t].phase = "active"  BY DEF ancestors, Active
<1>3. c2 \in Caches /\ c2.absent = c.absent  BY <1>1, FillTypes
<1>4. NumbersKept => Sound(w, c2)
  <2>1. NumbersKept => Sound(w, c)  BY <1>2 DEF TreeInv, TxOK, CachesOK
  <2> QED BY <1>1, <2>1, AncestorsSound
<1> HIDE DEF c2
<1> QED BY <1>2, <1>3, <1>4, ReadsStep

\* Properties are remembered truly
LEMMA FindPropertyStep ==
  ASSUME TypeOK, TreeInv, NEW t \in Threads, Active(t), NEW o \in Objects, NEW n \in Names,
         find_property_by_name(t, o, n)
  PROVE  TypeOK' /\ TreeInv'
<1> DEFINE w == tx[t].view
           c == tx[t].caches
           homes == Filed(c.propHome, o)
           home == IF homes # {} THEN (CHOOSE f \in homes : TRUE).val ELSE PropHome(w, o)
           g == [on |-> o, val |-> home]
           a == PropAlong(w, Line(w.parent, home[1]), n)
           h == [on |-> o, name |-> n, val |-> a]
           c2 == [c EXCEPT !.propHome = @ \union {g}, !.prop = @ \union {h}]
<1>1. w \in World /\ c \in Caches  BY ViewTypes
<1>2. /\ home # <<>> /\ Reads(t, "props", c2, TRUE)
      /\ tx[t].phase = "active" /\ Acyclic(w.parent)
  BY DEF find_property_by_name, Active
<1>3. home \in Seq(Objects)
  <2>1. \A f \in homes : f.val \in Seq(Objects)  BY <1>1 DEF Filed, Caches
  <2>2. PropHome(w, o) \in Seq(Objects)  BY <1>1, HomeTypes
  <2> HIDE DEF homes
  <2> QED BY <2>1, <2>2
<1>4. Sound(w, c) => home = PropHome(w, o)
  <2>1. Sound(w, c) => \A f \in homes : f.val = PropHome(w, o)  BY DEF Filed, Sound
  <2> HIDE DEF homes
  <2> QED BY <2>1
<1> HIDE DEF w, c, home
<1>5. home[1] \in Objects
  <2>1. 1 \in 1..Len(home)  BY <1>2, <1>3, EmptySeq
  <2> QED BY <1>3, <2>1, ElementOfSeq
<1>6. a \in Seq(PropDef)  BY <1>1, <1>5, WorldFacts, SearchTypes
<1> HIDE DEF a
<1>7. g \in [on : Objects, val : Seq(Objects)]  BY <1>3
<1>8. h \in [on : Objects, name : Names, val : Seq(PropDef)]  BY <1>6
<1>9. c2 \in Caches  BY <1>1, <1>7, <1>8 DEF Caches
<1>10. /\ c2.propHome = c.propHome \union {g} /\ c2.prop = c.prop \union {h} /\ c2.chain = c.chain
       /\ c2.verb = c.verb /\ c2.verbHome = c.verbHome /\ c2.absent = c.absent
  BY <1>1 DEF Caches
<1>11. g.on = o /\ g.val = home /\ h.on = o /\ h.name = n /\ h.val = a  OBVIOUS
<1> HIDE DEF g, h, c2
<1>12. ASSUME Sound(w, c) PROVE Sound(w, c2)
  <2>1. home = PropHome(w, o)  BY <1>4, <1>12
  <2>2. a = PropAlong(w, Line(w.parent, o), n)  BY <1>1, <1>2, <2>1, PropFromHome DEF a
  <2>3. \A f \in c2.prop : f.val = PropAlong(w, Line(w.parent, f.on), f.name)
    BY <1>10, <1>11, <1>12, <2>2 DEF Sound
  <2>4. \A f \in c2.propHome : f.val = PropHome(w, f.on)  BY <1>10, <1>11, <1>12, <2>1 DEF Sound
  <2> QED BY <1>10, <1>12, <2>3, <2>4 DEF Sound
<1>13. NumbersKept => Sound(w, c)  BY <1>2 DEF TreeInv, TxOK, CachesOK, w, c
<1> QED BY <1>2, <1>9, <1>10, <1>12, <1>13, ReadsStep DEF w, c

\* Verbs are remembered truly
LEMMA ResolveVerbStep ==
  ASSUME TypeOK, TreeInv, NEW t \in Threads, Active(t), NEW o \in Objects, NEW n \in Names,
         NEW x \in BOOLEAN, resolve_verb_handle(t, o, n, x)
  PROVE  TypeOK' /\ TreeInv'
<1> DEFINE w == tx[t].view
           c == tx[t].caches
           homes == Filed(c.verbHome, o)
           home == IF homes # {} THEN (CHOOSE f \in homes : TRUE).val ELSE VerbHome(w, o)
           line == IF home = <<>> THEN <<>> ELSE Line(w.parent, home[1])
           G == IF home = <<>> THEN {} ELSE {[on |-> o, val |-> home]}
           a == VerbAlong(w, line, n, x)
           h == [on |-> o, name |-> n, exec |-> x, val |-> a]
           c2 == [c EXCEPT !.verbHome = c.verbHome \union G, !.verb = @ \union {h}]
<1>1. w \in World /\ c \in Caches  BY ViewTypes
<1>2. /\ Reads(t, "verbs", [c EXCEPT !.verbHome = IF home = <<>> THEN @
                                        ELSE @ \union {[on |-> o, val |-> home]},
                                     !.verb = @ \union {h}], TRUE)
      /\ tx[t].phase = "active" /\ Acyclic(w.parent)
  BY DEF resolve_verb_handle, Active
<1>3. home \in Seq(Objects)
  <2>1. \A f \in homes : f.val \in Seq(Objects)  BY <1>1 DEF Filed, Caches
  <2>2. VerbHome(w, o) \in Seq(Objects)  BY <1>1, HomeTypes
  <2> HIDE DEF homes
  <2> QED BY <2>1, <2>2
<1>4. Sound(w, c) => home = VerbHome(w, o)
  <2>1. Sound(w, c) => \A f \in homes : f.val = VerbHome(w, o)  BY DEF Filed, Sound
  <2> HIDE DEF homes
  <2> QED BY <2>1
<1> HIDE DEF w, c, home
<1>5. Reads(t, "verbs", c2, TRUE)
  <2>1. (IF home = <<>> THEN c.verbHome ELSE c.verbHome \union {[on |-> o, val |-> home]})
           = c.verbHome \union G
    OBVIOUS
  <2> HIDE DEF G, h
  <2> QED BY <1>2, <2>1
<1>6. home # <<>> => home[1] \in Objects
  <2> SUFFICES ASSUME home # <<>> PROVE home[1] \in Objects  OBVIOUS
  <2>1. 1 \in 1..Len(home)  BY <1>3, EmptySeq
  <2> QED BY <1>3, <2>1, ElementOfSeq
<1>7. line \in Seq(Objects)  BY <1>1, <1>6, WorldFacts, EmptySeq
<1> HIDE DEF line
<1>8. a \in Seq(Verb)  BY <1>1, <1>7, SearchTypes
<1> HIDE DEF a
<1>9. G \in SUBSET [on : Objects, val : Seq(Objects)]  BY <1>3
<1>10. h \in [on : Objects, name : Names, exec : BOOLEAN, val : Seq(Verb)]  BY <1>8
<1>11. \A f \in G : f.on = o /\ f.val = home  OBVIOUS
<1>12. h.on = o /\ h.name = n /\ h.exec = x /\ h.val = a  OBVIOUS
<1> HIDE DEF G, h
<1>13. c2 \in Caches  BY <1>1, <1>9, <1>10 DEF Caches
<1>14. /\ c2.verbHome = c.verbHome \union G /\ c2.verb = c.verb \union {h} /\ c2.chain = c.chain
       /\ c2.prop = c.prop /\ c2.propHome = c.propHome /\ c2.absent = c.absent
  BY <1>1 DEF Caches
<1> HIDE DEF c2
<1>15. ASSUME Sound(w, c) PROVE Sound(w, c2)
  <2>1. home = VerbHome(w, o)  BY <1>4, <1>15
  <2>2. a = VerbAlong(w, Line(w.parent, o), n, x)
    <3>1. CASE home = <<>>
      <4>1. VerbHome(w, o) = <<>>  BY <2>1, <3>1
      <4>2. VerbAlong(w, <<>>, n, x) = VerbAlong(w, Line(w.parent, o), n, x)
        BY <1>1, <1>2, <4>1, VerbFromHome
      <4>3. line = <<>>  BY <3>1 DEF line
      <4> QED BY <4>2, <4>3 DEF a
    <3>2. CASE home # <<>>  BY <1>1, <1>2, <2>1, <3>2, VerbFromHome DEF a, line
    <3> QED BY <3>1, <3>2
  <2>3. \A f \in c2.verb : f.val = VerbAlong(w, Line(w.parent, f.on), f.name, f.exec)
    BY <1>12, <1>14, <1>15, <2>2 DEF Sound
  <2>4. \A f \in c2.verbHome : f.val = VerbHome(w, f.on)  BY <1>11, <1>14, <1>15, <2>1 DEF Sound
  <2> QED BY <1>14, <1>15, <2>3, <2>4 DEF Sound
<1>16. NumbersKept => Sound(w, c)  BY <1>2 DEF TreeInv, TxOK, CachesOK, w, c
<1> QED BY <1>2, <1>5, <1>13, <1>14, <1>15, <1>16, ReadsStep DEF w, c

\* A verb of o itself is the first on the line of o
LEMMA OwnVerbIsNearest ==
  ASSUME NEW w \in World, NEW o \in Objects, NEW n, NEW x, VerbAlong(w, <<o>>, n, x) # <<>>
  PROVE  VerbAlong(w, <<o>>, n, x) = VerbAlong(w, Line(w.parent, o), n, x)
<1> DEFINE S == VerbHolders(w, n, x)
           l == Line(w.parent, o)
           s == <<o>>
<1>1. s \in Seq(Objects) /\ Len(s) = 1 /\ s[1] = o  OBVIOUS
<1>2. l \in Seq(Objects) /\ Len(l) \in Nat /\ 1 \in 1..Len(l) /\ l[1] = o
  <2>1. w.parent \in Edge  BY WorldFacts
  <2>2. PICK k \in 1..Depth : l \in Seq(Objects) /\ Len(l) = k /\ l[1] = o  BY <2>1, LineIs
  <2> QED BY <2>2, DepthType
<1> HIDE DEF S, l, s
<1>3. /\ VerbAlong(w, s, n, x) = IF Nearest(s, S) = <<>> THEN <<>>
                                 ELSE VerbNamed(VerbRow(w, Nearest(s, S)[1]), n, x)
      /\ VerbAlong(w, l, n, x) = IF Nearest(l, S) = <<>> THEN <<>>
                                 ELSE VerbNamed(VerbRow(w, Nearest(l, S)[1]), n, x)
  BY <1>1, <1>2, VerbAlongIs DEF S
<1>4. Nearest(s, S) # <<>>  BY <1>3 DEF s
<1>5. o \in S
  <2>1. PICK i \in 1..Len(s) : s[i] \in S  BY <1>1, <1>4, NearestIs
  <2>2. i = 1  BY <1>1, <2>1
  <2> QED BY <1>1, <2>1, <2>2
<1>6. Nearest(s, S) = <<o>>
  <2>1. 1 \in 1..Len(s) /\ s[1] \in S /\ \A j \in 1..(1 - 1) : s[j] \notin S  BY <1>1, <1>5
  <2> QED BY <1>1, <2>1, NearestAt
<1>7. Nearest(l, S) = <<o>>
  <2>1. l[1] \in S /\ \A j \in 1..(1 - 1) : l[j] \notin S  BY <1>2, <1>5
  <2> QED BY <1>2, <2>1, NearestAt
<1> QED BY <1>3, <1>6, <1>7 DEF s, l

\* A verb found on the object itself is remembered truly
LEMMA GetVerbStep ==
  ASSUME TypeOK, TreeInv, NEW t \in Threads, Active(t), NEW o \in Objects, NEW n \in Names,
         get_verb_by_name(t, o, n)
  PROVE  TypeOK' /\ TreeInv'
<1> DEFINE w == tx[t].view
           c == tx[t].caches
           own == VerbAlong(w, <<o>>, n, FALSE)
           known == {f \in Filed(c.verb, o) : f.name = n /\ ~f.exec}
           h == [on |-> o, name |-> n, exec |-> FALSE, val |-> own]
           c2 == [c EXCEPT !.verb = (@ \ known) \union {h}]
<1>1. w \in World /\ c \in Caches  BY ViewTypes
<1>2. /\ own # <<>> /\ Reads(t, "verbs", c2, TRUE) /\ tx[t].phase = "active"
  BY DEF get_verb_by_name, Active
<1>3. own \in Seq(Verb)
  <2>1. <<o>> \in Seq(Objects)  OBVIOUS
  <2> QED BY <1>1, <2>1, SearchTypes
<1>4. own = VerbAlong(w, Line(w.parent, o), n, FALSE)  BY <1>1, <1>2, OwnVerbIsNearest
<1> HIDE DEF w, c, own, known
<1>5. h \in [on : Objects, name : Names, exec : BOOLEAN, val : Seq(Verb)]  BY <1>3
<1>6. h.on = o /\ h.name = n /\ h.exec = FALSE /\ h.val = own  OBVIOUS
<1> HIDE DEF h
<1>7. c2 \in Caches  BY <1>1, <1>5 DEF Caches
<1>8. /\ c2.verb = (c.verb \ known) \union {h} /\ c2.verbHome = c.verbHome /\ c2.chain = c.chain
      /\ c2.prop = c.prop /\ c2.propHome = c.propHome /\ c2.absent = c.absent
  BY <1>1 DEF Caches
<1> HIDE DEF c2
<1>9. ASSUME Sound(w, c) PROVE Sound(w, c2)
  <2>1. \A f \in c2.verb : f.val = VerbAlong(w, Line(w.parent, f.on), f.name, f.exec)
    BY <1>4, <1>6, <1>8, <1>9 DEF Sound
  <2> QED BY <1>8, <1>9, <2>1 DEF Sound
<1>10. NumbersKept => Sound(w, c)  BY <1>2 DEF TreeInv, TxOK, CachesOK, w, c
<1> QED BY <1>2, <1>7, <1>8, <1>9, <1>10, ReadsStep DEF w, c

\* On an object that does not exist no verb is found
LEMMA NoVerbOnNothing ==
  ASSUME NEW w \in World, Bare(w), NEW o \in Objects \ w.valid, NEW n, NEW x
  PROVE  VerbAlong(w, Line(w.parent, o), n, x) = <<>>
<1> DEFINE S == VerbHolders(w, n, x)
           l == Line(w.parent, o)
<1>1. l \in Seq(Objects) /\ w.parent \in Edge  BY WorldFacts
<1>2. ToSet(l) \subseteq {o}
  <2>1. w.parent[o] = Nothing  BY DEF Bare
  <2>2. \A y \in {o} : w.parent[y] \in {o} \union {Nothing}  BY <2>1
  <2>3. o \in {o} /\ {o} \in SUBSET Objects  OBVIOUS
  <2> QED BY <1>1, <2>2, <2>3, LineWithin
<1>3. o \notin S
  <2>1. VerbRow(w, o) = <<>>  BY DEF Bare, VerbRow
  <2>2. ToSet(<<>>) = {}  BY DEF ToSet
  <2> QED BY <2>1, <2>2 DEF VerbHolders
<1>4. VerbAlong(w, l, n, x) = IF Nearest(l, S) = <<>> THEN <<>>
                              ELSE VerbNamed(VerbRow(w, Nearest(l, S)[1]), n, x)
  BY <1>1, VerbAlongIs
<1> HIDE DEF S, l
<1>5. Nearest(l, S) = <<>>
  <2>1. \A i \in 1..Len(l) : ~(l[i] \in S /\ l[i] \in ToSet(l))  BY <1>2, <1>3
  <2> QED BY <1>1, <2>1, NearestIs
<1> QED BY <1>4, <1>5 DEF l

\* A builtin is remembered to have no stand-in only if it has none
LEMMA MarkAbsentStep ==
  ASSUME TypeOK, TreeInv, NEW t \in Threads, Active(t), NEW n \in Names,
         mark_builtin_proxy_absent(t, n)
  PROVE  TypeOK' /\ TreeInv'
<1> DEFINE w == tx[t].view
           c == tx[t].caches
           c2 == [c EXCEPT !.absent = @ \union {n}]
           l == tx[t].local \union {n}
           m == [on |-> SystemObject, name |-> n, exec |-> TRUE, val |-> <<>>]
<1>1. w \in World /\ c \in Caches  BY ViewTypes
<1>2. tx[t].phase = "active"  BY DEF Active
<1>3. SystemObject \notin w.valid \/ m \in c.verb  BY DEF mark_builtin_proxy_absent
<1>4. tx \in [Threads -> Transaction] /\ tx[t] \in Transaction  BY DEF TypeOK
<1>5. UNCHANGED <<scenario, root, pub, minted>>  BY DEF mark_builtin_proxy_absent
<1>6. tx' = [tx EXCEPT ![t] = [tx[t] EXCEPT !.caches = c2, !.local = l, !.changed = TRUE]]
  BY <1>4 DEF mark_builtin_proxy_absent, Transaction
<1>7. c2 \in Caches /\ l \in SUBSET Names  BY <1>1, <1>4 DEF Caches, Transaction
<1>8. /\ c2.absent = c.absent \union {n} /\ c2.verb = c.verb /\ c2.verbHome = c.verbHome
      /\ c2.chain = c.chain /\ c2.prop = c.prop /\ c2.propHome = c.propHome
  BY <1>1 DEF Caches
<1>9. m.on = SystemObject /\ m.name = n /\ m.exec = TRUE /\ m.val = <<>>  OBVIOUS
<1> HIDE DEF c2, m
<1>10. ASSUME NumbersKept PROVE Sound(w, c2) /\ l \subseteq c2.absent
  <2>1. Sound(w, c) /\ tx[t].local \subseteq c.absent /\ Bare(w)
    BY <1>2, <1>10 DEF TreeInv, TxOK, CachesOK, ViewOK
  <2>2. VerbAlong(w, Line(w.parent, SystemObject), n, TRUE) = <<>>
    <3>1. CASE m \in c.verb  BY <1>9, <2>1, <3>1 DEF Sound
    <3>2. CASE SystemObject \notin w.valid
      <4>1. SystemObject \in Objects \ w.valid  BY <3>2, InheritanceConstants
      <4> HIDE DEF w
      <4> QED BY <1>1, <2>1, <4>1, NoVerbOnNothing
    <3> QED BY <1>3, <3>1, <3>2
  <2> HIDE DEF w, c
  <2>3. Sound(w, c2)  BY <1>8, <2>1, <2>2 DEF Sound
  <2> QED BY <1>8, <2>1, <2>3
<1> HIDE DEF l
<1> QED BY <1>2, <1>5, <1>6, <1>7, <1>10, LookedUp

\* Flushed caches say nothing
LEMMA FlushStep ==
  ASSUME TypeOK, TreeInv, NEW t \in Threads, Active(t), flush_caches(t)
  PROVE  TypeOK' /\ TreeInv'
<1>1. tx \in [Threads -> Transaction] /\ tx[t] \in Transaction  BY DEF TypeOK
<1>2. PICK l, b : l = {} /\ b = TRUE  OBVIOUS
<1>3. tx' = [tx EXCEPT ![t] = [tx[t] EXCEPT !.caches = NoCaches, !.local = l, !.changed = b]]
  BY <1>1, <1>2 DEF flush_caches, Transaction
<1>4. UNCHANGED <<scenario, root, pub, minted>> /\ tx[t].phase = "active"  BY DEF flush_caches, Active
<1>5. l \in SUBSET Names /\ b \in BOOLEAN /\ NoCaches \in Caches  BY <1>2, NothingTypes
<1>6. Sound(tx[t].view, NoCaches) /\ l \subseteq NoCaches.absent  BY <1>2, NothingIsSound
<1> QED BY <1>3, <1>4, <1>5, <1>6, LookedUp

\* Looking up keeps the invariant
LEMMA LookupStep ==
  ASSUME TypeOK, TreeInv, NEW t \in Threads, Lookup(t)
  PROVE  TypeOK' /\ TreeInv'
<1>1. scenario.probes \subseteq Objects /\ scenario.names \subseteq Names /\ Active(t)
  BY InheritanceConstants DEF TypeOK, Lookup
<1>2. ASSUME NEW o \in Objects, ancestors(t, o) PROVE TypeOK' /\ TreeInv'
  BY <1>1, <1>2, AncestorsStep
<1>3. ASSUME NEW o \in Objects, NEW n \in Names, find_property_by_name(t, o, n) PROVE TypeOK' /\ TreeInv'
  BY <1>1, <1>3, FindPropertyStep
<1>4. ASSUME NEW o \in Objects, NEW n \in Names, get_verb_by_name(t, o, n) PROVE TypeOK' /\ TreeInv'
  BY <1>1, <1>4, GetVerbStep
<1>5. ASSUME NEW o \in Objects, NEW n \in Names, NEW x \in BOOLEAN, resolve_verb_handle(t, o, n, x)
      PROVE TypeOK' /\ TreeInv'
  BY <1>1, <1>5, ResolveVerbStep
<1>6. ASSUME NEW n \in Names, mark_builtin_proxy_absent(t, n) PROVE TypeOK' /\ TreeInv'
  BY <1>1, <1>6, MarkAbsentStep
<1>7. CASE flush_caches(t)  BY <1>1, <1>7, FlushStep
<1> QED BY <1>1, <1>2, <1>3, <1>4, <1>5, <1>6, <1>7 DEF Lookup

-----------------------------------------------------------------------------
(* Beginning and ending. *)

\* A step of one transaction keeps types and the invariant if what it leaves is fine
LEMMA OwnStep ==
  ASSUME TypeOK, TreeInv, NEW t \in Threads, NEW q \in Transaction, NumbersKept => TxOK(t, q),
         tx' = [tx EXCEPT ![t] = q], UNCHANGED <<scenario, root, pub, minted>>
  PROVE  TypeOK' /\ TreeInv'
<1>1. tx \in [Threads -> Transaction]  BY DEF TypeOK
<1>2. tx' \in [Threads -> Transaction]  BY <1>1
<1>3. TypeOK'  BY <1>2 DEF TypeOK
<1>4. TreeInv'  BY <1>1, LocalStep
<1> QED BY <1>3, <1>4

\* A transaction that begins sees the root
LEMMA LoadRootStep ==
  ASSUME TypeOK, TreeInv, NEW t \in Threads, LoadRoot(t)
  PROVE  TypeOK' /\ TreeInv'
<1> DEFINE q == [NoTx EXCEPT !.phase = "loaded", !.base = root.version,
                             !.view = root.world, !.caches = root.caches]
<1>1. root.version \in Nat /\ root.world \in World /\ root.caches \in Caches  BY DEF TypeOK
<1>2. NoTx \in Transaction  BY NothingTypes
<1>3. q \in Transaction  BY <1>1, <1>2 DEF Transaction
<1>4. tx' = [tx EXCEPT ![t] = q] /\ UNCHANGED <<scenario, root, pub, minted>>  BY DEF LoadRoot
<1>5. /\ q.phase = "loaded" /\ q.base = root.version /\ q.view = root.world
      /\ q.caches = root.caches /\ q.touched = {} /\ q.foreign = {}
  BY DEF NoTx
<1> HIDE DEF q
<1>6. ASSUME NumbersKept PROVE TxOK(t, q)
  <2>1. PlanesOK /\ \A u \in Threads : TxOK(u, tx[u])  BY <1>6 DEF TreeInv
  <2>2. PhaseOK(t, q)
    <3>1. Agrees(root.world, root.world, {})  BY DEF Agrees
    <3> QED BY <1>1, <1>5, <2>1, <3>1 DEF PhaseOK, PlanesOK
  <2>3. SightOK(t, q)
    <3>1. \A u \in Threads : Reader(tx[u]) /\ tx[u].base = root.version => tx[u].view = root.world
      BY <2>1 DEF TxOK, SightOK
    <3> QED BY <1>5, <2>1, <3>1 DEF SightOK, PlanesOK
  <2>4. CachesOK(q)  BY <1>5 DEF CachesOK
  <2>5. RowsOK(q)  BY <1>5 DEF RowsOK, Whole
  <2>6. ViewOK(q.view)  BY <1>5, <2>1 DEF PlanesOK
  <2> QED BY <2>2, <2>3, <2>4, <2>5, <2>6 DEF TxOK
<1> QED BY <1>3, <1>4, <1>6, OwnStep

\* The caches it begins with are of the version it sees
LEMMA LoadCachesStep ==
  ASSUME TypeOK, TreeInv, NEW t \in Threads, LoadCaches(t)
  PROVE  TypeOK' /\ TreeInv'
<1>1. PICK r \in Transaction : r = tx[t] /\ tx \in [Threads -> Transaction]  BY DEF TypeOK
<1> DEFINE c == IF pub.version = r.base THEN pub.caches ELSE r.caches
           q == [r EXCEPT !.phase = "active", !.caches = c, !.local = c.absent]
<1>2. pub.caches \in Caches /\ r.caches \in Caches  BY DEF TypeOK, Transaction
<1>3. c \in Caches  BY <1>2
<1>4. r.phase = "loaded" /\ UNCHANGED <<scenario, root, pub, minted>>  BY <1>1 DEF LoadCaches
<1>5. tx' = [tx EXCEPT ![t] = q]  BY <1>1 DEF LoadCaches
<1>6. (c = pub.caches /\ pub.version = r.base) \/ c = r.caches  OBVIOUS
<1> HIDE DEF c
<1>7. c.absent \in SUBSET Names  BY <1>3 DEF Caches
<1>8. q \in Transaction  BY <1>3, <1>7 DEF Transaction
<1>9. /\ q.phase = "active" /\ q.base = r.base /\ q.view = r.view /\ q.caches = c
      /\ q.local = c.absent /\ q.touched = r.touched /\ q.foreign = r.foreign
  BY DEF Transaction
<1> HIDE DEF q
<1>10. ASSUME NumbersKept PROVE TxOK(t, q)
  <2>1. TxOK(t, r) /\ PhaseOK(t, r) /\ SightOK(t, r)  BY <1>1, <1>10 DEF TreeInv, TxOK
  <2>2. r.touched = {} /\ r.caches = NoCaches  BY <1>4, <2>1 DEF PhaseOK
  <2>3. Reader(r) /\ Reader(q)  BY <1>4, <1>9, <2>2 DEF Reader
  <2>4. PhaseOK(t, q)  BY <1>4, <1>9, <2>1, <2>2 DEF PhaseOK
  <2>5. SightOK(t, q)  BY <1>9, <2>1, <2>3 DEF SightOK
  <2>6. CachesOK(q)
    <3>1. Sound(r.view, c)  BY <1>6, <2>1, <2>2, <2>3, NothingIsSound DEF SightOK
    <3> QED BY <1>9, <3>1 DEF CachesOK
  <2>7. RowsOK(q)  BY <1>9, <2>1 DEF TxOK, RowsOK
  <2>8. ViewOK(q.view)  BY <1>9, <2>1 DEF TxOK
  <2> QED BY <2>4, <2>5, <2>6, <2>7, <2>8 DEF TxOK
<1> QED BY <1>5, <1>4, <1>8, <1>10, OwnStep

\* A transaction that is given up leaves nothing
LEMMA GivenUp ==
  ASSUME TypeOK, TreeInv, NEW t \in Threads, tx' = [tx EXCEPT ![t] = NoTx],
         UNCHANGED <<scenario, root, pub, minted>>
  PROVE  TypeOK' /\ TreeInv'
<1>1. NoTx \in Transaction /\ TxOK(t, NoTx)  BY NothingTypes, IdleOK
<1> QED BY <1>1, OwnStep

\* A reader that offers its caches still sees what it saw
LEMMA CommitReadOnlyStep ==
  ASSUME TypeOK, TreeInv, NEW t \in Threads, CommitReadOnly(t)
  PROVE  TypeOK' /\ TreeInv'
<1>1. PICK r \in Transaction : r = tx[t] /\ tx \in [Threads -> Transaction]  BY DEF TypeOK
<1> DEFINE q == [r EXCEPT !.phase = "publishing"]
<1>2. r.phase = "active" /\ r.touched = {} /\ UNCHANGED <<scenario, root, pub, minted>>
  BY <1>1 DEF CommitReadOnly
<1>3. tx' = [tx EXCEPT ![t] = q] \/ tx' = [tx EXCEPT ![t] = NoTx]  BY <1>1 DEF CommitReadOnly
<1>4. q \in Transaction  BY DEF Transaction
<1>5. /\ q.phase = "publishing" /\ q.base = r.base /\ q.view = r.view /\ q.caches = r.caches
      /\ q.local = r.local /\ q.touched = r.touched /\ q.foreign = r.foreign
  BY DEF Transaction
<1> HIDE DEF q
<1>6. ASSUME NumbersKept PROVE TxOK(t, q)
  <2>1. TxOK(t, r)  BY <1>1, <1>6 DEF TreeInv
  <2>2. PhaseOK(t, q)  BY <1>2, <1>5, <2>1 DEF TxOK, PhaseOK
  <2>3. SightOK(t, q)  BY <1>2, <1>5, <2>1 DEF TxOK, SightOK, Reader
  <2>4. CachesOK(q)  BY <1>2, <1>5, <2>1 DEF TxOK, CachesOK
  <2>5. RowsOK(q)  BY <1>5, <2>1 DEF TxOK, RowsOK
  <2>6. ViewOK(q.view)  BY <1>5, <2>1 DEF TxOK
  <2> QED BY <2>2, <2>3, <2>4, <2>5, <2>6 DEF TxOK
<1>7. CASE tx' = [tx EXCEPT ![t] = q]  BY <1>2, <1>4, <1>6, <1>7, OwnStep
<1>8. CASE tx' = [tx EXCEPT ![t] = NoTx]  BY <1>2, <1>8, GivenUp
<1> QED BY <1>3, <1>7, <1>8

\* A transaction that wrote something goes to another stage of its commit
LEMMA WriterMoves ==
  ASSUME TypeOK, TreeInv, NEW t \in Threads, tx[t].touched # {},
         NEW p \in {"storing", "swapping", "lost"}, NEW b \in Nat, b <= root.version,
         p \in {"storing", "swapping"} /\ b = root.version
           => tx[t].touched \intersect tx[t].foreign = {}
  PROVE  /\ [tx[t] EXCEPT !.phase = p, !.base = b] \in Transaction
         /\ NumbersKept => TxOK(t, [tx[t] EXCEPT !.phase = p, !.base = b])
<1>1. PICK r \in Transaction : r = tx[t]  BY DEF TypeOK
<1> DEFINE q == [r EXCEPT !.phase = p, !.base = b]
<1>2. q \in Transaction  BY DEF Transaction
<1>3. /\ q.phase = p /\ q.base = b /\ q.view = r.view /\ q.caches = r.caches
      /\ q.local = r.local /\ q.touched = r.touched /\ q.foreign = r.foreign
  BY DEF Transaction
<1>4. p \notin {"idle", "loaded", "active", "publishing"}  OBVIOUS
<1> HIDE DEF q
<1>5. ASSUME NumbersKept PROVE TxOK(t, q)
  <2>1. TxOK(t, r) /\ PhaseOK(t, r)  BY <1>1, <1>5 DEF TreeInv, TxOK
  <2>2. r.phase # "idle"
    <3>1. NoTx.touched = {}  BY DEF NoTx
    <3> QED BY <1>1, <2>1, <3>1 DEF PhaseOK
  <2>3. PhaseOK(t, q)  BY <1>1, <1>3, <1>4, <2>1, <2>2 DEF PhaseOK
  <2>4. SightOK(t, q)  BY <1>3, <1>4 DEF SightOK, Reader
  <2>5. CachesOK(q)  BY <1>3, <1>4 DEF CachesOK
  <2>6. RowsOK(q)  BY <1>3, <2>1 DEF TxOK, RowsOK
  <2>7. ViewOK(q.view)  BY <1>3, <2>1 DEF TxOK
  <2> QED BY <2>3, <2>4, <2>5, <2>6, <2>7 DEF TxOK
<1> QED BY <1>1, <1>2, <1>5 DEF q

\* The check leaves a writer whose rows nobody else wrote
LEMMA PrepareStep ==
  ASSUME TypeOK, TreeInv, NEW t \in Threads, Prepare(t)
  PROVE  TypeOK' /\ TreeInv'
<1>1. tx[t].touched # {} /\ UNCHANGED <<scenario, root, pub, minted>>  BY DEF Prepare
<1>2. root.version \in Nat  BY DEF TypeOK
<1>3. PICK q : q = [tx[t] EXCEPT !.phase = "storing", !.base = root.version]  OBVIOUS
<1>4. CASE tx[t].touched \intersect tx[t].foreign # {}
  <2>1. tx' = [tx EXCEPT ![t] = NoTx]  BY <1>4 DEF Prepare
  <2> QED BY <1>1, <2>1, GivenUp
<1>5. CASE tx[t].touched \intersect tx[t].foreign = {}
  <2>1. tx' = [tx EXCEPT ![t] = q]  BY <1>3, <1>5 DEF Prepare
  <2>2. q \in Transaction /\ (NumbersKept => TxOK(t, q))
    <3>1. PICK p, b : p = "storing" /\ b = root.version  OBVIOUS
    <3>2. p \in {"storing", "swapping", "lost"} /\ b \in Nat /\ b <= root.version  BY <1>2, <3>1
    <3>3. q = [tx[t] EXCEPT !.phase = p, !.base = b]  BY <1>3, <3>1
    <3> QED BY <1>1, <1>5, <3>2, <3>3, WriterMoves
  <2> QED BY <1>1, <2>1, <2>2, OwnStep
<1> QED BY <1>4, <1>5

\* A writer that lost the race goes back
LEMMA LostStep ==
  ASSUME TypeOK, TreeInv, NEW t \in Threads, tx[t].phase \in {"storing", "swapping"},
         tx' = [tx EXCEPT ![t].phase = "lost"], UNCHANGED <<scenario, root, pub, minted>>
  PROVE  TypeOK' /\ TreeInv'
<1>1. PICK r \in Transaction : r = tx[t] /\ tx \in [Threads -> Transaction]  BY DEF TypeOK
<1>2. PICK q : q = [r EXCEPT !.phase = "lost"]  OBVIOUS
<1>3. tx' = [tx EXCEPT ![t] = q]  BY <1>1, <1>2
<1>4. q \in Transaction  BY <1>2 DEF Transaction
<1>5. ASSUME NumbersKept PROVE TxOK(t, q)
  <2>1. PhaseOK(t, r)  BY <1>1, <1>5 DEF TreeInv, TxOK
  <2>2. r.touched # {} /\ r.base \in Nat /\ r.base <= root.version
    BY <1>1, <2>1 DEF PhaseOK, Transaction
  <2>3. q = [r EXCEPT !.phase = "lost", !.base = r.base]  BY <1>2 DEF Transaction
  <2> QED BY <1>1, <1>5, <2>2, <2>3, WriterMoves
<1> QED BY <1>3, <1>4, <1>5, OwnStep

\* Caches may be published that are sound for everyone who could take them
LEMMA PubStep ==
  ASSUME TypeOK, TreeInv, NEW t \in Threads, NEW q \in Transaction, NumbersKept => TxOK(t, q),
         ~Reader(q), tx' = [tx EXCEPT ![t] = q], UNCHANGED <<scenario, root, minted>>,
         pub' \in [version : Nat, caches : Caches],
         NumbersKept =>
           /\ pub'.version <= root.version \/ pub'.caches = NoCaches
           /\ pub'.version = root.version => Sound(root.world, pub'.caches)
           /\ \A u \in Threads : Reader(tx[u]) /\ tx[u].base = pub'.version
                => Sound(tx[u].view, pub'.caches)
  PROVE  TypeOK' /\ TreeInv'
<1>1. tx \in [Threads -> Transaction]  BY DEF TypeOK
<1>2. tx' \in [Threads -> Transaction]  BY <1>1
<1>3. TypeOK'  BY <1>2 DEF TypeOK
<1>4. \A u \in Threads : tx'[u] = IF u = t THEN q ELSE tx[u]  BY <1>1
<1>5. SoleEditor' = SoleEditor /\ NumbersKept' = NumbersKept /\ \A w : Good(w)' = Good(w)
  BY DEF NumbersKept, SoleEditor, Good
<1>6. \A w : ViewOK(w)' <=> ViewOK(w)  BY <1>5 DEF ViewOK
<1>7. ASSUME NumbersKept PROVE PlanesOK' /\ \A u \in Threads : TxOK(u, tx[u])'
  <2>1. PlanesOK /\ \A u \in Threads : TxOK(u, tx[u])  BY <1>7 DEF TreeInv
  <2>2. PlanesOK'  BY <1>6, <1>7, <2>1 DEF PlanesOK
  <2>3. ASSUME NEW u \in Threads PROVE TxOK(u, tx[u])'
    <3> DEFINE p == tx'[u]
    <3>1. TxOK(u, p)  BY <1>4, <1>7, <2>1
    <3>2. PhaseOK(u, tx[u])'  BY <1>5, <3>1 DEF TxOK, PhaseOK
    <3>3. CachesOK(tx[u])'  BY <3>1 DEF TxOK, CachesOK
    <3>4. RowsOK(tx[u])'  BY <1>5, <3>1 DEF TxOK, RowsOK
    <3>5. ViewOK(tx[u].view)'  BY <1>5, <3>1 DEF TxOK, ViewOK, Good
    <3>6. SightOK(u, tx[u])'
      <4>1. ASSUME Reader(p)
            PROVE  /\ p.base = root.version => p.view = root.world
                   /\ p.base = pub'.version => Sound(p.view, pub'.caches)
                   /\ \A v \in Threads \ {u} : Reader(tx'[v]) /\ tx'[v].base = p.base
                        => tx'[v].view = p.view
        <5>1. u # t /\ p = tx[u] /\ SightOK(u, tx[u])  BY <1>4, <2>1, <4>1 DEF TxOK
        <5>2. \A v \in Threads : Reader(tx'[v]) => v # t /\ tx'[v] = tx[v]  BY <1>4
        <5> QED BY <1>7, <4>1, <5>1, <5>2 DEF SightOK
      <4> QED BY <4>1 DEF SightOK, Reader
    <3> QED BY <3>2, <3>3, <3>4, <3>5, <3>6 DEF TxOK
  <2> QED BY <2>2, <2>3
<1>8. TreeInv'  BY <1>5, <1>7 DEF TreeInv
<1> QED BY <1>3, <1>8

\* Caches learned in a read-only transaction serve every reader of its version
LEMMA PublishStep ==
  ASSUME TypeOK, TreeInv, NEW t \in Threads, publish_read_only_cache(t)
  PROVE  TypeOK' /\ TreeInv'
<1>1. PICK r \in Transaction : r = tx[t] /\ tx \in [Threads -> Transaction]  BY DEF TypeOK
<1>2. /\ r.phase = "publishing" /\ tx' = [tx EXCEPT ![t] = NoTx]
      /\ UNCHANGED <<scenario, root, minted>>
  BY <1>1 DEF publish_read_only_cache
<1>3. pub'.version = r.base /\ pub'.caches = r.caches
  BY <1>1 DEF publish_read_only_cache
<1>4. pub' \in [version : Nat, caches : Caches]  BY <1>1 DEF publish_read_only_cache, Transaction
<1>5. NoTx \in Transaction /\ TxOK(t, NoTx) /\ ~Reader(NoTx)
  <2>1. NoTx.phase = "idle"  BY DEF NoTx
  <2> QED BY <2>1, NothingTypes, IdleOK DEF Reader
<1>6. ASSUME NumbersKept
      PROVE  /\ pub'.version <= root.version
             /\ pub'.version = root.version => Sound(root.world, pub'.caches)
             /\ \A u \in Threads : Reader(tx[u]) /\ tx[u].base = pub'.version
                  => Sound(tx[u].view, pub'.caches)
  <2>1. PhaseOK(t, r) /\ SightOK(t, r) /\ CachesOK(r)  BY <1>1, <1>6 DEF TreeInv, TxOK
  <2>2. Reader(r)  BY <1>2, <2>1 DEF PhaseOK, Reader
  <2>3. Sound(r.view, r.caches)  BY <1>2, <2>1 DEF CachesOK
  <2>4. r.base <= root.version  BY <2>1 DEF PhaseOK
  <2>5. r.base = root.version => r.view = root.world  BY <2>1, <2>2 DEF SightOK
  <2>6. \A u \in Threads : Reader(tx[u]) /\ tx[u].base = r.base => tx[u].view = r.view
    BY <1>1, <2>1, <2>2 DEF SightOK
  <2> QED BY <1>3, <2>3, <2>4, <2>5, <2>6
<1> QED BY <1>2, <1>4, <1>5, <1>6, PubStep

\* The caches stored ahead of a new root are empty
LEMMA StoreCachesStep ==
  ASSUME TypeOK, TreeInv, NEW t \in Threads, StoreCaches(t)
  PROVE  TypeOK' /\ TreeInv'
<1>1. PICK r \in Transaction : r = tx[t] /\ tx \in [Threads -> Transaction]  BY DEF TypeOK
<1>2. r.phase = "storing" /\ UNCHANGED <<scenario, root, minted>>  BY <1>1 DEF StoreCaches
<1>3. CASE root.version # tx[t].base
  <2>1. tx' = [tx EXCEPT ![t].phase = "lost"] /\ UNCHANGED pub  BY <1>3 DEF StoreCaches
  <2> QED BY <1>1, <1>2, <2>1, LostStep
<1>4. CASE root.version = tx[t].base
  <2>1. PICK q : q = [r EXCEPT !.phase = "swapping"]  OBVIOUS
  <2>2. tx' = [tx EXCEPT ![t] = q]  BY <1>1, <1>4, <2>1 DEF StoreCaches
  <2>3. pub'.version = root.version + 1 /\ pub'.caches = root.caches
    BY <1>4 DEF StoreCaches, NextCaches
  <2>4. pub' \in [version : Nat, caches : Caches]
    <3>1. root.version + 1 \in Nat /\ root.caches \in Caches  BY DEF TypeOK
    <3> QED BY <1>4, <3>1 DEF StoreCaches, NextCaches
  <2>5. q \in Transaction /\ q.phase = "swapping"  BY <2>1 DEF Transaction
  <2>6. ASSUME NumbersKept PROVE TxOK(t, q)
    <3>1. PhaseOK(t, r)  BY <1>1, <2>6 DEF TreeInv, TxOK
    <3>2. /\ r.touched # {} /\ r.base \in Nat /\ r.base <= root.version
          /\ r.touched \intersect r.foreign = {}
      BY <1>1, <1>2, <1>4, <3>1 DEF PhaseOK, Transaction
    <3>3. PICK p, b : p = "swapping" /\ b = r.base  OBVIOUS
    <3>4. q = [tx[t] EXCEPT !.phase = p, !.base = b]  BY <1>1, <2>1, <3>3 DEF Transaction
    <3>5. p \in {"storing", "swapping", "lost"} /\ b \in Nat /\ b <= root.version  BY <3>2, <3>3
    <3> QED BY <1>1, <2>6, <3>2, <3>4, <3>5, WriterMoves
  <2>7. ~Reader(q)  BY <2>5 DEF Reader
  <2>8. NumbersKept => pub'.caches = NoCaches  BY <2>3 DEF TreeInv, PlanesOK
  <2> QED BY <1>2, <2>2, <2>4, <2>5, <2>6, <2>7, <2>8, NothingIsSound, PubStep
<1> QED BY <1>3, <1>4

\* The rows of a kind that transaction t wrote
Mine(t, kind) == {o \in Objects : <<kind, o>> \in tx[t].touched}

\* The next root, row by row
LEMMA NextWorldIs ==
  ASSUME TypeOK, NEW t \in Threads
  PROVE  /\ NextWorld(t) \in World
         /\ Agrees(root.world, NextWorld(t), tx[t].touched)
         /\ \A o \in Objects :
              /\ <<"object", o>> \in tx[t].touched
                   => (o \in NextWorld(t).valid <=> o \in tx[t].view.valid)
              /\ <<"parent", o>> \in tx[t].touched => NextWorld(t).parent[o] = tx[t].view.parent[o]
              /\ <<"loc", o>> \in tx[t].touched => NextWorld(t).loc[o] = tx[t].view.loc[o]
              /\ <<"props", o>> \in tx[t].touched => NextWorld(t).props[o] = tx[t].view.props[o]
              /\ <<"verbs", o>> \in tx[t].touched => NextWorld(t).verbs[o] = tx[t].view.verbs[o]
<1> DEFINE v == tx[t].view
           w == root.world
           T == tx[t].touched
           Over(kind, new, old) == [o \in Objects |-> IF o \in Mine(t, kind) THEN new[o] ELSE old[o]]
           N == NextWorld(t)
<1>1. v \in World /\ w \in World  BY DEF TypeOK, Transaction
<1>2. /\ v.parent \in Edge /\ v.loc \in Edge /\ v.valid \in SUBSET Objects
      /\ v.props \in [Objects -> Seq(PropDef)] /\ v.verbs \in [Objects -> Seq(Verb) \union {NoRow}]
  BY <1>1, WorldFacts
<1>3. /\ w.parent \in Edge /\ w.loc \in Edge /\ w.valid \in SUBSET Objects
      /\ w.props \in [Objects -> Seq(PropDef)] /\ w.verbs \in [Objects -> Seq(Verb) \union {NoRow}]
  BY <1>1, WorldFacts
<1>4. N = [valid |-> (w.valid \ Mine(t, "object")) \union (v.valid \intersect Mine(t, "object")),
           parent |-> Over("parent", v.parent, w.parent), loc |-> Over("loc", v.loc, w.loc),
           props |-> Over("props", v.props, w.props), verbs |-> Over("verbs", v.verbs, w.verbs)]
  BY DEF NextWorld, Mine
<1> HIDE DEF v, w, N
<1>5. /\ N.valid = (w.valid \ Mine(t, "object")) \union (v.valid \intersect Mine(t, "object"))
      /\ N.parent = Over("parent", v.parent, w.parent) /\ N.loc = Over("loc", v.loc, w.loc)
      /\ N.props = Over("props", v.props, w.props) /\ N.verbs = Over("verbs", v.verbs, w.verbs)
  BY <1>4
<1>6. \A k, o : o \in Mine(t, k) <=> o \in Objects /\ <<k, o>> \in T  BY DEF Mine
<1>7. Over("parent", v.parent, w.parent) \in Edge /\ Over("loc", v.loc, w.loc) \in Edge
  BY <1>2, <1>3 DEF Edge
<1>8. Over("props", v.props, w.props) \in [Objects -> Seq(PropDef)]  BY <1>2, <1>3
<1>9. Over("verbs", v.verbs, w.verbs) \in [Objects -> Seq(Verb) \union {NoRow}]  BY <1>2, <1>3
<1>10. N \in World
  <2>1. (w.valid \ Mine(t, "object")) \union (v.valid \intersect Mine(t, "object")) \in SUBSET Objects
    BY <1>2, <1>3
  <2> HIDE DEF Over
  <2> QED BY <1>4, <1>7, <1>8, <1>9, <2>1 DEF World
<1>11. Agrees(w, N, T)  BY <1>5, <1>6 DEF Agrees
<1>12. ASSUME NEW o \in Objects
       PROVE  /\ <<"object", o>> \in T => (o \in N.valid <=> o \in v.valid)
              /\ <<"parent", o>> \in T => N.parent[o] = v.parent[o]
              /\ <<"loc", o>> \in T => N.loc[o] = v.loc[o]
              /\ <<"props", o>> \in T => N.props[o] = v.props[o]
              /\ <<"verbs", o>> \in T => N.verbs[o] = v.verbs[o]
  BY <1>5, <1>6
<1> QED BY <1>10, <1>11, <1>12 DEF v, w, N

\* Two worlds with the same rows are the same
LEMMA SameWorld ==
  ASSUME NEW w \in World, NEW w2 \in World, Agrees(w, w2, {})
  PROVE  w = w2
<1>1. /\ w.parent \in Edge /\ w.loc \in Edge /\ w.valid \in SUBSET Objects
      /\ w.props \in [Objects -> Seq(PropDef)] /\ w.verbs \in [Objects -> Seq(Verb) \union {NoRow}]
  BY WorldFacts
<1>2. /\ w2.parent \in Edge /\ w2.loc \in Edge /\ w2.valid \in SUBSET Objects
      /\ w2.props \in [Objects -> Seq(PropDef)] /\ w2.verbs \in [Objects -> Seq(Verb) \union {NoRow}]
  BY WorldFacts
<1>3. w.valid = w2.valid  BY <1>1, <1>2 DEF Agrees
<1>4. w.parent = w2.parent  BY <1>1, <1>2 DEF Agrees, Edge
<1>5. w.loc = w2.loc  BY <1>1, <1>2 DEF Agrees, Edge
<1>6. w.props = w2.props  BY <1>1, <1>2 DEF Agrees
<1>7. w.verbs = w2.verbs
  <2>1. w.verbs = [o \in Objects |-> w.verbs[o]] /\ w2.verbs = [o \in Objects |-> w2.verbs[o]]
    BY <1>1, <1>2
  <2>2. \A o \in Objects : w.verbs[o] = w2.verbs[o]  BY DEF Agrees
  <2> QED BY <2>1, <2>2
<1> QED BY <1>3, <1>4, <1>5, <1>6, <1>7 DEF World

\* What is published hangs nothing on objects that do not exist, and of a single
\* editor it is what the editor saw
LEMMA NextWorldOK ==
  ASSUME TypeOK, TreeInv, NumbersKept, NEW t \in Threads, tx[t].phase = "swapping",
         tx[t].base = root.version
  PROVE  ViewOK(NextWorld(t))
<1> DEFINE N == NextWorld(t)
           v == tx[t].view
           w == root.world
           T == tx[t].touched
           F == tx[t].foreign
<1>1. /\ N \in World /\ Agrees(w, N, T) /\ v \in World /\ w \in World
  BY NextWorldIs DEF TypeOK, Transaction
<1>2. \A o \in Objects :
         /\ <<"object", o>> \in T => (o \in N.valid <=> o \in v.valid)
         /\ <<"parent", o>> \in T => N.parent[o] = v.parent[o]
         /\ <<"loc", o>> \in T => N.loc[o] = v.loc[o]
         /\ <<"props", o>> \in T => N.props[o] = v.props[o]
         /\ <<"verbs", o>> \in T => N.verbs[o] = v.verbs[o]
  BY NextWorldIs
<1>3. PhaseOK(t, tx[t]) /\ RowsOK(tx[t]) /\ ViewOK(v) /\ ViewOK(w)
  BY DEF TreeInv, TxOK, PlanesOK
<1>4. T \intersect F = {} /\ Agrees(w, v, T \union F)  BY <1>3 DEF PhaseOK
<1>5. SoleEditor => F = {}  BY <1>3 DEF PhaseOK
<1>6. ~SoleEditor =>
        /\ Whole(T) /\ Whole(F)
        /\ \A o \in Objects :
             /\ <<"object", o>> \in T => o \notin v.valid
             /\ \A k \in {"parent", "props", "verbs"} :
                  <<k, o>> \in T => <<"object", o>> \in T \/ o \in v.valid
  BY <1>3 DEF RowsOK
<1> HIDE DEF N, v, w, T, F
<1>7. CASE SoleEditor
  <2>1. Agrees(N, v, {})  BY <1>1, <1>2, <1>4, <1>5, <1>7 DEF Agrees
  <2>2. N = v  BY <1>1, <2>1, SameWorld
  <2> QED BY <1>3, <2>2 DEF N
<1>8. CASE ~SoleEditor
  <2>1. ASSUME NEW o \in Objects \ N.valid
        PROVE  N.parent[o] = Nothing /\ N.props[o] = <<>> /\ N.verbs[o] = NoRow
    <3>1. CASE <<"object", o>> \in T
      <4>1. <<"parent", o>> \in T /\ <<"props", o>> \in T /\ <<"verbs", o>> \in T
        <5>1. /\ Row("parent", {o}) \subseteq T /\ Row("props", {o}) \subseteq T
              /\ Row("verbs", {o}) \subseteq T
          BY <1>6, <1>8, <3>1 DEF Whole
        <5>2. /\ <<"parent", o>> \in Row("parent", {o}) /\ <<"props", o>> \in Row("props", {o})
              /\ <<"verbs", o>> \in Row("verbs", {o})
          BY RowIs
        <5> QED BY <5>1, <5>2
      <4>2. o \in Objects \ v.valid  BY <1>2, <2>1, <3>1
      <4> QED BY <1>2, <1>3, <4>1, <4>2 DEF ViewOK, Bare
    <3>2. CASE <<"object", o>> \notin T
      <4>1. o \in Objects \ w.valid  BY <1>1, <2>1, <3>2 DEF Agrees
      <4>2. w.parent[o] = Nothing /\ w.props[o] = <<>> /\ w.verbs[o] = NoRow
        BY <1>3, <4>1 DEF ViewOK, Bare
      <4>3. ASSUME NEW k \in {"parent", "props", "verbs"}, <<k, o>> \in T PROVE FALSE
        <5>1. o \in v.valid  BY <1>6, <1>8, <3>2, <4>3
        <5>2. <<"object", o>> \in F  BY <1>4, <3>2, <4>1, <5>1 DEF Agrees
        <5>3. <<k, o>> \in F  BY <1>6, <1>8, <5>2, RowIs DEF Whole
        <5> QED BY <1>4, <4>3, <5>3
      <4>4. <<"parent", o>> \notin T /\ <<"props", o>> \notin T /\ <<"verbs", o>> \notin T
        BY <4>3
      <4> QED BY <1>1, <4>2, <4>4 DEF Agrees
    <3> QED BY <3>1, <3>2
  <2>2. Bare(N)  BY <2>1 DEF Bare
  <2> QED BY <1>8, <2>2 DEF ViewOK, N
<1> QED BY <1>7, <1>8

\* A new root keeps types and the invariant
LEMMA SwapRootStep ==
  ASSUME TypeOK, TreeInv, NEW t \in Threads, SwapRoot(t)
  PROVE  TypeOK' /\ TreeInv'
<1>1. tx \in [Threads -> Transaction] /\ tx[t] \in Transaction /\ root.version \in Nat
      /\ pub.version \in Nat
  BY DEF TypeOK
<1>2. tx[t].phase = "swapping" /\ UNCHANGED <<scenario, pub, minted>>  BY DEF SwapRoot
<1>3. CASE root.version # tx[t].base
  <2>1. tx' = [tx EXCEPT ![t].phase = "lost"] /\ UNCHANGED root  BY <1>3 DEF SwapRoot
  <2> QED BY <1>2, <2>1, LostStep
<1>4. CASE root.version = tx[t].base
  <2> DEFINE T == tx[t].touched
  <2>1. PICK N \in World : N = NextWorld(t) /\ Agrees(root.world, N, T)  BY NextWorldIs
  <2>2. root' = [version |-> root.version + 1, world |-> N, caches |-> root.caches]
    BY <1>4, <2>1 DEF SwapRoot, NextCaches
  <2>3. root'.version = root.version + 1 /\ root'.world = N /\ root'.caches = root.caches  BY <2>2
  <2>4. ASSUME NEW u \in Threads
        PROVE  tx'[u] = IF u = t THEN NoTx ELSE IF tx[u].phase = "idle" THEN tx[u]
                        ELSE [tx[u] EXCEPT !.foreign = tx[u].foreign \union T]
    BY <1>4 DEF SwapRoot
  <2>5. T \in SUBSET (Kind \X Objects)  BY <1>1 DEF Transaction
  <2>6. TypeOK'
    <3>1. root' \in [version : Nat, world : World, caches : Caches]  BY <2>2, <2>1 DEF TypeOK
    <3>2. \A u \in Threads : tx'[u] \in Transaction
      <4> SUFFICES ASSUME NEW u \in Threads PROVE tx'[u] \in Transaction  OBVIOUS
      <4>1. PICK r \in Transaction : r = tx[u]  BY <1>1
      <4>2. [r EXCEPT !.foreign = r.foreign \union T] \in Transaction  BY <2>5 DEF Transaction
      <4> QED BY <2>4, <4>1, <4>2, NothingTypes
    <3>3. tx' = [u \in Threads |-> tx'[u]]  BY <1>4 DEF SwapRoot
    <3>4. tx' \in [Threads -> Transaction]  BY <3>2, <3>3
    <3> QED BY <1>2, <3>1, <3>4 DEF TypeOK
  <2>7. SoleEditor' = SoleEditor /\ NumbersKept' = NumbersKept /\ \A w : Good(w)' = Good(w)
    BY <1>2 DEF NumbersKept, SoleEditor, Good
  <2>8. \A w : ViewOK(w)' <=> ViewOK(w)  BY <2>7 DEF ViewOK
  <2> HIDE DEF T
  <2>9. ASSUME NumbersKept PROVE PlanesOK' /\ \A u \in Threads : TxOK(u, tx[u])'
    <3>1. PlanesOK /\ \A u \in Threads : TxOK(u, tx[u])  BY <2>9 DEF TreeInv
    <3>2. ViewOK(N)  BY <1>2, <1>4, <2>1, <2>9, NextWorldOK
    <3>3. PlanesOK'
      <4>1. root'.caches = NoCaches  BY <2>3, <3>1 DEF PlanesOK
      <4>2. pub.version <= root.version + 1 \/ pub.caches = NoCaches  BY <1>1, <3>1 DEF PlanesOK
      <4>3. pub.version = root.version + 1 => Sound(N, pub.caches)
        BY <1>1, <3>1, NothingIsSound DEF PlanesOK
      <4> QED BY <1>2, <2>3, <2>8, <3>2, <4>1, <4>2, <4>3 DEF PlanesOK
    <3>4. PhaseOK(t, tx[t]) /\ RowsOK(tx[t])  BY <3>1 DEF TxOK
    <3>5. T # {} /\ t \in scenario.editors  BY <1>2, <3>4 DEF PhaseOK, T
    <3>6. ~SoleEditor => Whole(T)  BY <3>4 DEF RowsOK, T
    <3>7. Agrees(N, root.world, T)  BY <2>1 DEF Agrees
    <3>8. \A u \in Threads : Reader(tx'[u]) => u # t /\ Reader(tx[u]) /\ tx'[u].base = tx[u].base
                                                /\ tx'[u].view = tx[u].view
      <4> SUFFICES ASSUME NEW u \in Threads, Reader(tx'[u])
                   PROVE  u # t /\ Reader(tx[u]) /\ tx'[u].base = tx[u].base
                          /\ tx'[u].view = tx[u].view
        OBVIOUS
      <4>1. NoTx.phase = "idle"  BY DEF NoTx
      <4>2. u # t /\ tx[u].phase # "idle"  BY <2>4, <4>1 DEF Reader
      <4>3. PICK r \in Transaction : r = tx[u]  BY <1>1
      <4>4. tx'[u] = [r EXCEPT !.foreign = r.foreign \union T]  BY <2>4, <4>2, <4>3
      <4>5. tx'[u].phase = r.phase /\ tx'[u].base = r.base /\ tx'[u].view = r.view
            /\ tx'[u].touched = r.touched
        BY <4>4 DEF Transaction
      <4> QED BY <4>2, <4>3, <4>5 DEF Reader
    <3>9. ASSUME NEW u \in Threads PROVE TxOK(u, tx[u])'
      <4>1. CASE tx'[u] = NoTx
        <5>1. /\ NoTx.phase = "idle" /\ NoTx.base = 0 /\ NoTx.view = NoWorld
              /\ NoTx.touched = {} /\ NoTx.foreign = {}
          BY DEF NoTx
        <5>2. PhaseOK(u, tx[u])'  BY <1>1, <2>3, <4>1, <5>1 DEF PhaseOK
        <5>3. SightOK(u, tx[u])'  BY <4>1, <5>1 DEF SightOK, Reader
        <5>4. CachesOK(tx[u])'  BY <4>1, <5>1 DEF CachesOK
        <5>5. RowsOK(tx[u])'  BY <4>1, <5>1 DEF RowsOK, Whole
        <5>6. ViewOK(tx[u].view)'
          <6>1. ViewOK(NoWorld)'  BY <2>8, NothingIsGood
          <6>2. tx'[u].view = NoWorld  BY <4>1, <5>1
          <6> QED BY <6>1, <6>2 DEF ViewOK, Good
        <5> QED BY <5>2, <5>3, <5>4, <5>5, <5>6 DEF TxOK
      <4>2. CASE tx'[u] # NoTx
        <5>1. PICK r \in Transaction : r = tx[u] /\ TxOK(u, r)  BY <1>1, <3>1
        <5>2. u # t /\ r.phase # "idle"  BY <2>4, <4>2, <5>1 DEF TxOK, PhaseOK
        <5>3. PICK q : q = [r EXCEPT !.foreign = r.foreign \union T]  OBVIOUS
        <5>4. tx'[u] = q  BY <2>4, <5>1, <5>2, <5>3
        <5>5. /\ q.phase = r.phase /\ q.base = r.base /\ q.view = r.view /\ q.caches = r.caches
              /\ q.local = r.local /\ q.touched = r.touched /\ q.foreign = r.foreign \union T
              /\ r.base \in Nat
          BY <5>3 DEF Transaction
        <5>6. PhaseOK(u, tx[u])'
          <6>1. PhaseOK(u, r)  BY <5>1 DEF TxOK
          <6>2. q.base <= root.version + 1 /\ q.base # root.version + 1
            BY <1>1, <5>5, <6>1 DEF PhaseOK
          <6>3. ~(SoleEditor /\ u \in scenario.editors)  BY <3>5, <5>2 DEF SoleEditor
          <6>4. Agrees(N, q.view, q.touched \union q.foreign)
            <7>1. Agrees(root.world, r.view, r.touched \union r.foreign)
              BY <5>2, <6>1 DEF PhaseOK
            <7>2. Agrees(N, r.view, T \union (r.touched \union r.foreign))
              BY <3>7, <7>1, AgreesTwice
            <7>3. T \union (r.touched \union r.foreign) = q.touched \union q.foreign  BY <5>5
            <7> QED BY <5>5, <7>2, <7>3
          <6> QED BY <1>2, <2>3, <2>7, <5>2, <5>4, <5>5, <6>1, <6>2, <6>3, <6>4 DEF PhaseOK
        <5>7. SightOK(u, tx[u])'
          <6>1. ASSUME Reader(q)
                PROVE  /\ q.base # root.version + 1
                       /\ q.base = pub.version => Sound(q.view, pub.caches)
                       /\ \A v \in Threads \ {u} : Reader(tx'[v]) /\ tx'[v].base = q.base
                            => tx'[v].view = q.view
            <7>1. Reader(r) /\ SightOK(u, r) /\ PhaseOK(u, r)
              BY <5>1, <5>5, <6>1 DEF Reader, TxOK
            <7>2. q.base # root.version + 1  BY <1>1, <5>5, <7>1 DEF PhaseOK
            <7>3. q.base = pub.version => Sound(q.view, pub.caches)  BY <5>5, <7>1 DEF SightOK
            <7>4. \A v \in Threads \ {u} : Reader(tx'[v]) /\ tx'[v].base = q.base
                            => tx'[v].view = q.view
              BY <3>8, <5>5, <7>1 DEF SightOK
            <7> QED BY <7>2, <7>3, <7>4
          <6> QED BY <1>2, <2>3, <5>4, <6>1 DEF SightOK, Reader
        <5>8. CachesOK(tx[u])'  BY <5>1, <5>4, <5>5 DEF TxOK, CachesOK
        <5>9. RowsOK(tx[u])'
          <6>1. RowsOK(r)  BY <5>1 DEF TxOK
          <6>2. ~SoleEditor => Whole(r.foreign \union T)  BY <3>6, <6>1, WholeUnion DEF RowsOK
          <6> QED BY <2>7, <5>4, <5>5, <6>1, <6>2 DEF RowsOK
        <5>10. ViewOK(tx[u].view)'
          <6>1. ViewOK(r.view)  BY <5>1 DEF TxOK
          <6>2. tx'[u].view = r.view  BY <5>4, <5>5
          <6> QED BY <2>7, <6>1, <6>2 DEF ViewOK, Good
        <5> QED BY <5>6, <5>7, <5>8, <5>9, <5>10 DEF TxOK
      <4> QED BY <4>1, <4>2
    <3> QED BY <3>3, <3>9
  <2>10. TreeInv'  BY <2>7, <2>9 DEF TreeInv
  <2> QED BY <2>6, <2>10
<1> QED BY <1>3, <1>4

\* The first state has its types and the invariant
LEMMA InitStep == Init => TypeOK /\ TreeInv
<1> SUFFICES ASSUME Init PROVE TypeOK /\ TreeInv  OBVIOUS
<1>1. /\ scenario \in Scenarios /\ root.version = 0 /\ root.world = scenario.world
      /\ root.caches = NoCaches /\ pub.version = 0 /\ pub.caches = NoCaches
      /\ tx = [t \in Threads |-> NoTx] /\ minted = 0
      /\ root = [version |-> 0, world |-> scenario.world, caches |-> NoCaches]
      /\ pub = [version |-> 0, caches |-> NoCaches]
  BY DEF Init
<1>2. PICK w \in World : /\ w = scenario.world /\ TreeOK(w) /\ Bare(w) /\ AtHome(w) /\ NamesOnce(w)
                         /\ LocsExist(w) /\ Acyclic(w.loc)
  BY <1>1, InitialWorlds
<1>3. TypeOK
  <2>1. root \in [version : Nat, world : World, caches : Caches]  BY <1>1, <1>2, NothingTypes
  <2>2. pub \in [version : Nat, caches : Caches]  BY <1>1, NothingTypes
  <2>3. tx \in [Threads -> Transaction]  BY <1>1, NothingTypes
  <2>4. minted \in 0..MaxIds  BY <1>1, InheritanceConstants
  <2> QED BY <1>1, <2>1, <2>2, <2>3, <2>4 DEF TypeOK
<1>4. PlanesOK
  <2>1. ViewOK(w)  BY <1>2 DEF ViewOK, Good
  <2> QED BY <1>1, <1>2, <2>1, NothingIsSound DEF PlanesOK
<1>5. \A t \in Threads : TxOK(t, tx[t])  BY <1>1, <1>3, IdleOK
<1> QED BY <1>3, <1>4, <1>5 DEF TreeInv

\* Every step keeps types and the invariant
LEMMA NextStep == TypeOK /\ TreeInv /\ [Next]_vars => TypeOK' /\ TreeInv'
<1> SUFFICES ASSUME TypeOK, TreeInv, [Next]_vars PROVE TypeOK' /\ TreeInv'  OBVIOUS
<1>1. CASE Next
  <2>1. PICK t \in Threads : LoadRoot(t) \/ LoadCaches(t) \/ Lookup(t) \/ Edit(t) \/ Finish(t)
    BY <1>1, InheritanceConstants DEF Next, TypeOK
  <2>2. CASE LoadRoot(t)  BY <2>2, LoadRootStep
  <2>3. CASE LoadCaches(t)  BY <2>3, LoadCachesStep
  <2>4. CASE Lookup(t)  BY <2>4, LookupStep
  <2>5. CASE Edit(t)  BY <2>5, EditStep
  <2>6. CASE rollback(t)  BY <2>6, GivenUp DEF rollback
  <2>7. CASE CommitReadOnly(t)  BY <2>7, CommitReadOnlyStep
  <2>8. CASE publish_read_only_cache(t)  BY <2>8, PublishStep
  <2>9. CASE Prepare(t)  BY <2>9, PrepareStep
  <2>10. CASE StoreCaches(t)  BY <2>10, StoreCachesStep
  <2>11. CASE SwapRoot(t)  BY <2>11, SwapRootStep
  <2> QED BY <2>1, <2>2, <2>3, <2>4, <2>5, <2>6, <2>7, <2>8, <2>9, <2>10, <2>11 DEF Finish
<1>2. CASE UNCHANGED vars
  <2>1. UNCHANGED <<scenario, root, pub, tx, minted>>  BY <1>2 DEF vars
  <2>2. TypeOK'  BY <2>1 DEF TypeOK
  <2>3. SoleEditor' = SoleEditor /\ NumbersKept' = NumbersKept /\ \A w : Good(w)' = Good(w)
    BY <2>1 DEF NumbersKept, SoleEditor, Good
  <2>4. PlanesOK' <=> PlanesOK  BY <2>1, <2>3 DEF PlanesOK, ViewOK, Good
  <2>5. ASSUME NEW u \in Threads, TxOK(u, tx[u]) PROVE TxOK(u, tx[u])'
    <3>1. PhaseOK(u, tx[u])'  BY <2>1, <2>3, <2>5 DEF TxOK, PhaseOK
    <3>2. SightOK(u, tx[u])'  BY <2>1, <2>5 DEF TxOK, SightOK, Reader
    <3>3. CachesOK(tx[u])' /\ RowsOK(tx[u])'  BY <2>1, <2>3, <2>5 DEF TxOK, CachesOK, RowsOK
    <3>4. ViewOK(tx[u].view)'  BY <2>1, <2>3, <2>5 DEF TxOK, ViewOK, Good
    <3> QED BY <3>1, <3>2, <3>3, <3>4 DEF TxOK
  <2>6. TreeInv'  BY <2>3, <2>4, <2>5 DEF TreeInv
  <2> QED BY <2>2, <2>6
<1> QED BY <1>1, <1>2

\* Types and the inductive invariant hold in every reachable state
THEOREM TreeInvariance == Spec => [](TypeOK /\ TreeInv)
<1>1. Init => TypeOK /\ TreeInv  BY InitStep
<1>2. TypeOK /\ TreeInv /\ [Next]_vars => TypeOK' /\ TreeInv'  BY NextStep
<1> QED BY <1>1, <1>2, PTL DEF Spec

\* Every variable keeps its type: what the caches remember, what a view holds
THEOREM TypeCorrect == Spec => []TypeOK
BY TreeInvariance, PTL

\* For any number of threads, objects, names and versions, over any forest and any sequence
\* of lookups, edits and commits: what a running transaction finds in its ancestry,
\* property and verb caches is what a walk over its own view would find now, as long as one
\* thread edits or nobody creates or renumbers objects.
THEOREM CachesAnswerTruly == Spec => [](NumbersKept => CachesSound)
<1>1. TypeOK /\ TreeInv => (NumbersKept => CachesSound)
  <2> SUFFICES ASSUME TypeOK, TreeInv, NumbersKept, NEW t \in Threads, tx[t].phase = "active"
               PROVE  Sound(tx[t].view, [tx[t].caches EXCEPT !.absent = @ \union tx[t].local])
    BY DEF CachesSound
  <2>1. Sound(tx[t].view, tx[t].caches) /\ tx[t].local \subseteq tx[t].caches.absent
    BY DEF TreeInv, TxOK, CachesOK
  <2>2. PICK c \in Caches : c = tx[t].caches  BY ViewTypes
  <2>3. c.absent \union tx[t].local = c.absent  BY <2>1, <2>2
  <2>4. [c EXCEPT !.absent = c.absent] = c  BY DEF Caches
  <2> QED BY <2>1, <2>2, <2>3, <2>4
<1> QED BY <1>1, TreeInvariance, PTL

\* With a single editor the parents of the root and of every view stay a forest over
\* objects that exist, nothing is left behind by a recycled or renumbered object, and
\* no object comes to be inside itself.
THEOREM ForestIsKept == Spec => []ObjectForest
<1>1. TypeOK /\ TreeInv => ObjectForest
  <2> SUFFICES ASSUME TypeOK, TreeInv, SoleEditor, NEW w \in Worlds
               PROVE  /\ TreeOK(w) /\ Bare(w) /\ AtHome(w)
                      /\ {"move", "renumber"} \subseteq scenario.ops \/ Acyclic(w.loc)
    BY DEF ObjectForest
  <2>1. PlanesOK /\ \A t \in Threads : TxOK(t, tx[t])  BY DEF TreeInv, NumbersKept
  <2>2. ViewOK(w)  BY <2>1 DEF Worlds, PlanesOK, TxOK
  <2> QED BY <2>2 DEF ViewOK, Good
<1> QED BY <1>1, TreeInvariance, PTL

\* With a single editor that renames no property, no object ever inherits two properties
\* of one name, although define_property and chparent check against cached ancestry.
THEOREM NamesStayUnique == Spec => []NoNameTwice
<1>1. TypeOK /\ TreeInv => NoNameTwice
  <2> SUFFICES ASSUME TypeOK, TreeInv, SoleEditor, "rename" \notin scenario.ops, NEW w \in Worlds
               PROVE  NamesOnce(w)
    BY DEF NoNameTwice
  <2>1. PlanesOK /\ \A t \in Threads : TxOK(t, tx[t])  BY DEF TreeInv, NumbersKept
  <2>2. ViewOK(w)  BY <2>1 DEF Worlds, PlanesOK, TxOK
  <2> QED BY <2>2 DEF ViewOK, Good
<1> QED BY <1>1, TreeInvariance, PTL
=============================================================================
