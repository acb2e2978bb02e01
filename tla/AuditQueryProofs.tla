--------------------------- MODULE AuditQueryProofs ---------------------------
(***************************************************************************)
(* Theorems about AuditQuery, for any users, actions, instants, filters,   *)
(* page size and numbers of rows and loads.                                *)
(***************************************************************************)
EXTENDS AuditQuery, SequenceTheorems, FunctionTheorems, FiniteSetTheorems, WellFoundedInduction,
        TLAPS

-----------------------------------------------------------------------------
(* Text *)

LEMMA SeqFacts ==
  ASSUME NEW S, NEW q \in Seq(S)
  PROVE  Len(q) \in Nat /\ DOMAIN q = 1 .. Len(q) /\ \A i \in 1 .. Len(q) : q[i] \in S
  BY EmptySeq, LenProperties

LEMMA LeastNumber ==
  ASSUME NEW T, T \subseteq Nat, T # {}
  PROVE  \E x \in T : \A y \in T : x <= y
  <1> DEFINE R == {p \in Nat \X Nat : p[1] < p[2]}
  <1>1. IsWellFoundedOn(OpToRel(<, Nat), Nat)
    BY NatLessThanWellFounded
  <1>2. OpToRel(<, Nat) = R
    BY DEF OpToRel
  <1>3. IsWellFoundedOn(R, Nat)
    BY <1>1, <1>2
  <1>4. \A x, y \in Nat : <<x, y>> \in R <=> x < y
    OBVIOUS
  <1> HIDE DEF R
  <1>5. PICK x \in T : \A y \in T : ~(<<y, x>> \in R)
    BY <1>3, WFMin
  <1>6. ASSUME NEW y \in T PROVE x <= y
    <2>1. x \in Nat /\ y \in Nat
      OBVIOUS
    <2>2. <<y, x>> \in R <=> y < x
      BY <1>4, <2>1, Zenon
    <2>3. ~(y < x)
      BY <1>5, <2>2
    <2> QED BY <2>1, <2>3
  <1> QED BY <1>5, <1>6

\* The order of text is strict and total.
LEMMA BeforeStrict ==
  ASSUME NEW s \in Seq(Nat)
  PROVE  ~Before(s, s)
  BY SeqFacts DEF Before

LEMMA BeforeTransitive ==
  ASSUME NEW s \in Seq(Nat), NEW t \in Seq(Nat), NEW u \in Seq(Nat), Before(s, t), Before(t, u)
  PROVE  Before(s, u)
  <1>1. PICK k \in DOMAIN t : /\ \A l \in 1 .. k - 1 : l <= Len(s) /\ s[l] = t[l]
                              /\ k > Len(s) \/ s[k] < t[k]
    BY DEF Before
  <1>2. PICK m \in DOMAIN u : /\ \A l \in 1 .. m - 1 : l <= Len(t) /\ t[l] = u[l]
                              /\ m > Len(t) \/ t[m] < u[m]
    BY DEF Before
  <1>3. /\ DOMAIN t = 1 .. Len(t) /\ DOMAIN u = 1 .. Len(u)
        /\ Len(s) \in Nat /\ Len(t) \in Nat /\ Len(u) \in Nat
        /\ \A l \in 1 .. Len(s) : s[l] \in Nat
        /\ \A l \in 1 .. Len(t) : t[l] \in Nat
        /\ \A l \in 1 .. Len(u) : u[l] \in Nat
    BY SeqFacts
  <1>4. CASE k < m
    <2>1. k \in 1 .. m - 1 /\ k \in DOMAIN u /\ k \in 1 .. Len(t)
      BY <1>3, <1>4
    <2>a. t[k] = u[k]
      BY <1>2, <2>1
    <2>2. \A l \in 1 .. k - 1 : l <= Len(s) /\ s[l] = u[l]
      BY <1>1, <1>2, <1>3, <1>4
    <2> QED BY <1>1, <2>1, <2>a, <2>2 DEF Before
  <1>5. CASE m < k
    <2>0. m \in 1 .. k - 1 /\ m <= Len(t) /\ m \in Nat
      BY <1>3, <1>5
    <2>1. m <= Len(s) /\ s[m] = t[m] /\ m <= Len(t)
      BY <1>1, <2>0
    <2>2. s[m] < u[m]
      BY <1>2, <1>3, <2>1
    <2>3. ASSUME NEW l \in 1 .. m - 1 PROVE l <= Len(s) /\ s[l] = u[l]
      <3>1. l \in 1 .. k - 1
        BY <1>3, <1>5
      <3> QED BY <1>1, <1>2, <3>1
    <2> QED BY <2>2, <2>3 DEF Before
  <1>6. CASE k = m
    <2>1. t[k] < u[k]
      BY <1>2, <1>3, <1>6
    <2>2. k > Len(s) \/ s[k] < u[k]
      BY <1>1, <1>3, <1>6, <2>1
    <2>3. \A l \in 1 .. k - 1 : l <= Len(s) /\ s[l] = u[l]
      BY <1>1, <1>2, <1>6
    <2> QED BY <1>6, <2>2, <2>3 DEF Before
  <1> QED BY <1>3, <1>4, <1>5, <1>6

LEMMA BeforeTotal ==
  ASSUME NEW s \in Seq(Nat), NEW t \in Seq(Nat), s # t
  PROVE  Before(s, t) \/ Before(t, s)
  <1> DEFINE D == {k \in Nat \ {0} : \/ k <= Len(s) /\ k > Len(t)
                                     \/ k <= Len(t) /\ k > Len(s)
                                     \/ k <= Len(s) /\ k <= Len(t) /\ s[k] # t[k]}
  <1>1. /\ DOMAIN t = 1 .. Len(t) /\ DOMAIN s = 1 .. Len(s) /\ Len(s) \in Nat /\ Len(t) \in Nat
        /\ \A l \in 1 .. Len(s) : s[l] \in Nat
        /\ \A l \in 1 .. Len(t) : t[l] \in Nat
    BY SeqFacts
  <1>2. D # {}
    <2> SUFFICES ASSUME D = {} PROVE s = t
      OBVIOUS
    <2>1. Len(s) = Len(t)
      <3>1. CASE Len(s) < Len(t)
        <4>1. Len(t) \in D
          BY <1>1, <3>1
        <4> QED BY <4>1
      <3>2. CASE Len(t) < Len(s)
        <4>1. Len(s) \in D
          BY <1>1, <3>2
        <4> QED BY <4>1
      <3>3. Len(s) \in Nat /\ Len(t) \in Nat
        BY <1>1
      <3> HIDE DEF D
      <3> QED BY <3>1, <3>2, <3>3
    <2>2. ASSUME NEW k \in 1 .. Len(s) PROVE s[k] = t[k]
      <3>1. s[k] # t[k] => k \in D
        BY <1>1, <2>1
      <3> QED BY <3>1
    <2> QED BY <2>1, <2>2, SeqEqual
  <1>3. PICK k \in D : \A l \in D : k <= l
    BY <1>2, LeastNumber
  <1>4. \A l \in 1 .. k - 1 : l <= Len(s) /\ l <= Len(t) /\ s[l] = t[l]
    <2> SUFFICES ASSUME NEW l \in 1 .. k - 1 PROVE l <= Len(s) /\ l <= Len(t) /\ s[l] = t[l]
      OBVIOUS
    <2>1. l \notin D /\ k \in Nat /\ l \in Nat \ {0} /\ l < k
      BY <1>3
    <2>2. k <= Len(s) \/ k <= Len(t)
      OBVIOUS
    <2> QED BY <1>1, <2>1, <2>2
  <1>5. CASE k > Len(s)
    <2>1. k \in DOMAIN t
      BY <1>1, <1>5
    <2> QED BY <1>4, <1>5, <2>1 DEF Before
  <1>6. CASE k > Len(t)
    <2>1. k \in DOMAIN s
      BY <1>1, <1>6
    <2> QED BY <1>4, <1>6, <2>1 DEF Before
  <1>7. CASE k <= Len(s) /\ k <= Len(t)
    <2>1. k \in DOMAIN s /\ k \in DOMAIN t /\ (s[k] < t[k] \/ t[k] < s[k])
      BY <1>1, <1>7
    <2> QED BY <1>4, <2>1 DEF Before
  <1> QED BY <1>1, <1>5, <1>6, <1>7

\* How a time's text ends.
LEMMA ZoneFacts ==
  ASSUME NEW o \in Int
  PROVE  /\ Zone(o) \in Seq(Nat) /\ Len(Zone(o)) = IF o = 0 THEN 1 ELSE 2
         /\ Zone(o)[1] = IF o = 0 THEN 90 ELSE IF o > 0 THEN 43 ELSE 45
         /\ o # 0 => Zone(o)[2] = IF o > 0 THEN o ELSE -o
  <1>1. CASE o = 0
    BY <1>1 DEF Zone
  <1>2. CASE o > 0
    <2>1. Zone(o) = <<43, o>> /\ o \in Nat /\ o # 0
      BY <1>2 DEF Zone
    <2> QED BY <1>2, <2>1
  <1>3. CASE o < 0
    <2>1. Zone(o) = <<45, -o>> /\ -o \in Nat /\ o # 0 /\ ~(o > 0)
      BY <1>3 DEF Zone
    <2> QED BY <2>1
  <1> QED BY <1>1, <1>2, <1>3

\* What is where in a time's text.
Place(frac) == IF Len(frac) = 0 THEN 1 ELSE 2 + Len(frac)
Shape(text, first, frac, end) ==
    /\ text \in Seq(Nat) /\ text[1] = first
    /\ Len(text) = Place(frac) + Len(end)
    /\ Len(frac) > 0 => text[2] = 46
    /\ \A k \in 1 .. Len(frac) : text[k + 2] = 48 + frac[k]
    /\ \A k \in 1 .. Len(end) : text[Place(frac) + k] = end[k]

LEMMA FormatShape ==
  ASSUME NEW sec \in Int, NEW o \in Int, sec + o \in Nat, NEW frac \in Seq(0 .. 9)
  PROVE  Shape(Format(sec, frac, o), sec + o, frac, Zone(o))
  <1> DEFINE n == Len(frac)
             first == sec + o
             end == Zone(o)
             dot == IF frac = <<>> THEN <<>> ELSE <<46>>
             d == [k \in 1 .. n |-> 48 + frac[k]]
  <1>1. /\ n \in Nat /\ DOMAIN frac = 1 .. n /\ \A k \in 1 .. n : frac[k] \in 0 .. 9
        /\ frac = <<>> <=> n = 0
    BY SeqFacts, EmptySeq
  <1>2. d \in Seq(Nat) /\ Len(d) = n /\ \A k \in 1 .. n : d[k] = 48 + frac[k]
    <2>1. \A k \in 1 .. n : 48 + frac[k] \in Nat
      BY <1>1
    <2>2. d \in [1 .. n -> Nat]
      BY <2>1
    <2> QED BY <1>1, <2>2
  <1>3. /\ dot \in Seq(Nat) /\ Len(dot) = IF n = 0 THEN 0 ELSE 1
        /\ n > 0 => dot[1] = 46
    BY <1>1, EmptySeq
  <1>4. /\ <<first>> \in Seq(Nat) /\ Len(<<first>>) = 1 /\ <<first>>[1] = first
        /\ end \in Seq(Nat) /\ Len(end) \in Nat /\ Len(end) >= 1
    <2>1. end \in Seq(Nat) /\ Len(end) = IF o = 0 THEN 1 ELSE 2
      BY ZoneFacts
    <2>2. first \in Nat
      OBVIOUS
    <2> HIDE DEF end, first
    <2> QED BY <2>1, <2>2
  <1>5. Format(sec, frac, o) = ((<<first>> \o dot) \o d) \o end
    BY <1>1 DEF Format
  <1> HIDE DEF dot, d, first, end
  <1> DEFINE a == <<first>> \o dot
             b == a \o d
  <1>6. /\ a \in Seq(Nat) /\ Len(a) = (IF n = 0 THEN 1 ELSE 2) /\ a[1] = first
        /\ n > 0 => a[2] = 46
    <2>1. /\ a \in Seq(Nat) /\ Len(a) = Len(<<first>>) + Len(dot)
          /\ \A i \in 1 .. Len(<<first>>) + Len(dot) :
               a[i] = IF i <= Len(<<first>>) THEN <<first>>[i] ELSE dot[i - Len(<<first>>)]
      <3>1. <<first>> \in Seq(Nat) /\ dot \in Seq(Nat)
        BY <1>3, <1>4
      <3> QED BY <3>1, ConcatProperties
    <2>2. 1 \in 1 .. Len(<<first>>) + Len(dot) /\ 1 <= Len(<<first>>)
      BY <1>3, <1>4, <1>1
    <2>3. a[1] = first
      BY <1>4, <2>1, <2>2
    <2>4. ASSUME n > 0 PROVE a[2] = 46
      <3>1. 2 \in 1 .. Len(<<first>>) + Len(dot) /\ ~(2 <= Len(<<first>>)) /\ 2 - Len(<<first>>) = 1
        BY <1>1, <1>3, <1>4, <2>4
      <3>2. a[2] = dot[1]
        BY <2>1, <3>1
      <3> QED BY <1>3, <2>4, <3>2
    <2> QED BY <1>1, <1>3, <1>4, <2>1, <2>3, <2>4
  <1> HIDE DEF a
  <1>7. /\ b \in Seq(Nat) /\ Len(b) = Len(a) + n /\ b[1] = first
        /\ n > 0 => b[2] = 46
        /\ \A k \in 1 .. n : b[k + 2] = 48 + frac[k]
    <2>1. /\ b \in Seq(Nat) /\ Len(b) = Len(a) + n
          /\ \A i \in 1 .. Len(a) + n : b[i] = IF i <= Len(a) THEN a[i] ELSE d[i - Len(a)]
      <3>1. a \in Seq(Nat) /\ d \in Seq(Nat)
        BY <1>2, <1>6
      <3>2. /\ a \o d \in Seq(Nat) /\ Len(a \o d) = Len(a) + Len(d)
            /\ \A i \in 1 .. Len(a) + Len(d) :
                 (a \o d)[i] = IF i <= Len(a) THEN a[i] ELSE d[i - Len(a)]
        BY <3>1, ConcatProperties
      <3> HIDE DEF b
      <3> QED BY <1>2, <3>2 DEF b
    <2>2. b[1] = first /\ (n > 0 => b[2] = 46)
      BY <1>1, <1>6, <2>1
    <2>3. ASSUME NEW k \in 1 .. n PROVE b[k + 2] = 48 + frac[k]
      <3>1. Len(a) = 2 /\ k + 2 \in 1 .. Len(a) + n /\ ~(k + 2 <= Len(a)) /\ k + 2 - Len(a) = k
        BY <1>1, <1>6
      <3>2. b[k + 2] = d[k]
        BY <2>1, <3>1
      <3> QED BY <1>2, <3>2
    <2> QED BY <2>1, <2>2, <2>3
  <1>8. Len(b) = Place(frac) /\ Len(b) \in Nat /\ Len(b) >= 1 /\ (n > 0 => Len(b) = n + 2)
    BY <1>1, <1>6, <1>7 DEF Place
  <1> HIDE DEF b
  <1> DEFINE c == b \o end
  <1>9. /\ c \in Seq(Nat) /\ Len(c) = Len(b) + Len(end)
        /\ \A i \in 1 .. Len(b) + Len(end) :
             c[i] = IF i <= Len(b) THEN b[i] ELSE end[i - Len(b)]
    <2>1. b \in Seq(Nat) /\ end \in Seq(Nat)
      BY <1>4, <1>7
    <2>2. /\ b \o end \in Seq(Nat) /\ Len(b \o end) = Len(b) + Len(end)
          /\ \A i \in 1 .. Len(b) + Len(end) :
               (b \o end)[i] = IF i <= Len(b) THEN b[i] ELSE end[i - Len(b)]
      BY <2>1, ConcatProperties
    <2> HIDE DEF c
    <2> QED BY <2>2 DEF c
  <1>10. Format(sec, frac, o) = c
    BY <1>5 DEF a, b
  <1> HIDE DEF c
  <1>11. c[1] = first /\ (n > 0 => c[2] = 46)
    <2>1. 1 \in 1 .. Len(b) + Len(end) /\ (n > 0 => 2 \in 1 .. Len(b) + Len(end) /\ 2 <= Len(b))
      BY <1>1, <1>4, <1>8
    <2> QED BY <1>7, <1>8, <1>9, <2>1
  <1>12. ASSUME NEW k \in 1 .. n PROVE c[k + 2] = 48 + frac[k]
    <2>1. k + 2 \in 1 .. Len(b) + Len(end) /\ k + 2 <= Len(b)
      BY <1>1, <1>4, <1>8
    <2> QED BY <1>7, <1>9, <2>1
  <1>13. ASSUME NEW k \in 1 .. Len(end) PROVE c[Place(frac) + k] = end[k]
    <2> DEFINE m == Place(frac)
    <2>0. m = Len(b) /\ m \in Nat
      BY <1>8
    <2> HIDE DEF m
    <2>1. m + k \in 1 .. m + Len(end) /\ ~(m + k <= m) /\ (m + k) - m = k
      BY <1>4, <2>0
    <2>2. c[m + k] = end[k]
      BY <1>9, <2>0, <2>1
    <2> QED BY <2>2 DEF m
  <1> QED BY <1>8, <1>9, <1>10, <1>11, <1>12, <1>13 DEF Shape, first, end

\* Where the shorter fraction ends, the longer goes on with a dot or a digit.
LEMMA NotShorter ==
  ASSUME NEW T, NEW s, NEW t, NEW f \in Seq(0 .. 9), NEW g \in Seq(0 .. 9),
         NEW o \in Int, NEW q \in Int, Shape(T, s, f, Zone(o)), Shape(T, t, g, Zone(q))
  PROVE  ~(Len(f) < Len(g))
  <1> SUFFICES ASSUME Len(f) < Len(g) PROVE FALSE
    OBVIOUS
  <1>1. Len(f) \in Nat /\ Len(g) \in Nat /\ \A k \in 1 .. Len(g) : g[k] \in 0 .. 9
    BY SeqFacts
  <1>2. T[Place(f) + 1] \in {90, 43, 45}
    <2>1. Zone(o)[1] \in {90, 43, 45} /\ 1 \in 1 .. Len(Zone(o))
      <3>1. /\ Len(Zone(o)) = IF o = 0 THEN 1 ELSE 2
            /\ Zone(o)[1] = IF o = 0 THEN 90 ELSE IF o > 0 THEN 43 ELSE 45
        BY ZoneFacts
      <3> QED BY <3>1
    <2> QED BY <2>1 DEF Shape
  <1>3. CASE Len(f) = 0
    <2>1. T[2] = 46 /\ Place(f) + 1 = 2
      BY <1>1, <1>3 DEF Shape, Place
    <2> QED BY <1>2, <2>1
  <1>4. CASE Len(f) # 0
    <2> DEFINE k == Len(f) + 1
    <2>1. k \in 1 .. Len(g) /\ Place(f) + 1 = k + 2
      BY <1>1, <1>4 DEF Place
    <2> HIDE DEF k
    <2>2. T[k + 2] = 48 + g[k] /\ g[k] \in 0 .. 9
      BY <1>1, <2>1 DEF Shape
    <2>3. \A x \in 0 .. 9 : 48 + x \notin {90, 43, 45}
      OBVIOUS
    <2> QED BY <1>2, <2>1, <2>2, <2>3
  <1> QED BY <1>3, <1>4

LEMMA FormatApart ==
  ASSUME NEW s \in Int, NEW t \in Int, NEW f \in Seq(0 .. 9), NEW g \in Seq(0 .. 9),
         NEW o \in Int, NEW q \in Int, s + o \in Nat, t + q \in Nat,
         Format(s, f, o) = Format(t, g, q)
  PROVE  s = t /\ f = g
  <1> DEFINE T == Format(s, f, o)
  <1>1. Shape(T, s + o, f, Zone(o)) /\ Shape(T, t + q, g, Zone(q))
    <2>1. Shape(Format(s, f, o), s + o, f, Zone(o)) /\ Shape(Format(t, g, q), t + q, g, Zone(q))
      BY FormatShape
    <2> QED BY <2>1
  <1> HIDE DEF T
  <1>2. Len(f) \in Nat /\ Len(g) \in Nat
        /\ (\A k \in 1 .. Len(f) : f[k] \in 0 .. 9) /\ (\A k \in 1 .. Len(g) : g[k] \in 0 .. 9)
    BY SeqFacts
  <1>3. Len(f) = Len(g)
    <2>1. ~(Len(f) < Len(g)) /\ ~(Len(g) < Len(f))
      BY <1>1, NotShorter
    <2> QED BY <1>2, <2>1
  <1>4. ASSUME NEW k \in 1 .. Len(f) PROVE f[k] = g[k]
    <2>1. T[k + 2] = 48 + f[k] /\ T[k + 2] = 48 + g[k]
      BY <1>1, <1>3 DEF Shape
    <2>2. f[k] \in 0 .. 9 /\ g[k] \in 0 .. 9
      BY <1>2, <1>3
    <2>3. \A x, y \in 0 .. 9 : 48 + x = 48 + y => x = y
      OBVIOUS
    <2> QED BY <2>1, <2>2, <2>3
  <1>5. f = g
    BY <1>3, <1>4, SeqEqual
  <1>6. o = q
    <2> DEFINE p == Place(f)
    <2>1. /\ \A k \in 1 .. Len(Zone(o)) : T[p + k] = Zone(o)[k]
          /\ \A k \in 1 .. Len(Zone(q)) : T[p + k] = Zone(q)[k]
      BY <1>1, <1>5 DEF Shape
    <2> HIDE DEF p
    <2>z. /\ Len(Zone(o)) = IF o = 0 THEN 1 ELSE 2
          /\ Zone(o)[1] = IF o = 0 THEN 90 ELSE IF o > 0 THEN 43 ELSE 45
          /\ o # 0 => Zone(o)[2] = IF o > 0 THEN o ELSE -o
          /\ Len(Zone(q)) = IF q = 0 THEN 1 ELSE 2
          /\ Zone(q)[1] = IF q = 0 THEN 90 ELSE IF q > 0 THEN 43 ELSE 45
          /\ q # 0 => Zone(q)[2] = IF q > 0 THEN q ELSE -q
      BY ZoneFacts
    <2>2. Zone(o)[1] = Zone(q)[1]
      <3>1. 1 \in 1 .. Len(Zone(o)) /\ 1 \in 1 .. Len(Zone(q))
        BY <2>z
      <3> QED BY <2>1, <3>1
    <2>3. (o = 0 <=> q = 0) /\ (o > 0 <=> q > 0)
      <3>1. (IF o = 0 THEN 90 ELSE IF o > 0 THEN 43 ELSE 45)
              = (IF q = 0 THEN 90 ELSE IF q > 0 THEN 43 ELSE 45)
        BY <2>2, <2>z, Zenon
      <3> HIDE <2>2, <2>z
      <3> QED BY <3>1
    <2>4. CASE o # 0
      <3>1. 2 \in 1 .. Len(Zone(o)) /\ 2 \in 1 .. Len(Zone(q))
        BY <2>3, <2>4, <2>z
      <3>2. Zone(o)[2] = Zone(q)[2]
        BY <2>1, <3>1
      <3>3. (IF o > 0 THEN o ELSE -o) = (IF q > 0 THEN q ELSE -q)
        BY <2>3, <2>4, <3>2, <2>z
      <3> QED BY <2>3, <3>3
    <2> QED BY <2>3, <2>4
  <1>7. s + o = t + q
    BY <1>1 DEF Shape
  <1> QED BY <1>5, <1>6, <1>7

-----------------------------------------------------------------------------
(* Rows in order *)

Row == [user : Users, action : Actions, time : Instants, offset : Offsets]

Local(i) == table[i].time.sec + table[i].offset

TableInv == /\ table \in Seq(Row)
            /\ \A i, j \in DOMAIN table : table[i].time = table[j].time => i = j

LEMMA RowType ==
  ASSUME TableInv
  PROVE  /\ Len(table) \in Nat /\ DOMAIN table = 1 .. Len(table) /\ IsFiniteSet(DOMAIN table)
         /\ \A i \in DOMAIN table :
              /\ table[i] \in Row
              /\ table[i].time.sec \in Nat \ {0} /\ table[i].time.sec \in Int
              /\ table[i].time.frac \in Seq(0 .. 9)
              /\ table[i].time.sec + table[i].offset \in Nat
              /\ table[i].time = [sec |-> table[i].time.sec, frac |-> table[i].time.frac]
              /\ table[i].offset \in Int /\ Local(i) \in Nat
  <1>1. table \in Seq(Row)
    BY DEF TableInv
  <1>2. Len(table) \in Nat /\ DOMAIN table = 1 .. Len(table) /\ \A i \in DOMAIN table : table[i] \in Row
    BY <1>1, SeqFacts
  <1>3. IsFiniteSet(DOMAIN table)
    BY <1>2, FS_Interval
  <1>4. \A i \in DOMAIN table : table[i].time \in [sec : Nat \ {0}, frac : Seq(0 .. 9)]
    BY <1>2, AuditQueryAssumption DEF Row
  <1>5. \A i \in DOMAIN table : table[i].offset \in Int /\ Local(i) \in Nat
    <2> SUFFICES ASSUME NEW i \in DOMAIN table PROVE table[i].offset \in Int /\ Local(i) \in Nat
      OBVIOUS
    <2>1. table[i].time \in Instants /\ table[i].offset \in Offsets
      BY <1>2 DEF Row
    <2>2. table[i].offset \in Int /\ table[i].time.sec + table[i].offset > 0
      BY <2>1, AuditQueryAssumption
    <2>3. table[i].time.sec \in Nat
      BY <1>4
    <2> QED BY <2>2, <2>3 DEF Local
  <1>6. \A i \in DOMAIN table :
           /\ table[i].time.sec \in Nat \ {0} /\ table[i].time.sec \in Int
           /\ table[i].time.frac \in Seq(0 .. 9)
           /\ table[i].time.sec + table[i].offset \in Nat
    BY <1>4, <1>5 DEF Local
  <1> QED BY <1>2, <1>3, <1>4, <1>5, <1>6

LEMMA TextType ==
  ASSUME TableInv, NEW i \in DOMAIN table
  PROVE  Text(i) \in Seq(Nat) /\ Text(i)[1] = Local(i) /\ Len(Text(i)) >= 1
  <1> DEFINE T == Format(table[i].time.sec, table[i].time.frac, table[i].offset)
             z == Zone(table[i].offset)
  <1>1. /\ table[i].time.sec \in Int /\ table[i].time.frac \in Seq(0 .. 9)
        /\ table[i].offset \in Int /\ table[i].time.sec + table[i].offset \in Nat
    BY RowType
  <1>2. Len(table[i].time.frac) \in Nat /\ Len(z) \in Nat
    BY <1>1, SeqFacts, ZoneFacts
  <1>3. Shape(T, Local(i), table[i].time.frac, z)
    BY <1>1, FormatShape DEF Local
  <1> HIDE DEF z
  <1>4. T \in Seq(Nat) /\ T[1] = Local(i) /\ Len(T) >= 1
    BY <1>2, <1>3 DEF Shape, Place
  <1> QED BY <1>4 DEF Text

LEMMA TextsApart ==
  ASSUME TableInv, NEW i \in DOMAIN table, NEW j \in DOMAIN table, i # j
  PROVE  Before(Text(i), Text(j)) \/ Before(Text(j), Text(i))
  <1>1. Text(i) \in Seq(Nat) /\ Text(j) \in Seq(Nat)
    BY TextType
  <1>2. Text(i) # Text(j)
    <2> SUFFICES ASSUME Text(i) = Text(j) PROVE table[i].time = table[j].time
      BY DEF TableInv
    <2>1. /\ table[i].time.sec \in Int /\ table[i].time.frac \in Seq(0 .. 9)
          /\ table[i].offset \in Int /\ table[i].time.sec + table[i].offset \in Nat
          /\ table[j].time.sec \in Int /\ table[j].time.frac \in Seq(0 .. 9)
          /\ table[j].offset \in Int /\ table[j].time.sec + table[j].offset \in Nat
      BY RowType
    <2>2. table[i].time.sec = table[j].time.sec /\ table[i].time.frac = table[j].time.frac
      <3>1. Format(table[i].time.sec, table[i].time.frac, table[i].offset)
              = Format(table[j].time.sec, table[j].time.frac, table[j].offset)
        BY DEF Text
      <3>2. PICK s, t, o, q, f, g :
              /\ s = table[i].time.sec /\ f = table[i].time.frac /\ o = table[i].offset
              /\ t = table[j].time.sec /\ g = table[j].time.frac /\ q = table[j].offset
        OBVIOUS
      <3>3. s \in Int /\ t \in Int /\ f \in Seq(0 .. 9) /\ g \in Seq(0 .. 9) /\ o \in Int /\ q \in Int
            /\ s + o \in Nat /\ t + q \in Nat /\ Format(s, f, o) = Format(t, g, q)
        BY <2>1, <3>1, <3>2
      <3>4. s = t /\ f = g
        BY <3>3, FormatApart
      <3> QED BY <3>2, <3>4
    <2> QED BY <2>2, RowType
  <1> QED BY <1>1, <1>2, BeforeTotal

Rank(rows, i) == Cardinality(Newer(rows, i))

LEMMA NewerFacts ==
  ASSUME TableInv, NEW rows, rows \subseteq DOMAIN table, NEW i \in rows
  PROVE  /\ IsFiniteSet(rows) /\ Cardinality(rows) \in Nat /\ IsFiniteSet(Newer(rows, i))
         /\ Newer(rows, i) \subseteq rows /\ i \notin Newer(rows, i)
         /\ Rank(rows, i) \in Nat /\ Rank(rows, i) < Cardinality(rows)
  <1> DEFINE N == Newer(rows, i)
  <1>1. IsFiniteSet(rows) /\ Cardinality(rows) \in Nat
    BY RowType, FS_Subset, FS_CardinalityType
  <1>2. N \subseteq rows /\ i \notin N
    <2>1. ~Before(Text(i), Text(i))
      BY TextType, BeforeStrict
    <2> QED BY <2>1 DEF Newer
  <1>3. Rank(rows, i) = Cardinality(N)
    BY DEF Rank
  <1> HIDE DEF N
  <1>4. IsFiniteSet(N) /\ Cardinality(N) <= Cardinality(rows) /\ Cardinality(N) # Cardinality(rows)
    BY <1>1, <1>2, FS_Subset
  <1>5. Cardinality(N) \in Nat
    BY <1>4, FS_CardinalityType
  <1> QED BY <1>1, <1>2, <1>3, <1>4, <1>5 DEF N

\* A newer row has a lower rank.
LEMMA RankGrows ==
  ASSUME TableInv, NEW rows, rows \subseteq DOMAIN table, NEW i \in rows, NEW j \in rows,
         Before(Text(i), Text(j))
  PROVE  Rank(rows, j) < Rank(rows, i)
  <1> DEFINE N == Newer(rows, i)
             M == Newer(rows, j)
  <1>1. IsFiniteSet(N) /\ j \notin M /\ Rank(rows, i) \in Nat /\ Rank(rows, j) \in Nat
    BY NewerFacts
  <1>2. \A k \in M : k \in N
    <2> SUFFICES ASSUME NEW k \in M PROVE k \in N
      OBVIOUS
    <2>1. k \in rows /\ Before(Text(j), Text(k))
      BY DEF Newer
    <2>2. Text(i) \in Seq(Nat) /\ Text(j) \in Seq(Nat) /\ Text(k) \in Seq(Nat)
      BY <2>1, TextType
    <2>3. Before(Text(i), Text(k))
      BY <2>1, <2>2, BeforeTransitive
    <2> QED BY <2>1, <2>3 DEF Newer
  <1>3. j \in N
    BY DEF Newer
  <1>4. Rank(rows, i) = Cardinality(N) /\ Rank(rows, j) = Cardinality(M)
    BY DEF Rank
  <1> HIDE DEF N, M
  <1>5. M \in SUBSET N /\ M # N
    BY <1>1, <1>2, <1>3
  <1>6. Cardinality(M) <= Cardinality(N) /\ Cardinality(M) # Cardinality(N)
    BY <1>1, <1>5, FS_Subset
  <1> QED BY <1>1, <1>4, <1>6

\* Every place in the order is some row's, and the row there is found by it.
LEMMA Ordered ==
  ASSUME TableInv, NEW rows, rows \subseteq DOMAIN table
  PROVE  LET n == Cardinality(rows)
         IN  /\ n \in Nat /\ OrderBy(rows) \in Seq(rows) /\ Len(OrderBy(rows)) = n
             /\ \A k \in 1 .. n : OrderBy(rows)[k] \in rows /\ Rank(rows, OrderBy(rows)[k]) = k - 1
             /\ \A i \in rows : /\ Rank(rows, i) + 1 \in 1 .. n
                                /\ OrderBy(rows)[Rank(rows, i) + 1] = i
  <1> DEFINE n == Cardinality(rows)
             f == [i \in rows |-> Rank(rows, i)]
             O == OrderBy(rows)
  <1>1. IsFiniteSet(rows) /\ n \in Nat
    BY RowType, FS_Subset, FS_CardinalityType
  <1>2. \A i \in rows : Rank(rows, i) \in 0 .. n - 1
    <2> SUFFICES ASSUME NEW i \in rows PROVE Rank(rows, i) \in 0 .. n - 1
      OBVIOUS
    <2>1. Rank(rows, i) \in Nat /\ Rank(rows, i) < n
      BY NewerFacts
    <2> HIDE DEF n
    <2> QED BY <1>1, <2>1
  <1>3. \A i, j \in rows : Rank(rows, i) = Rank(rows, j) => i = j
    <2> SUFFICES ASSUME NEW i \in rows, NEW j \in rows, Rank(rows, i) = Rank(rows, j), i # j
                 PROVE  FALSE
      OBVIOUS
    <2>1. Before(Text(i), Text(j)) \/ Before(Text(j), Text(i))
      BY TextsApart
    <2>2. Rank(rows, j) < Rank(rows, i) \/ Rank(rows, i) < Rank(rows, j)
      BY <2>1, RankGrows
    <2>3. Rank(rows, j) \in Nat
      BY NewerFacts
    <2> QED BY <2>2, <2>3
  <1> HIDE DEF n
  <1>4. f \in Injection(rows, 0 .. n - 1)
    <2>1. f \in [rows -> 0 .. n - 1]
      BY <1>2
    <2>2. \A a, b \in rows : f[a] = f[b] => a = b
      BY <1>3
    <2> HIDE DEF f
    <2> QED BY <2>1, <2>2, Fun_IsInj
  <1>5. IsFiniteSet(0 .. n - 1) /\ Cardinality(0 .. n - 1) = n
    <2>1. 0 \in Int /\ n - 1 \in Int
      BY <1>1
    <2>2. /\ IsFiniteSet(0 .. n - 1)
          /\ Cardinality(0 .. n - 1) = IF 0 > n - 1 THEN 0 ELSE (n - 1) - 0 + 1
      BY <2>1, FS_Interval
    <2>3. \A x \in Nat : (IF 0 > x - 1 THEN 0 ELSE (x - 1) - 0 + 1) = x
      OBVIOUS
    <2> QED BY <1>1, <2>2, <2>3, Zenon
  <1>6. \A k \in 0 .. n - 1 : \E i \in rows : Rank(rows, i) = k
    <2>1. f \in Surjection(rows, 0 .. n - 1)
      <3> HIDE DEF f
      <3> QED BY <1>4, <1>5, FS_Injection DEF n
    <2>2. \A k \in 0 .. n - 1 : \E i \in rows : f[i] = k
      <3> HIDE DEF f
      <3> QED BY <2>1, Fun_SurjectionProperties
    <2> QED BY <2>2
  <1>7. O = [k \in 1 .. n |-> CHOOSE i \in rows : Rank(rows, i) = k - 1]
    BY DEF OrderBy, Rank, n
  <1>8. ASSUME NEW k \in 1 .. n
        PROVE  O[k] \in rows /\ Rank(rows, O[k]) = k - 1
    <2>1. k - 1 \in 0 .. n - 1
      BY <1>1
    <2>2. \E i \in rows : Rank(rows, i) = k - 1
      BY <1>6, <2>1
    <2>3. O[k] = CHOOSE i \in rows : Rank(rows, i) = k - 1
      BY <1>7
    <2> HIDE DEF O
    <2> QED BY <2>2, <2>3
  <1>9. O \in Seq(rows) /\ Len(O) = n
    <2>1. O \in [1 .. n -> rows]
      <3>1. DOMAIN O = 1 .. n /\ O = [k \in 1 .. n |-> O[k]]
        BY <1>7
      <3> HIDE DEF O
      <3> QED BY <1>8, <3>1
    <2> HIDE DEF O
    <2> QED BY <1>1, <2>1
  <1>10. ASSUME NEW i \in rows
         PROVE  Rank(rows, i) + 1 \in 1 .. n /\ O[Rank(rows, i) + 1] = i
    <2>1. Rank(rows, i) + 1 \in 1 .. n /\ (Rank(rows, i) + 1) - 1 = Rank(rows, i)
      BY <1>1, <1>2
    <2>2. O[Rank(rows, i) + 1] \in rows /\ Rank(rows, O[Rank(rows, i) + 1]) = Rank(rows, i)
      BY <1>8, <2>1
    <2> QED BY <1>3, <2>1, <2>2
  <1> QED BY <1>1, <1>8, <1>9, <1>10 DEF n

\* A page has the rows whose ranks follow its offset, without a gap.
LEMMA Paged ==
  ASSUME TableInv, NEW rows, rows \subseteq DOMAIN table, NEW limit \in Nat, NEW offset \in Nat
  PROVE  LET page == Page(rows, limit, offset)
         IN  /\ page \in Seq(rows) /\ Len(page) \in Nat
             /\ \A j \in ToSet(page) : j \in rows /\ Rank(rows, j) < offset + Len(page)
             /\ \A i \in rows : offset <= Rank(rows, i) /\ Rank(rows, i) < offset + Len(page)
                                  => i \in ToSet(page)
  <1> DEFINE n == Cardinality(rows)
             O == OrderBy(rows)
             last == IF offset + limit < n THEN offset + limit ELSE n
             page == SubSeq(O, offset + 1, last)
  <1>1. /\ n \in Nat /\ O \in Seq(rows) /\ Len(O) = n
        /\ \A k \in 1 .. n : O[k] \in rows /\ Rank(rows, O[k]) = k - 1
        /\ \A i \in rows : Rank(rows, i) + 1 \in 1 .. n /\ O[Rank(rows, i) + 1] = i
    BY Ordered
  <1>2. Page(rows, limit, offset) = page
    BY DEF Page
  <1> HIDE DEF n, O
  <1>3. last \in Nat /\ last <= n
    BY <1>1
  <1> HIDE DEF last
  <1>4. /\ page \in Seq(rows) /\ Len(page) = IF offset + 1 <= last THEN last - offset ELSE 0
        /\ \A i \in 1 .. last - offset : page[i] = O[offset + i]
    <2>1. \A i \in offset + 1 .. last : O[i] \in rows
      BY <1>1, <1>3
    <2>2. offset + 1 \in Int /\ last \in Int
      BY <1>3
    <2>3. /\ page \in Seq(rows)
          /\ Len(page) = IF offset + 1 <= last THEN last - (offset + 1) + 1 ELSE 0
          /\ \A i \in 1 .. last - (offset + 1) + 1 : page[i] = O[offset + 1 + i - 1]
      BY <2>1, <2>2, SubSeqProperties
    <2> HIDE DEF page
    <2> QED BY <1>3, <2>3
  <1> HIDE DEF page
  <1>5. Len(page) \in Nat /\ DOMAIN page = 1 .. Len(page)
    BY <1>4, SeqFacts
  <1>6. ASSUME NEW j \in ToSet(page) PROVE j \in rows /\ Rank(rows, j) < offset + Len(page)
    <2>1. PICK k \in DOMAIN page : j = page[k]
      BY DEF ToSet
    <2>2. k \in 1 .. Len(page) /\ Len(page) = last - offset
      <3>1. k \in 1 .. Len(page)
        BY <1>5
      <3> QED BY <1>3, <1>4, <1>5, <3>1
    <2> DEFINE m == offset + k
    <2>a. Len(page) \in Nat /\ k \in Nat /\ 1 <= k /\ k <= Len(page) /\ last = offset + Len(page)
      BY <1>3, <1>5, <2>2
    <2>b. m \in Nat /\ 1 <= m
      BY <2>a
    <2>c. m <= last
      BY <2>a
    <2>d. m - 1 < offset + Len(page)
      BY <2>a
    <2>3. m \in 1 .. n /\ m - 1 < offset + Len(page)
      BY <1>1, <1>3, <2>b, <2>c, <2>d
    <2>4. page[k] = O[m]
      <3>1. k \in 1 .. last - offset
        BY <2>2
      <3> QED BY <1>4, <3>1
    <2> HIDE DEF m
    <2>5. O[m] \in rows /\ Rank(rows, O[m]) = m - 1
      BY <1>1, <2>3
    <2>6. j = O[m]
      BY <2>1, <2>4
    <2> QED BY <2>3, <2>5, <2>6
  <1>7. ASSUME NEW i \in rows, offset <= Rank(rows, i), Rank(rows, i) < offset + Len(page)
        PROVE  i \in ToSet(page)
    <2>1. Rank(rows, i) \in Nat
      BY NewerFacts
    <2> DEFINE k == Rank(rows, i) - offset + 1
    <2>2. k \in 1 .. Len(page) /\ Len(page) = last - offset /\ offset + k = Rank(rows, i) + 1
      BY <1>3, <1>4, <1>5, <1>7, <2>1
    <2>3. page[k] = i
      BY <1>1, <1>4, <2>2
    <2> QED BY <1>5, <2>2, <2>3 DEF ToSet
  <1> QED BY <1>2, <1>4, <1>5, <1>6, <1>7

-----------------------------------------------------------------------------
(* Rows and the window *)

LEMMA TableStart ==
  Init => TableInv
  BY EmptySeq DEF Init, TableInv

LEMMA TableStep ==
  ASSUME TableInv, [Next]_vars
  PROVE  TableInv'
  <1>1. CASE \E u \in Users, a \in Actions, t \in Instants, o \in Offsets : Insert(u, a, t, o)
    <2>1. PICK u \in Users, a \in Actions, t \in Instants, o \in Offsets : Insert(u, a, t, o)
      BY <1>1
    <2> DEFINE r == [user |-> u, action |-> a, time |-> t, offset |-> o]
    <2>2. r \in Row /\ r.time = t
      BY DEF Row
    <2>3. /\ table \in Seq(Row) /\ table' = Append(table, r)
          /\ \A i \in DOMAIN table : table[i].time # t
      BY <2>1 DEF Insert, TableInv
    <2> HIDE DEF r
    <2>4. /\ table' \in Seq(Row) /\ DOMAIN table = 1 .. Len(table) /\ Len(table) \in Nat
          /\ DOMAIN table' = 1 .. Len(table) + 1
          /\ \A i \in 1 .. Len(table) : table'[i] = table[i]
          /\ table'[Len(table) + 1] = r
      BY <2>2, <2>3
    <2>5. ASSUME NEW i \in DOMAIN table', NEW j \in DOMAIN table', table'[i].time = table'[j].time
          PROVE  i = j
      <3>1. CASE i \in DOMAIN table /\ j \in DOMAIN table
        BY <2>4, <2>5, <3>1 DEF TableInv
      <3>2. CASE i \notin DOMAIN table /\ j \notin DOMAIN table
        BY <2>4, <3>2
      <3>3. CASE i \in DOMAIN table /\ j \notin DOMAIN table
        BY <2>2, <2>3, <2>4, <2>5, <3>3
      <3>4. CASE i \notin DOMAIN table /\ j \in DOMAIN table
        BY <2>2, <2>3, <2>4, <2>5, <3>4
      <3> QED BY <3>1, <3>2, <3>3, <3>4
    <2> QED BY <2>3, <2>4, <2>5 DEF TableInv
  <1>2. CASE UNCHANGED table
    BY <1>2 DEF TableInv
  <1>3. (\E c \in calls : EventsHandler(c)) => UNCHANGED table
    BY DEF EventsHandler, Step
  <1>4. LogView => UNCHANGED table
    BY DEF LogView, LoadAuditData, LoadMoreAudit, Loaded, LoadedMore, Failed
  <1> QED BY <1>1, <1>2, <1>3, <1>4 DEF Next, vars

\* Text whose first element is the lower comes first.
LEMMA FirstDecides ==
  ASSUME NEW s \in Seq(Nat), NEW t \in Seq(Nat), Len(s) >= 1, Len(t) >= 1
  PROVE  /\ s[1] < t[1] => Before(s, t)
         /\ t[1] < s[1] => ~Before(s, t)
  <1>1. /\ Len(s) \in Nat /\ Len(t) \in Nat /\ DOMAIN t = 1 .. Len(t)
        /\ 1 \in DOMAIN t /\ s[1] \in Nat /\ t[1] \in Nat
    BY SeqFacts
  <1>2. s[1] < t[1] => Before(s, t)
    BY <1>1 DEF Before
  <1>3. ASSUME t[1] < s[1], Before(s, t) PROVE FALSE
    <2>1. PICK k \in DOMAIN t : /\ \A l \in 1 .. k - 1 : l <= Len(s) /\ s[l] = t[l]
                                /\ k > Len(s) \/ s[k] < t[k]
      BY <1>3 DEF Before
    <2>2. CASE k = 1
      BY <1>1, <1>3, <2>1, <2>2
    <2>3. CASE k # 1
      <3>1. 1 \in 1 .. k - 1
        BY <1>1, <2>3
      <3>2. s[1] = t[1]
        BY <2>1, <3>1
      <3> QED BY <1>1, <1>3, <3>2
    <2> QED BY <2>2, <2>3
  <1> QED BY <1>2, <1>3

LEMMA ReadsFollow ==
  ASSUME TableInv
  PROVE  ReadsFollowLocalTime
  <1> DEFINE rows == Matching(NoFilter)
             read == OrderBy(rows)
  <1>1. rows \subseteq DOMAIN table
    BY DEF Matching, Where
  <1>2. ASSUME NEW k \in 1 .. Len(read) - 1 PROVE Local(read[k]) >= Local(read[k + 1])
    <2>1. /\ Cardinality(rows) \in Nat /\ Len(read) = Cardinality(rows)
          /\ \A l \in 1 .. Len(read) : read[l] \in rows /\ Rank(rows, read[l]) = l - 1
      BY <1>1, Ordered
    <2>2. k \in 1 .. Len(read) /\ k + 1 \in 1 .. Len(read) /\ k \in Nat
      BY <2>1
    <2> DEFINE i == read[k]
               j == read[k + 1]
    <2>3. i \in rows /\ j \in rows /\ Rank(rows, i) = k - 1 /\ Rank(rows, j) = k
      BY <2>1, <2>2
    <2> HIDE DEF i, j, rows, read
    <2>4. ~Before(Text(i), Text(j))
      <3>1. Before(Text(i), Text(j)) => Rank(rows, j) < Rank(rows, i)
        BY <1>1, <2>3, RankGrows
      <3> QED BY <2>2, <2>3, <3>1
    <2>5. i \in DOMAIN table /\ j \in DOMAIN table
      BY <1>1, <2>3
    <2>6. /\ Text(i) \in Seq(Nat) /\ Text(i)[1] = Local(i) /\ Len(Text(i)) >= 1
          /\ Text(j) \in Seq(Nat) /\ Text(j)[1] = Local(j) /\ Len(Text(j)) >= 1
      <3>1. Len(Text(i)) \in Nat /\ Len(Text(j)) \in Nat
        BY <2>5, TextType, SeqFacts
      <3> QED BY <2>5, <3>1, TextType
    <2>7. Local(i) \in Nat /\ Local(j) \in Nat
      BY <2>5, RowType
    <2>8. ~(Local(i) < Local(j))
      BY <2>4, <2>6, FirstDecides
    <2>9. Local(i) >= Local(j)
      BY <2>7, <2>8
    <2> QED BY <2>9 DEF i, j
  <1>3. ASSUME NEW s \in {t.sec : t \in Instants}, NEW o \in Offsets, NEW i \in DOMAIN table,
               NEW b, b = [sec |-> s, offset |-> o]
        PROVE  /\ Local(i) > s + o => i \in Where(NoFilter, b, Open) \ Where(NoFilter, Open, b)
               /\ Local(i) < s + o => i \in Where(NoFilter, Open, b) \ Where(NoFilter, b, Open)
    <2>1. s \in Nat \ {0} /\ o \in Int /\ s + o \in Nat
      BY AuditQueryAssumption
    <2> DEFINE T == Text(i)
               F == Bound(b)
    <2>2. F \in Seq(Nat) /\ F[1] = s + o /\ Len(F) >= 1
      <3>1. <<>> \in Seq(0 .. 9) /\ Len(<<>>) = 0 /\ Len(Zone(o)) \in Nat
        BY <2>1, EmptySeq, ZoneFacts
      <3>a. s \in Int /\ o \in Int /\ s + o \in Nat
        BY <2>1
      <3>b. F = Format(s, <<>>, o)
        BY <1>3 DEF Bound
      <3> HIDE DEF F
      <3>c. Shape(Format(s, <<>>, o), s + o, <<>>, Zone(o))
        BY <3>1, <3>a, FormatShape
      <3>2. Shape(F, s + o, <<>>, Zone(o))
        BY <3>b, <3>c
      <3> HIDE DEF F
      <3> QED BY <3>1, <3>2 DEF Shape, Place
    <2>3. T \in Seq(Nat) /\ T[1] = Local(i) /\ Len(T) >= 1
      BY TextType
    <2>4. Local(i) \in Nat
      BY RowType
    <2>5. /\ i \in Where(NoFilter, b, Open) <=> ~Before(T, F)
          /\ i \in Where(NoFilter, Open, b) <=> ~Before(F, T)
      <3>1. b.sec > 0 /\ ~(Open.sec > 0)
        BY <1>3, <2>1 DEF Open
      <3> HIDE DEF F, T
      <3> QED BY <3>1 DEF Where, NoFilter, F, T
    <2> HIDE DEF F, T
    <2>6. CASE Local(i) > s + o
      <3>1. Before(F, T) /\ ~Before(T, F)
        BY <2>1, <2>2, <2>3, <2>4, <2>6, FirstDecides
      <3> QED BY <2>1, <2>4, <2>5, <2>6, <3>1
    <2>7. CASE Local(i) < s + o
      <3>1. Before(T, F) /\ ~Before(F, T)
        BY <2>1, <2>2, <2>3, <2>4, <2>7, FirstDecides
      <3> QED BY <2>1, <2>4, <2>5, <2>7, <3>1
    <2> QED BY <2>1, <2>4, <2>6, <2>7
  <1> HIDE DEF read, rows
  <1> QED BY <1>2, <1>3 DEF ReadsFollowLocalTime, Local, read, rows

\* Reads come newest first by local time and a window has the local seconds it
\* names, whatever is in the table and however often the zone changed: text sorts
\* as its first element does, and no two rows have the same text (store.go:129,
\* 164-224).
THEOREM WindowsFollowLocalTime == Spec => []ReadsFollowLocalTime
  <1>1. Init => TableInv
    BY TableStart
  <1>2. TableInv /\ [Next]_vars => TableInv'
    BY TableStep
  <1>3. TableInv => ReadsFollowLocalTime
    BY ReadsFollow
  <1> QED BY <1>1, <1>2, <1>3, PTL DEF Spec

-----------------------------------------------------------------------------
(* Scrolling *)

\* The rows up to "upto" among the first n in the order, and those newer than
\* what we have, are had.
Covers(T, rows, upto, n, have) ==
    /\ \A i \in rows : i <= upto /\ Cardinality({j \in rows : Before(T[i], T[j])}) < n
                         => i \in have
    /\ \A i \in rows, j \in have : i <= upto /\ Before(T[j], T[i]) => i \in have

HasAll(rows, upto, have) == \A i \in rows : i <= upto => i \in have

Texts == [i \in DOMAIN table |-> Text(i)]

Call == [kind : {"load", "more"}, filter : Filters, offset : Nat,
         at : {"sent", "read", "answered"}, rows : Seq(Nat), total : Nat, known : Nat,
         counted : BOOLEAN, alone : BOOLEAN]

Upto(c) == IF c.kind = "load" THEN c.known ELSE since
Have(c) == (IF c.kind = "load" THEN {} ELSE ToSet(shown)) \cup ToSet(c.rows)
End(c)  == c.offset + Len(c.rows)

ScrollType ==
    /\ shown \in Seq(Nat) /\ ToSet(shown) \subseteq DOMAIN table
    /\ total \in Nat \cup {-1} /\ since \in 0 .. Len(table)
    /\ clean \in BOOLEAN /\ counted \in BOOLEAN
    /\ \A c \in calls : c \in Call /\ c.known <= Len(table) /\ ToSet(c.rows) \subseteq DOMAIN table

\* A request alone is the only one, and for more it goes on where the view ends.
AloneInv(c) ==
    /\ c.alone => calls = {c}
    /\ c.kind = "load" => c.offset = 0
    /\ c.kind = "more" => total # -1 /\ (c.alone => c.offset = Len(shown))

\* What the page adds to the view, if it may.
PageInv(c) ==
    (c.alone /\ c.at # "sent" /\ (c.kind = "more" => clean /\ c.filter = series)) =>
        /\ Covers(Texts, Matching(c.filter), Upto(c), End(c), Have(c))
        /\ c.at = "answered" /\ c.counted /\ End(c) >= c.total
             => HasAll(Matching(c.filter), Upto(c), Have(c))

\* There is one request for more at a time.
OneMore(c, d) == c.kind = "more" /\ d.kind = "more" => loading /\ c = d

ViewInv ==
    (clean /\ total # -1) =>
        /\ Covers(Texts, Matching(series), since, Len(shown), ToSet(shown))
        /\ counted /\ Len(shown) >= total => HasAll(Matching(series), since, ToSet(shown))

ScrollInv == /\ TableInv /\ ScrollType /\ ViewInv
             /\ \A c, d \in calls : OneMore(c, d)
             /\ \A c \in calls : AloneInv(c) /\ PageInv(c)

LEMMA TextsAre ==
  /\ DOMAIN Texts = DOMAIN table
  /\ \A i \in DOMAIN table : Texts[i] = Text(i)
  BY DEF Texts

\* Rows that come in take none of what we have.
LEMMA Kept ==
  ASSUME NEW T, NEW U, NEW rows, NEW more, NEW upto, NEW n \in Nat, NEW have,
         rows \subseteq more, IsFiniteSet(more), \A i \in more : i <= upto => i \in rows,
         \A i \in rows \cup have : U[i] = T[i],
         Covers(T, rows, upto, n, have)
  PROVE  Covers(U, more, upto, n, have)
  <1>1. ASSUME NEW i \in more, i <= upto, Cardinality({j \in more : Before(U[i], U[j])}) < n
        PROVE  i \in have
    <2>1. i \in rows
      BY <1>1
    <2> DEFINE A == {j \in rows : Before(T[i], T[j])}
               B == {j \in more : Before(U[i], U[j])}
    <2>2. A \subseteq B
      BY <2>1
    <2>3. IsFiniteSet(B)
      <3>1. B \subseteq more
        OBVIOUS
      <3> HIDE DEF B
      <3> QED BY <3>1, FS_Subset
    <2>4. Cardinality(B) < n
      BY <1>1
    <2> HIDE DEF A, B
    <2>5. /\ IsFiniteSet(A) /\ Cardinality(A) <= Cardinality(B)
          /\ Cardinality(A) \in Nat /\ Cardinality(B) \in Nat
      BY <2>2, <2>3, FS_Subset, FS_CardinalityType
    <2>6. Cardinality(A) < n
      BY <2>4, <2>5
    <2> QED BY <1>1, <2>1, <2>6 DEF Covers, A
  <1>2. ASSUME NEW i \in more, NEW j \in have, i <= upto, Before(U[j], U[i])
        PROVE  i \in have
    <2>1. i \in rows /\ U[i] = T[i] /\ U[j] = T[j]
      BY <1>2
    <2> QED BY <1>2, <2>1 DEF Covers
  <1> QED BY <1>1, <1>2 DEF Covers

\* The page after n rows is the next part of what there is, whole or cut short.
LEMMA Extended ==
  ASSUME TableInv, NEW f, NEW upto, NEW limit \in Nat, NEW n \in Nat, NEW have,
         have \subseteq DOMAIN table, Covers(Texts, Matching(f), upto, n, have)
  PROVE  LET page == Page(Matching(f), limit, n)
         IN  /\ page \in Seq(Nat) /\ ToSet(page) \subseteq DOMAIN table /\ Len(page) \in Nat
             /\ Covers(Texts, Matching(f), upto, n + Len(page), have \cup ToSet(page))
  <1> DEFINE rows == Matching(f)
             page == Page(rows, limit, n)
  <1>1. rows \subseteq DOMAIN table
    BY DEF Matching, Where
  <1> HIDE DEF rows
  <1>2. /\ page \in Seq(rows) /\ Len(page) \in Nat
        /\ \A j \in ToSet(page) : j \in rows /\ Rank(rows, j) < n + Len(page)
        /\ \A i \in rows : n <= Rank(rows, i) /\ Rank(rows, i) < n + Len(page)
                             => i \in ToSet(page)
    BY <1>1, Paged
  <1> HIDE DEF page
  <1>3. \A i \in rows : /\ Rank(rows, i) = Cardinality({j \in rows : Before(Texts[i], Texts[j])})
                        /\ Rank(rows, i) \in Nat
    <2> SUFFICES ASSUME NEW i \in rows
                 PROVE  /\ Rank(rows, i) = Cardinality({j \in rows : Before(Texts[i], Texts[j])})
                        /\ Rank(rows, i) \in Nat
      OBVIOUS
    <2>1. Newer(rows, i) = {j \in rows : Before(Texts[i], Texts[j])}
      BY <1>1, TextsAre DEF Newer
    <2> QED BY <1>1, <2>1, NewerFacts DEF Rank
  <1>4. /\ \A i \in rows : i <= upto /\ Rank(rows, i) < n => i \in have
        /\ \A i \in rows, j \in have : i <= upto /\ Before(Texts[j], Texts[i]) => i \in have
    BY <1>3 DEF Covers, rows
  <1>5. ASSUME NEW i \in rows, i <= upto, Rank(rows, i) < n + Len(page)
        PROVE  i \in have \cup ToSet(page)
    <2>1. Rank(rows, i) \in Nat
      BY <1>3
    <2>2. CASE Rank(rows, i) < n
      BY <1>4, <1>5, <2>2
    <2>3. CASE n <= Rank(rows, i)
      BY <1>2, <1>5, <2>3
    <2> QED BY <2>1, <2>2, <2>3
  <1>6. ASSUME NEW i \in rows, NEW j \in have \cup ToSet(page), i <= upto,
               Before(Texts[j], Texts[i])
        PROVE  i \in have \cup ToSet(page)
    <2>1. CASE j \in have
      BY <1>4, <1>6, <2>1
    <2>2. CASE j \in ToSet(page)
      <3>1. j \in rows /\ Rank(rows, j) < n + Len(page)
        BY <1>2, <2>2
      <3>2. Before(Text(j), Text(i))
        BY <1>1, <1>6, <3>1, TextsAre
      <3>3. Rank(rows, i) < Rank(rows, j)
        BY <1>1, <3>1, <3>2, RankGrows
      <3>4. Rank(rows, i) < n + Len(page)
        <4>1. Rank(rows, i) \in Nat /\ Rank(rows, j) \in Nat
          BY <1>3, <3>1
        <4>a. n + Len(page) \in Nat
          BY <1>2
        <4>2. \A x, y, z \in Nat : x < y /\ y < z => x < z
          OBVIOUS
        <4> QED BY <3>1, <3>3, <4>1, <4>2, <4>a
      <3> QED BY <1>5, <1>6, <3>4
    <2> QED BY <2>1, <2>2
  <1>7. Covers(Texts, rows, upto, n + Len(page), have \cup ToSet(page))
    BY <1>3, <1>5, <1>6 DEF Covers
  <1>8. page \in Seq(Nat) /\ ToSet(page) \subseteq DOMAIN table
    <2>1. rows \subseteq Nat
      BY <1>1, RowType
    <2>2. \A k \in 1 .. Len(page) : page[k] \in Nat
      BY <1>2, <2>1, SeqFacts
    <2>3. DOMAIN page = 1 .. Len(page) /\ page = [k \in 1 .. Len(page) |-> page[k]]
      BY <1>2
    <2>4. page \in Seq(Nat)
      BY <1>2, <2>2, <2>3
    <2> QED BY <1>1, <1>2, <2>4
  <1> QED BY <1>2, <1>7, <1>8 DEF rows, page

\* What is before a place past the end is everything.
LEMMA Reached ==
  ASSUME TableInv, NEW f, NEW upto, NEW n \in Nat, NEW have,
         Covers(Texts, Matching(f), upto, n, have), n >= Cardinality(Matching(f))
  PROVE  HasAll(Matching(f), upto, have)
  <1> DEFINE rows == Matching(f)
  <1>1. rows \subseteq DOMAIN table
    BY DEF Matching, Where
  <1> SUFFICES ASSUME NEW i \in rows, i <= upto PROVE i \in have
    BY DEF HasAll
  <1>2. n >= Cardinality(rows) /\ Covers(Texts, rows, upto, n, have)
    OBVIOUS
  <1> HIDE DEF rows
  <1>3. Newer(rows, i) = {j \in rows : Before(Texts[i], Texts[j])}
    BY <1>1, TextsAre DEF Newer
  <1>4. Rank(rows, i) \in Nat /\ Rank(rows, i) < Cardinality(rows) /\ Cardinality(rows) \in Nat
    BY <1>1, NewerFacts
  <1>5. Cardinality({j \in rows : Before(Texts[i], Texts[j])}) < n
    BY <1>2, <1>3, <1>4 DEF Rank
  <1> QED BY <1>2, <1>5 DEF Covers

\* Without new rows and with the same view, everything stays as it was.
LEMMA TableStays ==
  ASSUME UNCHANGED table
  PROVE  /\ TableInv => TableInv'
         /\ Texts' = Texts
         /\ \A f : Matching(f)' = Matching(f)
         /\ Matching(series)' = Matching(series')
  BY DEF TableInv, Texts, Text, Format, Zone, Matching, Where, Bound

LEMMA ViewStays ==
  ASSUME UNCHANGED <<table, view>>, ViewInv
  PROVE  ViewInv'
  <1>1. Texts' = Texts /\ Matching(series)' = Matching(series)
    BY TableStays DEF view
  <1> QED BY <1>1 DEF ViewInv, view

LEMMA PageStays ==
  ASSUME UNCHANGED <<table, view>>, NEW c, PageInv(c)
  PROVE  PageInv(c)'
  <1>1. Texts' = Texts /\ Matching(c.filter)' = Matching(c.filter)
    BY TableStays
  <1>2. Upto(c)' = Upto(c) /\ Have(c)' = Have(c)
    BY DEF Upto, Have, view
  <1> QED BY <1>1, <1>2 DEF PageInv, view

\* A row comes in.
LEMMA InsertKeeps ==
  ASSUME ScrollInv, NEW u \in Users, NEW a \in Actions, NEW t \in Instants, NEW o \in Offsets,
         Insert(u, a, t, o)
  PROVE  ScrollInv'
  <1>1. TableInv /\ TableInv'
    <2>1. [Next]_vars
      BY DEF Next
    <2> QED BY <2>1, TableStep DEF ScrollInv
  <1>2. /\ UNCHANGED <<shown, total, series, since, clean, counted, loading, calls>>
        /\ table' = Append(table, [user |-> u, action |-> a, time |-> t, offset |-> o])
    BY DEF Insert, view
  <1>3. /\ Len(table) \in Nat /\ DOMAIN table = 1 .. Len(table)
        /\ DOMAIN table' = 1 .. Len(table) + 1 /\ Len(table') = Len(table) + 1
        /\ \A i \in DOMAIN table : table'[i] = table[i]
    BY <1>1, <1>2 DEF TableInv
  <1>4. \A i \in DOMAIN table : Texts'[i] = Texts[i]
    <2> SUFFICES ASSUME NEW i \in DOMAIN table PROVE Texts'[i] = Texts[i]
      OBVIOUS
    <2>1. i \in DOMAIN table' /\ table'[i] = table[i]
      BY <1>3
    <2>2. Text(i)' = Text(i)
      BY <1>2, <2>1 DEF Text, Format, Zone
    <2> QED BY <2>1, <2>2 DEF Texts
  <1> DEFINE Fits(f, row) == /\ f.action \in {All, row.action}
                             /\ f.user # All => <<f.user, row.user>> \in Within
  <1>a. /\ \A f : Matching(f) = {i \in DOMAIN table : Fits(f, table[i])}
        /\ \A f : Matching(f)' = {i \in DOMAIN table' : Fits(f, table'[i])}
        /\ Matching(series)' = {i \in DOMAIN table' : Fits(series, table'[i])}
    BY <1>2 DEF Matching, Where, Open
  <1> HIDE DEF Fits
  <1>5. \A f : /\ Matching(f) \subseteq Matching(f)' /\ Matching(f)' \subseteq DOMAIN table'
               /\ \A i \in Matching(f)' : i <= Len(table) => i \in Matching(f)
    BY <1>3, <1>a
  <1>6. /\ Matching(series) \subseteq Matching(series)' /\ Matching(series)' \subseteq DOMAIN table'
        /\ \A i \in Matching(series)' : i <= Len(table) => i \in Matching(series)
    BY <1>3, <1>a
  <1>7. IsFiniteSet(DOMAIN table')
    BY <1>3, FS_Interval
  <1>8. \A f : Matching(f) \subseteq DOMAIN table
    BY DEF Matching, Where
  <1>9. ScrollType /\ ScrollType'
    <2>1. ScrollType
      BY DEF ScrollInv
    <2>2. DOMAIN table \subseteq DOMAIN table'
      BY <1>3
    <2>3. since' \in 0 .. Len(table')
      BY <1>2, <1>3, <2>1 DEF ScrollType
    <2>4. ASSUME NEW c \in calls' PROVE c.known <= Len(table')
      <3>1. c.known \in Nat /\ c.known <= Len(table)
        BY <1>2, <2>1 DEF ScrollType, Call
      <3> QED BY <1>3, <3>1
    <2> QED BY <1>2, <2>1, <2>2, <2>3, <2>4 DEF ScrollType
  <1>10. ASSUME NEW rows, NEW more, NEW upto \in 0 .. Len(table), rows \subseteq more,
                more \subseteq DOMAIN table', \A i \in more : i <= Len(table) => i \in rows
         PROVE  /\ IsFiniteSet(more) /\ \A i \in more : i <= upto => i \in rows
                /\ \A have : HasAll(rows, upto, have) => HasAll(more, upto, have)
    <2>1. IsFiniteSet(more)
      BY <1>7, <1>10, FS_Subset
    <2>2. \A i \in more : i <= upto => i \in rows
      BY <1>3, <1>10
    <2> QED BY <2>1, <2>2 DEF HasAll
  <1>11. ViewInv'
    <2> SUFFICES ASSUME clean', total' # -1
                 PROVE  /\ Covers(Texts', Matching(series)', since', Len(shown'), ToSet(shown'))
                        /\ counted' /\ Len(shown') >= total'
                             => HasAll(Matching(series)', since', ToSet(shown'))
      BY DEF ViewInv
    <2>1. /\ Covers(Texts, Matching(series), since, Len(shown), ToSet(shown))
          /\ counted /\ Len(shown) >= total => HasAll(Matching(series), since, ToSet(shown))
      BY <1>2 DEF ScrollInv, ViewInv
    <2>2. /\ since \in 0 .. Len(table) /\ ToSet(shown) \subseteq DOMAIN table
          /\ Len(shown) \in Nat /\ Matching(series) \subseteq DOMAIN table
      BY <1>8, <1>9, SeqFacts DEF ScrollType
    <2> DEFINE more == Matching(series)'
    <2>a. Matching(series) \subseteq more
      BY <1>6
    <2>3. /\ IsFiniteSet(more) /\ \A i \in more : i <= since => i \in Matching(series)
          /\ \A have : HasAll(Matching(series), since, have) => HasAll(more, since, have)
      BY <1>6, <1>10, <2>2
    <2>4. \A i \in Matching(series) \cup ToSet(shown) : Texts'[i] = Texts[i]
      BY <1>4, <2>2
    <2> HIDE DEF more
    <2>5. Covers(Texts', more, since, Len(shown), ToSet(shown))
      BY <2>1, <2>2, <2>3, <2>4, <2>a, Kept
    <2> QED BY <1>2, <2>1, <2>3, <2>5 DEF more
  <1>12. ASSUME NEW c \in calls PROVE AloneInv(c)' /\ PageInv(c)'
    <2>0. AloneInv(c) /\ PageInv(c)
      BY DEF ScrollInv
    <2>1. AloneInv(c)'
      BY <1>2, <2>0 DEF AloneInv
    <2> DEFINE more == Matching(c.filter)'
               rows == Matching(c.filter)
    <2>2. Upto(c)' = Upto(c) /\ Have(c)' = Have(c)
      BY <1>2 DEF Upto, Have
    <2>3. /\ Upto(c) \in 0 .. Len(table) /\ Have(c) \subseteq DOMAIN table /\ End(c) \in Nat
      <3>1. c \in Call /\ c.known <= Len(table) /\ ToSet(c.rows) \subseteq DOMAIN table
        BY <1>9 DEF ScrollType
      <3>2. c.known \in Nat /\ c.offset \in Nat /\ c.rows \in Seq(Nat)
        BY <3>1 DEF Call
      <3>3. Len(c.rows) \in Nat
        BY <3>2, SeqFacts
      <3>4. Upto(c) \in 0 .. Len(table)
        BY <1>3, <1>9, <3>1, <3>2 DEF ScrollType, Upto
      <3>5. Have(c) \subseteq DOMAIN table
        BY <1>9, <3>1 DEF ScrollType, Have
      <3> QED BY <3>2, <3>3, <3>4, <3>5 DEF End
    <2> SUFFICES ASSUME c.alone, c.at # "sent", c.kind = "more" => clean /\ c.filter = series
                 PROVE  /\ Covers(Texts', more, Upto(c), End(c), Have(c))
                        /\ c.at = "answered" /\ c.counted /\ End(c) >= c.total
                             => HasAll(more, Upto(c), Have(c))
      BY <1>2, <2>1, <2>2 DEF PageInv, End
    <2>4. /\ Covers(Texts, rows, Upto(c), End(c), Have(c))
          /\ c.at = "answered" /\ c.counted /\ End(c) >= c.total => HasAll(rows, Upto(c), Have(c))
      BY <2>0 DEF PageInv
    <2>5. rows \subseteq more /\ rows \subseteq DOMAIN table
      BY <1>5, <1>8
    <2>6. /\ IsFiniteSet(more) /\ \A i \in more : i <= Upto(c) => i \in rows
          /\ \A have : HasAll(rows, Upto(c), have) => HasAll(more, Upto(c), have)
      BY <1>5, <1>10, <2>3
    <2>7. \A i \in rows \cup Have(c) : Texts'[i] = Texts[i]
      BY <1>4, <2>3, <2>5
    <2> HIDE DEF more, rows
    <2>8. Covers(Texts', more, Upto(c), End(c), Have(c))
      BY <2>3, <2>4, <2>5, <2>6, <2>7, Kept
    <2> QED BY <2>4, <2>6, <2>8
  <1>13. \A c \in calls' : AloneInv(c)' /\ PageInv(c)'
    BY <1>2, <1>12
  <1>14. (\A c, d \in calls : OneMore(c, d))'
    BY <1>2 DEF ScrollInv, OneMore
  <1> QED BY <1>1, <1>9, <1>11, <1>13, <1>14 DEF ScrollInv

\* The server reads a page, or counts.
LEMMA HandlerKeeps ==
  ASSUME ScrollInv, NEW c \in calls, EventsHandler(c)
  PROVE  ScrollInv'
  <1>0. PICK d, limit, ok : /\ calls' = (calls \ {c}) \cup {d} /\ UNCHANGED <<table, view, loading>>
                            /\ limit \in Nat /\ ok \in BOOLEAN
                            /\ \/ c.at = "sent" /\ d = [WithRows(c, limit) EXCEPT !.at = "read"]
                               \/ c.at = "read" /\ d = [WithTotal(c, ok) EXCEPT !.at = "answered"]
    <2>1. CASE \E n \in 0 .. PageSize : Step(c, "sent", [WithRows(c, n) EXCEPT !.at = "read"])
      <3>1. PICK n \in 0 .. PageSize : Step(c, "sent", [WithRows(c, n) EXCEPT !.at = "read"])
        BY <2>1
      <3>2. n \in Nat /\ TRUE \in BOOLEAN
        BY AuditQueryAssumption
      <3> QED BY <3>1, <3>2 DEF Step
    <2>2. CASE \E ok \in BOOLEAN : Step(c, "read", [WithTotal(c, ok) EXCEPT !.at = "answered"])
      <3>1. PICK ok \in BOOLEAN : Step(c, "read", [WithTotal(c, ok) EXCEPT !.at = "answered"])
        BY <2>2
      <3>2. 0 \in Nat
        OBVIOUS
      <3> QED BY <3>1, <3>2 DEF Step
    <2> QED BY <2>1, <2>2 DEF EventsHandler
  <1>1. calls' = (calls \ {c}) \cup {d} /\ UNCHANGED <<table, view>> /\ limit \in Nat /\ ok \in BOOLEAN
    BY <1>0
  <1>2. TableInv /\ ScrollType /\ ViewInv /\ TableInv' /\ ViewInv'
    BY <1>1, TableStays, ViewStays DEF ScrollInv
  <1>3. AloneInv(c) /\ PageInv(c)
    BY DEF ScrollInv
  <1>4. /\ c \in Call /\ c.known <= Len(table) /\ ToSet(c.rows) \subseteq DOMAIN table
        /\ shown \in Seq(Nat) /\ ToSet(shown) \subseteq DOMAIN table /\ Len(shown) \in Nat
        /\ Len(table) \in Nat
    BY <1>2, RowType, SeqFacts DEF ScrollType
  <1> DEFINE f == c.filter
             rows == Matching(c.filter)
             page == Page(rows, limit, c.offset)
             n == Cardinality(rows)
             count == IF ok THEN n ELSE 0
             atRead == [c EXCEPT !.known = Len(table), !.rows = page, !.at = "read"]
             atAnswered == [c EXCEPT !.total = count, !.counted = ok, !.at = "answered"]
  <1>5. rows \subseteq DOMAIN table /\ n \in Nat
    <2>1. rows \subseteq DOMAIN table
      BY DEF Matching, Where
    <2> HIDE DEF rows
    <2>2. IsFiniteSet(rows)
      BY <1>2, <2>1, RowType, FS_Subset
    <2> QED BY <2>1, <2>2, FS_CardinalityType
  <1>6. \/ c.at = "sent" /\ d = atRead
        \/ c.at = "read" /\ d = atAnswered
    BY <1>0 DEF WithRows, WithTotal
  <1>7. ASSUME NEW upto, NEW have, have \subseteq DOMAIN table,
               Covers(Texts, Matching(f), upto, c.offset, have)
        PROVE  Covers(Texts, Matching(f), upto, c.offset + Len(page), have \cup ToSet(page))
    <2>1. c.offset \in Nat
      BY <1>4 DEF Call
    <2> QED BY <1>1, <1>2, <1>7, <2>1, Extended
  <1>8. page \in Seq(Nat) /\ ToSet(page) \subseteq DOMAIN table /\ Len(page) \in Nat
    <2>1. c.offset \in Nat
      BY <1>4 DEF Call
    <2>2. Covers(Texts, Matching(f), 0, c.offset, DOMAIN table)
      BY <1>5 DEF Covers
    <2> QED BY <1>1, <1>2, <2>1, <2>2, Extended
  <1>9. ASSUME NEW upto, NEW have, Covers(Texts, Matching(f), upto, End(c), have), End(c) >= n
        PROVE  HasAll(Matching(f), upto, have)
    <2>1. End(c) \in Nat
      BY <1>4, SeqFacts DEF Call, End
    <2> QED BY <1>2, <1>9, <2>1, Reached
  <1>a. count \in Nat /\ (ok => count = n)
    BY <1>5
  <1> HIDE DEF page, n, rows, count
  <1>10. /\ d \in Call /\ d.known <= Len(table) /\ ToSet(d.rows) \subseteq DOMAIN table
         /\ d.kind = c.kind /\ d.alone = c.alone /\ d.filter = c.filter /\ d.offset = c.offset
    <2>1. CASE c.at = "sent" /\ d = atRead
      <3>1. /\ c.kind \in {"load", "more"} /\ c.filter \in Filters /\ c.offset \in Nat
            /\ c.total \in Nat /\ c.counted \in BOOLEAN /\ c.alone \in BOOLEAN
        BY <1>4 DEF Call
      <3>2. d = [kind |-> c.kind, filter |-> c.filter, offset |-> c.offset, at |-> "read",
                 rows |-> page, total |-> c.total, known |-> Len(table), counted |-> c.counted,
                 alone |-> c.alone]
        BY <1>4, <2>1 DEF Call
      <3>3. d \in Call
        BY <1>4, <1>8, <3>1, <3>2 DEF Call
      <3>4. d.known = Len(table) /\ d.rows = page
        BY <3>2
      <3>5. d.kind = c.kind /\ d.alone = c.alone /\ d.filter = c.filter /\ d.offset = c.offset
        BY <3>2
      <3> QED BY <1>4, <1>8, <3>3, <3>4, <3>5
    <2>2. CASE c.at = "read" /\ d = atAnswered
      BY <1>1, <1>4, <1>a, <2>2 DEF Call
    <2> QED BY <1>6, <2>1, <2>2
  <1>11. ScrollType'
    BY <1>1, <1>2, <1>10 DEF ScrollType, view
  <1>12. AloneInv(d)'
    BY <1>1, <1>3, <1>10 DEF AloneInv, view
  <1>13. PageInv(d)'
    <2> SUFFICES ASSUME c.alone, c.kind = "more" => clean /\ c.filter = series
                 PROVE  /\ Covers(Texts, Matching(f), Upto(d), End(d), Have(d))
                        /\ d.at = "answered" /\ d.counted /\ End(d) >= d.total
                             => HasAll(Matching(f), Upto(d), Have(d))
      <3>1. Texts' = Texts /\ Matching(d.filter)' = Matching(f)
        BY <1>1, <1>10, TableStays
      <3>2. Upto(d)' = Upto(d) /\ Have(d)' = Have(d)
        BY <1>1 DEF Upto, Have, view
      <3> QED BY <1>1, <1>10, <3>1, <3>2 DEF PageInv, view
    <2>1. CASE c.at = "sent" /\ d = atRead
      <3>1. d.rows = page /\ d.at = "read" /\ d.known = Len(table) /\ End(d) = c.offset + Len(page)
        BY <1>4, <2>1 DEF Call, End
      <3>2. CASE c.kind = "load"
        <4>1. c.offset = 0
          BY <1>3, <3>2 DEF AloneInv
        <4>2. Covers(Texts, Matching(f), Len(table), 0, {})
          <5>1. rows \subseteq DOMAIN table /\ Matching(f) = rows
            BY <1>5 DEF rows
          <5>2. ASSUME NEW i \in rows
                PROVE  ~(Cardinality({j \in rows : Before(Texts[i], Texts[j])}) < 0)
            <6>1. {j \in rows : Before(Texts[i], Texts[j])} = Newer(rows, i)
              BY <5>1, TextsAre DEF Newer
            <6>2. Rank(rows, i) \in Nat
              BY <1>2, <5>1, NewerFacts
            <6> QED BY <6>1, <6>2 DEF Rank
          <5> HIDE DEF f
          <5> QED BY <5>1, <5>2 DEF Covers
        <4>3. Covers(Texts, Matching(f), Len(table), c.offset + Len(page), {} \cup ToSet(page))
          BY <1>7, <4>1, <4>2
        <4>4. Upto(d) = Len(table) /\ Have(d) = {} \cup ToSet(page)
          BY <1>10, <3>1, <3>2 DEF Upto, Have
        <4> QED BY <3>1, <4>3, <4>4
      <3>3. CASE c.kind = "more"
        <4>1. c.offset = Len(shown) /\ total # -1 /\ clean /\ c.filter = series
          BY <1>3, <3>3 DEF AloneInv
        <4>2. Covers(Texts, Matching(f), since, c.offset, ToSet(shown))
          BY <1>2, <4>1 DEF ViewInv
        <4>3. Covers(Texts, Matching(f), since, c.offset + Len(page), ToSet(shown) \cup ToSet(page))
          BY <1>4, <1>7, <4>2
        <4>4. Upto(d) = since /\ Have(d) = ToSet(shown) \cup ToSet(page)
          BY <1>10, <3>1, <3>3 DEF Upto, Have
        <4> QED BY <3>1, <4>3, <4>4
      <3> QED BY <1>4, <3>2, <3>3 DEF Call
    <2>2. CASE c.at = "read" /\ d = atAnswered
      <3>1. /\ Upto(d) = Upto(c) /\ Have(d) = Have(c) /\ End(d) = End(c)
            /\ d.total = count /\ d.counted = ok /\ d.at = "answered"
        BY <1>4, <2>2 DEF Call, Upto, Have, End
      <3>2. Covers(Texts, Matching(f), Upto(c), End(c), Have(c))
        BY <1>3, <2>2 DEF PageInv
      <3> QED BY <1>9, <1>a, <3>1, <3>2
    <2> QED BY <1>6, <2>1, <2>2
  <1>14. ASSUME NEW e \in calls \ {c} PROVE AloneInv(e)' /\ PageInv(e)'
    <2>1. AloneInv(e) /\ PageInv(e)
      BY DEF ScrollInv
    <2>2. ~e.alone
      BY <2>1 DEF AloneInv
    <2> QED BY <1>1, <2>1, <2>2 DEF AloneInv, PageInv, view
  <1>15. (\A b, e \in calls : OneMore(b, e))'
    <2> SUFFICES ASSUME NEW b \in calls', NEW e \in calls', b.kind = "more", e.kind = "more"
                 PROVE  loading' /\ b = e
      BY DEF OneMore
    <2>1. \A x, y \in calls : x.kind = "more" /\ y.kind = "more" => loading /\ x = y
      BY DEF ScrollInv, OneMore
    <2>2. b = d \/ (b \in calls /\ b # c)
      BY <1>1
    <2>3. e = d \/ (e \in calls /\ e # c)
      BY <1>1
    <2>4. d.kind = c.kind /\ loading' = loading
      BY <1>0, <1>10
    <2> QED BY <2>1, <2>2, <2>3, <2>4
  <1> QED BY <1>1, <1>2, <1>11, <1>12, <1>13, <1>14, <1>15 DEF ScrollInv

\* The view asks for a page: no other request is alone from now on, and this one
\* is if there is no other.
LEMMA FetchKeeps ==
  ASSUME ScrollInv, UNCHANGED <<table, view>>, NEW kind \in {"load", "more"},
         NEW f \in Filters, NEW offset \in Nat, Fetch(kind, f, offset),
         kind = "load" => offset = 0 /\ loading' = loading,
         kind = "more" => total # -1 /\ offset = Len(shown) /\ ~loading /\ loading'
  PROVE  ScrollInv'
  <1> DEFINE Apart(c) == "load" \notin {kind, c.kind}
             only == \A c \in calls : Apart(c)
  <1>0. PICK e : e = [kind |-> kind, filter |-> f, offset |-> offset, at |-> "sent",
                      rows |-> <<>>, total |-> 0, known |-> 0, counted |-> FALSE,
                      alone |-> only]
    OBVIOUS
  <1>1. calls' = {[c EXCEPT !.alone = @ /\ Apart(c)] : c \in calls} \cup {e}
    BY <1>0 DEF Fetch
  <1>2. TableInv /\ ScrollType /\ TableInv' /\ ViewInv'
    BY TableStays, ViewStays DEF ScrollInv
  <1>a. \A c \in calls : c \in Call /\ ~Apart(c) /\ (kind = "more" => c.kind = "load")
    <2> SUFFICES ASSUME NEW c \in calls
                 PROVE  c \in Call /\ ~Apart(c) /\ (kind = "more" => c.kind = "load")
      OBVIOUS
    <2>1. c \in Call /\ c.kind \in {"load", "more"}
      BY <1>2 DEF ScrollType, Call
    <2>2. kind = "more" => c.kind # "more"
      BY DEF ScrollInv, OneMore
    <2> QED BY <2>1, <2>2
  <1>b. only <=> calls = {}
    BY <1>a
  <1> HIDE DEF only, Apart
  <1>3. e \in Call /\ e.known <= Len(table) /\ ToSet(e.rows) \subseteq DOMAIN table
    <2>1. ToSet(<<>>) = {}
      BY DEF ToSet
    <2>2. Len(table) \in Nat /\ only \in BOOLEAN
      BY <1>2, RowType DEF only
    <2>3. e.known = 0 /\ e.rows = <<>>
      BY <1>0
    <2>4. e \in Call
      BY <1>0, <2>2, EmptySeq DEF Call
    <2> QED BY <2>1, <2>2, <2>3, <2>4
  <1>4. ASSUME NEW c \in calls, NEW d, d = [c EXCEPT !.alone = @ /\ Apart(c)]
        PROVE  /\ d \in Call /\ d.known <= Len(table) /\ ToSet(d.rows) \subseteq DOMAIN table
               /\ ~d.alone /\ d.kind = c.kind /\ d.offset = c.offset
    <2>1. d = [c EXCEPT !.alone = FALSE]
      <3>1. c \in Call /\ (c.alone /\ Apart(c)) = FALSE
        BY <1>a
      <3> QED BY <1>4, <3>1
    <2>2. c \in Call /\ c.known <= Len(table) /\ ToSet(c.rows) \subseteq DOMAIN table
      BY <1>2 DEF ScrollType
    <2> HIDE <1>4
    <2> QED BY <2>1, <2>2 DEF Call
  <1>5. e.kind = kind /\ e.at = "sent" /\ e.offset = offset /\ (e.alone <=> calls = {})
    BY <1>0, <1>b
  <1>c. \A d \in calls' : d = e \/ \E c \in calls : d = [c EXCEPT !.alone = @ /\ Apart(c)]
    BY <1>1
  <1>6. ScrollType'
    <2>1. \A d \in calls' : d \in Call /\ d.known <= Len(table) /\ ToSet(d.rows) \subseteq DOMAIN table
      BY <1>c, <1>3, <1>4
    <2> QED BY <1>2, <2>1 DEF ScrollType, view
  <1>7. AloneInv(e)' /\ PageInv(e)'
    <2>1. e.alone => calls' = {e}
      BY <1>1, <1>5
    <2> QED BY <1>5, <2>1 DEF AloneInv, PageInv, view
  <1>8. ASSUME NEW c \in calls, NEW d, d = [c EXCEPT !.alone = @ /\ Apart(c)]
        PROVE  AloneInv(d)' /\ PageInv(d)'
    <2>1. AloneInv(c)
      BY DEF ScrollInv
    <2>2. ~d.alone /\ d.kind = c.kind /\ d.offset = c.offset
      BY <1>4, <1>8
    <2> HIDE <1>8
    <2> QED BY <2>1, <2>2 DEF AloneInv, PageInv, view
  <1>9. ASSUME NEW b \in calls', NEW d \in calls', b.kind = "more", d.kind = "more"
        PROVE  loading' /\ b = d
    <2>1. \A x, y \in calls : x.kind = "more" /\ y.kind = "more" => loading /\ x = y
      BY DEF ScrollInv, OneMore
    <2>2. CASE kind = "more"
      <3>1. b = e /\ d = e
        BY <1>a, <1>c, <1>4, <1>9, <2>2
      <3> QED BY <2>2, <3>1
    <2>3. CASE kind = "load"
      <3>1. b # e /\ d # e
        BY <1>5, <1>9, <2>3
      <3>2. PICK x \in calls : b = [x EXCEPT !.alone = @ /\ Apart(x)]
        BY <1>c, <3>1
      <3>3. PICK y \in calls : d = [y EXCEPT !.alone = @ /\ Apart(y)]
        BY <1>c, <3>1
      <3>4. x.kind = "more" /\ y.kind = "more"
        BY <1>4, <1>9, <3>2, <3>3
      <3>5. x = y /\ loading
        BY <2>1, <3>4
      <3> QED BY <2>3, <3>2, <3>3, <3>5
    <2> QED BY <2>2, <2>3
  <1>10. (\A b, d \in calls : OneMore(b, d))'
    BY <1>9 DEF OneMore
  <1>11. \A d \in calls' : AloneInv(d)' /\ PageInv(d)'
    BY <1>c, <1>7, <1>8
  <1> QED BY <1>2, <1>6, <1>10, <1>11 DEF ScrollInv

\* A request goes, without a trace on those left: none of them is alone.
LEMMA OthersStay ==
  ASSUME ScrollInv, NEW c \in calls, calls' = calls \ {c}, total' # -1,
         (loading' = loading) \/ c.kind = "more"
  PROVE  /\ \A e \in calls' : AloneInv(e)' /\ PageInv(e)'
         /\ (\A e, g \in calls : OneMore(e, g))'
  <1>1. ASSUME NEW e \in calls' PROVE AloneInv(e)' /\ PageInv(e)'
    <2>1. AloneInv(e) /\ e # c /\ e \in calls
      BY DEF ScrollInv
    <2>2. ~e.alone
      BY <2>1 DEF AloneInv
    <2> QED BY <2>1, <2>2 DEF AloneInv, PageInv
  <1>2. ASSUME NEW e \in calls', NEW g \in calls', e.kind = "more", g.kind = "more"
        PROVE  loading' /\ e = g
    <2>1. \A x, y \in calls : x.kind = "more" /\ y.kind = "more" => loading /\ x = y
      BY DEF ScrollInv, OneMore
    <2>2. e \in calls /\ g \in calls /\ e # c
      OBVIOUS
    <2>3. c.kind # "more"
      BY <1>2, <2>1, <2>2
    <2> QED BY <1>2, <2>1, <2>2, <2>3
  <1>3. (\A e, g \in calls : OneMore(e, g))'
    BY <1>2 DEF OneMore
  <1> QED BY <1>1, <1>3

\* A request fails.
LEMMA FailedKeeps ==
  ASSUME ScrollInv, NEW c \in calls, Failed(c)
  PROVE  ScrollInv'
  <1>1. /\ calls' = calls \ {c} /\ UNCHANGED <<table, view>>
        /\ loading' = (loading /\ c.kind # "more")
    BY DEF Failed
  <1>2. TableInv' /\ ViewInv'
    BY <1>1, TableStays, ViewStays DEF ScrollInv
  <1>3. ScrollType'
    BY <1>1 DEF ScrollInv, ScrollType, view
  <1>4. \A e \in calls' : AloneInv(e)' /\ PageInv(e)'
    <2> SUFFICES ASSUME NEW e \in calls' PROVE AloneInv(e)' /\ PageInv(e)'
      OBVIOUS
    <2>1. AloneInv(e) /\ e # c /\ e \in calls
      BY <1>1 DEF ScrollInv
    <2>2. ~e.alone
      BY <2>1 DEF AloneInv
    <2> QED BY <1>1, <2>1, <2>2 DEF AloneInv, PageInv, view
  <1>5. ASSUME NEW e \in calls', NEW g \in calls', e.kind = "more", g.kind = "more"
        PROVE  loading' /\ e = g
    <2>1. \A x, y \in calls : x.kind = "more" /\ y.kind = "more" => loading /\ x = y
      BY DEF ScrollInv, OneMore
    <2>2. e \in calls /\ g \in calls /\ e # c
      BY <1>1
    <2>3. c.kind # "more"
      BY <1>5, <2>1, <2>2
    <2> QED BY <1>1, <1>5, <2>1, <2>2, <2>3
  <1>6. (\A e, g \in calls : OneMore(e, g))'
    BY <1>5 DEF OneMore
  <1> QED BY <1>2, <1>3, <1>4, <1>6 DEF ScrollInv

\* The first page is shown.
LEMMA LoadedKeeps ==
  ASSUME ScrollInv, NEW c \in calls, Loaded(c)
  PROVE  ScrollInv'
  <1>1. /\ c.kind = "load" /\ c.at = "answered" /\ calls' = calls \ {c}
        /\ shown' = c.rows /\ total' = c.total /\ series' = c.filter /\ since' = c.known
        /\ clean' = c.alone /\ counted' = c.counted /\ UNCHANGED <<table, loading>>
    BY DEF Loaded
  <1>2. ScrollType /\ AloneInv(c) /\ PageInv(c) /\ TableInv'
    BY <1>1, TableStays DEF ScrollInv
  <1>3. /\ c \in Call /\ c.known <= Len(table) /\ ToSet(c.rows) \subseteq DOMAIN table
        /\ c.total \in Nat /\ c.known \in Nat /\ c.alone \in BOOLEAN /\ c.counted \in BOOLEAN
        /\ c.rows \in Seq(Nat) /\ Len(c.rows) \in Nat /\ c.offset = 0
    <2>1. c \in Call /\ c.known <= Len(table) /\ ToSet(c.rows) \subseteq DOMAIN table
      BY <1>2 DEF ScrollType
    <2>2. /\ c.total \in Nat /\ c.known \in Nat /\ c.alone \in BOOLEAN /\ c.counted \in BOOLEAN
          /\ c.rows \in Seq(Nat)
      BY <2>1 DEF Call
    <2> QED BY <1>1, <1>2, <2>1, <2>2, SeqFacts DEF AloneInv
  <1>4. ScrollType'
    <2>1. c.known \in 0 .. Len(table)
      BY <1>3, RowType DEF ScrollInv
    <2> QED BY <1>1, <1>2, <1>3, <2>1 DEF ScrollType
  <1>5. ViewInv'
    <2>1. Texts' = Texts /\ Matching(series)' = Matching(c.filter)
      BY <1>1, TableStays
    <2>2. End(c) = Len(c.rows) /\ Have(c) = ToSet(c.rows) /\ Upto(c) = c.known
      BY <1>1, <1>3 DEF End, Have, Upto
    <2>3. c.alone =>
            /\ Covers(Texts, Matching(c.filter), c.known, Len(c.rows), ToSet(c.rows))
            /\ c.counted /\ Len(c.rows) >= c.total
                 => HasAll(Matching(c.filter), c.known, ToSet(c.rows))
      BY <1>1, <1>2, <2>2 DEF PageInv
    <2> QED BY <1>1, <2>1, <2>3 DEF ViewInv
  <1>6. total' # -1
    BY <1>1, <1>3
  <1> QED BY <1>1, <1>2, <1>4, <1>5, <1>6, OthersStay DEF ScrollInv

\* The next page is shown after the rest.
LEMMA LoadedMoreKeeps ==
  ASSUME ScrollInv, NEW c \in calls, LoadedMore(c)
  PROVE  ScrollInv'
  <1>1. /\ c.kind = "more" /\ c.at = "answered" /\ calls' = calls \ {c}
        /\ shown' = shown \o c.rows /\ total' = c.total /\ counted' = c.counted
        /\ clean' = (clean /\ c.alone /\ c.filter = series)
        /\ UNCHANGED <<table, series, since>>
    BY DEF LoadedMore
  <1>2. ScrollType /\ AloneInv(c) /\ PageInv(c) /\ TableInv'
    BY <1>1, TableStays DEF ScrollInv
  <1>3. /\ c \in Call /\ ToSet(c.rows) \subseteq DOMAIN table /\ c.total \in Nat
        /\ c.rows \in Seq(Nat) /\ c.counted \in BOOLEAN /\ shown \in Seq(Nat) /\ ToSet(shown) \subseteq DOMAIN table
    BY <1>2 DEF ScrollType, Call
  <1> DEFINE both == shown \o c.rows
  <1>4. /\ both \in Seq(Nat) /\ Len(both) = Len(shown) + Len(c.rows)
        /\ ToSet(both) = ToSet(shown) \cup ToSet(c.rows)
    <2>1. /\ both \in Seq(Nat) /\ Len(both) = Len(shown) + Len(c.rows)
          /\ \A i \in 1 .. Len(shown) + Len(c.rows) :
               both[i] = IF i <= Len(shown) THEN shown[i] ELSE c.rows[i - Len(shown)]
      BY <1>3, ConcatProperties
    <2>2. /\ Len(shown) \in Nat /\ DOMAIN shown = 1 .. Len(shown)
          /\ Len(c.rows) \in Nat /\ DOMAIN c.rows = 1 .. Len(c.rows)
          /\ DOMAIN both = 1 .. Len(both)
      BY <1>3, <2>1, SeqFacts
    <2> HIDE DEF both
    <2>3. ASSUME NEW x \in ToSet(both) PROVE x \in ToSet(shown) \cup ToSet(c.rows)
      <3>1. PICK i \in DOMAIN both : x = both[i]
        BY DEF ToSet
      <3>2. CASE i <= Len(shown)
        <4>1. i \in DOMAIN shown /\ x = shown[i]
          BY <2>1, <2>2, <3>1, <3>2
        <4> QED BY <4>1 DEF ToSet
      <3>3. CASE ~(i <= Len(shown))
        <4>1. i - Len(shown) \in DOMAIN c.rows /\ x = c.rows[i - Len(shown)]
          BY <2>1, <2>2, <3>1, <3>3
        <4> QED BY <4>1 DEF ToSet
      <3> QED BY <3>2, <3>3
    <2>4. ASSUME NEW x \in ToSet(shown) PROVE x \in ToSet(both)
      <3>1. PICK i \in DOMAIN shown : x = shown[i]
        BY DEF ToSet
      <3>2. i \in DOMAIN both /\ x = both[i]
        BY <2>1, <2>2, <3>1
      <3> QED BY <3>2 DEF ToSet
    <2>5. ASSUME NEW x \in ToSet(c.rows) PROVE x \in ToSet(both)
      <3>1. PICK i \in DOMAIN c.rows : x = c.rows[i]
        BY DEF ToSet
      <3> DEFINE k == i + Len(shown)
      <3>2. k \in DOMAIN both /\ ~(k <= Len(shown)) /\ k - Len(shown) = i
        BY <2>1, <2>2, <3>1
      <3>3. both[k] = x
        <4> HIDE DEF k
        <4> QED BY <2>1, <2>2, <3>1, <3>2
      <3> HIDE DEF k
      <3> QED BY <3>2, <3>3 DEF ToSet
    <2> QED BY <2>1, <2>3, <2>4, <2>5
  <1> HIDE DEF both
  <1>5. shown' = both
    BY <1>1 DEF both
  <1>6. ScrollType'
    BY <1>1, <1>2, <1>3, <1>4, <1>5 DEF ScrollType
  <1>7. ViewInv'
    <2> SUFFICES ASSUME clean, c.alone, c.filter = series
                 PROVE  /\ Covers(Texts, Matching(series), since, Len(both), ToSet(both))
                        /\ c.counted /\ Len(both) >= c.total
                             => HasAll(Matching(series), since, ToSet(both))
      <3>1. Texts' = Texts /\ Matching(series)' = Matching(series)
        BY <1>1, TableStays
      <3> QED BY <1>1, <1>5, <3>1 DEF ViewInv
    <2>1. c.offset = Len(shown)
      BY <1>1, <1>2 DEF AloneInv
    <2>2. End(c) = Len(both) /\ Have(c) = ToSet(both) /\ Upto(c) = since
      BY <1>1, <1>4, <2>1 DEF End, Have, Upto
    <2>3. /\ Covers(Texts, Matching(c.filter), Upto(c), End(c), Have(c))
          /\ c.counted /\ End(c) >= c.total => HasAll(Matching(c.filter), Upto(c), Have(c))
      BY <1>1, <1>2 DEF PageInv
    <2> QED BY <2>2, <2>3
  <1>8. total' # -1
    BY <1>1, <1>3
  <1> QED BY <1>1, <1>2, <1>6, <1>7, <1>8, OthersStay DEF ScrollInv

LEMMA ScrollStart ==
  Init => ScrollInv
  <1> SUFFICES ASSUME Init PROVE ScrollInv
    OBVIOUS
  <1>1. TableInv /\ Len(table) \in Nat
    BY TableStart, RowType
  <1>2. ToSet(<<>>) = {}
    BY DEF ToSet
  <1>3. ScrollType
    BY <1>1, <1>2, EmptySeq DEF Init, ScrollType
  <1>4. ViewInv
    BY DEF Init, ViewInv
  <1> QED BY <1>1, <1>3, <1>4 DEF Init, ScrollInv

LEMMA ScrollStep ==
  ASSUME ScrollInv, [Next]_vars
  PROVE  ScrollInv'
  <1>1. CASE \E u \in Users, a \in Actions, t \in Instants, o \in Offsets : Insert(u, a, t, o)
    BY <1>1, InsertKeeps
  <1>2. CASE \E c \in calls : EventsHandler(c)
    BY <1>2, HandlerKeeps
  <1>3. ASSUME NEW f \in Filters, LoadAuditData(f) PROVE ScrollInv'
    <2>1. Fetch("load", f, 0) /\ UNCHANGED <<table, view>> /\ loading' = loading
      BY <1>3 DEF LoadAuditData
    <2> QED BY <2>1, FetchKeeps
  <1>4. ASSUME NEW f \in Filters, LoadMoreAudit(f) PROVE ScrollInv'
    <2>1. /\ Fetch("more", f, Len(shown)) /\ UNCHANGED <<table, view>> /\ total # -1
          /\ ~loading /\ loading'
      BY <1>4 DEF LoadMoreAudit
    <2>2. Len(shown) \in Nat
      BY SeqFacts DEF ScrollInv, ScrollType
    <2> QED BY <2>1, <2>2, FetchKeeps
  <1>5. CASE \E c \in calls : Loaded(c)
    BY <1>5, LoadedKeeps
  <1>6. CASE \E c \in calls : LoadedMore(c)
    BY <1>6, LoadedMoreKeeps
  <1>7. CASE \E c \in calls : Failed(c)
    BY <1>7, FailedKeeps
  <1>8. CASE UNCHANGED vars
    <2>1. UNCHANGED <<table, view, loading>> /\ calls' = calls
      BY <1>8 DEF vars
    <2>2. TableInv' /\ ViewInv'
      BY <2>1, TableStays, ViewStays DEF ScrollInv
    <2>3. ScrollType'
      BY <2>1 DEF ScrollInv, ScrollType, view
    <2>4. ASSUME NEW c \in calls PROVE AloneInv(c)' /\ PageInv(c)'
      <3>1. AloneInv(c) /\ PageInv(c)
        BY DEF ScrollInv
      <3> QED BY <2>1, <3>1, PageStays DEF AloneInv, view
    <2>5. (\A c, d \in calls : OneMore(c, d))'
      BY <2>1 DEF ScrollInv, OneMore
    <2> QED BY <2>1, <2>2, <2>3, <2>4, <2>5 DEF ScrollInv
  <1> QED BY <1>1, <1>2, <1>3, <1>4, <1>5, <1>6, <1>7, <1>8 DEF Next, LogView

\* As long as no load overlaps with another request and the filter stays, the
\* view has every row older than none it shows, and at what it takes to be the
\* end, unless a failed count misled it, it has all that were there: however many
\* rows come in meanwhile, wherever they sort, whichever size a page has and
\* however many pages an error cut short (store.go:188-232, app.js:928-963).
THEOREM ScrollingIsComplete == Spec => []ScrollingMissesNothing
  <1>1. Init => ScrollInv
    BY ScrollStart
  <1>2. ScrollInv /\ [Next]_vars => ScrollInv'
    BY ScrollStep
  <1>3. ScrollInv => ScrollingMissesNothing
    <2> SUFFICES ASSUME ScrollInv, clean, total # -1
                 PROVE  /\ \A i \in Due, j \in ToSet(shown) :
                             Before(Text(j), Text(i)) => i \in ToSet(shown)
                        /\ counted /\ Len(shown) >= total => Due \subseteq ToSet(shown)
      BY DEF ScrollingMissesNothing
    <2>1. /\ Covers(Texts, Matching(series), since, Len(shown), ToSet(shown))
          /\ counted /\ Len(shown) >= total => HasAll(Matching(series), since, ToSet(shown))
      BY DEF ScrollInv, ViewInv
    <2>2. Matching(series) \subseteq DOMAIN table /\ ToSet(shown) \subseteq DOMAIN table
      BY DEF Matching, Where, ScrollInv, ScrollType
    <2>3. /\ \A i \in Matching(series) : i <= since <=> i \in Due
          /\ Due \subseteq Matching(series)
      BY DEF Due
    <2>4. ASSUME NEW i \in Due, NEW j \in ToSet(shown), Before(Text(j), Text(i))
          PROVE  i \in ToSet(shown)
      <3>1. Before(Texts[j], Texts[i])
        BY <2>2, <2>3, <2>4, TextsAre
      <3> QED BY <2>1, <2>3, <3>1 DEF Covers
    <2>5. counted /\ Len(shown) >= total => Due \subseteq ToSet(shown)
      BY <2>1, <2>3 DEF HasAll
    <2> QED BY <2>4, <2>5
  <1> QED BY <1>1, <1>2, <1>3, PTL DEF Spec
===============================================================================
