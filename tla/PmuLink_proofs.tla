--------------------------- MODULE PmuLink_proofs ---------------------------
(***************************************************************************)
(* Theorems about PmuLink and the codec, for any configurations, frames,   *)
(* texts and buffers.  The folds of the codec are recursive functions over *)
(* sets: what they compute is proved here by induction, in the form that    *)
(* every set of natural numbers has a least element.                       *)
(***************************************************************************)
EXTENDS PmuLink, WellFoundedInduction, TLAPS

-----------------------------------------------------------------------------
(* Induction and folds                                                     *)

\* A set with 0 and every successor of its members holds every natural number.
LEMMA Induction ==
  ASSUME NEW S, 0 \in S, \A n \in Nat : n \in S => n + 1 \in S
  PROVE  \A n \in Nat : n \in S
<1> DEFINE T == Nat \ S
           R == OpToRel(<, Nat)
<1>1. IsWellFoundedOn(R, Nat)
  BY NatLessThanWellFounded
<1>2. SUFFICES ASSUME T # {} PROVE FALSE
  OBVIOUS
<1>3. PICK n \in T : \A m \in T : ~(<<m, n>> \in R)
  <2> HIDE DEF R
  <2> QED  BY <1>1, <1>2, WFMin
<1>4. n \in Nat \ {0} /\ n - 1 \in Nat
  OBVIOUS
<1>5. n - 1 \in T
  BY <1>4
<1>6. <<n - 1, n>> \in R
  BY <1>4 DEF OpToRel
<1> QED  BY <1>3, <1>5, <1>6

\* The maximum of a set of indices, with which a fold begins
LEMMA MaxUpTo ==
  ASSUME NEW n \in Nat, NEW d \in SUBSET (1..(n + 1)), n + 1 \in d
  PROVE  Max(d) = n + 1
<1>1. \A y \in d : n + 1 >= y
  OBVIOUS
<1>2. \A x \in d : (\A y \in d : x >= y) => x = n + 1
  OBVIOUS
<1> QED  BY <1>1, <1>2 DEF Max

\* A set of numbers that is bounded and not empty has a maximum.
LEMMA MaxBelow ==
  ASSUME NEW n \in Nat, NEW d \in SUBSET (1..n), d # {}
  PROVE  Max(d) \in d /\ \A y \in d : Max(d) >= y
<1> DEFINE Has(m) == \A e \in SUBSET (1..m) : e # {} => \E x \in e : \A y \in e : x >= y
           S == {m \in Nat : Has(m)}
<1>1. 0 \in S
  <2>1. \A e \in SUBSET (1..0) : e = {}
    OBVIOUS
  <2> QED  BY <2>1
<1>2. ASSUME NEW m \in Nat, m \in S PROVE m + 1 \in S
  <2>1. ASSUME NEW e \in SUBSET (1..(m + 1)), e # {}
        PROVE  \E x \in e : \A y \in e : x >= y
    <3>1. CASE m + 1 \in e
      BY <3>1
    <3>2. CASE m + 1 \notin e
      <4>1. e \in SUBSET (1..m)
        BY <3>2
      <4> QED  BY <4>1, <1>2, <2>1
    <3> QED  BY <3>1, <3>2
  <2> QED  BY <2>1
<1>3. n \in S
  <2> HIDE DEF S
  <2> QED  BY <1>1, <1>2, Induction
<1> QED  BY <1>3 DEF Max

\* A fold over the first n elements of a sequence
IsIter(h, Op, V, b, s, n) ==
  /\ h \in [SUBSET (1..n) -> V]
  /\ \A d \in SUBSET (1..n) :
       h[d] = IF d = {} THEN b ELSE Op[<<h[d \ {Max(d)}], s[Max(d)]>>]

\* There is a function that a fold iterates.
LEMMA IterExists ==
  ASSUME NEW V, NEW E, NEW Op \in [V \X E -> V], NEW b \in V, NEW s \in Seq(E)
  PROVE  \E h : IsIter(h, Op, V, b, s, Len(s))
<1> DEFINE S == {n \in Nat : n <= Len(s) => \E h : IsIter(h, Op, V, b, s, n)}
<1>1. 0 \in S
  <2> DEFINE h == [d \in SUBSET (1..0) |-> b]
  <2>1. \A d \in SUBSET (1..0) : d = {}
    OBVIOUS
  <2>2. IsIter(h, Op, V, b, s, 0)
    BY <2>1 DEF IsIter
  <2> QED  BY <2>2
<1>2. ASSUME NEW n \in Nat, n \in S PROVE n + 1 \in S
  <2>1. SUFFICES ASSUME n + 1 <= Len(s) PROVE \E h : IsIter(h, Op, V, b, s, n + 1)
    OBVIOUS
  <2>2. PICK g : IsIter(g, Op, V, b, s, n)
    BY <1>2, <2>1
  <2> DEFINE h == [d \in SUBSET (1..(n + 1)) |->
                    IF n + 1 \in d THEN Op[<<g[d \ {n + 1}], s[n + 1]>>] ELSE g[d]]
  <2>3. ASSUME NEW d \in SUBSET (1..(n + 1)), n + 1 \in d
        PROVE  /\ h[d] \in V
               /\ h[d] = Op[<<h[d \ {Max(d)}], s[Max(d)]>>]
    <3>1. d \ {n + 1} \in SUBSET (1..n) /\ d \ {n + 1} \in SUBSET (1..(n + 1))
      OBVIOUS
    <3>2. Max(d) = n + 1
      BY <2>3, MaxUpTo
    <3>3. h[d \ {n + 1}] = g[d \ {n + 1}]
      BY <3>1
    <3>4. g[d \ {n + 1}] \in V /\ s[n + 1] \in E
      BY <2>1, <2>2, <3>1 DEF IsIter
    <3> QED  BY <2>3, <3>2, <3>3, <3>4
  <2>4. ASSUME NEW d \in SUBSET (1..(n + 1)), n + 1 \notin d
        PROVE  /\ h[d] \in V
               /\ h[d] = IF d = {} THEN b ELSE Op[<<h[d \ {Max(d)}], s[Max(d)]>>]
    <3>1. d \in SUBSET (1..n)
      BY <2>4
    <3>2. h[d] = g[d] /\ g[d] \in V
      BY <2>2, <2>4, <3>1 DEF IsIter
    <3>3. ASSUME d # {} PROVE h[d \ {Max(d)}] = g[d \ {Max(d)}]
      BY <2>4
    <3> QED  BY <2>2, <3>1, <3>2, <3>3 DEF IsIter
  <2>5. IsIter(h, Op, V, b, s, n + 1)
    <3>1. ASSUME NEW d \in SUBSET (1..(n + 1)) 
          PROVE /\ h[d] \in V
                /\ h[d] = IF d = {} THEN b ELSE Op[<<h[d \ {Max(d)}], s[Max(d)]>>]
      BY <2>3, <2>4
    <3>2. h \in [SUBSET (1..(n + 1)) -> V]
      BY <3>1
    <3> QED  BY <3>1, <3>2 DEF IsIter
  <2> QED  BY <2>5
<1>3. \A n \in Nat : n \in S
  <2> HIDE DEF S
  <2> QED  BY <1>1, <1>2, Induction
<1>4. Len(s) \in Nat
  OBVIOUS
<1> QED  BY <1>3, <1>4

\* The values a fold goes through
IsTrace(g, Op, V, b, s) ==
  /\ g \in [0..Len(s) -> V]
  /\ g[0] = b
  /\ \A k \in 0..(Len(s) - 1) : g[k + 1] = Op[<<g[k], s[k + 1]>>]

Begins(s, t) ==
  Len(s) \in Nat /\ Len(t) \in Nat /\ Len(s) <= Len(t) /\ \A k \in 1..Len(s) : s[k] = t[k]

Along(g, h, s) == \A n \in 0..Len(s) : g[n] = h[n]

\* Folds go through the same values as long as the sequences are the same.
LEMMA OneTrace ==
  ASSUME NEW Op, NEW V, NEW b, NEW s, NEW t, NEW g, NEW h,
         IsTrace(g, Op, V, b, s), IsTrace(h, Op, V, b, t), Begins(s, t)
  PROVE  Along(g, h, s)
<1> SUFFICES ASSUME NEW n \in 0..Len(s) PROVE g[n] = h[n]
  BY DEF Along
<1> DEFINE S == {k \in Nat : k <= n => g[k] = h[k]}
<1>1. 0 \in S
  BY DEF IsTrace
<1>2. ASSUME NEW k \in Nat, k \in S PROVE k + 1 \in S
  <2>1. SUFFICES ASSUME k + 1 <= n PROVE g[k + 1] = h[k + 1]
    OBVIOUS
  <2>2. k \in 0..(Len(s) - 1) /\ k \in 0..(Len(t) - 1) /\ k + 1 \in 1..Len(s)
    BY <2>1 DEF Begins
  <2>3. g[k] = h[k] /\ s[k + 1] = t[k + 1]
    BY <1>2, <2>1, <2>2 DEF Begins
  <2> QED  BY <2>2, <2>3 DEF IsTrace
<1>3. \A k \in Nat : k \in S
  <2> HIDE DEF S
  <2> QED  BY <1>1, <1>2, Induction
<1> QED  BY <1>3

SameSteps(f, h, N) ==
  /\ f[{}] = h[{}]
  /\ \A d \in SUBSET (1..N) :
       d # {} /\ f[d \ {Max(d)}] = h[d \ {Max(d)}] => f[d] = h[d]

Agree(f, h, N) == \A d \in SUBSET (1..N) : f[d] = h[d]

\* Functions that take the same steps are the same.
LEMMA SameIter ==
  ASSUME NEW N \in Nat, NEW f, NEW h, SameSteps(f, h, N)
  PROVE  Agree(f, h, N)
<1> DEFINE S == {n \in Nat : n <= N => \A d \in SUBSET (1..n) : f[d] = h[d]}
<1>1. 0 \in S
  <2>1. \A d \in SUBSET (1..0) : d = {}
    OBVIOUS
  <2> QED  BY <2>1 DEF SameSteps
<1>2. ASSUME NEW n \in Nat, n \in S PROVE n + 1 \in S
  <2>1. SUFFICES ASSUME n + 1 <= N, NEW d \in SUBSET (1..(n + 1)) PROVE f[d] = h[d]
    OBVIOUS
  <2>2. CASE n + 1 \in d
    <3>1. Max(d) = n + 1
      BY <2>2, MaxUpTo
    <3>2. d \ {n + 1} \in SUBSET (1..n) /\ d \in SUBSET (1..N)
      BY <2>1
    <3>3. f[d \ {n + 1}] = h[d \ {n + 1}]
      BY <1>2, <2>1, <3>2
    <3> QED  BY <2>2, <3>1, <3>2, <3>3 DEF SameSteps
  <2>3. CASE n + 1 \notin d
    <3>1. d \in SUBSET (1..n)
      BY <2>3
    <3> QED  BY <1>2, <2>1, <3>1
  <2> QED  BY <2>2, <2>3
<1>3. \A n \in Nat : n \in S
  <2> HIDE DEF S
  <2> QED  BY <1>1, <1>2, Induction
<1> QED  BY <1>3 DEF Agree

\* The values at the initial segments are those that a fold goes through.
LEMMA IterIsTrace ==
  ASSUME NEW Op, NEW V, NEW b, NEW E, NEW s \in Seq(E), NEW h,
         IsIter(h, Op, V, b, s, Len(s))
  PROVE  IsTrace([k \in 0..Len(s) |-> h[1..k]], Op, V, b, s)
<1> DEFINE g == [k \in 0..Len(s) |-> h[1..k]]
<1>1. \A k \in 0..Len(s) : 1..k \in SUBSET (1..Len(s)) /\ g[k] = h[1..k]
  OBVIOUS
<1>2. g \in [0..Len(s) -> V]
  BY <1>1 DEF IsIter
<1>3. g[0] = b
  <2>1. 1..0 = {} /\ 0 \in 0..Len(s)
    OBVIOUS
  <2> QED  BY <1>1, <2>1 DEF IsIter
<1>4. ASSUME NEW k \in 0..(Len(s) - 1)
      PROVE  g[k + 1] = Op[<<g[k], s[k + 1]>>]
  <2>1. k \in Nat /\ k \in 0..Len(s) /\ k + 1 \in 0..Len(s) /\ k + 1 \in 1..(k + 1)
    OBVIOUS
  <2>0. 1..(k + 1) # {} /\ (1..(k + 1)) \ {k + 1} = 1..k
    BY <2>1
  <2>2. Max(1..(k + 1)) = k + 1
    BY <2>1, MaxUpTo
  <2>3. h[1..(k + 1)] = Op[<<h[1..k], s[k + 1]>>]
    BY <1>1, <2>1, <2>0, <2>2 DEF IsIter
  <2> QED  BY <1>1, <2>1, <2>3
<1> QED  BY <1>2, <1>3, <1>4 DEF IsTrace

-----------------------------------------------------------------------------
(* Sums, concatenations and bodies                                        *)

SumF == [p \in Int \X Int |-> p[1] + p[2]]

\* The fold of + exists and goes through the partial sums.
LEMMA SumTrace ==
  ASSUME NEW b \in Int, NEW s \in Seq(Int)
  PROVE  \E g : IsTrace(g, SumF, Int, b, s) /\ FoldLeft(+, b, s) = g[Len(s)]
<1> DEFINE D == SUBSET (1..Len(s))
           iter == CHOOSE f : f = [d \in D |->
                     IF d = {} THEN b ELSE f[d \ {Max(d)}] + s[Max(d)]]
<1>1. PICK h : IsIter(h, SumF, Int, b, s, Len(s))
  <2>1. SumF \in [Int \X Int -> Int]
    BY DEF SumF
  <2> QED  BY <2>1, IterExists
<1>0. Len(s) \in Nat
  OBVIOUS
<1>2. ASSUME NEW d \in D, d # {}
      PROVE  h[d] = h[d \ {Max(d)}] + s[Max(d)]
  <2>1. Max(d) \in d
    BY <1>0, <1>2, MaxBelow
  <2>2. Max(d) \in 1..Len(s) /\ d \ {Max(d)} \in D
    BY <2>1
  <2>3. h[d \ {Max(d)}] \in Int /\ s[Max(d)] \in Int
    BY <1>1, <2>2 DEF IsIter
  <2> QED  BY <1>1, <1>2, <2>3 DEF IsIter, SumF
<1>3. h = [d \in D |-> IF d = {} THEN b ELSE h[d \ {Max(d)}] + s[Max(d)]]
  BY <1>1, <1>2 DEF IsIter
<1>4. iter = [d \in D |-> IF d = {} THEN b ELSE iter[d \ {Max(d)}] + s[Max(d)]]
  BY <1>3
<1>5. FoldLeft(+, b, s) = iter[1..Len(s)]
  <2>1. DOMAIN s = 1..Len(s)
    OBVIOUS
  <2> QED  BY <2>1 DEF FoldLeft, MapThenFoldSet
<1>6. Agree(iter, h, Len(s))
  <2>1. SameSteps(iter, h, Len(s))
    BY <1>2, <1>3, <1>4 DEF SameSteps
  <2> QED  BY <1>0, <2>1, SameIter
<1> DEFINE g == [k \in 0..Len(s) |-> h[1..k]]
<1>7. IsTrace(g, SumF, Int, b, s)
  BY <1>1, IterIsTrace
<1>8. FoldLeft(+, b, s) = g[Len(s)]
  <2>1. 1..Len(s) \in D /\ Len(s) \in 0..Len(s)
    BY <1>0
  <2> HIDE DEF iter
  <2> QED  BY <1>5, <1>6, <2>1 DEF Agree
<1> QED  BY <1>7, <1>8
Total(b, s) == FoldLeft(+, b, s)

\* The sum of an empty sequence, and of one that is longer by an element
LEMMA SumFacts ==
  ASSUME NEW b \in Int, NEW s \in Seq(Int)
  PROVE  /\ Total(b, s) \in Int
         /\ s = << >> => Total(b, s) = b
         /\ \A x \in Int : Total(b, Append(s, x)) = Total(b, s) + x
<1>0. SumF \in [Int \X Int -> Int] /\ Len(s) \in Nat
  BY DEF SumF
<1>1. PICK g : IsTrace(g, SumF, Int, b, s) /\ Total(b, s) = g[Len(s)]
  BY SumTrace DEF Total
<1>2. Total(b, s) \in Int
  <2>1. Len(s) \in 0..Len(s)
    BY <1>0
  <2> QED  BY <1>1, <2>1 DEF IsTrace
<1>3. s = << >> => Total(b, s) = b
  BY <1>1 DEF IsTrace
<1>4. ASSUME NEW x \in Int
      PROVE  Total(b, Append(s, x)) = Total(b, s) + x
  <2> DEFINE t == Append(s, x)
  <2>1. t \in Seq(Int) /\ Len(t) = Len(s) + 1 /\ t[Len(s) + 1] = x
    OBVIOUS
  <2>2. PICK h : IsTrace(h, SumF, Int, b, t) /\ Total(b, t) = h[Len(t)]
    <3> HIDE DEF t
    <3> QED  BY <2>1, SumTrace DEF Total
  <2>3. Begins(s, t)
    BY <1>0, <2>1 DEF Begins
  <2> HIDE DEF t
  <2>4. g[Len(s)] = h[Len(s)]
    <3>1. Along(g, h, s)
      BY <1>1, <2>2, <2>3, OneTrace
    <3> QED  BY <1>0, <3>1 DEF Along
  <2>5. Len(s) \in 0..(Len(t) - 1)
    BY <1>0, <2>1
  <2>6. h[Len(s) + 1] = SumF[<<h[Len(s)], t[Len(s) + 1]>>]
    BY <2>2, <2>5 DEF IsTrace
  <2> QED  BY <1>1, <1>2, <2>1, <2>2, <2>4, <2>6 DEF SumF, t
<1> QED  BY <1>2, <1>3, <1>4

ConcatF(E) == [p \in Seq(E) \X Seq(E) |-> p[1] \o p[2]]

\* Likewise for \o
LEMMA ConcatTrace ==
  ASSUME NEW E, NEW s \in Seq(Seq(E))
  PROVE  \E g : IsTrace(g, ConcatF(E), Seq(E), << >>, s) /\ Concat(s) = g[Len(s)]
<1> DEFINE D == SUBSET (1..Len(s))
           iter == CHOOSE f : f = [d \in D |->
                     IF d = {} THEN << >> ELSE f[d \ {Max(d)}] \o s[Max(d)]]
<1>0. Len(s) \in Nat /\ << >> \in Seq(E)
  OBVIOUS
<1>1. PICK h : IsIter(h, ConcatF(E), Seq(E), << >>, s, Len(s))
  <2>1. ConcatF(E) \in [Seq(E) \X Seq(E) -> Seq(E)]
    BY DEF ConcatF
  <2> QED  BY <1>0, <2>1, IterExists
<1>2. ASSUME NEW d \in D, d # {}
      PROVE  h[d] = h[d \ {Max(d)}] \o s[Max(d)]
  <2>1. Max(d) \in d
    BY <1>0, <1>2, MaxBelow
  <2>2. Max(d) \in 1..Len(s) /\ d \ {Max(d)} \in D
    BY <2>1
  <2>3. h[d \ {Max(d)}] \in Seq(E) /\ s[Max(d)] \in Seq(E)
    BY <1>1, <2>2 DEF IsIter
  <2> QED  BY <1>1, <1>2, <2>3 DEF IsIter, ConcatF
<1>3. h = [d \in D |-> IF d = {} THEN << >> ELSE h[d \ {Max(d)}] \o s[Max(d)]]
  BY <1>1, <1>2, Zenon DEF IsIter
<1>4. iter = [d \in D |-> IF d = {} THEN << >> ELSE iter[d \ {Max(d)}] \o s[Max(d)]]
  BY <1>3, Zenon
<1>5. Concat(s) = iter[1..Len(s)]
  <2>1. DOMAIN s = 1..Len(s)
    OBVIOUS
  <2> QED  BY <2>1 DEF Concat, FoldLeft, MapThenFoldSet
<1>6. Agree(iter, h, Len(s))
  <2>1. SameSteps(iter, h, Len(s))
    BY <1>2, <1>3, <1>4, Zenon DEF SameSteps
  <2> HIDE DEF iter
  <2> QED  BY <1>0, <2>1, SameIter, Zenon
<1> DEFINE g == [k \in 0..Len(s) |-> h[1..k]]
<1>7. IsTrace(g, ConcatF(E), Seq(E), << >>, s)
  BY <1>1, IterIsTrace
<1>8. Concat(s) = g[Len(s)]
  <2>1. 1..Len(s) \in D /\ Len(s) \in 0..Len(s)
    BY <1>0
  <2> HIDE DEF iter
  <2> QED  BY <1>5, <1>6, <2>1 DEF Agree
<1> QED  BY <1>7, <1>8

\* The concatenation of no sequences, and of one more
LEMMA ConcatFacts ==
  ASSUME NEW E, NEW s \in Seq(Seq(E))
  PROVE  /\ Concat(s) \in Seq(E)
         /\ s = << >> => Concat(s) = << >>
         /\ \A x \in Seq(E) : Concat(Append(s, x)) = Concat(s) \o x
<1>0. Len(s) \in Nat
  OBVIOUS
<1>1. PICK g : IsTrace(g, ConcatF(E), Seq(E), << >>, s) /\ Concat(s) = g[Len(s)]
  BY ConcatTrace
<1>2. Concat(s) \in Seq(E)
  <2>1. Len(s) \in 0..Len(s)
    BY <1>0
  <2> QED  BY <1>1, <2>1 DEF IsTrace
<1>3. s = << >> => Concat(s) = << >>
  BY <1>1 DEF IsTrace
<1>4. ASSUME NEW x \in Seq(E)
      PROVE  Concat(Append(s, x)) = Concat(s) \o x
  <2> DEFINE t == Append(s, x)
  <2>1. t \in Seq(Seq(E)) /\ Len(t) = Len(s) + 1 /\ t[Len(s) + 1] = x
    OBVIOUS
  <2>2. PICK h : IsTrace(h, ConcatF(E), Seq(E), << >>, t) /\ Concat(t) = h[Len(t)]
    <3> HIDE DEF t
    <3> QED  BY <2>1, ConcatTrace
  <2>3. Begins(s, t)
    BY <1>0, <2>1 DEF Begins
  <2> HIDE DEF t
  <2>4. g[Len(s)] = h[Len(s)]
    <3>1. Along(g, h, s)
      BY <1>1, <2>2, <2>3, OneTrace
    <3> QED  BY <1>0, <3>1 DEF Along
  <2>5. Len(s) \in 0..(Len(t) - 1)
    BY <1>0, <2>1
  <2>6. h[Len(s) + 1] = ConcatF(E)[<<h[Len(s)], t[Len(s) + 1]>>]
    BY <2>2, <2>5 DEF IsTrace
  <2>7. h[Len(t)] = Concat(s) \o x
    BY <1>1, <1>2, <2>1, <2>4, <2>6 DEF ConcatF
  <2> QED  BY <2>2, <2>7 DEF t
<1> QED  BY <1>2, <1>3, <1>4

-----------------------------------------------------------------------------

\* A sequence of fields
IsBody(body) ==
  /\ Len(body) \in Nat
  /\ body = [i \in 1..Len(body) |-> body[i]]
  /\ \A i \in 1..Len(body) : body[i].w \in Nat

\* A field adds its width to the bytes of a body.
LEMMA BytesOf ==
  ASSUME NEW body, IsBody(body)
  PROVE  /\ Widths(body) \in Seq(Int) /\ Len(Widths(body)) = Len(body)
         /\ Bytes(body) \in Int
         /\ body = << >> => Bytes(body) = 0
         /\ \A f : f.w \in Nat =>
               IsBody(Append(body, f)) /\ Bytes(Append(body, f)) = Bytes(body) + f.w
<1>1. Widths(body) \in Seq(Int) /\ Len(Widths(body)) = Len(body)
  BY DEF IsBody, Widths
<1>0. \A b : Bytes(b) = Total(0, Widths(b))
  BY DEF Bytes, Total
<1>2. Bytes(body) \in Int
  BY <1>0, <1>1, SumFacts
<1>3. body = << >> => Bytes(body) = 0
  <2>1. body = << >> => Widths(body) = << >>
    BY DEF Widths
  <2> QED  BY <1>0, <1>1, <2>1, SumFacts
<1>4. ASSUME NEW f, f.w \in Nat
      PROVE  IsBody(Append(body, f)) /\ Bytes(Append(body, f)) = Bytes(body) + f.w
  <2> DEFINE E == {body[i] : i \in 1..Len(body)} \cup {f}
             t == Append(body, f)
  <2>1. body \in Seq(E) /\ f \in E
    BY DEF IsBody
  <2>2. /\ t \in Seq(E) /\ Len(t) = Len(body) + 1
        /\ t[Len(body) + 1] = f
        /\ \A i \in 1..Len(body) : t[i] = body[i]
    <3> HIDE DEF E
    <3> QED  BY <2>1
  <2>3. IsBody(t)
    <3> HIDE DEF E, t
    <3> QED  BY <1>4, <2>2 DEF IsBody
  <2>4. Widths(t) = Append(Widths(body), f.w)
    <3> HIDE DEF E, t
    <3> QED  BY <1>1, <1>4, <2>2, <2>3 DEF Widths, IsBody
  <2> HIDE DEF t
  <2>5. Bytes(t) = Bytes(body) + f.w
    <3> DEFINE W == Widths(body)
    <3>1. W \in Seq(Int) /\ f.w \in Int
      BY <1>1, <1>4
    <3> HIDE DEF W
    <3>2. Total(0, Append(W, f.w)) = Total(0, W) + f.w
      BY <3>1, SumFacts
    <3> QED  BY <1>0, <2>4, <3>2 DEF W
  <2> QED  BY <2>3, <2>5 DEF t
<1> QED  BY <1>1, <1>2, <1>3, <1>4

\* The bytes of a body written behind another are added to its bytes.
LEMMA BytesConcat ==
  ASSUME NEW a, NEW b, IsBody(a), IsBody(b)
  PROVE  IsBody(a \o b) /\ Bytes(a \o b) = Bytes(a) + Bytes(b)
<1> DEFINE E == {a[i] : i \in 1..Len(a)} \cup {b[i] : i \in 1..Len(b)}
           P(n) == /\ IsBody(SubSeq(b, 1, n)) /\ IsBody(a \o SubSeq(b, 1, n))
                   /\ Bytes(a \o SubSeq(b, 1, n)) = Bytes(a) + Bytes(SubSeq(b, 1, n))
           S == {n \in Nat : n <= Len(b) => P(n)}
<1>0. a \in Seq(E) /\ b \in Seq(E) /\ \A e \in E : e.w \in Nat
  <2>1. \A e \in E : e.w \in Nat
    BY DEF IsBody
  <2>2. ASSUME NEW s, IsBody(s), \A i \in 1..Len(s) : s[i] \in E PROVE s \in Seq(E)
    <3>1. Len(s) \in Nat /\ s = [i \in 1..Len(s) |-> s[i]]
      BY <2>2, Zenon DEF IsBody
    <3> HIDE DEF E
    <3> QED  BY <2>2, <3>1
  <2>3. a \in Seq(E)
    BY <2>2, Zenon
  <2>4. b \in Seq(E)
    BY <2>2, Zenon
  <2> QED  BY <2>1, <2>3, <2>4
<1> HIDE DEF E
<1>1. 0 \in S
  <2>1. SubSeq(b, 1, 0) = << >> /\ a \o << >> = a
    BY <1>0
  <2>2. IsBody(<< >>) /\ Bytes(<< >>) = 0
    <3>1. IsBody(<< >>)
      BY DEF IsBody
    <3> QED  BY <3>1, BytesOf
  <2>3. Bytes(a) \in Int
    BY BytesOf
  <2>4. Bytes(a) = Bytes(a) + 0
    BY <2>3
  <2> QED  BY <2>1, <2>2, <2>4
<1>2. ASSUME NEW n \in Nat, n \in S PROVE n + 1 \in S
  <2>1. SUFFICES ASSUME n + 1 <= Len(b) PROVE P(n + 1)
    OBVIOUS
  <2> DEFINE f == b[n + 1]
             t == SubSeq(b, 1, n)
  <2>2. n + 1 \in 1..Len(b) /\ f \in E /\ f.w \in Nat
    BY <1>0, <2>1 DEF IsBody
  <2>3. SubSeq(b, 1, n + 1) = Append(t, f) /\ t \in Seq(E)
    BY <1>0, <2>2
  <2>4. a \o Append(t, f) = Append(a \o t, f)
    <3> HIDE DEF t, f
    <3> QED  BY <1>0, <2>2, <2>3
  <2>5. P(n)
    BY <1>2, <2>1
  <2> HIDE DEF f
  <2>6. IsBody(Append(t, f)) /\ Bytes(Append(t, f)) = Bytes(t) + f.w
    BY <2>2, <2>5, BytesOf
  <2>7. IsBody(Append(a \o t, f)) /\ Bytes(Append(a \o t, f)) = Bytes(a \o t) + f.w
    BY <2>2, <2>5, BytesOf
  <2>8. Bytes(a) \in Int /\ Bytes(t) \in Int
    BY <2>5, BytesOf
  <2>9. Bytes(a \o t) + f.w = Bytes(a) + (Bytes(t) + f.w)
    <3> DEFINE x == Bytes(a)  y == Bytes(t)  z == f.w  u == Bytes(a \o t)
    <3>1. x \in Int /\ y \in Int /\ z \in Int /\ u = x + y
      BY <2>2, <2>5, <2>8
    <3> HIDE DEF x, y, z, u
    <3>2. u + z = x + (y + z)
      BY <3>1
    <3> QED  BY <3>2 DEF x, y, z, u
  <2> DEFINE r == SubSeq(b, 1, n + 1)
  <2>10. r = Append(t, f) /\ a \o r = Append(a \o t, f)
    BY <2>3, <2>4 DEF f
  <2> HIDE DEF r, t
  <2>11. IsBody(r) /\ IsBody(a \o r) /\ Bytes(a \o r) = Bytes(a) + Bytes(r)
    BY <2>6, <2>7, <2>9, <2>10
  <2> QED  BY <2>11 DEF r
<1>3. \A n \in Nat : n \in S
  <2> HIDE DEF S
  <2> QED  BY <1>1, <1>2, Induction
<1>4. Len(b) \in Nat /\ SubSeq(b, 1, Len(b)) = b
  BY <1>0
<1>5. P(Len(b))
  BY <1>3, <1>4
<1> QED  BY <1>4, <1>5

\* A sequence of fields is a body.
LEMMA BodyOfSeq ==
  ASSUME NEW E, \A e \in E : e.w \in Nat, NEW body \in Seq(E)
  PROVE  IsBody(body)
BY DEF IsBody

\* Bodies one behind the other are a body.
LEMMA ConcatBody ==
  ASSUME NEW s, NEW n \in Nat, s = [i \in 1..n |-> s[i]], \A i \in 1..n : IsBody(s[i])
  PROVE  IsBody(Concat(s))
<1> DEFINE E == UNION {{s[i][j] : j \in 1..Len(s[i])} : i \in 1..n}
<1>1. \A e \in E : e.w \in Nat
  BY DEF IsBody
<1>2. ASSUME NEW i \in 1..n PROVE s[i] \in Seq(E)
  <2>1. \A j \in 1..Len(s[i]) : s[i][j] \in E
    OBVIOUS
  <2> HIDE DEF E
  <2> QED  BY <2>1 DEF IsBody
<1> HIDE DEF E
<1>3. s \in Seq(Seq(E))
  BY <1>2
<1>4. Concat(s) \in Seq(E)
  BY <1>3, ConcatFacts
<1> QED  BY <1>1, <1>4, BodyOfSeq

\* Values of one width make a body.
LEMMA FieldsBody ==
  ASSUME NEW w \in Nat, NEW s, Len(s) \in Nat
  PROVE  IsBody(Fields(w, s))
<1> DEFINE E == {F(w, s[i]) : i \in 1..Len(s)}
<1>1. Fields(w, s) \in Seq(E)
  BY DEF Fields
<1>2. \A e \in E : e.w \in Nat
  BY DEF F
<1> HIDE DEF E
<1> QED  BY <1>1, <1>2, BodyOfSeq

\* There is room for a PMU, or nothing of it is written.
LEMMA PmuMade ==
  \A free, c : GeneratePmuConfig(free, c) =
                 IF free < GetPmuConfigSize(c) THEN << >> ELSE PmuFields(c)
BY DEF GeneratePmuConfig

\* What is written of a PMU whose names and infos fit is a sequence of fields.
LEMMA PlainBody ==
  ASSUME NEW c, IsPmu(c)
  PROVE  IsBody(PlainFields(c))
<1> DEFINE head == <<F(16, c.station), F(2, c.id), F(2, c.format)>>
           counts == [i \in 1..3 |-> F(2, c.count[Kinds[i]])]
           names == [i \in 1..3 |-> Fields(16, c.names[Kinds[i]])]
           infos == [i \in 1..3 |->
                      Fields(4, SubSeq(c.info[Kinds[i]], 1, c.count[Kinds[i]]))]
           last == <<F(2, IF c.nominal = 50 THEN 1 ELSE 0), F(2, c.change)>>
<1>0. \A i \in 1..3 : Kinds[i] \in {"phasor", "analog", "digital"}
  BY DEF Kinds
<1>1. IsBody(head)
  BY DEF IsBody, F
<1>2. IsBody(counts)
  <2>1. counts \in Seq({F(2, c.count[Kinds[i]]) : i \in 1..3})
    OBVIOUS
  <2>2. \A e \in {F(2, c.count[Kinds[i]]) : i \in 1..3} : e.w \in Nat
    BY DEF F
  <2> QED  BY <2>1, <2>2, BodyOfSeq
<1>3. IsBody(Concat(names))
  <2>1. ASSUME NEW i \in 1..3 PROVE IsBody(names[i])
    <3>1. Len(c.names[Kinds[i]]) \in Nat
      BY <1>0 DEF IsPmu, NamesPer
    <3>2. IsBody(Fields(16, c.names[Kinds[i]]))
      BY <3>1, FieldsBody
    <3> QED  BY <3>2
  <2> HIDE DEF names
  <2>2. names = [i \in 1..3 |-> names[i]]
    BY DEF names
  <2> QED  BY <2>1, <2>2, ConcatBody
<1>4. IsBody(Concat(infos))
  <2>1. ASSUME NEW i \in 1..3 PROVE IsBody(infos[i])
    <3> DEFINE t == SubSeq(c.info[Kinds[i]], 1, c.count[Kinds[i]])
    <3>1. Len(t) \in Nat
      BY <1>0 DEF IsPmu
    <3>2. IsBody(Fields(4, t))
      <4> HIDE DEF t
      <4> QED  BY <3>1, FieldsBody
    <3> QED  BY <3>2
  <2> HIDE DEF infos
  <2>2. infos = [i \in 1..3 |-> infos[i]]
    BY DEF infos
  <2> QED  BY <2>1, <2>2, ConcatBody
<1>5. IsBody(last)
  BY DEF IsBody, F
<1> DEFINE all == head \o counts \o Concat(names) \o Concat(infos) \o last
<1>7. PlainFields(c) = all
  BY DEF PlainFields
<1> HIDE DEF head, counts, names, infos, last
<1>8. IsBody(all)
  <2>1. IsBody(head \o counts)
    BY <1>1, <1>2, BytesConcat
  <2>2. IsBody((head \o counts) \o Concat(names))
    BY <2>1, <1>3, BytesConcat
  <2>3. IsBody(((head \o counts) \o Concat(names)) \o Concat(infos))
    BY <2>2, <1>4, BytesConcat
  <2> QED  BY <2>3, <1>5, BytesConcat
<1> QED  BY <1>7, <1>8

\* A PMU has as many names and infos when it is written.
LEMMA WrittenIsPmu ==
  ASSUME NEW c, IsPmu(c)
  PROVE  IsPmu(AsWritten(c)) /\ AsWritten(c).count = c.count
<1> DEFINE K == {"phasor", "analog", "digital"}
           w == AsWritten(c)
           names(k) == [i \in 1..Len(c.names[k]) |-> Padded(c.names[k][i])]
           info(k) == [i \in 1..Len(c.info[k]) |-> InfoWritten(k, c.info[k][i])]
<1>1. c.count \in [K -> Nat] /\ DOMAIN c.names = K /\ DOMAIN c.info = K
  BY DEF IsPmu
<1>2. ASSUME NEW k \in K
      PROVE  Len(c.names[k]) = NamesPer(k) * c.count[k] /\ Len(c.info[k]) = c.count[k]
  <2> DEFINE n == NamesPer(k) * c.count[k]  m == c.count[k]  s == c.names[k]  t == c.info[k]
  <2>1. n \in Nat /\ m \in Nat
    BY <1>1 DEF NamesPer
  <2>2. s = [i \in 1..n |-> s[i]] /\ t = [i \in 1..m |-> t[i]]
    BY Zenon DEF IsPmu
  <2> HIDE DEF n, m, s, t
  <2>3. Len(s) = n /\ Len(t) = m
    BY <2>1, <2>2
  <2> QED  BY <2>3 DEF n, m, s, t
<1>3. /\ w.count = c.count
      /\ w.names = [k \in K |-> names(k)] /\ w.info = [k \in K |-> info(k)]
  BY <1>1, Zenon DEF AsWritten
<1> HIDE DEF w
<1>4. w.names = [k \in K |-> [i \in 1..(NamesPer(k) * w.count[k]) |-> w.names[k][i]]]
  <2>1. ASSUME NEW k \in K
        PROVE  w.names[k] = [i \in 1..(NamesPer(k) * w.count[k]) |-> w.names[k][i]]
    <3>1. w.names[k] = names(k)
      BY <1>3
    <3>2. names(k) = [i \in 1..Len(c.names[k]) |-> names(k)[i]]
      OBVIOUS
    <3>3. Len(c.names[k]) = NamesPer(k) * w.count[k]
      BY <1>2, <1>3
    <3> QED  BY <3>1, <3>2, <3>3, Zenon
  <2>2. w.names = [k \in K |-> w.names[k]]
    BY <1>3
  <2> QED  BY <2>1, <2>2, Zenon
<1>5. w.info = [k \in K |-> [i \in 1..w.count[k] |-> w.info[k][i]]]
  <2>1. ASSUME NEW k \in K PROVE w.info[k] = [i \in 1..w.count[k] |-> w.info[k][i]]
    <3>1. w.info[k] = info(k)
      BY <1>3
    <3>2. info(k) = [i \in 1..Len(c.info[k]) |-> info(k)[i]]
      OBVIOUS
    <3>3. Len(c.info[k]) = w.count[k]
      BY <1>2, <1>3
    <3> QED  BY <3>1, <3>2, <3>3, Zenon
  <2>2. w.info = [k \in K |-> w.info[k]]
    BY <1>3
  <2> QED  BY <2>1, <2>2, Zenon
<1>6. IsPmu(w)
  BY <1>1, <1>3, <1>4, <1>5, Zenon DEF IsPmu
<1> QED  BY <1>3, <1>6 DEF w

\* What is written of a PMU is a sequence of fields.
LEMMA PmuBody ==
  ASSUME NEW c, IsPmu(c)
  PROVE  IsBody(PmuFields(c))
BY WrittenIsPmu, PlainBody DEF PmuFields

AddF(dataSize, type, E, P) ==
  [p \in Seq(E) \X P |-> AddPmu(dataSize, type, p[1], p[2])]

AddsTo(dataSize, type, E, P) ==
  \A body \in Seq(E), c \in P : AddPmu(dataSize, type, body, c) \in Seq(E)

IsWriting(g, dataSize, type, E, P, cfg) ==
  /\ IsTrace(g, AddF(dataSize, type, E, P), Seq(E), ConfigHead(cfg), cfg.pmus)
  /\ ConfigBody(dataSize, type, cfg) = g[Len(cfg.pmus)]

\* Writing a configuration goes through the bodies written so far.
LEMMA ConfigTrace ==
  ASSUME NEW E, NEW P, NEW dataSize, NEW type, NEW cfg, ConfigHead(cfg) \in Seq(E),
         cfg.pmus \in Seq(P), AddsTo(dataSize, type, E, P)
  PROVE  \E g : IsWriting(g, dataSize, type, E, P, cfg)
<1> DEFINE s == cfg.pmus
           head == ConfigHead(cfg)
           D == SUBSET (1..Len(s))
           A == AddF(dataSize, type, E, P)
           iter == CHOOSE f : f = [d \in D |->
                     IF d = {} THEN head ELSE AddPmu(dataSize, type, f[d \ {Max(d)}], s[Max(d)])]
<1>0. Len(s) \in Nat /\ s \in Seq(P) /\ head \in Seq(E)
  OBVIOUS
<1> HIDE DEF s, head
<1>1. PICK h : IsIter(h, A, Seq(E), head, s, Len(s))
  <2>1. A \in [Seq(E) \X P -> Seq(E)]
    BY DEF AddF, AddsTo
  <2> HIDE DEF A
  <2> QED  BY <1>0, <2>1, IterExists
<1>2. ASSUME NEW d \in D, d # {}
      PROVE  h[d] = AddPmu(dataSize, type, h[d \ {Max(d)}], s[Max(d)])
  <2>1. Max(d) \in d
    BY <1>0, <1>2, MaxBelow
  <2>2. Max(d) \in 1..Len(s) /\ d \ {Max(d)} \in D
    BY <2>1
  <2> HIDE DEF A
  <2>3. h[d \ {Max(d)}] \in Seq(E)
    BY <1>1, <2>2 DEF IsIter
  <2>4. s[Max(d)] \in P
    BY <1>0, <2>2
  <2>5. h[d] = A[<<h[d \ {Max(d)}], s[Max(d)]>>]
    BY <1>1, <1>2 DEF IsIter
  <2> QED  BY <2>3, <2>4, <2>5 DEF A, AddF
<1>3. h = [d \in D |-> IF d = {} THEN head
                        ELSE AddPmu(dataSize, type, h[d \ {Max(d)}], s[Max(d)])]
  BY <1>1, <1>2 DEF IsIter
<1>4. iter = [d \in D |-> IF d = {} THEN head
                        ELSE AddPmu(dataSize, type, iter[d \ {Max(d)}], s[Max(d)])]
  BY <1>3
<1>5. ConfigBody(dataSize, type, cfg) = iter[1..Len(s)]
  <2>1. DOMAIN s = 1..Len(s)
    BY <1>0
  <2> QED  BY <2>1 DEF s, head, ConfigBody, FoldLeft, MapThenFoldSet
<1>6. Agree(iter, h, Len(s))
  <2>1. SameSteps(iter, h, Len(s))
    BY <1>2, <1>3, <1>4 DEF SameSteps
  <2> QED  BY <1>0, <2>1, SameIter
<1> DEFINE g == [k \in 0..Len(s) |-> h[1..k]]
<1>7. IsTrace(g, A, Seq(E), head, s)
  <2> HIDE DEF A
  <2> QED  BY <1>0, <1>1, IterIsTrace
<1>8. ConfigBody(dataSize, type, cfg) = g[Len(s)]
  <2>1. 1..Len(s) \in D /\ Len(s) \in 0..Len(s)
    BY <1>0
  <2> HIDE DEF iter
  <2> QED  BY <1>5, <1>6, <2>1 DEF Agree
<1>9. IsWriting(g, dataSize, type, E, P, cfg)
  BY <1>7, <1>8 DEF s, head, IsWriting
<1> QED  BY <1>9

GoodConfig(cfg) == IsList(cfg.pmus) /\ \A i \in 1..Len(cfg.pmus) : IsPmu(cfg.pmus[i])

IsWritten(g, dataSize, type, cfg) ==
  /\ \A k \in 0..Len(cfg.pmus) : IsBody(g[k])
  /\ g[0] = ConfigHead(cfg)
  /\ \A k \in 0..(Len(cfg.pmus) - 1) :
       g[k + 1] = AddPmu(dataSize, type, g[k], cfg.pmus[k + 1])
  /\ ConfigBody(dataSize, type, cfg) = g[Len(cfg.pmus)]

\* A configuration is written PMU by PMU, each time into a body.
LEMMA ConfigSteps ==
  ASSUME NEW dataSize, NEW type, NEW c, GoodConfig(c)
  PROVE  \E g : IsWritten(g, dataSize, type, c)
<1> DEFINE P == {c.pmus[i] : i \in 1..Len(c.pmus)}
           head == ConfigHead(c)
           E == {head[i] : i \in 1..3}
                  \cup UNION {{PmuFields(x)[i] : i \in 1..Len(PmuFields(x))} : x \in P}
<1>1. head \in Seq({head[i] : i \in 1..3}) /\ \A i \in 1..3 : head[i].w \in Nat
  BY DEF ConfigHead, F
<1>2. ASSUME NEW x \in P
      PROVE  IsBody(PmuFields(x))
  BY PmuBody DEF GoodConfig
<1>3. \A e \in E : e.w \in Nat
  BY <1>1, <1>2 DEF IsBody
<1>4. head \in Seq(E)
  BY <1>1
<1>5. ASSUME NEW x \in P PROVE PmuFields(x) \in Seq(E)
  <2>1. \A i \in 1..Len(PmuFields(x)) : PmuFields(x)[i] \in E
    OBVIOUS
  <2> HIDE DEF E
  <2> QED  BY <1>2, <2>1 DEF IsBody
<1>6. c.pmus \in Seq(P)
  <2>1. \A i \in 1..Len(c.pmus) : c.pmus[i] \in P
    OBVIOUS
  <2> HIDE DEF P
  <2> QED  BY <2>1 DEF IsList, GoodConfig
<1> HIDE DEF E, P, head
<1>7. ASSUME NEW body \in Seq(E), NEW x \in P
      PROVE  AddPmu(dataSize, type, body, x) \in Seq(E)
  <2>1. \A free : GeneratePmuConfig(free, x) \in Seq(E)
    BY <1>5, PmuMade, << >> \in Seq(E)
  <2> QED  BY <2>1 DEF AddPmu
<1>8. PICK g : IsWriting(g, dataSize, type, E, P, c)
  <2>1. AddsTo(dataSize, type, E, P)
    BY <1>7, Zenon DEF AddsTo
  <2>2. ConfigHead(c) \in Seq(E)
    BY <1>4 DEF head
  <2> QED  BY <1>6, <2>1, <2>2, ConfigTrace, Zenon
<1> DEFINE A == AddF(dataSize, type, E, P)
           n == Len(c.pmus)
<1>9. /\ g \in [0..n -> Seq(E)] /\ g[0] = ConfigHead(c)
      /\ \A k \in 0..(n - 1) : g[k + 1] = A[<<g[k], c.pmus[k + 1]>>]
      /\ ConfigBody(dataSize, type, c) = g[n]
  BY <1>8, Zenon DEF IsTrace, IsWriting
<1>10. n \in Nat /\ \A k \in 1..n : c.pmus[k] \in P
  BY <1>6
<1> HIDE DEF n
<1>11. ASSUME NEW k \in 0..(n - 1)
       PROVE  g[k + 1] = AddPmu(dataSize, type, g[k], c.pmus[k + 1])
  <2>1. k \in 0..n /\ k + 1 \in 1..n
    BY <1>10
  <2>2. g[k] \in Seq(E) /\ c.pmus[k + 1] \in P
    BY <1>9, <1>10, <2>1
  <2>3. g[k + 1] = A[<<g[k], c.pmus[k + 1]>>]
    BY <1>9
  <2> QED  BY <2>2, <2>3 DEF AddF
<1>12. \A k \in 0..n : IsBody(g[k])
  <2>1. \A k \in 0..n : g[k] \in Seq(E)
    BY <1>9
  <2> QED  BY <1>3, <2>1, BodyOfSeq
<1>13. IsWritten(g, dataSize, type, c)
  BY <1>9, <1>11, <1>12, Zenon DEF IsWritten, n
<1> QED  BY <1>13

\* The body of a configuration packet is a sequence of fields.
LEMMA ConfigIsBody ==
  ASSUME NEW dataSize, NEW type, NEW c, IsList(c.pmus),
         \A i \in 1..Len(c.pmus) : IsPmu(c.pmus[i])
  PROVE  IsBody(ConfigBody(dataSize, type, c))
<1>1. PICK g : IsWritten(g, dataSize, type, c)
  BY ConfigSteps DEF GoodConfig
<1>2. Len(c.pmus) \in 0..Len(c.pmus)
  BY DEF IsList
<1> QED  BY <1>1, <1>2, Zenon DEF IsWritten

\* The widths of n fields of one width
LEMMA TimesIs ==
  ASSUME NEW w \in Nat, NEW n \in Nat
  PROVE  Times(w, n) \in Seq(Nat)
BY DEF Times

\* So is the data of a PMU.
LEMMA DataIsBody ==
  ASSUME NEW c, IsPmu(c), NEW d
  PROVE  IsBody(GeneratePmuData(c, d))
<1> DEFINE widths == PmuDataWidths(c)
<1>1. widths \in Seq(Nat)
  <2>1. /\ c.count["phasor"] \in Nat /\ c.count["analog"] \in Nat
        /\ c.count["digital"] \in Nat /\ 2 * c.count["phasor"] \in Nat
    BY DEF IsPmu
  <2>2. \A f : Width(f) \in Nat
    BY DEF Width
  <2>3. /\ Times(Width(c.format.phasor), 2 * c.count["phasor"]) \in Seq(Nat)
        /\ Times(Width(c.format.freq), 2) \in Seq(Nat)
        /\ Times(Width(c.format.analog), c.count["analog"]) \in Seq(Nat)
        /\ Times(2, c.count["digital"]) \in Seq(Nat)
    BY <2>1, <2>2, TimesIs, 2 \in Nat, Zenon
  <2>4. <<2>> \in Seq(Nat)
    OBVIOUS
  <2> QED  BY <2>3, <2>4 DEF PmuDataWidths
<1> HIDE DEF widths
<1>2. \E values : GeneratePmuData(c, d) = [i \in 1..Len(widths) |-> F(widths[i], values[i])]
  BY DEF GeneratePmuData, widths
<1>3. PICK values :
        GeneratePmuData(c, d) = [i \in 1..Len(widths) |-> F(widths[i], values[i])]
  BY <1>2
<1> DEFINE E == {F(widths[i], values[i]) : i \in 1..Len(widths)}
<1>4. GeneratePmuData(c, d) \in Seq(E)
  BY <1>1, <1>3
<1>5. \A e \in E : e.w \in Nat
  BY <1>1 DEF F
<1> QED
  <2> HIDE DEF E
  <2> QED  BY <1>4, <1>5, BodyOfSeq

\* A body of one or two fields
LEMMA OneField ==
  ASSUME NEW f, f.w \in Nat
  PROVE  IsBody(<<f>>) /\ Bytes(<<f>>) = f.w
<1>1. IsBody(<< >>) /\ Bytes(<< >>) = 0
  <2>1. IsBody(<< >>)
    BY DEF IsBody
  <2> QED  BY <2>1, BytesOf
<1>2. Append(<< >>, f) = <<f>>
  <2>1. << >> \in Seq({f})
    OBVIOUS
  <2> QED  BY <2>1
<1>3. IsBody(Append(<< >>, f)) /\ Bytes(Append(<< >>, f)) = 0 + f.w
  BY <1>1, BytesOf
<1> QED  BY <1>2, <1>3

\* The bytes of two fields
LEMMA TwoFields ==
  ASSUME NEW f, NEW g, f.w \in Nat, g.w \in Nat
  PROVE  IsBody(<<f, g>>) /\ Bytes(<<f, g>>) = f.w + g.w
<1>1. IsBody(<<f>>) /\ Bytes(<<f>>) = f.w
  BY OneField
<1>2. Append(<<f>>, g) = <<f, g>>
  <2> DEFINE E == {f, g}  t == Append(<<f>>, g)  u == <<f, g>>
  <2>1. <<f>> \in Seq(E) /\ g \in E /\ Len(<<f>>) = 1 /\ <<f>>[1] = f
    OBVIOUS
  <2>2. t \in Seq(E) /\ Len(t) = 2 /\ t[1] = f /\ t[2] = g
    <3> HIDE DEF E
    <3> QED  BY <2>1
  <2>3. u \in Seq(E) /\ Len(u) = 2 /\ u[1] = f /\ u[2] = g
    OBVIOUS
  <2> HIDE DEF E, t, u
  <2>4. t = u
    BY <2>2, <2>3
  <2> QED  BY <2>4 DEF t, u
<1>3. IsBody(Append(<<f>>, g)) /\ Bytes(Append(<<f>>, g)) = f.w + g.w
  BY <1>1, BytesOf
<1> QED  BY <1>2, <1>3

-----------------------------------------------------------------------------
(* Packets                                                                 *)

Max16 == 65535
MaxBytes == 65519

\* The bounds are numbers; their values are only looked at where they matter.
LEMMA Maxima == Max16 \in Nat /\ MaxBytes \in Nat
BY DEF Max16, MaxBytes

\* What fits 16 bits is not changed by them.
LEMMA W16Facts ==
  ASSUME NEW m \in Int
  PROVE  /\ W16(m) \in 0..Max16
         /\ m >= 0 /\ m <= Max16 => W16(m) = m
<1>1. W16(m) \in Int /\ 0 <= W16(m) /\ W16(m) <= Max16
  BY DEF W16, Max16
<1>2. W16(m) \in 0..Max16
  BY <1>1, Maxima
<1>3. m >= 0 /\ m <= Max16 => W16(m) = m
  BY DEF W16, Max16
<1> QED  BY <1>2, <1>3, Zenon

\* The byte count of the frame is exact for bodies that fit.
LEMMA Count16 ==
  ASSUME NEW b \in Int
  PROVE  /\ W16(CommonFrameSize + b + 2) \in 0..Max16
         /\ b \in 0..MaxBytes => W16(CommonFrameSize + b + 2) = 16 + b
<1> DEFINE m == CommonFrameSize + b + 2
<1>1. m \in Int /\ m = 16 + b
  BY DEF CommonFrameSize
<1> HIDE DEF m
<1>2. ASSUME b \in 0..MaxBytes PROVE m >= 0 /\ m <= Max16
  <2>1. b >= 0 /\ b <= MaxBytes
    BY <1>2, Maxima
  <2>2. MaxBytes + 16 = Max16
    BY DEF MaxBytes, Max16
  <2> QED  BY <1>1, <2>1, <2>2, Maxima
<1>3. W16(m) \in 0..Max16
  BY <1>1, W16Facts
<1>4. b \in 0..MaxBytes => W16(m) = m
  BY <1>1, <1>2, W16Facts
<1>5. W16(m) \in 0..Max16 /\ (b \in 0..MaxBytes => W16(m) = 16 + b)
  BY <1>1, <1>3, <1>4
<1> QED  BY <1>5 DEF m

PacketFields == {"sync", "type", "id", "soc", "fracSec", "body", "byteCount", "crc"}

\* What a packet says of itself
IsPacket(p, size, type, body) ==
  /\ p # NoPacket /\ DOMAIN p = PacketFields
  /\ p.byteCount \in 0..Max16
  /\ Bytes(body) \in 0..MaxBytes => p.byteCount = 16 + Bytes(body)
  /\ size \in MinPacketSize..Max16 => p.sync
  /\ p.type = type /\ p.body = body /\ p.crc

\* A record with the fields of a packet is not the absence of one.
LEMMA NoFields == ASSUME NEW p, DOMAIN p = PacketFields PROVE p # NoPacket
<1>1. "crc" \notin DOMAIN NoPacket
  BY DEF NoPacket
<1> QED  BY <1>1 DEF PacketFields

\* A packet of any body tells type, size and body.
LEMMA CommonFacts ==
  ASSUME NEW size \in Nat, NEW type, NEW id, NEW soc, NEW frac, NEW body, IsBody(body)
  PROVE  IsPacket(Common(size, type, id, soc, frac, body), size, type, body)
<1>1. Bytes(body) \in Int
  BY BytesOf
<1> DEFINE p == Common(size, type, id, soc, frac, body)
<1>2. p.byteCount = W16(CommonFrameSize + Bytes(body) + 2)
  BY DEF Common
<1>3. ASSUME size \in MinPacketSize..Max16 PROVE p.sync
  <2>1. size >= MinPacketSize /\ size <= Max16
    BY <1>3, Maxima DEF MinPacketSize
  <2>2. W16(size) = size
    BY <2>1, W16Facts
  <2> QED  BY <2>1, <2>2 DEF Common
<1>4. p.type = type /\ p.body = body /\ p.crc
  BY DEF Common
<1>5. p # NoPacket /\ DOMAIN p = PacketFields
  <2>1. DOMAIN p = PacketFields
    BY DEF Common, PacketFields
  <2> QED  BY <2>1, NoFields
<1> HIDE DEF p
<1>6. p.byteCount \in 0..Max16
  BY <1>1, <1>2, Count16, Zenon
<1>7. Bytes(body) \in 0..MaxBytes => p.byteCount = 16 + Bytes(body)
  BY <1>1, <1>2, Count16, Zenon
<1>8. IsPacket(p, size, type, body)
  BY <1>3, <1>4, <1>5, <1>6, <1>7, Zenon DEF IsPacket
<1> QED  BY <1>8 DEF p

-----------------------------------------------------------------------------
(* The packets that are sent                                               *)

\* The packet p says what it was generated from.
Describes(p, what) ==
  /\ p.type = what.type
  /\ what.type \in {"config1", "config2", "data", "command", "header"}
  /\ what.type = "command" =>
       /\ p.body[1].v = what.command
       /\ what.command = "extended" => Values(p.body) = <<"extended", what.text>>
  /\ what.type = "header" => Values(p.body) = <<what.text>>

\* The texts leave room for the frame around them in a packet of 64 KiB, and
\* the sizes of buffers fit the argument of generateCommonFrame.
Fits ==
  /\ BufferSizes \subseteq MinPacketSize..Max16
  /\ \A text \in Texts : text.size + 2 <= MaxBytes

Sent(size) ==
  /\ wire' # NoPacket
  /\ IsPacket(wire', size, wire'.type, wire'.body)
  /\ Describes(wire', sent')
  /\ Fits /\ sent'.type \in {"command", "header"} => wire'.byteCount >= 16
  /\ length' = wire'.byteCount
  /\ config' = config
  /\ result' = "not_parsed"

\* Each way to send puts a packet on the wire that says what it was made from.
LEMMA SendsConfig ==
  ASSUME config \in Configs, NEW size \in BufferSizes, NEW type \in {"config1", "config2"},
         SendConfig(type, size)
  PROVE  Sent(size)
<1> DEFINE body == Append(ConfigBody(size, type, config), F(2, config.dataRate))
<1>1. wire' = GenerateConfig(size, config, type) /\ wire' # NoPacket
  BY DEF SendConfig, Send
<1>2. wire' = Common(size, type, config.idcode, config.soc, config.fracSec, body)
  BY <1>1 DEF GenerateConfig
<1>3. IsBody(ConfigBody(size, type, config))
  BY LinkAssumption, ConfigIsBody DEF LinkAssumption
<1>4. IsBody(body)
  <2>1. F(2, config.dataRate).w \in Nat
    BY DEF F
  <2> QED  BY <1>3, <2>1, BytesOf
<1>5. size \in Nat
  BY LinkAssumption DEF LinkAssumption
<1> HIDE DEF body
<1>6. IsPacket(wire', size, type, body)
  BY <1>2, <1>4, <1>5, CommonFacts
<1>7. wire'.type = type /\ wire'.body = body
  BY <1>6 DEF IsPacket
<1>8. sent'.type = type
  BY DEF SendConfig, Send
<1>9. Describes(wire', sent')
  BY <1>7, <1>8 DEF Describes
<1> QED  BY <1>1, <1>6, <1>7, <1>8, <1>9 DEF Sent, SendConfig, Send

\* So does a data frame,
LEMMA SendsData ==
  ASSUME config \in Configs, NEW size \in BufferSizes, NEW d \in Frames, SendData(d, size)
  PROVE  Sent(size)
<1> DEFINE n == Len(config.pmus)
           frame == [d EXCEPT !.pmus = SubSeq(d.pmus, 1, n)]
           parts == [i \in DOMAIN frame.pmus |-> GeneratePmuData(config.pmus[i], frame.pmus[i])]
           body == Concat(parts)
<1>1. wire' = GenerateDataFrame(size, config, frame) /\ wire' # NoPacket
  BY DEF SendData, Send
<1>2. \E frac : wire' = Common(size, "data", config.idcode, frame.soc, frac, body)
  BY <1>1 DEF GenerateDataFrame
<1>3. n \in Nat /\ \A i \in 1..n : IsPmu(config.pmus[i])
  BY LinkAssumption DEF LinkAssumption, IsList
<1>4. DOMAIN frame.pmus = 1..n
  <2>1. frame.pmus = SubSeq(d.pmus, 1, n)
    BY LinkAssumption DEF LinkAssumption
  <2>2. DOMAIN SubSeq(d.pmus, 1, n) = 1..n
    BY <1>3, LinkAssumption DEF LinkAssumption, IsList, SendData
  <2> QED  BY <2>1, <2>2
<1> HIDE DEF n, frame
<1>5. \A i \in 1..n : IsBody(parts[i])
  BY <1>3, <1>4, DataIsBody
<1>6. parts = [i \in 1..n |-> parts[i]]
  BY <1>4
<1> HIDE DEF parts
<1>7. IsBody(body)
  BY <1>3, <1>5, <1>6, ConcatBody
<1>8. size \in Nat
  BY LinkAssumption DEF LinkAssumption
<1> HIDE DEF body
<1>9. IsPacket(wire', size, "data", body)
  BY <1>2, <1>7, <1>8, CommonFacts
<1>10. wire'.type = "data" /\ wire'.body = body
  BY <1>9 DEF IsPacket
<1>11. sent'.type = "data"
  BY DEF SendData, Send
<1>12. Describes(wire', sent')
  BY <1>10, <1>11 DEF Describes
<1> QED  BY <1>1, <1>9, <1>10, <1>11, <1>12 DEF Sent, SendData, Send

\* a command,
LEMMA SendsCommand ==
  ASSUME config \in Configs, NEW size \in BufferSizes, SendCommand("send_config2", size)
  PROVE  Sent(size)
<1> DEFINE f == F(2, "send_config2")
<1>1. wire' = Common(size, "command", config.idcode, Stale, Stale, <<f>>) /\ wire' # NoPacket
  BY DEF SendCommand, Send, GenerateCommand
<1>2. f.w = 2 /\ f.v = "send_config2"
  BY DEF F
<1>3. size \in Nat
  BY LinkAssumption DEF LinkAssumption
<1> HIDE DEF f
<1>4. IsBody(<<f>>) /\ Bytes(<<f>>) = 2
  <2>1. f.w \in Nat
    BY <1>2
  <2> QED  BY <1>2, <2>1, OneField
<1>5. IsPacket(wire', size, "command", <<f>>)
  BY <1>1, <1>3, <1>4, CommonFacts
<1>6. wire'.type = "command" /\ wire'.body = <<f>>
  BY <1>5 DEF IsPacket
<1>7. sent' = [type |-> "command", command |-> "send_config2"]
  BY DEF SendCommand, Send
<1>8. Describes(wire', sent')
  BY <1>2, <1>6, <1>7 DEF Describes
<1>9. wire'.byteCount >= 16
  BY <1>4, <1>5 DEF IsPacket, MaxBytes
<1> QED  BY <1>1, <1>5, <1>6, <1>8, <1>9 DEF Sent, SendCommand, Send

\* A text that fits has a byte count that is exact.
LEMMA TextRoom ==
  ASSUME NEW n \in Nat, n + 2 <= MaxBytes
  PROVE  n \in 0..MaxBytes /\ 2 + n \in 0..MaxBytes
BY Maxima

\* a header
LEMMA SendsHeader ==
  ASSUME config \in Configs, NEW size \in BufferSizes, NEW text \in Texts, SendHeader(text, size)
  PROVE  Sent(size)
<1> DEFINE f == F(text.size, text)
<1>1. wire' = Common(size, "header", config.idcode, Stale, Stale, <<f>>) /\ wire' # NoPacket
  BY DEF SendHeader, Send, GenerateHeader
<1>2. f.w = text.size /\ f.v = text
  BY DEF F
<1>3. size \in Nat /\ text.size \in Nat
  BY LinkAssumption DEF LinkAssumption
<1> HIDE DEF f
<1>4. IsBody(<<f>>) /\ Bytes(<<f>>) = text.size
  BY <1>2, <1>3, OneField
<1>5. IsPacket(wire', size, "header", <<f>>)
  BY <1>1, <1>3, <1>4, CommonFacts
<1>6. wire'.type = "header" /\ wire'.body = <<f>>
  BY <1>5 DEF IsPacket
<1>7. sent' = [type |-> "header", text |-> text]
  BY DEF SendHeader, Send
<1>8. Values(<<f>>) = <<text>>
  BY <1>2 DEF Values
<1>9. Describes(wire', sent')
  BY <1>6, <1>7, <1>8 DEF Describes
<1>10. ASSUME Fits PROVE wire'.byteCount >= 16
  <2>1. text.size + 2 <= MaxBytes
    BY <1>10 DEF Fits
  <2>2. text.size \in 0..MaxBytes
    BY <1>3, <2>1, TextRoom
  <2>3. wire'.byteCount = 16 + text.size
    BY <1>4, <1>5, <2>2 DEF IsPacket
  <2> QED  BY <1>3, <2>3
<1> QED  BY <1>1, <1>5, <1>6, <1>9, <1>10 DEF Sent, SendHeader, Send

\* and an extended frame.
LEMMA SendsExtended ==
  ASSUME config \in Configs, NEW size \in BufferSizes, NEW text \in Texts,
         SendExtended(text, size)
  PROVE  Sent(size)
<1> DEFINE f == F(2, "extended")
           g == F(text.size, text)
<1>1. /\ wire' = Common(size, "command", config.idcode, Stale, Stale, <<f, g>>)
      /\ wire' # NoPacket
  BY DEF SendExtended, Send, GenerateExtendedFrame
<1>2. f.w = 2 /\ f.v = "extended" /\ g.w = text.size /\ g.v = text
  BY DEF F
<1>3. size \in Nat /\ text.size \in Nat
  BY LinkAssumption DEF LinkAssumption
<1> HIDE DEF f, g
<1>4. IsBody(<<f, g>>) /\ Bytes(<<f, g>>) = 2 + text.size
  <2>1. f.w \in Nat /\ g.w \in Nat
    BY <1>2, <1>3
  <2>2. IsBody(<<f, g>>) /\ Bytes(<<f, g>>) = f.w + g.w
    BY <2>1, TwoFields
  <2> QED  BY <1>2, <2>2
<1>5. IsPacket(wire', size, "command", <<f, g>>)
  BY <1>1, <1>3, <1>4, CommonFacts
<1>6. wire'.type = "command" /\ wire'.body = <<f, g>>
  BY <1>5 DEF IsPacket
<1>7. sent' = [type |-> "command", command |-> "extended", text |-> text]
  BY DEF SendExtended, Send
<1>8. Values(<<f, g>>) = <<"extended", text>>
  BY <1>2 DEF Values
<1>9. Describes(wire', sent')
  BY <1>2, <1>6, <1>7, <1>8 DEF Describes
<1>10. ASSUME Fits PROVE wire'.byteCount >= 16
  <2>1. text.size + 2 <= MaxBytes
    BY <1>10 DEF Fits
  <2>2. 2 + text.size \in 0..MaxBytes
    BY <1>3, <2>1, TextRoom
  <2>3. wire'.byteCount = 16 + (2 + text.size)
    BY <1>4, <1>5, <2>2 DEF IsPacket
  <2> QED  BY <1>3, <2>3
<1> QED  BY <1>1, <1>5, <1>6, <1>9, <1>10 DEF Sent, SendExtended, Send

\* Whatever is sent, the packet says what it was made from.
LEMMA Sends ==
  ASSUME config \in Configs, NEW size \in BufferSizes, SendAny(size)
  PROVE  Sent(size)
BY SendsConfig, SendsData, SendsCommand, SendsHeader, SendsExtended DEF SendAny

-----------------------------------------------------------------------------
(* Types                                                                   *)

Sized == config \in Configs /\ length \in Int /\ wire.byteCount \in Int

\* Sizes are numbers at the beginning,
LEMMA InitSized == Init => Sized
BY DEF Init, Sized, NoPacket

\* and stay numbers.
LEMMA NextSized == Sized /\ [Next]_vars => Sized'
<1> SUFFICES ASSUME Sized, [Next]_vars PROVE Sized'
  OBVIOUS
<1>1. CASE \E c \in Configs \ {config} : Configure(c)
  BY <1>1 DEF Configure, Sized
<1>2. ASSUME NEW size \in BufferSizes, SendAny(size) PROVE Sized'
  <2>1. Sent(size)
    BY <1>2, Sends DEF Sized
  <2>2. wire'.byteCount \in 0..Max16
    BY <2>1 DEF Sent, IsPacket
  <2>3. wire'.byteCount \in Int
    BY <2>2, Maxima
  <2> QED  BY <2>1, <2>3 DEF Sent, Sized
<1>3. CASE Damage
  <2>1. wire'.byteCount = wire.byteCount
    BY <1>3 DEF Damage
  <2> QED  BY <1>3, <2>1 DEF Damage, Sized
<1>4. CASE \E n \in {15, length - 1, length + 20} : Deliver(n)
  BY <1>4 DEF Deliver, Sized
<1>5. CASE Receive
  BY <1>5 DEF Receive, Sized
<1>6. CASE Consume
  BY <1>6 DEF Consume, Sized, NoPacket
<1>7. CASE UNCHANGED vars
  BY <1>7 DEF vars, Sized
<1> QED  BY <1>1, <1>2, <1>3, <1>4, <1>5, <1>6, <1>7 DEF Next

-----------------------------------------------------------------------------
(* Rejection                                                               *)

\* parseCommon accepts nothing damaged or incomplete.
LEMMA Rejects ==
  ASSUME NEW p, NEW n \in Int, p.byteCount \in Int, ~(p.crc /\ n >= p.byteCount)
  PROVE  ParseCommon(p, n) # "parse_complete"
<1>1. CASE ~p.crc
  BY <1>1 DEF ParseCommon
<1>2. CASE n < p.byteCount
  BY <1>2 DEF ParseCommon
<1> QED  BY <1>1, <1>2

\* No way to receive it accepts it.
LEMMA ReceiveRejects ==
  ASSUME Sized, Receive, ~(wire.crc /\ length >= wire.byteCount)
  PROVE  result' # "parse_complete" /\ rconfig' = rconfig
<1>1. ParseCommon(wire, length) # "parse_complete"
  BY Rejects DEF Sized
<1>2. CASE ReceiveConfig
  BY <1>1, <1>2 DEF ReceiveConfig, ParseConfig1
<1>3. CASE ReceiveData
  BY <1>1, <1>3 DEF ReceiveData, ParseDataFrame
<1>4. CASE ReceiveCommand
  BY <1>1, <1>4 DEF ReceiveCommand
<1>5. CASE ReceiveHeader
  BY <1>1, <1>5 DEF ReceiveHeader
<1>6. CASE ReceiveUnknown
  BY <1>1, <1>6 DEF ReceiveUnknown
<1> QED  BY <1>2, <1>3, <1>4, <1>5, <1>6 DEF Receive

\* A damaged or incomplete packet is rejected and changes nothing at the
\* receiver: whatever is sent, and however it was damaged (parseCommon and its
\* callers).
THEOREM Rejection == Spec => DamagedIsRejected
<1>1. ASSUME Sized, [Next]_vars, Parsed', ~Parsed,
             ~(wire.crc /\ length >= wire.byteCount)
      PROVE  result' # "parse_complete" /\ rconfig' = rconfig
  <2>1. CASE \E c \in Configs \ {config} : Configure(c)
    BY <1>1, <2>1 DEF Configure, Parsed
  <2>2. ASSUME NEW size \in BufferSizes, SendAny(size) PROVE FALSE
    <3>1. result' = "not_parsed"
      BY <1>1, <2>2, Sends DEF Sized, Sent
    <3> QED  BY <1>1, <3>1 DEF Parsed
  <2>3. CASE Damage
    BY <1>1, <2>3 DEF Damage, Parsed
  <2>4. CASE \E n \in {15, length - 1, length + 20} : Deliver(n)
    BY <1>1, <2>4 DEF Deliver, Parsed
  <2>5. CASE Receive
    BY <1>1, <2>5, ReceiveRejects
  <2>6. CASE Consume
    BY <1>1, <2>6 DEF Consume, Parsed
  <2>7. CASE UNCHANGED vars
    BY <1>1, <2>7 DEF vars, Parsed
  <2> QED  BY <1>1, <2>1, <2>2, <2>3, <2>4, <2>5, <2>6, <2>7 DEF Next
<1>2. Sized /\ [Next]_vars =>
        [Parsed' /\ ~Parsed /\ ~(wire.crc /\ length >= wire.byteCount) =>
           result' # "parse_complete" /\ rconfig' = rconfig]_vars
  BY <1>1
<1> QED  BY InitSized, NextSized, <1>2, PTL DEF Spec, DamagedIsRejected

-----------------------------------------------------------------------------
(* Acceptance                                                              *)

\* What the receiver has made of the packet
Accepted ==
  /\ sent.type = "command" =>
       /\ rframe.type = "command" /\ rframe.command = sent.command
       /\ sent.command = "extended" => rframe.extended = <<"extended", sent.text>>
  /\ sent.type = "header" => rframe.type = "header" /\ rframe.texts = <<sent.text>>
  /\ IF sent.type = "data"
     THEN result \in {"parse_complete", "config_mismatch", "id_mismatch"}
     ELSE result = "parse_complete"

UnderWay ==
  /\ wire.sync /\ DOMAIN wire = PacketFields
  /\ Describes(wire, sent)
  /\ sent.type \in {"command", "header"} => wire.byteCount >= 16
  /\ result # "not_parsed" /\ Intact => Accepted

LinkInv ==
  /\ Sized
  /\ wire = NoPacket => result = "not_parsed"
  /\ wire # NoPacket => UnderWay

\* The invariant holds at the beginning.
LEMMA InitLink == Init => LinkInv
BY InitSized DEF Init, LinkInv

\* Receiving a packet that is whole
LEMMA Receives ==
  ASSUME LinkInv, Receive, Intact
  PROVE  Accepted'
<1>1. /\ UnderWay /\ length \in Int /\ wire.byteCount \in Int
      /\ wire' = wire /\ sent' = sent /\ length' = length
  BY DEF LinkInv, Receive, Sized
<1>2. ParseCommon(wire, length) = "parse_complete"
  BY <1>1 DEF UnderWay, Intact, ParseCommon
<1>3. GetPacketType(wire, length) \in {wire.type, "unknown"}
  BY DEF GetPacketType
<1>4. wire.byteCount >= 16 => GetPacketType(wire, length) = wire.type
  BY <1>1 DEF UnderWay, Intact, GetPacketType
<1>5. CASE ReceiveConfig
  <2>1. wire.type \in {"config1", "config2"}
    BY <1>3, <1>5 DEF ReceiveConfig
  <2>2. result' = "parse_complete"
    BY <1>2, <1>5, <2>1 DEF ReceiveConfig, ParseConfig1
  <2> QED  BY <1>1, <2>1, <2>2 DEF Accepted, UnderWay, Describes
<1>6. CASE ReceiveData
  <2>1. wire.type = "data"
    BY <1>3, <1>6 DEF ReceiveData
  <2>2. result' \in {"parse_complete", "config_mismatch", "id_mismatch"}
    BY <1>2, <1>6, <2>1 DEF ReceiveData, ParseDataFrame
  <2> QED  BY <1>1, <2>1, <2>2 DEF Accepted, UnderWay, Describes
<1>7. CASE ReceiveCommand
  <2>1. wire.type = "command"
    BY <1>3, <1>7 DEF ReceiveCommand
  <2>2. result' = "parse_complete"
    BY <1>2, <1>7 DEF ReceiveCommand
  <2>3. ParseCommand(wire, length) = wire.body[1].v
    BY <1>2, <2>1 DEF ParseCommand
  <2>4. rframe' = [type |-> "command", command |-> ParseCommand(wire, length),
                   extended |-> GetExtendedData(wire, length)]
    BY <1>7 DEF ReceiveCommand
  <2>5. sent.type = "command" /\ wire.body[1].v = sent.command
    BY <1>1, <2>1 DEF UnderWay, Describes
  <2>6. sent.command = "extended" =>
          GetExtendedData(wire, length) = <<"extended", sent.text>>
    BY <1>1, <2>3, <2>5 DEF UnderWay, Describes, GetExtendedData
  <2> QED  BY <1>1, <2>2, <2>3, <2>4, <2>5, <2>6 DEF Accepted
<1>8. CASE ReceiveHeader
  <2>1. wire.type = "header"
    BY <1>3, <1>8 DEF ReceiveHeader
  <2>2. result' = "parse_complete"
    BY <1>2, <1>8 DEF ReceiveHeader
  <2>3. sent.type = "header" /\ Values(wire.body) = <<sent.text>>
    BY <1>1, <2>1 DEF UnderWay, Describes
  <2>4. ParseHeader(wire, length) = <<sent.text>>
    BY <1>2, <2>3 DEF ParseHeader
  <2>5. rframe'.type = "header" /\ rframe'.texts = <<sent.text>>
    BY <1>8, <2>4 DEF ReceiveHeader
  <2> QED  BY <1>1, <2>2, <2>3, <2>5 DEF Accepted
<1>9. CASE ReceiveUnknown
  <2>1. GetPacketType(wire, length) = "unknown" /\ result' = "parse_complete"
    BY <1>2, <1>9 DEF ReceiveUnknown
  <2>2. sent.type \notin {"command", "header"}
    BY <1>1, <1>4, <2>1 DEF UnderWay, Describes
  <2> QED  BY <1>1, <2>1, <2>2 DEF Accepted, UnderWay, Describes
<1> QED  BY <1>5, <1>6, <1>7, <1>8, <1>9 DEF Receive

\* No step breaks the invariant.
LEMMA NextLink ==
  ASSUME Fits, LinkInv, [Next]_vars
  PROVE  LinkInv'
<1>0. Sized /\ Sized'
  BY NextSized DEF LinkInv
<1>1. CASE \E c \in Configs \ {config} : Configure(c)
  BY <1>0, <1>1 DEF Configure, LinkInv, UnderWay, Accepted, Intact
<1>2. ASSUME NEW size \in BufferSizes, SendAny(size) PROVE LinkInv'
  <2>1. Sent(size)
    BY <1>0, <1>2, Sends DEF Sized
  <2>2. wire'.sync /\ DOMAIN wire' = PacketFields
    BY <2>1 DEF Sent, IsPacket, Fits
  <2>3. UnderWay'
    BY <2>1, <2>2 DEF Sent, UnderWay
  <2> QED  BY <1>0, <2>1, <2>3 DEF Sent, LinkInv
<1>3. CASE Damage
  <2>1. /\ wire # NoPacket /\ wire'.crc = FALSE /\ wire'.sync = wire.sync
        /\ wire'.type = wire.type /\ wire'.body = wire.body
        /\ wire'.byteCount = wire.byteCount
    BY <1>3 DEF Damage
  <2>2. ~Intact'
    BY <2>1 DEF Intact
  <2>3. UnderWay /\ sent' = sent /\ result' = result
    BY <1>3, <2>1 DEF Damage, LinkInv
  <2>4. Describes(wire', sent')
    BY <2>1, <2>3 DEF UnderWay, Describes
  <2>5. UnderWay'
    <3>1. wire'.sync
      BY <2>1, <2>3 DEF UnderWay
    <3>3. DOMAIN wire' = PacketFields
      BY <1>3, <2>3 DEF Damage, UnderWay
    <3>2. sent'.type \in {"command", "header"} => wire'.byteCount >= 16
      BY <2>1, <2>3 DEF UnderWay
    <3> QED  BY <2>2, <2>4, <3>1, <3>2, <3>3 DEF UnderWay
  <2>6. wire' # NoPacket
    BY <2>5, NoFields DEF UnderWay
  <2> QED  BY <1>0, <2>5, <2>6 DEF LinkInv
<1>4. ASSUME NEW n \in {15, length - 1, length + 20}, Deliver(n) PROVE LinkInv'
  <2>1. Intact' => Intact
    BY <1>0, <1>4 DEF Deliver, Intact, Sized
  <2> QED  BY <1>0, <1>4, <2>1 DEF Deliver, LinkInv, UnderWay, Accepted
<1>5. CASE Receive
  <2>1. wire' = wire /\ sent' = sent /\ length' = length /\ wire # NoPacket
    BY <1>5 DEF Receive
  <2>2. Intact => Accepted'
    BY <1>5, Receives
  <2>3. Intact' <=> Intact
    BY <2>1 DEF Intact
  <2> QED  BY <1>0, <2>1, <2>2, <2>3 DEF LinkInv, UnderWay
<1>6. CASE Consume
  BY <1>0, <1>6 DEF Consume, LinkInv
<1>7. CASE UNCHANGED vars
  BY <1>0, <1>7 DEF vars, LinkInv, UnderWay, Accepted, Intact
<1> QED  BY <1>1, <1>2, <1>3, <1>4, <1>5, <1>6, <1>7 DEF Next

\* Every packet that arrives whole is accepted for what it is, also with more
\* bytes behind it, as long as the texts and the buffers fit the 16 bits that
\* count them.
THEOREM Acceptance ==
  ASSUME Fits
  PROVE  Spec => []WholeIsAccepted
<1>1. LinkInv => WholeIsAccepted
  BY DEF LinkInv, UnderWay, WholeIsAccepted, CommandsUnderstood, Parsed, Accepted
<1>2. LinkInv /\ [Next]_vars => LinkInv'
  BY NextLink
<1> QED  BY InitLink, <1>1, <1>2, PTL DEF Spec

-----------------------------------------------------------------------------
(* Lists: sequences of anything                                            *)

Elements(s) == {s[i] : i \in 1..Len(s)}

\* A list of members of a set is a sequence over the set,
LEMMA ListSeq ==
  ASSUME NEW E, NEW s, IsList(s), Elements(s) \subseteq E
  PROVE  s \in Seq(E)
<1>1. Len(s) \in Nat /\ s = [i \in 1..Len(s) |-> s[i]]
  BY DEF IsList
<1>2. \A i \in 1..Len(s) : s[i] \in E
  BY DEF Elements
<1> QED  BY <1>1, <1>2

\* and a sequence is a list.
LEMMA SeqList ==
  ASSUME NEW E, NEW s \in Seq(E)
  PROVE  IsList(s)
BY DEF IsList

\* The length and the elements of a list behind another
LEMMA Joined ==
  ASSUME NEW a, NEW b, IsList(a), IsList(b)
  PROVE  /\ IsList(a \o b)
         /\ Len(a \o b) = Len(a) + Len(b)
         /\ \A i \in 1..Len(a) : (a \o b)[i] = a[i]
         /\ \A i \in 1..Len(b) : (a \o b)[Len(a) + i] = b[i]
<1> DEFINE E == Elements(a) \cup Elements(b)
<1>1. a \in Seq(E)
  BY ListSeq
<1>2. b \in Seq(E)
  BY ListSeq
<1> HIDE DEF E
<1>3. a \o b \in Seq(E) /\ Len(a \o b) = Len(a) + Len(b)
  BY <1>1, <1>2
<1>4. \A i \in 1..Len(a) : (a \o b)[i] = a[i]
  BY <1>1, <1>2
<1>5. ASSUME NEW i \in 1..Len(b) PROVE (a \o b)[Len(a) + i] = b[i]
  BY <1>1, <1>2
<1> QED  BY <1>3, <1>4, <1>5, SeqList

\* The empty list adds nothing.
LEMMA JoinEmpty ==
  ASSUME NEW a, IsList(a)
  PROVE  a \o << >> = a /\ << >> \o a = a /\ IsList(<< >>)
<1>1. a \in Seq(Elements(a))
  BY ListSeq
<1>2. << >> \in Seq(Elements(a))
  OBVIOUS
<1>3. a \o << >> = a /\ << >> \o a = a
  BY <1>1, <1>2
<1>4. IsList(<< >>)
  BY <1>2, SeqList
<1> QED  BY <1>3, <1>4

\* Joining three lists can be done from either end.
LEMMA JoinTwice ==
  ASSUME NEW a, NEW b, NEW c, IsList(a), IsList(b), IsList(c)
  PROVE  (a \o b) \o c = a \o (b \o c)
<1> DEFINE E == Elements(a) \cup Elements(b) \cup Elements(c)
<1>1. a \in Seq(E)
  BY ListSeq
<1>2. b \in Seq(E)
  BY ListSeq
<1>3. c \in Seq(E)
  BY ListSeq
<1> HIDE DEF E
<1> QED  BY <1>1, <1>2, <1>3

\* What is written between two lists is read back from there.
LEMMA Middle ==
  ASSUME NEW a, NEW s, NEW b, IsList(a), IsList(s), IsList(b)
  PROVE  SubSeq((a \o s) \o b, Len(a) + 1, Len(a) + Len(s)) = s
<1> DEFINE E == Elements(a) \cup Elements(s) \cup Elements(b)
           t == (a \o s) \o b
           u == SubSeq(t, Len(a) + 1, Len(a) + Len(s))
<1>1. a \in Seq(E)
  BY ListSeq
<1>2. s \in Seq(E)
  BY ListSeq
<1>3. b \in Seq(E)
  BY ListSeq
<1> HIDE DEF E
<1>4. t \in Seq(E) /\ Len(t) = Len(a) + Len(s) + Len(b)
  BY <1>1, <1>2, <1>3
<1>5. ASSUME NEW i \in 1..Len(s) PROVE t[Len(a) + i] = s[i]
  <2>1. (a \o s)[Len(a) + i] = s[i] /\ Len(a) + i \in 1..Len(a \o s)
    BY <1>1, <1>2
  <2>2. t[Len(a) + i] = (a \o s)[Len(a) + i]
    <3>1. a \o s \in Seq(E)
      BY <1>1, <1>2
    <3> QED  BY <1>3, <2>1, <3>1
  <2> QED  BY <2>1, <2>2
<1> HIDE DEF t
<1>6. Len(a) \in Nat /\ Len(s) \in Nat /\ Len(b) \in Nat
  BY <1>1, <1>2, <1>3
<1>7. u \in Seq(E) /\ Len(u) = Len(s) /\ \A i \in 1..Len(s) : u[i] = t[Len(a) + i]
  BY <1>4, <1>6
<1> HIDE DEF u
<1>8. u = s
  BY <1>2, <1>5, <1>7
<1> QED  BY <1>8 DEF u, t

\* The rest of a list behind its beginning
LEMMA RestOf ==
  ASSUME NEW a, NEW b, IsList(a), IsList(b)
  PROVE  Rest(a \o b, Len(a)) = b /\ SubSeq(a \o b, 1, Len(a)) = a
<1>1. SubSeq((a \o b) \o << >>, Len(a) + 1, Len(a) + Len(b)) = b
  BY Middle, JoinEmpty
<1>2. SubSeq((<< >> \o a) \o b, Len(<< >>) + 1, Len(<< >>) + Len(a)) = a
  BY Middle, JoinEmpty
<1>3. /\ (a \o b) \o << >> = a \o b /\ << >> \o a = a
      /\ Len(a \o b) = Len(a) + Len(b) /\ Len(<< >>) = 0 /\ Len(a) \in Nat
  <2>1. IsList(a \o b) /\ Len(a \o b) = Len(a) + Len(b)
    BY Joined
  <2> QED  BY <2>1, JoinEmpty DEF IsList
<1>4. Rest(a \o b, Len(a)) = b
  BY <1>1, <1>3 DEF Rest
<1>5. SubSeq(a \o b, 1, Len(a)) = a
  BY <1>2, <1>3
<1> QED  BY <1>4, <1>5

\* Three lists one behind the other, as a fold and by hand
LEMMA ConcatThree ==
  ASSUME NEW f, f = [i \in 1..3 |-> f[i]], \A i \in 1..3 : IsList(f[i])
  PROVE  Concat(f) = (f[1] \o f[2]) \o f[3]
<1> DEFINE E == Elements(f[1]) \cup Elements(f[2]) \cup Elements(f[3])
<1>1. f[1] \in Seq(E)
  BY ListSeq
<1>2. f[2] \in Seq(E)
  BY ListSeq
<1>3. f[3] \in Seq(E)
  BY ListSeq
<1> HIDE DEF E
<1> DEFINE s1 == Append(<< >>, f[1])
           s2 == Append(s1, f[2])
           s3 == Append(s2, f[3])
<1>4. << >> \in Seq(Seq(E)) /\ s1 \in Seq(Seq(E)) /\ s2 \in Seq(Seq(E))
  BY <1>1, <1>2
<1>5. s3 = f
  <2>1. s3 \in Seq(Seq(E)) /\ Len(s3) = 3 /\ s3[1] = f[1] /\ s3[2] = f[2] /\ s3[3] = f[3]
    BY <1>1, <1>2, <1>3
  <2> HIDE DEF s3
  <2>2. \A i \in 1..3 : s3[i] = f[i]
    BY <2>1
  <2>3. s3 = [i \in 1..3 |-> s3[i]]
    BY <2>1
  <2> QED  BY <2>2, <2>3
<1>6. Concat(s1) = Concat(<< >>) \o f[1] /\ Concat(<< >>) = << >>
  BY <1>1, <1>4, ConcatFacts
<1> HIDE DEF s1
<1>7. Concat(s2) = Concat(s1) \o f[2]
  BY <1>2, <1>4, ConcatFacts
<1> HIDE DEF s2
<1>8. Concat(s3) = Concat(s2) \o f[3]
  BY <1>3, <1>4, ConcatFacts
<1>9. Concat(s1) = f[1]
  <2>1. << >> \o f[1] = f[1]
    BY JoinEmpty
  <2> QED  BY <1>6, <2>1, Zenon
<1> QED  BY <1>5, <1>7, <1>8, <1>9

-----------------------------------------------------------------------------
(* Widths and values                                                       *)

\* The widths of a body and of the one behind it
LEMMA WidthsJoin ==
  ASSUME NEW a, NEW b, IsList(a), IsList(b)
  PROVE  Widths(a \o b) = Widths(a) \o Widths(b)
<1> DEFINE t == a \o b  wa == Widths(a)  wb == Widths(b)
<1>1. /\ IsList(t) /\ Len(t) = Len(a) + Len(b)
      /\ \A i \in 1..Len(a) : t[i] = a[i]
      /\ \A i \in 1..Len(b) : t[Len(a) + i] = b[i]
  BY Joined
<1>2. /\ IsList(wa) /\ Len(wa) = Len(a) /\ \A i \in 1..Len(a) : wa[i] = a[i].w
      /\ IsList(wb) /\ Len(wb) = Len(b) /\ \A i \in 1..Len(b) : wb[i] = b[i].w
  BY DEF Widths, IsList
<1>3. Len(a) \in Nat /\ Len(b) \in Nat
  BY DEF IsList
<1> HIDE DEF t, wa, wb
<1> DEFINE u == wa \o wb
<1>4. /\ IsList(u) /\ Len(u) = Len(a) + Len(b)
      /\ \A i \in 1..Len(a) : u[i] = wa[i]
      /\ \A i \in 1..Len(b) : u[Len(a) + i] = wb[i]
  BY <1>2, Joined
<1> HIDE DEF u
<1>5. ASSUME NEW i \in 1..(Len(a) + Len(b)) PROVE t[i].w = u[i]
  <2>1. CASE i \in 1..Len(a)
    BY <1>1, <1>2, <1>4, <2>1
  <2>2. CASE i \notin 1..Len(a)
    <3>1. i - Len(a) \in 1..Len(b) /\ i = Len(a) + (i - Len(a))
      BY <1>3, <2>2
    <3> DEFINE j == i - Len(a)
    <3>2. j \in 1..Len(b) /\ i = Len(a) + j
      BY <3>1
    <3> HIDE DEF j
    <3> QED  BY <1>1, <1>2, <1>4, <3>2
  <2> QED  BY <2>1, <2>2
<1>6. Widths(t) = [i \in 1..(Len(a) + Len(b)) |-> t[i].w]
  BY <1>1 DEF Widths
<1>7. u = [i \in 1..(Len(a) + Len(b)) |-> u[i]]
  BY <1>4 DEF IsList
<1>8. Widths(t) = u
  BY <1>5, <1>6, <1>7
<1> QED  BY <1>8 DEF t, u, wa, wb

\* Fields of one width
LEMMA FieldsFacts ==
  ASSUME NEW w, NEW s, IsList(s)
  PROVE  /\ IsList(Fields(w, s)) /\ Len(Fields(w, s)) = Len(s)
         /\ Widths(Fields(w, s)) = Times(w, Len(s))
         /\ Values(Fields(w, s)) = s
<1> DEFINE t == Fields(w, s)
<1>1. /\ IsList(t) /\ Len(t) = Len(s)
      /\ \A i \in 1..Len(s) : t[i].w = w /\ t[i].v = s[i]
  BY DEF IsList, Fields, F
<1> HIDE DEF t
<1>2. Widths(t) = Times(w, Len(s))
  BY <1>1 DEF Widths, Times
<1>3. Values(t) = s
  BY <1>1 DEF Values, IsList
<1> QED  BY <1>1, <1>2, <1>3 DEF t

\* n times the same number
LEMMA TimesFacts ==
  ASSUME NEW w, NEW n \in Nat
  PROVE  IsList(Times(w, n)) /\ Len(Times(w, n)) = n
BY DEF Times, IsList

-----------------------------------------------------------------------------
(* Sums of naturals                                                        *)

\* The sum of one list of naturals behind another
LEMMA TotalJoin ==
  ASSUME NEW a \in Seq(Nat), NEW b \in Seq(Nat)
  PROVE  Total(0, a \o b) = Total(0, a) + Total(0, b)
<1> DEFINE A == [i \in 1..Len(a) |-> F(a[i], 0)]
           B == [i \in 1..Len(b) |-> F(b[i], 0)]
<1>1. IsBody(A) /\ IsList(A) /\ Widths(A) = a
  <2>1. Len(A) = Len(a) /\ Len(a) \in Nat
    OBVIOUS
  <2>2. \A i \in 1..Len(a) : A[i].w = a[i] /\ a[i] \in Nat
    BY DEF F
  <2>3. A = [i \in 1..Len(a) |-> A[i]]
    OBVIOUS
  <2> HIDE DEF A
  <2>4. IsBody(A) /\ IsList(A)
    BY <2>1, <2>2, <2>3 DEF IsBody, IsList
  <2>5. Widths(A) = a
    BY <2>1, <2>2 DEF Widths
  <2> QED  BY <2>4, <2>5
<1>2. IsBody(B) /\ IsList(B) /\ Widths(B) = b
  <2>1. Len(B) = Len(b) /\ Len(b) \in Nat
    OBVIOUS
  <2>2. \A i \in 1..Len(b) : B[i].w = b[i] /\ b[i] \in Nat
    BY DEF F
  <2>3. B = [i \in 1..Len(b) |-> B[i]]
    OBVIOUS
  <2> HIDE DEF B
  <2>4. IsBody(B) /\ IsList(B)
    BY <2>1, <2>2, <2>3 DEF IsBody, IsList
  <2>5. Widths(B) = b
    BY <2>1, <2>2 DEF Widths
  <2> QED  BY <2>4, <2>5
<1> HIDE DEF A, B
<1>3. Widths(A \o B) = a \o b
  BY <1>1, <1>2, WidthsJoin
<1>4. Bytes(A \o B) = Bytes(A) + Bytes(B)
  BY <1>1, <1>2, BytesConcat
<1> QED  BY <1>1, <1>2, <1>3, <1>4 DEF Bytes, Total

\* The sum of n times the same number is the product.
LEMMA TimesTotal ==
  ASSUME NEW w \in Nat, NEW n \in Nat
  PROVE  Total(0, Times(w, n)) = w * n
<1> DEFINE S == {k \in Nat : Total(0, Times(w, k)) = w * k}
<1>1. 0 \in S
  <2> DEFINE t == Times(w, 0)
  <2>1. t = << >> /\ t \in Seq(Int) /\ w * 0 = 0
    BY DEF Times
  <2> HIDE DEF t
  <2>2. Total(0, t) = 0
    BY <2>1, SumFacts, 0 \in Int, Zenon
  <2> QED  BY <2>1, <2>2 DEF t
<1>2. ASSUME NEW k \in Nat, k \in S PROVE k + 1 \in S
  <2>1. Times(w, k) \in Seq(Int) /\ Times(w, k + 1) = Append(Times(w, k), w) /\ w \in Int
    BY DEF Times
  <2>2. Total(0, Append(Times(w, k), w)) = Total(0, Times(w, k)) + w
    BY <2>1, SumFacts
  <2>3. w * (k + 1) = w * k + w
    OBVIOUS
  <2>4. Total(0, Times(w, k + 1)) = w * (k + 1)
    BY <1>2, <2>1, <2>2, <2>3
  <2> QED  BY <2>4
<1>3. \A k \in Nat : k \in S
  <2> HIDE DEF S
  <2> QED  BY <1>1, <1>2, Induction
<1> QED  BY <1>3

Sums(g, s) ==
  /\ g \in [0..Len(s) -> Nat]
  /\ g[0] = 0 /\ g[Len(s)] = Total(0, s)
  /\ \A k \in 0..(Len(s) - 1) : g[k + 1] = g[k] + s[k + 1]
  /\ \A k \in 0..Len(s) : g[k] <= g[Len(s)]

\* A sum goes through the partial sums.
LEMMA TotalTrace ==
  ASSUME NEW b \in Int, NEW s \in Seq(Int)
  PROVE  \E g : IsTrace(g, SumF, Int, b, s) /\ Total(b, s) = g[Len(s)]
BY SumTrace DEF Total

\* The sums of the beginnings of a sequence of naturals
LEMMA PartialSums ==
  ASSUME NEW s \in Seq(Nat)
  PROVE  \E g : Sums(g, s)
<1>0. Len(s) \in Nat /\ s \in Seq(Int) /\ \A k \in 1..Len(s) : s[k] \in Nat
  OBVIOUS
<1>1. PICK g : IsTrace(g, SumF, Int, 0, s) /\ Total(0, s) = g[Len(s)]
  BY <1>0, TotalTrace, 0 \in Int
<1>2. \A k \in 0..Len(s) : g[k] \in Int
  BY <1>1 DEF IsTrace
<1>3. ASSUME NEW k \in 0..(Len(s) - 1)
      PROVE  k \in 0..Len(s) /\ k + 1 \in 0..Len(s) /\ g[k + 1] = g[k] + s[k + 1]
  <2>1. k \in 0..Len(s) /\ k + 1 \in 0..Len(s) /\ k + 1 \in 1..Len(s)
    BY <1>0
  <2>2. g[k] \in Int /\ s[k + 1] \in Int
    BY <1>0, <1>2, <2>1
  <2> QED  BY <1>1, <2>1, <2>2 DEF IsTrace, SumF
<1>4. \A k \in 0..Len(s) : g[k] >= 0
  <2> DEFINE S == {k \in Nat : k <= Len(s) => g[k] >= 0}
  <2>1. 0 \in S
    BY <1>1 DEF IsTrace
  <2>2. ASSUME NEW k \in Nat, k \in S PROVE k + 1 \in S
    <3>1. SUFFICES ASSUME k + 1 <= Len(s) PROVE g[k + 1] >= 0
      OBVIOUS
    <3>2. k \in 0..(Len(s) - 1) /\ k + 1 \in 1..Len(s) /\ g[k] >= 0
      BY <1>0, <2>2, <3>1
    <3>3. g[k] \in Int /\ s[k + 1] \in Nat /\ g[k + 1] = g[k] + s[k + 1]
      BY <1>0, <1>2, <1>3, <3>2
    <3> QED  BY <3>2, <3>3
  <2>3. \A k \in Nat : k \in S
    <3> HIDE DEF S
    <3> QED  BY <2>1, <2>2, Induction
  <2> QED  BY <1>0, <2>3
<1>5. \A k \in 0..Len(s) : g[k] <= g[Len(s)]
  <2> DEFINE S == {j \in Nat : j <= Len(s) => g[Len(s) - j] <= g[Len(s)]}
  <2>1. 0 \in S
    <3>1. g[Len(s)] \in Int /\ Len(s) - 0 = Len(s)
      BY <1>0, <1>2
    <3> QED  BY <3>1
  <2>2. ASSUME NEW j \in Nat, j \in S PROVE j + 1 \in S
    <3>1. SUFFICES ASSUME j + 1 <= Len(s) PROVE g[Len(s) - (j + 1)] <= g[Len(s)]
      OBVIOUS
    <3> DEFINE k == Len(s) - (j + 1)
    <3>2. k \in 0..(Len(s) - 1) /\ k + 1 = Len(s) - j /\ k + 1 \in 1..Len(s)
      BY <1>0, <3>1
    <3>3. g[k + 1] <= g[Len(s)]
      BY <2>2, <3>1, <3>2
    <3> HIDE DEF k
    <3>4. /\ g[k] \in Int /\ g[k + 1] \in Int /\ g[Len(s)] \in Int
          /\ s[k + 1] \in Nat /\ g[k + 1] = g[k] + s[k + 1]
      BY <1>0, <1>2, <1>3, <3>2
    <3>5. g[k] <= g[Len(s)]
      BY <3>3, <3>4
    <3> QED  BY <3>5 DEF k
  <2>3. \A j \in Nat : j \in S
    <3> HIDE DEF S
    <3> QED  BY <2>1, <2>2, Induction
  <2>4. ASSUME NEW k \in 0..Len(s) PROVE g[k] <= g[Len(s)]
    <3>1. Len(s) - k \in Nat /\ Len(s) - k <= Len(s) /\ Len(s) - (Len(s) - k) = k
      BY <1>0
    <3>2. Len(s) - k \in S
      BY <2>3, <3>1
    <3>3. g[Len(s) - (Len(s) - k)] <= g[Len(s)]
      BY <3>1, <3>2
    <3> QED  BY <3>1, <3>3
  <2> QED  BY <2>4
<1>6. g \in [0..Len(s) -> Nat]
  <2>1. g \in [0..Len(s) -> Int]
    BY <1>1 DEF IsTrace
  <2> QED  BY <1>2, <1>4, <2>1
<1>7. g[0] = 0 /\ g[Len(s)] = Total(0, s)
  BY <1>1 DEF IsTrace
<1>8. Sums(g, s)
  BY <1>3, <1>5, <1>6, <1>7 DEF Sums
<1> QED  BY <1>8

-----------------------------------------------------------------------------
(* The fields of a PMU                                                     *)

ChannelKinds == {"phasor", "analog", "digital"}

\* The kinds of channels, in the order they are written
LEMMA KindsAre ==
  /\ Kinds[1] = "phasor" /\ Kinds[2] = "analog" /\ Kinds[3] = "digital"
  /\ \A i \in 1..3 : Kinds[i] \in ChannelKinds
  /\ {Kinds[i] : i \in 1..3} = ChannelKinds
  /\ (CHOOSE i \in 1..3 : Kinds[i] = "phasor") = 1
  /\ (CHOOSE i \in 1..3 : Kinds[i] = "analog") = 2
  /\ (CHOOSE i \in 1..3 : Kinds[i] = "digital") = 3
<1>1. Kinds[1] = "phasor" /\ Kinds[2] = "analog" /\ Kinds[3] = "digital"
  BY DEF Kinds
<1>2. \A i \in 1..3 : i = 1 \/ i = 2 \/ i = 3
  OBVIOUS
<1>3. 1 \in 1..3 /\ 2 \in 1..3 /\ 3 \in 1..3
  OBVIOUS
<1>4. \A i \in 1..3 : Kinds[i] \in ChannelKinds
  BY <1>1, <1>2 DEF ChannelKinds
<1>5. {Kinds[i] : i \in 1..3} = ChannelKinds
  BY <1>1, <1>2, <1>3 DEF ChannelKinds
<1>6. (CHOOSE i \in 1..3 : Kinds[i] = "phasor") = 1
  BY <1>1, <1>2, <1>3
<1>7. (CHOOSE i \in 1..3 : Kinds[i] = "analog") = 2
  BY <1>1, <1>2, <1>3
<1>8. (CHOOSE i \in 1..3 : Kinds[i] = "digital") = 3
  BY <1>1, <1>2, <1>3
<1> QED  BY <1>1, <1>4, <1>5, <1>6, <1>7, <1>8

\* The names and the infos of a PMU are lists as long as its counts say.
LEMMA PmuLists ==
  ASSUME NEW c, IsPmu(c), NEW k \in ChannelKinds
  PROVE  /\ c.count[k] \in Nat
         /\ IsList(c.names[k]) /\ Len(c.names[k]) = NamesPer(k) * c.count[k]
         /\ IsList(c.info[k]) /\ Len(c.info[k]) = c.count[k]
         /\ SubSeq(c.info[k], 1, c.count[k]) = c.info[k]
<1>1. c.count[k] \in Nat
  BY DEF IsPmu, ChannelKinds
<1>2. NamesPer(k) * c.count[k] \in Nat
  BY <1>1 DEF NamesPer
<1>3. c.names[k] = [i \in 1..(NamesPer(k) * c.count[k]) |-> c.names[k][i]]
  BY Zenon DEF IsPmu, ChannelKinds
<1>4. c.info[k] = [i \in 1..c.count[k] |-> c.info[k][i]]
  BY Zenon DEF IsPmu, ChannelKinds
<1> DEFINE n == NamesPer(k) * c.count[k]
           s == c.names[k]
           m == c.count[k]
           t == c.info[k]
<1>5. n \in Nat /\ m \in Nat /\ s = [i \in 1..n |-> s[i]] /\ t = [i \in 1..m |-> t[i]]
  BY <1>1, <1>2, <1>3, <1>4
<1> HIDE DEF n, s, m, t
<1>6. IsList(s) /\ Len(s) = n /\ IsList(t) /\ Len(t) = m
  BY <1>5 DEF IsList
<1>7. SubSeq(t, 1, m) = t
  <2>1. t \in Seq(Elements(t))
    BY <1>6, ListSeq
  <2> QED  BY <1>6, <2>1
<1> QED  BY <1>5, <1>6, <1>7 DEF n, s, m, t

PmuStart(c) ==
  <<F(16, c.station), F(2, c.id), F(2, c.format)>> \o [i \in 1..3 |-> F(2, c.count[Kinds[i]])]
NameFields(c, i) == Fields(16, c.names[Kinds[i]])
InfoFields(c, i) == Fields(4, c.info[Kinds[i]])
PmuEnd(c) == <<F(2, IF c.nominal = 50 THEN 1 ELSE 0), F(2, c.change)>>

PmuParts(c) ==
  ((PmuStart(c) \o ((NameFields(c, 1) \o NameFields(c, 2)) \o NameFields(c, 3)))
     \o ((InfoFields(c, 1) \o InfoFields(c, 2)) \o InfoFields(c, 3))) \o PmuEnd(c)

\* The first six fields of a PMU
LEMMA StartFacts ==
  ASSUME NEW c
  PROVE  /\ IsList(PmuStart(c)) /\ Len(PmuStart(c)) = 6
         /\ PmuStart(c)[1] = F(16, c.station) /\ PmuStart(c)[2] = F(2, c.id)
         /\ PmuStart(c)[3] = F(2, c.format)
         /\ \A i \in 1..3 : PmuStart(c)[3 + i] = F(2, c.count[Kinds[i]])
         /\ Widths(PmuStart(c)) = <<16, 2, 2, 2, 2, 2>>
<1> DEFINE a == <<F(16, c.station), F(2, c.id), F(2, c.format)>>
           b == [i \in 1..3 |-> F(2, c.count[Kinds[i]])]
           s == PmuStart(c)
<1>1. IsList(a) /\ Len(a) = 3
  BY DEF IsList
<1>2. /\ IsList(b) /\ Len(b) = 3 /\ \A i \in 1..3 : b[i] = F(2, c.count[Kinds[i]])
  BY DEF IsList
<1>3. a[1] = F(16, c.station) /\ a[2] = F(2, c.id) /\ a[3] = F(2, c.format)
  OBVIOUS
<1>4. s = a \o b
  BY DEF PmuStart
<1> HIDE DEF a, b, s
<1>5. /\ IsList(s) /\ Len(s) = 3 + 3
      /\ \A i \in 1..3 : s[i] = a[i]
      /\ \A i \in 1..3 : s[3 + i] = b[i]
  <2>1. /\ IsList(s) /\ Len(s) = Len(a) + Len(b)
        /\ \A i \in 1..Len(a) : s[i] = a[i]
        /\ \A i \in 1..Len(b) : s[Len(a) + i] = b[i]
    <3>1. IsList(a) /\ IsList(b)
      BY <1>1, <1>2
    <3> QED  BY <1>4, <3>1, Joined
  <2> QED  BY <1>1, <1>2, <2>1
<1>6. s[1] = F(16, c.station) /\ s[2] = F(2, c.id) /\ s[3] = F(2, c.format)
  BY <1>3, <1>5
<1>7. \A i \in 1..3 : s[3 + i] = F(2, c.count[Kinds[i]])
  BY <1>2, <1>5
<1>8. Widths(s) = <<16, 2, 2, 2, 2, 2>>
  <2>1. /\ s[1].w = 16 /\ s[2].w = 2 /\ s[3].w = 2
        /\ s[4].w = 2 /\ s[5].w = 2 /\ s[6].w = 2
    <3>1. s[3 + 1] = F(2, c.count[Kinds[1]]) /\ s[3 + 2] = F(2, c.count[Kinds[2]])
          /\ s[3 + 3] = F(2, c.count[Kinds[3]])
      BY <1>7
    <3> QED  BY <1>6, <3>1 DEF F
  <2>2. Widths(s) = [i \in 1..6 |-> s[i].w]
    BY <1>5 DEF Widths
  <2> DEFINE w == <<16, 2, 2, 2, 2, 2>>
  <2>3. \A i \in 1..6 : w[i] = s[i].w
    BY <2>1
  <2>4. w = [i \in 1..6 |-> w[i]]
    OBVIOUS
  <2> HIDE DEF w
  <2>5. Widths(s) = w
    BY <2>2, <2>3, <2>4
  <2> QED  BY <2>5 DEF w
<1> QED  BY <1>5, <1>6, <1>7, <1>8 DEF s

\* The last two fields of a PMU
LEMMA EndFacts ==
  ASSUME NEW c
  PROVE  /\ IsList(PmuEnd(c)) /\ Len(PmuEnd(c)) = 2
         /\ PmuEnd(c)[1].v = (IF c.nominal = 50 THEN 1 ELSE 0)
         /\ PmuEnd(c)[2].v = c.change
         /\ Widths(PmuEnd(c)) = <<2, 2>>
<1> DEFINE x == F(2, IF c.nominal = 50 THEN 1 ELSE 0)
           y == F(2, c.change)
<1>1. /\ x.w = 2 /\ x.v = (IF c.nominal = 50 THEN 1 ELSE 0)
      /\ y.w = 2 /\ y.v = c.change
  BY DEF F
<1>2. PmuEnd(c) = <<x, y>>
  BY DEF PmuEnd
<1> HIDE DEF x, y
<1>3. IsList(<<x, y>>) /\ Len(<<x, y>>) = 2 /\ <<x, y>>[1] = x /\ <<x, y>>[2] = y
  BY DEF IsList
<1>4. Widths(<<x, y>>) = <<2, 2>>
  BY <1>1 DEF Widths
<1> QED  BY <1>1, <1>2, <1>3, <1>4

\* What a PMU is written as, part by part
LEMMA PmuLayout ==
  ASSUME NEW c, IsPmu(c)
  PROVE  /\ PlainFields(c) = PmuParts(c)
         /\ IsList(PmuStart(c)) /\ IsList(PmuEnd(c))
         /\ \A i \in 1..3 : IsList(NameFields(c, i)) /\ IsList(InfoFields(c, i))
<1>1. ASSUME NEW i \in 1..3
      PROVE  /\ IsList(NameFields(c, i)) /\ IsList(InfoFields(c, i))
             /\ SubSeq(c.info[Kinds[i]], 1, c.count[Kinds[i]]) = c.info[Kinds[i]]
  <2>1. Kinds[i] \in ChannelKinds
    BY KindsAre
  <2>2. /\ IsList(c.names[Kinds[i]]) /\ IsList(c.info[Kinds[i]])
        /\ SubSeq(c.info[Kinds[i]], 1, c.count[Kinds[i]]) = c.info[Kinds[i]]
    BY <2>1, PmuLists
  <2> QED  BY <2>2, FieldsFacts DEF NameFields, InfoFields
<1> DEFINE names == [i \in 1..3 |-> NameFields(c, i)]
           infos == [i \in 1..3 |-> InfoFields(c, i)]
<1>2. Concat(names) = (NameFields(c, 1) \o NameFields(c, 2)) \o NameFields(c, 3)
  <2>1. /\ names = [i \in 1..3 |-> names[i]] /\ \A i \in 1..3 : IsList(names[i])
        /\ names[1] = NameFields(c, 1) /\ names[2] = NameFields(c, 2)
        /\ names[3] = NameFields(c, 3)
    BY <1>1
  <2> HIDE DEF names
  <2> QED  BY <2>1, ConcatThree
<1>3. Concat(infos) = (InfoFields(c, 1) \o InfoFields(c, 2)) \o InfoFields(c, 3)
  <2>1. /\ infos = [i \in 1..3 |-> infos[i]] /\ \A i \in 1..3 : IsList(infos[i])
        /\ infos[1] = InfoFields(c, 1) /\ infos[2] = InfoFields(c, 2)
        /\ infos[3] = InfoFields(c, 3)
    BY <1>1
  <2> HIDE DEF infos
  <2> QED  BY <2>1, ConcatThree
<1>4. [i \in 1..3 |-> Fields(16, c.names[Kinds[i]])] = names
  BY DEF NameFields
<1>5. [i \in 1..3 |-> Fields(4, SubSeq(c.info[Kinds[i]], 1, c.count[Kinds[i]]))] = infos
  BY <1>1 DEF InfoFields
<1> HIDE DEF names, infos
<1>6. PlainFields(c) = ((PmuStart(c) \o Concat(names)) \o Concat(infos)) \o PmuEnd(c)
  BY <1>4, <1>5, Zenon DEF PlainFields, PmuStart, PmuEnd
<1>7. PlainFields(c) = PmuParts(c)
  BY <1>2, <1>3, <1>6, Zenon DEF PmuParts
<1> QED  BY <1>1, <1>7, StartFacts, EndFacts

NameWidths(count, k) == Times(16, NamesPer(k) * count[k])
InfoWidths(count, k) == Times(4, count[k])

PartWidths(count) ==
  ((<<16, 2, 2, 2, 2, 2>>
      \o ((NameWidths(count, "phasor") \o NameWidths(count, "analog"))
            \o NameWidths(count, "digital")))
     \o ((InfoWidths(count, "phasor") \o InfoWidths(count, "analog"))
           \o InfoWidths(count, "digital"))) \o <<2, 2>>

\* The widths the parser expects are those of the parts.
LEMMA PmuWidthsAre ==
  ASSUME NEW count \in [ChannelKinds -> Nat]
  PROVE  PmuWidths(count) = PartWidths(count)
<1>1. ASSUME NEW k \in ChannelKinds
      PROVE  count[k] \in Nat /\ NamesPer(k) * count[k] \in Nat
  <2>1. count[k] \in Nat
    OBVIOUS
  <2> QED  BY <2>1 DEF NamesPer
<1>2. ASSUME NEW k \in ChannelKinds
      PROVE  IsList(NameWidths(count, k)) /\ IsList(InfoWidths(count, k))
  BY <1>1, TimesFacts DEF NameWidths, InfoWidths
<1> DEFINE names == [i \in 1..3 |-> NameWidths(count, Kinds[i])]
           infos == [i \in 1..3 |-> InfoWidths(count, Kinds[i])]
<1>3. /\ names = [i \in 1..3 |-> names[i]] /\ \A i \in 1..3 : IsList(names[i])
      /\ names[1] = NameWidths(count, "phasor") /\ names[2] = NameWidths(count, "analog")
      /\ names[3] = NameWidths(count, "digital")
  BY <1>2, KindsAre
<1>4. /\ infos = [i \in 1..3 |-> infos[i]] /\ \A i \in 1..3 : IsList(infos[i])
      /\ infos[1] = InfoWidths(count, "phasor") /\ infos[2] = InfoWidths(count, "analog")
      /\ infos[3] = InfoWidths(count, "digital")
  BY <1>2, KindsAre
<1>5. PmuWidths(count) = ((<<16, 2, 2, 2, 2, 2>> \o Concat(names)) \o Concat(infos)) \o <<2, 2>>
  BY DEF PmuWidths, NameWidths, InfoWidths
<1> HIDE DEF names, infos
<1>6. Concat(names) = (names[1] \o names[2]) \o names[3]
  BY <1>3, ConcatThree
<1>7. Concat(infos) = (infos[1] \o infos[2]) \o infos[3]
  BY <1>4, ConcatThree
<1> QED  BY <1>3, <1>4, <1>5, <1>6, <1>7, Zenon DEF PartWidths

\* Sequences of numbers joined are sequences of numbers.
LEMMA JoinTypes ==
  ASSUME NEW E, NEW a \in Seq(E), NEW b \in Seq(E)
  PROVE  a \o b \in Seq(E)
OBVIOUS

\* The widths of what is written of a PMU are those the parser reads by.
LEMMA PmuFieldWidths ==
  ASSUME NEW c, IsPmu(c)
  PROVE  Widths(PlainFields(c)) = PmuWidths(c.count) /\ IsList(PlainFields(c))
<1> DEFINE s == PmuStart(c)
           n1 == NameFields(c, 1)  n2 == NameFields(c, 2)  n3 == NameFields(c, 3)
           i1 == InfoFields(c, 1)  i2 == InfoFields(c, 2)  i3 == InfoFields(c, 3)
           e == PmuEnd(c)
<1>1. PlainFields(c) = ((s \o ((n1 \o n2) \o n3)) \o ((i1 \o i2) \o i3)) \o e
  BY PmuLayout DEF PmuParts
<1>2. /\ IsList(s) /\ IsList(e) /\ IsList(n1) /\ IsList(n2) /\ IsList(n3)
      /\ IsList(i1) /\ IsList(i2) /\ IsList(i3)
  BY PmuLayout, 1 \in 1..3, 2 \in 1..3, 3 \in 1..3
<1>3. ASSUME NEW i \in 1..3
      PROVE  /\ Widths(NameFields(c, i)) = NameWidths(c.count, Kinds[i])
             /\ Widths(InfoFields(c, i)) = InfoWidths(c.count, Kinds[i])
  <2>1. Kinds[i] \in ChannelKinds
    BY KindsAre
  <2>2. /\ IsList(c.names[Kinds[i]]) /\ IsList(c.info[Kinds[i]])
        /\ Len(c.names[Kinds[i]]) = NamesPer(Kinds[i]) * c.count[Kinds[i]]
        /\ Len(c.info[Kinds[i]]) = c.count[Kinds[i]]
    BY <2>1, PmuLists
  <2> QED  BY <2>2, FieldsFacts DEF NameFields, InfoFields, NameWidths, InfoWidths
<1>4. /\ Widths(n1) = NameWidths(c.count, "phasor")
      /\ Widths(n2) = NameWidths(c.count, "analog")
      /\ Widths(n3) = NameWidths(c.count, "digital")
      /\ Widths(i1) = InfoWidths(c.count, "phasor")
      /\ Widths(i2) = InfoWidths(c.count, "analog")
      /\ Widths(i3) = InfoWidths(c.count, "digital")
  BY <1>3, KindsAre, 1 \in 1..3, 2 \in 1..3, 3 \in 1..3
<1>5. Widths(s) = <<16, 2, 2, 2, 2, 2>> /\ Widths(e) = <<2, 2>>
  BY StartFacts, EndFacts
<1> HIDE DEF s, n1, n2, n3, i1, i2, i3, e
<1>6. IsList(n1 \o n2) /\ Widths(n1 \o n2) = Widths(n1) \o Widths(n2)
  BY <1>2, Joined, WidthsJoin
<1>7. /\ IsList((n1 \o n2) \o n3)
      /\ Widths((n1 \o n2) \o n3) = (Widths(n1) \o Widths(n2)) \o Widths(n3)
  BY <1>2, <1>6, Joined, WidthsJoin
<1>8. IsList(i1 \o i2) /\ Widths(i1 \o i2) = Widths(i1) \o Widths(i2)
  BY <1>2, Joined, WidthsJoin
<1>9. /\ IsList((i1 \o i2) \o i3)
      /\ Widths((i1 \o i2) \o i3) = (Widths(i1) \o Widths(i2)) \o Widths(i3)
  BY <1>2, <1>8, Joined, WidthsJoin
<1> DEFINE n == (n1 \o n2) \o n3
           m == (i1 \o i2) \o i3
<1>10. IsList(s \o n) /\ Widths(s \o n) = Widths(s) \o Widths(n)
  <2>1. IsList(n)
    BY <1>7
  <2> HIDE DEF n
  <2> QED  BY <1>2, <2>1, Joined, WidthsJoin
<1>11. IsList((s \o n) \o m) /\ Widths((s \o n) \o m) = Widths(s \o n) \o Widths(m)
  <2>1. IsList(m)
    BY <1>9
  <2> HIDE DEF n, m
  <2> QED  BY <1>10, <2>1, Joined, WidthsJoin
<1>12. /\ IsList(((s \o n) \o m) \o e)
       /\ Widths(((s \o n) \o m) \o e) = Widths((s \o n) \o m) \o Widths(e)
  <2> HIDE DEF n, m
  <2> QED  BY <1>2, <1>11, Joined, WidthsJoin
<1>13. Widths(((s \o n) \o m) \o e)
         = ((Widths(s) \o Widths(n)) \o Widths(m)) \o Widths(e)
  <2> HIDE DEF n, m
  <2> QED  BY <1>10, <1>11, <1>12, Zenon
<1>14. Widths(((s \o n) \o m) \o e) = PartWidths(c.count)
  <2>1. /\ Widths(n) = (Widths(n1) \o Widths(n2)) \o Widths(n3)
        /\ Widths(m) = (Widths(i1) \o Widths(i2)) \o Widths(i3)
    BY <1>7, <1>9
  <2> HIDE DEF n, m
  <2> QED  BY <1>4, <1>5, <1>13, <2>1, Zenon DEF PartWidths
<1>15. c.count \in [ChannelKinds -> Nat]
  BY DEF IsPmu, ChannelKinds
<1> QED  BY <1>1, <1>12, <1>14, <1>15, PmuWidthsAre

\* The bytes of what is written of a PMU, as getPmuConfigSize counts them
PmuSize(count) == 30 + 20 * count["phasor"] + 20 * count["analog"] + 260 * count["digital"]

\* The parts add up to the size that is computed for a PMU.
LEMMA WidthsTotal ==
  ASSUME NEW count \in [ChannelKinds -> Nat]
  PROVE  Total(0, PmuWidths(count)) = PmuSize(count)
<1> DEFINE p == count["phasor"]  a == count["analog"]  d == count["digital"]
<1>1. p \in Nat /\ a \in Nat /\ d \in Nat
  BY DEF ChannelKinds
<1> DEFINE np == NameWidths(count, "phasor")  na == NameWidths(count, "analog")
           nd == NameWidths(count, "digital")
           ip == InfoWidths(count, "phasor")  ia == InfoWidths(count, "analog")
           id == InfoWidths(count, "digital")
           s == <<16, 2, 2, 2, 2, 2>>
           e == <<2, 2>>
<1>2. /\ np = Times(16, p) /\ na = Times(16, a) /\ nd = Times(16, 16 * d)
      /\ ip = Times(4, p) /\ ia = Times(4, a) /\ id = Times(4, d)
  <2>1. NamesPer("phasor") = 1 /\ NamesPer("analog") = 1 /\ NamesPer("digital") = 16
    BY DEF NamesPer
  <2>2. 1 * p = p /\ 1 * a = a
    BY <1>1
  <2> QED  BY <2>1, <2>2 DEF NameWidths, InfoWidths
<1>3. /\ s = Times(16, 1) \o Times(2, 5)
      /\ e = Times(2, 2)
  <2>1. e = Times(2, 2)
    BY DEF Times
  <2>2. Times(16, 1) \in Seq(Nat) /\ Times(2, 5) \in Seq(Nat)
    BY TimesIs
  <2>3. /\ Len(Times(16, 1)) = 1 /\ Len(Times(2, 5)) = 5
        /\ Times(16, 1)[1] = 16 /\ \A i \in 1..5 : Times(2, 5)[i] = 2
    BY DEF Times
  <2> DEFINE x == Times(16, 1)  y == Times(2, 5)  t == x \o y
  <2>4. /\ IsList(t) /\ Len(t) = Len(x) + Len(y)
        /\ \A i \in 1..Len(x) : t[i] = x[i]
        /\ \A i \in 1..Len(y) : t[Len(x) + i] = y[i]
    <3>1. IsList(x) /\ IsList(y)
      BY <2>2, SeqList
    <3> HIDE DEF x, y
    <3> QED  BY <3>1, Joined
  <2>5. s = [i \in 1..6 |-> IF i = 1 THEN 16 ELSE 2]
    OBVIOUS
  <2>6. s = t
    <3>1. /\ Len(x) = 1 /\ Len(y) = 5 /\ x[1] = 16 /\ \A i \in 1..5 : y[i] = 2
      BY <2>3
    <3> HIDE DEF x, y, t, s
    <3>2. Len(t) = 6 /\ t = [i \in 1..6 |-> t[i]]
      BY <2>4, <3>1 DEF IsList
    <3>3. t[1] = 16
      BY <2>4, <3>1
    <3>4. ASSUME NEW i \in 1..6, i # 1 PROVE t[i] = 2
      <4> DEFINE j == i - 1
      <4>1. j \in 1..5 /\ i = 1 + j
        BY <3>4
      <4> HIDE DEF j
      <4>2. t[Len(x) + j] = y[j]
        BY <2>4, <3>1, <4>1
      <4> QED  BY <3>1, <4>1, <4>2
    <3>5. \A i \in 1..6 : t[i] = IF i = 1 THEN 16 ELSE 2
      BY <3>3, <3>4
    <3> QED  BY <2>5, <3>2, <3>5
  <2> HIDE DEF x, y, t, s
  <2> QED  BY <2>1, <2>6 DEF t, x, y
<1>4. PmuWidths(count) = ((s \o ((np \o na) \o nd)) \o ((ip \o ia) \o id)) \o e
  BY PmuWidthsAre DEF PartWidths
<1> HIDE DEF np, na, nd, ip, ia, id, s, e, p, a, d
<1>5. /\ np \in Seq(Nat) /\ Total(0, np) = 16 * p
      /\ na \in Seq(Nat) /\ Total(0, na) = 16 * a
      /\ nd \in Seq(Nat) /\ Total(0, nd) = 16 * (16 * d)
      /\ ip \in Seq(Nat) /\ Total(0, ip) = 4 * p
      /\ ia \in Seq(Nat) /\ Total(0, ia) = 4 * a
      /\ id \in Seq(Nat) /\ Total(0, id) = 4 * d
  <2>1. 16 \in Nat /\ 4 \in Nat /\ 16 * d \in Nat
    BY <1>1
  <2> QED  BY <1>1, <1>2, <2>1, TimesIs, TimesTotal
<1>6. s \in Seq(Nat) /\ Total(0, s) = 26
  <2>1. /\ Times(16, 1) \in Seq(Nat) /\ Total(0, Times(16, 1)) = 16 * 1
        /\ Times(2, 5) \in Seq(Nat) /\ Total(0, Times(2, 5)) = 2 * 5
    BY TimesIs, TimesTotal
  <2> QED  BY <1>3, <2>1, TotalJoin, JoinTypes
<1>7. e \in Seq(Nat) /\ Total(0, e) = 4
  <2>1. Times(2, 2) \in Seq(Nat) /\ Total(0, Times(2, 2)) = 2 * 2
    BY TimesIs, TimesTotal
  <2> QED  BY <1>3, <2>1
<1>8. np \o na \in Seq(Nat) /\ Total(0, np \o na) = 16 * p + 16 * a
  BY <1>5, TotalJoin, JoinTypes
<1> DEFINE n == (np \o na) \o nd
           m == (ip \o ia) \o id
<1>9. n \in Seq(Nat) /\ Total(0, n) = (16 * p + 16 * a) + 256 * d
  <2> DEFINE u == np \o na
  <2>1. u \in Seq(Nat) /\ Total(0, u) = 16 * p + 16 * a
    BY <1>8
  <2> HIDE DEF u
  <2>2. u \o nd \in Seq(Nat) /\ Total(0, u \o nd) = Total(0, u) + Total(0, nd)
    BY <1>5, <2>1, TotalJoin, JoinTypes
  <2>3. Total(0, u \o nd) = (16 * p + 16 * a) + 256 * d
    BY <1>1, <1>5, <2>1, <2>2
  <2> QED  BY <2>2, <2>3 DEF u
<1>10. ip \o ia \in Seq(Nat) /\ Total(0, ip \o ia) = 4 * p + 4 * a
  BY <1>5, TotalJoin, JoinTypes
<1>11. m \in Seq(Nat) /\ Total(0, m) = (4 * p + 4 * a) + 4 * d
  BY <1>1, <1>5, <1>10, TotalJoin, JoinTypes
<1> HIDE DEF n, m
<1>12. s \o n \in Seq(Nat) /\ Total(0, s \o n) = 26 + Total(0, n)
  BY <1>6, <1>9, TotalJoin, JoinTypes
<1>13. (s \o n) \o m \in Seq(Nat) /\ Total(0, (s \o n) \o m) = Total(0, s \o n) + Total(0, m)
  BY <1>11, <1>12, TotalJoin, JoinTypes
<1>14. Total(0, ((s \o n) \o m) \o e) = Total(0, (s \o n) \o m) + 4
  BY <1>7, <1>13, TotalJoin, JoinTypes
<1>15. Total(0, ((s \o n) \o m) \o e) = 30 + 20 * p + 20 * a + 260 * d
  BY <1>1, <1>9, <1>11, <1>12, <1>13, <1>14
<1> QED  BY <1>4, <1>15 DEF n, m, PmuSize, p, a, d

-----------------------------------------------------------------------------
(* Reading back                                                            *)

Starts(a, s) ==
  IsList(a) /\ IsList(s) /\ Len(a) <= Len(s) /\ \A i \in 1..Len(a) : s[i] = a[i]

\* the list p stands in s behind k elements
Reads(s, k, p) ==
  IsList(s) /\ IsList(p) /\ k \in Nat /\ k + Len(p) <= Len(s)
  /\ \A i \in 1..Len(p) : s[k + i] = p[i]

\* What starts with two lists joined starts with the first,
LEMMA StartsWith ==
  ASSUME NEW a, NEW p, NEW s, IsList(a), IsList(p), Starts(a \o p, s)
  PROVE  Starts(a, s) /\ Reads(s, Len(a), p)
<1> DEFINE t == a \o p
<1>1. /\ IsList(t) /\ Len(t) = Len(a) + Len(p)
      /\ \A i \in 1..Len(a) : t[i] = a[i]
      /\ \A i \in 1..Len(p) : t[Len(a) + i] = p[i]
  BY Joined
<1>2. Starts(t, s)
  OBVIOUS
<1> HIDE DEF t
<1>3. Len(a) \in Nat /\ Len(p) \in Nat /\ IsList(s) /\ Len(s) \in Nat /\ Len(t) <= Len(s)
  BY <1>2 DEF Starts, IsList
<1>4. \A i \in 1..Len(t) : s[i] = t[i]
  BY <1>2 DEF Starts
<1>5. Starts(a, s)
  BY <1>1, <1>3, <1>4 DEF Starts
<1>6. ASSUME NEW i \in 1..Len(p) PROVE s[Len(a) + i] = p[i]
  <2>1. Len(a) + i \in 1..Len(t)
    BY <1>1, <1>3
  <2> QED  BY <1>1, <1>4, <2>1
<1> QED  BY <1>1, <1>3, <1>5, <1>6 DEF Reads

\* a list starts with itself,
LEMMA StartsItself ==
  ASSUME NEW a, NEW b, IsList(a), IsList(b)
  PROVE  Starts(a, a \o b)
<1>1. /\ IsList(a \o b) /\ Len(a \o b) = Len(a) + Len(b)
      /\ \A i \in 1..Len(a) : (a \o b)[i] = a[i]
  BY Joined
<1>2. Len(a) \in Nat /\ Len(b) \in Nat
  BY DEF IsList
<1> QED  BY <1>1, <1>2 DEF Starts

\* and the part it starts with can be cut out.
LEMMA StartsSub ==
  ASSUME NEW a, NEW s, Starts(a, s)
  PROVE  SubSeq(s, 1, Len(a)) = a
<1> DEFINE E == Elements(s)
           u == SubSeq(s, 1, Len(a))
<1>1. s \in Seq(E) /\ Len(a) \in Nat /\ Len(a) <= Len(s)
  BY ListSeq DEF Starts, IsList
<1>2. Len(u) = Len(a) /\ u = [i \in 1..Len(a) |-> s[i]]
  BY <1>1
<1>3. a = [i \in 1..Len(a) |-> a[i]]
  BY DEF Starts, IsList
<1> HIDE DEF u
<1>4. \A i \in 1..Len(a) : s[i] = a[i]
  BY DEF Starts
<1>5. u = a
  BY <1>2, <1>3, <1>4
<1> QED  BY <1>5 DEF u

\* So can a part that stands further on.
LEMMA ReadsSub ==
  ASSUME NEW s, NEW k, NEW p, Reads(s, k, p)
  PROVE  SubSeq(s, k + 1, k + Len(p)) = p
<1> DEFINE E == Elements(s)
           u == SubSeq(s, k + 1, k + Len(p))
<1>1. s \in Seq(E) /\ k \in Nat /\ Len(p) \in Nat /\ k + Len(p) <= Len(s)
  BY ListSeq DEF Reads, IsList
<1>2. u = [i \in 1..Len(p) |-> s[k + i]]
  BY <1>1
<1>3. p = [i \in 1..Len(p) |-> p[i]]
  BY DEF Reads, IsList
<1> HIDE DEF u
<1>4. \A i \in 1..Len(p) : s[k + i] = p[i]
  BY DEF Reads
<1>5. u = p
  BY <1>2, <1>3, <1>4
<1> QED  BY <1>5 DEF u

-----------------------------------------------------------------------------
(* Parsing a PMU                                                           *)

\* One more number adds to a sum.
LEMMA TotalAppend ==
  ASSUME NEW b \in Int, NEW s \in Seq(Int), NEW x \in Int
  PROVE  Total(b, Append(s, x)) = Total(b, s) + x
BY SumFacts

\* A list joined with another is not shorter.
LEMMA Longer ==
  ASSUME NEW a, NEW b, IsList(a), IsList(b)
  PROVE  IsList(a \o b) /\ Len(a \o b) = Len(a) + Len(b)
BY Joined

\* Where a part is read
LEMMA PartPlaces ==
  ASSUME NEW body, NEW from \in Nat, NEW n, n[1] \in Nat, n[2] \in Nat, n[3] \in Nat
  PROVE  /\ Part(body, from, n, 1) = Values(SubSeq(body, from, from + n[1] - 1))
         /\ Part(body, from, n, 2)
              = Values(SubSeq(body, from + n[1], (from + n[1]) + n[2] - 1))
         /\ Part(body, from, n, 3)
              = Values(SubSeq(body, (from + n[1]) + n[2], ((from + n[1]) + n[2]) + n[3] - 1))
<1> DEFINE s(k) == [i \in 1..(k - 1) |-> n[i]]
<1>1. ASSUME NEW k
      PROVE  Part(body, from, n, k)
               = Values(SubSeq(body, Total(from, s(k)), Total(from, s(k)) + n[k] - 1))
  BY DEF Part, Total
<1>2. s(1) = << >> /\ << >> \in Seq(Int)
  OBVIOUS
<1>3. s(2) = Append(<< >>, n[1]) /\ s(2) \in Seq(Int)
  OBVIOUS
<1>4. s(3) = Append(s(2), n[2])
  OBVIOUS
<1>5. from \in Int /\ n[1] \in Int /\ n[2] \in Int
  OBVIOUS
<1> DEFINE a == s(1)  b == s(2)  d == s(3)  none == << >>
<1>6. a = none /\ none \in Seq(Int) /\ b = Append(none, n[1]) /\ b \in Seq(Int)
      /\ d = Append(b, n[2]) /\ none = << >>
  BY <1>2, <1>3, <1>4
<1>7. /\ Part(body, from, n, 1)
           = Values(SubSeq(body, Total(from, a), Total(from, a) + n[1] - 1))
      /\ Part(body, from, n, 2)
           = Values(SubSeq(body, Total(from, b), Total(from, b) + n[2] - 1))
      /\ Part(body, from, n, 3)
           = Values(SubSeq(body, Total(from, d), Total(from, d) + n[3] - 1))
  BY <1>1
<1> HIDE DEF a, b, d, none, s
<1>8. Total(from, none) = from
  BY <1>5, <1>6, SumFacts
<1>9. Total(from, b) = from + n[1]
  <2>1. Total(from, Append(none, n[1])) = Total(from, none) + n[1]
    <3>1. none \in Seq(Int) /\ from \in Int /\ n[1] \in Int
      BY <1>5, <1>6
    <3> QED  BY <3>1, TotalAppend
  <2> QED  BY <1>6, <1>8, <2>1
<1>10. Total(from, d) = (from + n[1]) + n[2]
  <2>1. Total(from, Append(b, n[2])) = Total(from, b) + n[2]
    <3>1. b \in Seq(Int) /\ from \in Int /\ n[2] \in Int
      BY <1>5, <1>6
    <3> QED  BY <3>1, TotalAppend
  <2> QED  BY <1>6, <1>9, <2>1
<1> QED  BY <1>6, <1>7, <1>8, <1>9, <1>10, Zenon

\* The parts of a PMU, each where it is written, in any packet behind it
PartsAt(c, body) ==
  LET ph == c.count["phasor"]  an == c.count["analog"]  dg == c.count["digital"]
      n == 6 + (ph + an + 16 * dg)
      m == n + (ph + an + dg)
  IN /\ Starts(PmuStart(c), body) /\ Starts(PlainFields(c), body)
     /\ Len(PlainFields(c)) = m + 2
     /\ Reads(body, 6, NameFields(c, 1)) /\ Reads(body, 6 + ph, NameFields(c, 2))
     /\ Reads(body, (6 + ph) + an, NameFields(c, 3))
     /\ Reads(body, n, InfoFields(c, 1)) /\ Reads(body, n + ph, InfoFields(c, 2))
     /\ Reads(body, (n + ph) + an, InfoFields(c, 3))
     /\ Reads(body, m, PmuEnd(c))

\* Where each part of a PMU stands among its fields
LEMMA PmuParted ==
  ASSUME NEW c, IsPmu(c), NEW t, IsList(t)
  PROVE  PartsAt(c, PlainFields(c) \o t)
<1> DEFINE s == PmuStart(c)
           n1 == NameFields(c, 1)  n2 == NameFields(c, 2)  n3 == NameFields(c, 3)
           i1 == InfoFields(c, 1)  i2 == InfoFields(c, 2)  i3 == InfoFields(c, 3)
           e == PmuEnd(c)
           body == PlainFields(c) \o t
           ph == c.count["phasor"]  an == c.count["analog"]  dg == c.count["digital"]
<1>1. PlainFields(c) = ((s \o ((n1 \o n2) \o n3)) \o ((i1 \o i2) \o i3)) \o e
  BY PmuLayout DEF PmuParts
<1>2. /\ IsList(s) /\ IsList(e) /\ IsList(n1) /\ IsList(n2) /\ IsList(n3)
      /\ IsList(i1) /\ IsList(i2) /\ IsList(i3)
  BY PmuLayout, 1 \in 1..3, 2 \in 1..3, 3 \in 1..3
<1>3. ph \in Nat /\ an \in Nat /\ dg \in Nat
  BY PmuLists DEF ChannelKinds
<1>4. ASSUME NEW i \in 1..3
      PROVE  /\ Len(NameFields(c, i)) = NamesPer(Kinds[i]) * c.count[Kinds[i]]
             /\ Len(InfoFields(c, i)) = c.count[Kinds[i]]
  <2>1. Kinds[i] \in ChannelKinds
    BY KindsAre
  <2>2. /\ IsList(c.names[Kinds[i]]) /\ IsList(c.info[Kinds[i]])
        /\ Len(c.names[Kinds[i]]) = NamesPer(Kinds[i]) * c.count[Kinds[i]]
        /\ Len(c.info[Kinds[i]]) = c.count[Kinds[i]]
    BY <2>1, PmuLists
  <2> QED  BY <2>2, FieldsFacts DEF NameFields, InfoFields
<1>5. /\ Len(n1) = NamesPer("phasor") * ph /\ Len(n2) = NamesPer("analog") * an
      /\ Len(n3) = NamesPer("digital") * dg
      /\ Len(i1) = ph /\ Len(i2) = an /\ Len(i3) = dg
  BY <1>4, KindsAre, 1 \in 1..3, 2 \in 1..3, 3 \in 1..3
<1>6. Len(n1) = ph /\ Len(n2) = an /\ Len(n3) = 16 * dg
  <2>1. NamesPer("phasor") = 1 /\ NamesPer("analog") = 1 /\ NamesPer("digital") = 16
    BY DEF NamesPer
  <2> QED  BY <1>3, <1>5, <2>1
<1>7. Len(s) = 6 /\ Len(e) = 2
  BY StartFacts, EndFacts
<1>8. IsList(PlainFields(c)) /\ Starts(PlainFields(c), body)
  BY PmuFieldWidths, StartsItself
<1> HIDE DEF s, n1, n2, n3, i1, i2, i3, e, body, ph, an, dg
<1> DEFINE a1 == s \o n1  a2 == a1 \o n2  a3 == a2 \o n3
           b1 == a3 \o i1  b2 == b1 \o i2  b3 == b2 \o i3
<1>9. IsList(a1) /\ Len(a1) = 6 + ph
  <2>1. IsList(s) /\ IsList(n1)
    BY <1>2
  <2> QED  BY <1>6, <1>7, <2>1, Longer
<1>10. IsList(a2) /\ Len(a2) = (6 + ph) + an
  <2> HIDE DEF a1
  <2>1. IsList(a1) /\ IsList(n2)
    BY <1>2, <1>9
  <2> QED  BY <1>6, <1>9, <2>1, Longer
<1>11. IsList(a3) /\ Len(a3) = ((6 + ph) + an) + 16 * dg
  <2> HIDE DEF a2
  <2>1. IsList(a2) /\ IsList(n3)
    BY <1>2, <1>10
  <2> QED  BY <1>6, <1>10, <2>1, Longer
<1>12. IsList(b1) /\ Len(b1) = Len(a3) + ph
  <2> HIDE DEF a3
  <2>1. IsList(a3) /\ IsList(i1)
    BY <1>2, <1>11
  <2> QED  BY <1>5, <1>11, <2>1, Longer
<1>13. IsList(b2) /\ Len(b2) = (Len(a3) + ph) + an
  <2> HIDE DEF a3, b1
  <2>1. IsList(b1) /\ IsList(i2)
    BY <1>2, <1>12
  <2> QED  BY <1>5, <1>12, <2>1, Longer
<1>14. IsList(b3) /\ Len(b3) = ((Len(a3) + ph) + an) + dg
  <2> HIDE DEF a3, b2
  <2>1. IsList(b2) /\ IsList(i3)
    BY <1>2, <1>13
  <2> QED  BY <1>5, <1>13, <2>1, Longer
<1>15. s \o ((n1 \o n2) \o n3) = a3
  <2>1. IsList(n1 \o n2)
    BY <1>2, Joined
  <2>2. s \o ((n1 \o n2) \o n3) = (s \o (n1 \o n2)) \o n3
    <3> DEFINE u == n1 \o n2
    <3>1. IsList(s) /\ IsList(u) /\ IsList(n3)
      BY <1>2, <2>1
    <3> HIDE DEF u
    <3>2. (s \o u) \o n3 = s \o (u \o n3)
      BY <3>1, JoinTwice
    <3> QED  BY <3>2, Zenon DEF u
  <2>3. s \o (n1 \o n2) = a2
    <3>1. IsList(s) /\ IsList(n1) /\ IsList(n2)
      BY <1>2
    <3>2. (s \o n1) \o n2 = s \o (n1 \o n2)
      BY <3>1, JoinTwice
    <3> QED  BY <3>2, Zenon
  <2> QED  BY <2>2, <2>3, Zenon
<1>16. a3 \o ((i1 \o i2) \o i3) = b3
  <2> HIDE DEF a3
  <2>1. IsList(i1 \o i2)
    BY <1>2, Joined
  <2>2. a3 \o ((i1 \o i2) \o i3) = (a3 \o (i1 \o i2)) \o i3
    <3> DEFINE u == i1 \o i2
    <3>1. IsList(a3) /\ IsList(u) /\ IsList(i3)
      BY <1>2, <1>11, <2>1
    <3> HIDE DEF u
    <3>2. (a3 \o u) \o i3 = a3 \o (u \o i3)
      BY <3>1, JoinTwice
    <3> QED  BY <3>2, Zenon DEF u
  <2>3. a3 \o (i1 \o i2) = b2
    <3>1. IsList(a3) /\ IsList(i1) /\ IsList(i2)
      BY <1>2, <1>11
    <3>2. (a3 \o i1) \o i2 = a3 \o (i1 \o i2)
      BY <3>1, JoinTwice
    <3> QED  BY <3>2, Zenon
  <2> QED  BY <2>2, <2>3, Zenon
<1>17. PlainFields(c) = b3 \o e
  BY <1>1, <1>15, <1>16, Zenon
<1>18. Len(PlainFields(c)) = Len(b3) + 2
  <2> HIDE DEF b3
  <2>1. IsList(b3) /\ IsList(e)
    BY <1>2, <1>14
  <2>2. Len(b3 \o e) = Len(b3) + Len(e)
    BY <2>1, Longer
  <2> QED  BY <1>7, <1>17, <2>2, Zenon
<1>19. Starts(b3, body) /\ Reads(body, Len(b3), e)
  <2> HIDE DEF b3
  <2> QED  BY <1>2, <1>8, <1>14, <1>17, StartsWith
<1>20. Starts(b2, body) /\ Reads(body, Len(b2), i3)
  <2> HIDE DEF b2
  <2> QED  BY <1>2, <1>13, <1>19, StartsWith
<1>21. Starts(b1, body) /\ Reads(body, Len(b1), i2)
  <2> HIDE DEF b1
  <2> QED  BY <1>2, <1>12, <1>20, StartsWith
<1>22. Starts(a3, body) /\ Reads(body, Len(a3), i1)
  <2> HIDE DEF a3
  <2> QED  BY <1>2, <1>11, <1>21, StartsWith
<1>23. Starts(a2, body) /\ Reads(body, Len(a2), n3)
  <2> HIDE DEF a2
  <2> QED  BY <1>2, <1>10, <1>22, StartsWith
<1>24. Starts(a1, body) /\ Reads(body, Len(a1), n2)
  <2> HIDE DEF a1
  <2> QED  BY <1>2, <1>9, <1>23, StartsWith
<1>25. Starts(s, body) /\ Reads(body, Len(s), n1)
  BY <1>2, <1>24, StartsWith
<1> HIDE DEF a1, a2, a3, b1, b2, b3
<1> DEFINE n == 6 + (ph + an + 16 * dg)
           m == n + (ph + an + dg)
<1>26. /\ Len(a3) = n /\ Len(b1) = n + ph /\ Len(b2) = (n + ph) + an /\ Len(b3) = m
  BY <1>3, <1>11, <1>12, <1>13, <1>14
<1> HIDE DEF n, m
<1>27. Len(PlainFields(c)) = m + 2
  BY <1>18, <1>26, Zenon
<1>28. Reads(body, 6, n1) /\ Reads(body, 6 + ph, n2) /\ Reads(body, (6 + ph) + an, n3)
  BY <1>7, <1>9, <1>10, <1>23, <1>24, <1>25, Zenon
<1>29. /\ Reads(body, n, i1) /\ Reads(body, n + ph, i2) /\ Reads(body, (n + ph) + an, i3)
       /\ Reads(body, m, e)
  BY <1>19, <1>20, <1>21, <1>22, <1>26, Zenon
<1> QED  BY <1>8, <1>25, <1>27, <1>28, <1>29, Zenon
         DEF PartsAt, s, n1, n2, n3, i1, i2, i3, e, body, ph, an, dg, n, m

\* What the parser makes of a PMU that was written, over the PMU it had
Copy(c, old) ==
  [station |-> c.station, id |-> c.id, format |-> c.format, count |-> c.count,
   names |-> c.names, info |-> [k \in ChannelKinds |-> InfosRead(k, c.info[k])],
   nominal |-> IF c.nominal = 50 THEN 50 ELSE old.nominal,
   change |-> c.change, active |-> old.active, position |-> old.position]

ReadCount(body) ==
  [k \in {Kinds[i] : i \in 1..3} |-> body[3 + CHOOSE i \in 1..3 : Kinds[i] = k].v]

\* The PMU the parser makes when it reads n fields, with these counts
Made(body, old, count, n) ==
  LET infos == [i \in 1..3 |-> count[Kinds[i]]]
      names == [i \in 1..3 |-> NamesPer(Kinds[i]) * infos[i]]
      afterNames == 7 + names[1] + names[2] + names[3]
      index(k) == CHOOSE i \in 1..3 : Kinds[i] = k
  IN [station |-> body[1].v, id |-> body[2].v, format |-> body[3].v,
      count |-> count,
      names |-> [k \in DOMAIN count |-> Part(body, 7, names, index(k))],
      info |-> [k \in DOMAIN count |-> InfosRead(k, Part(body, afterNames, infos, index(k)))],
      nominal |-> IF body[n - 1].v = 1 THEN 50 ELSE old.nominal,
      change |-> body[n].v,
      active |-> old.active, position |-> old.position]

\* The parser makes its PMU of the counts it reads.
LEMMA ParsePmuIs ==
  ASSUME NEW body, NEW old
  PROVE  ParsePmuConfig(body, old) =
           LET count == ReadCount(body)
           IN IF ~Aligned(body, <<16, 2, 2, 2, 2, 2>>) \/ ~Aligned(body, PmuWidths(count))
              THEN [pmu |-> Garbage, used |-> Len(body)]
              ELSE [pmu |-> Made(body, old, count, Len(PmuWidths(count))),
                    used |-> Len(PmuWidths(count))]
BY Zenon DEF ParsePmuConfig, ReadCount, Made

\* What starts with a body is aligned with its widths.
LEMMA StartsAligned ==
  ASSUME NEW a, NEW body, Starts(a, body)
  PROVE  Aligned(body, Widths(a))
<1>1. Len(Widths(a)) = Len(a) /\ Len(a) <= Len(body)
  BY DEF Starts, IsList, Widths
<1>2. Widths(SubSeq(body, 1, Len(a))) = Widths(a)
  BY StartsSub
<1>3. Len(body) \in Nat /\ Len(a) \in Nat
  BY DEF Starts, IsList
<1> QED  BY <1>1, <1>2, <1>3 DEF Aligned

\* The counts are read as they were written.
LEMMA CountsRead ==
  ASSUME NEW c, IsPmu(c), NEW body, Starts(PmuStart(c), body)
  PROVE  ReadCount(body) = c.count
<1>1. ASSUME NEW i \in 1..3 PROVE body[3 + i].v = c.count[Kinds[i]]
  <2>1. Len(PmuStart(c)) = 6 /\ PmuStart(c)[3 + i] = F(2, c.count[Kinds[i]])
    BY StartFacts
  <2>2. 3 + i \in 1..6
    OBVIOUS
  <2>3. body[3 + i] = F(2, c.count[Kinds[i]])
    BY <2>1, <2>2 DEF Starts
  <2> QED  BY <2>3 DEF F
<1>2. ASSUME NEW k \in ChannelKinds
      PROVE  body[3 + CHOOSE i \in 1..3 : Kinds[i] = k].v = c.count[k]
  <2> DEFINE j == CHOOSE i \in 1..3 : Kinds[i] = k
  <2>1. j \in 1..3 /\ Kinds[j] = k
    <3>1. \E i \in 1..3 : Kinds[i] = k
      BY KindsAre
    <3> QED  BY <3>1
  <2> HIDE DEF j
  <2>2. body[3 + j].v = c.count[k]
    BY <1>1, <2>1
  <2> QED  BY <2>2 DEF j
<1>3. ReadCount(body) = [k \in ChannelKinds |-> c.count[k]]
  BY <1>2, KindsAre DEF ReadCount
<1>4. c.count \in [ChannelKinds -> Nat]
  BY DEF IsPmu, ChannelKinds
<1> QED  BY <1>3, <1>4

\* A part that stands where it is read
LEMMA PartReads ==
  ASSUME NEW body, NEW k \in Nat, NEW w, NEW s, IsList(s), Reads(body, k, Fields(w, s))
  PROVE  Values(SubSeq(body, k + 1, (k + 1) + Len(s) - 1)) = s
<1>1. Len(Fields(w, s)) = Len(s) /\ Values(Fields(w, s)) = s /\ Len(s) \in Nat
  BY FieldsFacts DEF IsList
<1>2. SubSeq(body, k + 1, k + Len(Fields(w, s))) = Fields(w, s)
  BY ReadsSub
<1>3. (k + 1) + Len(s) - 1 = k + Len(Fields(w, s))
  BY <1>1
<1> QED  BY <1>1, <1>2, <1>3, Zenon

\* A PMU whose names and infos fit is read back, whatever comes after it.
LEMMA ParsedPlain ==
  ASSUME NEW c, IsPmu(c), NEW t, IsList(t), NEW old
  PROVE  ParsePmuConfig(PlainFields(c) \o t, old)
           = [pmu |-> Copy(c, old), used |-> Len(PlainFields(c))]
<1> DEFINE body == PlainFields(c) \o t
           ph == c.count["phasor"]  an == c.count["analog"]  dg == c.count["digital"]
           n == 6 + (ph + an + 16 * dg)
           m == n + (ph + an + dg)
<1>1. /\ Starts(PmuStart(c), body) /\ Starts(PlainFields(c), body)
      /\ Len(PlainFields(c)) = m + 2
      /\ Reads(body, 6, NameFields(c, 1)) /\ Reads(body, 6 + ph, NameFields(c, 2))
      /\ Reads(body, (6 + ph) + an, NameFields(c, 3))
      /\ Reads(body, n, InfoFields(c, 1)) /\ Reads(body, n + ph, InfoFields(c, 2))
      /\ Reads(body, (n + ph) + an, InfoFields(c, 3))
      /\ Reads(body, m, PmuEnd(c))
  BY PmuParted, Zenon DEF PartsAt
<1> HIDE DEF body
<1>2. ph \in Nat /\ an \in Nat /\ dg \in Nat
  BY PmuLists DEF ChannelKinds
<1>3. ReadCount(body) = c.count
  BY <1>1, CountsRead
<1>4. Aligned(body, <<16, 2, 2, 2, 2, 2>>)
  <2>1. Aligned(body, Widths(PmuStart(c)))
    BY <1>1, StartsAligned
  <2> QED  BY <2>1, StartFacts, Zenon
<1>5. Aligned(body, PmuWidths(c.count)) /\ Len(PmuWidths(c.count)) = m + 2
  <2>1. Aligned(body, Widths(PlainFields(c)))
    BY <1>1, StartsAligned
  <2>2. Widths(PlainFields(c)) = PmuWidths(c.count) /\ IsList(PlainFields(c))
    BY PmuFieldWidths
  <2>3. Len(Widths(PlainFields(c))) = Len(PlainFields(c))
    BY <2>2 DEF Widths, IsList
  <2> QED  BY <1>1, <2>1, <2>2, <2>3, Zenon
<1>6. body[1].v = c.station /\ body[2].v = c.id /\ body[3].v = c.format
  <2>1. /\ Len(PmuStart(c)) = 6
        /\ PmuStart(c)[1] = F(16, c.station) /\ PmuStart(c)[2] = F(2, c.id)
        /\ PmuStart(c)[3] = F(2, c.format)
    BY StartFacts
  <2>2. \A i \in 1..6 : body[i] = PmuStart(c)[i]
    BY <1>1, <2>1 DEF Starts
  <2>3. body[1] = F(16, c.station) /\ body[2] = F(2, c.id) /\ body[3] = F(2, c.format)
    BY <2>1, <2>2
  <2> QED  BY <2>3 DEF F
<1>7. /\ body[m + 1].v = (IF c.nominal = 50 THEN 1 ELSE 0) /\ body[m + 2].v = c.change
  <2>1. /\ Len(PmuEnd(c)) = 2
        /\ PmuEnd(c)[1].v = (IF c.nominal = 50 THEN 1 ELSE 0) /\ PmuEnd(c)[2].v = c.change
    BY EndFacts
  <2>2. \A i \in 1..2 : body[m + i] = PmuEnd(c)[i]
    BY <1>1, <2>1 DEF Reads
  <2> QED  BY <2>1, <2>2
<1> DEFINE infos == [i \in 1..3 |-> c.count[Kinds[i]]]
           names == [i \in 1..3 |-> NamesPer(Kinds[i]) * infos[i]]
           index(k) == CHOOSE i \in 1..3 : Kinds[i] = k
           afterNames == 7 + names[1] + names[2] + names[3]
<1>8. infos[1] = ph /\ infos[2] = an /\ infos[3] = dg
  BY KindsAre
<1>9. names[1] = ph /\ names[2] = an /\ names[3] = 16 * dg
  <2>1. NamesPer("phasor") = 1 /\ NamesPer("analog") = 1 /\ NamesPer("digital") = 16
    BY DEF NamesPer
  <2>2. /\ names[1] = NamesPer("phasor") * ph /\ names[2] = NamesPer("analog") * an
        /\ names[3] = NamesPer("digital") * dg
    BY <1>8, KindsAre
  <2> HIDE DEF names
  <2> QED  BY <1>2, <2>1, <2>2
<1>10. index("phasor") = 1 /\ index("analog") = 2 /\ index("digital") = 3
  BY KindsAre
<1>11. afterNames = n + 1 /\ n \in Nat /\ m \in Nat
  <2> DEFINE p == names[1]  q == names[2]  r == names[3]
  <2>1. p = ph /\ q = an /\ r = 16 * dg
    BY <1>9
  <2> HIDE DEF p, q, r, ph, an, dg
  <2>2. 7 + p + q + r = n + 1 /\ n \in Nat /\ m \in Nat
    BY <1>2, <2>1 DEF ph, an, dg
  <2> QED  BY <2>2, Zenon DEF p, q, r
<1>12. /\ IsList(c.names["phasor"]) /\ Len(c.names["phasor"]) = ph
       /\ IsList(c.names["analog"]) /\ Len(c.names["analog"]) = an
       /\ IsList(c.names["digital"]) /\ Len(c.names["digital"]) = 16 * dg
       /\ IsList(c.info["phasor"]) /\ Len(c.info["phasor"]) = ph
       /\ IsList(c.info["analog"]) /\ Len(c.info["analog"]) = an
       /\ IsList(c.info["digital"]) /\ Len(c.info["digital"]) = dg
  <2>1. NamesPer("phasor") = 1 /\ NamesPer("analog") = 1 /\ NamesPer("digital") = 16
    BY DEF NamesPer
  <2>2. "phasor" \in ChannelKinds /\ "analog" \in ChannelKinds /\ "digital" \in ChannelKinds
    BY DEF ChannelKinds
  <2>3. 1 * ph = ph /\ 1 * an = an
    BY <1>2
  <2> QED  BY <2>1, <2>2, <2>3, PmuLists, SMTT(30)
<1>13. /\ NameFields(c, 1) = Fields(16, c.names["phasor"])
       /\ NameFields(c, 2) = Fields(16, c.names["analog"])
       /\ NameFields(c, 3) = Fields(16, c.names["digital"])
       /\ InfoFields(c, 1) = Fields(4, c.info["phasor"])
       /\ InfoFields(c, 2) = Fields(4, c.info["analog"])
       /\ InfoFields(c, 3) = Fields(4, c.info["digital"])
  BY KindsAre DEF NameFields, InfoFields
<1> HIDE DEF infos, names, index, afterNames, n, m, ph, an, dg
<1>14. /\ Part(body, 7, names, 1) = c.names["phasor"]
       /\ Part(body, 7, names, 2) = c.names["analog"]
       /\ Part(body, 7, names, 3) = c.names["digital"]
  <2>1. 16 * dg \in Nat /\ 7 \in Nat
    BY <1>2
  <2>2. /\ Part(body, 7, names, 1) = Values(SubSeq(body, 7, 7 + names[1] - 1))
        /\ Part(body, 7, names, 2)
             = Values(SubSeq(body, 7 + names[1], (7 + names[1]) + names[2] - 1))
        /\ Part(body, 7, names, 3)
             = Values(SubSeq(body, (7 + names[1]) + names[2],
                             ((7 + names[1]) + names[2]) + names[3] - 1))
    <3>1. names[1] \in Nat /\ names[2] \in Nat /\ names[3] \in Nat
      BY <1>2, <1>9, <2>1
    <3> QED  BY <2>1, <3>1, PartPlaces
  <2>3. /\ Reads(body, 6, Fields(16, c.names["phasor"]))
        /\ Reads(body, 6 + ph, Fields(16, c.names["analog"]))
        /\ Reads(body, (6 + ph) + an, Fields(16, c.names["digital"]))
    BY <1>1, <1>13, Zenon DEF ph, an
  <2>4. /\ 6 \in Nat /\ 6 + ph \in Nat /\ (6 + ph) + an \in Nat
        /\ 7 = 6 + 1 /\ 7 + names[1] = (6 + ph) + 1
        /\ (7 + names[1]) + names[2] = ((6 + ph) + an) + 1
    BY <1>2, <1>9
  <2>5. Values(SubSeq(body, 7, 7 + names[1] - 1)) = c.names["phasor"]
    <3> DEFINE x == c.names["phasor"]  k == 6  from == 7  size == names[1]
    <3>1. IsList(x) /\ Reads(body, k, Fields(16, x)) /\ k \in Nat
      BY <1>9, <1>12, <2>3, <2>4, Zenon
    <3>2. from = k + 1 /\ size = Len(x)
      BY <1>9, <1>12, <2>3, <2>4, Zenon
    <3> HIDE DEF x, k, from, size
    <3>3. Values(SubSeq(body, from, from + size - 1)) = x
      <4>1. Values(SubSeq(body, k + 1, (k + 1) + Len(x) - 1)) = x
        BY <3>1, PartReads
      <4> QED  BY <3>2, <4>1, Zenon
    <3> QED  BY <3>3, Zenon DEF x, k, from, size
  <2>6. Values(SubSeq(body, 7 + names[1], (7 + names[1]) + names[2] - 1)) = c.names["analog"]
    <3> DEFINE x == c.names["analog"]  k == 6 + ph  from == 7 + names[1]  size == names[2]
    <3>1. IsList(x) /\ Reads(body, k, Fields(16, x)) /\ k \in Nat
      BY <1>9, <1>12, <2>3, <2>4, Zenon
    <3>2. from = k + 1 /\ size = Len(x)
      BY <1>9, <1>12, <2>3, <2>4, Zenon
    <3> HIDE DEF x, k, from, size
    <3>3. Values(SubSeq(body, from, from + size - 1)) = x
      <4>1. Values(SubSeq(body, k + 1, (k + 1) + Len(x) - 1)) = x
        BY <3>1, PartReads
      <4> QED  BY <3>2, <4>1, Zenon
    <3> QED  BY <3>3, Zenon DEF x, k, from, size
  <2>7. Values(SubSeq(body, (7 + names[1]) + names[2],
                      ((7 + names[1]) + names[2]) + names[3] - 1)) = c.names["digital"]
    <3> DEFINE x == c.names["digital"]  k == (6 + ph) + an  from == (7 + names[1]) + names[2]
               size == names[3]
    <3>1. IsList(x) /\ Reads(body, k, Fields(16, x)) /\ k \in Nat
      BY <1>9, <1>12, <2>3, <2>4, Zenon
    <3>2. from = k + 1 /\ size = Len(x)
      BY <1>9, <1>12, <2>3, <2>4, Zenon
    <3> HIDE DEF x, k, from, size
    <3>3. Values(SubSeq(body, from, from + size - 1)) = x
      <4>1. Values(SubSeq(body, k + 1, (k + 1) + Len(x) - 1)) = x
        BY <3>1, PartReads
      <4> QED  BY <3>2, <4>1, Zenon
    <3> QED  BY <3>3, Zenon DEF x, k, from, size
  <2> QED  BY <2>2, <2>5, <2>6, <2>7, Zenon
<1>15. /\ Part(body, afterNames, infos, 1) = c.info["phasor"]
       /\ Part(body, afterNames, infos, 2) = c.info["analog"]
       /\ Part(body, afterNames, infos, 3) = c.info["digital"]
  <2> DEFINE a == afterNames
  <2>1. a \in Nat /\ a = n + 1 /\ n \in Nat
    BY <1>11
  <2> HIDE DEF a
  <2>2. /\ Part(body, a, infos, 1) = Values(SubSeq(body, a, a + infos[1] - 1))
        /\ Part(body, a, infos, 2)
             = Values(SubSeq(body, a + infos[1], (a + infos[1]) + infos[2] - 1))
        /\ Part(body, a, infos, 3)
             = Values(SubSeq(body, (a + infos[1]) + infos[2],
                             ((a + infos[1]) + infos[2]) + infos[3] - 1))
    <3>1. infos[1] \in Nat /\ infos[2] \in Nat /\ infos[3] \in Nat
      BY <1>2, <1>8
    <3> QED  BY <2>1, <3>1, PartPlaces
  <2>3. /\ Reads(body, n, Fields(4, c.info["phasor"]))
        /\ Reads(body, n + ph, Fields(4, c.info["analog"]))
        /\ Reads(body, (n + ph) + an, Fields(4, c.info["digital"]))
    BY <1>1, <1>13, Zenon DEF ph, an, dg, n
  <2>4. /\ n + ph \in Nat /\ (n + ph) + an \in Nat
        /\ a + infos[1] = (n + ph) + 1
        /\ (a + infos[1]) + infos[2] = ((n + ph) + an) + 1
    BY <1>2, <1>8, <2>1
  <2>5. Values(SubSeq(body, a, a + infos[1] - 1)) = c.info["phasor"]
    <3> DEFINE x == c.info["phasor"]  k == n  from == a  size == infos[1]
    <3>1. IsList(x) /\ Reads(body, k, Fields(4, x)) /\ k \in Nat
      BY <1>8, <1>12, <2>1, <2>3, <2>4, Zenon
    <3>2. from = k + 1 /\ size = Len(x)
      BY <1>8, <1>12, <2>1, <2>3, <2>4, Zenon
    <3> HIDE DEF x, k, from, size
    <3>3. Values(SubSeq(body, from, from + size - 1)) = x
      <4>1. Values(SubSeq(body, k + 1, (k + 1) + Len(x) - 1)) = x
        BY <3>1, PartReads
      <4> QED  BY <3>2, <4>1, Zenon
    <3> QED  BY <3>3, Zenon DEF x, k, from, size
  <2>6. Values(SubSeq(body, a + infos[1], (a + infos[1]) + infos[2] - 1)) = c.info["analog"]
    <3> DEFINE x == c.info["analog"]  k == n + ph  from == a + infos[1]  size == infos[2]
    <3>1. IsList(x) /\ Reads(body, k, Fields(4, x)) /\ k \in Nat
      BY <1>8, <1>12, <2>1, <2>3, <2>4, Zenon
    <3>2. from = k + 1 /\ size = Len(x)
      BY <1>8, <1>12, <2>1, <2>3, <2>4, Zenon
    <3> HIDE DEF x, k, from, size
    <3>3. Values(SubSeq(body, from, from + size - 1)) = x
      <4>1. Values(SubSeq(body, k + 1, (k + 1) + Len(x) - 1)) = x
        BY <3>1, PartReads
      <4> QED  BY <3>2, <4>1, Zenon
    <3> QED  BY <3>3, Zenon DEF x, k, from, size
  <2>7. Values(SubSeq(body, (a + infos[1]) + infos[2],
                      ((a + infos[1]) + infos[2]) + infos[3] - 1)) = c.info["digital"]
    <3> DEFINE x == c.info["digital"]  k == (n + ph) + an  from == (a + infos[1]) + infos[2]
               size == infos[3]
    <3>1. IsList(x) /\ Reads(body, k, Fields(4, x)) /\ k \in Nat
      BY <1>8, <1>12, <2>1, <2>3, <2>4, Zenon
    <3>2. from = k + 1 /\ size = Len(x)
      BY <1>8, <1>12, <2>1, <2>3, <2>4, Zenon
    <3> HIDE DEF x, k, from, size
    <3>3. Values(SubSeq(body, from, from + size - 1)) = x
      <4>1. Values(SubSeq(body, k + 1, (k + 1) + Len(x) - 1)) = x
        BY <3>1, PartReads
      <4> QED  BY <3>2, <4>1, Zenon
    <3> QED  BY <3>3, Zenon DEF x, k, from, size
  <2> QED  BY <2>2, <2>5, <2>6, <2>7, Zenon DEF a
<1>16. DOMAIN c.count = ChannelKinds /\ DOMAIN c.names = ChannelKinds
       /\ DOMAIN c.info = ChannelKinds
       /\ c.names = [k \in ChannelKinds |-> c.names[k]]
       /\ c.info = [k \in ChannelKinds |-> c.info[k]]
  BY DEF IsPmu, ChannelKinds
<1>17. [k \in DOMAIN c.count |-> Part(body, 7, names, index(k))] = c.names
  <2>1. \A k \in ChannelKinds : Part(body, 7, names, index(k)) = c.names[k]
    BY <1>10, <1>14, Zenon DEF ChannelKinds
  <2> QED  BY <1>16, <2>1, Zenon
<1>18. [k \in DOMAIN c.count |-> InfosRead(k, Part(body, afterNames, infos, index(k)))]
         = [k \in ChannelKinds |-> InfosRead(k, c.info[k])]
  <2>1. \A k \in ChannelKinds : Part(body, afterNames, infos, index(k)) = c.info[k]
    BY <1>10, <1>15, Zenon DEF ChannelKinds
  <2> QED  BY <1>16, <2>1, Zenon
<1>19. (IF body[m + 1].v = 1 THEN 50 ELSE old.nominal)
         = (IF c.nominal = 50 THEN 50 ELSE old.nominal)
  BY <1>7
<1>20. (m + 2) - 1 = m + 1
  BY <1>11
<1>21. Made(body, old, c.count, m + 2) = Copy(c, old)
  <2>1. Made(body, old, c.count, m + 2)
          = [station |-> body[1].v, id |-> body[2].v, format |-> body[3].v,
             count |-> c.count,
             names |-> [k \in DOMAIN c.count |-> Part(body, 7, names, index(k))],
             info |-> [k \in DOMAIN c.count |->
                        InfosRead(k, Part(body, afterNames, infos, index(k)))],
             nominal |-> IF body[(m + 2) - 1].v = 1 THEN 50 ELSE old.nominal,
             change |-> body[m + 2].v,
             active |-> old.active, position |-> old.position]
    BY Zenon DEF Made, infos, names, index, afterNames
  <2> QED  BY <1>6, <1>7, <1>17, <1>18, <1>19, <1>20, <2>1, Zenon DEF Copy
<1>22. Len(PlainFields(c)) = m + 2
  BY <1>1 DEF m, n, ph, an, dg
<1>23. ParsePmuConfig(body, old) = [pmu |-> Copy(c, old), used |-> m + 2]
  BY <1>3, <1>4, <1>5, <1>21, ParsePmuIs, Zenon
<1> QED  BY <1>22, <1>23, Zenon DEF body

\* Of a PMU that was written, what is read back are names and infos as they
\* were written.
LEMMA ParsedPmu ==
  ASSUME NEW c, IsPmu(c), NEW t, IsList(t), NEW old
  PROVE  ParsePmuConfig(PmuFields(c) \o t, old)
           = [pmu |-> Copy(AsWritten(c), old), used |-> Len(PmuFields(c))]
<1>1. IsPmu(AsWritten(c))
  BY WrittenIsPmu
<1> QED  BY <1>1, ParsedPlain, Zenon DEF PmuFields

-----------------------------------------------------------------------------
(* Parsing the PMUs of a packet                                            *)

IsParseIter(h, body, pmus, n) ==
  h = [d \in SUBSET (1..n) |->
        IF d = {} THEN [pmus |-> << >>, used |-> 3]
        ELSE AddParsed(body, pmus, h[d \ {Max(d)}], Max(d))]

\* There is a function that the parser iterates,
LEMMA ParseIterExists ==
  ASSUME NEW body, NEW pmus, NEW N \in Nat
  PROVE  \E h : IsParseIter(h, body, pmus, N)
<1> DEFINE b == [pmus |-> << >>, used |-> 3]
           S == {n \in Nat : \E h : IsParseIter(h, body, pmus, n)}
<1>1. 0 \in S
  <2> DEFINE h == [d \in SUBSET (1..0) |-> b]
  <2>1. \A d \in SUBSET (1..0) : d = {}
    OBVIOUS
  <2>2. IsParseIter(h, body, pmus, 0)
    BY <2>1 DEF IsParseIter
  <2> QED  BY <2>2
<1>2. ASSUME NEW n \in Nat, n \in S PROVE n + 1 \in S
  <2>2. PICK g : IsParseIter(g, body, pmus, n)
    BY <1>2
  <2> DEFINE h == [d \in SUBSET (1..(n + 1)) |->
                    IF n + 1 \in d THEN AddParsed(body, pmus, g[d \ {n + 1}], n + 1) ELSE g[d]]
  <2>3. ASSUME NEW d \in SUBSET (1..(n + 1)), n + 1 \in d
        PROVE  h[d] = AddParsed(body, pmus, h[d \ {Max(d)}], Max(d))
    <3>1. d \ {n + 1} \in SUBSET (1..n) /\ d \ {n + 1} \in SUBSET (1..(n + 1))
      OBVIOUS
    <3>2. Max(d) = n + 1
      BY <2>3, MaxUpTo
    <3>3. h[d \ {n + 1}] = g[d \ {n + 1}]
      BY <3>1
    <3> QED  BY <2>3, <3>2, <3>3
  <2>4. ASSUME NEW d \in SUBSET (1..(n + 1)), n + 1 \notin d
        PROVE  h[d] = IF d = {} THEN b ELSE AddParsed(body, pmus, h[d \ {Max(d)}], Max(d))
    <3>1. d \in SUBSET (1..n)
      BY <2>4
    <3>2. h[d] = g[d]
      BY <2>4
    <3>3. h[d \ {Max(d)}] = g[d \ {Max(d)}]
      BY <2>4
    <3>4. g[d] = IF d = {} THEN b ELSE AddParsed(body, pmus, g[d \ {Max(d)}], Max(d))
      BY <2>2, <3>1 DEF IsParseIter
    <3> QED  BY <3>2, <3>3, <3>4
  <2>5. \A d \in SUBSET (1..(n + 1)) :
          h[d] = IF d = {} THEN b ELSE AddParsed(body, pmus, h[d \ {Max(d)}], Max(d))
    <3>1. ASSUME NEW d \in SUBSET (1..(n + 1))
          PROVE  h[d] = IF d = {} THEN b ELSE AddParsed(body, pmus, h[d \ {Max(d)}], Max(d))
      <4> HIDE DEF h
      <4>1. n + 1 \in d => d # {}
        OBVIOUS
      <4> QED  BY <2>3, <2>4, <4>1
    <3> QED  BY <3>1
  <2>6. h = [d \in SUBSET (1..(n + 1)) |-> h[d]]
    OBVIOUS
  <2> HIDE DEF h
  <2>7. IsParseIter(h, body, pmus, n + 1)
    BY <2>5, <2>6 DEF IsParseIter
  <2> QED  BY <2>7
<1>3. \A n \in Nat : n \in S
  <2> HIDE DEF S
  <2> QED  BY <1>1, <1>2, Induction
<1> QED  BY <1>3

\* What has been parsed, after each PMU
IsParsing(g, body, pmus) ==
  /\ g[0] = [pmus |-> << >>, used |-> 3]
  /\ \A i \in 0..(body[3].v - 1) : g[i + 1] = AddParsed(body, pmus, g[i], i + 1)
  /\ ParsePmus(body, pmus) = g[body[3].v]

\* so that it goes through the PMUs read so far.
LEMMA ParseTrace ==
  ASSUME NEW body, NEW pmus, body[3].v \in Nat
  PROVE  \E g : IsParsing(g, body, pmus)
<1> DEFINE N == body[3].v
           b == [pmus |-> << >>, used |-> 3]
           s == [i \in 1..N |-> i]
           D == SUBSET (1..N)
           iter == CHOOSE f : f = [d \in D |->
                     IF d = {} THEN b ELSE AddParsed(body, pmus, f[d \ {Max(d)}], s[Max(d)])]
<1>0. N \in Nat
  OBVIOUS
<1>1. ParsePmus(body, pmus) = iter[1..N]
  <2>1. DOMAIN s = 1..N
    OBVIOUS
  <2> QED  BY <2>1 DEF ParsePmus, FoldLeft, MapThenFoldSet
<1> HIDE DEF N, b
<1>2. PICK h : IsParseIter(h, body, pmus, N)
  BY <1>0, ParseIterExists
<1>3. \A d \in D : d # {} => s[Max(d)] = Max(d)
  <2>1. ASSUME NEW d \in D, d # {} PROVE s[Max(d)] = Max(d)
    <3>1. Max(d) \in d
      BY <1>0, <2>1, MaxBelow
    <3>2. Max(d) \in 1..N
      BY <2>1, <3>1
    <3> HIDE DEF N
    <3> QED  BY <3>2
  <2> QED  BY <2>1
<1>4. h = [d \in D |-> IF d = {} THEN b ELSE AddParsed(body, pmus, h[d \ {Max(d)}], s[Max(d)])]
  <2> HIDE DEF s
  <2> QED  BY <1>2, <1>3 DEF IsParseIter, b
<1>5. iter = [d \in D |-> IF d = {} THEN b
                          ELSE AddParsed(body, pmus, iter[d \ {Max(d)}], s[Max(d)])]
  <2> HIDE DEF s, D
  <2> QED  BY <1>4
<1>6. Agree(iter, h, N)
  <2> HIDE DEF s, iter
  <2>1. iter[{}] = h[{}]
    BY <1>4, <1>5
  <2>2. \A d \in SUBSET (1..N) :
          d # {} /\ iter[d \ {Max(d)}] = h[d \ {Max(d)}] => iter[d] = h[d]
    BY <1>4, <1>5, ZenonT(30)
  <2> QED  BY <1>0, <2>1, <2>2, SameIter DEF SameSteps
<1> DEFINE g == [k \in 0..N |-> h[1..k]]
<1>7. g[0] = b
  <2>1. 1..0 = {} /\ 0 \in 0..N
    BY <1>0
  <2> HIDE DEF s
  <2> QED  BY <1>4, <2>1
<1>8. ASSUME NEW i \in 0..(N - 1) PROVE g[i + 1] = AddParsed(body, pmus, g[i], i + 1)
  <2>1. i \in Nat /\ i \in 0..N /\ i + 1 \in 0..N /\ i + 1 \in 1..(i + 1)
    BY <1>0
  <2>2. 1..(i + 1) # {} /\ (1..(i + 1)) \ {i + 1} = 1..i /\ 1..(i + 1) \in D
    BY <1>0, <2>1
  <2>3. Max(1..(i + 1)) = i + 1
    BY <2>1, MaxUpTo
  <2>4. h[1..(i + 1)] = AddParsed(body, pmus, h[1..i], i + 1)
    BY <1>2, <2>2, <2>3 DEF IsParseIter
  <2> QED  BY <2>1, <2>4
<1>9. ParsePmus(body, pmus) = g[N]
  <2>1. 1..N \in D /\ N \in 0..N
    BY <1>0
  <2> HIDE DEF iter
  <2> QED  BY <1>1, <1>6, <2>1 DEF Agree
<1> HIDE DEF g
<1>10. IsParsing(g, body, pmus)
  BY <1>7, <1>8, <1>9 DEF IsParsing, N, b
<1> QED  BY <1>10

-----------------------------------------------------------------------------
(* Writing a configuration                                                 *)

\* Whether generateConfig writes a PMU, and the bytes of each
Written(type, c) == c.active \/ type = "config1"

Sizes(cfg) == [i \in 1..Len(cfg.pmus) |-> PmuSize(cfg.pmus[i].count)]

\* The frame can count the bytes of the configuration.
ConfigFits(cfg) == 24 + Total(0, Sizes(cfg)) <= Max16

\* The bytes of a PMU are those that are computed for it.
LEMMA PmuBytes ==
  ASSUME NEW c, IsPmu(c)
  PROVE  /\ IsBody(PmuFields(c)) /\ IsList(PmuFields(c))
         /\ Bytes(PmuFields(c)) = PmuSize(c.count)
         /\ PmuSize(c.count) \in Nat /\ PmuSize(c.count) >= 30
         /\ GetPmuConfigSize(c) = W16(PmuSize(c.count))
<1>1. c.count \in [ChannelKinds -> Nat]
  BY DEF IsPmu, ChannelKinds
<1>2. Widths(PmuFields(c)) = PmuWidths(c.count) /\ IsList(PmuFields(c))
  BY WrittenIsPmu, PmuFieldWidths, Zenon DEF PmuFields
<1>3. Total(0, PmuWidths(c.count)) = PmuSize(c.count)
  BY <1>1, WidthsTotal
<1>4. Bytes(PmuFields(c)) = PmuSize(c.count)
  BY <1>2, <1>3 DEF Bytes, Total
<1>5. PmuSize(c.count) \in Nat /\ PmuSize(c.count) >= 30
  <2>1. c.count["phasor"] \in Nat /\ c.count["analog"] \in Nat /\ c.count["digital"] \in Nat
    BY <1>1 DEF ChannelKinds
  <2> QED  BY <2>1 DEF PmuSize
<1>6. GetPmuConfigSize(c) = W16(PmuSize(c.count))
  BY Zenon DEF GetPmuConfigSize, PmuSize
<1> QED  BY <1>2, <1>4, <1>5, <1>6, PmuBody

\* The sizes of the PMUs of a configuration are numbers.
LEMMA SizesFacts ==
  ASSUME NEW cfg, GoodConfig(cfg)
  PROVE  /\ Sizes(cfg) \in Seq(Nat) /\ Len(Sizes(cfg)) = Len(cfg.pmus)
         /\ Len(cfg.pmus) \in Nat
         /\ \A i \in 1..Len(cfg.pmus) : Sizes(cfg)[i] = PmuSize(cfg.pmus[i].count)
<1>1. \A i \in 1..Len(cfg.pmus) : PmuSize(cfg.pmus[i].count) \in Nat
  BY PmuBytes DEF GoodConfig
<1>2. Len(cfg.pmus) \in Nat
  BY DEF GoodConfig, IsList
<1> QED  BY <1>1, <1>2 DEF Sizes

\* The sizes of the PMUs up to each of them, of a configuration that fits
LEMMA SizesUpTo ==
  ASSUME NEW cfg, GoodConfig(cfg), ConfigFits(cfg)
  PROVE  \E h : /\ h \in [0..Len(cfg.pmus) -> Nat] /\ h[0] = 0
                /\ \A k \in 0..(Len(cfg.pmus) - 1) :
                     /\ h[k + 1] = h[k] + PmuSize(cfg.pmus[k + 1].count)
                     /\ h[k + 1] <= h[Len(cfg.pmus)]
                     /\ GetPmuConfigSize(cfg.pmus[k + 1]) = PmuSize(cfg.pmus[k + 1].count)
                /\ GetConfigSize(cfg) = 24 + h[Len(cfg.pmus)]
                /\ 24 + h[Len(cfg.pmus)] <= Max16
<1> DEFINE n == Len(cfg.pmus)  s == Sizes(cfg)
<1>1. /\ s \in Seq(Nat) /\ Len(s) = n /\ n \in Nat
      /\ \A i \in 1..n : s[i] = PmuSize(cfg.pmus[i].count)
  BY SizesFacts
<1>2. \A i \in 1..n : IsPmu(cfg.pmus[i])
  BY DEF GoodConfig
<1>3. 24 + Total(0, s) <= Max16
  BY DEF ConfigFits
<1>4. DOMAIN cfg.pmus = 1..n
  BY DEF GoodConfig, IsList
<1>5. GetConfigSize(cfg) = W16(24 + Total(0, [i \in 1..n |-> GetPmuConfigSize(cfg.pmus[i])]))
  BY <1>4, Zenon DEF GetConfigSize, Total
<1>6. s = [i \in 1..n |-> s[i]]
  BY <1>1
<1>7. PICK h : Sums(h, s)
  BY <1>1, PartialSums
<1> HIDE DEF n, s
<1>8. /\ h \in [0..n -> Nat] /\ h[0] = 0 /\ h[n] = Total(0, s)
      /\ \A k \in 0..(n - 1) : h[k + 1] = h[k] + s[k + 1]
      /\ \A k \in 0..n : h[k] <= h[n]
  BY <1>1, <1>7, Zenon DEF Sums
<1>9. ASSUME NEW k \in 0..(n - 1)
      PROVE  /\ h[k + 1] = h[k] + PmuSize(cfg.pmus[k + 1].count)
             /\ h[k + 1] <= h[n]
             /\ GetPmuConfigSize(cfg.pmus[k + 1]) = s[k + 1]
  <2>1. k + 1 \in 1..n /\ k + 1 \in 0..n /\ k \in 0..n /\ n \in 0..n
    BY <1>1
  <2>2. s[k + 1] = PmuSize(cfg.pmus[k + 1].count) /\ IsPmu(cfg.pmus[k + 1])
    BY <1>1, <1>2, <2>1
  <2>3. /\ h[k + 1] = h[k] + s[k + 1] /\ h[k + 1] <= h[n]
        /\ h[k] \in Nat /\ h[k + 1] \in Nat /\ h[n] \in Nat
    BY <1>8, <2>1
  <2>4. /\ PmuSize(cfg.pmus[k + 1].count) \in Nat
        /\ GetPmuConfigSize(cfg.pmus[k + 1]) = W16(PmuSize(cfg.pmus[k + 1].count))
    BY <2>2, PmuBytes
  <2>5. PmuSize(cfg.pmus[k + 1].count) <= Max16
    BY <1>3, <1>8, <2>2, <2>3, <2>4, Maxima
  <2>6. W16(PmuSize(cfg.pmus[k + 1].count)) = PmuSize(cfg.pmus[k + 1].count)
    BY <2>4, <2>5, W16Facts
  <2> QED  BY <2>2, <2>3, <2>4, <2>6, Zenon
<1>10. [i \in 1..n |-> GetPmuConfigSize(cfg.pmus[i])] = s
  <2>1. ASSUME NEW i \in 1..n PROVE GetPmuConfigSize(cfg.pmus[i]) = s[i]
    <3> DEFINE k == i - 1
    <3>1. k \in 0..(n - 1) /\ i = k + 1
      BY <1>1
    <3> HIDE DEF k
    <3> QED  BY <1>9, <3>1
  <2> QED  BY <1>6, <2>1
<1>11. GetConfigSize(cfg) = 24 + h[n] /\ 24 + h[n] <= Max16
  <2>1. h[n] \in Nat /\ 24 + h[n] <= Max16
    BY <1>1, <1>3, <1>8
  <2>2. W16(24 + h[n]) = 24 + h[n]
    BY <2>1, W16Facts
  <2> QED  BY <1>5, <1>8, <1>10, <2>1, <2>2, Zenon
<1>12. \A k \in 0..(n - 1) :
         GetPmuConfigSize(cfg.pmus[k + 1]) = PmuSize(cfg.pmus[k + 1].count)
  <2>1. ASSUME NEW k \in 0..(n - 1)
        PROVE  GetPmuConfigSize(cfg.pmus[k + 1]) = PmuSize(cfg.pmus[k + 1].count)
    <3>1. k + 1 \in 1..n
      BY <1>1
    <3> QED  BY <1>1, <1>9, <3>1
  <2> QED  BY <2>1
<1> QED  BY <1>8, <1>9, <1>11, <1>12, Zenon DEF n

\* A body is a list.
LEMMA BodyList == ASSUME NEW body, IsBody(body) PROVE IsList(body)
BY DEF IsBody, IsList

\* What is written before the PMUs
LEMMA HeadFacts ==
  ASSUME NEW cfg
  PROVE  /\ IsBody(ConfigHead(cfg)) /\ Len(ConfigHead(cfg)) = 3
         /\ Bytes(ConfigHead(cfg)) = 6
         /\ ConfigHead(cfg)[2].v = W24(cfg.timeBase)
         /\ ConfigHead(cfg)[3].v = W16(Len(cfg.pmus))
<1> DEFINE x == F(1, Stale)
           y == F(3, W24(cfg.timeBase))
           z == F(2, W16(Len(cfg.pmus)))
           a == <<x, y>>
<1>1. /\ x.w = 1 /\ y.w = 3 /\ z.w = 2
      /\ y.v = W24(cfg.timeBase) /\ z.v = W16(Len(cfg.pmus))
  BY DEF F
<1>2. ConfigHead(cfg) = <<x, y, z>>
  BY DEF ConfigHead
<1> HIDE DEF x, y, z
<1>3. IsBody(a) /\ Bytes(a) = 1 + 3
  <2>1. x.w \in Nat /\ y.w \in Nat
    BY <1>1
  <2> QED  BY <1>1, <2>1, TwoFields
<1>4. <<x, y, z>> = Append(a, z)
  OBVIOUS
<1> HIDE DEF a
<1>5. IsBody(Append(a, z)) /\ Bytes(Append(a, z)) = Bytes(a) + z.w
  <2>1. z.w \in Nat
    BY <1>1
  <2> QED  BY <1>3, <2>1, BytesOf
<1>6. IsBody(<<x, y, z>>) /\ Bytes(<<x, y, z>>) = 6
  <2>1. Bytes(a) + z.w = 6
    BY <1>1, <1>3
  <2> QED  BY <1>4, <1>5, <2>1, Zenon
<1>7. Len(<<x, y, z>>) = 3 /\ <<x, y, z>>[2] = y /\ <<x, y, z>>[3] = z
  OBVIOUS
<1> QED  BY <1>1, <1>2, <1>6, <1>7, Zenon

\* There is room for every PMU of a configuration that fits, so that what is
\* written is the head and the PMUs, and no more than was counted.
LEMMA WrittenIs ==
  ASSUME NEW cfg, GoodConfig(cfg), ConfigFits(cfg), NEW size \in Int, NEW type, NEW g,
         size >= GetConfigSize(cfg), IsWritten(g, size, type, cfg)
  PROVE  /\ \A k \in 0..(Len(cfg.pmus) - 1) :
              g[k + 1] = IF Written(type, cfg.pmus[k + 1])
                         THEN g[k] \o PmuFields(cfg.pmus[k + 1]) ELSE g[k]
         /\ Bytes(ConfigBody(size, type, cfg)) \in Int
         /\ Bytes(ConfigBody(size, type, cfg)) + 18 <= GetConfigSize(cfg)
         /\ GetConfigSize(cfg) <= Max16
<1> DEFINE n == Len(cfg.pmus)
<1>1. PICK h : /\ h \in [0..n -> Nat] /\ h[0] = 0
               /\ \A k \in 0..(n - 1) :
                    /\ h[k + 1] = h[k] + PmuSize(cfg.pmus[k + 1].count)
                    /\ h[k + 1] <= h[n]
                    /\ GetPmuConfigSize(cfg.pmus[k + 1]) = PmuSize(cfg.pmus[k + 1].count)
               /\ GetConfigSize(cfg) = 24 + h[n]
               /\ 24 + h[n] <= Max16
  BY SizesUpTo, Zenon
<1>2. /\ \A k \in 0..n : IsBody(g[k])
      /\ g[0] = ConfigHead(cfg)
      /\ \A k \in 0..(n - 1) : g[k + 1] = AddPmu(size, type, g[k], cfg.pmus[k + 1])
      /\ ConfigBody(size, type, cfg) = g[n]
  BY Zenon DEF IsWritten
<1>3. n \in Nat /\ \A i \in 1..n : IsPmu(cfg.pmus[i])
  BY DEF GoodConfig, IsList
<1> HIDE DEF n
<1>4. ASSUME NEW k \in 0..(n - 1), Bytes(g[k]) <= 6 + h[k]
      PROVE  /\ g[k + 1] = IF Written(type, cfg.pmus[k + 1])
                           THEN g[k] \o PmuFields(cfg.pmus[k + 1]) ELSE g[k]
             /\ Bytes(g[k + 1]) <= 6 + h[k + 1]
  <2> DEFINE c == cfg.pmus[k + 1]
  <2>1. k \in 0..n /\ k + 1 \in 0..n /\ k + 1 \in 1..n /\ n \in 0..n
    BY <1>3
  <2>2. IsPmu(c)
    BY <1>3, <2>1
  <2>3. g[k + 1] = AddPmu(size, type, g[k], c)
    BY <1>2
  <2>4. h[k + 1] = h[k] + PmuSize(c.count) /\ h[k + 1] <= h[n]
        /\ GetPmuConfigSize(c) = PmuSize(c.count)
    BY <1>1
  <2>5. h[k] \in Nat /\ h[k + 1] \in Nat /\ h[n] \in Nat
    BY <1>1, <2>1
  <2> HIDE DEF c
  <2>6. /\ IsBody(PmuFields(c)) /\ Bytes(PmuFields(c)) = PmuSize(c.count)
        /\ PmuSize(c.count) \in Nat
    BY <2>2, PmuBytes
  <2>7. IsBody(g[k])
    BY <1>2, <2>1
  <2>8. Bytes(g[k]) \in Int
    BY <2>7, BytesOf
  <2>9. ~(size - CommonFrameSize - Bytes(g[k]) < GetPmuConfigSize(c))
    <3>1. size >= 24 + h[n] /\ CommonFrameSize = 14
      BY <1>1 DEF CommonFrameSize
    <3> QED  BY <1>4, <2>4, <2>5, <2>6, <2>8, <3>1
  <2>10. g[k + 1] = IF Written(type, c) THEN g[k] \o PmuFields(c) ELSE g[k]
    <3>1. GeneratePmuConfig(size - CommonFrameSize - Bytes(g[k]), c) = PmuFields(c)
      BY <2>9, PmuMade, Zenon
    <3> QED  BY <2>3, <3>1, Zenon DEF AddPmu, Written
  <2>11. Bytes(g[k + 1]) <= 6 + h[k + 1]
    <3>1. Bytes(g[k] \o PmuFields(c)) = Bytes(g[k]) + Bytes(PmuFields(c))
      BY <2>6, <2>7, BytesConcat
    <3>2. CASE Written(type, c)
      BY <1>4, <2>4, <2>5, <2>6, <2>8, <2>10, <3>1, <3>2, SMTT(30)
    <3>3. CASE ~Written(type, c)
      BY <1>4, <2>4, <2>5, <2>6, <2>8, <2>10, <3>3
    <3> QED  BY <3>2, <3>3
  <2> QED  BY <2>10, <2>11 DEF c
<1>5. \A k \in 0..n : Bytes(g[k]) <= 6 + h[k]
  <2> DEFINE S == {k \in Nat : k <= n => Bytes(g[k]) <= 6 + h[k]}
  <2>1. 0 \in S
    <3>1. Bytes(g[0]) = 6 /\ h[0] = 0
      BY <1>1, <1>2, HeadFacts
    <3> QED  BY <3>1
  <2>2. ASSUME NEW k \in Nat, k \in S PROVE k + 1 \in S
    <3>1. SUFFICES ASSUME k + 1 <= n PROVE Bytes(g[k + 1]) <= 6 + h[k + 1]
      OBVIOUS
    <3>2. k \in 0..(n - 1) /\ Bytes(g[k]) <= 6 + h[k]
      BY <1>3, <2>2, <3>1
    <3> QED  BY <1>4, <3>2
  <2>3. \A k \in Nat : k \in S
    <3> HIDE DEF S
    <3> QED  BY <2>1, <2>2, Induction
  <2> QED  BY <1>3, <2>3
<1>6. \A k \in 0..(n - 1) :
        g[k + 1] = IF Written(type, cfg.pmus[k + 1])
                   THEN g[k] \o PmuFields(cfg.pmus[k + 1]) ELSE g[k]
  <2>1. ASSUME NEW k \in 0..(n - 1)
        PROVE  g[k + 1] = IF Written(type, cfg.pmus[k + 1])
                          THEN g[k] \o PmuFields(cfg.pmus[k + 1]) ELSE g[k]
    <3>1. k \in 0..n
      BY <1>3
    <3> QED  BY <1>4, <1>5, <3>1
  <2> QED  BY <2>1
<1>7. Bytes(g[n]) \in Int /\ Bytes(g[n]) + 18 <= GetConfigSize(cfg) /\ GetConfigSize(cfg) <= Max16
  <2>1. n \in 0..n /\ h[n] \in Nat
    BY <1>1, <1>3
  <2>2. Bytes(g[n]) \in Int
    BY <1>2, <2>1, BytesOf
  <2>3. Bytes(g[n]) <= 6 + h[n] /\ GetConfigSize(cfg) = 24 + h[n] /\ 24 + h[n] <= Max16
    BY <1>1, <1>5, <2>1
  <2> QED  BY <2>1, <2>2, <2>3
<1> QED  BY <1>2, <1>6, <1>7, Zenon DEF n

\* As many PMUs as there are in a configuration that fits are counted.
LEMMA FewPmus ==
  ASSUME NEW cfg, GoodConfig(cfg), ConfigFits(cfg)
  PROVE  W16(Len(cfg.pmus)) = Len(cfg.pmus)
<1> DEFINE n == Len(cfg.pmus)
<1>1. PICK h : /\ h \in [0..n -> Nat] /\ h[0] = 0
               /\ \A k \in 0..(n - 1) :
                    /\ h[k + 1] = h[k] + PmuSize(cfg.pmus[k + 1].count)
                    /\ h[k + 1] <= h[n]
                    /\ GetPmuConfigSize(cfg.pmus[k + 1]) = PmuSize(cfg.pmus[k + 1].count)
               /\ GetConfigSize(cfg) = 24 + h[n]
               /\ 24 + h[n] <= Max16
  BY SizesUpTo, Zenon
<1>2. n \in Nat /\ \A i \in 1..n : IsPmu(cfg.pmus[i])
  BY DEF GoodConfig, IsList
<1> HIDE DEF n
<1> DEFINE S == {k \in Nat : k <= n => h[k] >= k}
<1>3. 0 \in S
  BY <1>1
<1>4. ASSUME NEW k \in Nat, k \in S PROVE k + 1 \in S
  <2>1. SUFFICES ASSUME k + 1 <= n PROVE h[k + 1] >= k + 1
    OBVIOUS
  <2>2. k \in 0..(n - 1) /\ k + 1 \in 1..n /\ k \in 0..n /\ h[k] >= k
    BY <1>2, <1>4, <2>1
  <2>3. PmuSize(cfg.pmus[k + 1].count) \in Nat /\ PmuSize(cfg.pmus[k + 1].count) >= 30
    BY <1>2, <2>2, PmuBytes
  <2>4. h[k] \in Nat /\ h[k + 1] = h[k] + PmuSize(cfg.pmus[k + 1].count)
    BY <1>1, <2>2
  <2> QED  BY <2>2, <2>3, <2>4
<1>5. \A k \in Nat : k \in S
  <2> HIDE DEF S
  <2> QED  BY <1>3, <1>4, Induction
<1>6. h[n] >= n /\ h[n] \in Nat
  <2>1. n \in 0..n
    BY <1>2
  <2> QED  BY <1>1, <1>2, <1>5, <2>1
<1>7. n >= 0 /\ n <= Max16
  BY <1>1, <1>2, <1>6, Maxima
<1>8. W16(n) = n
  BY <1>2, <1>7, W16Facts
<1> QED  BY <1>8 DEF n

\* One more element at the end of a list
LEMMA Appended ==
  ASSUME NEW s, IsList(s), NEW x
  PROVE  /\ IsList(Append(s, x)) /\ Len(Append(s, x)) = Len(s) + 1
         /\ \A i \in 1..Len(s) : Append(s, x)[i] = s[i]
         /\ Append(s, x)[Len(s) + 1] = x
<1> DEFINE E == Elements(s) \cup {x}
<1>1. s \in Seq(E) /\ x \in E
  BY ListSeq
<1> HIDE DEF E
<1>2. Append(s, x) \in Seq(E)
  BY <1>1
<1>3. IsList(Append(s, x))
  BY <1>2, SeqList
<1> QED  BY <1>1, <1>3

\* What is left of a list behind its first elements
LEMMA RestList ==
  ASSUME NEW s, IsList(s), NEW k \in Nat
  PROVE  /\ IsList(Rest(s, k))
         /\ Len(Rest(s, k)) = IF k <= Len(s) THEN Len(s) - k ELSE 0
<1>1. s \in Seq(Elements(s)) /\ Len(s) \in Nat
  BY ListSeq DEF IsList
<1>2. Rest(s, k) \in Seq(Elements(s))
  BY <1>1 DEF Rest
<1>3. Len(Rest(s, k)) = IF k <= Len(s) THEN Len(s) - k ELSE 0
  BY <1>1 DEF Rest
<1> QED  BY <1>2, <1>3, SeqList

\* A number below a bound is among those up to it.
LEMMA InUpTo ==
  ASSUME NEW z \in Int, NEW j \in Nat, j >= 1, j <= z
  PROVE  j \in 1..z
OBVIOUS

\* What stands behind the beginning of a list
LEMMA StartsSplit ==
  ASSUME NEW a, NEW s, Starts(a, s)
  PROVE  IsList(Rest(s, Len(a))) /\ s = a \o Rest(s, Len(a))
<1> DEFINE t == Rest(s, Len(a))  u == a \o t  E == Elements(s) \cup Elements(a)
<1>1. IsList(a) /\ IsList(s) /\ Len(a) \in Nat /\ Len(s) \in Nat /\ Len(a) <= Len(s)
      /\ \A i \in 1..Len(a) : s[i] = a[i]
  BY DEF Starts, IsList
<1>2. IsList(t) /\ Len(t) = Len(s) - Len(a)
  BY <1>1, RestList
<1>3. \A i \in 1..Len(t) : t[i] = s[Len(a) + i]
  <2>1. s \in Seq(Elements(s))
    BY <1>1, ListSeq
  <2> QED  BY <1>1, <1>2, <2>1 DEF Rest
<1> HIDE DEF t
<1>4. /\ IsList(u) /\ Len(u) = Len(a) + Len(t)
      /\ \A i \in 1..Len(a) : u[i] = a[i]
      /\ \A i \in 1..Len(t) : u[Len(a) + i] = t[i]
  BY <1>1, <1>2, Joined
<1> HIDE DEF u
<1>5. Len(u) = Len(s)
  BY <1>1, <1>2, <1>4
<1>6. ASSUME NEW i \in 1..Len(s) PROVE u[i] = s[i]
  <2>1. CASE i \in 1..Len(a)
    BY <1>1, <1>4, <2>1
  <2>2. CASE i \notin 1..Len(a)
    <3> DEFINE j == i - Len(a)
    <3>1. Len(a) \in Int /\ Len(s) \in Int /\ Len(t) \in Int /\ Len(t) = Len(s) - Len(a)
      BY <1>1, <1>2
    <3>2. i \in Int /\ i > Len(a) /\ i <= Len(s)
      BY <1>1, <2>2
    <3>3. j \in Nat /\ j >= 1 /\ j <= Len(t)
      BY <3>1, <3>2
    <3>4. i = Len(a) + j
      BY <3>1, <3>2
    <3> DEFINE z == Len(t)
    <3>5. z \in Int /\ j \in Nat /\ j >= 1 /\ j <= z
      BY <3>1, <3>3
    <3> HIDE DEF j, z
    <3>6. j \in 1..z
      BY <3>5, InUpTo, Zenon
    <3> QED  BY <1>3, <1>4, <3>4, <3>6 DEF z
  <2> QED  BY <2>1, <2>2
<1>7. u = [i \in 1..Len(s) |-> u[i]] /\ s = [i \in 1..Len(s) |-> s[i]]
  <2>1. IsList(u) /\ IsList(s)
    BY <1>1, <1>4
  <2>2. u = [i \in 1..Len(u) |-> u[i]] /\ s = [i \in 1..Len(s) |-> s[i]]
    BY <2>1, Zenon DEF IsList
  <2> QED  BY <1>5, <2>2, Zenon
<1>8. u = s
  BY <1>6, <1>7
<1> QED  BY <1>2, <1>8 DEF t, u

\* Behind what a list starts with comes what was joined to it.
LEMMA StartsRest ==
  ASSUME NEW a, NEW p, NEW s, IsList(a), IsList(p), Starts(a \o p, s)
  PROVE  \E t : IsList(t) /\ Rest(s, Len(a)) = p \o t
<1> DEFINE t == Rest(s, Len(a \o p))
<1>1. IsList(t) /\ s = (a \o p) \o t
  BY StartsSplit
<1> HIDE DEF t
<1>2. (a \o p) \o t = a \o (p \o t)
  BY <1>1, JoinTwice, SMTT(30)
<1>3. IsList(p \o t)
  BY <1>1, Longer
<1>4. Rest(a \o (p \o t), Len(a)) = p \o t
  BY <1>3, RestOf
<1>5. Rest(s, Len(a)) = p \o t
  BY <1>1, <1>2, <1>4, Zenon
<1> QED  BY <1>1, <1>5

\* Too little is left for a PMU.
LEMMA ParsedNothing ==
  ASSUME NEW body, NEW old, IsList(body), Len(body) < 6
  PROVE  ParsePmuConfig(body, old) = [pmu |-> Garbage, used |-> Len(body)]
<1>1. Len(<<16, 2, 2, 2, 2, 2>>) = 6 /\ Len(body) \in Nat
  BY DEF IsList
<1>2. ~Aligned(body, <<16, 2, 2, 2, 2, 2>>)
  <2> DEFINE w == <<16, 2, 2, 2, 2, 2>>
  <2>1. ~(Len(body) >= Len(w))
    BY <1>1
  <2> HIDE DEF w
  <2>2. ~Aligned(body, w)
    BY <2>1, Zenon DEF Aligned
  <2> QED  BY <2>2 DEF w
<1> QED  BY <1>2, ParsePmuIs, Zenon

\* One more PMU is parsed where the one before it ended.
LEMMA AddParsedIs ==
  ASSUME NEW body, NEW pmus, NEW acc, NEW i, NEW r,
         r = ParsePmuConfig(Rest(body, acc.used), OldPmu(pmus, i))
  PROVE  /\ AddParsed(body, pmus, acc, i).pmus = Append(acc.pmus, r.pmu)
         /\ AddParsed(body, pmus, acc, i).used = acc.used + r.used
<1>1. AddParsed(body, pmus, acc, i)
        = [pmus |-> Append(acc.pmus, r.pmu), used |-> acc.used + r.used]
  BY Zenon DEF AddParsed
<1> QED  BY <1>1

\* A PMU in the object that is parsed into
GoodPmu(p) == p = Garbage \/ p.count \in [ChannelKinds -> Nat]
GoodPmus(s, n) == IsList(s) /\ Len(s) = n /\ \A i \in 1..n : GoodPmu(s[i])

\* One more PMU that can be read with leaves all of them such,
LEMMA MorePmus ==
  ASSUME NEW s, NEW n \in Nat, GoodPmus(s, n), NEW p, GoodPmu(p)
  PROVE  GoodPmus(Append(s, p), n + 1)
<1>1. /\ IsList(Append(s, p)) /\ Len(Append(s, p)) = n + 1
      /\ \A i \in 1..n : Append(s, p)[i] = s[i]
      /\ Append(s, p)[n + 1] = p
  BY Appended DEF GoodPmus
<1>2. \A i \in 1..(n + 1) : i \in 1..n \/ i = n + 1
  OBVIOUS
<1>3. \A i \in 1..n : GoodPmu(s[i])
  BY DEF GoodPmus
<1>4. \A i \in 1..(n + 1) : GoodPmu(Append(s, p)[i])
  BY <1>1, <1>2, <1>3
<1> QED  BY <1>1, <1>4 DEF GoodPmus

\* as a copy of a PMU is.
LEMMA CopyIsGood ==
  ASSUME NEW c, IsPmu(c), NEW old
  PROVE  GoodPmu(Copy(AsWritten(c), old))
<1>1. AsWritten(c).count \in [ChannelKinds -> Nat]
  BY WrittenIsPmu DEF IsPmu, ChannelKinds
<1> QED  BY <1>1 DEF GoodPmu, Copy

\* What was written of a configuration, in the body of a packet
InPacket(g, size, type, cfg, body) ==
  /\ GoodConfig(cfg) /\ ConfigFits(cfg)
  /\ \A k \in 0..Len(cfg.pmus) : IsBody(g[k])
  /\ g[0] = ConfigHead(cfg)
  /\ \A k \in 0..(Len(cfg.pmus) - 1) :
       g[k + 1] = IF Written(type, cfg.pmus[k + 1])
                  THEN g[k] \o PmuFields(cfg.pmus[k + 1]) ELSE g[k]
  /\ Starts(g[Len(cfg.pmus)], body)
  /\ Len(body) = Len(g[Len(cfg.pmus)]) + 1

\* Everything that was written is the beginning of the packet.
LEMMA AllStart ==
  ASSUME NEW g, NEW size, NEW type, NEW cfg, NEW body, InPacket(g, size, type, cfg, body)
  PROVE  \A k \in 0..Len(cfg.pmus) : Starts(g[k], body)
<1> DEFINE n == Len(cfg.pmus)
           S == {j \in Nat : j <= n => Starts(g[n - j], body)}
<1>1. n \in Nat /\ \A i \in 1..n : IsPmu(cfg.pmus[i])
  BY DEF InPacket, GoodConfig, IsList
<1>2. /\ \A k \in 0..n : IsBody(g[k])
      /\ \A k \in 0..(n - 1) : g[k + 1] = IF Written(type, cfg.pmus[k + 1])
                                          THEN g[k] \o PmuFields(cfg.pmus[k + 1]) ELSE g[k]
      /\ Starts(g[n], body)
  BY Zenon DEF InPacket
<1> HIDE DEF n
<1>3. 0 \in S
  <2>1. n - 0 = n
    BY <1>1
  <2> QED  BY <1>2, <2>1
<1>4. ASSUME NEW j \in Nat, j \in S PROVE j + 1 \in S
  <2>1. SUFFICES ASSUME j + 1 <= n PROVE Starts(g[n - (j + 1)], body)
    OBVIOUS
  <2> DEFINE k == n - (j + 1)
  <2>2. k \in 0..(n - 1) /\ k \in 0..n /\ k + 1 = n - j /\ k + 1 \in 1..n
    BY <1>1, <2>1
  <2>3. Starts(g[k + 1], body)
    <3>1. j <= n
      BY <1>1, <2>1
    <3>2. Starts(g[n - j], body)
      BY <1>4, <3>1
    <3> QED  BY <2>2, <3>2
  <2> HIDE DEF k
  <2>4. IsList(g[k]) /\ IsList(PmuFields(cfg.pmus[k + 1]))
    BY <1>1, <1>2, <2>2, BodyList, PmuBytes
  <2>5. Starts(g[k], body)
    <3>1. CASE Written(type, cfg.pmus[k + 1])
      <4>1. Starts(g[k] \o PmuFields(cfg.pmus[k + 1]), body)
        BY <1>2, <2>2, <2>3, <3>1
      <4> QED  BY <2>4, <4>1, StartsWith
    <3>2. CASE ~Written(type, cfg.pmus[k + 1])
      BY <1>2, <2>2, <2>3, <3>2
    <3> QED  BY <3>1, <3>2
  <2> QED  BY <2>5 DEF k
<1>5. \A j \in Nat : j \in S
  <2> HIDE DEF S
  <2> QED  BY <1>3, <1>4, Induction
<1>6. ASSUME NEW k \in 0..n PROVE Starts(g[k], body)
  <2>1. n - k \in Nat /\ n - k <= n /\ n - (n - k) = k
    BY <1>1
  <2>2. Starts(g[n - (n - k)], body)
    BY <1>5, <2>1
  <2> QED  BY <2>1, <2>2
<1> QED  BY <1>6 DEF n

AllWritten(type, cfg, k) == \A i \in 1..k : Written(type, cfg.pmus[i])
AllCopied(s, cfg, old, k) ==
  \A i \in 1..k : s[i] = Copy(AsWritten(cfg.pmus[i]), OldPmu(old, i))

\* m PMUs have been read from what was written of the first k.
CaughtUp(h, g, type, cfg, old, k, m) ==
  /\ m \in 0..k
  /\ GoodPmus(h[m].pmus, m)
  /\ h[m].used = Len(g[k])
  /\ AllWritten(type, cfg, k) => m = k /\ AllCopied(h[m].pmus, cfg, old, k)

\* Reading follows writing, PMU by PMU; one that was not written is skipped.
LEMMA ReadsAlong ==
  ASSUME NEW g, NEW size, NEW type, NEW cfg, NEW body, InPacket(g, size, type, cfg, body),
         NEW old, NEW h, IsParsing(h, body, old), body[3].v = Len(cfg.pmus)
  PROVE  \E m : CaughtUp(h, g, type, cfg, old, Len(cfg.pmus), m)
<1> DEFINE n == Len(cfg.pmus)
           S == {k \in Nat : k <= n => \E m : CaughtUp(h, g, type, cfg, old, k, m)}
<1>1. n \in Nat /\ \A i \in 1..n : IsPmu(cfg.pmus[i])
  BY DEF InPacket, GoodConfig, IsList
<1>2. /\ \A k \in 0..n : IsBody(g[k])
      /\ g[0] = ConfigHead(cfg)
      /\ \A k \in 0..(n - 1) : g[k + 1] = IF Written(type, cfg.pmus[k + 1])
                                          THEN g[k] \o PmuFields(cfg.pmus[k + 1]) ELSE g[k]
  BY Zenon DEF InPacket
<1>3. \A k \in 0..n : Starts(g[k], body)
  BY AllStart
<1>4. /\ h[0] = [pmus |-> << >>, used |-> 3]
      /\ \A i \in 0..(n - 1) : h[i + 1] = AddParsed(body, old, h[i], i + 1)
  BY DEF IsParsing
<1> HIDE DEF n
<1>5. 0 \in S
  <2>1. h[0].pmus = << >> /\ h[0].used = 3 /\ Len(g[0]) = 3
    BY <1>2, <1>4, HeadFacts
  <2>2. GoodPmus(h[0].pmus, 0)
    BY <2>1 DEF GoodPmus, IsList
  <2>3. CaughtUp(h, g, type, cfg, old, 0, 0)
    BY <2>1, <2>2 DEF CaughtUp, AllCopied
  <2> QED  BY <2>3
<1>6. ASSUME NEW k \in Nat, k \in S PROVE k + 1 \in S
  <2>1. SUFFICES ASSUME k + 1 <= n PROVE \E m : CaughtUp(h, g, type, cfg, old, k + 1, m)
    OBVIOUS
  <2>2. PICK m : CaughtUp(h, g, type, cfg, old, k, m)
    BY <1>6, <1>1, <2>1
  <2>3. /\ m \in 0..k /\ GoodPmus(h[m].pmus, m) /\ h[m].used = Len(g[k])
        /\ AllWritten(type, cfg, k) => m = k /\ AllCopied(h[m].pmus, cfg, old, k)
    BY <2>2 DEF CaughtUp
  <2>4. /\ k \in 0..(n - 1) /\ k \in 0..n /\ k + 1 \in 0..n /\ k + 1 \in 1..n
        /\ m \in 0..(n - 1) /\ m \in Nat /\ m + 1 \in 0..(k + 1) /\ m \in 0..(k + 1)
    BY <1>1, <2>1, <2>3
  <2>5. ASSUME AllWritten(type, cfg, k + 1)
        PROVE  Written(type, cfg.pmus[k + 1]) /\ AllWritten(type, cfg, k)
    <3>1. \A i \in 1..k : i \in 1..(k + 1)
      OBVIOUS
    <3>2. k + 1 \in 1..(k + 1)
      OBVIOUS
    <3> QED  BY <2>5, <3>1, <3>2 DEF AllWritten
  <2> DEFINE c == cfg.pmus[k + 1]
             r == ParsePmuConfig(Rest(body, h[m].used), OldPmu(old, m + 1))
  <2>6. CASE ~Written(type, c)
    <3>1. g[k + 1] = g[k]
      BY <1>2, <2>4, <2>6
    <3>2. ~AllWritten(type, cfg, k + 1)
      BY <2>5, <2>6
    <3>3. CaughtUp(h, g, type, cfg, old, k + 1, m)
      BY <2>3, <2>4, <3>1, <3>2 DEF CaughtUp
    <3> QED  BY <3>3
  <2>7. CASE Written(type, c)
    <3>1. IsPmu(c)
      BY <1>1, <2>4
    <3>2. g[k + 1] = g[k] \o PmuFields(c) /\ Starts(g[k + 1], body)
      BY <1>2, <1>3, <2>4, <2>7
    <3> HIDE DEF c
    <3>3. IsList(g[k]) /\ IsList(PmuFields(c))
      BY <1>2, <2>4, <3>1, BodyList, PmuBytes
    <3>4. PICK t : IsList(t) /\ Rest(body, Len(g[k])) = PmuFields(c) \o t
      <4>1. Starts(g[k] \o PmuFields(c), body)
        BY <3>2
      <4> DEFINE a == g[k]  p == PmuFields(c)
      <4>2. IsList(a) /\ IsList(p) /\ Starts(a \o p, body)
        BY <3>3, <4>1
      <4> HIDE DEF a, p
      <4>3. \E t : IsList(t) /\ Rest(body, Len(a)) = p \o t
        BY <4>2, StartsRest
      <4> QED  BY <4>3 DEF a, p
    <3>5. r = [pmu |-> Copy(AsWritten(c), OldPmu(old, m + 1)), used |-> Len(PmuFields(c))]
      <4>1. ParsePmuConfig(PmuFields(c) \o t, OldPmu(old, m + 1))
              = [pmu |-> Copy(AsWritten(c), OldPmu(old, m + 1)), used |-> Len(PmuFields(c))]
        BY <3>1, <3>4, ParsedPmu
      <4> QED  BY <2>3, <3>4, <4>1, Zenon
    <3>6. h[m + 1] = AddParsed(body, old, h[m], m + 1)
      BY <1>4, <2>4
    <3>7. /\ h[m + 1].pmus = Append(h[m].pmus, r.pmu)
          /\ h[m + 1].used = h[m].used + r.used
      BY <3>6, AddParsedIs
    <3> HIDE DEF r
    <3>8. r.pmu = Copy(AsWritten(c), OldPmu(old, m + 1)) /\ r.used = Len(PmuFields(c))
      BY <3>5
    <3>9. h[m + 1].used = Len(g[k + 1])
      <4>1. Len(g[k] \o PmuFields(c)) = Len(g[k]) + Len(PmuFields(c))
        BY <3>3, Longer
      <4> QED  BY <2>3, <3>2, <3>7, <3>8, <4>1, Zenon
    <3>10. GoodPmus(h[m + 1].pmus, m + 1)
      <4>1. GoodPmu(r.pmu)
        BY <3>1, <3>8, CopyIsGood, Zenon
      <4>2. GoodPmus(Append(h[m].pmus, r.pmu), m + 1)
        BY <2>3, <2>4, <4>1, MorePmus
      <4> QED  BY <3>7, <4>2, Zenon
    <3>11. ASSUME AllWritten(type, cfg, k + 1)
           PROVE  m = k /\ AllCopied(h[m + 1].pmus, cfg, old, k + 1)
      <4>1. m = k /\ AllCopied(h[m].pmus, cfg, old, k)
        BY <2>3, <2>5, <3>11
      <4>2. IsList(h[m].pmus) /\ Len(h[m].pmus) = k
        BY <2>3, <4>1 DEF GoodPmus
      <4>3. /\ \A i \in 1..k : h[m + 1].pmus[i] = h[m].pmus[i]
            /\ h[m + 1].pmus[k + 1] = r.pmu
        BY <3>7, <4>2, Appended
      <4>4. \A i \in 1..(k + 1) : i \in 1..k \/ i = k + 1
        OBVIOUS
      <4>5. r.pmu = Copy(AsWritten(cfg.pmus[k + 1]), OldPmu(old, k + 1))
        BY <3>8, <4>1 DEF c
      <4>6. \A i \in 1..(k + 1) : h[m + 1].pmus[i] = Copy(AsWritten(cfg.pmus[i]), OldPmu(old, i))
        BY <4>1, <4>3, <4>4, <4>5, Zenon DEF AllCopied
      <4> QED  BY <4>1, <4>6 DEF AllCopied
    <3>12. CaughtUp(h, g, type, cfg, old, k + 1, m + 1)
      BY <2>4, <3>9, <3>10, <3>11, Zenon DEF CaughtUp
    <3> QED  BY <3>12
  <2> QED  BY <2>6, <2>7
<1>7. \A k \in Nat : k \in S
  <2> HIDE DEF S
  <2> QED  BY <1>5, <1>6, Induction
<1>8. n <= n
  BY <1>1
<1> QED  BY <1>1, <1>7, <1>8 DEF n

\* What the receiver makes of the PMUs of a configuration: PMUs or Garbage,
\* and, when all were written, copies of them.
LEMMA Parses ==
  ASSUME NEW g, NEW size, NEW type, NEW cfg, NEW body, InPacket(g, size, type, cfg, body),
         NEW old
  PROVE  LET all == ParsePmus(body, old) n == Len(cfg.pmus) IN
         /\ GoodPmus(all.pmus, n)
         /\ AllWritten(type, cfg, n) =>
              all.used = Len(g[n]) /\ AllCopied(all.pmus, cfg, old, n)
<1> DEFINE n == Len(cfg.pmus)
           all == ParsePmus(body, old)
<1>1. n \in Nat /\ IsList(body) /\ Len(body) = Len(g[n]) + 1 /\ Len(g[n]) \in Nat
  <2>1. n \in Nat
    BY DEF InPacket, GoodConfig, IsList
  <2>2. n \in 0..n
    BY <2>1
  <2>3. IsBody(g[n])
    BY <2>2, Zenon DEF InPacket
  <2>4. Len(g[n]) \in Nat
    BY <2>3 DEF IsBody
  <2>5. IsList(body) /\ Len(body) = Len(g[n]) + 1
    BY Zenon DEF InPacket, Starts
  <2> QED  BY <2>1, <2>4, <2>5
<1>2. body[3].v = n
  <2>1. 0 \in 0..n
    BY <1>1
  <2>2. Starts(g[0], body)
    BY <2>1, AllStart
  <2>3. g[0] = ConfigHead(cfg) /\ Len(g[0]) = 3 /\ g[0][3].v = W16(n)
    BY HeadFacts, Zenon DEF InPacket
  <2>4. body[3] = g[0][3]
    BY <2>2, <2>3 DEF Starts
  <2>5. W16(n) = n
    BY FewPmus, Zenon DEF InPacket
  <2> QED  BY <2>3, <2>4, <2>5, Zenon
<1>3. PICK h : IsParsing(h, body, old)
  BY <1>1, <1>2, ParseTrace
<1>4. all = h[n]
  BY <1>2, <1>3 DEF IsParsing
<1>5. \A i \in 0..(n - 1) : h[i + 1] = AddParsed(body, old, h[i], i + 1)
  BY <1>2, <1>3 DEF IsParsing
<1>6. PICK m : CaughtUp(h, g, type, cfg, old, n, m)
  BY <1>2, <1>3, ReadsAlong
<1> HIDE DEF n, all
<1>7. /\ m \in 0..n /\ GoodPmus(h[m].pmus, m) /\ h[m].used = Len(g[n])
      /\ AllWritten(type, cfg, n) => m = n /\ AllCopied(h[m].pmus, cfg, old, n)
  BY <1>6, Zenon DEF CaughtUp
<1> DEFINE Q(j) == GoodPmus(h[j].pmus, j) /\ h[j].used \in Nat /\ h[j].used >= Len(g[n])
           S == {j \in Nat : m <= j /\ j <= n => Q(j)}
<1>8. 0 \in S
  <2>1. ASSUME m <= 0 PROVE Q(0)
    <3>1. m = 0
      BY <1>7, <2>1
    <3> QED  BY <1>1, <1>7, <3>1
  <2> HIDE DEF Q
  <2> QED  BY <2>1
<1>9. ASSUME NEW j \in Nat, j \in S PROVE j + 1 \in S
  <2>1. SUFFICES ASSUME m <= j + 1, j + 1 <= n PROVE Q(j + 1)
    <3> HIDE DEF Q
    <3> QED  OBVIOUS
  <2>2. CASE m = j + 1
    BY <1>1, <1>7, <2>2
  <2>3. CASE m # j + 1
    <3>1. m <= j /\ j <= n /\ j \in 0..(n - 1)
      BY <1>1, <1>7, <2>1, <2>3
    <3>2. Q(j)
      <4> HIDE DEF Q
      <4> QED  BY <1>9, <3>1
    <3> DEFINE r == ParsePmuConfig(Rest(body, h[j].used), OldPmu(old, j + 1))
               u == h[j].used
    <3>3. u \in Nat /\ u >= Len(g[n])
      BY <3>2
    <3>4. h[j + 1].pmus = Append(h[j].pmus, r.pmu) /\ h[j + 1].used = u + r.used
      <4>1. h[j + 1] = AddParsed(body, old, h[j], j + 1)
        BY <1>5, <3>1
      <4> QED  BY <4>1, AddParsedIs
    <3>5. r = [pmu |-> Garbage, used |-> Len(Rest(body, u))] /\ Len(Rest(body, u)) \in Nat
      <4>1. /\ IsList(Rest(body, u))
            /\ Len(Rest(body, u)) = IF u <= Len(body) THEN Len(body) - u ELSE 0
        BY <1>1, <3>3, RestList
      <4>2. Len(Rest(body, u)) \in Nat /\ Len(Rest(body, u)) < 6
        BY <1>1, <3>3, <4>1
      <4> QED  BY <4>1, <4>2, ParsedNothing
    <3> HIDE DEF r, u
    <3>6. r.pmu = Garbage /\ r.used \in Nat
      BY <3>5
    <3>7. GoodPmu(r.pmu)
      BY <3>6 DEF GoodPmu
    <3>8. GoodPmus(h[j + 1].pmus, j + 1)
      <4>1. GoodPmus(Append(h[j].pmus, r.pmu), j + 1)
        BY <3>2, <3>7, MorePmus
      <4> QED  BY <3>4, <4>1, Zenon
    <3>9. h[j + 1].used \in Nat /\ h[j + 1].used >= Len(g[n])
      BY <1>1, <3>3, <3>4, <3>6, SMTT(30)
    <3> QED  BY <3>8, <3>9
  <2> QED  BY <2>2, <2>3
<1>10. \A j \in Nat : j \in S
  <2> HIDE DEF S
  <2> QED  BY <1>8, <1>9, Induction
<1>11. GoodPmus(h[n].pmus, n)
  <2>1. m <= n /\ n <= n
    BY <1>1, <1>7
  <2>2. Q(n)
    <3> HIDE DEF Q
    <3> QED  BY <1>1, <1>10, <2>1
  <2> QED  BY <2>2
<1>12. ASSUME AllWritten(type, cfg, n)
       PROVE  all.used = Len(g[n]) /\ AllCopied(all.pmus, cfg, old, n)
  BY <1>4, <1>7, <1>12
<1> QED  BY <1>4, <1>11, <1>12, Zenon DEF n, all

-----------------------------------------------------------------------------
(* The sizes of data frames                                                *)

DataSize(c) ==
  2 + 2 * Width(c.format.phasor) * c.count["phasor"] + 2 * Width(c.format.freq)
  + Width(c.format.analog) * c.count["analog"] + 2 * c.count["digital"]

\* A number is written in two bytes or in four.
LEMMA WidthIs == \A f : Width(f) \in Nat /\ (Width(f) = 2 \/ Width(f) = 4)
BY DEF Width

\* The widths of the data of a PMU add up to what is computed for them.
LEMMA DataWidthsTotal ==
  ASSUME NEW c, c.count \in [ChannelKinds -> Nat]
  PROVE  /\ PmuDataWidths(c) \in Seq(Nat)
         /\ Total(0, PmuDataWidths(c)) = DataSize(c)
         /\ DataSize(c) \in Nat
<1> DEFINE p == c.count["phasor"]  a == c.count["analog"]  d == c.count["digital"]
           wp == Width(c.format.phasor)  wf == Width(c.format.freq)
           wa == Width(c.format.analog)
           x1 == <<2>>  x2 == Times(wp, 2 * p)  x3 == Times(wf, 2)
           x4 == Times(wa, a)  x5 == Times(2, d)
<1>1. PmuDataWidths(c) = (((x1 \o x2) \o x3) \o x4) \o x5
  BY DEF PmuDataWidths
<1>2. DataSize(c) = 2 + 2 * wp * p + 2 * wf + wa * a + 2 * d
  BY DEF DataSize
<1>3. p \in Nat /\ a \in Nat /\ d \in Nat
  BY DEF ChannelKinds
<1>4. /\ wp \in Nat /\ wf \in Nat /\ wa \in Nat
      /\ wp = 2 \/ wp = 4
      /\ wa = 2 \/ wa = 4
  BY WidthIs
<1> HIDE DEF p, a, d, wp, wf, wa
<1>5. 2 * p \in Nat /\ 2 \in Nat
  BY <1>3
<1>6. x1 \in Seq(Nat) /\ Total(0, x1) = 2
  <2> DEFINE none == << >>
  <2>1. none \in Seq(Int) /\ none = << >> /\ x1 = Append(none, 2) /\ 0 \in Int /\ 2 \in Int
    OBVIOUS
  <2>2. x1 \in Seq(Nat)
    OBVIOUS
  <2> HIDE DEF none, x1
  <2>3. Total(0, none) = 0
    BY <2>1, SumFacts
  <2>4. Total(0, Append(none, 2)) = Total(0, none) + 2
    BY <2>1, TotalAppend
  <2> QED  BY <2>1, <2>2, <2>3, <2>4
<1>7. /\ x2 \in Seq(Nat) /\ Total(0, x2) = wp * (2 * p)
      /\ x3 \in Seq(Nat) /\ Total(0, x3) = wf * 2
      /\ x4 \in Seq(Nat) /\ Total(0, x4) = wa * a
      /\ x5 \in Seq(Nat) /\ Total(0, x5) = 2 * d
  BY <1>3, <1>4, <1>5, TimesIs, TimesTotal
<1> HIDE DEF x1, x2, x3, x4, x5
<1> DEFINE y2 == x1 \o x2  y3 == y2 \o x3  y4 == y3 \o x4  y5 == y4 \o x5
<1>8. y2 \in Seq(Nat) /\ Total(0, y2) = Total(0, x1) + Total(0, x2)
  BY <1>6, <1>7, TotalJoin, JoinTypes
<1>9. y3 \in Seq(Nat) /\ Total(0, y3) = Total(0, y2) + Total(0, x3)
  <2> HIDE DEF y2
  <2> QED  BY <1>7, <1>8, TotalJoin, JoinTypes
<1>10. y4 \in Seq(Nat) /\ Total(0, y4) = Total(0, y3) + Total(0, x4)
  <2> HIDE DEF y3
  <2> QED  BY <1>7, <1>9, TotalJoin, JoinTypes
<1>11. y5 \in Seq(Nat) /\ Total(0, y5) = Total(0, y4) + Total(0, x5)
  <2> HIDE DEF y4
  <2> QED  BY <1>7, <1>10, TotalJoin, JoinTypes
<1> HIDE DEF y2, y3, y4, y5
<1>12. wp * (2 * p) = 2 * wp * p /\ 2 * wp * p \in Nat /\ wa * a \in Nat
  BY <1>3, <1>4
<1>13. Total(0, y5) = 2 + 2 * wp * p + 2 * wf + wa * a + 2 * d
  <2> DEFINE u == 2 * wp * p  v == wa * a
  <2>1. u \in Nat /\ v \in Nat /\ Total(0, x2) = u /\ Total(0, x4) = v
    BY <1>7, <1>12
  <2>2. Total(0, x3) = 2 * wf /\ Total(0, x5) = 2 * d /\ 2 * wf \in Nat /\ 2 * d \in Nat
    BY <1>3, <1>4, <1>7
  <2> HIDE DEF u, v
  <2>3. Total(0, y5) = 2 + u + 2 * wf + v + 2 * d
    BY <1>6, <1>8, <1>9, <1>10, <1>11, <2>1, <2>2
  <2> QED  BY <2>3 DEF u, v
<1>14. DataSize(c) \in Nat
  BY <1>2, <1>3, <1>4, <1>12
<1>15. PmuDataWidths(c) = y5
  BY <1>1 DEF y2, y3, y4, y5
<1> QED  BY <1>2, <1>11, <1>13, <1>14, <1>15, Zenon

\* The length that is expected of a data frame is computed PMU by PMU.
LEMMA ExpectedIs ==
  ASSUME NEW config_
  PROVE  GetExpectedDataPacketLength(config_)
           = CommonFrameSize + 2
               + Total(0, [i \in DOMAIN config_.pmus |-> DataSize(config_.pmus[i])])
BY Zenon DEF GetExpectedDataPacketLength, Total, DataSize

\* The bytes of the data of a PMU are those of its fields.
LEMMA DataBytes ==
  ASSUME NEW c, c.count \in [ChannelKinds -> Nat], NEW d
  PROVE  IsBody(GeneratePmuData(c, d)) /\ Bytes(GeneratePmuData(c, d)) = DataSize(c)
<1> DEFINE w == PmuDataWidths(c)
           body == GeneratePmuData(c, d)
<1>1. w \in Seq(Nat) /\ Total(0, w) = DataSize(c)
  BY DataWidthsTotal
<1>2. \E v : body = [i \in 1..Len(w) |-> F(w[i], v[i])]
  BY DEF GeneratePmuData
<1> HIDE DEF w, body
<1>3. PICK v : body = [i \in 1..Len(w) |-> F(w[i], v[i])]
  BY <1>2
<1>4. Len(body) = Len(w) /\ Len(w) \in Nat /\ \A i \in 1..Len(w) : body[i].w = w[i] /\ w[i] \in Nat
  BY <1>1, <1>3 DEF F
<1>5. body = [i \in 1..Len(w) |-> body[i]]
  BY <1>3
<1>6. IsBody(body)
  BY <1>4, <1>5 DEF IsBody
<1>7. Widths(body) = w
  BY <1>1, <1>4 DEF Widths
<1> QED  BY <1>1, <1>6, <1>7 DEF Bytes, Total, body

\* A function on an interval is a sequence.
LEMMA SeqMade ==
  ASSUME NEW V, NEW k \in Nat, NEW f, \A i \in 1..k : f[i] \in V
  PROVE  [i \in 1..k |-> f[i]] \in Seq(V)
OBVIOUS

\* The bytes of bodies one behind the other
LEMMA BytesOfAll ==
  ASSUME NEW n \in Nat, NEW s, s = [i \in 1..n |-> s[i]], \A i \in 1..n : IsBody(s[i])
  PROVE  Bytes(Concat(s)) = Total(0, [i \in 1..n |-> Bytes(s[i])])
<1> DEFINE E == UNION {{s[i][j] : j \in 1..Len(s[i])} : i \in 1..n}
           t(k) == [i \in 1..k |-> s[i]]
           b(k) == [i \in 1..k |-> Bytes(s[i])]
           S == {k \in Nat : k <= n => IsBody(Concat(t(k))) /\ Bytes(Concat(t(k))) = Total(0, b(k))}
<1>1. ASSUME NEW i \in 1..n PROVE s[i] \in Seq(E) /\ Bytes(s[i]) \in Int
  <2>1. \A j \in 1..Len(s[i]) : s[i][j] \in E
    OBVIOUS
  <2> HIDE DEF E
  <2>2. Bytes(s[i]) \in Int
    BY BytesOf
  <2> QED  BY <2>1, <2>2 DEF IsBody
<1> HIDE DEF E
<1>2. ASSUME NEW k \in Nat, k <= n PROVE t(k) \in Seq(Seq(E)) /\ b(k) \in Seq(Int)
  <2>1. \A i \in 1..k : i \in 1..n
    BY <1>2
  <2>2. \A i \in 1..k : s[i] \in Seq(E) /\ Bytes(s[i]) \in Int
    BY <1>1, <2>1
  <2> DEFINE V == Seq(E)
  <2>3. \A i \in 1..k : s[i] \in V
    BY <2>2
  <2> HIDE DEF V
  <2>4. t(k) \in Seq(V)
    BY <2>3, SeqMade
  <2>5. b(k) \in Seq(Int)
    <3> DEFINE f == [i \in 1..k |-> Bytes(s[i])]
    <3>1. \A i \in 1..k : f[i] \in Int
      BY <2>2
    <3>2. f = [i \in 1..k |-> f[i]]
      OBVIOUS
    <3> HIDE DEF f
    <3>3. f \in Seq(Int)
      BY <3>1, <3>2, SeqMade
    <3> QED  BY <3>3 DEF f
  <2> QED  BY <2>4, <2>5 DEF V
<1>3. 0 \in S
  <2>1. t(0) = << >> /\ b(0) = << >> /\ t(0) \in Seq(Seq(E)) /\ b(0) \in Seq(Int) /\ 0 \in Int
    BY <1>2
  <2> DEFINE x == t(0)  y == b(0)
  <2>2. x = << >> /\ y = << >> /\ x \in Seq(Seq(E)) /\ y \in Seq(Int)
    BY <2>1
  <2> HIDE DEF x, y
  <2>3. Concat(x) = << >>
    BY <2>2, ConcatFacts
  <2>4. Total(0, y) = 0
    BY <2>1, <2>2, SumFacts
  <2>5. IsBody(<< >>) /\ Bytes(<< >>) = 0
    <3>1. IsBody(<< >>)
      BY DEF IsBody
    <3> QED  BY <3>1, BytesOf
  <2>6. IsBody(Concat(x)) /\ Bytes(Concat(x)) = Total(0, y)
    BY <2>3, <2>4, <2>5
  <2> QED  BY <2>6 DEF x, y
<1>4. ASSUME NEW k \in Nat, k \in S PROVE k + 1 \in S
  <2>1. SUFFICES ASSUME k + 1 <= n
                 PROVE  /\ IsBody(Concat(t(k + 1)))
                        /\ Bytes(Concat(t(k + 1))) = Total(0, b(k + 1))
    OBVIOUS
  <2>2. k <= n /\ k + 1 \in 1..n
    BY <2>1
  <2>3. IsBody(Concat(t(k))) /\ Bytes(Concat(t(k))) = Total(0, b(k))
    BY <1>4, <2>2
  <2>4. t(k + 1) = Append(t(k), s[k + 1]) /\ b(k + 1) = Append(b(k), Bytes(s[k + 1]))
    OBVIOUS
  <2>5. t(k) \in Seq(Seq(E)) /\ b(k) \in Seq(Int) /\ s[k + 1] \in Seq(E) /\ Bytes(s[k + 1]) \in Int
        /\ IsBody(s[k + 1])
    BY <1>1, <1>2, <2>2
  <2> DEFINE x == t(k)  y == b(k)  f == s[k + 1]
  <2>6. /\ x \in Seq(Seq(E)) /\ y \in Seq(Int) /\ f \in Seq(E) /\ Bytes(f) \in Int /\ IsBody(f)
        /\ IsBody(Concat(x)) /\ Bytes(Concat(x)) = Total(0, y)
    BY <2>3, <2>5
  <2>7. t(k + 1) = Append(x, f) /\ b(k + 1) = Append(y, Bytes(f))
    BY <2>4
  <2> HIDE DEF x, y, f, t, b
  <2>8. Concat(Append(x, f)) = Concat(x) \o f
    BY <2>6, ConcatFacts
  <2>9. IsBody(Concat(x) \o f) /\ Bytes(Concat(x) \o f) = Bytes(Concat(x)) + Bytes(f)
    BY <2>6, BytesConcat
  <2>10. Total(0, Append(y, Bytes(f))) = Total(0, y) + Bytes(f)
    BY <2>6, TotalAppend, 0 \in Int
  <2> QED  BY <2>6, <2>7, <2>8, <2>9, <2>10, Zenon
<1>5. \A k \in Nat : k \in S
  <2> HIDE DEF S
  <2> QED  BY <1>3, <1>4, Induction
<1>6. n <= n /\ t(n) = s
  OBVIOUS
<1>7. Bytes(Concat(t(n))) = Total(0, b(n))
  BY <1>5, <1>6
<1> QED  BY <1>6, <1>7

-----------------------------------------------------------------------------
(* The bounds of a packet                                                  *)

\* A body has no negative number of bytes.
LEMMA BytesNat == ASSUME NEW body, IsBody(body) PROVE Bytes(body) \in Nat
<1> DEFINE w == Widths(body)
<1>1. w \in Seq(Nat)
  BY DEF IsBody, Widths
<1> HIDE DEF w
<1>2. PICK g : Sums(g, w)
  BY <1>1, PartialSums
<1>3. g \in [0..Len(w) -> Nat] /\ g[Len(w)] = Total(0, w)
  BY <1>2, Zenon DEF Sums
<1>4. Len(w) \in 0..Len(w)
  BY <1>1
<1>5. Total(0, w) \in Nat
  BY <1>3, <1>4
<1> QED  BY <1>5 DEF Bytes, Total, w

\* Counting in 16 bits never counts more.
LEMMA W16Below == ASSUME NEW m \in Nat PROVE W16(m) <= m
BY DEF W16

\* What a packet carries, and that it counts no more bytes than it has
LEMMA PacketBytes ==
  ASSUME NEW size, NEW type, NEW id, NEW soc, NEW frac, NEW body, IsBody(body), NEW p,
         p = Common(size, type, id, soc, frac, body)
  PROVE  /\ p.type = type /\ p.id = id /\ p.soc = soc /\ p.fracSec = frac /\ p.body = body
         /\ p.byteCount <= 16 + Bytes(body)
<1>1. /\ p.type = type /\ p.id = id /\ p.soc = soc /\ p.fracSec = frac /\ p.body = body
      /\ p.byteCount = W16(CommonFrameSize + Bytes(body) + 2)
  BY DEF Common
<1> DEFINE m == CommonFrameSize + Bytes(body) + 2
<1>2. m \in Nat /\ m = 16 + Bytes(body)
  BY BytesNat DEF CommonFrameSize
<1> HIDE DEF m
<1>3. W16(m) <= m
  BY <1>2, W16Below
<1>4. p.byteCount = W16(m)
  BY <1>1 DEF m
<1> QED  BY <1>1, <1>2, <1>3, <1>4, Zenon

\* What a configuration packet carries
ConfigPacket(p, size, type, cfg) ==
  /\ GoodConfig(cfg) /\ ConfigFits(cfg) /\ size \in Nat /\ size >= GetConfigSize(cfg)
  /\ p.type = type /\ p.id = cfg.idcode /\ p.soc = cfg.soc /\ p.fracSec = cfg.fracSec
  /\ p.body = Append(ConfigBody(size, type, cfg), F(2, cfg.dataRate))

\* The PMUs of a configuration, and no more bytes than there is room for
LEMMA ConfigInPacket ==
  ASSUME NEW p, NEW size, NEW type, NEW cfg, ConfigPacket(p, size, type, cfg)
  PROVE  /\ IsBody(p.body) /\ 16 + Bytes(p.body) <= size
         /\ \E g : /\ InPacket(g, size, type, cfg, p.body)
                   /\ p.body = Append(g[Len(cfg.pmus)], F(2, cfg.dataRate))
<1> DEFINE n == Len(cfg.pmus)
           b == ConfigBody(size, type, cfg)
           f == F(2, cfg.dataRate)
<1>1. /\ GoodConfig(cfg) /\ ConfigFits(cfg) /\ size \in Nat /\ size >= GetConfigSize(cfg)
      /\ p.body = Append(b, f)
  BY DEF ConfigPacket
<1>2. PICK g : IsWritten(g, size, type, cfg)
  BY <1>1, ConfigSteps
<1>3. /\ \A k \in 0..(n - 1) :
           g[k + 1] = IF Written(type, cfg.pmus[k + 1])
                      THEN g[k] \o PmuFields(cfg.pmus[k + 1]) ELSE g[k]
      /\ Bytes(b) \in Int /\ Bytes(b) + 18 <= GetConfigSize(cfg)
      /\ GetConfigSize(cfg) <= Max16
  <2>1. size \in Int
    BY <1>1
  <2> QED  BY <1>1, <1>2, <2>1, WrittenIs
<1>4. /\ \A k \in 0..n : IsBody(g[k])
      /\ g[0] = ConfigHead(cfg) /\ b = g[n]
  BY <1>2, Zenon DEF IsWritten
<1>5. n \in 0..n
  BY <1>1 DEF GoodConfig, IsList
<1>6. IsBody(b)
  BY <1>4, <1>5
<1>7. f.w = 2
  BY DEF F
<1> HIDE DEF b, f
<1>8. IsBody(Append(b, f)) /\ Bytes(Append(b, f)) = Bytes(b) + f.w
  BY <1>6, <1>7, BytesOf
<1>9. Starts(b, Append(b, f)) /\ Len(Append(b, f)) = Len(b) + 1
  <2>1. IsList(b) /\ Len(b) \in Nat
    BY <1>6, BodyList DEF IsBody
  <2> QED  BY <2>1, Appended DEF Starts
<1>10. 16 + Bytes(p.body) <= size
  <2>1. GetConfigSize(cfg) \in Int
    <3>1. W16(24 + FoldLeft(+, 0, [i \in DOMAIN cfg.pmus |-> GetPmuConfigSize(cfg.pmus[i])]))
            = GetConfigSize(cfg)
      BY Zenon DEF GetConfigSize
    <3>2. PICK h : GetConfigSize(cfg) = 24 + h[n] /\ h \in [0..n -> Nat]
      BY <1>1, SizesUpTo
    <3> QED  BY <1>5, <3>2
  <2> QED  BY <1>1, <1>3, <1>7, <1>8, <2>1
<1>11. InPacket(g, size, type, cfg, p.body)
  <2>1. Starts(g[n], p.body) /\ Len(p.body) = Len(g[n]) + 1
    BY <1>1, <1>4, <1>9, Zenon
  <2> QED  BY <1>1, <1>3, <1>4, <2>1, Zenon DEF InPacket
<1> QED  BY <1>1, <1>4, <1>8, <1>10, <1>11, Zenon DEF f

\* What the receiver makes of a configuration packet that it accepts
LEMMA ParsedConfig ==
  ASSUME NEW p, NEW size, NEW type, NEW cfg, ConfigPacket(p, size, type, cfg),
         NEW len, NEW old
  PROVE  LET r == ParseConfig1(p, len, old) n == Len(cfg.pmus) IN
         /\ r.result # "parse_complete" => r.config = old
         /\ r.result = "parse_complete" =>
              /\ GoodPmus(r.config.pmus, n)
              /\ r.config.idcode = cfg.idcode /\ r.config.soc = cfg.soc
              /\ r.config.fracSec = cfg.fracSec /\ r.config.timeBase = W24(cfg.timeBase)
              /\ AllWritten(type, cfg, n) =>
                   /\ r.config.dataRate = cfg.dataRate
                   /\ AllCopied(r.config.pmus, cfg, old.pmus, n)
<1> DEFINE r == ParseConfig1(p, len, old)
           n == Len(cfg.pmus)
           all == ParsePmus(p.body, old.pmus)
           common == ParseCommon(p, len)
           made == [idcode |-> p.id, soc |-> p.soc, fracSec |-> p.fracSec,
                    timeBase |-> p.body[2].v, pmus |-> all.pmus,
                    dataRate |-> IF all.used + 1 = Len(p.body)
                                 THEN p.body[all.used + 1].v ELSE Garbage]
<1>1. r = IF common # "parse_complete" THEN [result |-> common, config |-> old]
          ELSE IF p.type \notin {"config1", "config2"}
          THEN [result |-> "incorrect_type", config |-> old]
          ELSE [result |-> "parse_complete", config |-> made]
  BY Zenon DEF ParseConfig1
<1>2. PICK g : /\ InPacket(g, size, type, cfg, p.body)
               /\ p.body = Append(g[n], F(2, cfg.dataRate))
  BY ConfigInPacket
<1>3. /\ GoodPmus(all.pmus, n)
      /\ AllWritten(type, cfg, n) =>
           all.used = Len(g[n]) /\ AllCopied(all.pmus, cfg, old.pmus, n)
  BY <1>2, Parses
<1>4. p.id = cfg.idcode /\ p.soc = cfg.soc /\ p.fracSec = cfg.fracSec
  BY DEF ConfigPacket
<1>5. n \in Nat
  BY DEF ConfigPacket, GoodConfig, IsList
<1>6. p.body[2].v = W24(cfg.timeBase)
  <2>1. 0 \in 0..n
    BY <1>5
  <2>2. Starts(g[0], p.body)
    BY <1>2, <2>1, AllStart
  <2>3. g[0] = ConfigHead(cfg)
    BY <1>2, Zenon DEF InPacket
  <2>4. Len(g[0]) = 3 /\ g[0][2].v = W24(cfg.timeBase)
    BY <2>3, HeadFacts
  <2>5. p.body[2] = g[0][2]
    BY <2>2, <2>4 DEF Starts
  <2> QED  BY <2>4, <2>5
<1>7. ASSUME AllWritten(type, cfg, n)
      PROVE  made.dataRate = cfg.dataRate
  <2>1. all.used = Len(g[n])
    BY <1>3, <1>7
  <2>2. IsList(g[n])
    <3>1. n \in 0..n
      BY <1>5
    <3>2. IsBody(g[n])
      BY <1>2, <3>1, Zenon DEF InPacket
    <3> QED  BY <3>2, BodyList
  <2> DEFINE a == g[n]  f == F(2, cfg.dataRate)
  <2>3. IsList(a) /\ p.body = Append(a, f) /\ f.v = cfg.dataRate /\ all.used = Len(a)
    BY <1>2, <2>1, <2>2 DEF F
  <2> HIDE DEF a, f
  <2>4. Len(p.body) = Len(a) + 1 /\ p.body[Len(a) + 1] = f
    BY <2>3, Appended
  <2>5. all.used + 1 = Len(p.body) /\ p.body[all.used + 1].v = cfg.dataRate
    BY <2>3, <2>4, Zenon
  <2> HIDE DEF all
  <2> QED  BY <2>5
<1>8. made.pmus = all.pmus /\ made.idcode = p.id /\ made.soc = p.soc
      /\ made.fracSec = p.fracSec /\ made.timeBase = p.body[2].v
  <2> HIDE DEF all
  <2> QED  OBVIOUS
<1> HIDE DEF made, all, common
<1>9. ASSUME r.result # "parse_complete" PROVE r.config = old
  BY <1>1, <1>9
<1>10. ASSUME r.result = "parse_complete" PROVE r.config = made
  BY <1>1, <1>10
<1> HIDE DEF r
<1>11. ASSUME r.result = "parse_complete"
       PROVE  /\ GoodPmus(r.config.pmus, n)
              /\ r.config.idcode = cfg.idcode /\ r.config.soc = cfg.soc
              /\ r.config.fracSec = cfg.fracSec /\ r.config.timeBase = W24(cfg.timeBase)
              /\ AllWritten(type, cfg, n) =>
                   /\ r.config.dataRate = cfg.dataRate
                   /\ AllCopied(r.config.pmus, cfg, old.pmus, n)
  <2>1. r.config = made
    BY <1>10, <1>11
  <2> QED  BY <1>3, <1>4, <1>6, <1>7, <1>8, <2>1, Zenon
<1> QED  BY <1>9, <1>11, Zenon DEF r

-----------------------------------------------------------------------------
(* Bounds                                                                  *)

ConfigsFit == \A c \in Configs : ConfigFits(c)

\* The packet p counts its bytes exactly, and they fit the buffer.
Framed == {"config1", "config2", "data"}
SizedPacket(p, size, what) ==
  /\ p.type \in Framed =>
       IsBody(p.body) /\ p.byteCount = 16 + Bytes(p.body) /\ p.byteCount <= size
  /\ p.type \in {"config1", "config2"} =>
       what.config \in Configs /\ ConfigPacket(p, size, p.type, what.config)

\* A data frame that was read met the configuration it was read with.
Met ==
  Parsed /\ wire.type = "data" /\ length = wire.byteCount
  /\ result \in {"parse_complete", "id_mismatch"} =>
    /\ \A i \in DOMAIN rconfig.pmus : rconfig.pmus[i] # Garbage
    /\ GetExpectedDataPacketLength(rconfig) <= wire.byteCount

InBounds ==
  /\ GoodPmus(rconfig.pmus, Len(rconfig.pmus))
  /\ wire = NoPacket => sent = Nothing
  /\ wire # NoPacket => SizedPacket(wire, room, sent) /\ Met

\* The byte count of a packet that fits the buffer it is written to is exact.
LEMMA FittingPacket ==
  ASSUME Fits, NEW size \in BufferSizes, NEW type, NEW id, NEW soc, NEW frac,
         NEW body, IsBody(body), 16 + Bytes(body) <= size,
         NEW p, p = Common(size, type, id, soc, frac, body)
  PROVE  /\ p.type = type /\ p.id = id /\ p.soc = soc /\ p.fracSec = frac /\ p.body = body
         /\ p.byteCount = 16 + Bytes(body) /\ p.byteCount <= size
<1>1. size \in Nat /\ size <= Max16
  BY Maxima DEF Fits, MinPacketSize
<1>2. Bytes(body) \in 0..MaxBytes
  <2>1. Bytes(body) \in Nat
    BY BytesNat
  <2>2. MaxBytes + 16 = Max16
    BY DEF MaxBytes, Max16
  <2> QED  BY <1>1, <2>1, <2>2, Maxima
<1>3. IsPacket(p, size, type, body)
  BY <1>1, CommonFacts
<1>4. p.byteCount = 16 + Bytes(body)
  BY <1>2, <1>3, Zenon DEF IsPacket
<1>5. p.type = type /\ p.id = id /\ p.soc = soc /\ p.fracSec = frac /\ p.body = body
  BY PacketBytes
<1> QED  BY <1>4, <1>5

\* What is written of a configuration fits the buffer.
LEMMA ConfigInBounds ==
  ASSUME Fits, ConfigsFit, config \in Configs, NEW size \in BufferSizes,
         NEW type \in {"config1", "config2"}, SendConfig(type, size)
  PROVE  SizedPacket(wire', size, sent')
<1> DEFINE body == Append(ConfigBody(size, type, config), F(2, config.dataRate))
           p == Common(size, type, config.idcode, config.soc, config.fracSec, body)
<1>1. GoodConfig(config) /\ ConfigFits(config) /\ size \in Nat
  BY LinkAssumption DEF LinkAssumption, GoodConfig, ConfigsFit
<1>2. GetConfigSize(config) \in Int
  <2>1. PICK h : GetConfigSize(config) = 24 + h[Len(config.pmus)]
                 /\ h \in [0..Len(config.pmus) -> Nat]
    BY <1>1, SizesUpTo
  <2>2. Len(config.pmus) \in 0..Len(config.pmus)
    BY <1>1 DEF GoodConfig, IsList
  <2> QED  BY <2>1, <2>2
<1>3. wire' = GenerateConfig(size, config, type) /\ wire' # NoPacket
      /\ sent' = [type |-> type, config |-> config]
  BY DEF SendConfig, Send
<1>4. wire' = p /\ size >= GetConfigSize(config)
  BY <1>1, <1>2, <1>3 DEF GenerateConfig
<1>5. /\ p.type = type /\ p.id = config.idcode /\ p.soc = config.soc
      /\ p.fracSec = config.fracSec /\ p.body = body
  BY DEF Common
<1>10. p = Common(size, type, config.idcode, config.soc, config.fracSec, body)
  OBVIOUS
<1> HIDE DEF p, body
<1>6. ConfigPacket(p, size, type, config)
  BY <1>1, <1>4, <1>5, Zenon DEF ConfigPacket, body
<1>7. IsBody(body) /\ 16 + Bytes(body) <= size
  BY <1>5, <1>6, ConfigInPacket
<1>8. p.byteCount = 16 + Bytes(body) /\ p.byteCount <= size
  BY <1>7, <1>10, FittingPacket
<1>9. sent'.config = config /\ type \in Framed
  BY <1>3 DEF Framed
<1> QED  BY <1>4, <1>5, <1>6, <1>7, <1>8, <1>9, Zenon DEF SizedPacket

\* The data that are written are those that were counted.
LEMMA DataInBounds ==
  ASSUME Fits, config \in Configs, NEW size \in BufferSizes, NEW d \in Frames,
         SendData(d, size)
  PROVE  SizedPacket(wire', size, sent')
<1> DEFINE n == Len(config.pmus)
           frame == [d EXCEPT !.pmus = SubSeq(d.pmus, 1, n)]
           parts == [i \in DOMAIN frame.pmus |-> GeneratePmuData(config.pmus[i], frame.pmus[i])]
           body == Concat(parts)
<1>1. wire' = GenerateDataFrame(size, config, frame) /\ wire' # NoPacket
  BY DEF SendData, Send
<1>2. n \in Nat /\ DOMAIN config.pmus = 1..n
      /\ \A i \in 1..n : config.pmus[i].count \in [ChannelKinds -> Nat]
  BY LinkAssumption DEF LinkAssumption, IsList, IsPmu, ChannelKinds
<1>3. DOMAIN frame.pmus = 1..n
  <2>1. frame.pmus = SubSeq(d.pmus, 1, n)
    BY LinkAssumption DEF LinkAssumption
  <2>2. DOMAIN SubSeq(d.pmus, 1, n) = 1..n
    BY <1>2, LinkAssumption DEF LinkAssumption, IsList, SendData
  <2> QED  BY <2>1, <2>2
<1> HIDE DEF n, frame
<1>4. ~(size < GetExpectedDataPacketLength(config))
      /\ \E frac : wire' = Common(size, "data", config.idcode, frame.soc, frac, body)
  BY <1>1 DEF GenerateDataFrame
<1>5. \A i \in 1..n : IsBody(parts[i]) /\ Bytes(parts[i]) = DataSize(config.pmus[i])
  BY <1>2, <1>3, DataBytes
<1>6. parts = [i \in 1..n |-> parts[i]]
  BY <1>3
<1> HIDE DEF parts
<1>7. IsBody(body)
  BY <1>2, <1>5, <1>6, ConcatBody
<1>8. Bytes(body) = Total(0, [i \in 1..n |-> Bytes(parts[i])])
  BY <1>2, <1>5, <1>6, BytesOfAll
<1>9. [i \in 1..n |-> Bytes(parts[i])] = [i \in DOMAIN config.pmus |-> DataSize(config.pmus[i])]
  BY <1>2, <1>5
<1> HIDE DEF body
<1>10. GetExpectedDataPacketLength(config) = CommonFrameSize + 2 + Bytes(body)
  BY <1>8, <1>9, ExpectedIs, Zenon
<1>11. size \in Nat
  BY LinkAssumption DEF LinkAssumption
<1>12. 16 + Bytes(body) <= size
  <2>1. Bytes(body) \in Nat
    BY <1>7, BytesNat
  <2> QED  BY <1>4, <1>10, <1>11, <2>1 DEF CommonFrameSize
<1>13. wire'.type = "data" /\ wire'.body = body
       /\ wire'.byteCount = 16 + Bytes(body) /\ wire'.byteCount <= size
  BY <1>4, <1>7, <1>12, FittingPacket
<1> QED  BY <1>7, <1>13 DEF SizedPacket

\* Nothing is said here of packets without a computed size.
LEMMA OtherTypes ==
  ASSUME NEW p, p.type \in {"command", "header"}, NEW size, NEW what
  PROVE  SizedPacket(p, size, what)
BY DEF SizedPacket, Framed

\* Nothing that is sent is larger than its buffer.
LEMMA SendsInBounds ==
  ASSUME Fits, ConfigsFit, config \in Configs, NEW size \in BufferSizes, SendAny(size)
  PROVE  SizedPacket(wire', size, sent')
<1>1. ASSUME NEW type \in {"config1", "config2"}, SendConfig(type, size)
      PROVE  SizedPacket(wire', size, sent')
  BY <1>1, ConfigInBounds
<1>2. ASSUME NEW d \in Frames, SendData(d, size) PROVE SizedPacket(wire', size, sent')
  BY <1>2, DataInBounds
<1>3. CASE SendCommand("send_config2", size)
  <2>1. wire'.type = "command"
    BY <1>3 DEF SendCommand, Send, GenerateCommand, Common
  <2> QED  BY <2>1, OtherTypes
<1>4. ASSUME NEW text \in Texts, SendHeader(text, size) PROVE SizedPacket(wire', size, sent')
  <2>1. wire'.type = "header"
    BY <1>4 DEF SendHeader, Send, GenerateHeader, Common
  <2> QED  BY <2>1, OtherTypes
<1>5. ASSUME NEW text \in Texts, SendExtended(text, size)
      PROVE  SizedPacket(wire', size, sent')
  <2>1. wire'.type = "command"
    BY <1>5 DEF SendExtended, Send, GenerateExtendedFrame, Common
  <2> QED  BY <2>1, OtherTypes
<1> QED  BY <1>1, <1>2, <1>3, <1>4, <1>5, Zenon DEF SendAny

\* Whatever is received as a data frame has the bytes that the configuration
\* asks for.
LEMMA ReadsWhatIsThere ==
  ASSUME Receive, ReceiveData, length = wire.byteCount,
         result' \in {"parse_complete", "id_mismatch"}
  PROVE  /\ \A i \in DOMAIN rconfig.pmus : rconfig.pmus[i] # Garbage
         /\ ~(GetExpectedDataPacketLength(rconfig) > wire.byteCount)
<1>1. result' = ParseDataFrame(wire, length, rconfig).result
      /\ \A i \in DOMAIN rconfig.pmus : rconfig.pmus[i] # Garbage
  BY DEF ReceiveData
<1>2. ParseCommon(wire, length) \in
        {"invalid_sync", "length_mismatch", "invalid_checksum", "parse_complete"}
  BY DEF ParseCommon
<1>3. ASSUME GetExpectedDataPacketLength(rconfig) > length
      PROVE  ParseDataFrame(wire, length, rconfig).result
               \in {"invalid_sync", "length_mismatch", "invalid_checksum",
                    "incorrect_type", "config_mismatch"}
  BY <1>2, <1>3 DEF ParseDataFrame
<1> QED  BY <1>1, <1>3

\* The length expected of a data frame is what is read of it, and the frame.
LEMMA ExpectedInt ==
  ASSUME NEW cfg, GoodPmus(cfg.pmus, Len(cfg.pmus)),
         \A i \in DOMAIN cfg.pmus : cfg.pmus[i] # Garbage
  PROVE  LET read == FoldLeft(+, 0, [i \in DOMAIN cfg.pmus |->
                       FoldLeft(+, 0, PmuDataWidths(cfg.pmus[i]))]) IN
         /\ read \in Nat
         /\ GetExpectedDataPacketLength(cfg) = 16 + read
<1> DEFINE n == Len(cfg.pmus)
           sizes == [i \in DOMAIN cfg.pmus |-> DataSize(cfg.pmus[i])]
           widths == [i \in DOMAIN cfg.pmus |-> FoldLeft(+, 0, PmuDataWidths(cfg.pmus[i]))]
<1>1. n \in Nat /\ DOMAIN cfg.pmus = 1..n
      /\ \A i \in 1..n : cfg.pmus[i].count \in [ChannelKinds -> Nat]
  BY DEF GoodPmus, GoodPmu, IsList
<1>2. ASSUME NEW i \in 1..n
      PROVE  /\ FoldLeft(+, 0, PmuDataWidths(cfg.pmus[i])) = DataSize(cfg.pmus[i])
             /\ DataSize(cfg.pmus[i]) \in Nat
  <2>1. /\ Total(0, PmuDataWidths(cfg.pmus[i])) = DataSize(cfg.pmus[i])
        /\ DataSize(cfg.pmus[i]) \in Nat
    BY <1>1, DataWidthsTotal
  <2> QED  BY <2>1, Zenon DEF Total
<1>3. widths = sizes
  BY <1>1, <1>2
<1>4. sizes \in Seq(Nat)
  <2>1. \A i \in 1..n : sizes[i] \in Nat
    BY <1>1, <1>2
  <2>2. sizes = [i \in 1..n |-> sizes[i]]
    BY <1>1
  <2> HIDE DEF sizes
  <2>3. [i \in 1..n |-> sizes[i]] \in Seq(Nat)
    BY <1>1, <2>1, SeqMade
  <2> QED  BY <2>2, <2>3
<1>5. GetExpectedDataPacketLength(cfg) = CommonFrameSize + 2 + Total(0, sizes)
  BY ExpectedIs
<1> HIDE DEF sizes, widths
<1>6. Total(0, sizes) \in Nat
  <2>1. PICK g : Sums(g, sizes)
    BY <1>4, PartialSums
  <2>2. g \in [0..Len(sizes) -> Nat] /\ g[Len(sizes)] = Total(0, sizes)
    BY <2>1, Zenon DEF Sums
  <2>3. Len(sizes) \in 0..Len(sizes)
    BY <1>4
  <2> QED  BY <2>2, <2>3
<1>7. GetExpectedDataPacketLength(cfg) = 16 + Total(0, sizes)
  BY <1>5, <1>6 DEF CommonFrameSize
<1>8. FoldLeft(+, 0, widths) = Total(0, sizes)
  BY <1>3, Zenon DEF Total
<1> QED  BY <1>6, <1>7, <1>8, Zenon DEF widths

\* The bounds hold at the beginning.
LEMMA InitInBounds == Init => InBounds
<1> SUFFICES ASSUME Init PROVE InBounds
  OBVIOUS
<1>1. rconfig.pmus = << >> /\ wire = NoPacket /\ sent = Nothing
  BY DEF Init, NewConfig
<1>2. GoodPmus(<< >>, Len(<< >>))
  BY DEF GoodPmus, IsList
<1> QED  BY <1>1, <1>2 DEF InBounds

\* Receiving leaves a configuration whose PMUs are as they are read.
LEMMA ReceivesInBounds ==
  ASSUME LinkInv, InBounds, Receive
  PROVE  InBounds'
<1>1. /\ wire # NoPacket /\ wire' = wire /\ sent' = sent /\ length' = length /\ room' = room
      /\ SizedPacket(wire, room, sent) /\ Met /\ UnderWay /\ length \in Int
      /\ GoodPmus(rconfig.pmus, Len(rconfig.pmus))
  BY DEF Receive, InBounds, LinkInv, Sized
<1>2. SizedPacket(wire', room', sent')
  BY <1>1, Zenon
<1>3. CASE ReceiveConfig
  <2>1. wire.type \in {"config1", "config2"}
    BY <1>3 DEF ReceiveConfig, GetPacketType
  <2>2. ConfigPacket(wire, room, wire.type, sent.config)
    BY <1>1, <2>1, Zenon DEF SizedPacket
  <2> DEFINE r == ParseConfig1(wire, length, rconfig)
  <2>3. rconfig' = r.config
    BY <1>3 DEF ReceiveConfig
  <2>4. /\ r.result # "parse_complete" => r.config = rconfig
        /\ r.result = "parse_complete" => GoodPmus(r.config.pmus, Len(sent.config.pmus))
    BY <2>2, ParsedConfig
  <2> HIDE DEF r
  <2>5. GoodPmus(rconfig'.pmus, Len(rconfig'.pmus))
    BY <1>1, <2>3, <2>4 DEF GoodPmus
  <2>6. Met'
    BY <1>1, <2>1 DEF Met
  <2> QED  BY <1>1, <1>2, <2>5, <2>6 DEF InBounds
<1>4. CASE ReceiveData
  <2>1. rconfig' = rconfig
    BY <1>4 DEF ReceiveData
  <2>2. Met'
    <3>1. SUFFICES ASSUME Parsed', wire'.type = "data", length' = wire'.byteCount,
                          result' \in {"parse_complete", "id_mismatch"}
                   PROVE  /\ \A i \in DOMAIN rconfig'.pmus : rconfig'.pmus[i] # Garbage
                          /\ GetExpectedDataPacketLength(rconfig') <= wire'.byteCount
      BY DEF Met
    <3>2. /\ \A i \in DOMAIN rconfig.pmus : rconfig.pmus[i] # Garbage
          /\ ~(GetExpectedDataPacketLength(rconfig) > wire.byteCount)
      BY <1>1, <1>4, <3>1, ReadsWhatIsThere
    <3>3. wire.byteCount \in Int
      BY DEF LinkInv, Sized
    <3>4. GetExpectedDataPacketLength(rconfig) \in Int
      <4>1. \E read \in Nat : GetExpectedDataPacketLength(rconfig) = 16 + read
        BY <1>1, <3>2, ExpectedInt, Zenon
      <4> QED  BY <4>1
    <3> QED  BY <1>1, <2>1, <3>2, <3>3, <3>4
  <2> QED  BY <1>1, <1>2, <2>1, <2>2 DEF InBounds
<1>5. CASE ReceiveCommand \/ ReceiveHeader
  <2>1. wire.type # "data" /\ rconfig' = rconfig
    BY <1>5 DEF ReceiveCommand, ReceiveHeader, GetPacketType
  <2>2. Met'
    BY <1>1, <2>1 DEF Met
  <2> QED  BY <1>1, <1>2, <2>1, <2>2 DEF InBounds
<1>6. CASE ReceiveUnknown
  <2>1. rconfig' = rconfig
    BY <1>6 DEF ReceiveUnknown
  <2>2. wire.type = "data" => wire.byteCount >= 16
    BY <1>1, BytesNat DEF SizedPacket, Framed
  <2>3. ASSUME wire.type = "data" PROVE length < 16
    BY <1>1, <1>6, <2>3 DEF ReceiveUnknown, GetPacketType, UnderWay
  <2>4. Met'
    BY <1>1, <2>2, <2>3 DEF Met
  <2> QED  BY <1>1, <1>2, <2>1, <2>4 DEF InBounds
<1> QED  BY <1>3, <1>4, <1>5, <1>6 DEF Receive

\* No step breaks the bounds.
LEMMA NextInBounds ==
  ASSUME Fits, ConfigsFit, LinkInv, InBounds, [Next]_vars
  PROVE  InBounds'
<1>1. CASE \E c \in Configs \ {config} : Configure(c)
  BY <1>1 DEF Configure, InBounds, Met, Parsed
<1>2. ASSUME NEW size \in BufferSizes, SendAny(size) PROVE InBounds'
  <2>1. config \in Configs
    BY DEF LinkInv, Sized
  <2>2. SizedPacket(wire', size, sent')
    BY <1>2, <2>1, SendsInBounds
  <2>3. wire' # NoPacket /\ result' = "not_parsed"
    BY <1>2, <2>1, Sends DEF Sent
  <2>4. room' = size /\ rconfig' = rconfig
    BY <1>2 DEF SendAny, SendConfig, SendData, SendCommand, SendHeader, SendExtended, Send
  <2>5. Met'
    BY <2>3 DEF Met, Parsed
  <2> QED  BY <2>2, <2>3, <2>4, <2>5 DEF InBounds
<1>3. CASE Damage
  <2>1. /\ wire # NoPacket /\ wire' = [wire EXCEPT !.crc = FALSE] /\ DOMAIN wire = PacketFields
        /\ UNCHANGED <<length, room, sent, rconfig, result>>
    BY <1>3 DEF Damage, LinkInv, UnderWay
  <2>2. /\ wire'.type = wire.type /\ wire'.body = wire.body /\ wire'.byteCount = wire.byteCount
        /\ wire'.id = wire.id /\ wire'.soc = wire.soc /\ wire'.fracSec = wire.fracSec
        /\ DOMAIN wire' = PacketFields
    BY <2>1
  <2>3. wire' # NoPacket
    BY <2>2, NoFields
  <2>4. SizedPacket(wire, room, sent) /\ Met
    BY <2>1 DEF InBounds
  <2>5. SizedPacket(wire', room', sent')
    BY <2>1, <2>2, <2>4 DEF SizedPacket, ConfigPacket
  <2>6. Met'
    BY <2>1, <2>2, <2>4 DEF Met, Parsed
  <2> QED  BY <2>1, <2>3, <2>5, <2>6 DEF InBounds
<1>4. ASSUME NEW n \in {15, length - 1, length + 20}, Deliver(n) PROVE InBounds'
  <2>1. /\ wire # NoPacket /\ length = wire.byteCount
        /\ UNCHANGED <<wire, room, sent, rconfig, result>>
    BY <1>4 DEF Deliver
  <2>2. Met'
    BY <2>1 DEF InBounds, Met, Parsed
  <2> QED  BY <2>1, <2>2 DEF InBounds
<1>5. CASE Receive
  BY <1>5, ReceivesInBounds
<1>6. CASE Consume
  BY <1>6 DEF Consume, InBounds
<1>7. CASE UNCHANGED vars
  BY <1>7 DEF vars, InBounds, Met, Parsed
<1> QED  BY <1>1, <1>2, <1>3, <1>4, <1>5, <1>6, <1>7, Zenon DEF Next

\* No configuration or data frame is written beyond the buffer whose size was
\* compared beforehand, and a data frame delivered by itself is not read beyond
\* its end, whatever configuration the receiver has: generateConfig,
\* generateDataFrame and parseDataFrame compute the sizes of what they write
\* and read.
THEOREM Bounds ==
  ASSUME Fits, ConfigsFit
  PROVE  Spec => []StaysInBounds
<1>1. ASSUME LinkInv, InBounds PROVE StaysInBounds
  <2>1. ASSUME sent.type \in Framed PROVE wire.byteCount <= room
    <3>1. wire # NoPacket
      BY <1>1, <2>1 DEF InBounds, Nothing, Framed
    <3> QED  BY <1>1, <2>1, <3>1 DEF InBounds, LinkInv, UnderWay, Describes, SizedPacket
  <2>2. ASSUME Parsed, sent.type = "data", length = wire.byteCount,
               result \in {"parse_complete", "id_mismatch"}
        PROVE  Bytes(wire.body) >=
                 FoldLeft(+, 0, [i \in DOMAIN rconfig.pmus |->
                   FoldLeft(+, 0, PmuDataWidths(rconfig.pmus[i]))])
    <3> DEFINE read == FoldLeft(+, 0, [i \in DOMAIN rconfig.pmus |->
                         FoldLeft(+, 0, PmuDataWidths(rconfig.pmus[i]))])
    <3>1. wire # NoPacket /\ wire.type = "data"
      BY <1>1, <2>2 DEF Parsed, LinkInv, UnderWay, Describes
    <3>2. /\ \A i \in DOMAIN rconfig.pmus : rconfig.pmus[i] # Garbage
          /\ GetExpectedDataPacketLength(rconfig) <= wire.byteCount
      BY <1>1, <2>2, <3>1 DEF InBounds, Met
    <3>3. read \in Nat /\ GetExpectedDataPacketLength(rconfig) = 16 + read
      BY <1>1, <3>2, ExpectedInt DEF InBounds
    <3> HIDE DEF read
    <3>4. wire.byteCount = 16 + Bytes(wire.body) /\ IsBody(wire.body)
      BY <1>1, <3>1 DEF InBounds, SizedPacket, Framed
    <3>5. Bytes(wire.body) \in Nat
      BY <3>4, BytesNat
    <3>6. Bytes(wire.body) >= read
      BY <3>2, <3>3, <3>4, <3>5
    <3> QED  BY <3>6 DEF read
  <2> QED  BY <2>1, <2>2, Zenon DEF StaysInBounds, Framed
<1>2. LinkInv /\ InBounds /\ [Next]_vars => LinkInv' /\ InBounds'
  BY NextLink, NextInBounds
<1> QED  BY InitLink, InitInBounds, <1>1, <1>2, PTL DEF Spec

-----------------------------------------------------------------------------
(* What arrives                                                            *)

\* What configurations hold: one of the two nominal frequencies, and numbers as
\* the conversions of analog values.
ConfigsTravel ==
  \A c \in Configs : \A i \in 1..Len(c.pmus) :
    /\ c.pmus[i].nominal \in {50, 60}
    /\ \A n \in 1..c.pmus[i].count["analog"] : c.pmus[i].info["analog"][n][2] \in Int

\* What is read out of place is no PMU.
GarbageIsNoPmu == "station" \notin DOMAIN Garbage

\* What is written of a name is what arrives of it.
LEMMA NamePadded == \A name : NameTravels(Padded(name), name)
BY DEF NameTravels, Padded, NameSize

\* The sign is in the 24 bits.
LEMMA SignBack == ASSUME NEW n \in Int PROVE I24(W24(n)) = I24(n)
BY SMT DEF I24, W24

\* What is written of an info is read as what arrives of it.
LEMMA InfoBack ==
  ASSUME NEW k \in ChannelKinds, NEW x, k = "analog" => x[2] \in Int
  PROVE  InfoTravels(k, InfoRead(k, InfoWritten(k, x)), x)
<1>1. CASE k = "phasor"
  BY <1>1 DEF InfoTravels, InfoRead, InfoWritten
<1>2. CASE k = "analog"
  <2>1. InfoWritten(k, x) = <<x[1], W24(x[2])>>
    BY <1>2, Zenon DEF InfoWritten
  <2>2. InfoRead(k, InfoWritten(k, x)) = <<x[1], I24(W24(x[2]))>>
    BY <1>2, <2>1 DEF InfoRead
  <2>3. I24(W24(x[2])) = I24(x[2])
    BY <1>2, SignBack
  <2> QED  BY <1>2, <2>2, <2>3 DEF InfoTravels
<1>3. CASE k = "digital"
  BY <1>3 DEF InfoTravels, InfoRead, InfoWritten
<1> QED  BY <1>1, <1>2, <1>3 DEF ChannelKinds

\* What is read of a PMU is what travels of it.
LEMMA CopyTravels ==
  ASSUME GarbageIsNoPmu, NEW c, IsPmu(c), c.nominal \in {50, 60},
         \A n \in 1..c.count["analog"] : c.info["analog"][n][2] \in Int, NEW old
  PROVE  /\ PmuTravels(Copy(AsWritten(c), old), c)
         /\ old = NewPmu => Copy(AsWritten(c), old).nominal = c.nominal
<1> DEFINE w == AsWritten(c)
           got == Copy(w, old)
<1>1. /\ w.station = Padded(c.station) /\ w.id = c.id /\ w.format = c.format
      /\ w.count = c.count /\ w.nominal = c.nominal /\ w.change = c.change
      /\ w.names = [k \in DOMAIN c.names |->
                     [i \in 1..Len(c.names[k]) |-> Padded(c.names[k][i])]]
      /\ w.info = [k \in DOMAIN c.info |->
                    [i \in 1..Len(c.info[k]) |-> InfoWritten(k, c.info[k][i])]]
  BY DEF AsWritten
<1> HIDE DEF w
<1>2. /\ "station" \in DOMAIN got
      /\ got.station = w.station /\ got.id = w.id /\ got.format = w.format
      /\ got.count = w.count /\ got.change = w.change /\ got.names = w.names
      /\ got.info = [k \in ChannelKinds |-> InfosRead(k, w.info[k])]
      /\ got.nominal = IF w.nominal = 50 THEN 50 ELSE old.nominal
  BY DEF Copy
<1> HIDE DEF got
<1>3. got # Garbage
  BY <1>2 DEF GarbageIsNoPmu
<1>4. \A field \in {"id", "format", "count", "change"} : got[field] = c[field]
  BY <1>1, <1>2
<1>5. NameTravels(got.station, c.station)
  BY <1>1, <1>2, NamePadded
<1>6. DOMAIN c.count = ChannelKinds /\ DOMAIN c.names = ChannelKinds
      /\ DOMAIN c.info = ChannelKinds
  BY DEF IsPmu, ChannelKinds
<1>7. ASSUME NEW k \in ChannelKinds
      PROVE  /\ Len(got.names[k]) = Len(c.names[k]) /\ Len(got.info[k]) = Len(c.info[k])
             /\ \A i \in 1..Len(c.names[k]) : NameTravels(got.names[k][i], c.names[k][i])
             /\ \A i \in 1..Len(c.info[k]) : InfoTravels(k, got.info[k][i], c.info[k][i])
  <2> DEFINE s == c.names[k]  t == c.info[k]  a == got.names[k]  b == got.info[k]
             written == [i \in 1..Len(t) |-> InfoWritten(k, t[i])]
  <2>1. a = [i \in 1..Len(s) |-> Padded(s[i])]
    BY <1>1, <1>2, <1>6
  <2>2. w.info[k] = written
    BY <1>1, <1>6
  <2>3. b = InfosRead(k, written)
    BY <1>2, <2>2
  <2>4. Len(s) \in Nat /\ Len(t) \in Nat /\ Len(t) = c.count[k]
    BY PmuLists DEF IsList
  <2>5. k = "analog" => \A i \in 1..Len(t) : t[i][2] \in Int
    BY <2>4
  <2> HIDE DEF s, t, a, b
  <2>6. Len(written) = Len(t) /\ \A i \in 1..Len(t) : written[i] = InfoWritten(k, t[i])
    BY <2>4
  <2> HIDE DEF written
  <2>7. Len(b) = Len(t) /\ \A i \in 1..Len(t) : b[i] = InfoRead(k, InfoWritten(k, t[i]))
    BY <2>3, <2>4, <2>6 DEF InfosRead
  <2>8. \A i \in 1..Len(t) : InfoTravels(k, b[i], t[i])
    BY <2>5, <2>7, InfoBack
  <2>9. Len(a) = Len(s) /\ \A i \in 1..Len(s) : a[i] = Padded(s[i])
    BY <2>1, <2>4
  <2>10. \A i \in 1..Len(s) : NameTravels(a[i], s[i])
    BY <2>9, NamePadded
  <2> QED  BY <2>7, <2>8, <2>9, <2>10, Zenon DEF s, t, a, b
<1>8. PmuTravels(got, c)
  BY <1>3, <1>4, <1>5, <1>6, <1>7, Zenon DEF PmuTravels
<1>9. ASSUME old = NewPmu PROVE got.nominal = c.nominal
  BY <1>1, <1>2, <1>9 DEF NewPmu
<1> QED  BY <1>8, <1>9 DEF got, w

\* A packet that arrives whole is received as a configuration.
LEMMA WholeConfig ==
  ASSUME LinkInv, InBounds, Receive, Intact, sent.type \in {"config1", "config2"}
  PROVE  /\ ReceiveConfig
         /\ wire.type = sent.type
         /\ sent.config \in Configs /\ ConfigPacket(wire, room, sent.type, sent.config)
         /\ ParseConfig1(wire, length, rconfig).result = "parse_complete"
<1>1. /\ wire # NoPacket /\ UnderWay /\ length \in Int /\ wire.byteCount \in Int
      /\ SizedPacket(wire, room, sent)
  BY DEF LinkInv, InBounds, Receive, Sized
<1>2. wire.type = sent.type
  BY <1>1 DEF UnderWay, Describes
<1>3. sent.config \in Configs /\ ConfigPacket(wire, room, sent.type, sent.config)
  BY <1>1, <1>2 DEF SizedPacket
<1>4. wire.byteCount >= 16
  BY <1>1, <1>2, BytesNat DEF SizedPacket, Framed
<1>5. GetPacketType(wire, length) = wire.type
  BY <1>1, <1>4 DEF UnderWay, Intact, GetPacketType
<1>6. ReceiveConfig
  BY <1>2, <1>5 DEF Receive, ReceiveData, ReceiveCommand, ReceiveHeader, ReceiveUnknown
<1>7. ParseCommon(wire, length) = "parse_complete"
  BY <1>1 DEF UnderWay, Intact, ParseCommon
<1>8. ParseConfig1(wire, length, rconfig).result = "parse_complete"
  BY <1>2, <1>7 DEF ParseConfig1
<1> QED  BY <1>2, <1>3, <1>6, <1>8

\* Same, of an object that was used before or not
SameAs(r, c, before) ==
  /\ r.idcode = c.idcode /\ r.soc = c.soc /\ r.fracSec = c.fracSec
  /\ r.timeBase = W24(c.timeBase) /\ r.dataRate = c.dataRate
  /\ Len(r.pmus) = Len(c.pmus)
  /\ \A i \in DOMAIN c.pmus :
       /\ PmuTravels(r.pmus[i], c.pmus[i])
       /\ ~before => r.pmus[i].nominal = c.pmus[i].nominal

\* The configuration it was sent from
LEMMA ReceivesSame ==
  ASSUME ConfigsTravel, GarbageIsNoPmu, LinkInv, InBounds, Receive, Intact,
         sent.type \in {"config1", "config2"},
         sent.type = "config1" \/ AllActive(sent.config)
  PROVE  SameAs(rconfig', sent.config, reused')
<1> DEFINE c == sent.config
           n == Len(c.pmus)
           r == ParseConfig1(wire, length, rconfig)
<1>1. /\ ReceiveConfig /\ c \in Configs /\ ConfigPacket(wire, room, sent.type, c)
      /\ r.result = "parse_complete"
  BY WholeConfig
<1>2. rconfig' = r.config /\ reused' = (rconfig # NewConfig) /\ sent' = sent
  BY <1>1 DEF ReceiveConfig, Receive
<1>3. n \in Nat /\ DOMAIN c.pmus = 1..n
  BY <1>1 DEF ConfigPacket, GoodConfig, IsList
<1>4. AllWritten(sent.type, c, n)
  BY <1>3 DEF AllWritten, Written, AllActive
<1>5. /\ GoodPmus(r.config.pmus, n)
      /\ r.config.idcode = c.idcode /\ r.config.soc = c.soc
      /\ r.config.fracSec = c.fracSec /\ r.config.timeBase = W24(c.timeBase)
      /\ r.config.dataRate = c.dataRate
      /\ AllCopied(r.config.pmus, c, rconfig.pmus, n)
  BY <1>1, <1>4, ParsedConfig
<1> HIDE DEF c, n, r
<1>6. \A i \in 1..n : IsPmu(c.pmus[i])
  BY <1>1, Zenon DEF ConfigPacket, GoodConfig, n
<1>7. Len(r.config.pmus) = n
  BY <1>5 DEF GoodPmus
<1>8. ASSUME NEW i \in 1..n
      PROVE  /\ PmuTravels(r.config.pmus[i], c.pmus[i])
             /\ ~reused' => r.config.pmus[i].nominal = c.pmus[i].nominal
  <2> DEFINE old == OldPmu(rconfig.pmus, i)
             p == c.pmus[i]
  <2>1. r.config.pmus[i] = Copy(AsWritten(p), old)
    BY <1>5 DEF AllCopied
  <2>2. ASSUME ~reused' PROVE old = NewPmu
    <3>1. rconfig = NewConfig
      BY <1>2, <2>2, Zenon
    <3>2. rconfig.pmus = << >>
      BY <3>1 DEF NewConfig
    <3>3. i > Len(<< >>)
      BY <1>3
    <3> QED  BY <3>2, <3>3 DEF OldPmu
  <2>3. IsPmu(p)
    BY <1>6
  <2>4. p.nominal \in {50, 60} /\ \A k \in 1..p.count["analog"] : p.info["analog"][k][2] \in Int
    BY <1>1, Zenon DEF ConfigsTravel, n
  <2> HIDE DEF p, old
  <2>5. /\ PmuTravels(Copy(AsWritten(p), old), p)
        /\ old = NewPmu => Copy(AsWritten(p), old).nominal = p.nominal
    BY <2>3, <2>4, CopyTravels
  <2> QED  BY <2>1, <2>2, <2>5, Zenon DEF p
<1> DEFINE rc == r.config  before == reused'
<1>9. SameAs(rc, c, before)
  <2>1. /\ rc.idcode = c.idcode /\ rc.soc = c.soc /\ rc.fracSec = c.fracSec
        /\ rc.timeBase = W24(c.timeBase) /\ rc.dataRate = c.dataRate
        /\ Len(rc.pmus) = n
        /\ \A i \in 1..n :
             /\ PmuTravels(rc.pmus[i], c.pmus[i])
             /\ ~before => rc.pmus[i].nominal = c.pmus[i].nominal
    BY <1>5, <1>7, <1>8, Zenon
  <2> HIDE DEF rc, before
  <2> QED  BY <1>3, <2>1, Zenon DEF SameAs, n
<1> QED  BY <1>2, <1>9, Zenon DEF c

\* What has arrived stays until the next packet.
LEMMA NextArrives ==
  ASSUME ConfigsTravel, GarbageIsNoPmu, LinkInv, InBounds, ConfigArrives, [Next]_vars
  PROVE  ConfigArrives'
<1>1. CASE \E c \in Configs \ {config} : Configure(c)
  BY <1>1 DEF Configure, ConfigArrives, Same, Parsed, Intact
<1>2. ASSUME NEW size \in BufferSizes, SendAny(size) PROVE ConfigArrives'
  <2>1. result' = "not_parsed"
    BY <1>2, Sends DEF Sent, LinkInv, Sized
  <2> QED  BY <2>1 DEF ConfigArrives, Parsed
<1>3. CASE Damage
  <2>1. wire # NoPacket /\ wire' = [wire EXCEPT !.crc = FALSE] /\ DOMAIN wire = PacketFields
    BY <1>3 DEF Damage, LinkInv, UnderWay
  <2>2. ~Intact'
    BY <2>1 DEF Intact, PacketFields
  <2> QED  BY <2>2 DEF ConfigArrives
<1>4. ASSUME NEW n \in {15, length - 1, length + 20}, Deliver(n) PROVE ConfigArrives'
  <2>1. Intact' => Intact
    BY <1>4 DEF LinkInv, Sized, Deliver, Intact
  <2> QED  BY <1>4, <2>1 DEF Deliver, ConfigArrives, Same, Parsed
<1>5. CASE Receive
  <2>1. sent' = sent /\ (Intact' => Intact)
    BY <1>5 DEF Receive, Intact
  <2>2. SUFFICES ASSUME Intact, sent.type \in {"config1", "config2"},
                        sent.type = "config1" \/ AllActive(sent.config)
                 PROVE  Same(rconfig, sent.config)'
    BY <2>1 DEF ConfigArrives
  <2>3. SameAs(rconfig', sent'.config, reused')
    BY <1>5, <2>1, <2>2, ReceivesSame
  <2> QED  BY <2>1, <2>3 DEF Same, SameAs
<1>6. CASE Consume
  BY <1>6 DEF Consume, ConfigArrives, Parsed
<1>7. CASE UNCHANGED vars
  BY <1>7 DEF vars, ConfigArrives, Same, Parsed, Intact
<1> QED  BY <1>1, <1>2, <1>3, <1>4, <1>5, <1>6, <1>7, Zenon DEF Next

\* A configuration that arrives whole is the one that the source had, every PMU
\* with its channels in their places, whatever the receiver's object held before:
\* of each name the first 16 characters, the rest Nul; of the time base and of
\* each conversion 24 bits; all else as it was.
THEOREM Arrival ==
  ASSUME Fits, ConfigsFit, ConfigsTravel, GarbageIsNoPmu
  PROVE  Spec => []ConfigArrives
<1>1. Init => ConfigArrives
  BY DEF Init, ConfigArrives, Parsed
<1>2. LinkInv /\ InBounds /\ ConfigArrives /\ [Next]_vars
        => LinkInv' /\ InBounds' /\ ConfigArrives'
  BY NextLink, NextInBounds, NextArrives
<1> QED  BY InitLink, InitInBounds, <1>1, <1>2, PTL DEF Spec

-----------------------------------------------------------------------------
(* The numbers of data frames                                              *)

InInt16(n) == n \in Int /\ -32768 <= n /\ n <= 32767

\* What fits 16 bits with a sign is not changed by them.
LEMMA I16Same == ASSUME NEW n, InInt16(n) PROVE I16(n) = n
BY DEF I16, InInt16

\* Division cuts off less than the divisor.
LEMMA QuotNear ==
  ASSUME NEW a \in Int, NEW b \in Nat \ {0}
  PROVE  Quot(a, b) \in Int /\ Quot(a, b) * b - a < b /\ a - (Quot(a, b) * b) < b
<1>1. ASSUME NEW n \in Nat
      PROVE  n \div b \in Nat /\ (n \div b) * b <= n /\ n < (n \div b) * b + b
  <2> DEFINE q == n \div b  r == n % b
  <2>1. q \in Nat /\ r \in 0..(b - 1) /\ n = b * q + r
    OBVIOUS
  <2> HIDE DEF q, r
  <2>2. q * b <= n /\ n < q * b + b
    BY <2>1
  <2> QED  BY <2>1, <2>2 DEF q
<1>2. CASE a < 0
  <2> DEFINE q == (-a) \div b
  <2>1. -a \in Nat
    BY <1>2
  <2>2. q \in Nat /\ q * b <= -a /\ -a < q * b + b
    BY <1>1, <2>1
  <2>3. Quot(a, b) = -q
    BY <1>2 DEF Quot
  <2> HIDE DEF q
  <2>4. (-q) * b = -(q * b) /\ q * b \in Int
    BY <2>2
  <2> DEFINE m == q * b
  <2>5. (-q) * b = -m /\ m \in Int /\ m <= -a /\ -a < m + b
    BY <2>2, <2>4
  <2> HIDE DEF m
  <2>6. (-q) * b - a < b /\ a - ((-q) * b) < b
    BY <2>5
  <2> QED  BY <2>2, <2>3, <2>6
<1>3. CASE ~(a < 0)
  <2> DEFINE q == a \div b
  <2>1. a \in Nat
    BY <1>3
  <2>2. q \in Nat /\ q * b <= a /\ a < q * b + b
    BY <1>1, <2>1
  <2>3. Quot(a, b) = q
    BY <1>3 DEF Quot
  <2> HIDE DEF q
  <2> DEFINE m == q * b
  <2>5. m \in Int /\ m <= a /\ a < m + b
    BY <2>2
  <2> HIDE DEF m
  <2>6. m - a < b /\ a - m < b
    BY <2>5
  <2> QED  BY <2>2, <2>3, <2>6 DEF m
<1> QED  BY <1>2, <1>3

Max24 == 16777216
Max30 == 1073741824
TimeTravels(frac, base) ==
  frac \in Nat /\ base \in Nat \ {0} /\ frac * base < Unit * Max24

\* The bounds of ticks, as numbers whose values do not matter otherwise
LEMMA TickBounds ==
  /\ Max24 \in Nat /\ Max30 \in Nat /\ Max24 <= Max30
  /\ \A n \in Nat : n < Max24 => W24(n) = n
<1>1. Max24 \in Nat /\ Max30 \in Nat /\ Max24 <= Max30
  BY SMT DEF Max24, Max30
<1>2. ASSUME NEW n \in Nat, n < Max24 PROVE W24(n) = n
  BY <1>2, SMT DEF Max24, W24
<1> QED  BY <1>1, <1>2

\* `whole` seconds and `part` are too many ticks for a product of M.
Overflows(whole, part, base, M) ==
  LET above == whole - 4 * (M \div base)
  IN above >= 0 /\ (above >= 4 \/ above * base + part >= 4 * (M % base))

\* How ticks are counted
LEMMA TicksIs ==
  ASSUME NEW frac, NEW base
  PROVE  Ticks(frac, base) =
           IF Overflows(frac \div Unit, ((frac % Unit) * base) \div Unit, base, Max30)
           THEN Garbage
           ELSE W24((frac \div Unit) * base + ((frac % Unit) * base) \div Unit)
BY SMT DEF Ticks, Overflows, Max30

\* Ticks that are below a quarter of the bound do not overflow.
LEMMA NoOverflow ==
  ASSUME NEW q \in Nat, NEW y \in Nat, NEW b \in Nat, b > 0, NEW M \in Nat, q * b + y < M
  PROVE  ~Overflows(q, y, b, M)
<1> DEFINE d == M \div b  e == M % b  above == q - 4 * d
<1>1. d \in Nat /\ e \in Nat /\ e < b /\ M = b * d + e
  OBVIOUS
<1> HIDE DEF d, e
<1>2. above \in Int /\ above * b = q * b - 4 * (b * d) /\ q * b \in Nat /\ b * d \in Nat
  BY <1>1
<1> DEFINE u == b * d  p == q * b  v == above * b
<1>3. /\ v = p - 4 * u /\ p \in Nat /\ u \in Nat /\ M = u + e /\ p + y < M
      /\ v \in Int
  BY <1>1, <1>2
<1>4. above >= 4 => v >= 4 * b
  BY <1>1, <1>2
<1> HIDE DEF above, u, p, v
<1>5. ~(above >= 4) /\ ~(v + y >= 4 * e)
  BY <1>1, <1>3, <1>4
<1> QED  BY <1>5 DEF Overflows, above, v, d, e

\* The fraction of a second is cut off to the next tick.
LEMMA TicksAre ==
  ASSUME NEW frac, NEW base, TimeTravels(frac, base)
  PROVE  /\ Ticks(frac, base) * Unit <= frac * base
         /\ frac * base < (Ticks(frac, base) + 1) * Unit
<1> DEFINE q == frac \div Unit  r == frac % Unit
           m == r * base  y == m \div Unit  z == m % Unit
           x == q * base + y
           p == q * base  f == frac * base
<1>1. /\ frac \in Nat /\ base \in Nat /\ base > 0 /\ f < Unit * Max24
  BY DEF TimeTravels
<1>2. Ticks(frac, base) = IF Overflows(q, y, base, Max30) THEN Garbage ELSE W24(x)
  BY TicksIs
<1>3. q \in Nat /\ r \in Nat /\ r < 100 /\ frac = 100 * q + r
  BY <1>1 DEF Unit
<1> HIDE DEF q, r
<1>4. m \in Nat
  BY <1>1, <1>3
<1>5. frac * base = 100 * (q * base) + m
  BY <1>1, <1>3
<1> HIDE DEF m
<1>6. y \in Nat /\ z \in Nat /\ z < 100 /\ m = 100 * y + z
  BY <1>4 DEF Unit
<1> HIDE DEF y, z
<1>7. p \in Nat /\ f \in Nat /\ f = 100 * p + m /\ x = p + y /\ f < 100 * Max24
  BY <1>1, <1>3, <1>5 DEF Unit
<1> HIDE DEF f, x
<1> HIDE DEF p
<1>10. x \in Nat /\ 100 * x <= f /\ f < 100 * (x + 1)
  BY <1>4, <1>6, <1>7
<1>11. x < Max24
  BY <1>7, <1>10, TickBounds
<1>12. W24(x) = x
  BY <1>10, <1>11, TickBounds
<1>13. Ticks(frac, base) = x
  <2>1. x < Max30 /\ x = q * base + y
    BY <1>7, <1>10, <1>11, TickBounds DEF p
  <2>2. ~Overflows(q, y, base, Max30)
    BY <1>1, <1>3, <1>6, <2>1, TickBounds, NoOverflow
  <2> QED  BY <1>2, <1>12, <2>2, Zenon
<1>14. x * 100 <= f /\ f < (x + 1) * 100
  BY <1>7, <1>10
<1> QED  BY <1>13, <1>14 DEF f, Unit

-----------------------------------------------------------------------------
(* The channels of a data frame                                            *)

\* A phasor that the format of its PMU can tell: in integers, what is left of
\* it after the conversion fits 16 bits, as does the angle.
PhasorTravels(c, k, z) ==
  /\ IsList(z) /\ Len(z) = 2 /\ z[1] \in Int /\ z[2] \in Int
  /\ c.format.phasor # "float" =>
       /\ Conversion(c, k) \in Nat \ {0}
       /\ IF c.format.coord = "rect" THEN InInt16(Quot(z[1], Conversion(c, k)))
          ELSE Quot(z[1], Conversion(c, k)) \in 0..Max16
       /\ c.format.coord = "polar" => InInt16(z[2])

\* What is close to a number, up to a unit
LEMMA ExactIsClose ==
  ASSUME NEW c, NEW k, NEW got, NEW z, z[1] \in Int, z[2] \in Int,
         c.format.phasor = "float", got[1] = z[1], got[2] = z[2]
  PROVE  Close(c, k, got, z)
BY DEF Close

\* In integers it is enough to come within one unit of the conversion.
LEMMA NextUnitIsClose ==
  ASSUME NEW c, NEW k, NEW got, NEW z, z[2] \in Int, c.format.phasor # "float",
         got[1] - z[1] < Conversion(c, k), z[1] - got[1] < Conversion(c, k),
         c.format.coord = "polar" => got[2] = z[2]
  PROVE  Close(c, k, got, z)
BY DEF Close

\* A phasor that is written is read back as close as its format allows.
LEMMA PhasorRead ==
  ASSUME NEW c, NEW k, NEW z, PhasorTravels(c, k, z)
  PROVE  LET p == PhasorValues(c, k, z) IN
         /\ IsList(p) /\ Len(p) = 2
         /\ Close(c, k, Phasor(c, k, <<p[1], p[2]>>), z)
<1> DEFINE p == PhasorValues(c, k, z)
           got == Phasor(c, k, <<p[1], p[2]>>)
           s == Conversion(c, k)
           q == Quot(z[1], s)
<1>1. IsList(z) /\ Len(z) = 2 /\ z[1] \in Int /\ z[2] \in Int
  BY DEF PhasorTravels
<1>2. CASE c.format.phasor = "float"
  <2>1. p = z
    BY <1>2 DEF PhasorValues
  <2>2. got = <<p[1], p[2]>>
    BY <1>2 DEF Phasor
  <2> HIDE DEF p, got
  <2>3. got[1] = z[1] /\ got[2] = z[2]
    BY <2>1, <2>2
  <2>4. Close(c, k, got, z)
    BY <1>1, <1>2, <2>3, ExactIsClose
  <2> QED  BY <1>1, <2>1, <2>4 DEF p, got
<1>3. CASE c.format.phasor # "float"
  <2>1. /\ s \in Nat \ {0}
        /\ IF c.format.coord = "rect" THEN InInt16(q) ELSE q \in 0..Max16
        /\ c.format.coord = "polar" => InInt16(z[2])
    BY <1>3 DEF PhasorTravels
  <2>2. q \in Int /\ q * s - z[1] < s /\ z[1] - (q * s) < s
    BY <1>1, <2>1, QuotNear
  <2> DEFINE rect == c.format.coord = "rect"
             first == IF s = 0 THEN Garbage ELSE IF rect THEN I16(q) ELSE W16(q)
             second == IF rect THEN Stale ELSE I16(z[2])
  <2>3. p = <<first, second>>
    BY <1>3 DEF PhasorValues
  <2> HIDE DEF q
  <2>4. first = q
    <3>1. CASE rect
      <4>1. I16(q) = q
        BY <2>1, <3>1, I16Same
      <4> QED  BY <2>1, <3>1, <4>1
    <3>2. CASE ~rect
      <4>1. W16(q) = q
        BY <2>1, <2>2, <3>2, W16Facts, Maxima
      <4> QED  BY <2>1, <3>2, <4>1
    <3> QED  BY <3>1, <3>2
  <2>5. ASSUME c.format.coord = "polar" PROVE second = z[2]
    <3>1. I16(z[2]) = z[2]
      BY <2>1, <2>5, I16Same
    <3> QED  BY <2>5, <3>1
  <2> HIDE DEF first, second
  <2>6. IsList(p) /\ Len(p) = 2 /\ p[1] = first /\ p[2] = second
    <3> HIDE DEF p
    <3> QED  BY <2>3 DEF IsList
  <2> HIDE DEF p
  <2> DEFINE scaled(x) == IF s = 0 THEN 0 ELSE x * s
  <2>7. got = <<scaled(p[1]), IF c.format.coord = "polar" \/ p[2] = Stale THEN p[2]
                              ELSE scaled(p[2])>>
    BY <1>3 DEF Phasor
  <2> HIDE DEF got
  <2>8. got[1] = q * s
    BY <2>1, <2>4, <2>6, <2>7
  <2>9. ASSUME c.format.coord = "polar" PROVE got[2] = z[2]
    BY <2>5, <2>6, <2>7, <2>9
  <2>10. got[1] - z[1] < s /\ z[1] - got[1] < s
    BY <2>2, <2>8
  <2>11. Close(c, k, got, z)
    BY <1>1, <1>3, <2>9, <2>10, NextUnitIsClose
  <2> QED  BY <2>6, <2>11 DEF p, got
<1> QED  BY <1>2, <1>3

\* Lists one behind the other
Joins(g, s, n) ==
  /\ \A k \in 0..n : IsList(g[k])
  /\ g[0] = << >>
  /\ \A k \in 0..(n - 1) : g[k + 1] = g[k] \o s[k + 1]
  /\ Concat(s) = g[n]

\* A concatenation goes through lists that grow by one part after the other.
LEMMA ConcatSteps ==
  ASSUME NEW n \in Nat, NEW s, s = [i \in 1..n |-> s[i]], \A i \in 1..n : IsList(s[i])
  PROVE  \E g : Joins(g, s, n)
<1> DEFINE E == UNION {Elements(s[i]) : i \in 1..n}
<1>1. ASSUME NEW i \in 1..n PROVE s[i] \in Seq(E)
  <2>1. Elements(s[i]) \subseteq E
    OBVIOUS
  <2> HIDE DEF E
  <2> QED  BY <2>1, ListSeq
<1> HIDE DEF E
<1>2. s \in Seq(Seq(E)) /\ Len(s) = n
  BY <1>1
<1>3. PICK g : IsTrace(g, ConcatF(E), Seq(E), << >>, s) /\ Concat(s) = g[Len(s)]
  BY <1>2, ConcatTrace
<1>4. /\ g \in [0..n -> Seq(E)] /\ g[0] = << >> /\ Concat(s) = g[n]
      /\ \A k \in 0..(n - 1) : g[k + 1] = ConcatF(E)[<<g[k], s[k + 1]>>]
  BY <1>2, <1>3 DEF IsTrace
<1>5. ASSUME NEW k \in 0..(n - 1) PROVE g[k + 1] = g[k] \o s[k + 1]
  <2>1. k \in 0..n /\ k + 1 \in 1..n
    OBVIOUS
  <2>2. g[k] \in Seq(E) /\ s[k + 1] \in Seq(E)
    BY <1>1, <1>4, <2>1
  <2> QED  BY <1>4, <2>2 DEF ConcatF
<1>6. \A k \in 0..n : IsList(g[k])
  <2>1. \A k \in 0..n : g[k] \in Seq(E)
    BY <1>4
  <2> QED  BY <2>1, SeqList
<1>7. Joins(g, s, n)
  BY <1>4, <1>5, <1>6 DEF Joins
<1> QED  BY <1>7

\* Pairs one behind the other
PairsIn(t, s, k) ==
  Len(t) = 2 * k /\ \A j \in 1..k : t[2 * j - 1] = s[j][1] /\ t[2 * j] = s[j][2]

\* Of pairs one behind the other each is where it was put.
LEMMA ConcatPairs ==
  ASSUME NEW n \in Nat, NEW s, s = [i \in 1..n |-> s[i]],
         \A i \in 1..n : IsList(s[i]) /\ Len(s[i]) = 2
  PROVE  IsList(Concat(s)) /\ PairsIn(Concat(s), s, n)
<1>1. PICK g : Joins(g, s, n)
  BY ConcatSteps
<1>2. /\ \A k \in 0..n : IsList(g[k])
      /\ g[0] = << >> /\ Concat(s) = g[n]
      /\ \A k \in 0..(n - 1) : g[k + 1] = g[k] \o s[k + 1]
  BY <1>1 DEF Joins
<1> DEFINE S == {k \in Nat : k <= n => PairsIn(g[k], s, k)}
<1>3. 0 \in S
  BY <1>2 DEF PairsIn
<1>4. ASSUME NEW k \in Nat, k \in S PROVE k + 1 \in S
  <2>1. SUFFICES ASSUME k + 1 <= n PROVE PairsIn(g[k + 1], s, k + 1)
    OBVIOUS
  <2> DEFINE a == g[k]  p == s[k + 1]  t == g[k + 1]
  <2>0. k <= n /\ k \in 0..n /\ k \in 0..(n - 1) /\ k + 1 \in 1..n
    BY <2>1
  <2>2. /\ IsList(a) /\ t = a \o p
        /\ IsList(p) /\ Len(p) = 2
        /\ PairsIn(a, s, k)
    <3>1. IsList(a) /\ t = a \o p
      BY <1>2, <2>0
    <3>2. IsList(p) /\ Len(p) = 2
      BY <2>0
    <3> QED  BY <1>4, <2>0, <3>1, <3>2
  <2>3. p = s[k + 1]
    OBVIOUS
  <2> HIDE DEF a, p, t
  <2>4. /\ Len(t) = Len(a) + Len(p)
        /\ \A i \in 1..Len(a) : t[i] = a[i]
        /\ \A i \in 1..Len(p) : t[Len(a) + i] = p[i]
    <3>1. IsList(a) /\ IsList(p)
      BY <2>2
    <3>2. /\ Len(a \o p) = Len(a) + Len(p)
          /\ \A i \in 1..Len(a) : (a \o p)[i] = a[i]
          /\ \A i \in 1..Len(p) : (a \o p)[Len(a) + i] = p[i]
      BY <3>1, Joined
    <3> QED  BY <2>2, <3>2
  <2>5. Len(a) = 2 * k /\ \A j \in 1..k : a[2 * j - 1] = s[j][1] /\ a[2 * j] = s[j][2]
    BY <2>2 DEF PairsIn
  <2>6. /\ Len(t) = 2 * k + 2
        /\ \A i \in 1..(2 * k) : t[i] = a[i]
        /\ t[2 * k + 1] = p[1] /\ t[2 * k + 2] = p[2]
    <3>1. Len(a) = 2 * k /\ Len(p) = 2 /\ 1 \in 1..2 /\ 2 \in 1..2
      BY <2>2, <2>5
    <3>2. t[2 * k + 1] = p[1] /\ t[2 * k + 2] = p[2]
      BY <2>4, <3>1
    <3> QED  BY <2>4, <3>1, <3>2
  <2>7. ASSUME NEW j \in 1..(k + 1)
        PROVE  t[2 * j - 1] = s[j][1] /\ t[2 * j] = s[j][2]
    <3>1. CASE j \in 1..k
      <4>1. 2 * j - 1 \in 1..(2 * k) /\ 2 * j \in 1..(2 * k)
        BY <3>1
      <4> QED  BY <2>5, <2>6, <3>1, <4>1
    <3>2. CASE j = k + 1
      <4>1. 2 * j - 1 = 2 * k + 1 /\ 2 * j = 2 * k + 2
        BY <3>2
      <4> QED  BY <2>3, <2>6, <3>2, <4>1
    <3>3. j \in 1..k \/ j = k + 1
      OBVIOUS
    <3> QED  BY <3>1, <3>2, <3>3
  <2>8. Len(t) = 2 * (k + 1)
    BY <2>6
  <2>9. PairsIn(t, s, k + 1)
    BY <2>7, <2>8 DEF PairsIn
  <2> QED  BY <2>9 DEF t
<1>5. \A k \in Nat : k \in S
  <2> HIDE DEF S
  <2> QED  BY <1>3, <1>4, Induction
<1>6. n \in 0..n /\ n <= n
  OBVIOUS
<1> QED  BY <1>2, <1>5, <1>6

-----------------------------------------------------------------------------
(* The data of a PMU                                                       *)

\* Data that the formats of a PMU can tell: of each kind as many channels as
\* it counts, and integers of 16 bits where they are written as such.
DataTravels(c, d) ==
  /\ IsList(d.phasors) /\ c.count["phasor"] <= Len(d.phasors)
  /\ \A k \in 1..c.count["phasor"] : PhasorTravels(c, k, d.phasors[k])
  /\ c.format.freq # "float" => InInt16(d.freq) /\ InInt16(d.rocof)
  /\ IsList(d.analog) /\ c.count["analog"] <= Len(d.analog)
  /\ c.format.analog = "int" => \A k \in 1..c.count["analog"] : InInt16(d.analog[k])
  /\ IsList(d.digital) /\ c.count["digital"] <= Len(d.digital)

\* The beginning of a list
LEMMA Prefix ==
  ASSUME NEW s, IsList(s), NEW k \in Nat, k <= Len(s)
  PROVE  /\ IsList(SubSeq(s, 1, k)) /\ Len(SubSeq(s, 1, k)) = k
         /\ SubSeq(s, 1, k) = [i \in 1..k |-> s[i]]
<1> DEFINE E == Elements(s)
<1>1. s \in Seq(E) /\ Len(s) \in Nat
  BY ListSeq DEF IsList
<1> HIDE DEF E
<1>2. SubSeq(s, 1, k) \in Seq(E) /\ Len(SubSeq(s, 1, k)) = k
  BY <1>1
<1>3. SubSeq(s, 1, k) = [i \in 1..k |-> s[i]]
  BY <1>1
<1> QED  BY <1>2, <1>3, SeqList

\* The values of the data of a PMU, as they are written
Stat(d) == <<d.stat>>
PhasorPairs(c, d) == [i \in 1..c.count["phasor"] |-> PhasorValues(c, i, d.phasors[i])]
Freqs(d) == <<d.freq, d.rocof>>
Analogs(c, d) == SubSeq(d.analog, 1, c.count["analog"])
Digitals(c, d) == SubSeq(d.digital, 1, c.count["digital"])
DataValues(c, d) ==
  (((Stat(d) \o Concat(PhasorPairs(c, d))) \o Freqs(d)) \o Analogs(c, d)) \o Digitals(c, d)

\* Data that travel are written as they are, but for phasors.
LEMMA PlainValues ==
  ASSUME NEW c, c.count \in [ChannelKinds -> Nat], NEW d, DataTravels(c, d)
  PROVE  GeneratePmuData(c, d) = [i \in 1..Len(PmuDataWidths(c)) |->
                                   F(PmuDataWidths(c)[i], DataValues(c, d)[i])]
<1> DEFINE an == c.count["analog"]
           a == [i \in 1..an |-> IF c.format.analog = "int" THEN I16(d.analog[i]) ELSE d.analog[i]]
           f == <<Freq(c, d.freq), Freq(c, d.rocof)>>
           values == <<d.stat>> \o Concat(PhasorPairs(c, d)) \o f \o a
                       \o SubSeq(d.digital, 1, c.count["digital"])
<1>1. GeneratePmuData(c, d) =
        [i \in 1..Len(PmuDataWidths(c)) |-> F(PmuDataWidths(c)[i], values[i])]
  BY Zenon DEF GeneratePmuData, PhasorPairs
<1>2. f = Freqs(d)
  <2>1. ASSUME c.format.freq # "float" PROVE I16(d.freq) = d.freq /\ I16(d.rocof) = d.rocof
    BY <2>1, I16Same DEF DataTravels
  <2>2. Freq(c, d.freq) = d.freq /\ Freq(c, d.rocof) = d.rocof
    BY <2>1 DEF Freq
  <2> QED  BY <2>2 DEF Freqs
<1>3. a = Analogs(c, d)
  <2>1. an \in Nat /\ IsList(d.analog) /\ an <= Len(d.analog)
    BY DEF DataTravels, ChannelKinds
  <2>2. ASSUME NEW i \in 1..an PROVE a[i] = d.analog[i]
    <3>1. CASE c.format.analog = "int"
      <4>1. InInt16(d.analog[i])
        BY <3>1 DEF DataTravels
      <4>2. I16(d.analog[i]) = d.analog[i]
        BY <4>1, I16Same
      <4> QED  BY <4>2
    <3>2. CASE c.format.analog # "int"
      BY <3>2
    <3> QED  BY <3>1, <3>2
  <2>3. SubSeq(d.analog, 1, an) = [i \in 1..an |-> d.analog[i]]
    BY <2>1, Prefix
  <2>4. a = [i \in 1..an |-> d.analog[i]]
    <3>1. a = [i \in 1..an |-> a[i]]
      OBVIOUS
    <3> HIDE DEF a
    <3> QED  BY <2>2, <3>1
  <2> QED  BY <2>3, <2>4, Zenon DEF Analogs
<1>4. values = DataValues(c, d)
  <2> HIDE DEF f, a
  <2> QED  BY <1>2, <1>3, Zenon DEF DataValues, Stat, Digitals
<1> QED  BY <1>1, <1>4, Zenon

\* The lengths of these parts
LEMMA DataLengths ==
  ASSUME NEW c, c.count \in [ChannelKinds -> Nat], NEW d, DataTravels(c, d)
  PROVE  LET p == c.count["phasor"]  ph == Concat(PhasorPairs(c, d)) IN
         /\ p \in Nat /\ c.count["analog"] \in Nat /\ c.count["digital"] \in Nat
         /\ IsList(Stat(d)) /\ Len(Stat(d)) = 1
         /\ IsList(ph) /\ Len(ph) = 2 * p /\ PairsIn(ph, PhasorPairs(c, d), p)
         /\ IsList(Freqs(d)) /\ Len(Freqs(d)) = 2
         /\ IsList(Analogs(c, d)) /\ Len(Analogs(c, d)) = c.count["analog"]
         /\ IsList(Digitals(c, d)) /\ Len(Digitals(c, d)) = c.count["digital"]
<1> DEFINE p == c.count["phasor"]  s == PhasorPairs(c, d)
<1>1. p \in Nat /\ c.count["analog"] \in Nat /\ c.count["digital"] \in Nat
  BY DEF ChannelKinds
<1>2. IsList(Stat(d)) /\ Len(Stat(d)) = 1
  BY DEF Stat, IsList
<1>3. IsList(Freqs(d)) /\ Len(Freqs(d)) = 2
  BY DEF Freqs, IsList
<1>4. IsList(Analogs(c, d)) /\ Len(Analogs(c, d)) = c.count["analog"]
  BY <1>1, Prefix DEF DataTravels, Analogs
<1>5. IsList(Digitals(c, d)) /\ Len(Digitals(c, d)) = c.count["digital"]
  BY <1>1, Prefix DEF DataTravels, Digitals
<1>6. IsList(Concat(s)) /\ PairsIn(Concat(s), s, p)
  <2>1. ASSUME NEW i \in 1..p PROVE IsList(s[i]) /\ Len(s[i]) = 2
    <3>1. s[i] = PhasorValues(c, i, d.phasors[i])
      BY DEF PhasorPairs
    <3>2. PhasorTravels(c, i, d.phasors[i])
      BY DEF DataTravels
    <3>3. IsList(PhasorValues(c, i, d.phasors[i])) /\ Len(PhasorValues(c, i, d.phasors[i])) = 2
      BY <3>2, PhasorRead
    <3> QED  BY <3>1, <3>3, Zenon
  <2>2. s = [i \in 1..p |-> s[i]]
    BY DEF PhasorPairs
  <2> HIDE DEF s, p
  <2> QED  BY <1>1, <2>1, <2>2, ConcatPairs
<1>7. Len(Concat(s)) = 2 * p
  BY <1>6 DEF PairsIn
<1> QED  BY <1>1, <1>2, <1>3, <1>4, <1>5, <1>6, <1>7

\* As many widths are written as values.
LEMMA WidthsLength ==
  ASSUME NEW c, c.count \in [ChannelKinds -> Nat]
  PROVE  Len(PmuDataWidths(c))
           = (((1 + 2 * c.count["phasor"]) + 2) + c.count["analog"]) + c.count["digital"]
<1> DEFINE p == c.count["phasor"]  a == c.count["analog"]  d == c.count["digital"]
           x1 == <<2>>  x2 == Times(Width(c.format.phasor), 2 * p)
           x3 == Times(Width(c.format.freq), 2)
           x4 == Times(Width(c.format.analog), a)  x5 == Times(2, d)
           y2 == x1 \o x2  y3 == y2 \o x3  y4 == y3 \o x4  y5 == y4 \o x5
<1>1. PmuDataWidths(c) = y5
  BY DEF PmuDataWidths
<1>2. p \in Nat /\ a \in Nat /\ d \in Nat /\ 2 * p \in Nat
  BY DEF ChannelKinds
<1>3. /\ IsList(x1) /\ Len(x1) = 1
      /\ IsList(x2) /\ Len(x2) = 2 * p
      /\ IsList(x3) /\ Len(x3) = 2
      /\ IsList(x4) /\ Len(x4) = a
      /\ IsList(x5) /\ Len(x5) = d
  <2>1. IsList(x1) /\ Len(x1) = 1
    BY DEF IsList
  <2> QED  BY <1>2, <2>1, TimesFacts, 2 \in Nat
<1> HIDE DEF p, a, d, x1, x2, x3, x4, x5
<1>4. IsList(y2) /\ Len(y2) = 1 + 2 * p
  BY <1>3, Longer
<1> HIDE DEF y2
<1>5. IsList(y3) /\ Len(y3) = (1 + 2 * p) + 2
  BY <1>3, <1>4, Longer
<1> HIDE DEF y3
<1>6. IsList(y4) /\ Len(y4) = ((1 + 2 * p) + 2) + a
  BY <1>3, <1>5, Longer
<1> HIDE DEF y4
<1>7. Len(y5) = (((1 + 2 * p) + 2) + a) + d
  BY <1>3, <1>6, Longer
<1> QED  BY <1>1, <1>7 DEF p, a, d

\* The values that were written are the values of the fields.
LEMMA DataWritten ==
  ASSUME NEW c, c.count \in [ChannelKinds -> Nat], NEW d, DataTravels(c, d)
  PROVE  LET b == GeneratePmuData(c, d) IN
         /\ IsList(b) /\ Len(b) = Len(PmuDataWidths(c))
         /\ Widths(b) = PmuDataWidths(c) /\ Values(b) = DataValues(c, d)
<1> DEFINE w == PmuDataWidths(c)  u == DataValues(c, d)  b == GeneratePmuData(c, d)
           p == c.count["phasor"]  a == c.count["analog"]  g == c.count["digital"]
           x1 == Stat(d)  x2 == Concat(PhasorPairs(c, d))  x3 == Freqs(d)
           x4 == Analogs(c, d)  x5 == Digitals(c, d)
           y2 == x1 \o x2  y3 == y2 \o x3  y4 == y3 \o x4  y5 == y4 \o x5
<1>1. u = y5
  BY DEF DataValues
<1>2. /\ IsList(x1) /\ Len(x1) = 1
      /\ IsList(x2) /\ Len(x2) = 2 * p
      /\ IsList(x3) /\ Len(x3) = 2
      /\ IsList(x4) /\ Len(x4) = a
      /\ IsList(x5) /\ Len(x5) = g
  BY DataLengths
<1>3. Len(w) = (((1 + 2 * p) + 2) + a) + g
  BY WidthsLength
<1>4. w \in Seq(Nat)
  BY DataWidthsTotal
<1>5. b = [i \in 1..Len(w) |-> F(w[i], u[i])]
  BY PlainValues
<1> HIDE DEF p, a, g, x1, x2, x3, x4, x5, w, u, b
<1>6. IsList(y2) /\ Len(y2) = 1 + 2 * p
  BY <1>2, Longer
<1> HIDE DEF y2
<1>7. IsList(y3) /\ Len(y3) = (1 + 2 * p) + 2
  BY <1>2, <1>6, Longer
<1> HIDE DEF y3
<1>8. IsList(y4) /\ Len(y4) = ((1 + 2 * p) + 2) + a
  BY <1>2, <1>7, Longer
<1> HIDE DEF y4
<1>9. IsList(y5) /\ Len(y5) = (((1 + 2 * p) + 2) + a) + g
  BY <1>2, <1>8, Longer
<1> HIDE DEF y5
<1>10. IsList(u) /\ Len(u) = Len(w)
  BY <1>1, <1>3, <1>9
<1>11. Len(w) \in Nat /\ w = [i \in 1..Len(w) |-> w[i]]
  BY <1>4
<1>12. u = [i \in 1..Len(w) |-> u[i]]
  BY <1>10 DEF IsList
<1>13. Len(b) = Len(w) /\ \A i \in 1..Len(w) : b[i].w = w[i] /\ b[i].v = u[i]
  BY <1>5, <1>11 DEF F
<1>14. IsList(b)
  BY <1>5, <1>11 DEF IsList
<1>15. Widths(b) = w
  BY <1>11, <1>13 DEF Widths
<1>16. Values(b) = u
  BY <1>11, <1>12, <1>13 DEF Values
<1> QED  BY <1>13, <1>14, <1>15, <1>16 DEF w, u, b

\* The values of a body begin with those of its beginning.
LEMMA ValuesStart ==
  ASSUME NEW b, NEW t, IsList(b), IsList(t)
  PROVE  Starts(Values(b), Values(b \o t))
<1> DEFINE s == b \o t
<1>1. /\ IsList(s) /\ Len(s) = Len(b) + Len(t) /\ \A i \in 1..Len(b) : s[i] = b[i]
  BY Joined
<1> HIDE DEF s
<1>2. Len(b) \in Nat /\ Len(t) \in Nat /\ Len(s) \in Nat
  BY <1>1 DEF IsList
<1>3. /\ IsList(Values(b)) /\ Len(Values(b)) = Len(b)
      /\ \A i \in 1..Len(b) : Values(b)[i] = b[i].v
  BY <1>2 DEF Values, IsList
<1>4. /\ IsList(Values(s)) /\ Len(Values(s)) = Len(s)
      /\ \A i \in 1..Len(s) : Values(s)[i] = s[i].v
  BY <1>2 DEF Values, IsList
<1>5. \A i \in 1..Len(b) : Values(s)[i] = Values(b)[i]
  BY <1>1, <1>2, <1>3, <1>4
<1>6. Starts(Values(b), Values(s))
  BY <1>1, <1>2, <1>3, <1>4, <1>5 DEF Starts
<1> QED  BY <1>6 DEF s

\* Each value is read from the place where it was written.
ValuesAt(c, d, v) ==
  LET p == c.count["phasor"]  ph == 1 + 2 * p  an == ph + 2 + c.count["analog"] IN
  /\ v[1] = d.stat
  /\ \A k \in 1..p : /\ v[2 * k] = PhasorValues(c, k, d.phasors[k])[1]
                     /\ v[2 * k + 1] = PhasorValues(c, k, d.phasors[k])[2]
  /\ v[ph + 1] = d.freq /\ v[ph + 2] = d.rocof
  /\ SubSeq(v, ph + 3, an) = Analogs(c, d)
  /\ SubSeq(v, an + 1, an + c.count["digital"]) = Digitals(c, d)

\* Values that start with those of a frame are parted like them.
LEMMA ValuesParted ==
  ASSUME NEW c, c.count \in [ChannelKinds -> Nat], NEW d, DataTravels(c, d),
         NEW v, Starts(DataValues(c, d), v)
  PROVE  ValuesAt(c, d, v)
<1> DEFINE p == c.count["phasor"]  a == c.count["analog"]  g == c.count["digital"]
           ph == 1 + 2 * p  an == ph + 2 + a
           x1 == Stat(d)  x2 == Concat(PhasorPairs(c, d))  x3 == Freqs(d)
           x4 == Analogs(c, d)  x5 == Digitals(c, d)
           y2 == x1 \o x2  y3 == y2 \o x3  y4 == y3 \o x4  y5 == y4 \o x5
<1>1. Starts(y5, v)
  BY DEF DataValues
<1>2. /\ p \in Nat /\ a \in Nat /\ g \in Nat
      /\ IsList(x1) /\ Len(x1) = 1
      /\ IsList(x2) /\ Len(x2) = 2 * p /\ PairsIn(x2, PhasorPairs(c, d), p)
      /\ IsList(x3) /\ Len(x3) = 2
      /\ IsList(x4) /\ Len(x4) = a
      /\ IsList(x5) /\ Len(x5) = g
  BY DataLengths
<1>3. x1[1] = d.stat /\ x3[1] = d.freq /\ x3[2] = d.rocof
  BY DEF Stat, Freqs
<1> HIDE DEF p, a, g, x1, x2, x3, x4, x5
<1>4. IsList(y2) /\ Len(y2) = ph
  BY <1>2, Longer
<1>5. IsList(y3) /\ Len(y3) = ph + 2
  <2> HIDE DEF y2, ph
  <2> QED  BY <1>2, <1>4, Longer
<1>6. IsList(y4) /\ Len(y4) = an
  <2> HIDE DEF y3, ph
  <2> QED  BY <1>2, <1>5, Longer
<1>7. Starts(y4, v) /\ Reads(v, an, x5)
  <2> HIDE DEF y4, an
  <2>1. IsList(y4) /\ IsList(x5) /\ Starts(y4 \o x5, v)
    BY <1>1, <1>2, <1>6
  <2>2. Starts(y4, v) /\ Reads(v, Len(y4), x5)
    BY <2>1, StartsWith
  <2> QED  BY <1>6, <2>2
<1>8. Starts(y3, v) /\ Reads(v, ph + 2, x4)
  <2> HIDE DEF y3, ph
  <2>1. IsList(y3) /\ IsList(x4) /\ Starts(y3 \o x4, v)
    BY <1>2, <1>5, <1>7
  <2>2. Starts(y3, v) /\ Reads(v, Len(y3), x4)
    BY <2>1, StartsWith
  <2> QED  BY <1>5, <2>2
<1>9. Starts(y2, v) /\ Reads(v, ph, x3)
  <2> HIDE DEF y2, ph
  <2>1. IsList(y2) /\ IsList(x3) /\ Starts(y2 \o x3, v)
    BY <1>2, <1>4, <1>8
  <2>2. Starts(y2, v) /\ Reads(v, Len(y2), x3)
    BY <2>1, StartsWith
  <2> QED  BY <1>4, <2>2
<1>10. Starts(x1, v) /\ Reads(v, 1, x2)
  <2>1. IsList(x1) /\ IsList(x2) /\ Starts(x1 \o x2, v)
    BY <1>2, <1>9
  <2>2. Starts(x1, v) /\ Reads(v, Len(x1), x2)
    BY <2>1, StartsWith
  <2> QED  BY <1>2, <2>2
<1> HIDE DEF y2, y3, y4, y5
<1>11. v[1] = d.stat
  BY <1>2, <1>3, <1>10 DEF Starts
<1>12. v[ph + 1] = d.freq /\ v[ph + 2] = d.rocof
  <2>1. \A i \in 1..Len(x3) : v[ph + i] = x3[i]
    BY <1>9, Zenon DEF Reads
  <2>2. 1 \in 1..2 /\ 2 \in 1..2
    OBVIOUS
  <2> HIDE DEF ph
  <2> QED  BY <1>2, <1>3, <2>1, <2>2
<1>13. SubSeq(v, ph + 3, an) = x4
  <2> DEFINE k == ph + 2
  <2>1. Reads(v, k, x4) /\ k + 1 = ph + 3 /\ k + Len(x4) = an
    BY <1>2, <1>8
  <2> HIDE DEF k, ph, an
  <2>2. SubSeq(v, k + 1, k + Len(x4)) = x4
    BY <2>1, ReadsSub
  <2> QED  BY <2>1, <2>2
<1>14. SubSeq(v, an + 1, an + g) = x5
  <2> HIDE DEF an
  <2>1. SubSeq(v, an + 1, an + Len(x5)) = x5
    BY <1>7, ReadsSub
  <2> QED  BY <1>2, <2>1
<1>15. ASSUME NEW k \in 1..p
       PROVE  /\ v[2 * k] = PhasorValues(c, k, d.phasors[k])[1]
              /\ v[2 * k + 1] = PhasorValues(c, k, d.phasors[k])[2]
  <2> DEFINE z == PhasorValues(c, k, d.phasors[k])
  <2>1. PhasorPairs(c, d)[k] = z
    BY DEF PhasorPairs, p
  <2>2. x2[2 * k - 1] = PhasorPairs(c, d)[k][1] /\ x2[2 * k] = PhasorPairs(c, d)[k][2]
    BY <1>2 DEF PairsIn
  <2> HIDE DEF z
  <2>3. \A i \in 1..(2 * p) : v[1 + i] = x2[i]
    BY <1>2, <1>10 DEF Reads
  <2>4. /\ 2 * k - 1 \in 1..(2 * p) /\ 2 * k \in 1..(2 * p)
        /\ 1 + (2 * k - 1) = 2 * k /\ 1 + 2 * k = 2 * k + 1
    BY <1>2
  <2>5. v[2 * k] = x2[2 * k - 1] /\ v[2 * k + 1] = x2[2 * k]
    BY <2>3, <2>4
  <2>6. v[2 * k] = z[1] /\ v[2 * k + 1] = z[2]
    BY <2>1, <2>2, <2>5
  <2> QED  BY <2>6 DEF z
<1> QED  BY <1>11, <1>12, <1>13, <1>14, <1>15, Zenon DEF ValuesAt, p, a, g, x4, x5

\* What arrives of the data of a PMU
PmuArrives(c, d, got) ==
  /\ got # Garbage
  /\ \A k \in 1..c.count["phasor"] : Close(c, k, got.phasors[k], d.phasors[k])
  /\ got.stat = d.stat
  /\ got.freq = d.freq /\ got.rocof = d.rocof
  /\ got.analog = SubSeq(d.analog, 1, c.count["analog"])
  /\ got.digital = SubSeq(d.digital, 1, c.count["digital"])

\* What is read out of place is no data.
GarbageIsNoData == "stat" \notin DOMAIN Garbage

\* The data of a PMU are read back, whatever comes after them, with any
\* configuration of that PMU that says the same about its channels.
LEMMA DataRead ==
  ASSUME GarbageIsNoData, NEW c, c.count \in [ChannelKinds -> Nat], NEW d, DataTravels(c, d),
         NEW r, r.count = c.count, r.format = c.format,
         \A k \in 1..c.count["phasor"] : Conversion(r, k) = Conversion(c, k),
         NEW t, IsList(t)
  PROVE  PmuArrives(c, d, ParsePmuData(GeneratePmuData(c, d) \o t, r))
<1> DEFINE b == GeneratePmuData(c, d)
           body == b \o t
           v == Values(body)
           p == c.count["phasor"]  ph == 1 + 2 * p  an == ph + 2 + c.count["analog"]
           got == ParsePmuData(body, r)
<1>1. /\ IsList(b) /\ Len(b) = Len(PmuDataWidths(c))
      /\ Widths(b) = PmuDataWidths(c) /\ Values(b) = DataValues(c, d)
  BY DataWritten
<1>2. PmuDataWidths(r) = PmuDataWidths(c)
  BY DEF PmuDataWidths
<1>3. \A k \in 1..p : \A x : Phasor(r, k, x) = Phasor(c, k, x)
  BY DEF Phasor
<1> HIDE DEF b
<1>4. Aligned(body, PmuDataWidths(r))
  <2>1. Starts(b, body)
    BY <1>1, StartsItself
  <2> HIDE DEF body
  <2>2. Aligned(body, Widths(b))
    BY <2>1, StartsAligned
  <2> QED  BY <1>1, <1>2, <2>2
<1>5. Starts(DataValues(c, d), v)
  BY <1>1, ValuesStart
<1> HIDE DEF body
<1>6. got = [stat |-> v[1],
             phasors |-> [i \in 1..p |-> Phasor(r, i, <<v[2 * i], v[2 * i + 1]>>)],
             freq |-> v[ph + 1], rocof |-> v[ph + 2],
             analog |-> SubSeq(v, ph + 3, an),
             digital |-> SubSeq(v, an + 1, an + c.count["digital"])]
  BY <1>4, Zenon DEF ParsePmuData
<1> HIDE DEF v, got, ph, an
<1>7. /\ got.stat = v[1] /\ got.freq = v[ph + 1] /\ got.rocof = v[ph + 2]
      /\ got.analog = SubSeq(v, ph + 3, an)
      /\ got.digital = SubSeq(v, an + 1, an + c.count["digital"])
      /\ \A k \in 1..p : got.phasors[k] = Phasor(r, k, <<v[2 * k], v[2 * k + 1]>>)
      /\ "stat" \in DOMAIN got
  BY <1>6
<1>8. ValuesAt(c, d, v)
  BY <1>5, ValuesParted
<1>9. /\ v[1] = d.stat
      /\ \A k \in 1..p : /\ v[2 * k] = PhasorValues(c, k, d.phasors[k])[1]
                         /\ v[2 * k + 1] = PhasorValues(c, k, d.phasors[k])[2]
      /\ v[ph + 1] = d.freq /\ v[ph + 2] = d.rocof
      /\ SubSeq(v, ph + 3, an) = Analogs(c, d)
      /\ SubSeq(v, an + 1, an + c.count["digital"]) = Digitals(c, d)
  BY <1>8, Zenon DEF ValuesAt, ph, an
<1>10. got # Garbage
  BY <1>7 DEF GarbageIsNoData
<1>11. ASSUME NEW k \in 1..p PROVE Close(c, k, got.phasors[k], d.phasors[k])
  <2> DEFINE z == d.phasors[k]  x == PhasorValues(c, k, z)
  <2>1. PhasorTravels(c, k, z)
    BY DEF DataTravels
  <2>2. Close(c, k, Phasor(c, k, <<x[1], x[2]>>), z)
    BY <2>1, PhasorRead
  <2>3. v[2 * k] = x[1] /\ v[2 * k + 1] = x[2]
    BY <1>9
  <2> HIDE DEF x, z
  <2>4. got.phasors[k] = Phasor(c, k, <<x[1], x[2]>>)
    BY <1>3, <1>7, <2>3, Zenon
  <2> QED  BY <2>2, <2>4, Zenon DEF z
<1>12. PmuArrives(c, d, got)
  BY <1>7, <1>9, <1>10, <1>11, Zenon DEF PmuArrives, Analogs, Digitals
<1> QED  BY <1>12 DEF got, body, b

-----------------------------------------------------------------------------
(* Parsing the data of a frame                                             *)

\* What has been read, after each PMU
IsReading(g, body, pmus) ==
  /\ g[0] = [pmus |-> << >>, used |-> 0]
  /\ \A i \in 0..(Len(pmus) - 1) : g[i + 1] = AddData(body, g[i], pmus[i + 1])
  /\ ParseData(body, pmus) = g[Len(pmus)]

\* The configuration tells how many channels each of its PMUs has.
Counted(pmus) ==
  IsList(pmus) /\ \A i \in 1..Len(pmus) : pmus[i].count \in [ChannelKinds -> Nat]

\* Reading a frame goes through the data read so far.
LEMMA DataTrace ==
  ASSUME NEW body, NEW pmus, Counted(pmus)
  PROVE  \E g : IsReading(g, body, pmus)
<1> DEFINE P == Elements(pmus)
           R == {ParsePmuData(Rest(body, k), c) : k \in Nat, c \in P}
           V == [pmus : Seq(R), used : Nat]
           b == [pmus |-> << >>, used |-> 0]
           A == [p \in V \X P |-> AddData(body, p[1], p[2])]
           n == Len(pmus)
           D == SUBSET (1..n)
           iter == CHOOSE f : f = [d \in D |->
                     IF d = {} THEN b ELSE AddData(body, f[d \ {Max(d)}], pmus[Max(d)])]
<1>1. pmus \in Seq(P) /\ n \in Nat
  <2>1. IsList(pmus)
    BY DEF Counted
  <2> QED  BY <2>1, ListSeq DEF IsList
<1>2. b \in V
  OBVIOUS
<1>3. ASSUME NEW acc \in V, NEW c \in P PROVE AddData(body, acc, c) \in V
  <2>1. acc.pmus \in Seq(R) /\ acc.used \in Nat
    OBVIOUS
  <2>2. ParsePmuData(Rest(body, acc.used), c) \in R
    BY <2>1
  <2>3. Len(PmuDataWidths(c)) \in Nat
    <3>1. c.count \in [ChannelKinds -> Nat]
      BY DEF Counted, Elements
    <3>2. PmuDataWidths(c) \in Seq(Nat)
      BY <3>1, DataWidthsTotal
    <3> QED  BY <3>2
  <2> HIDE DEF R
  <2>4. Append(acc.pmus, ParsePmuData(Rest(body, acc.used), c)) \in Seq(R)
    BY <2>1, <2>2
  <2> QED  BY <2>1, <2>3, <2>4 DEF AddData
<1>4. ParseData(body, pmus) = iter[1..n]
  <2>1. DOMAIN pmus = 1..n
    BY <1>1
  <2> QED  BY <2>1 DEF ParseData, FoldLeft, MapThenFoldSet
<1> HIDE DEF b, V, P
<1>5. PICK h : IsIter(h, A, V, b, pmus, n)
  <2>1. A \in [V \X P -> V]
    BY <1>3
  <2> HIDE DEF A
  <2> QED  BY <1>1, <1>2, <2>1, IterExists
<1>6. ASSUME NEW d \in D, d # {}
      PROVE  h[d] = AddData(body, h[d \ {Max(d)}], pmus[Max(d)])
  <2>1. Max(d) \in d
    BY <1>1, <1>6, MaxBelow
  <2>2. Max(d) \in 1..n /\ d \ {Max(d)} \in D
    BY <2>1
  <2> HIDE DEF A
  <2>3. h[d \ {Max(d)}] \in V
    BY <1>5, <2>2 DEF IsIter
  <2>4. pmus[Max(d)] \in P
    BY <1>1, <2>2
  <2>5. h[d] = A[<<h[d \ {Max(d)}], pmus[Max(d)]>>]
    BY <1>5, <1>6 DEF IsIter
  <2> QED  BY <2>3, <2>4, <2>5 DEF A
<1>7. h = [d \in D |-> IF d = {} THEN b ELSE AddData(body, h[d \ {Max(d)}], pmus[Max(d)])]
  <2> HIDE DEF A
  <2> QED  BY <1>5, <1>6 DEF IsIter
<1>8. iter = [d \in D |-> IF d = {} THEN b
                          ELSE AddData(body, iter[d \ {Max(d)}], pmus[Max(d)])]
  BY <1>7
<1>9. Agree(iter, h, n)
  <2> HIDE DEF iter
  <2>1. iter[{}] = h[{}]
    BY <1>7, <1>8
  <2>2. \A d \in SUBSET (1..n) :
          d # {} /\ iter[d \ {Max(d)}] = h[d \ {Max(d)}] => iter[d] = h[d]
    BY <1>7, <1>8, ZenonT(30)
  <2> QED  BY <1>1, <2>1, <2>2, SameIter DEF SameSteps
<1> DEFINE g == [k \in 0..n |-> h[1..k]]
<1>10. IsTrace(g, A, V, b, pmus)
  <2> HIDE DEF A
  <2> QED  BY <1>1, <1>5, IterIsTrace
<1>11. ASSUME NEW i \in 0..(n - 1) PROVE g[i + 1] = AddData(body, g[i], pmus[i + 1])
  <2>1. i \in 0..n /\ i + 1 \in 1..n
    BY <1>1
  <2> HIDE DEF g, A
  <2>2. g[i] \in V /\ pmus[i + 1] \in P /\ g[i + 1] = A[<<g[i], pmus[i + 1]>>]
    BY <1>1, <1>10, <2>1 DEF IsTrace
  <2> QED  BY <2>2 DEF A
<1>12. ParseData(body, pmus) = g[n]
  <2>1. 1..n \in D /\ n \in 0..n
    BY <1>1
  <2> HIDE DEF iter
  <2> QED  BY <1>4, <1>9, <2>1 DEF Agree
<1>13. g[0] = b
  BY <1>10 DEF IsTrace
<1> HIDE DEF g
<1>14. IsReading(g, body, pmus)
  BY <1>11, <1>12, <1>13 DEF IsReading, b
<1> QED  BY <1>14

\* A concatenation starts with that of the first parts.
LEMMA JoinsStart ==
  ASSUME NEW n \in Nat, NEW s, \A i \in 1..n : IsList(s[i]), NEW g, Joins(g, s, n)
  PROVE  \A k \in 0..n : Starts(g[k], g[n])
<1> DEFINE S == {j \in Nat : j <= n => Starts(g[n - j], g[n])}
<1>1. \A k \in 0..n : IsList(g[k])
  BY DEF Joins
<1>2. 0 \in S
  <2>1. IsList(g[n]) /\ n - 0 = n
    BY <1>1
  <2> DEFINE a == g[n]
  <2>2. IsList(a) /\ Len(a) \in Nat
    BY <2>1 DEF IsList
  <2> HIDE DEF a
  <2>3. Starts(a, a)
    BY <2>2 DEF Starts
  <2> QED  BY <2>1, <2>3 DEF a
<1>3. ASSUME NEW j \in Nat, j \in S PROVE j + 1 \in S
  <2>1. SUFFICES ASSUME j + 1 <= n PROVE Starts(g[n - (j + 1)], g[n])
    OBVIOUS
  <2> DEFINE k == n - (j + 1)  a == g[k]  p == s[k + 1]  t == g[n]
  <2>2. k \in 0..(n - 1) /\ k \in 0..n /\ k + 1 \in 1..n /\ n - j = k + 1
    BY <2>1
  <2>3. Starts(g[n - j], g[n])
    BY <1>3, <2>1
  <2> HIDE DEF k
  <2>4. IsList(a) /\ IsList(p) /\ g[k + 1] = a \o p
    BY <1>1, <2>2 DEF Joins
  <2>5. Starts(a \o p, t)
    BY <2>2, <2>3, <2>4
  <2> HIDE DEF a, p, t
  <2>6. Starts(a, t)
    BY <2>4, <2>5, StartsWith
  <2> QED  BY <2>6 DEF a, t, k
<1>4. \A j \in Nat : j \in S
  <2> HIDE DEF S
  <2> QED  BY <1>2, <1>3, Induction
<1>5. ASSUME NEW k \in 0..n PROVE Starts(g[k], g[n])
  <2>1. n - k \in Nat /\ n - k <= n /\ n - (n - k) = k
    OBVIOUS
  <2>2. Starts(g[n - (n - k)], g[n])
    BY <1>4, <2>1
  <2> QED  BY <2>1, <2>2
<1> QED  BY <1>5

\* Of each PMU, what was sent and what it is read with
DataMeets(c, d, r) ==
  /\ c.count \in [ChannelKinds -> Nat] /\ DataTravels(c, d)
  /\ r.count = c.count /\ r.format = c.format
  /\ \A k \in 1..c.count["phasor"] : Conversion(r, k) = Conversion(c, k)

\* The data of the first k PMUs have been read.
ReadUpTo(h, cs, ds, size, k) ==
  /\ IsList(h.pmus) /\ Len(h.pmus) = k /\ h.used = size
  /\ \A i \in 1..k : PmuArrives(cs[i], ds[i], h.pmus[i])

\* The data of one PMU more have been read.
OneMore(c, d, a, acc, next) ==
  /\ next.used = Len(a \o GeneratePmuData(c, d))
  /\ IsList(next.pmus) /\ Len(next.pmus) = Len(acc.pmus) + 1
  /\ \A i \in 1..Len(acc.pmus) : next.pmus[i] = acc.pmus[i]
  /\ PmuArrives(c, d, next.pmus[Len(acc.pmus) + 1])

\* One PMU more is read where the one before it ended.
LEMMA ReadsOneMore ==
  ASSUME GarbageIsNoData, NEW c, NEW d, NEW r, DataMeets(c, d, r),
         NEW a, IsList(a), NEW body, Starts(a \o GeneratePmuData(c, d), body),
         NEW acc, acc.used = Len(a), IsList(acc.pmus)
  PROVE  OneMore(c, d, a, acc, AddData(body, acc, r))
<1> DEFINE b == GeneratePmuData(c, d)
           got == ParsePmuData(Rest(body, acc.used), r)
           next == AddData(body, acc, r)
<1>1. /\ c.count \in [ChannelKinds -> Nat] /\ DataTravels(c, d)
      /\ r.count = c.count /\ r.format = c.format
      /\ \A k \in 1..c.count["phasor"] : Conversion(r, k) = Conversion(c, k)
  BY DEF DataMeets
<1>2. IsList(b) /\ Len(b) = Len(PmuDataWidths(c))
  BY <1>1, DataWritten
<1>3. PmuDataWidths(r) = PmuDataWidths(c)
  BY <1>1 DEF PmuDataWidths
<1>4. next = [pmus |-> Append(acc.pmus, got), used |-> acc.used + Len(PmuDataWidths(r))]
  BY DEF AddData
<1>5. PICK t : IsList(t) /\ Rest(body, Len(a)) = b \o t
  <2> HIDE DEF b
  <2>1. Starts(a \o b, body)
    BY DEF b
  <2> QED  BY <1>2, <2>1, StartsRest
<1>6. PmuArrives(c, d, got)
  <2>1. PmuArrives(c, d, ParsePmuData(b \o t, r))
    BY <1>1, <1>5, DataRead
  <2>2. Rest(body, acc.used) = b \o t
    BY <1>5
  <2> QED  BY <2>1, <2>2
<1> HIDE DEF b, got, next
<1>7. next.pmus = Append(acc.pmus, got) /\ next.used = Len(a) + Len(b)
  BY <1>2, <1>3, <1>4
<1>8. Len(a \o b) = Len(a) + Len(b)
  BY <1>2, Longer
<1>9. /\ IsList(next.pmus) /\ Len(next.pmus) = Len(acc.pmus) + 1
      /\ \A i \in 1..Len(acc.pmus) : next.pmus[i] = acc.pmus[i]
      /\ next.pmus[Len(acc.pmus) + 1] = got
  BY <1>7, Appended
<1>10. /\ next = AddData(body, acc, r) /\ b = GeneratePmuData(c, d)
  BY DEF next, b
<1>11. OneMore(c, d, a, acc, next)
  BY <1>6, <1>7, <1>8, <1>9, <1>10, Zenon DEF OneMore
<1> QED  BY <1>10, <1>11, Zenon

\* Reading follows writing to the end of the frame.
LEMMA ReadsFrame ==
  ASSUME GarbageIsNoData, NEW n \in Nat, NEW cs, NEW ds, NEW rs, IsList(rs), Len(rs) = n,
         \A i \in 1..n : DataMeets(cs[i], ds[i], rs[i]),
         NEW body, body = Concat([i \in 1..n |-> GeneratePmuData(cs[i], ds[i])])
  PROVE  \A i \in 1..n : PmuArrives(cs[i], ds[i], ParseData(body, rs).pmus[i])
<1> DEFINE parts == [i \in 1..n |-> GeneratePmuData(cs[i], ds[i])]
<1>1. /\ parts = [i \in 1..n |-> parts[i]] /\ body = Concat(parts)
      /\ \A i \in 1..n : parts[i] = GeneratePmuData(cs[i], ds[i])
  OBVIOUS
<1> HIDE DEF parts
<1>2. \A i \in 1..n : IsList(parts[i])
  <2>1. ASSUME NEW i \in 1..n PROVE IsList(GeneratePmuData(cs[i], ds[i]))
    <3>1. cs[i].count \in [ChannelKinds -> Nat] /\ DataTravels(cs[i], ds[i])
      BY DEF DataMeets
    <3> QED  BY <3>1, DataWritten
  <2> QED  BY <1>1, <2>1
<1>3. PICK g : Joins(g, parts, n)
  BY <1>1, <1>2, ConcatSteps
<1>4. /\ \A k \in 0..n : IsList(g[k])
      /\ g[0] = << >> /\ body = g[n]
      /\ \A k \in 0..(n - 1) : g[k + 1] = g[k] \o parts[k + 1]
  BY <1>1, <1>3 DEF Joins
<1>5. \A k \in 0..n : Starts(g[k], body)
  BY <1>2, <1>3, <1>4, JoinsStart
<1>6. PICK h : IsReading(h, body, rs)
  <2>1. ASSUME NEW i \in 1..n PROVE rs[i].count \in [ChannelKinds -> Nat]
    BY DEF DataMeets
  <2> QED  BY <2>1, DataTrace DEF Counted
<1>7. /\ h[0] = [pmus |-> << >>, used |-> 0]
      /\ \A i \in 0..(n - 1) : h[i + 1] = AddData(body, h[i], rs[i + 1])
      /\ ParseData(body, rs) = h[n]
  BY <1>6 DEF IsReading
<1> DEFINE S == {k \in Nat : k <= n => ReadUpTo(h[k], cs, ds, Len(g[k]), k)}
<1>8. 0 \in S
  <2>1. h[0].pmus = << >> /\ h[0].used = 0 /\ Len(g[0]) = 0
    BY <1>4, <1>7
  <2>2. ReadUpTo(h[0], cs, ds, Len(g[0]), 0)
    BY <2>1 DEF ReadUpTo, IsList
  <2> QED  BY <2>2
<1>9. ASSUME NEW k \in Nat, k \in S PROVE k + 1 \in S
  <2>1. SUFFICES ASSUME k + 1 <= n PROVE ReadUpTo(h[k + 1], cs, ds, Len(g[k + 1]), k + 1)
    OBVIOUS
  <2>2. k \in 0..(n - 1) /\ k \in 0..n /\ k + 1 \in 0..n /\ k + 1 \in 1..n /\ k <= n
    BY <2>1
  <2>3. ReadUpTo(h[k], cs, ds, Len(g[k]), k)
    BY <1>9, <2>2
  <2> DEFINE a == g[k]  c == cs[k + 1]  d == ds[k + 1]  r == rs[k + 1]
             b == GeneratePmuData(c, d)  acc == h[k]  next == h[k + 1]
  <2>4. /\ IsList(acc.pmus) /\ Len(acc.pmus) = k /\ acc.used = Len(a)
        /\ \A i \in 1..k : PmuArrives(cs[i], ds[i], acc.pmus[i])
    BY <2>3 DEF ReadUpTo
  <2>5. IsList(a) /\ g[k + 1] = a \o b /\ Starts(a \o b, body)
    BY <1>1, <1>4, <1>5, <2>2
  <2>6. DataMeets(c, d, r)
    BY <2>2
  <2>7. next = AddData(body, acc, r)
    BY <1>7, <2>2
  <2>8. c = cs[k + 1] /\ d = ds[k + 1] /\ b = GeneratePmuData(c, d) /\ next = h[k + 1]
    OBVIOUS
  <2> HIDE DEF a, c, d, r, b, acc, next
  <2>9. /\ next.used = Len(a \o b)
        /\ IsList(next.pmus) /\ Len(next.pmus) = Len(acc.pmus) + 1
        /\ \A i \in 1..Len(acc.pmus) : next.pmus[i] = acc.pmus[i]
        /\ PmuArrives(c, d, next.pmus[Len(acc.pmus) + 1])
    <3>1. Starts(a \o GeneratePmuData(c, d), body)
      BY <2>5, <2>8
    <3>2. OneMore(c, d, a, acc, AddData(body, acc, r))
      <4>1. /\ DataMeets(c, d, r) /\ IsList(a) /\ Starts(a \o GeneratePmuData(c, d), body)
            /\ acc.used = Len(a) /\ IsList(acc.pmus) /\ GarbageIsNoData
        BY <2>4, <2>5, <2>6, <3>1
      <4> QED  BY <4>1, ReadsOneMore
    <3> QED  BY <2>7, <2>8, <3>2, Zenon DEF OneMore
  <2>10. \A i \in 1..(k + 1) : i \in 1..k \/ i = k + 1
    OBVIOUS
  <2>11. \A i \in 1..(k + 1) : PmuArrives(cs[i], ds[i], next.pmus[i])
    BY <2>4, <2>8, <2>9, <2>10, Zenon
  <2>12. ReadUpTo(next, cs, ds, Len(g[k + 1]), k + 1)
    BY <2>4, <2>5, <2>9, <2>11, Zenon DEF ReadUpTo
  <2> QED  BY <2>8, <2>12
<1>10. \A k \in Nat : k \in S
  <2> HIDE DEF S
  <2> QED  BY <1>8, <1>9, Induction
<1>11. ReadUpTo(h[n], cs, ds, Len(g[n]), n)
  BY <1>10
<1> QED  BY <1>7, <1>11 DEF ReadUpTo

-----------------------------------------------------------------------------
(* What arrives of a data frame                                            *)

\* The data of every frame can be told in the formats of the configurations
\* that it may be sent with.
FramesTravel ==
  \A c \in Configs, d \in Frames : Len(c.pmus) <= Len(d.pmus) =>
    /\ "frac" \in DOMAIN d /\ TimeTravels(d.frac, c.timeBase)
    /\ \A i \in 1..Len(c.pmus) : DataTravels(c.pmus[i], d.pmus[i])

\* What a data packet carries of the frame d and its configuration c
Carries(p, c, d) ==
  /\ c \in Configs /\ TimeTravels(d.frac, c.timeBase)
  /\ \A i \in 1..Len(c.pmus) : DataTravels(c.pmus[i], d.pmus[i])
  /\ p.id = c.idcode /\ p.soc = d.soc
  /\ p.fracSec = [quality |-> d.quality, ticks |-> Ticks(d.frac, c.timeBase)]
  /\ p.body = Concat([i \in 1..Len(c.pmus) |-> GeneratePmuData(c.pmus[i], d.pmus[i])])

DataInv == wire # NoPacket /\ wire.type = "data" => Carries(wire, sent.config, sent.data)

\* What the configurations say of the numbers of channels
LEMMA ConfigCounts ==
  ASSUME NEW c \in Configs
  PROVE  /\ Len(c.pmus) \in Nat /\ DOMAIN c.pmus = 1..Len(c.pmus)
         /\ \A i \in 1..Len(c.pmus) : c.pmus[i].count \in [ChannelKinds -> Nat]
BY LinkAssumption DEF LinkAssumption, IsList, IsPmu, ChannelKinds

\* A data packet that is sent carries the frame.
LEMMA SendCarries ==
  ASSUME FramesTravel, config \in Configs, NEW size, NEW d \in Frames, SendData(d, size)
  PROVE  Carries(wire', sent'.config, sent'.data)
<1> DEFINE n == Len(config.pmus)
           frame == [d EXCEPT !.pmus = SubSeq(d.pmus, 1, n)]
           fracSec == [quality |-> frame.quality, ticks |-> Ticks(frame.frac, config.timeBase)]
           body == Concat([i \in DOMAIN frame.pmus |->
                            GeneratePmuData(config.pmus[i], frame.pmus[i])])
<1>1. /\ wire' = GenerateDataFrame(size, config, frame) /\ wire' # NoPacket
      /\ sent'.config = config /\ sent'.data = frame /\ n <= Len(d.pmus)
  BY DEF SendData, Send
<1>2. n \in Nat
  BY ConfigCounts
<1>3. "frac" \in DOMAIN d /\ TimeTravels(d.frac, config.timeBase)
      /\ \A i \in 1..n : DataTravels(config.pmus[i], d.pmus[i])
  BY <1>1 DEF FramesTravel
<1>4. "pmus" \in DOMAIN d /\ IsList(d.pmus)
  BY LinkAssumption DEF LinkAssumption
<1>5. frame.pmus = SubSeq(d.pmus, 1, n) /\ frame.frac = d.frac
  BY <1>3, <1>4
<1> DEFINE part == SubSeq(d.pmus, 1, n)
<1>6. part = [i \in 1..n |-> d.pmus[i]]
  <2> DEFINE s == d.pmus
  <2>1. IsList(s) /\ n <= Len(s)
    BY <1>1, <1>4
  <2> HIDE DEF s, n
  <2>2. SubSeq(s, 1, n) = [i \in 1..n |-> s[i]]
    BY <1>2, <2>1, Prefix
  <2> QED  BY <2>2 DEF s
<1>7. wire' = Common(size, "data", config.idcode, frame.soc, fracSec, body)
  BY <1>1 DEF GenerateDataFrame
<1>8. wire'.id = config.idcode /\ wire'.soc = frame.soc
      /\ wire'.fracSec = fracSec /\ wire'.body = body
  BY <1>7, Zenon DEF Common
<1> HIDE DEF n, part
<1>9. DOMAIN frame.pmus = 1..n /\ \A i \in 1..n : frame.pmus[i] = d.pmus[i]
  BY <1>5, <1>6 DEF part
<1> HIDE DEF frame
<1>10. body = Concat([i \in 1..n |-> GeneratePmuData(config.pmus[i], frame.pmus[i])])
  BY <1>9
<1>11. \A i \in 1..n : DataTravels(config.pmus[i], frame.pmus[i])
  BY <1>3, <1>9
<1>12. TimeTravels(frame.frac, config.timeBase)
  BY <1>3, <1>5
<1> HIDE DEF body
<1>13. Carries(wire', config, frame)
  BY <1>8, <1>10, <1>11, <1>12 DEF Carries, n
<1> QED  BY <1>1, <1>13

\* The bytes of a data packet are those that are expected with any
\* configuration that has the same channels in the same formats.
LEMMA ExpectedBytes ==
  ASSUME NEW c \in Configs, NEW ds, NEW r, DOMAIN r.pmus = 1..Len(c.pmus),
         \A i \in 1..Len(c.pmus) : r.pmus[i].count = c.pmus[i].count
                                   /\ r.pmus[i].format = c.pmus[i].format,
         NEW body, body = Concat([i \in 1..Len(c.pmus) |-> GeneratePmuData(c.pmus[i], ds[i])])
  PROVE  /\ Bytes(body) \in Nat
         /\ GetExpectedDataPacketLength(r) = 16 + Bytes(body)
<1> DEFINE n == Len(c.pmus)
           parts == [i \in 1..n |-> GeneratePmuData(c.pmus[i], ds[i])]
           sizes == [i \in DOMAIN r.pmus |-> DataSize(r.pmus[i])]
<1>1. n \in Nat /\ \A i \in 1..n : c.pmus[i].count \in [ChannelKinds -> Nat]
  BY ConfigCounts
<1>2. \A i \in 1..n : IsBody(parts[i]) /\ Bytes(parts[i]) = DataSize(c.pmus[i])
  BY <1>1, DataBytes
<1>3. parts = [i \in 1..n |-> parts[i]] /\ body = Concat(parts)
  OBVIOUS
<1>4. \A i \in 1..n : DataSize(r.pmus[i]) = DataSize(c.pmus[i])
  BY DEF DataSize
<1> HIDE DEF parts
<1>5. IsBody(body)
  BY <1>1, <1>2, <1>3, ConcatBody
<1>6. Bytes(body) = Total(0, [i \in 1..n |-> Bytes(parts[i])])
  BY <1>1, <1>2, <1>3, BytesOfAll
<1>7. [i \in 1..n |-> Bytes(parts[i])] = sizes
  BY <1>2, <1>4
<1>8. GetExpectedDataPacketLength(r) = CommonFrameSize + 2 + Total(0, sizes)
  BY ExpectedIs
<1>9. Bytes(body) \in Nat
  BY <1>5, BytesNat
<1> HIDE DEF sizes
<1>10. GetExpectedDataPacketLength(r) = CommonFrameSize + 2 + Bytes(body)
  BY <1>6, <1>7, <1>8, Zenon
<1> QED  BY <1>9, <1>10 DEF CommonFrameSize

\* The data frame d, sent with the configuration c, as it is read with the
\* configuration r
FrameArrives(c, d, r, frame) ==
  /\ frame.result = "parse_complete"
  /\ frame.soc = d.soc /\ frame.quality = d.quality
  /\ frame.frac[1] * Unit <= d.frac * frame.frac[2]
  /\ d.frac * frame.frac[2] < (frame.frac[1] + 1) * Unit
  /\ \A i \in DOMAIN r.pmus : PmuArrives(c.pmus[i], d.pmus[i], frame.pmus[i])

\* A data packet is read with the configuration it was made with.
LEMMA FrameRead ==
  ASSUME GarbageIsNoData, NEW p, NEW c, NEW d, Carries(p, c, d), p.type = "data",
         NEW r, NEW before, GoodPmus(r.pmus, Len(r.pmus)), SameAs(r, c, before),
         SameScale(r, c), NEW size \in Int, p.byteCount = 16 + Bytes(p.body), size >= p.byteCount,
         ParseCommon(p, size) = "parse_complete"
  PROVE  FrameArrives(c, d, r, ParseDataFrame(p, size, r))
<1> DEFINE n == Len(c.pmus)
           frame == ParseDataFrame(p, size, r)
           got == ParseData(p.body, r.pmus).pmus
<1>1. c \in Configs /\ n \in Nat /\ DOMAIN c.pmus = 1..n
      /\ \A i \in 1..n : c.pmus[i].count \in [ChannelKinds -> Nat]
  BY ConfigCounts DEF Carries
<1>2. IsList(r.pmus) /\ Len(r.pmus) = n /\ DOMAIN r.pmus = 1..n
  <2>1. IsList(r.pmus) /\ Len(r.pmus) = n
    BY DEF GoodPmus, SameAs
  <2> QED  BY <2>1 DEF IsList
<1>3. ASSUME NEW i \in 1..n
      PROVE  /\ r.pmus[i].count = c.pmus[i].count /\ r.pmus[i].format = c.pmus[i].format
             /\ \A k \in 1..c.pmus[i].count["phasor"] :
                  Conversion(r.pmus[i], k) = Conversion(c.pmus[i], k)
  BY <1>1 DEF SameAs, PmuTravels, SameScale
<1>4. p.body = Concat([i \in 1..n |-> GeneratePmuData(c.pmus[i], d.pmus[i])])
  BY DEF Carries
<1>5. Bytes(p.body) \in Nat /\ GetExpectedDataPacketLength(r) = 16 + Bytes(p.body)
  <2> DEFINE ds == d.pmus  body == p.body
  <2>1. /\ c \in Configs /\ DOMAIN r.pmus = 1..Len(c.pmus)
        /\ \A i \in 1..Len(c.pmus) : r.pmus[i].count = c.pmus[i].count
                                      /\ r.pmus[i].format = c.pmus[i].format
        /\ body = Concat([i \in 1..Len(c.pmus) |-> GeneratePmuData(c.pmus[i], ds[i])])
    BY <1>1, <1>2, <1>3, <1>4
  <2> HIDE DEF ds, body
  <2>2. Bytes(body) \in Nat /\ GetExpectedDataPacketLength(r) = 16 + Bytes(body)
    BY <2>1, ExpectedBytes
  <2> QED  BY <2>2 DEF body
<1>6. ~(GetExpectedDataPacketLength(r) > size)
  BY <1>5
<1>7. p.id = r.idcode /\ r.timeBase = c.timeBase
  BY DEF Carries, SameAs, SameScale
<1>8. /\ frame.result = "parse_complete" /\ frame.soc = p.soc
      /\ frame.quality = p.fracSec.quality
      /\ frame.frac = <<p.fracSec.ticks, c.timeBase>> /\ frame.pmus = got
  BY <1>6, <1>7 DEF ParseDataFrame
<1>9. p.soc = d.soc /\ p.fracSec.quality = d.quality
      /\ p.fracSec.ticks = Ticks(d.frac, c.timeBase) /\ TimeTravels(d.frac, c.timeBase)
  BY DEF Carries
<1>10. \A i \in 1..n : PmuArrives(c.pmus[i], d.pmus[i], got[i])
  <2> DEFINE cs == c.pmus  ds == d.pmus  rs == r.pmus  body == p.body
  <2>1. ASSUME NEW i \in 1..n PROVE DataMeets(cs[i], ds[i], rs[i])
    <3>1. DataTravels(cs[i], ds[i])
      BY DEF Carries
    <3> QED  BY <1>1, <1>3, <3>1 DEF DataMeets
  <2>2. /\ IsList(rs) /\ Len(rs) = n
        /\ body = Concat([i \in 1..n |-> GeneratePmuData(cs[i], ds[i])])
    BY <1>2, <1>4
  <2> HIDE DEF cs, ds, rs, body, n
  <2>3. \A i \in 1..n : PmuArrives(cs[i], ds[i], ParseData(body, rs).pmus[i])
    BY <1>1, <2>1, <2>2, ReadsFrame
  <2> QED  BY <2>3 DEF cs, ds, rs, body
<1> DEFINE t == Ticks(d.frac, c.timeBase)
<1>11. t * Unit <= d.frac * c.timeBase /\ d.frac * c.timeBase < (t + 1) * Unit
  BY <1>9, TicksAre
<1> HIDE DEF frame, got, t
<1>12. frame.frac[1] = t /\ frame.frac[2] = c.timeBase
  BY <1>8, <1>9 DEF t
<1>13. /\ frame.frac[1] * Unit <= d.frac * frame.frac[2]
       /\ d.frac * frame.frac[2] < (frame.frac[1] + 1) * Unit
  BY <1>11, <1>12, Zenon
<1>14. \A i \in DOMAIN r.pmus : PmuArrives(c.pmus[i], d.pmus[i], frame.pmus[i])
  BY <1>2, <1>8, <1>10
<1>15. FrameArrives(c, d, r, frame)
  BY <1>8, <1>9, <1>13, <1>14, Zenon DEF FrameArrives
<1> QED  BY <1>15 DEF frame

\* Data packets carry their frames at every step.
LEMMA NextData ==
  ASSUME Fits, FramesTravel, LinkInv, DataInv, [Next]_vars
  PROVE  DataInv'
<1>1. CASE \E c \in Configs \ {config} : Configure(c)
  BY <1>1 DEF Configure, DataInv
<1>2. ASSUME NEW size \in BufferSizes, SendAny(size) PROVE DataInv'
  <2>1. config \in Configs
    BY DEF LinkInv, Sized
  <2>2. ASSUME NEW d \in Frames, SendData(d, size) PROVE DataInv'
    <3>1. Carries(wire', sent'.config, sent'.data)
      BY <2>1, <2>2, SendCarries
    <3> QED  BY <3>1 DEF DataInv
  <2>3. ASSUME \A d \in Frames : ~SendData(d, size) PROVE sent'.type # "data"
    BY <1>2, <2>3 DEF SendAny, SendConfig, SendCommand, SendHeader, SendExtended, Send
  <2>4. wire'.type = sent'.type
    BY <1>2, <2>1, Sends DEF Sent, Describes
  <2> QED  BY <2>2, <2>3, <2>4 DEF DataInv
<1>3. CASE Damage
  <2>1. /\ wire # NoPacket /\ wire' = [wire EXCEPT !.crc = FALSE] /\ DOMAIN wire = PacketFields
        /\ sent' = sent
    BY <1>3 DEF Damage, LinkInv, UnderWay
  <2>2. /\ wire'.type = wire.type /\ wire'.body = wire.body
        /\ wire'.id = wire.id /\ wire'.soc = wire.soc /\ wire'.fracSec = wire.fracSec
    BY <2>1
  <2> DEFINE c == sent.config  d == sent.data
  <2>3. ASSUME wire.type = "data" PROVE Carries(wire, c, d)
    BY <2>1, <2>3 DEF DataInv
  <2> HIDE DEF c, d
  <2>4. ASSUME wire.type = "data" PROVE Carries(wire', c, d)
    BY <2>2, <2>3, <2>4 DEF Carries
  <2> QED  BY <2>1, <2>2, <2>4 DEF DataInv, c, d
<1>4. ASSUME NEW n \in {15, length - 1, length + 20}, Deliver(n) PROVE DataInv'
  BY <1>4 DEF Deliver, DataInv
<1>5. CASE Receive
  BY <1>5 DEF Receive, DataInv
<1>6. CASE Consume
  BY <1>6 DEF Consume, DataInv
<1>7. CASE UNCHANGED vars
  BY <1>7 DEF vars, DataInv
<1> QED  BY <1>1, <1>2, <1>3, <1>4, <1>5, <1>6, <1>7, Zenon DEF Next

\* A data packet that arrives whole is received as one.
LEMMA WholeData ==
  ASSUME LinkInv, InBounds, DataInv, Receive, Intact, sent.type = "data"
  PROVE  /\ ReceiveData
         /\ wire.type = "data" /\ Carries(wire, sent.config, sent.data)
         /\ length \in Int /\ wire.byteCount = 16 + Bytes(wire.body) /\ length >= wire.byteCount
         /\ ParseCommon(wire, length) = "parse_complete"
<1>1. /\ wire # NoPacket /\ UnderWay /\ length \in Int /\ wire.byteCount \in Int
      /\ SizedPacket(wire, room, sent)
  BY DEF LinkInv, InBounds, Receive, Sized
<1>2. wire.type = "data"
  BY <1>1 DEF UnderWay, Describes
<1>3. wire.byteCount = 16 + Bytes(wire.body) /\ wire.byteCount >= 16
  BY <1>1, <1>2, BytesNat DEF SizedPacket, Framed
<1>4. length >= wire.byteCount /\ wire.crc
  BY DEF Intact
<1>5. GetPacketType(wire, length) = "data"
  BY <1>1, <1>2, <1>3, <1>4 DEF UnderWay, GetPacketType
<1>6. ReceiveData
  BY <1>5 DEF Receive, ReceiveConfig, ReceiveCommand, ReceiveHeader, ReceiveUnknown
<1>7. ParseCommon(wire, length) = "parse_complete"
  BY <1>1, <1>4 DEF UnderWay, ParseCommon
<1>8. Carries(wire, sent.config, sent.data)
  BY <1>1, <1>2 DEF DataInv
<1> QED  BY <1>1, <1>2, <1>3, <1>4, <1>6, <1>7, <1>8

\* The frame it was sent from
LEMMA ReceivesFrame ==
  ASSUME GarbageIsNoData, LinkInv, InBounds, DataInv, Receive, Intact, sent.type = "data",
         NEW before, SameAs(rconfig, sent.config, before), SameScale(rconfig, sent.config)
  PROVE  /\ rconfig' = rconfig /\ reused' = reused /\ result' = rframe'.result
         /\ FrameArrives(sent.config, sent.data, rconfig, rframe')
<1>1. /\ ReceiveData
      /\ wire.type = "data" /\ Carries(wire, sent.config, sent.data)
      /\ length \in Int /\ wire.byteCount = 16 + Bytes(wire.body) /\ length >= wire.byteCount
      /\ ParseCommon(wire, length) = "parse_complete"
  BY WholeData
<1>2. /\ rframe' = ParseDataFrame(wire, length, rconfig) /\ result' = rframe'.result
      /\ rconfig' = rconfig /\ reused' = reused
  BY <1>1 DEF ReceiveData
<1>3. GoodPmus(rconfig.pmus, Len(rconfig.pmus))
  BY DEF InBounds
<1> DEFINE c == sent.config  d == sent.data  r == rconfig  p == wire  size == length
<1>4. /\ Carries(p, c, d) /\ p.type = "data" /\ SameAs(r, c, before) /\ SameScale(r, c)
      /\ GoodPmus(r.pmus, Len(r.pmus)) /\ size \in Int /\ p.byteCount = 16 + Bytes(p.body)
      /\ size >= p.byteCount /\ ParseCommon(p, size) = "parse_complete"
  BY <1>1, <1>3
<1> HIDE DEF c, d, r, p, size
<1>5. FrameArrives(c, d, r, ParseDataFrame(p, size, r))
  BY <1>4, FrameRead
<1> QED  BY <1>2, <1>5 DEF c, d, r, p, size

\* What has arrived stays until the next packet.
LEMMA NextDataArrives ==
  ASSUME GarbageIsNoData, LinkInv, InBounds, DataInv, DataArrives, [Next]_vars
  PROVE  DataArrives'
<1>1. CASE \E c \in Configs \ {config} : Configure(c)
  BY <1>1 DEF Configure, DataArrives, Same, SameScale, Parsed, Intact
<1>2. ASSUME NEW size \in BufferSizes, SendAny(size) PROVE DataArrives'
  <2>1. result' = "not_parsed"
    BY <1>2, Sends DEF Sent, LinkInv, Sized
  <2> QED  BY <2>1 DEF DataArrives, Parsed
<1>3. CASE Damage
  <2>1. wire # NoPacket /\ wire' = [wire EXCEPT !.crc = FALSE] /\ DOMAIN wire = PacketFields
    BY <1>3 DEF Damage, LinkInv, UnderWay
  <2>2. ~Intact'
    BY <2>1 DEF Intact, PacketFields
  <2> QED  BY <2>2 DEF DataArrives
<1>4. ASSUME NEW n \in {15, length - 1, length + 20}, Deliver(n) PROVE DataArrives'
  <2>1. Intact' => Intact
    BY <1>4 DEF LinkInv, Sized, Deliver, Intact
  <2>2. UNCHANGED <<wire, sent, rconfig, result, rframe, reused>>
    BY <1>4 DEF Deliver
  <2> QED  BY <2>1, <2>2 DEF DataArrives, Same, SameScale, Parsed
<1>5. CASE Receive
  <2>1. sent' = sent /\ (Intact' => Intact)
    BY <1>5 DEF Receive, Intact
  <2>2. SUFFICES ASSUME Intact, sent.type = "data", Same(rconfig, sent.config)',
                        SameScale(rconfig, sent.config)', Parsed'
                 PROVE  /\ FrameArrives(sent.config, sent.data, rconfig', rframe')
                        /\ result' = rframe'.result
    BY <2>1 DEF DataArrives, FrameArrives, PmuArrives
  <2>3. ReceiveData
    BY <1>5, <2>2, WholeData
  <2>4. rconfig' = rconfig /\ reused' = reused
    BY <2>3 DEF ReceiveData
  <2>5. SameAs(rconfig, sent.config, reused)
    BY <2>1, <2>2, <2>4 DEF Same, SameAs
  <2>6. SameScale(rconfig, sent.config)
    BY <2>1, <2>2, <2>4 DEF SameScale
  <2> QED  BY <1>5, <2>2, <2>4, <2>5, <2>6, ReceivesFrame
<1>6. CASE Consume
  BY <1>6 DEF Consume, DataArrives, Parsed
<1>7. CASE UNCHANGED vars
  BY <1>7 DEF vars, DataArrives, Same, SameScale, Parsed, Intact
<1> QED  BY <1>1, <1>2, <1>3, <1>4, <1>5, <1>6, <1>7, Zenon DEF Next

\* A data frame that arrives whole at a receiver whose configuration is the one
\* it was made with comes out as it went in, if time base and phasor conversions
\* fit the 24 bits they were sent in: phasors as close as their format allows,
\* every other value exactly, the time to the next tick.
\* generateDataFrame writes what parseDataFrame reads, PMU by PMU.
THEOREM FrameArrival ==
  ASSUME Fits, ConfigsFit, FramesTravel, GarbageIsNoData
  PROVE  Spec => []DataArrives
<1>1. Init => DataInv /\ DataArrives
  BY DEF Init, DataInv, DataArrives, Parsed
<1>2. LinkInv /\ InBounds /\ DataInv /\ DataArrives /\ [Next]_vars
        => LinkInv' /\ InBounds' /\ DataInv' /\ DataArrives'
  BY NextLink, NextInBounds, NextData, NextDataArrives
<1> QED  BY InitLink, InitInBounds, <1>1, <1>2, PTL DEF Spec
=============================================================================
