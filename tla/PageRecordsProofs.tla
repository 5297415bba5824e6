-------------------------- MODULE PageRecordsProofs --------------------------
(***************************************************************************)
(* What holds of PageRecords for any pages: any number of JSON-LD blocks,  *)
(* dataLayer pushes and numbers, about whatever things.                    *)
(***************************************************************************)
EXTENDS PageRecords, SequenceTheorems, WellFoundedInduction, TLAPS

-----------------------------------------------------------------------------
(* Sequences: the first and the last element with a property, and the      *)
(* first value that is one. The induction is a smallest counterexample.    *)

LEMMA HasLeast ==
    ASSUME NEW I, I \subseteq Nat, I # {}
    PROVE  \E i \in I : \A j \in I : i <= j
<1> DEFINE R == {p \in Nat \X Nat : p[1] < p[2]}
<1>1. IsWellFoundedOn(R, Nat)
  BY NatLessThanWellFounded DEF OpToRel
<1>2. \A i, j \in Nat : j < i => <<j, i>> \in R
  OBVIOUS
<1> HIDE DEF R
<1>3. PICK i \in I : \A j \in I : ~(<<j, i>> \in R)
  BY <1>1, WFMin
<1>4. \A j \in I : ~(j < i)
  BY <1>2, <1>3
<1>5. \A j \in I : i <= j
  BY <1>4
<1>6. QED
  BY <1>5

LEMMA MinIsLeast ==
    ASSUME NEW I, I \subseteq Nat, I # {}
    PROVE  Min(I) \in I /\ \A j \in I : Min(I) <= j
<1>1. \E i \in I : \A j \in I : i <= j
  BY HasLeast
<1>2. QED
  BY <1>1, Zenon DEF Min

LEMMA MaxIsGreatest ==
    ASSUME NEW n \in Nat, NEW I, I \subseteq 1 .. n, I # {}
    PROVE  Max(I) \in I /\ \A j \in I : j <= Max(I)
<1> DEFINE Mirrored == {n - i : i \in I}
<1>1. \A i \in I : i \in Int /\ n - i \in Nat
  <2>1. SUFFICES ASSUME NEW i \in I PROVE i \in Int /\ n - i \in Nat
    OBVIOUS
  <2>2. i \in 1 .. n
    OBVIOUS
  <2>3. QED
    BY <2>2
<1>2. Mirrored \subseteq Nat /\ Mirrored # {}
  BY <1>1
<1>3. PICK m \in Mirrored : \A j \in Mirrored : m <= j
  BY <1>2, HasLeast
<1>4. PICK i \in I : m = n - i
  BY <1>3
<1>5. \A j \in I : n - i <= n - j
  BY <1>3, <1>4
<1>6. \A j \in I : i >= j
  BY <1>1, <1>5
<1>7. Max(I) \in I /\ \A j \in I : Max(I) >= j
  BY <1>6, Zenon DEF Max
<1>8. QED
  BY <1>1, <1>7

LEMMA FirstOfFound ==
    ASSUME NEW S, NEW s \in Seq(S)
    PROVE  \/ FirstOf(s) = None /\ \A i \in 1 .. Len(s) : s[i] = None
           \/ \E i \in 1 .. Len(s) :
                 FirstOf(s) = s[i] /\ s[i] # None /\ \A j \in 1 .. (i - 1) : s[j] = None
<1> DEFINE I == {i \in 1 .. Len(s) : s[i] # None}
<1>1. Len(s) \in Nat /\ I \in SUBSET Nat
  BY LenProperties
<1>2. CASE I = {}
  <2>1. FirstOf(s) = None
    BY <1>2 DEF FirstOf, SelectInSeq
  <2>2. QED
    BY <1>2, <2>1
<1>3. CASE I # {}
  <2>1. Min(I) \in I /\ \A j \in I : Min(I) <= j
    BY <1>1, <1>3, MinIsLeast
  <2>2. FirstOf(s) = s[Min(I)]
    BY <1>1, <1>3, <2>1 DEF FirstOf, SelectInSeq
  <2>3. \A j \in 1 .. (Min(I) - 1) : s[j] = None
    BY <1>1, <2>1
  <2>4. QED
    BY <2>1, <2>2, <2>3
<1>4. QED
  BY <1>2, <1>3

\* What the first value is, given by its place.
LEMMA FirstOfAt ==
    ASSUME NEW S, NEW s \in Seq(S), NEW i \in 1 .. Len(s), s[i] # None,
           \A j \in 1 .. Len(s) : j < i => s[j] = None
    PROVE  FirstOf(s) = s[i]
<1>1. Len(s) \in Nat
  BY LenProperties
<1>2. PICK k \in 1 .. Len(s) : FirstOf(s) = s[k] /\ s[k] # None /\ \A j \in 1 .. (k - 1) : s[j] = None
  BY FirstOfFound
<1>3. ~(k < i)
  BY <1>2
<1>4. ~(i < k)
  <2>1. i < k => i \in 1 .. (k - 1)
    BY <1>1
  <2>2. QED
    BY <1>2, <2>1
<1>5. k = i
  BY <1>1, <1>3, <1>4
<1>6. QED
  BY <1>2, <1>5

\* FirstOf is what Python's `or` makes of the values, from left to right.
LEMMA FirstOfConcat ==
    ASSUME NEW S, NEW s \in Seq(S), NEW t \in Seq(S)
    PROVE  FirstOf(s \o t) = IF FirstOf(s) # None THEN FirstOf(s) ELSE FirstOf(t)
<1> DEFINE u == s \o t
<1> DEFINE m == Len(s)
<1> DEFINE n == Len(t)
<1>1. m \in Nat /\ n \in Nat
  BY LenProperties
<1>2. u \in Seq(S) /\ Len(u) = m + n
  BY ConcatProperties
<1>3. \A i \in 1 .. m + n : u[i] = IF i <= m THEN s[i] ELSE t[i - m]
  BY ConcatProperties
<1> HIDE DEF u
<1>4. \A i \in 1 .. m : i \in 1 .. m + n /\ u[i] = s[i]
  BY <1>1, <1>3
<1>5. \A i \in 1 .. n : m + i \in 1 .. m + n /\ u[m + i] = t[i]
  BY <1>1, <1>3
<1>6. \A i \in 1 .. m + n : i \in 1 .. m \/ i - m \in 1 .. n
  BY <1>1
<1>7. CASE FirstOf(s) # None
  <2>1. PICK i \in 1 .. m : FirstOf(s) = s[i] /\ s[i] # None /\ \A j \in 1 .. (i - 1) : s[j] = None
    BY <1>7, FirstOfFound
  <2>2. \A j \in 1 .. m + n : j < i => u[j] = None
    <3>1. SUFFICES ASSUME NEW j \in 1 .. m + n, j < i PROVE u[j] = None
      OBVIOUS
    <3>2. j \in 1 .. (i - 1) /\ j \in 1 .. m
      BY <1>1, <3>1
    <3>3. QED
      BY <1>4, <2>1, <3>2
  <2>3. FirstOf(u) = u[i]
    BY <1>2, <1>4, <2>1, <2>2, FirstOfAt
  <2>4. QED
    BY <1>4, <1>7, <2>1, <2>3 DEF u
<1>8. CASE FirstOf(s) = None
  <2>1. \A i \in 1 .. m : s[i] = None
    BY <1>8, FirstOfFound
  <2>2. CASE FirstOf(t) = None
    <3>1. \A i \in 1 .. n : t[i] = None
      BY <2>2, FirstOfFound
    <3>2. \A i \in 1 .. m + n : u[i] = None
      <4>1. SUFFICES ASSUME NEW i \in 1 .. m + n PROVE u[i] = None
        OBVIOUS
      <4>2. CASE i \in 1 .. m
        BY <1>4, <2>1, <4>2
      <4>3. CASE i - m \in 1 .. n
        <5>1. i = m + (i - m)
          BY <1>1
        <5>2. u[m + (i - m)] = t[i - m] /\ t[i - m] = None
          BY <1>5, <3>1, <4>3
        <5>3. QED
          BY <5>1, <5>2
      <4>4. QED
        BY <1>6, <4>2, <4>3
    <3>3. FirstOf(u) = None
      BY <1>2, <3>2, FirstOfFound
    <3>4. QED
      BY <1>8, <2>2, <3>3 DEF u
  <2>3. CASE FirstOf(t) # None
    <3>1. PICK i \in 1 .. n : FirstOf(t) = t[i] /\ t[i] # None /\ \A j \in 1 .. (i - 1) : t[j] = None
      BY <2>3, FirstOfFound
    <3>2. \A j \in 1 .. m + n : j < m + i => u[j] = None
      <4>1. SUFFICES ASSUME NEW j \in 1 .. m + n, j < m + i PROVE u[j] = None
        OBVIOUS
      <4>2. CASE j \in 1 .. m
        BY <1>4, <2>1, <4>2
      <4>3. CASE j - m \in 1 .. n
        <5>1. j - m \in 1 .. (i - 1) /\ j = m + (j - m)
          BY <1>1, <4>1, <4>3
        <5>2. QED
          BY <1>5, <3>1, <4>3, <5>1
      <4>4. QED
        BY <1>6, <4>2, <4>3
    <3>3. FirstOf(u) = u[m + i]
      BY <1>2, <1>5, <3>1, <3>2, FirstOfAt
    <3>4. QED
      BY <1>5, <1>8, <3>1, <3>3 DEF u
  <2>4. QED
    BY <2>2, <2>3
<1>9. QED
  BY <1>7, <1>8

LEMMA FirstOfOne == ASSUME NEW v PROVE FirstOf(<<v>>) = v
<1>1. <<v>> \in Seq({v}) /\ Len(<<v>>) = 1 /\ <<v>>[1] = v
  OBVIOUS
<1>2. \/ FirstOf(<<v>>) = None /\ \A i \in 1 .. 1 : <<v>>[i] = None
      \/ \E i \in 1 .. 1 : FirstOf(<<v>>) = <<v>>[i]
  BY <1>1, FirstOfFound
<1>3. \A i \in 1 .. 1 : i = 1
  OBVIOUS
<1>4. QED
  BY <1>1, <1>2, <1>3

LEMMA FirstOfMember ==
    ASSUME NEW S, NEW s \in Seq(S) PROVE FirstOf(s) \in S \cup {None}
<1>1. \A i \in 1 .. Len(s) : s[i] \in S
  BY ElementOfSeq
<1>2. QED
  BY <1>1, FirstOfFound

\* What is made of a sequence, element by element, is a sequence.
LEMMA MappedIsSeq ==
    ASSUME NEW s, IsSeq(s)
    PROVE  /\ Len(s) \in Nat
           /\ DOMAIN s = 1 .. Len(s)
           /\ \A i \in 1 .. Len(s) : s[i] \in Range(s)
<1>1. s \in Seq(Range(s))
  BY DEF IsSeq
<1>2. Len(s) \in Nat /\ DOMAIN s = 1 .. Len(s)
  BY <1>1, LenProperties
<1>3. QED
  BY <1>2 DEF Range

LEMMA FunctionIsSeq ==
    ASSUME NEW S, NEW n \in Nat, NEW f \in [1 .. n -> S]
    PROVE  f \in Seq(S) /\ Len(f) = n
<1>1. f \in Seq(S)
  BY SeqDef
<1>2. Len(f) \in Nat /\ 1 .. Len(f) = 1 .. n
  BY <1>1, LenProperties
<1>3. Len(f) = n
  <2>1. Len(f) = 0 \/ (1 \in 1 .. Len(f) /\ Len(f) \in 1 .. Len(f))
    BY <1>2
  <2>2. n = 0 \/ (1 \in 1 .. n /\ n \in 1 .. n)
    OBVIOUS
  <2>3. QED
    BY <1>2, <2>1, <2>2
<1>4. QED
  BY <1>1, <1>3

\* FlattenSeq is recursive: that its function exists, and that it is one into Seq(S), is
\* shown of the prefixes of seqs, by the shortest one for which it is not so.
LEMMA FlattenedIsSeq ==
    ASSUME NEW S, NEW seqs \in Seq(Seq(S))
    PROVE  FlattenSeq(seqs) \in Seq(S)
<1> DEFINE n == Len(seqs)
<1> DEFINE Fits(f, k) ==
             \A i \in 1 .. k : f[i] = IF i = 1 THEN seqs[i] ELSE f[i - 1] \o seqs[i]
<1> DEFINE Bad == {k \in 1 .. n : ~ \E f \in [1 .. k -> Seq(S)] : Fits(f, k)}
<1>1. n \in Nat /\ \A i \in 1 .. n : seqs[i] \in Seq(S)
  BY LenProperties, ElementOfSeq
<1>2. Bad = {}
  <2>1. SUFFICES ASSUME Bad # {} PROVE FALSE
    OBVIOUS
  <2>2. Bad \subseteq Nat
    BY <1>1
  <2>3. PICK k \in Bad : \A j \in Bad : k <= j
    BY <2>1, <2>2, HasLeast
  <2>4. k \in 1 .. n /\ k \in Nat
    BY <1>1, <2>3
  <2>5. CASE k = 1
    <3>1. [i \in 1 .. k |-> seqs[1]] \in [1 .. k -> Seq(S)]
      BY <1>1, <2>4, <2>5
    <3>2. Fits([i \in 1 .. k |-> seqs[1]], k)
      BY <2>5
    <3>3. QED
      BY <2>3, <3>1, <3>2
  <2>6. CASE k # 1
    <3>1. k - 1 \in 1 .. n /\ ~(k <= k - 1)
      BY <1>1, <2>4, <2>6
    <3>2. PICK f \in [1 .. k - 1 -> Seq(S)] : Fits(f, k - 1)
      BY <2>3, <3>1
    <3> DEFINE g == [i \in 1 .. k |-> IF i < k THEN f[i] ELSE f[k - 1] \o seqs[k]]
    <3>3. \A i \in 1 .. k : i < k => i \in 1 .. k - 1
      BY <2>4
    <3>4. f[k - 1] \in Seq(S)
      BY <2>4, <2>6, <3>2
    <3>5. f[k - 1] \o seqs[k] \in Seq(S)
      BY <1>1, <2>4, <3>4, ConcatProperties
    <3>6. g \in [1 .. k -> Seq(S)]
      BY <3>2, <3>3, <3>5
    <3>7. ASSUME NEW i \in 1 .. k
          PROVE  g[i] = IF i = 1 THEN seqs[i] ELSE g[i - 1] \o seqs[i]
      <4>1. CASE i < k
        <5>1. i \in 1 .. k - 1 /\ g[i] = f[i]
          BY <3>3, <4>1
        <5>2. i # 1 => i - 1 \in 1 .. k /\ i - 1 < k
          BY <2>4, <4>1
        <5>3. i # 1 => g[i - 1] = f[i - 1]
          BY <5>2
        <5>4. QED
          BY <3>2, <5>1, <5>3
      <4>2. CASE ~(i < k)
        <5>1. i = k
          BY <2>4, <4>2
        <5>2. k \in 1 .. k /\ ~(k < k) /\ k - 1 \in 1 .. k /\ k - 1 < k
          BY <2>4, <2>6
        <5>3. g[k] = f[k - 1] \o seqs[k] /\ g[k - 1] = f[k - 1]
          BY <5>2
        <5>4. QED
          BY <2>6, <5>1, <5>3
      <4>3. QED
        BY <4>1, <4>2
    <3>8. Fits(g, k)
      BY <3>7
    <3>9. QED
      BY <2>3, <3>6, <3>8
  <2>7. QED
    BY <2>5, <2>6
<1>3. CASE n = 0
  <2>1. seqs = <<>>
    BY <1>3, EmptySeq
  <2>2. QED
    BY <1>3, <2>1 DEF FlattenSeq
<1>4. CASE n # 0
  <2>1. n \in 1 .. n
    BY <1>1, <1>4
  <2>2. PICK f \in [1 .. n -> Seq(S)] : Fits(f, n)
    BY <1>2, <2>1
  <2> DEFINE F == CHOOSE g : g = [i \in 1 .. n |-> IF i = 1 THEN seqs[i] ELSE g[i - 1] \o seqs[i]]
  <2>3. f = [i \in 1 .. n |-> IF i = 1 THEN seqs[i] ELSE f[i - 1] \o seqs[i]]
    BY <2>2
  <2>4. F = [i \in 1 .. n |-> IF i = 1 THEN seqs[i] ELSE F[i - 1] \o seqs[i]]
    BY <2>3
  <2>5. FlattenSeq(seqs) = F[n]
    BY <1>4 DEF FlattenSeq
  <2> HIDE DEF F
  <2> DEFINE Worse == {k \in 1 .. n : F[k] \notin Seq(S)}
  <2>6. Worse = {}
    <3>1. SUFFICES ASSUME Worse # {} PROVE FALSE
      OBVIOUS
    <3>2. Worse \subseteq Nat
      BY <1>1
    <3>3. PICK k \in Worse : \A j \in Worse : k <= j
      BY <3>1, <3>2, HasLeast
    <3>4. k \in 1 .. n /\ F[k] = IF k = 1 THEN seqs[k] ELSE F[k - 1] \o seqs[k]
      BY <2>4, <3>3
    <3>5. k # 1 => k - 1 \in 1 .. n /\ ~(k <= k - 1)
      BY <1>1, <3>4
    <3>6. k # 1 => F[k - 1] \in Seq(S)
      BY <3>3, <3>5
    <3>7. F[k] \in Seq(S)
      BY <1>1, <3>4, <3>6, ConcatProperties
    <3>8. QED
      BY <3>3, <3>7
  <2>7. QED
    BY <2>1, <2>5, <2>6
<1>5. QED
  BY <1>3, <1>4

-----------------------------------------------------------------------------
(* What is read of a page: values that are of a thing, or None.            *)

MaybeValue == Value \cup {None}
Item == UNION {[K -> Value] : K \in SUBSET Keys}

LEMMA GivenType ==
    ASSUME NEW page, PageType(page), NEW i \in 1 .. Len(page.blocks), NEW key
    PROVE  /\ page.blocks[i] # None
           /\ key \in DOMAIN page.blocks[i].has =>
                /\ Given(page.blocks[i], key) =
                      [of |-> page.blocks[i].has[key].of, key |-> key, kind |-> page.blocks[i].has[key].kind]
                /\ Given(page.blocks[i], key) \in Value
           /\ key \notin DOMAIN page.blocks[i].has => Given(page.blocks[i], key) = None
<1>1. page.blocks[i] \in Range(page.blocks)
  BY MappedIsSeq DEF PageType
<1>2. /\ page.blocks[i] # None
      /\ \A k \in DOMAIN page.blocks[i].has :
            k \in Keys /\ page.blocks[i].has[k].of \in Things /\ page.blocks[i].has[k].kind \in Kinds
  BY <1>1 DEF PageType, Typed
<1>3. QED
  BY <1>2 DEF Given, Value

\* The same of one key, by name.
HasKey(page, i, key) == key \in DOMAIN page.blocks[i].has
KindOf(page, i, key) == page.blocks[i].has[key].kind

LEMMA GivenKind ==
    ASSUME NEW page, PageType(page), NEW i \in 1 .. Len(page.blocks), NEW key
    PROVE  /\ HasKey(page, i, key) =>
                Given(page.blocks[i], key) \in Value /\ Given(page.blocks[i], key).kind = KindOf(page, i, key)
           /\ ~HasKey(page, i, key) => Given(page.blocks[i], key) = None
<1>1. CASE HasKey(page, i, key)
  <2>1. /\ Given(page.blocks[i], key) =
              [of |-> page.blocks[i].has[key].of, key |-> key, kind |-> page.blocks[i].has[key].kind]
        /\ Given(page.blocks[i], key) \in Value
    BY <1>1, GivenType DEF HasKey
  <2>2. QED
    BY <1>1, <2>1 DEF KindOf
<1>2. CASE ~HasKey(page, i, key)
  BY <1>2, GivenType DEF HasKey
<1>3. QED
  BY <1>1, <1>2

\* The i-th block gives something that is true.
Gives(page, i, key) ==
    /\ key \in DOMAIN page.blocks[i].has
    /\ page.blocks[i].has[key].kind \notin {"empty", "falsy"}

\* What FirstGiven gives is the value of the first block that gives something true.
LEMMA FirstGivenFound ==
    ASSUME NEW page, PageType(page), NEW key, key # "address"
    PROVE  \/ /\ FirstGiven(page, key) = None
              /\ \A i \in 1 .. Len(page.blocks) : ~Gives(page, i, key)
           \/ \E i \in 1 .. Len(page.blocks) :
                /\ Gives(page, i, key)
                /\ \A j \in 1 .. i - 1 : ~Gives(page, j, key)
                /\ FirstGiven(page, key) \in Value
                /\ FirstGiven(page, key).kind = page.blocks[i].has[key].kind
<1> DEFINE n == Len(page.blocks)
<1> DEFINE g(i) == Given(page.blocks[i], key)
<1> DEFINE s == [i \in 1 .. n |-> IF Truthy(g(i)) THEN g(i) ELSE None]
<1>1. n \in Nat /\ DOMAIN page.blocks = 1 .. n
  BY MappedIsSeq DEF PageType
<1>2. FirstGiven(page, key) = FirstOf(s)
  <2>1. \A i : Offered(page.blocks[i], key) = g(i)
    BY DEF Offered
  <2>2. QED
    BY <1>1, <2>1 DEF FirstGiven
<1>3. ASSUME NEW i \in 1 .. n
      PROVE  /\ Gives(page, i, key) => /\ s[i] \in Value /\ s[i] # None
                                       /\ s[i].kind = page.blocks[i].has[key].kind
             /\ ~Gives(page, i, key) => s[i] = None
  <2>1. CASE key \in DOMAIN page.blocks[i].has
    <3>1. /\ g(i) = [of |-> page.blocks[i].has[key].of, key |-> key, kind |-> page.blocks[i].has[key].kind]
          /\ g(i) \in Value
      BY <2>1, GivenType
    <3>2. g(i).kind = page.blocks[i].has[key].kind /\ g(i) # None
      BY <3>1, NoneAssumption
    <3>3. s[i] = IF Truthy(g(i)) THEN g(i) ELSE None
      OBVIOUS
    <3> HIDE DEF g, s
    <3>4. QED
      BY <2>1, <3>1, <3>2, <3>3 DEF Truthy, Gives
  <2>2. CASE key \notin DOMAIN page.blocks[i].has
    <3>1. g(i) = None
      BY <2>2, GivenType
    <3>2. QED
      BY <2>2, <3>1 DEF Gives, Truthy
  <2>3. QED
    BY <2>1, <2>2
<1> HIDE DEF g
<1>4. s \in [1 .. n -> MaybeValue]
  <2>1. \A i \in 1 .. n : (IF Truthy(g(i)) THEN g(i) ELSE None) \in MaybeValue
    BY <1>3 DEF MaybeValue
  <2>2. QED
    BY <2>1
<1>5. s \in Seq(MaybeValue) /\ Len(s) = n
  BY <1>1, <1>4, FunctionIsSeq
<1> HIDE DEF s
<1>6. CASE FirstOf(s) = None
  <2>1. \A i \in 1 .. n : s[i] = None
    BY <1>5, <1>6, FirstOfFound
  <2>2. QED
    BY <1>2, <1>3, <1>6, <2>1
<1>7. CASE FirstOf(s) # None
  <2>1. PICK i \in 1 .. n : FirstOf(s) = s[i] /\ s[i] # None /\ \A j \in 1 .. (i - 1) : s[j] = None
    BY <1>5, <1>7, FirstOfFound
  <2>2. \A j \in 1 .. i - 1 : j \in 1 .. n
    BY <1>1
  <2>3. \A j \in 1 .. i - 1 : ~Gives(page, j, key)
    BY <1>3, <2>1, <2>2
  <2>4. Gives(page, i, key)
    BY <1>3, <2>1
  <2>5. s[i] \in Value /\ s[i].kind = page.blocks[i].has[key].kind
    BY <1>3, <2>4
  <2>6. QED
    BY <1>2, <2>1, <2>3, <2>4, <2>5
<1>8. QED
  BY <1>6, <1>7

LEMMA CommonNameType ==
    ASSUME NEW page, PageType(page)
    PROVE  /\ CommonName(page) =
                IF FirstGiven(page, "name") # None THEN FirstGiven(page, "name") ELSE page.heading
           /\ CommonName(page) \in MaybeValue
<1> DEFINE f == FirstGiven(page, "name")
<1> DEFINE h == page.heading
<1>1. f \in MaybeValue /\ h \in MaybeValue
  BY FirstGivenFound DEF MaybeValue, PageType
<1> HIDE DEF f, h
<1>2. <<f>> \in Seq(MaybeValue) /\ <<h>> \in Seq(MaybeValue)
  BY <1>1
<1>3. FirstOf(<<f>> \o <<h>>) = IF f # None THEN f ELSE h
  BY <1>2, FirstOfConcat, FirstOfOne
<1>4. <<f>> \o <<h>> = <<f, h>>
  <2>1. <<f, h>> \in Seq(MaybeValue) /\ Len(<<f, h>>) = 2
    BY <1>1
  <2>2. /\ <<f>> \o <<h>> \in Seq(MaybeValue)
        /\ Len(<<f>> \o <<h>>) = 2
        /\ \A i \in 1 .. 2 : (<<f>> \o <<h>>)[i] = IF i <= 1 THEN <<f>>[i] ELSE <<h>>[i - 1]
    BY <1>2, ConcatProperties
  <2>3. \A i \in 1 .. 2 : (<<f>> \o <<h>>)[i] = <<f, h>>[i]
    BY <2>2
  <2>4. QED
    BY <2>1, <2>2, <2>3, SeqEqual
<1>5. FirstOf(<<f, h>>) = IF f # None THEN f ELSE h
  BY <1>3, <1>4
<1>6. QED
  BY <1>1, <1>5 DEF CommonName, f, h

\* What str() makes of a value is of the thing the value is of, but for 0, false, [] and {}.
TextOf(v) == IF v.kind = "falsy" THEN Literal ELSE v.of
Nothing == {"blank", "empty"}

\* _clean_str() keeps the key of a value, and makes it text.
LEMMA CleanType ==
    ASSUME NEW v \in MaybeValue
    PROVE  /\ Clean(v) \in MaybeValue
           /\ Clean(v) = None <=> (v = None \/ v.kind \in Nothing)
           /\ Clean(v) # None =>
                /\ v \in Value /\ Clean(v).of = TextOf(v) /\ Clean(v).key = v.key
                /\ Clean(v).kind = "text"
<1>1. CASE v = None
  BY <1>1 DEF Clean, MaybeValue
<1>2. CASE v # None
  <2>1. v \in Value
    BY <1>2 DEF MaybeValue
  <2>2. [of |-> TextOf(v), key |-> v.key, kind |-> "text"] \in Value
    BY <2>1 DEF Value, Kinds, TextOf
  <2>3. Clean(v) = IF v.kind \in Nothing THEN None ELSE [of |-> TextOf(v), key |-> v.key, kind |-> "text"]
    BY <1>2 DEF Clean, TextOf, Nothing
  <2>4. QED
    BY <1>2, <2>1, <2>2, <2>3, NoneAssumption DEF MaybeValue
<1>3. QED
  BY <1>1, <1>2

\* The Product the adapter takes is the block of the first product on the page.
LEMMA ProductIsStated ==
    ASSUME NEW page, PageType(page)
    PROVE  /\ Product(page) = None <=> ~HasProduct(page)
           /\ HasProduct(page) =>
                \E i \in 1 .. Len(page.blocks) :
                    Product(page) = page.blocks[i] /\ Stated(page) = page.blocks[i]
<1> DEFINE n == Len(page.blocks)
<1> DEFINE P(i) == "Product" \in page.blocks[i].types
<1> DEFINE s == [i \in 1 .. n |-> IF page.blocks[i].types \cap {"Product"} # {}
                                  THEN page.blocks[i] ELSE None]
<1>1. n \in Nat /\ DOMAIN page.blocks = 1 .. n
  BY MappedIsSeq DEF PageType
<1>2. \A i \in 1 .. n : page.blocks[i] \in Range(page.blocks) /\ page.blocks[i] # None
  BY MappedIsSeq DEF PageType
<1>3. Product(page) = FirstOf(s)
  BY <1>1 DEF Product, FirstOfType
<1>4. \A i \in 1 .. n : s[i] = IF P(i) THEN page.blocks[i] ELSE None
  OBVIOUS
<1>5. s \in [1 .. n -> Range(page.blocks) \cup {None}]
  BY <1>2
<1>6. s \in Seq(Range(page.blocks) \cup {None}) /\ Len(s) = n
  BY <1>1, <1>5, FunctionIsSeq
<1>7. HasProduct(page) <=> \E i \in 1 .. n : P(i)
  BY <1>1 DEF HasProduct, Range
<1> HIDE DEF s, P
<1>8. CASE FirstOf(s) = None
  <2>1. \A i \in 1 .. n : s[i] = None
    BY <1>6, <1>8, FirstOfFound
  <2>2. QED
    BY <1>2, <1>3, <1>4, <1>7, <1>8, <2>1
<1>9. CASE FirstOf(s) # None
  <2>1. PICK i \in 1 .. n : FirstOf(s) = s[i] /\ s[i] # None /\ \A j \in 1 .. (i - 1) : s[j] = None
    BY <1>6, <1>9, FirstOfFound
  <2>2. \A j \in 1 .. i - 1 : j \in 1 .. n
    BY <1>1
  <2>3. P(i) /\ \A j \in 1 .. i - 1 : ~P(j)
    BY <1>2, <1>4, <2>1, <2>2
  <2>4. \A k \in 1 .. n : P(k) /\ (\A j \in 1 .. k - 1 : ~P(j)) => k = i
    <3>1. SUFFICES ASSUME NEW k \in 1 .. n, P(k), \A j \in 1 .. k - 1 : ~P(j) PROVE k = i
      OBVIOUS
    <3>2. ~(k \in 1 .. i - 1) /\ ~(i \in 1 .. k - 1)
      BY <2>3, <3>1
    <3>3. QED
      BY <1>1, <3>2
  <2> DEFINE c == CHOOSE k \in 1 .. n : P(k) /\ \A j \in 1 .. k - 1 : ~P(j)
  <2>5. c = i
    BY <2>3, <2>4
  <2>6. Stated(page) = page.blocks[c]
    BY <1>1 DEF Stated, P
  <2>7. QED
    BY <1>3, <1>4, <1>7, <1>9, <2>1, <2>3, <2>5, <2>6
<1>10. QED
  BY <1>8, <1>9

-----------------------------------------------------------------------------
(* figure_official_site: what the Product and the dataLayer say.           *)

\* The Product carries something under a key.
Carries(page, key) ==
    key \in DOMAIN Stated(page).has /\ Stated(page).has[key].kind \notin Nothing

\* A value is what the Product carries under one of some keys, as a text.
IsProducts(page, v, keys) ==
    /\ v \in Value /\ v.kind = "text"
    /\ \E i \in 1 .. Len(keys) :
          /\ Carries(page, keys[i]) /\ v.key = keys[i]
          /\ v.of = TextOf(Stated(page).has[keys[i]])

LEMMA ProductSays ==
    ASSUME NEW page, PageType(page), HasProduct(page), NEW keys \in Seq(Keys)
    PROVE  LET says == FirstOf(InProduct(page, keys))
           IN /\ InProduct(page, keys) \in Seq(MaybeValue)
              /\ says = None => \A i \in 1 .. Len(keys) : ~Carries(page, keys[i])
              /\ says # None => IsProducts(page, says, keys)
<1> DEFINE n == Len(keys)
<1> DEFINE s == [i \in 1 .. n |-> Clean(Given(Product(page), keys[i]))]
<1> DEFINE has == Stated(page).has
<1>1. n \in Nat /\ DOMAIN keys = 1 .. n
  BY LenProperties
<1>2. InProduct(page, keys) = s
  BY <1>1 DEF InProduct
<1>3. PICK b \in 1 .. Len(page.blocks) : Product(page) = page.blocks[b] /\ Stated(page) = page.blocks[b]
  BY ProductIsStated
<1>4. ASSUME NEW i \in 1 .. n
      PROVE  /\ s[i] \in MaybeValue
             /\ s[i] = None => ~Carries(page, keys[i])
             /\ s[i] # None => /\ Carries(page, keys[i]) /\ s[i].of = TextOf(has[keys[i]])
                               /\ s[i].key = keys[i] /\ s[i].kind = "text"
  <2> DEFINE g == Given(Product(page), keys[i])
  <2>1. CASE keys[i] \in DOMAIN has
    <3>1. g = [of |-> has[keys[i]].of, key |-> keys[i], kind |-> has[keys[i]].kind] /\ g \in Value
      BY <1>3, <2>1, GivenType
    <3>2. /\ g \in MaybeValue /\ g # None /\ TextOf(g) = TextOf(has[keys[i]])
          /\ g.key = keys[i] /\ g.kind = has[keys[i]].kind
      BY <3>1, NoneAssumption DEF MaybeValue, TextOf
    <3> HIDE DEF g
    <3>3. s[i] = Clean(g)
      BY DEF g
    <3> HIDE DEF s
    <3>4. QED
      BY <2>1, <3>2, <3>3, CleanType DEF Carries
  <2>2. CASE keys[i] \notin DOMAIN has
    <3>1. keys[i] \notin DOMAIN page.blocks[b].has
      BY <1>3, <2>2
    <3>2. Given(page.blocks[b], keys[i]) = None
      BY <3>1, GivenType
    <3>3. s[i] = None
      BY <1>3, <3>2 DEF Clean
    <3>4. QED
      BY <2>2, <3>3 DEF MaybeValue, Carries
  <2>3. QED
    BY <2>1, <2>2
<1>5. s \in [1 .. n -> MaybeValue]
  BY <1>4
<1>6. s \in Seq(MaybeValue) /\ Len(s) = n
  BY <1>1, <1>5, FunctionIsSeq
<1> HIDE DEF s, has
<1>7. CASE FirstOf(s) = None
  <2>1. \A i \in 1 .. n : s[i] = None
    BY <1>6, <1>7, FirstOfFound
  <2>2. QED
    BY <1>2, <1>4, <1>6, <1>7, <2>1
<1>8. CASE FirstOf(s) # None
  <2>1. PICK i \in 1 .. n : FirstOf(s) = s[i] /\ s[i] # None
    BY <1>6, <1>8, FirstOfFound
  <2>2. QED
    BY <1>2, <1>4, <1>6, <1>8, <2>1 DEF has, MaybeValue, IsProducts
<1>9. QED
  BY <1>7, <1>8

\* The items of the dataLayer are maps from keys to values.
LEMMA LayerItemsType ==
    ASSUME NEW page, PageType(page) PROVE LayerItems(page) \in Seq(Item)
<1> DEFINE n == Len(page.pushes)
<1> DEFINE s == [p \in 1 .. n |-> ItemsOf(page.pushes[p])]
<1>1. n \in Nat /\ DOMAIN page.pushes = 1 .. n
  BY MappedIsSeq DEF PageType
<1>2. ASSUME NEW p \in 1 .. n PROVE ItemsOf(page.pushes[p]) \in Seq(Item)
  <2> DEFINE push == page.pushes[p]
  <2> DEFINE At(has, key) == IF key \in DOMAIN has THEN has[key] ELSE push.context[key]
  <2> DEFINE Entry(has) ==
          [key \in DOMAIN push.context \cup DOMAIN has |->
              [of |-> At(has, key).of, key |-> key, kind |-> At(has, key).kind]]
  <2>1. push \in Range(page.pushes)
    BY MappedIsSeq DEF PageType
  <2>2. /\ Typed(push.context) /\ push.listed \in BOOLEAN
        /\ IsSeq(push.items) /\ \A item \in Range(push.items) : Typed(item)
    BY <2>1 DEF PageType
  <2> HIDE DEF push
  <2>3. ASSUME NEW has, Typed(has) PROVE Entry(has) \in Item
    <3> DEFINE K == DOMAIN push.context \cup DOMAIN has
    <3>1. K \in SUBSET Keys
      BY <2>2, <2>3 DEF Typed
    <3>2. ASSUME NEW key \in K PROVE Entry(has)[key] \in Value
      <4>1. At(has, key).of \in Things /\ At(has, key).kind \in Kinds /\ key \in Keys
        BY <2>2, <2>3, <3>2 DEF Typed
      <4> HIDE DEF At
      <4>2. QED
        BY <4>1 DEF Value
    <3>3. Entry(has) \in [K -> Value]
      BY <3>2
    <3> HIDE DEF K, Entry
    <3>4. QED
      BY <3>1, <3>3 DEF Item
  <2>4. CASE push.listed
    <3> DEFINE m == Len(push.items)
    <3> DEFINE t == [i \in 1 .. m |-> Entry(push.items[i])]
    <3>1. m \in Nat /\ DOMAIN push.items = 1 .. m /\ \A i \in 1 .. m : push.items[i] \in Range(push.items)
      BY <2>2, MappedIsSeq
    <3>2. ItemsOf(push) = t
      BY <2>4, <3>1 DEF ItemsOf
    <3> HIDE DEF Entry
    <3>3. t \in [1 .. m -> Item]
      BY <2>2, <2>3, <3>1
    <3>4. QED
      BY <3>1, <3>2, <3>3, FunctionIsSeq DEF push
  <2>5. CASE ~push.listed
    <3>1. CASE DOMAIN push.context # {}
      <4>1. ItemsOf(push) = <<Entry(<<>>)>>
        BY <2>5, <3>1 DEF ItemsOf
      <4>2. Typed(<<>>)
        BY DEF Typed
      <4>3. Entry(<<>>) \in Item
        BY <2>2, <2>3, <4>2
      <4> HIDE DEF Entry
      <4>4. QED
        BY <4>1, <4>3 DEF push
    <3>2. CASE DOMAIN push.context = {}
      <4>1. ItemsOf(push) = <<>>
        BY <2>5, <3>2 DEF ItemsOf
      <4>2. QED
        BY <4>1 DEF push
    <3>3. QED
      BY <3>1, <3>2
  <2>6. QED
    BY <2>2, <2>4, <2>5
<1>3. s \in [1 .. n -> Seq(Item)]
  BY <1>2
<1>4. s \in Seq(Seq(Item))
  BY <1>1, <1>3, FunctionIsSeq
<1>5. LayerItems(page) = FlattenSeq(s)
  BY <1>1 DEF LayerItems
<1> HIDE DEF s
<1>6. QED
  BY <1>4, <1>5, FlattenedIsSeq

\* What the dataLayer says of a key is what its last item with that key says.
LastSays(page, key, v) ==
    \E i \in 1 .. Len(LayerItems(page)) :
        /\ key \in DOMAIN LayerItems(page)[i]
        /\ v = LayerItems(page)[i][key]
        /\ \A j \in i + 1 .. Len(LayerItems(page)) : key \notin DOMAIN LayerItems(page)[j]

LEMMA FromLayerFound ==
    ASSUME NEW page, PageType(page), NEW key
    PROVE  FromLayer(page, key) = None
           \/ (FromLayer(page, key) \in Value /\ LastSays(page, key, FromLayer(page, key)))
<1> DEFINE items == LayerItems(page)
<1> DEFINE I == {i \in 1 .. Len(items) : key \in DOMAIN items[i]}
<1>1. items \in Seq(Item)
  BY LayerItemsType
<1>2. Len(items) \in Nat /\ \A i \in 1 .. Len(items) : items[i] \in Item
  BY <1>1, LenProperties, ElementOfSeq
<1>3. CASE I = {}
  BY <1>3 DEF FromLayer, SelectLastInSeq
<1>4. CASE I # {}
  <2>1. Max(I) \in I /\ \A j \in I : j <= Max(I)
    BY <1>2, <1>4, MaxIsGreatest
  <2>2. Max(I) # 0
    BY <1>2, <2>1
  <2>3. FromLayer(page, key) = items[Max(I)][key]
    BY <1>4, <2>2 DEF FromLayer, SelectLastInSeq
  <2> DEFINE m == Max(I)
  <2> HIDE DEF items
  <2>4. m \in 1 .. Len(items) /\ key \in DOMAIN items[m] /\ \A j \in I : j <= m
    BY <2>1
  <2>5. items[m][key] \in Value
    BY <1>2, <2>4 DEF Item
  <2> HIDE DEF m
  <2>6. \A j \in m + 1 .. Len(items) : key \notin DOMAIN items[j]
    <3>1. SUFFICES ASSUME NEW j \in m + 1 .. Len(items), key \in DOMAIN items[j] PROVE FALSE
      OBVIOUS
    <3>2. j \in 1 .. Len(items) /\ ~(j <= m)
      BY <1>2, <2>4, <3>1
    <3>3. QED
      BY <2>4, <3>1, <3>2
  <2>7. QED
    BY <2>3, <2>4, <2>5, <2>6 DEF LastSays, items, m
<1>5. QED
  BY <1>3, <1>4

\* ... and that is something.
LayerHas(page, key, v) == LastSays(page, key, v) /\ v.kind \notin Nothing

\* The first of some keys that the dataLayer carries.
LEMMA LayerSays ==
    ASSUME NEW page, PageType(page), NEW keys \in Seq(Keys)
    PROVE  LET says == FirstOf(InLayer(page, keys))
           IN /\ InLayer(page, keys) \in Seq(MaybeValue)
              /\ says # None =>
                   /\ says \in Value /\ says.kind = "text"
                   /\ \E i \in 1 .. Len(keys) :
                         \E v \in Value : LayerHas(page, keys[i], v) /\ says.of = TextOf(v)
<1> DEFINE n == Len(keys)
<1> DEFINE s == [i \in 1 .. n |-> Clean(FromLayer(page, keys[i]))]
<1>1. n \in Nat /\ DOMAIN keys = 1 .. n
  BY LenProperties
<1>2. InLayer(page, keys) = s
  BY <1>1 DEF InLayer
<1>3. ASSUME NEW i \in 1 .. n
      PROVE  /\ s[i] \in MaybeValue
             /\ s[i] # None => /\ s[i].kind = "text"
                               /\ \E v \in Value : LayerHas(page, keys[i], v) /\ s[i].of = TextOf(v)
  <2> DEFINE v == FromLayer(page, keys[i])
  <2>1. v \in MaybeValue /\ (v # None => v \in Value /\ LastSays(page, keys[i], v))
    BY FromLayerFound, NoneAssumption DEF MaybeValue
  <2>2. s[i] = Clean(v)
    OBVIOUS
  <2> HIDE DEF s, v
  <2>3. s[i] \in MaybeValue /\ (s[i] # None => v \in Value /\ v # None /\ v.kind \notin Nothing /\ s[i].of = TextOf(v) /\ s[i].kind = "text")
    BY <2>1, <2>2, NoneAssumption, CleanType
  <2>4. QED
    BY <2>1, <2>3 DEF LayerHas
<1>4. s \in [1 .. n -> MaybeValue]
  BY <1>3
<1>5. s \in Seq(MaybeValue) /\ Len(s) = n
  BY <1>1, <1>4, FunctionIsSeq
<1> HIDE DEF s
<1>6. ASSUME FirstOf(s) # None
      PROVE  \E i \in 1 .. n : FirstOf(s) = s[i] /\ s[i] # None
  BY <1>5, <1>6, FirstOfFound
<1>7. FirstOf(s) # None =>
         /\ FirstOf(s) \in Value /\ FirstOf(s).kind = "text"
         /\ \E i \in 1 .. n : \E v \in Value : LayerHas(page, keys[i], v) /\ FirstOf(s).of = TextOf(v)
  <2>1. SUFFICES ASSUME FirstOf(s) # None
                 PROVE  /\ FirstOf(s) \in Value /\ FirstOf(s).kind = "text"
                        /\ \E i \in 1 .. n : \E v \in Value : LayerHas(page, keys[i], v) /\ FirstOf(s).of = TextOf(v)
    OBVIOUS
  <2>2. PICK i \in 1 .. n : FirstOf(s) = s[i] /\ s[i] # None
    BY <1>6, <2>1
  <2>3. QED
    BY <1>3, <2>2 DEF MaybeValue
<1>8. QED
  BY <1>2, <1>5, <1>7

LEMMA CommonNamesType ==
    ASSUME NEW page, PageType(page)
    PROVE  CommonNames(page) \in Seq(MaybeValue)
BY CommonNameType DEF CommonNames

\* A field that the Product carries is the Product's, whatever stands behind it.
LEMMA ProductComesFirst ==
    ASSUME NEW page, PageType(page), HasProduct(page),
           NEW keys \in Seq(Keys), NEW rest \in Seq(MaybeValue),
           \E i \in 1 .. Len(keys) : Carries(page, keys[i])
    PROVE  IsProducts(page, FirstOf(InProduct(page, keys) \o rest), keys)
<1> DEFINE says == FirstOf(InProduct(page, keys))
<1>1. InProduct(page, keys) \in Seq(MaybeValue) /\ says # None
  BY ProductSays
<1>2. IsProducts(page, says, keys)
  BY <1>1, ProductSays
<1>3. FirstOf(InProduct(page, keys) \o rest) = says
  BY <1>1, FirstOfConcat
<1>4. QED
  BY <1>2, <1>3

\* The external id of a product is a text; it is of what the page is about unless the
\* page misleads.
LEMMA FigureId ==
    ASSUME NEW page, PageType(page), HasProduct(page)
    PROVE  LET id == FigureRecord(page).external_id
           IN id # None => /\ id \in Value /\ id.kind = "text"
                           /\ adapter = "figure_official_site" /\ ~Misleads(page)
                                => id.of = page.about
<1> DEFINE id == FigureRecord(page).external_id
<1> DEFINE own == FirstOf(InProduct(page, Codes))
<1> DEFINE layer == FirstOf(InLayer(page, LayerCodes))
<1>1. Codes \in Seq(Keys) /\ LayerCodes \in Seq(Keys) /\ Len(Codes) = 3 /\ Len(LayerCodes) = 2
  <2>1. Codes \in Seq(Keys) /\ Len(Codes) = 3
    BY DEF Codes, Keys
  <2>2. LayerCodes \in Seq(Keys) /\ Len(LayerCodes) = 2
    BY DEF LayerCodes, Keys
  <2>3. QED
    BY <2>1, <2>2
<1>2. InProduct(page, Codes) \in Seq(MaybeValue) /\ InLayer(page, LayerCodes) \in Seq(MaybeValue)
  BY <1>1, ProductSays, LayerSays
<1>3. id = FirstOf(InProduct(page, Codes) \o InLayer(page, LayerCodes))
  BY DEF FigureRecord
<1>4. id = IF own # None THEN own ELSE layer
  BY <1>2, <1>3, FirstOfConcat
<1>5. own # None => IsProducts(page, own, Codes)
  BY <1>1, ProductSays
<1>6. own = None => \A i \in 1 .. 3 : ~Carries(page, Codes[i])
  <2>1. FirstOf(InProduct(page, Codes)) = None => \A i \in 1 .. Len(Codes) : ~Carries(page, Codes[i])
    BY <1>1, ProductSays
  <2>2. QED
    BY <1>1, <2>1
<1>7. own = None => \A key \in {"gtin", "mpn", "sku"} : ~Carries(page, key)
  <2>1. Codes[1] = "gtin" /\ Codes[2] = "mpn" /\ Codes[3] = "sku"
    BY DEF Codes
  <2>2. QED
    BY <1>6, <2>1
<1>8. layer # None =>
         /\ layer \in Value /\ layer.kind = "text"
         /\ \E i \in 1 .. 2 : \E v \in Value : LayerHas(page, LayerCodes[i], v) /\ layer.of = TextOf(v)
  BY <1>1, LayerSays
<1> HIDE DEF id, own, layer
<1>9. ASSUME id # None, adapter = "figure_official_site", ~Misleads(page)
      PROVE  id.of = page.about
  <2> DEFINE has == Stated(page).has
  <2> DEFINE coded == {key \in DOMAIN has \cap {"gtin", "mpn", "sku"} : has[key].kind \notin {"blank", "empty"}}
  <2> DEFINE foreign(v) == v.of # page.about \/ v.kind = "falsy"
  <2>1. \A v : ~foreign(v) => TextOf(v) = page.about
    BY DEF TextOf
  <2>2. CASE own # None
    <3>1. PICK i \in 1 .. 3 : Carries(page, Codes[i]) /\ own.of = TextOf(has[Codes[i]])
      BY <1>1, <1>5, <2>2 DEF IsProducts
    <3>2. Codes[i] \in {"gtin", "mpn", "sku"}
      BY DEF Codes
    <3>3. Codes[i] \in coded
      BY <3>1, <3>2 DEF Carries, Nothing
    <3>4. ~foreign(has[Codes[i]])
      BY <1>9, <3>3 DEF Misleads
    <3> HIDE DEF foreign, has
    <3>5. QED
      BY <1>4, <2>1, <2>2, <3>1, <3>4
  <2>3. CASE own = None
    <3>1. layer # None /\ id = layer
      BY <1>4, <1>9, <2>3
    <3>2. PICK i \in 1 .. 2, v \in Value : LayerHas(page, LayerCodes[i], v) /\ layer.of = TextOf(v)
      BY <1>8, <3>1
    <3>3. LayerCodes[i] \in {"product_master_code", "item_id"}
      BY DEF LayerCodes
    <3>4. LayerItems(page) \in Seq(Item)
      BY LayerItemsType
    <3>5. DOMAIN LayerItems(page) = 1 .. Len(LayerItems(page))
      BY <3>4, LenProperties
    <3>6. PICK k \in DOMAIN LayerItems(page) :
             /\ LayerCodes[i] \in DOMAIN LayerItems(page)[k]
             /\ v = LayerItems(page)[k][LayerCodes[i]]
             /\ v.kind \notin {"blank", "empty"}
             /\ \A j \in k + 1 .. Len(LayerItems(page)) : LayerCodes[i] \notin DOMAIN LayerItems(page)[j]
      BY <3>2, <3>5 DEF LayerHas, LastSays, Nothing
    <3>7. coded = {}
      BY <1>7, <2>3 DEF Carries, Nothing
    <3>8. ~foreign(v)
      BY <1>9, <3>3, <3>6, <3>7 DEF Misleads
    <3> HIDE DEF foreign, has
    <3>9. QED
      BY <2>1, <3>1, <3>2, <3>8
  <2>4. QED
    BY <2>2, <2>3
<1>10. id # None => id \in Value /\ id.kind = "text"
  BY <1>4, <1>5, <1>8 DEF IsProducts
<1>11. QED
  BY <1>9, <1>10 DEF id

-----------------------------------------------------------------------------
(* lovehotel_couples: the number in the path.                              *)

LEMMA FacilityIdIsFirst ==
    ASSUME NEW page, PageType(page)
    PROVE  LET ids == CanonicalUrl(page).ids \o page.url.ids
           IN /\ ids \in Seq(Things)
              /\ ids = <<>> => FacilityId(page) = None
              /\ ids # <<>> => /\ FacilityId(page) \in Value /\ FacilityId(page).of = Head(ids)
                               /\ FacilityId(page).kind = "text"
<1> DEFINE ids == CanonicalUrl(page).ids \o page.url.ids
<1> DEFINE n == Len(ids)
<1> DEFINE s == [i \in 1 .. n |-> [of |-> ids[i], key |-> "facility", kind |-> "text"]]
<1>1. \A u : UrlType(u) => u.ids \in Seq(Things)
  BY SeqMonotonic DEF UrlType, IsSeq
<1>2. UrlType(page.url) /\ UrlType(CanonicalUrl(page))
  BY DEF PageType, CanonicalUrl
<1>3. ids \in Seq(Things)
  BY <1>1, <1>2, ConcatProperties
<1>4. n \in Nat /\ (n = 0 <=> ids = <<>>) /\ \A i \in 1 .. n : ids[i] \in Things
  BY <1>3, LenProperties, EmptySeq, ElementOfSeq
<1>5. FacilityId(page) = FirstOf(s)
  BY DEF FacilityId
<1>6. \A i \in 1 .. n : s[i] = [of |-> ids[i], key |-> "facility", kind |-> "text"]
  OBVIOUS
<1> HIDE DEF ids
<1>7. \A i \in 1 .. n : s[i] \in Value /\ s[i] # None
  <2>1. \A t \in Things : [of |-> t, key |-> "facility", kind |-> "text"] \in Value
    BY DEF Value, Keys, Kinds
  <2>2. \A i \in 1 .. n : s[i] \in Value
    BY <1>4, <2>1
  <2>3. QED
    BY <2>2, NoneAssumption
<1>8. s \in [1 .. n -> Value]
  BY <1>7
<1>9. s \in Seq(Value) /\ Len(s) = n
  BY <1>4, <1>8, FunctionIsSeq
<1> HIDE DEF s
<1>10. CASE ids = <<>>
  <2>1. n = 0
    BY <1>4, <1>10
  <2>2. \A i \in 1 .. Len(s) : FALSE
    BY <1>9, <2>1
  <2>3. FirstOf(s) = None
    BY <1>9, <2>2, FirstOfFound
  <2>4. QED
    BY <1>3, <1>5, <1>10, <2>3 DEF ids
<1>11. CASE ids # <<>>
  <2>1. 1 \in 1 .. n /\ \A j \in 1 .. n : ~(j < 1)
    BY <1>4, <1>11
  <2>2. FirstOf(s) = s[1]
    BY <1>7, <1>9, <2>1, FirstOfAt
  <2>3. Head(ids) = ids[1]
    BY <1>3, <1>11
  <2>4. s[1] = [of |-> ids[1], key |-> "facility", kind |-> "text"] /\ s[1] \in Value
    BY <1>6, <1>7, <2>1
  <2>5. FacilityId(page).of = Head(ids) /\ FacilityId(page).kind = "text" /\ FacilityId(page) \in Value
    BY <1>5, <2>2, <2>3, <2>4
  <2>6. QED
    BY <1>3, <1>11, <2>5 DEF ids
<1>12. QED
  BY <1>10, <1>11

-----------------------------------------------------------------------------
(* What is stored of a page is what the adapter makes of it.               *)

Stored(page) ==
    [outcome |-> Outcome(page),
     record |-> IF Outcome(page) = "persisted" THEN RecordOf(page) ELSE None]

Recorded ==
    /\ adapter \in Adapters
    /\ DOMAIN results \subseteq Pages[adapter]
    /\ \A page \in DOMAIN results : results[page] = Stored(page)

LEMMA RecordedStep == Recorded /\ [Next]_vars => Recorded'
<1> SUFFICES ASSUME Recorded, [Next]_vars PROVE Recorded'
  OBVIOUS
<1>1. adapter' = adapter
  BY DEF Next, Collect, vars
<1>2. \A page : Stored(page)' = Stored(page)
  BY <1>1 DEF Stored, Outcome, Raises, Skips, RecordOf
<1>3. CASE Next
  <2>1. PICK page \in Pages[adapter] : Collect(page)
    BY <1>3 DEF Next
  <2>2. results' = [p \in DOMAIN results \cup {page} |-> IF p # page THEN results[p] ELSE Stored(page)]
    BY <2>1 DEF Collect, Stored
  <2>3. DOMAIN results' = DOMAIN results \cup {page}
    BY <2>2
  <2>4. \A p \in DOMAIN results' : results'[p] = Stored(p)
    BY <2>2, <2>3 DEF Recorded
  <2>5. QED
    BY <1>1, <1>2, <2>1, <2>3, <2>4 DEF Recorded
<1>4. CASE UNCHANGED vars
  BY <1>1, <1>2, <1>4 DEF Recorded, vars
<1>5. QED
  BY <1>3, <1>4

THEOREM RecordsAreStored == Spec => []Recorded
<1>1. Init => Recorded
  BY DEF Init, Recorded
<1>2. QED
  BY <1>1, RecordedStep, PTL DEF Spec

LEMMA PersistedIs ==
    ASSUME Recorded, NEW page \in Persisted
    PROVE  /\ PageType(page) /\ page \in DOMAIN results
           /\ ~Skips(page) /\ results[page].record = RecordOf(page)
<1>1. page \in DOMAIN results /\ results[page].outcome = "persisted"
  BY DEF Persisted
<1>2. results[page] = Stored(page)
  BY <1>1 DEF Recorded
<1>3. Outcome(page) = "persisted" /\ results[page].record = RecordOf(page)
  BY <1>1, <1>2 DEF Stored
<1>4. ~Skips(page)
  BY <1>3 DEF Outcome
<1>5. PageType(page)
  BY <1>1, PagesAssumption DEF Recorded
<1>6. QED
  BY <1>1, <1>3, <1>4, <1>5

LEMMA AdapterIs ==
    ASSUME Recorded PROVE adapter \in {"figure_official_site", "lovehotel_couples"}
  BY AdaptersAssumption DEF Recorded

-----------------------------------------------------------------------------
(* The theorems.                                                           *)

\* The external id of a record whose page does not mislead is of what the page is about.
LEMMA IdIsOwn ==
    ASSUME Recorded, NEW page \in Persisted, ~Misleads(page),
           results[page].record.external_id # None
    PROVE  results[page].record.external_id.of = page.about
<1>1. PageType(page) /\ ~Skips(page) /\ results[page].record = RecordOf(page)
  BY PersistedIs
<1>2. CASE adapter = "figure_official_site"
  <2>1. results[page].record = FigureRecord(page) /\ Product(page) # None
    BY <1>1, <1>2 DEF RecordOf, Skips
  <2>2. HasProduct(page)
    BY <1>1, <2>1, ProductIsStated
  <2>3. QED
    BY <1>1, <1>2, <2>1, <2>2, FigureId
<1>3. CASE adapter # "figure_official_site"
  <2> DEFINE ids == CanonicalUrl(page).ids \o page.url.ids
  <2>1. results[page].record.external_id = FacilityId(page)
    BY <1>1, <1>3 DEF RecordOf, CouplesRecord
  <2>2. ids # <<>>
    BY <1>1, <2>1, FacilityIdIsFirst
  <2>3. FacilityId(page).of = Head(ids)
    BY <1>1, <2>2, FacilityIdIsFirst
  <2>4. Head(ids) = page.about
    BY <1>3, <2>2 DEF Misleads
  <2>5. QED
    BY <2>1, <2>3, <2>4
<1>4. QED
  BY <1>2, <1>3

\* Whatever the pages show, and under whatever keys, the records of two things are not known
\* by one string unless one of their pages misleads.
THEOREM IdsStayApart == Spec => []IdsApart
<1>1. ASSUME Recorded PROVE IdsApart
  <2>1. SUFFICES ASSUME NEW p \in Persisted, NEW q \in Persisted,
                        p.about # q.about, ~Misleads(p), ~Misleads(q),
                        IdOf(results[p].record) # None,
                        IdOf(results[p].record) = IdOf(results[q].record)
                 PROVE  FALSE
    BY DEF IdsApart
  <2>2. /\ results[p].record.external_id # None /\ results[q].record.external_id # None
        /\ results[p].record.external_id.of = results[q].record.external_id.of
    BY <2>1 DEF IdOf
  <2>3. results[p].record.external_id.of = p.about
    BY <1>1, <2>1, <2>2, IdIsOwn
  <2>4. results[q].record.external_id.of = q.about
    BY <1>1, <2>1, <2>2, IdIsOwn
  <2>5. QED
    BY <2>1, <2>2, <2>3, <2>4
<1>2. Recorded => IdsApart
  BY <1>1
<1>3. QED
  BY <1>2, RecordsAreStored, PTL

\* Each field of a product's record that its JSON-LD carries.
LEMMA FieldIsProducts ==
    ASSUME NEW page, PageType(page), HasProduct(page), NEW field \in DOMAIN SchemaKeys,
           \E key \in SchemaKeys[field] : Carries(page, key)
    PROVE  LET value == FigureRecord(page)[field]
           IN /\ value.key \in SchemaKeys[field] /\ Carries(page, value.key)
              /\ value.of = TextOf(Stated(page).has[value.key])
<1> DEFINE Says(f, keys) == IsProducts(page, FigureRecord(page)[f], keys)
<1> DEFINE CarriesOne(keys) == \E i \in 1 .. Len(keys) : Carries(page, keys[i])
<1>1. \A keys \in Seq(Keys) : \A rest \in Seq(MaybeValue) :
         CarriesOne(keys) => IsProducts(page, FirstOf(InProduct(page, keys) \o rest), keys)
  BY ProductComesFirst
<1>2. \A key \in Keys : <<key>> \in Seq(Keys) /\ Len(<<key>>) = 1 /\ <<key>>[1] = key
  OBVIOUS
<1>3. \A key1, key2 \in Keys : <<key1, key2>> \in Seq(Keys)
  OBVIOUS
<1>4. \A keys \in Seq(Keys) : InLayer(page, keys) \in Seq(MaybeValue) /\ InProduct(page, keys) \in Seq(MaybeValue)
  BY LayerSays, ProductSays
<1>5. CASE field = "name"
  <2>1. SchemaKeys[field] = {"name"}
    BY <1>5 DEF SchemaKeys
  <2>2. CarriesOne(<<"name">>)
    BY <2>1
  <2>3. <<"name">> \in Seq(Keys) /\ <<"item_name", "product_name">> \in Seq(Keys)
    BY DEF Keys
  <2>4. CommonNames(page) \o InLayer(page, <<"item_name", "product_name">>) \in Seq(MaybeValue)
    BY <1>4, <2>3, CommonNamesType, ConcatProperties
  <2>5. FigureRecord(page)[field] = FirstOf((InProduct(page, <<"name">>) \o CommonNames(page))
                                            \o InLayer(page, <<"item_name", "product_name">>))
    BY <1>5 DEF FigureRecord
  <2>6. FigureRecord(page)[field] = FirstOf(InProduct(page, <<"name">>)
            \o (CommonNames(page) \o InLayer(page, <<"item_name", "product_name">>)))
    <3>1. InProduct(page, <<"name">>) \in Seq(MaybeValue)
      BY <1>4, <2>3
    <3>2. CommonNames(page) \in Seq(MaybeValue)
      BY CommonNamesType
    <3>3. InLayer(page, <<"item_name", "product_name">>) \in Seq(MaybeValue)
      BY <1>4, <2>3
    <3>4. (InProduct(page, <<"name">>) \o CommonNames(page)) \o InLayer(page, <<"item_name", "product_name">>)
             = InProduct(page, <<"name">>) \o (CommonNames(page) \o InLayer(page, <<"item_name", "product_name">>))
      BY <3>1, <3>2, <3>3, ConcatAssociative
    <3>5. QED
      BY <2>5, <3>4
  <2>7. Says(field, <<"name">>)
    BY <1>1, <2>2, <2>3, <2>4, <2>6
  <2>8. QED
    BY <2>1, <2>7 DEF IsProducts
<1>6. CASE field = "external_id"
  <2>1. SchemaKeys[field] = {"gtin", "mpn", "sku"}
    BY <1>6 DEF SchemaKeys
  <2>2. Codes \in Seq(Keys) /\ Len(Codes) = 3 /\ Codes[1] = "gtin" /\ Codes[2] = "mpn" /\ Codes[3] = "sku"
    BY DEF Codes, Keys
  <2>3. CarriesOne(Codes)
    BY <2>1, <2>2
  <2>4. LayerCodes \in Seq(Keys)
    BY DEF LayerCodes, Keys
  <2>5. FigureRecord(page)[field] = FirstOf(InProduct(page, Codes) \o InLayer(page, LayerCodes))
    BY <1>6 DEF FigureRecord
  <2>6. Says(field, Codes)
    BY <1>1, <1>4, <2>2, <2>3, <2>4, <2>5
  <2>7. QED
    BY <2>1, <2>2, <2>6 DEF IsProducts
<1>7. CASE field = "brand"
  <2>1. SchemaKeys[field] = {"brand"}
    BY <1>7 DEF SchemaKeys
  <2>2. CarriesOne(<<"brand">>)
    BY <2>1
  <2>3. <<"brand">> \in Seq(Keys) /\ <<"item_brand">> \in Seq(Keys)
    BY DEF Keys
  <2>4. FigureRecord(page)[field] = FirstOf(InProduct(page, <<"brand">>) \o InLayer(page, <<"item_brand">>))
    BY <1>7 DEF FigureRecord
  <2>5. InLayer(page, <<"item_brand">>) \in Seq(MaybeValue)
    BY <1>4, <2>3
  <2>6. IsProducts(page, FirstOf(InProduct(page, <<"brand">>) \o InLayer(page, <<"item_brand">>)), <<"brand">>)
    BY <1>1, <2>2, <2>3, <2>5
  <2>7. Says(field, <<"brand">>)
    BY <2>4, <2>6
  <2>8. QED
    BY <2>1, <2>7 DEF IsProducts
<1>8. CASE field = "series"
  <2>1. SchemaKeys[field] = {"category"}
    BY <1>8 DEF SchemaKeys
  <2>2. CarriesOne(<<"category">>)
    BY <2>1
  <2>3. <<"category">> \in Seq(Keys) /\ <<"item_category2", "item_category">> \in Seq(Keys)
    BY DEF Keys
  <2>4. FigureRecord(page)[field] =
           FirstOf(InProduct(page, <<"category">>) \o InLayer(page, <<"item_category2", "item_category">>))
    BY <1>8 DEF FigureRecord
  <2>5. InLayer(page, <<"item_category2", "item_category">>) \in Seq(MaybeValue)
    BY <1>4, <2>3
  <2>6. IsProducts(page, FirstOf(InProduct(page, <<"category">>) \o InLayer(page, <<"item_category2", "item_category">>)), <<"category">>)
    BY <1>1, <2>2, <2>3, <2>5
  <2>7. Says(field, <<"category">>)
    BY <2>4, <2>6
  <2>8. QED
    BY <2>1, <2>7 DEF IsProducts
<1>9. CASE field = "price"
  <2>1. SchemaKeys[field] = {"price"}
    BY <1>9 DEF SchemaKeys
  <2>2. CarriesOne(<<"price">>)
    BY <2>1
  <2>3. <<"price">> \in Seq(Keys)
    BY DEF Keys
  <2>4. FigureRecord(page)[field] = FirstOf(InProduct(page, <<"price">>) \o InLayer(page, <<"price">>))
    BY <1>9 DEF FigureRecord
  <2>5. Says(field, <<"price">>)
    BY <1>1, <1>4, <2>2, <2>3, <2>4
  <2>6. QED
    BY <2>1, <2>5 DEF IsProducts
<1>10. DOMAIN SchemaKeys = {"name", "external_id", "brand", "series", "price"}
  BY DEF SchemaKeys
<1>11. QED
  BY <1>5, <1>6, <1>7, <1>8, <1>9, <1>10

\* Whatever the pages show, a field that the Product carries is read from the Product.
THEOREM JsonLdAlwaysPrevails == Spec => []JsonLdPrevails
<1>1. ASSUME Recorded PROVE JsonLdPrevails
  <2>1. SUFFICES ASSUME adapter = "figure_official_site",
                        NEW page \in Persisted, NEW field \in DOMAIN SchemaKeys,
                        \E key \in SchemaKeys[field] : Carries(page, key)
                 PROVE  LET value == results[page].record[field]
                        IN /\ value.key \in SchemaKeys[field] /\ Carries(page, value.key)
                           /\ value.of = TextOf(Stated(page).has[value.key])
    BY DEF JsonLdPrevails, Carries, Nothing, TextOf
  <2>2. PageType(page) /\ ~Skips(page) /\ results[page].record = RecordOf(page)
    BY <1>1, PersistedIs
  <2>3. results[page].record = FigureRecord(page) /\ Product(page) # None
    BY <2>1, <2>2 DEF RecordOf, Skips
  <2>4. HasProduct(page)
    BY <2>2, <2>3, ProductIsStated
  <2>5. QED
    BY <2>1, <2>2, <2>3, <2>4, FieldIsProducts
<1>2. Recorded => JsonLdPrevails
  BY <1>1
<1>3. QED
  BY <1>2, RecordsAreStored, PTL

-----------------------------------------------------------------------------
(* A page that presents a thing is persisted, under a name.                *)

\* What FirstIs says of a page is said of what FirstGiven gives.
LEMMA FirstGivenIs ==
    ASSUME NEW page, PageType(page), NEW key, key # "address", NEW kinds, FirstIs(page, key, kinds),
           FirstGiven(page, key) # None
    PROVE  FirstGiven(page, key) \in Value /\ FirstGiven(page, key).kind \in kinds
<1>1. PICK i \in 1 .. Len(page.blocks) :
         /\ Gives(page, i, key)
         /\ \A j \in 1 .. i - 1 : ~Gives(page, j, key)
         /\ FirstGiven(page, key) \in Value
         /\ FirstGiven(page, key).kind = page.blocks[i].has[key].kind
  BY FirstGivenFound
<1>2. i \in DOMAIN page.blocks
  BY MappedIsSeq DEF PageType
<1>3. page.blocks[i].has[key].kind \in kinds
  BY <1>1, <1>2 DEF FirstIs, Gives
<1>4. QED
  BY <1>1, <1>3

LEMMA CommonNameIs ==
    ASSUME NEW page, PageType(page), NEW kinds, FirstIs(page, "name", kinds), "text" \in kinds,
           CommonName(page) # None
    PROVE  CommonName(page) \in Value /\ CommonName(page).kind \in kinds
<1>1. CASE FirstGiven(page, "name") # None
  BY <1>1, CommonNameType, FirstGivenIs
<1>2. CASE FirstGiven(page, "name") = None
  <2>1. CommonName(page) = page.heading
    BY <1>2, CommonNameType
  <2>2. page.heading \in Value /\ page.heading.kind = "text"
    BY <2>1 DEF PageType
  <2>3. QED
    BY <2>1, <2>2
<1>3. QED
  BY <1>1, <1>2

\* A telephone number is text, or what the first block with one gives, or what the last block
\* has in its stead.
LEMMA TelephoneIs ==
    ASSUME NEW page, PageType(page), FirstIs(page, "telephone", {"text", "postal", "blank"}),
           \A b \in Range(page.blocks) :
               "telephone" \in DOMAIN b.has => b.has["telephone"].kind # "falsy"
    PROVE  IsText(CommonTelephone(page))
<1> DEFINE n == Len(page.numbers)
<1> DEFINE s == [i \in 1 .. n |-> IF page.numbers[i].key = "telephone" THEN page.numbers[i] ELSE None]
<1> DEFINE f == FirstGiven(page, "telephone")
<1> DEFINE l == LeftOver(page, "telephone")
<1> DEFINE T == {v \in MaybeValue : IsText(v)}
<1>1. /\ n \in Nat /\ DOMAIN page.numbers = 1 .. n
      /\ \A i \in 1 .. n : page.numbers[i] \in Value /\ page.numbers[i].kind \in {"text", "postal"}
  BY MappedIsSeq DEF PageType
<1>2. s \in [1 .. n -> T]
  BY <1>1 DEF IsText, MaybeValue
<1>3. s \in Seq(T)
  BY <1>1, <1>2, FunctionIsSeq
<1>4. CommonTelephone(page) = FirstOf(<<f, FirstOf(s), l>>)
  BY <1>1 DEF CommonTelephone
<1> HIDE DEF s
<1>5. FirstOf(s) \in T \cup {None}
  BY <1>3, FirstOfMember
<1>6. CASE f # None
  <2>1. f \in Value /\ f.kind \in {"text", "postal", "blank"}
    BY <1>6, FirstGivenIs
  <2> DEFINE q == <<f, FirstOf(s), l>>
  <2>2. q \in Seq({f, FirstOf(s), l}) /\ Len(q) = 3 /\ q[1] = f
    OBVIOUS
  <2>3. 1 \in 1 .. Len(q) /\ q[1] # None /\ \A j \in 1 .. Len(q) : j < 1 => q[j] = None
    BY <1>6, <2>2
  <2> HIDE DEF q
  <2>4. FirstOf(q) = q[1]
    BY <2>2, <2>3, FirstOfAt
  <2>5. QED
    BY <1>4, <2>1, <2>2, <2>4 DEF IsText, q
<1>7. CASE f = None
  <2>1. l \in T \cup {None}
    <3>1. CASE page.blocks = <<>>
      BY <3>1 DEF LeftOver
    <3>2. CASE page.blocks # <<>>
      <4> DEFINE m == Len(page.blocks)
      <4>1. page.blocks \in Seq(Range(page.blocks)) /\ m \in Nat
        BY MappedIsSeq DEF PageType, IsSeq
      <4>2. m \in 1 .. m
        BY <3>2, <4>1, EmptySeq
      <4>3. l = Given(page.blocks[m], "telephone") /\ page.blocks[m] \in Range(page.blocks)
        BY <3>2, <4>2, MappedIsSeq DEF LeftOver, PageType
      <4>4. ~Gives(page, m, "telephone")
        BY <1>7, <4>2, FirstGivenFound, NoneAssumption
      <4>5. CASE HasKey(page, m, "telephone")
        <5>1. page.blocks[m].has["telephone"].kind = "empty"
          BY <4>3, <4>4, <4>5 DEF Gives, HasKey
        <5>2. l \in Value /\ l.kind = KindOf(page, m, "telephone")
          BY <4>2, <4>3, <4>5, GivenKind
        <5>3. KindOf(page, m, "telephone") = "empty"
          BY <5>1 DEF KindOf
        <5>4. QED
          BY <5>2, <5>3 DEF IsText, MaybeValue
      <4>6. CASE ~HasKey(page, m, "telephone")
        <5>1. l = None
          BY <4>2, <4>3, <4>6, GivenKind
        <5>2. QED
          BY <5>1
      <4>7. QED
        BY <4>5, <4>6
    <3>3. QED
      BY <3>1, <3>2
  <2>2. f \in T \cup {None}
    BY <1>7
  <2> HIDE DEF f, l, T
  <2>3. <<f, FirstOf(s), l>> \in Seq(T \cup {None})
    BY <1>5, <2>1, <2>2
  <2>4. FirstOf(<<f, FirstOf(s), l>>) \in (T \cup {None}) \cup {None}
    BY <2>3, FirstOfMember
  <2>5. QED
    BY <1>4, <2>4 DEF T, IsText
<1>8. QED
  BY <1>6, <1>7

\* A page is persisted if it is not skipped, nothing raises, and its record is valid.
LEMMA GoodPageIsKept ==
    ASSUME Recorded, NEW page \in DOMAIN results,
           ~Raises(page), ~Skips(page), Valid(RecordOf(page))
    PROVE  page \in Persisted /\ results[page].record = RecordOf(page)
<1>1. results[page] = Stored(page)
  BY DEF Recorded
<1>2. Outcome(page) = "persisted"
  BY DEF Outcome
<1>3. QED
  BY <1>1, <1>2 DEF Stored, Persisted

LEMMA ProductIsKept ==
    ASSUME Recorded, adapter = "figure_official_site",
           NEW page \in DOMAIN results, Presents(page),
           Digestible(page), page.wellformed, CanonicalUrl(page).http
    PROVE  page \in Persisted /\ results[page].record.name.kind = "text"
<1>1. PageType(page)
  BY PagesAssumption DEF Recorded
<1>2. HasProduct(page) /\ Carries(page, "name")
  BY DEF Presents, Carries, Nothing
<1>3. ~Skips(page)
  BY <1>1, <1>2, ProductIsStated DEF Skips
<1>4. ~CommonRaises(page)
  <2>1. "text" \in {"text", "postal", "blank"} /\ FirstIs(page, "name", {"text", "postal", "blank"})
    BY DEF Digestible
  <2>2. CommonName(page) # None => CommonName(page).kind \in {"text", "postal", "blank"}
    BY <1>1, <2>1, CommonNameIs
  <2>3. QED
    BY <2>2 DEF CommonRaises
<1> DEFINE name == FigureRecord(page).name
<1>5. name \in Value /\ name.kind = "text"
  <2> DEFINE layer == InLayer(page, <<"item_name", "product_name">>)
  <2>1. <<"name">> \in Seq(Keys) /\ <<"item_name", "product_name">> \in Seq(Keys)
    BY DEF Keys
  <2>2. InProduct(page, <<"name">>) \in Seq(MaybeValue)
    BY <1>1, <1>2, <2>1, ProductSays
  <2>3. CommonNames(page) \in Seq(MaybeValue)
    BY <1>1, CommonNamesType
  <2>4. layer \in Seq(MaybeValue)
    BY <1>1, <2>1, LayerSays
  <2>5. name = FirstOf((InProduct(page, <<"name">>) \o CommonNames(page)) \o layer)
    BY DEF FigureRecord
  <2> HIDE DEF layer
  <2>6. (InProduct(page, <<"name">>) \o CommonNames(page)) \o layer
           = InProduct(page, <<"name">>) \o (CommonNames(page) \o layer)
    BY <2>2, <2>3, <2>4, ConcatAssociative
  <2>7. CommonNames(page) \o layer \in Seq(MaybeValue)
    BY <2>3, <2>4, ConcatProperties
  <2>8. \E i \in 1 .. Len(<<"name">>) : Carries(page, <<"name">>[i])
    BY <1>2
  <2>9. IsProducts(page, FirstOf(InProduct(page, <<"name">>) \o (CommonNames(page) \o layer)), <<"name">>)
    BY <1>1, <1>2, <2>1, <2>7, <2>8, ProductComesFirst
  <2>10. QED
    BY <2>5, <2>6, <2>9 DEF IsProducts
<1>6. ~FigureRaises(page)
  <2>1. PICK b \in 1 .. Len(page.blocks) : Product(page) = page.blocks[b] /\ Stated(page) = page.blocks[b]
    BY <1>1, <1>2, ProductIsStated
  <2>2. Given(Product(page), "image") # None => Given(Product(page), "image").kind \notin {"number", "object"}
    <3>1. CASE HasKey(page, b, "image")
      <4>1. Given(Product(page), "image").kind = KindOf(page, b, "image")
        BY <1>1, <2>1, <3>1, GivenKind
      <4>2. "image" \in DOMAIN Stated(page).has /\ KindOf(page, b, "image") = Stated(page).has["image"].kind
        BY <2>1, <3>1 DEF HasKey, KindOf
      <4>3. Stated(page).has["image"].kind \notin {"number", "object"}
        BY <4>2 DEF Digestible
      <4>4. QED
        BY <4>1, <4>2, <4>3
    <3>2. CASE ~HasKey(page, b, "image")
      BY <1>1, <2>1, <3>2, GivenKind
    <3>3. QED
      BY <3>1, <3>2
  <2>3. QED
    BY <1>5, <2>2 DEF FigureRaises
<1>7. ~Raises(page)
  BY <1>4, <1>6 DEF Raises
<1>8. RecordOf(page) = FigureRecord(page)
  BY DEF RecordOf
<1>9. IsText(FigureRecord(page).external_id)
  BY <1>1, <1>2, FigureId DEF IsText
<1>10. FigureRecord(page).telephone = None /\ FigureRecord(page).canonical_url = CanonicalUrl(page)
  BY DEF FigureRecord
<1>11. name # None
  BY <1>5, NoneAssumption
<1>12. Valid(RecordOf(page))
  BY <1>5, <1>8, <1>9, <1>10, <1>11 DEF Valid, IsText
<1>13. QED
  BY <1>3, <1>5, <1>7, <1>8, <1>12, GoodPageIsKept

LEMMA FacilityIsKept ==
    ASSUME Recorded, adapter = "lovehotel_couples",
           NEW page \in DOMAIN results, Presents(page),
           Digestible(page), page.wellformed, CanonicalUrl(page).http
    PROVE  page \in Persisted /\ results[page].record.name.kind \in {"text", "postal"}
<1>1. PageType(page)
  BY PagesAssumption DEF Recorded
<1>2. page.about \in Range(page.url.ids) /\ (page.heading # None \/ \E i \in 1 .. Len(page.blocks) : Gives(page, i, "name"))
  <2>1. page.about \in Range(page.url.ids)
    BY DEF Presents
  <2>2. CASE page.heading # None
    BY <2>1, <2>2
  <2>3. CASE page.heading = None
    <3>1. PICK b \in Range(page.blocks) :
             "name" \in DOMAIN b.has /\ b.has["name"].kind \notin {"empty", "falsy"}
      BY <2>3 DEF Presents
    <3>2. PICK i \in 1 .. Len(page.blocks) : b = page.blocks[i]
      BY <1>1, MappedIsSeq DEF Range, PageType
    <3>3. QED
      BY <2>1, <3>1, <3>2 DEF Gives
  <2>4. QED
    BY <2>2, <2>3
<1> DEFINE ids == CanonicalUrl(page).ids \o page.url.ids
<1>3. ids # <<>>
  <2>1. page.url.ids \in Seq(Range(page.url.ids)) /\ IsSeq(CanonicalUrl(page).ids)
    BY <1>1 DEF PageType, UrlType, IsSeq, CanonicalUrl
  <2> DEFINE a == CanonicalUrl(page).ids
  <2> DEFINE b == page.url.ids
  <2> DEFINE S == Range(a) \cup Range(b)
  <2>2. a \in Seq(S) /\ b \in Seq(S)
    BY <2>1, SeqMonotonic DEF IsSeq
  <2>3. b # <<>>
    <3>1. DOMAIN b # {}
      BY <1>2 DEF Range
    <3>2. QED
      BY <2>2, <3>1
  <2> HIDE DEF a, b, S
  <2>4. QED
    BY <2>2, <2>3, ConcatEqualIffEmpty DEF a, b
<1>4. FacilityId(page) \in Value /\ FacilityId(page).kind = "text"
  BY <1>1, <1>3, FacilityIdIsFirst
<1>5. FacilityId(page) # None
  BY <1>4, NoneAssumption
<1>6. ~Skips(page)
  BY <1>5 DEF Skips, IsFacilityPage
<1>7. CommonName(page) # None
  <2>1. CASE FirstGiven(page, "name") # None
    BY <1>1, <2>1, CommonNameType
  <2>2. CASE FirstGiven(page, "name") = None
    <3>1. CommonName(page) = page.heading
      BY <1>1, <2>2, CommonNameType
    <3>2. \A i \in 1 .. Len(page.blocks) : ~Gives(page, i, "name")
      BY <1>1, <2>2, FirstGivenFound, NoneAssumption
    <3>3. QED
      BY <1>2, <3>1, <3>2
  <2>3. QED
    BY <2>1, <2>2
<1>8. CommonName(page) \in Value /\ CommonName(page).kind \in {"text", "postal"}
  <2>1. "text" \in {"text", "postal"} /\ FirstIs(page, "name", {"text", "postal"})
    BY DEF Digestible
  <2>2. CommonName(page).kind \in {"text", "postal"} /\ CommonName(page) \in Value
    BY <1>1, <1>7, <2>1, CommonNameIs
  <2>3. QED
    BY <2>2
<1>9. ~Raises(page)
  <2>1. ~CommonRaises(page)
    BY <1>8 DEF CommonRaises
  <2>2. \A i \in DOMAIN page.blocks : "object" \notin page.blocks[i].types
    BY DEF Digestible, Range
  <2>3. QED
    BY <2>1, <2>2 DEF Raises, CouplesRaises
<1>10. RecordOf(page) = CouplesRecord(page)
  BY DEF RecordOf
<1>11. /\ CouplesRecord(page).name = CommonName(page)
       /\ CouplesRecord(page).external_id = FacilityId(page)
       /\ CouplesRecord(page).telephone = CommonTelephone(page)
       /\ CouplesRecord(page).canonical_url = CanonicalUrl(page)
  BY DEF CouplesRecord
<1>12. IsText(CommonTelephone(page))
  <2>1. /\ FirstIs(page, "telephone", {"text", "postal", "blank"})
        /\ \A b \in Range(page.blocks) :
              "telephone" \in DOMAIN b.has => b.has["telephone"].kind # "falsy"
    BY DEF Digestible
  <2>2. QED
    BY <1>1, <2>1, TelephoneIs
<1>13. IsText(CommonName(page)) /\ IsText(FacilityId(page))
  BY <1>4, <1>8 DEF IsText
<1>14. Valid(RecordOf(page))
  BY <1>7, <1>10, <1>11, <1>12, <1>13 DEF Valid
<1>15. QED
  BY <1>6, <1>8, <1>9, <1>10, <1>11, <1>14, GoodPageIsKept

\* Whatever else a page that presents a thing shows, its record is persisted under a name
\* that is text, but for the exceptions that SubjectKept names.
THEOREM SubjectIsKept == Spec => []SubjectKept
<1>1. ASSUME Recorded PROVE SubjectKept
  <2>1. SUFFICES ASSUME NEW page \in DOMAIN results, Presents(page), Digestible(page),
                        page.wellformed, CanonicalUrl(page).http
                 PROVE  page \in Persisted /\ results[page].record.name.kind \in {"text", "postal"}
    BY DEF SubjectKept
  <2>2. CASE adapter = "figure_official_site"
    BY <1>1, <2>1, <2>2, ProductIsKept
  <2>3. CASE adapter = "lovehotel_couples"
    BY <1>1, <2>1, <2>3, FacilityIsKept
  <2>4. QED
    BY <1>1, <2>2, <2>3, AdapterIs
<1>2. Recorded => SubjectKept
  BY <1>1
<1>3. QED
  BY <1>2, RecordsAreStored, PTL
=============================================================================
