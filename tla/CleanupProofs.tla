----------------------------- MODULE CleanupProofs -----------------------------
(***************************************************************************)
(* Cleanup, for any rules and any text: what the package's operations on   *)
(* texts compute.  They are loops, and the facts about them inductions     *)
(* over the steps of a loop (Induct), each loop being known to define what *)
(* it says (Loop).                                                         *)
(***************************************************************************)
EXTENDS Cleanup, TLAPS, WellFoundedInduction, SequenceTheorems

-----------------------------------------------------------------------------
(* Induction and loops.                                                    *)

LEMMA LessIsWellFounded == IsWellFoundedOn({p \in Nat \X Nat : p[1] < p[2]}, Nat)
  BY NatLessThanWellFounded DEF OpToRel

(* A set of numbers that is not empty has a least one.                     *)
LEMMA Least ==
  ASSUME NEW S \in SUBSET Nat, S # {}
  PROVE  \E n \in S : \A m \in S : n <= m
<1> DEFINE R == {p \in Nat \X Nat : p[1] < p[2]}
<1>1. PICK n \in S : \A m \in S : ~ (<<m, n>> \in R)
  BY LessIsWellFounded, WFMin
<1>2. ASSUME NEW m \in S PROVE n <= m
  <2>1. <<m, n>> \in Nat \X Nat /\ ~ (<<m, n>> \in R)
    BY <1>1
  <2>2. ~(<<m, n>>[1] < <<m, n>>[2])
    BY <2>1
  <2> QED BY <2>2
<1> QED BY <1>2

(* Induction up to a bound, for the steps of a loop.                       *)
LEMMA Induct ==
  ASSUME NEW n \in Nat, NEW S, 0 \in S, \A k \in 0..(n - 1) : k \in S => k + 1 \in S
  PROVE  \A k \in 0..n : k \in S
<1> DEFINE T == {k \in 0..n : k \notin S}
<1> SUFFICES ASSUME T # {} PROVE FALSE
  OBVIOUS
<1>1. PICK k \in T : \A m \in T : k <= m
  <2>1. T \in SUBSET Nat
    OBVIOUS
  <2> QED BY <2>1, Least
<1>2. k - 1 \in 0..(n - 1) /\ k - 1 \in S
  BY <1>1
<1> QED BY <1>1, <1>2

(* A loop over 1..n with the state in A, whose step is G.                  *)
IsLoop(f, A, n, base, G) ==
  /\ f \in [0..n -> A]
  /\ f[0] = base
  /\ \A k \in 1..n : f[k] = G[<<k, f[k - 1]>>]

LEMMA Loop ==
  ASSUME NEW A, NEW n \in Nat, NEW base \in A, NEW G \in [(1..n) \X A -> A]
  PROVE  \E f : IsLoop(f, A, n, base, G)
<1> DEFINE Good(m, f) == f[0] = base /\ \A k \in 1..m : f[k] = G[<<k, f[k - 1]>>]
           S == {m \in 0..n : \E f \in [0..m -> A] : Good(m, f)}
<1>1. 0 \in S
  <2> DEFINE f == [k \in 0..0 |-> base]
  <2>1. f \in [0..0 -> A] /\ Good(0, f)
    OBVIOUS
  <2> HIDE DEF Good, f
  <2> QED BY <2>1
<1>2. ASSUME NEW m \in 0..(n - 1), m \in S PROVE m + 1 \in S
  <2>1. PICK f \in [0..m -> A] : Good(m, f)
    BY <1>2
  <2> DEFINE g == [k \in 0..(m + 1) |-> IF k = m + 1 THEN G[<<m + 1, f[m]>>] ELSE f[k]]
  <2>2. G[<<m + 1, f[m]>>] \in A
    <3>1. <<m + 1, f[m]>> \in (1..n) \X A
      OBVIOUS
    <3> QED BY <3>1
  <2>3. g \in [0..(m + 1) -> A]
    BY <2>2
  <2>4. g[0] = base
    BY <2>1
  <2>5. ASSUME NEW k \in 1..(m + 1) PROVE g[k] = G[<<k, g[k - 1]>>]
    <3>1. CASE k = m + 1
      <4>1. g[k] = G[<<m + 1, f[m]>>] /\ g[k - 1] = f[m] /\ k - 1 = m
        BY <3>1
      <4> QED BY <3>1, <4>1
    <3>2. CASE k \in 1..m
      BY <2>1, <3>2
    <3> QED BY <3>1, <3>2
  <2>6. Good(m + 1, g)
    BY <2>4, <2>5
  <2> HIDE DEF Good, g
  <2> QED BY <2>3, <2>6
<1> HIDE DEF S
<1>3. n \in S
  BY <1>1, <1>2, Induct
<1>4. PICK f \in [0..n -> A] : Good(n, f)
  BY <1>3 DEF S
<1>5. IsLoop(f, A, n, base, G)
  BY <1>4 DEF IsLoop
<1> QED BY <1>5

(* What each step of a loop preserves holds all the way.                   *)
LEMMA LoopPreserves ==
  ASSUME NEW A, NEW n \in Nat, NEW f, f[0] \in A,
         \A k \in 1..n : f[k - 1] \in A => f[k] \in A
  PROVE  \A k \in 0..n : f[k] \in A
<1> DEFINE S == {k \in 0..n : f[k] \in A}
<1>1. 0 \in S
  OBVIOUS
<1>2. ASSUME NEW k \in 0..(n - 1), k \in S PROVE k + 1 \in S
  <2>1. k + 1 \in 1..n /\ (k + 1) - 1 = k
    OBVIOUS
  <2> QED BY <1>2, <2>1
<1> HIDE DEF S
<1>3. \A k \in 0..n : k \in S
  BY <1>1, <1>2, Induct
<1> QED BY <1>3 DEF S

-----------------------------------------------------------------------------
(* strings.Fields.                                                         *)

Pieces == Tokens \ Spaces
Words  == Seq(Pieces) \ {<<>>}
Scans  == [words : Seq(Words), word : Seq(Pieces)]
Begun  == [words |-> <<>>, word |-> <<>>]

LEMMA FlushType ==
  ASSUME NEW acc \in Scans
  PROVE  Flush(acc) \in Seq(Words)
  BY DEF Flush, Scans, Words

LEMMA ScanType ==
  ASSUME NEW acc \in Scans, NEW x \in Tokens
  PROVE  Scan(acc, x) \in Scans
<1>1. CASE x \in Spaces
  <2>1. Scan(acc, x) = [words |-> Flush(acc), word |-> <<>>]
    BY <1>1 DEF Scan
  <2> QED BY <2>1, FlushType DEF Scans
<1>2. CASE x \notin Spaces
  <2>1. Append(acc.word, x) \in Seq(Pieces)
    BY <1>2 DEF Scans, Pieces
  <2> QED BY <1>2, <2>1 DEF Scan, Scans
<1> QED BY <1>1, <1>2

LEMMA ScannedDef ==
  ASSUME NEW s \in Texts
  PROVE  /\ Scanned(s) \in [0..Len(s) -> Scans]
         /\ Scanned(s)[0] = Begun
         /\ \A k \in 1..Len(s) : Scanned(s)[k] = Scan(Scanned(s)[k - 1], s[k])
         /\ \A k \in 0..Len(s) : Scanned(s)[k] \in Scans
<1> DEFINE n == Len(s)
           G == [p \in (1..n) \X Scans |-> Scan(p[2], s[p[1]])]
           Is(f) == f = [k \in 0..n |-> IF k = 0 THEN Begun ELSE Scan(f[k - 1], s[k])]
<1>0. n \in Nat /\ \A k \in 1..n : s[k] \in Tokens
  BY DEF Texts
<1>1. Begun \in Scans
  BY DEF Begun, Scans
<1>2. G \in [(1..n) \X Scans -> Scans]
  BY <1>0, ScanType
<1>3. PICK f : IsLoop(f, Scans, n, Begun, G)
  <2> HIDE DEF G, n
  <2>1. n \in Nat
    BY <1>0
  <2> QED BY <2>1, <1>1, <1>2, Loop
<1>4. ASSUME NEW k \in 1..n
      PROVE  f[k] = Scan(f[k - 1], s[k])
  <2>1. f[k] = G[<<k, f[k - 1]>>]
    BY <1>3 DEF IsLoop
  <2>2. f[k - 1] \in Scans
    BY <1>0, <1>3 DEF IsLoop
  <2> QED BY <2>1, <2>2
<1>5. Is(f)
  BY <1>0, <1>3, <1>4 DEF IsLoop
<1>6. Is(Scanned(s))
  BY <1>5 DEF Scanned, Begun
<1> DEFINE g == Scanned(s)
<1>7. /\ DOMAIN g = 0..n /\ g = [k \in 0..n |-> g[k]]
      /\ g[0] = Begun
      /\ \A k \in 1..n : g[k] = Scan(g[k - 1], s[k])
  <2>1. n \in Nat /\ g = [k \in 0..n |-> IF k = 0 THEN Begun ELSE Scan(g[k - 1], s[k])]
    BY <1>0, <1>6
  <2> HIDE DEF g, n
  <2>2. DOMAIN g = 0..n /\ g = [k \in 0..n |-> g[k]]
    BY <2>1
  <2>3. g[0] = Begun
    BY <2>1
  <2>4. \A k \in 1..n : g[k] = Scan(g[k - 1], s[k])
    BY <2>1
  <2> QED BY <2>2, <2>3, <2>4
<1>8. \A k \in 0..n : g[k] \in Scans
  <2> HIDE DEF g, n
  <2> QED BY <1>0, <1>1, <1>7, ScanType, LoopPreserves
<1> QED BY <1>7, <1>8

LEMMA FieldsType ==
  ASSUME NEW s \in Texts
  PROVE  Fields(s) \in Seq(Words)
<1>1. Scanned(s)[Len(s)] \in Scans
  BY ScannedDef DEF Texts
<1> QED BY <1>1, FlushType DEF Fields

(* A loop over texts that begin alike goes alike to begin with.            *)
LEMMA ScannedAlike ==
  ASSUME NEW s \in Texts, NEW t \in Texts, NEW n \in Nat, n <= Len(s), n <= Len(t),
         \A k \in 1..n : s[k] = t[k]
  PROVE  Scanned(s)[n] = Scanned(t)[n]
<1> DEFINE S == {k \in 0..n : Scanned(s)[k] = Scanned(t)[k]}
<1>1. 0 \in S
  BY ScannedDef
<1>2. ASSUME NEW k \in 0..(n - 1), k \in S PROVE k + 1 \in S
  <2>1. k + 1 \in 1..n /\ k + 1 \in 1..Len(s) /\ k + 1 \in 1..Len(t) /\ (k + 1) - 1 = k
    BY DEF Texts
  <2>2. /\ Scanned(s)[k + 1] = Scan(Scanned(s)[k], s[k + 1])
        /\ Scanned(t)[k + 1] = Scan(Scanned(t)[k], t[k + 1])
    BY <2>1, ScannedDef
  <2> QED BY <1>2, <2>1, <2>2
<1> HIDE DEF S
<1>3. \A k \in 0..n : k \in S
  BY <1>1, <1>2, Induct
<1> QED BY <1>3 DEF S

(* Words found before are carried along.                                   *)
After(words, acc) == [words |-> words \o acc.words, word |-> acc.word]

LEMMA FlushAfter ==
  ASSUME NEW words \in Seq(Words), NEW acc \in Scans
  PROVE  Flush(After(words, acc)) = words \o Flush(acc)
<1>1. acc.words \in Seq(Words) /\ (acc.word # <<>> => acc.word \in Words)
  BY DEF Scans, Words
<1>2. CASE acc.word = <<>>
  BY <1>2 DEF Flush, After
<1>3. CASE acc.word # <<>>
  <2>1. Append(words \o acc.words, acc.word) = words \o Append(acc.words, acc.word)
    BY <1>1, <1>3
  <2> QED BY <1>3, <2>1 DEF Flush, After
<1> QED BY <1>2, <1>3

LEMMA ScanAfter ==
  ASSUME NEW words \in Seq(Words), NEW acc \in Scans, NEW x
  PROVE  Scan(After(words, acc), x) = After(words, Scan(acc, x))
<1>1. CASE x \in Spaces
  BY <1>1, FlushAfter DEF Scan, After
<1>2. CASE x \notin Spaces
  BY <1>2 DEF Scan, After
<1> QED BY <1>1, <1>2

(* Two texts with a space between them.                                    *)
LEMMA SpacedText ==
  ASSUME NEW s \in Texts, NEW t \in Texts, NEW x \in Spaces
  PROVE  LET r == s \o <<x>> \o t
             n == Len(s)
         IN  /\ r \in Texts /\ n \in Nat /\ Len(t) \in Nat /\ Len(r) = n + 1 + Len(t)
             /\ \A k \in 1..n : r[k] = s[k]
             /\ r[n + 1] = x
             /\ \A k \in 1..Len(t) : r[n + 1 + k] = t[k]
<1> DEFINE u == s \o <<x>>
           n == Len(s)
<1>1. x \in Tokens /\ n \in Nat /\ Len(t) \in Nat
  BY CleanerConstants DEF Texts
<1>3. u \in Texts /\ Len(u) = n + 1 /\ u[n + 1] = x
  BY <1>1 DEF Texts
<1>4. \A k \in 1..n : u[k] = s[k]
  BY <1>1 DEF Texts
<1>5. s \o <<x>> \o t = u \o t
  OBVIOUS
<1> HIDE DEF u
<1>6. u \o t \in Texts /\ Len(u \o t) = n + 1 + Len(t)
  BY <1>1, <1>3 DEF Texts
<1>7. \A k \in 1..(n + 1) : (u \o t)[k] = u[k]
  BY <1>1, <1>3 DEF Texts
<1>8. \A k \in 1..Len(t) : (u \o t)[n + 1 + k] = t[k]
  BY <1>1, <1>3 DEF Texts
<1> HIDE DEF n
<1>9. ASSUME NEW k \in 1..n PROVE (u \o t)[k] = s[k]
  <2>1. k \in 1..(n + 1)
    BY <1>1
  <2> QED BY <2>1, <1>4, <1>7
<1>10. (u \o t)[n + 1] = x
  BY <1>1, <1>3, <1>7
<1> QED BY <1>1, <1>5, <1>6, <1>8, <1>9, <1>10 DEF n

Spaced(r, u, x, v) ==
  /\ r \in Texts /\ Len(r) = Len(u) + 1 + Len(v)
  /\ \A k \in 1..Len(u) : r[k] = u[k]
  /\ r[Len(u) + 1] = x
  /\ \A k \in 1..Len(v) : r[Len(u) + 1 + k] = v[k]

LEMMA SpacedParts ==
  ASSUME NEW u \in Texts, NEW v \in Texts, NEW x \in Spaces
  PROVE  Spaced(u \o <<x>> \o v, u, x, v)
  BY SpacedText DEF Spaced

LEMMA SpacedTwice ==
  ASSUME NEW s \in Texts, NEW t \in Texts, NEW u \in Texts, NEW x \in Spaces
  PROVE  (s \o <<x>> \o t) \o <<x>> \o u = s \o <<x>> \o (t \o <<x>> \o u)
<1>1. <<x>> \in Texts
  BY CleanerConstants DEF Texts
<1>2. s \o <<x>> \in Texts /\ <<x>> \o u \in Texts /\ t \o <<x>> \in Texts /\ s \o <<x>> \o t \in Texts
  BY <1>1, ConcatProperties DEF Texts
<1>3. (s \o <<x>> \o t) \o <<x>> \o u = (s \o <<x>> \o t) \o (<<x>> \o u)
  BY <1>1, <1>2, ConcatAssociative DEF Texts
<1>4. (s \o <<x>> \o t) \o (<<x>> \o u) = (s \o <<x>>) \o (t \o (<<x>> \o u))
  <2> DEFINE a == s \o <<x>>
             b == <<x>> \o u
  <2>1. a \in Texts /\ b \in Texts
    BY <1>2
  <2> HIDE DEF a, b
  <2>2. (a \o t) \o b = a \o (t \o b)
    BY <2>1, ConcatAssociative DEF Texts
  <2> QED BY <2>2 DEF a, b
<1>5. t \o (<<x>> \o u) = t \o <<x>> \o u
  BY <1>1, <1>2, ConcatAssociative DEF Texts
<1> QED BY <1>3, <1>4, <1>5

(* Where there is a space, a text falls into its words before and after.   *)
LEMMA FieldsSplit ==
  ASSUME NEW s \in Texts, NEW t \in Texts, NEW x \in Spaces
  PROVE  Fields(s \o <<x>> \o t) = Fields(s) \o Fields(t)
<1> DEFINE r == s \o <<x>> \o t
           n == Len(s)
           S == {k \in 0..Len(t) : Scanned(r)[n + 1 + k] = After(Fields(s), Scanned(t)[k])}
<1>1. /\ r \in Texts /\ n \in Nat /\ Len(t) \in Nat /\ Len(r) = n + 1 + Len(t)
      /\ \A k \in 1..n : r[k] = s[k]
      /\ r[n + 1] = x
      /\ \A k \in 1..Len(t) : r[n + 1 + k] = t[k]
  BY SpacedText
<1> HIDE DEF r
<1>2. Fields(s) \in Seq(Words)
  BY FieldsType
<1>3. 0 \in S
  <2>1. Scanned(r)[n] = Scanned(s)[n]
    <3>1. n <= Len(r) /\ n <= Len(s)
      BY <1>1
    <3> HIDE DEF n
    <3> QED BY <1>1, <3>1, ScannedAlike
  <2>2. n + 1 \in 1..Len(r) /\ (n + 1) - 1 = n
    BY <1>1
  <2>3. Scanned(r)[n + 1] = Scan(Scanned(r)[n], x)
    BY <1>1, <2>2, ScannedDef
  <2>4. Scanned(r)[n + 1] = [words |-> Fields(s), word |-> <<>>]
    BY <2>1, <2>3 DEF Scan, Fields
  <2>5. After(Fields(s), Scanned(t)[0]) = [words |-> Fields(s), word |-> <<>>]
    <3>1. Scanned(t)[0] = Begun /\ Fields(s) \o <<>> = Fields(s)
      BY <1>2, ScannedDef
    <3> QED BY <3>1 DEF After, Begun
  <2> QED BY <1>1, <2>4, <2>5
<1>4. ASSUME NEW k \in 0..(Len(t) - 1), k \in S PROVE k + 1 \in S
  <2>1. /\ k + 1 \in 1..Len(t) /\ (k + 1) - 1 = k
        /\ n + 1 + (k + 1) \in 1..Len(r) /\ (n + 1 + (k + 1)) - 1 = n + 1 + k
    BY <1>1
  <2>2. Scanned(r)[n + 1 + (k + 1)] = Scan(Scanned(r)[n + 1 + k], t[k + 1])
    BY <1>1, <2>1, ScannedDef
  <2>3. Scanned(t)[k + 1] = Scan(Scanned(t)[k], t[k + 1])
    BY <2>1, ScannedDef
  <2>0. Scanned(t)[k] \in Scans
    BY <1>1, ScannedDef
  <2>4. Scanned(r)[n + 1 + (k + 1)] = After(Fields(s), Scanned(t)[k + 1])
    BY <1>2, <1>4, <2>2, <2>3, <2>0, ScanAfter
  <2> QED BY <2>1, <2>4
<1> HIDE DEF S
<1>5. \A k \in 0..Len(t) : k \in S
  BY <1>1, <1>3, <1>4, Induct
<1>6. Scanned(r)[Len(r)] = After(Fields(s), Scanned(t)[Len(t)])
  BY <1>1, <1>5 DEF S
<1>7. Scanned(t)[Len(t)] \in Scans
  BY <1>1, ScannedDef
<1>8. Fields(r) = Fields(s) \o Fields(t)
  BY <1>2, <1>6, <1>7, FlushAfter DEF Fields
<1> QED BY <1>8 DEF r

LEMMA FieldsOfNothing == <<>> \in Texts /\ Fields(<<>>) = <<>>
<1>1. <<>> \in Texts /\ Len(<<>>) = 0
  BY DEF Texts
<1> QED BY <1>1, ScannedDef DEF Fields, Flush, Begun

(* A text of pieces only is one word.                                      *)
LEMMA FieldsOfWord ==
  ASSUME NEW w \in Words
  PROVE  w \in Texts /\ Fields(w) = <<w>>
<1>1. w \in Texts /\ Len(w) \in Nat /\ w # <<>> /\ \A k \in 1..Len(w) : w[k] \notin Spaces
  BY DEF Words, Pieces, Texts
<1> DEFINE S == {k \in 0..Len(w) : Scanned(w)[k] = [words |-> <<>>, word |-> SubSeq(w, 1, k)]}
<1>2. 0 \in S
  <2>1. SubSeq(w, 1, 0) = <<>>
    BY <1>1 DEF Texts
  <2> QED BY <1>1, <2>1, ScannedDef DEF Begun
<1>3. ASSUME NEW k \in 0..(Len(w) - 1), k \in S PROVE k + 1 \in S
  <2>1. k + 1 \in 1..Len(w) /\ (k + 1) - 1 = k
    BY <1>1
  <2>2. Scanned(w)[k + 1] = Scan(Scanned(w)[k], w[k + 1])
    BY <1>1, <2>1, ScannedDef
  <2>3. Append(SubSeq(w, 1, k), w[k + 1]) = SubSeq(w, 1, k + 1)
    BY <1>1, <2>1 DEF Texts
  <2>4. Scanned(w)[k] = [words |-> <<>>, word |-> SubSeq(w, 1, k)]
    BY <1>3
  <2>5. Scanned(w)[k + 1] = [words |-> <<>>, word |-> Append(SubSeq(w, 1, k), w[k + 1])]
    BY <1>1, <2>1, <2>2, <2>4 DEF Scan
  <2>6. k + 1 \in 0..Len(w)
    BY <1>1, <2>1
  <2> QED BY <2>3, <2>5, <2>6
<1> HIDE DEF S
<1>4. \A k \in 0..Len(w) : k \in S
  BY <1>1, <1>2, <1>3, Induct
<1>5. SubSeq(w, 1, Len(w)) = w
  BY <1>1 DEF Texts
<1>6. Scanned(w)[Len(w)] = [words |-> <<>>, word |-> w]
  BY <1>1, <1>4, <1>5 DEF S
<1>7. Append(<<>>, w) = <<w>>
  OBVIOUS
<1> QED BY <1>1, <1>6, <1>7 DEF Fields, Flush

(* Only a blank text has no words.                                         *)
LEMMA FieldsOfBlank ==
  ASSUME NEW s \in Texts
  PROVE  Fields(s) = <<>> <=> IsBlank(s)
<1> DEFINE Only(k) == \A i \in 1..k : s[i] \in Spaces
           S == {k \in 0..Len(s) : Scanned(s)[k] = Begun <=> Only(k)}
<1>0. Len(s) \in Nat /\ \A k \in 1..Len(s) : s[k] \in Tokens
  BY DEF Texts
<1>1. 0 \in S
  BY <1>0, ScannedDef
<1>2. ASSUME NEW k \in 0..(Len(s) - 1), k \in S PROVE k + 1 \in S
  <2>1. k + 1 \in 1..Len(s) /\ (k + 1) - 1 = k /\ k \in 0..Len(s)
    BY <1>0
  <2> DEFINE acc == Scanned(s)[k]
  <2>2. Scanned(s)[k + 1] = Scan(acc, s[k + 1]) /\ acc \in Scans
    BY <2>1, ScannedDef
  <2>3. Only(k + 1) <=> Only(k) /\ s[k + 1] \in Spaces
    BY <2>1
  <2> HIDE DEF acc
  <2>4. Scan(acc, s[k + 1]) = Begun <=> acc = Begun /\ s[k + 1] \in Spaces
    <3>1. CASE s[k + 1] \in Spaces
      BY <2>2, <3>1 DEF Scan, Flush, Begun, Scans
    <3>2. CASE s[k + 1] \notin Spaces
      <4>1. Append(acc.word, s[k + 1]) # <<>>
        BY <1>0, <2>1, <2>2 DEF Scans, Pieces
      <4> QED BY <3>2, <4>1 DEF Scan, Begun
    <3> QED BY <3>1, <3>2
  <2> QED BY <1>2, <2>1, <2>2, <2>3, <2>4 DEF acc
<1> HIDE DEF S
<1>3. \A k \in 0..Len(s) : k \in S
  BY <1>0, <1>1, <1>2, Induct
<1>4. Scanned(s)[Len(s)] = Begun <=> Only(Len(s))
  BY <1>0, <1>3 DEF S
<1>5. Only(Len(s)) <=> IsBlank(s)
  BY DEF IsBlank, Body, Texts
<1> DEFINE acc == Scanned(s)[Len(s)]
<1>6. acc \in Scans
  BY <1>0, ScannedDef
<1> HIDE DEF acc
<1>7. Flush(acc) = <<>> <=> acc = Begun
  <2>1. Append(acc.words, acc.word) # <<>>
    BY <1>6 DEF Scans
  <2> QED BY <1>6, <2>1 DEF Flush, Scans, Begun
<1> QED BY <1>4, <1>5, <1>7 DEF acc, Fields

(* The rest of a text after a space, and the text before it.               *)
LEMMA FieldsBefore ==
  ASSUME NEW t \in Texts, NEW x \in Spaces
  PROVE  Fields(t \o <<x>>) = Fields(t) /\ Fields(<<x>> \o t) = Fields(t)
<1>1. <<>> \in Texts /\ Fields(<<>>) = <<>> /\ Fields(t) \in Seq(Words)
  BY FieldsOfNothing, FieldsType
<1>2. Fields(t \o <<x>> \o <<>>) = Fields(t) \o <<>>
  BY <1>1, FieldsSplit
<1>5. Fields(<<>> \o <<x>> \o t) = <<>> \o Fields(t)
  <2>1. Fields(<<>> \o <<x>> \o t) = Fields(<<>>) \o Fields(t)
    BY <1>1, FieldsSplit
  <2> QED BY <2>1, <1>1
<1>3. t \o <<x>> \o <<>> = t \o <<x>> /\ <<>> \o <<x>> \o t = <<x>> \o t
  <2>1. x \in Tokens
    BY CleanerConstants
  <2>2. <<x>> \in Texts /\ t \o <<x>> \in Texts
    BY <2>1 DEF Texts
  <2>3. <<>> \o <<x>> = <<x>>
    BY <2>2 DEF Texts
  <2>4. (t \o <<x>>) \o <<>> = t \o <<x>>
    BY <2>2 DEF Texts
  <2> QED BY <2>3, <2>4
<1>4. Fields(t) \o <<>> = Fields(t) /\ <<>> \o Fields(t) = Fields(t)
  BY <1>1
<1> QED BY <1>2, <1>3, <1>4, <1>5

-----------------------------------------------------------------------------
(* strings.Join.                                                           *)

(* What Join puts between words.                                           *)
Gap == " "

LEMMA GapIsSpace == Gap \in Spaces
  BY DEF Gap, Spaces

LEMMA WordsAreTexts == Words \subseteq Texts
  BY DEF Words, Pieces, Texts

LEMMA JoinedDef ==
  ASSUME NEW words \in Seq(Words)
  PROVE  /\ Joined(words)[0] = <<>>
         /\ Len(words) >= 1 => Joined(words)[1] = words[1]
         /\ \A k \in 2..Len(words) :
              Joined(words)[k] = Joined(words)[k - 1] \o <<Gap>> \o words[k]
         /\ \A k \in 0..Len(words) : Joined(words)[k] \in Texts
<1> DEFINE n == Len(words)
           Step(k, s) == IF k = 1 THEN words[1] ELSE s \o <<Gap>> \o words[k]
           G == [p \in (1..n) \X Texts |-> Step(p[1], p[2])]
           Is(f) == f = [k \in 0..n |-> IF k = 0 THEN <<>> ELSE Step(k, f[k - 1])]
<1>0. n \in Nat /\ \A k \in 1..n : words[k] \in Texts
  BY WordsAreTexts
<1>1. <<>> \in Texts
  BY DEF Texts
<1>2. ASSUME NEW k \in 1..n, NEW s \in Texts PROVE Step(k, s) \in Texts
  <2>1. 1 \in 1..n /\ words[1] \in Texts /\ words[k] \in Texts
    BY <1>0
  <2> HIDE DEF n
  <2>2. s \o <<Gap>> \o words[k] \in Texts
    <3> QED BY <2>1, GapIsSpace, SpacedText
  <2> QED BY <2>1, <2>2
<1>3. G \in [(1..n) \X Texts -> Texts]
  <2> HIDE DEF n, Step
  <2> QED BY <1>2
<1>4. PICK f : IsLoop(f, Texts, n, <<>>, G)
  <2> HIDE DEF G, n
  <2>1. n \in Nat
    BY <1>0
  <2> QED BY <2>1, <1>1, <1>3, Loop
<1>5. ASSUME NEW k \in 1..n
      PROVE  f[k] = Step(k, f[k - 1])
  <2> HIDE DEF Step
  <2>1. f[k] = G[<<k, f[k - 1]>>]
    BY <1>4 DEF IsLoop
  <2>2. f[k - 1] \in Texts
    BY <1>0, <1>4 DEF IsLoop
  <2> QED BY <2>1, <2>2
<1>6. Is(f)
  <2> HIDE DEF Step
  <2> QED BY <1>0, <1>4, <1>5 DEF IsLoop
<1>7. Is(Joined(words))
  BY <1>6 DEF Joined, Gap
<1> DEFINE g == Joined(words)
<1> HIDE DEF g
<1>8. g = [k \in 0..n |-> IF k = 0 THEN <<>> ELSE Step(k, g[k - 1])]
  BY <1>7 DEF g
<1> HIDE DEF Step, n
<1>9. g[0] = <<>>
  BY <1>0, <1>8
<1>10. \A k \in 1..n : g[k] = Step(k, g[k - 1])
  BY <1>0, <1>8
<1>11. \A k \in 0..n : g[k] \in Texts
  BY <1>0, <1>1, <1>2, <1>9, <1>10, LoopPreserves
<1>12. n >= 1 => g[1] = words[1]
  <2>1. n >= 1 => 1 \in 1..n
    BY <1>0
  <2> QED BY <2>1, <1>10 DEF Step
<1>13. ASSUME NEW k \in 2..n PROVE g[k] = g[k - 1] \o <<Gap>> \o words[k]
  <2>1. k \in 1..n /\ k # 1
    BY <1>0
  <2> QED BY <2>1, <1>10 DEF Step
<1> QED BY <1>9, <1>11, <1>12, <1>13 DEF g, n

LEMMA JoinType ==
  ASSUME NEW words \in Seq(Words)
  PROVE  Join(words) \in Texts
<1>1. Len(words) \in 0..Len(words)
  OBVIOUS
<1> QED BY <1>1, JoinedDef DEF Join

LEMMA JoinOfNothing == Join(<<>>) = <<>>
<1>1. <<>> \in Seq(Words) /\ Len(<<>>) = 0
  OBVIOUS
<1> QED BY <1>1, JoinedDef DEF Join

(* Fields gives back what has been joined.                                 *)
LEMMA FieldsOfJoin ==
  ASSUME NEW words \in Seq(Words)
  PROVE  Fields(Join(words)) = words
<1> DEFINE n == Len(words)
           S == {k \in 0..n : Fields(Joined(words)[k]) = SubSeq(words, 1, k)}
<1>0. n \in Nat /\ \A k \in 1..n : words[k] \in Words
  OBVIOUS
<1>1. 0 \in S
  <2>1. Joined(words)[0] = <<>>
    BY JoinedDef
  <2>2. SubSeq(words, 1, 0) = <<>>
    OBVIOUS
  <2>3. Fields(Joined(words)[0]) = SubSeq(words, 1, 0)
    BY <2>1, <2>2, FieldsOfNothing
  <2> QED BY <1>0, <2>3
<1>2. ASSUME NEW k \in 0..(n - 1), k \in S PROVE k + 1 \in S
  <2>1. k + 1 \in 1..n /\ words[k + 1] \in Words /\ Fields(words[k + 1]) = <<words[k + 1]>>
    BY <1>0, FieldsOfWord
  <2>2. SubSeq(words, 1, k + 1) = SubSeq(words, 1, k) \o <<words[k + 1]>>
    BY <2>1
  <2>3. CASE k = 0
    <3>1. SubSeq(words, 1, k) = <<>> /\ <<>> \o <<words[k + 1]>> = <<words[k + 1]>>
      BY <2>1, <2>3
    <3>2. Joined(words)[k + 1] = words[k + 1]
      <4>1. n >= 1 => Joined(words)[1] = words[1]
        BY JoinedDef
      <4> QED BY <4>1, <2>1, <2>3
    <3>3. Fields(Joined(words)[k + 1]) = SubSeq(words, 1, k + 1)
      BY <2>1, <2>2, <3>1, <3>2
    <3> QED BY <2>1, <3>3
  <2>4. CASE k # 0
    <3>1. k + 1 \in 2..n /\ (k + 1) - 1 = k /\ k \in 0..n
      BY <1>0, <2>4
    <3>2. Joined(words)[k] \in Texts /\ words[k + 1] \in Texts
      BY <2>1, <3>1, JoinedDef, WordsAreTexts
    <3>3. Joined(words)[k + 1] = Joined(words)[k] \o <<Gap>> \o words[k + 1]
      BY <3>1, JoinedDef
    <3>4. Fields(Joined(words)[k + 1]) = Fields(Joined(words)[k]) \o Fields(words[k + 1])
      BY <3>2, <3>3, GapIsSpace, FieldsSplit
    <3>5. Fields(Joined(words)[k + 1]) = SubSeq(words, 1, k + 1)
      BY <1>2, <2>1, <2>2, <3>4
    <3> QED BY <2>1, <3>5
  <2> QED BY <2>3, <2>4
<1> HIDE DEF S
<1>3. \A k \in 0..n : k \in S
  BY <1>0, <1>1, <1>2, Induct
<1>4. SubSeq(words, 1, n) = words
  OBVIOUS
<1> QED BY <1>0, <1>3, <1>4 DEF S, Join

(* A joined text is empty only if there are no words, and then it is not   *)
(* blank.                                                                  *)
LEMMA JoinOfSome ==
  ASSUME NEW words \in Seq(Words), words # <<>>
  PROVE  Join(words) # <<>> /\ ~IsBlank(Join(words))
<1>1. Fields(Join(words)) # <<>> /\ Join(words) \in Texts
  BY FieldsOfJoin, JoinType
<1> QED BY <1>1, FieldsOfNothing, FieldsOfBlank

(* The text of the first words is where that of all of them begins.        *)
LEMMA JoinedAlike ==
  ASSUME NEW v \in Seq(Words), NEW w \in Seq(Words), NEW n \in Nat,
         n <= Len(v), n <= Len(w), \A k \in 1..n : v[k] = w[k]
  PROVE  Joined(v)[n] = Joined(w)[n]
<1> DEFINE S == {k \in 0..n : Joined(v)[k] = Joined(w)[k]}
<1>0. Len(v) \in Nat /\ Len(w) \in Nat
  OBVIOUS
<1>1. 0 \in S
  <2>1. Joined(v)[0] = <<>>
    BY JoinedDef
  <2>2. Joined(w)[0] = <<>>
    BY JoinedDef
  <2> QED BY <2>1, <2>2
<1>2. ASSUME NEW k \in 0..(n - 1), k \in S PROVE k + 1 \in S
  <2>1. k + 1 \in 1..n /\ v[k + 1] = w[k + 1]
    OBVIOUS
  <2>2. CASE k = 0
    <3>0. Len(v) >= 1 /\ Len(w) >= 1
      BY <1>0, <2>1, <2>2
    <3>1. Joined(v)[1] = v[1]
      BY <3>0, JoinedDef
    <3>2. Joined(w)[1] = w[1]
      BY <3>0, JoinedDef
    <3> QED BY <2>1, <2>2, <3>1, <3>2
  <2>3. CASE k # 0
    <3>1. k + 1 \in 2..Len(v) /\ k + 1 \in 2..Len(w) /\ (k + 1) - 1 = k
      BY <1>0, <2>3
    <3>2. Joined(v)[k + 1] = Joined(v)[k] \o <<Gap>> \o v[k + 1]
      BY <3>1, JoinedDef
    <3>3. Joined(w)[k + 1] = Joined(w)[k] \o <<Gap>> \o w[k + 1]
      BY <3>1, JoinedDef
    <3>4. Joined(v)[k + 1] = Joined(w)[k + 1]
      BY <1>2, <2>1, <3>2, <3>3
    <3> QED BY <2>1, <3>4
  <2> QED BY <2>2, <2>3
<1> HIDE DEF S
<1>3. \A k \in 0..n : k \in S
  BY <1>1, <1>2, Induct
<1> QED BY <1>3 DEF S

LEMMA JoinBegins ==
  ASSUME NEW words \in Seq(Words), NEW m \in Nat, 0 < m, m < Len(words)
  PROVE  \E t \in Texts : Join(words) = Joined(words)[m] \o <<Gap>> \o t
<1> DEFINE n == Len(words)
           J == Joined(words)
           Goes(k) == \E t \in Texts : J[k] = J[m] \o <<Gap>> \o t
           S == {k \in 0..n : m < k => Goes(k)}
<1>0. n \in Nat
  OBVIOUS
<1>1. ASSUME NEW k \in 1..n PROVE words[k] \in Texts
  <2>1. words[k] \in Words
    BY <1>1
  <2> QED BY <2>1, WordsAreTexts
<1>2. ASSUME NEW k \in 0..n PROVE J[k] \in Texts
  BY <1>2, JoinedDef
<1>3. ASSUME NEW k \in 2..n PROVE J[k] = J[k - 1] \o <<Gap>> \o words[k]
  BY <1>3, JoinedDef
<1> HIDE DEF J, n, Goes
<1>4. 0 \in S
  BY <1>0
<1>5. ASSUME NEW k \in 0..(n - 1), k \in S PROVE k + 1 \in S
  <2>1. CASE m < k + 1
    <3>1. /\ k + 1 \in 2..n /\ k + 1 \in 1..n /\ k \in 0..n /\ m \in 0..n /\ (k + 1) - 1 = k
          /\ k = m \/ m < k
      BY <1>0, <2>1 DEF n
    <3>2. J[k + 1] = J[k] \o <<Gap>> \o words[k + 1]
      BY <1>3, <3>1
    <3>3. words[k + 1] \in Texts /\ J[k] \in Texts /\ J[m] \in Texts
      BY <1>1, <1>2, <3>1
    <3>4. CASE k = m
      <4>1. Goes(k + 1)
        BY <3>2, <3>3, <3>4 DEF Goes
      <4> QED BY <3>1, <4>1
    <3>5. CASE m < k
      <4>1. PICK t \in Texts : J[k] = J[m] \o <<Gap>> \o t
        BY <1>5, <3>5 DEF Goes
      <4>2. J[k + 1] = J[m] \o <<Gap>> \o (t \o <<Gap>> \o words[k + 1])
        <5> DEFINE a == J[m]
                   w == words[k + 1]
        <5>1. a \in Texts /\ w \in Texts
          BY <3>3
        <5> HIDE DEF a, w
        <5>2. (a \o <<Gap>> \o t) \o <<Gap>> \o w = a \o <<Gap>> \o (t \o <<Gap>> \o w)
          BY <5>1, GapIsSpace, SpacedTwice
        <5> QED BY <3>2, <4>1, <5>2 DEF a, w
      <4>3. t \o <<Gap>> \o words[k + 1] \in Texts
        BY <3>3, GapIsSpace, SpacedText
      <4>4. Goes(k + 1)
        BY <4>2, <4>3 DEF Goes
      <4> QED BY <3>1, <4>4
    <3> QED BY <3>1, <3>4, <3>5
  <2>2. CASE ~(m < k + 1)
    BY <1>0, <2>2
  <2> QED BY <2>1, <2>2
<1> HIDE DEF S
<1>6. \A k \in 0..n : k \in S
  BY <1>0, <1>4, <1>5, Induct
<1>7. n \in S /\ m < n
  BY <1>0, <1>6 DEF n
<1>8. Goes(n)
  BY <1>7 DEF S
<1> QED BY <1>8 DEF Goes, J, n, Join

-----------------------------------------------------------------------------
(* strings.TrimSpace.                                                      *)

LEMMA Greatest ==
  ASSUME NEW S \in SUBSET Nat, S # {}, NEW n \in Nat, \A k \in S : k <= n
  PROVE  \E m \in S : \A k \in S : k <= m
<1> DEFINE T == {i \in 0..n : n - i \in S}
<1>1. \A k \in S : n - k \in T /\ n - (n - k) = k
  OBVIOUS
<1>2. T \in SUBSET Nat /\ T # {}
  <2>1. PICK k \in S : TRUE
    OBVIOUS
  <2>2. n - k \in T
    BY <1>1
  <2> QED BY <2>2
<1>3. PICK i \in T : \A j \in T : i <= j
  BY <1>2, Least
<1>4. ASSUME NEW k \in S PROVE k <= n - i
  <2>1. i <= n - k /\ i \in Nat /\ k \in Nat
    BY <1>1, <1>3
  <2> QED BY <2>1
<1> QED BY <1>3, <1>4

(* A text falls apart at any of its spaces.                                *)
LEMMA SplitAt ==
  ASSUME NEW s \in Texts, NEW k \in 1..Len(s), s[k] \in Spaces
  PROVE  Fields(s) = Fields(SubSeq(s, 1, k - 1)) \o Fields(SubSeq(s, k + 1, Len(s)))
<1> DEFINE u == SubSeq(s, 1, k - 1)
           v == SubSeq(s, k + 1, Len(s))
           x == s[k]
           r == u \o <<x>> \o v
<1>0. x \in Spaces
  OBVIOUS
<1>1. /\ u \in Texts /\ Len(u) = k - 1 /\ \A i \in 1..(k - 1) : u[i] = s[i]
      /\ v \in Texts /\ Len(v) = Len(s) - k /\ \A i \in 1..(Len(s) - k) : v[i] = s[k + i]
      /\ Len(s) \in Nat
  BY DEF Texts
<1> HIDE DEF u, v, x
<1>s. Spaced(r, u, x, v)
  <2>1. u \in Texts /\ v \in Texts
    BY <1>1
  <2> QED BY <1>0, <2>1, SpacedParts
<1>2. /\ r \in Texts /\ Len(r) = Len(u) + 1 + Len(v)
      /\ \A i \in 1..Len(u) : r[i] = u[i]
      /\ r[Len(u) + 1] = x
      /\ \A i \in 1..Len(v) : r[Len(u) + 1 + i] = v[i]
  <2> HIDE DEF r
  <2> QED BY <1>s DEF Spaced
<1> HIDE DEF r
<1>3. Len(r) = Len(s)
  BY <1>1, <1>2
<1>4. ASSUME NEW i \in 1..Len(r) PROVE r[i] = s[i]
  <2>1. CASE i < k
    BY <1>1, <1>2, <2>1
  <2>2. CASE i = k
    BY <1>1, <1>2, <2>2 DEF x
  <2>3. CASE i > k
    <3>1. i - k \in 1..Len(v) /\ Len(u) + 1 + (i - k) = i /\ k + (i - k) = i
      BY <1>1, <1>3, <2>3
    <3> QED BY <1>1, <1>2, <3>1
  <2> QED BY <2>1, <2>2, <2>3
<1>5. r = s
  BY <1>2, <1>3, <1>4, SeqEqual DEF Texts
<1>6. Fields(r) = Fields(u) \o Fields(v)
  BY <1>0, <1>1, FieldsSplit DEF r
<1> QED BY <1>5, <1>6 DEF u, v

(* Spaces before and after the words make no difference.                   *)
LEMMA FieldsFrom ==
  ASSUME NEW s \in Texts, NEW i \in 1..(Len(s) + 1), \A k \in 1..(i - 1) : s[k] \in Spaces
  PROVE  SubSeq(s, i, Len(s)) \in Texts /\ Fields(SubSeq(s, i, Len(s))) = Fields(s)
<1> DEFINE u == SubSeq(s, 1, (i - 1) - 1)
           v == SubSeq(s, i, Len(s))
<1>1. v \in Texts /\ Len(s) \in Nat
  BY DEF Texts
<1>2. CASE i = 1
  <2>1. v = s
    BY <1>2 DEF Texts
  <2> QED BY <1>1, <2>1
<1>3. CASE i # 1
  <2>1. i - 1 \in 1..Len(s) /\ (i - 1) + 1 = i /\ i - 1 \in 1..(i - 1)
    BY <1>1, <1>3
  <2>2. Fields(s) = Fields(u) \o Fields(v)
    BY <2>1, SplitAt
  <2>3. u \in Texts /\ DOMAIN u = 1..(i - 2) /\ \A k \in 1..(i - 2) : u[k] = s[k]
    BY <1>1, <2>1 DEF Texts
  <2> HIDE DEF u, v
  <2>4. IsBlank(u)
    BY <2>3 DEF IsBlank, Body
  <2>5. Fields(u) = <<>> /\ Fields(v) \in Seq(Words)
    BY <1>1, <2>3, <2>4, FieldsOfBlank, FieldsType
  <2>6. Fields(v) = Fields(s)
    BY <2>2, <2>5
  <2> QED BY <1>1, <2>6 DEF v
<1> QED BY <1>2, <1>3

LEMMA FieldsUpTo ==
  ASSUME NEW s \in Texts, NEW j \in 0..Len(s), \A k \in (j + 1)..Len(s) : s[k] \in Spaces
  PROVE  SubSeq(s, 1, j) \in Texts /\ Fields(SubSeq(s, 1, j)) = Fields(s)
<1> DEFINE u == SubSeq(s, 1, j)
           v == SubSeq(s, (j + 1) + 1, Len(s))
<1>1. u \in Texts /\ Len(s) \in Nat
  BY DEF Texts
<1>2. CASE j = Len(s)
  <2>1. u = s
    BY <1>2 DEF Texts
  <2> QED BY <1>1, <2>1
<1>3. CASE j # Len(s)
  <2>1. j + 1 \in 1..Len(s) /\ (j + 1) - 1 = j /\ j + 1 \in (j + 1)..Len(s)
    BY <1>1, <1>3
  <2>2. Fields(s) = Fields(u) \o Fields(v)
    BY <2>1, SplitAt
  <2>3. /\ v \in Texts /\ DOMAIN v = 1..(Len(s) - (j + 1))
        /\ \A k \in 1..(Len(s) - (j + 1)) : v[k] = s[j + 1 + k]
    BY <1>1, <2>1 DEF Texts
  <2> HIDE DEF u, v
  <2>4. IsBlank(v)
    <3>1. ASSUME NEW k \in 1..(Len(s) - (j + 1)) PROVE v[k] \in Spaces
      <4>1. j + 1 + k \in (j + 1)..Len(s)
        BY <1>1
      <4> QED BY <2>3, <4>1
    <3> QED BY <2>3, <3>1 DEF IsBlank, Body
  <2>5. Fields(v) = <<>> /\ Fields(u) \in Seq(Words)
    BY <1>1, <2>3, <2>4, FieldsOfBlank, FieldsType
  <2>6. Fields(u) = Fields(s)
    BY <2>2, <2>5
  <2> QED BY <1>1, <2>6 DEF u
<1> QED BY <1>2, <1>3

(* A trimmed text has the same words.                                      *)
LEMMA FieldsOfTrim ==
  ASSUME NEW s \in Texts
  PROVE  TrimSpace(s) \in Texts /\ Fields(TrimSpace(s)) = Fields(s)
<1>0. Len(s) \in Nat /\ DOMAIN s = 1..Len(s)
  BY DEF Texts
<1>1. CASE IsBlank(s)
  BY <1>1, FieldsOfNothing, FieldsOfBlank DEF TrimSpace
<1>2. CASE ~IsBlank(s)
  <2> DEFINE B == Body(s)
             i == Min(B)
             j == Max(B)
  <2>1. B \in SUBSET Nat /\ B # {} /\ B \subseteq 1..Len(s) /\ \A k \in B : k <= Len(s)
    BY <1>0, <1>2 DEF Body, IsBlank
  <2>a. \A k \in (1..Len(s)) \ B : s[k] \in Spaces
    BY <1>0 DEF Body
  <2> HIDE DEF B
  <2>2. i \in B /\ \A k \in B : i <= k
    <3>1. \E k \in B : \A m \in B : k <= m
      BY <2>1, Least
    <3> QED BY <3>1 DEF Min
  <2>3. j \in B /\ \A k \in B : j >= k
    <3>1. \E k \in B : \A m \in B : m <= k
      BY <1>0, <2>1, Greatest
    <3>2. \E k \in B : \A m \in B : k >= m
      BY <2>1, <3>1
    <3> QED BY <3>2 DEF Max
  <2>4. TrimSpace(s) = SubSeq(s, i, j)
    BY <1>2 DEF TrimSpace, B
  <2> HIDE DEF i, j
  <2>5. i \in 1..Len(s) /\ j \in 1..Len(s) /\ i <= j
    BY <2>1, <2>2, <2>3
  <2>6. ASSUME NEW k \in 1..(i - 1) PROVE s[k] \in Spaces
    <3>1. k \in 1..Len(s) /\ k \notin B
      BY <1>0, <2>2, <2>5
    <3> QED BY <3>1, <2>a
  <2>7. ASSUME NEW k \in (j + 1)..Len(s) PROVE s[k] \in Spaces
    <3>1. k \in 1..Len(s) /\ k \notin B
      BY <1>0, <2>3, <2>5
    <3> QED BY <3>1, <2>a
  <2> DEFINE u == SubSeq(s, 1, j)
  <2>8. /\ u \in Texts /\ Fields(u) = Fields(s)
        /\ Len(u) = j /\ \A k \in 1..j : u[k] = s[k]
    <3>1. j \in 0..Len(s)
      BY <2>5
    <3>2. u \in Texts /\ Fields(u) = Fields(s)
      BY <2>7, <3>1, FieldsUpTo
    <3> QED BY <2>5, <3>2 DEF Texts
  <2>9. SubSeq(u, i, j) = SubSeq(s, i, j)
    BY <1>0, <2>5 DEF Texts
  <2> HIDE DEF u
  <2>10. SubSeq(u, i, Len(u)) \in Texts /\ Fields(SubSeq(u, i, Len(u))) = Fields(u)
    <3>1. i \in 1..(Len(u) + 1) /\ \A k \in 1..(i - 1) : u[k] \in Spaces
      BY <2>5, <2>6, <2>8
    <3> QED BY <2>8, <3>1, FieldsFrom
  <2> QED BY <2>4, <2>8, <2>9, <2>10
<1> QED BY <1>1, <1>2

(* What trimming and collapsing make of a text: its words, joined.         *)
LEMMA TidyText ==
  ASSUME NEW s \in Texts
  PROVE  /\ CollapseWhitespace(s) = Join(Fields(s)) /\ CollapseWhitespace(s) \in Texts
         /\ CollapseWhitespace(TrimSpace(s)) = Join(Fields(s))
         /\ CollapseWhitespace(CollapseWhitespace(s)) = CollapseWhitespace(s)
         /\ Fields(CollapseWhitespace(s)) = Fields(s)
<1>1. Fields(s) \in Seq(Words)
  BY FieldsType
<1>2. Fields(Join(Fields(s))) = Fields(s) /\ Join(Fields(s)) \in Texts
  BY <1>1, FieldsOfJoin, JoinType
<1>3. Fields(TrimSpace(s)) = Fields(s)
  BY FieldsOfTrim
<1> QED BY <1>2, <1>3 DEF CollapseWhitespace

-----------------------------------------------------------------------------
(* The rules.                                                              *)

Replaced == [out : Texts, next : Nat]

LEMMA ReplacingDef ==
  ASSUME NEW s \in Texts, NEW pattern \in Texts, NEW new \in Texts
  PROVE  /\ Replacing(s, pattern, new)[0] = [out |-> <<>>, next |-> 1]
         /\ \A k \in 0..Len(s) : Replacing(s, pattern, new)[k] \in Replaced
<1> DEFINE n == Len(s)
           At(k) == IsPrefix(pattern, SubSeq(s, k, Len(s)))
           Step(k, acc) ==
             IF k < acc.next THEN acc
             ELSE IF At(k) THEN [out |-> acc.out \o new, next |-> k + Len(pattern)]
             ELSE [out |-> Append(acc.out, s[k]), next |-> k + 1]
           base == [out |-> <<>>, next |-> 1]
           G == [p \in (1..n) \X Replaced |-> Step(p[1], p[2])]
           Is(f) == f = [k \in 0..n |-> IF k = 0 THEN base ELSE Step(k, f[k - 1])]
<1>0. n \in Nat /\ Len(pattern) \in Nat /\ \A k \in 1..n : s[k] \in Tokens
  BY DEF Texts
<1>1. base \in Replaced
  BY DEF Replaced, Texts
<1>2. ASSUME NEW k \in 1..n, NEW acc \in Replaced PROVE Step(k, acc) \in Replaced
  <2>1. acc.out \in Texts /\ acc.out \o new \in Texts /\ Append(acc.out, s[k]) \in Texts
    BY <1>0 DEF Replaced, Texts
  <2> HIDE DEF At
  <2> QED BY <1>0, <2>1 DEF Replaced
<1> HIDE DEF At
<1>3. G \in [(1..n) \X Replaced -> Replaced]
  <2> HIDE DEF n, Step
  <2> QED BY <1>2
<1>4. PICK f : IsLoop(f, Replaced, n, base, G)
  <2> HIDE DEF G, n, base
  <2>1. n \in Nat
    BY <1>0
  <2> QED BY <2>1, <1>1, <1>3, Loop
<1>5. ASSUME NEW k \in 1..n
      PROVE  f[k] = Step(k, f[k - 1])
  <2> HIDE DEF Step
  <2>1. f[k] = G[<<k, f[k - 1]>>]
    BY <1>4 DEF IsLoop
  <2>2. f[k - 1] \in Replaced
    BY <1>0, <1>4 DEF IsLoop
  <2> QED BY <2>1, <2>2
<1>6. Is(f)
  <2> HIDE DEF Step, base
  <2> QED BY <1>0, <1>4, <1>5 DEF IsLoop
<1>7. Is(Replacing(s, pattern, new))
  BY <1>6 DEF Replacing, At
<1> DEFINE g == Replacing(s, pattern, new)
<1> HIDE DEF g
<1>8. g = [k \in 0..n |-> IF k = 0 THEN base ELSE Step(k, g[k - 1])]
  BY <1>7 DEF g
<1> HIDE DEF Step, n, base
<1>9. g[0] = base
  BY <1>0, <1>8
<1>10. \A k \in 1..n : g[k] = Step(k, g[k - 1])
  BY <1>0, <1>8
<1>11. \A k \in 0..n : g[k] \in Replaced
  BY <1>0, <1>1, <1>2, <1>9, <1>10, LoopPreserves
<1> QED BY <1>9, <1>11 DEF g, n, base

LEMMA ReplaceType ==
  ASSUME NEW s \in Texts, NEW pattern \in Texts, NEW new \in Texts
  PROVE  ReplaceEach(s, pattern, new) \in Texts
<1>1. Len(s) \in 0..Len(s)
  BY DEF Texts
<1>2. Replacing(s, pattern, new)[Len(s)] \in Replaced
  BY <1>1, ReplacingDef
<1> QED BY <1>2 DEF ReplaceEach, Replaced

(* Rules make texts of texts,                                              *)
LEMMA ApplyRuleType ==
  ASSUME NEW r \in Rules, NEW s \in Texts
  PROVE  ApplyRule(r, s) \in Texts
<1>1. r.pattern \in Texts /\ r.replacement \in Texts /\ Len(r.pattern) \in Nat /\ Len(s) \in Nat
  BY DEF Rules, Texts
<1>2. TrimSpace(s) \in Texts /\ CollapseWhitespace(s) \in Texts
  BY FieldsOfTrim, TidyText
<1>3. ReplaceEach(s, r.pattern, r.replacement) \in Texts
  BY <1>1, ReplaceType
<1>4. /\ SubSeq(s, Len(r.pattern) + 1, Len(s)) \in Texts
      /\ SubSeq(s, 1, Len(s) - Len(r.pattern)) \in Texts
  <2> DEFINE m == Len(r.pattern)
  <2>1. m \in Nat
    BY <1>1
  <2> HIDE DEF m
  <2>2. \A k \in (m + 1)..Len(s) : s[k] \in Tokens
    BY <1>1, <2>1 DEF Texts
  <2>3. \A k \in 1..(Len(s) - m) : s[k] \in Tokens
    BY <1>1, <2>1 DEF Texts
  <2>4. SubSeq(s, m + 1, Len(s)) \in Texts
    BY <1>1, <2>1, <2>2, SubSeqProperties DEF Texts
  <2>5. SubSeq(s, 1, Len(s) - m) \in Texts
    BY <1>1, <2>1, <2>3, SubSeqProperties DEF Texts
  <2> QED BY <2>4, <2>5 DEF m
<1> QED BY <1>2, <1>3, <1>4 DEF ApplyRule

(* and nothing of nothing.                                                 *)
LEMMA NothingOfNothing ==
  ASSUME NEW r \in Rules
  PROVE  ApplyRule(r, <<>>) = <<>>
<1>1. <<>> \in Texts /\ Len(<<>>) = 0 /\ Len(r.pattern) \in Nat
  BY DEF Texts, Rules
<1>2. TrimSpace(<<>>) = <<>>
  <2>1. Body(<<>>) = {}
    BY DEF Body
  <2> QED BY <2>1 DEF TrimSpace, IsBlank
<1>3. CollapseWhitespace(<<>>) = <<>>
  BY FieldsOfNothing, JoinOfNothing DEF CollapseWhitespace
<1>4. ReplaceEach(<<>>, r.pattern, r.replacement) = <<>>
  <2>1. r.pattern \in Texts /\ r.replacement \in Texts
    BY DEF Rules
  <2>2. Replacing(<<>>, r.pattern, r.replacement)[0] = [out |-> <<>>, next |-> 1]
    BY <1>1, <2>1, ReplacingDef
  <2> QED BY <1>1, <2>2 DEF ReplaceEach
<1>5. SubSeq(<<>>, Len(r.pattern) + 1, Len(<<>>)) = <<>>
  BY <1>1
<1>6. SubSeq(<<>>, 1, Len(<<>>) - Len(r.pattern)) = <<>>
  BY <1>1
<1> QED BY <1>2, <1>3, <1>4, <1>5, <1>6 DEF ApplyRule

-----------------------------------------------------------------------------
(* CleanWithTrace.                                                         *)

Entries == [id : STRING, before : Texts, after : Texts]
Accs    == [current : Texts, trace : Seq(Entries)]

LEMMA RoundType ==
  ASSUME NEW acc \in Accs, NEW r \in Rules
  PROVE  Round(acc, r) \in Accs
<1> DEFINE after == ApplyRule(r, acc.current)
<1>1. after \in Texts /\ acc.current \in Texts /\ acc.trace \in Seq(Entries)
  BY ApplyRuleType DEF Accs
<1>2. Round(acc, r) =
        [current |-> after,
         trace   |-> IF after = acc.current THEN acc.trace
                     ELSE Append(acc.trace, Applied(r.id, acc.current, after))]
  BY DEF Round
<1> HIDE DEF after
<1>3. Applied(r.id, acc.current, after) \in Entries
  BY <1>1 DEF Applied, Entries, Rules
<1> HIDE DEF Applied
<1>4. Append(acc.trace, Applied(r.id, acc.current, after)) \in Seq(Entries)
  BY <1>1, <1>3
<1> QED BY <1>1, <1>2, <1>4 DEF Accs

LEMMA RoundsDef ==
  ASSUME NEW rules \in Seq(Rules), NEW input \in Texts
  PROVE  /\ Rounds(rules, input)[0] = [current |-> input, trace |-> <<>>]
         /\ \A k \in 1..Len(rules) :
              Rounds(rules, input)[k] = Round(Rounds(rules, input)[k - 1], rules[k])
         /\ \A k \in 0..Len(rules) : Rounds(rules, input)[k] \in Accs
<1> DEFINE n == Len(rules)
           base == [current |-> input, trace |-> <<>>]
           G == [p \in (1..n) \X Accs |-> Round(p[2], rules[p[1]])]
           Is(f) == f = [k \in 0..n |-> IF k = 0 THEN base ELSE Round(f[k - 1], rules[k])]
<1>0. n \in Nat /\ \A k \in 1..n : rules[k] \in Rules
  OBVIOUS
<1>1. base \in Accs
  BY DEF Accs
<1>2. G \in [(1..n) \X Accs -> Accs]
  <2> HIDE DEF n
  <2> QED BY <1>0, RoundType
<1>3. PICK f : IsLoop(f, Accs, n, base, G)
  <2> HIDE DEF G, n, base
  <2>1. n \in Nat
    BY <1>0
  <2> QED BY <2>1, <1>1, <1>2, Loop
<1>4. ASSUME NEW k \in 1..n
      PROVE  f[k] = Round(f[k - 1], rules[k])
  <2>1. f[k] = G[<<k, f[k - 1]>>]
    BY <1>3 DEF IsLoop
  <2>2. f[k - 1] \in Accs
    BY <1>0, <1>3 DEF IsLoop
  <2> QED BY <2>1, <2>2
<1>5. Is(f)
  <2> HIDE DEF base
  <2> QED BY <1>0, <1>3, <1>4 DEF IsLoop
<1>6. Is(Rounds(rules, input))
  BY <1>5 DEF Rounds
<1> DEFINE g == Rounds(rules, input)
<1> HIDE DEF g
<1>7. g = [k \in 0..n |-> IF k = 0 THEN base ELSE Round(g[k - 1], rules[k])]
  BY <1>6 DEF g
<1> HIDE DEF n, base
<1>8. g[0] = base
  BY <1>0, <1>7
<1>9. \A k \in 1..n : g[k] = Round(g[k - 1], rules[k])
  BY <1>0, <1>7
<1>10. \A k \in 0..n : g[k] \in Accs
  BY <1>0, <1>1, <1>8, <1>9, RoundType, LoopPreserves
<1> QED BY <1>8, <1>9, <1>10 DEF g, n, base

(* The trace of m rounds: each entry starts where the one before it ended, *)
(* entries stand for rules in their order, and a rule without an entry of  *)
(* its own changes nothing.                                                *)
UniqueIDs(rules) == \A i, j \in 1..Len(rules) : rules[i].id = rules[j].id => i = j

Turn(rules, id) == CHOOSE j \in DOMAIN rules : rules[j].id = id

TextAt(input, t, i) == IF i = 1 THEN input ELSE t[i - 1].after

TurnAt(rules, t, m, i) ==
  IF i \in 1..Len(t) THEN Turn(rules, t[i].id) ELSE IF i = 0 THEN 0 ELSE m + 1

Named(rules, input, t, m) ==
  \A i \in 1..Len(t) :
    /\ t[i].before = TextAt(input, t, i)
    /\ t[i].after # TextAt(input, t, i)
    /\ t[i].before # <<>>
    /\ TurnAt(rules, t, m, i) \in 1..m
    /\ TurnAt(rules, t, m, i - 1) < TurnAt(rules, t, m, i)

Complete(rules, input, t, m) ==
  \A i \in 1..(Len(t) + 1), j \in 1..m :
    TurnAt(rules, t, m, i - 1) < j /\ j <= TurnAt(rules, t, m, i) =>
      ApplyRule(rules[j], TextAt(input, t, i)) =
        IF j = TurnAt(rules, t, m, i) THEN TextAt(input, t, i + 1) ELSE TextAt(input, t, i)

Replayed(rules, input, acc, m) ==
  /\ acc.current = TextAt(input, acc.trace, Len(acc.trace) + 1)
  /\ Named(rules, input, acc.trace, m)
  /\ Complete(rules, input, acc.trace, m)

LEMMA TurnIsUnique ==
  ASSUME NEW rules \in Seq(Rules), UniqueIDs(rules), NEW j \in 1..Len(rules)
  PROVE  Turn(rules, rules[j].id) = j
<1>1. DOMAIN rules = 1..Len(rules)
  OBVIOUS
<1>2. \E k \in DOMAIN rules : rules[k].id = rules[j].id
  BY <1>1
<1>3. Turn(rules, rules[j].id) \in 1..Len(rules) /\ rules[Turn(rules, rules[j].id)].id = rules[j].id
  BY <1>1, <1>2 DEF Turn
<1> QED BY <1>3 DEF UniqueIDs

(* A round adds an entry for its rule, or the rule changes nothing.        *)
LEMMA RoundReplays ==
  ASSUME NEW rules \in Seq(Rules), UniqueIDs(rules), NEW input \in Texts, NEW acc \in Accs,
         NEW m \in Nat, m < Len(rules), Replayed(rules, input, acc, m)
  PROVE  Replayed(rules, input, Round(acc, rules[m + 1]), m + 1)
<1> DEFINE t == acc.trace
           n == Len(t)
           r == rules[m + 1]
           after == ApplyRule(r, acc.current)
           b == Round(acc, r)
<1>1. /\ m + 1 \in 1..Len(rules) /\ r \in Rules
      /\ t \in Seq(Entries) /\ n \in Nat /\ acc.current \in Texts
  BY DEF Accs
<1>2. b = [current |-> after,
           trace   |-> IF after = acc.current THEN t
                       ELSE Append(t, Applied(r.id, acc.current, after))]
  BY DEF Round
<1>3. acc.current = TextAt(input, t, n + 1) /\ Named(rules, input, t, m) /\ Complete(rules, input, t, m)
  BY DEF Replayed
<1>4. Turn(rules, r.id) = m + 1
  BY <1>1, TurnIsUnique
<1>5. after \in Texts /\ (acc.current = <<>> => after = <<>>)
  BY <1>1, ApplyRuleType, NothingOfNothing
<1>6. r.id \in STRING
  BY <1>1 DEF Rules
<1> HIDE DEF t, n, r, b, after
<1>7. CASE after = acc.current
  <2>1. b.current = acc.current /\ b.trace = t
    BY <1>2, <1>7
  <2>2. ASSUME NEW i \in 0..n PROVE TurnAt(rules, t, m + 1, i) = TurnAt(rules, t, m, i)
    BY <1>1 DEF TurnAt, n
  <2>3. TurnAt(rules, t, m + 1, n + 1) = m + 2 /\ TurnAt(rules, t, m, n + 1) = m + 1
    BY <1>1 DEF TurnAt, n
  <2>4. Named(rules, input, t, m + 1)
    <3> SUFFICES ASSUME NEW i \in 1..n
                 PROVE  /\ t[i].before = TextAt(input, t, i)
                        /\ t[i].after # TextAt(input, t, i)
                        /\ t[i].before # <<>>
                        /\ TurnAt(rules, t, m + 1, i) \in 1..(m + 1)
                        /\ TurnAt(rules, t, m + 1, i - 1) < TurnAt(rules, t, m + 1, i)
      BY DEF Named, n
    <3>1. i - 1 \in 0..n /\ i \in 0..n
      BY <1>1
    <3> QED BY <1>1, <1>3, <2>2, <3>1 DEF Named, n
  <2>5. Complete(rules, input, t, m + 1)
    <3> SUFFICES ASSUME NEW i \in 1..(n + 1), NEW j \in 1..(m + 1),
                        TurnAt(rules, t, m + 1, i - 1) < j, j <= TurnAt(rules, t, m + 1, i)
                 PROVE  ApplyRule(rules[j], TextAt(input, t, i)) =
                          IF j = TurnAt(rules, t, m + 1, i)
                          THEN TextAt(input, t, i + 1) ELSE TextAt(input, t, i)
      BY DEF Complete, n
    <3>1. i - 1 \in 0..n
      BY <1>1
    <3>2. CASE i \in 1..n
      <4>1. i \in 0..n /\ TurnAt(rules, t, m, i) \in 1..m
        BY <1>1, <1>3, <3>2 DEF Named, n
      <4>2. j \in 1..m
        BY <2>2, <4>1
      <4> QED BY <1>3, <2>2, <3>1, <4>1, <4>2 DEF Complete, n
    <3>3. CASE i = n + 1 /\ j \in 1..m
      <4>1. j # m + 1 /\ j # m + 2 /\ j <= m + 1
        BY <3>3
      <4> QED BY <1>3, <2>2, <2>3, <3>1, <3>3, <4>1 DEF Complete, n
    <3>4. CASE i = n + 1 /\ j = m + 1
      BY <1>3, <1>7, <2>3, <3>4 DEF after, r
    <3> QED BY <1>1, <3>2, <3>3, <3>4
  <2>6. Replayed(rules, input, b, m + 1)
    BY <1>3, <2>1, <2>4, <2>5 DEF Replayed, n
  <2> QED BY <2>6 DEF b, r
<1>8. CASE after # acc.current
  <2> DEFINE e == Applied(r.id, acc.current, after)
             u == Append(t, e)
  <2>1. e \in Entries /\ e.id = r.id /\ e.before = acc.current /\ e.after = after
    BY <1>1, <1>5, <1>6 DEF Applied, Entries
  <2> HIDE DEF e
  <2>2. /\ u \in Seq(Entries) /\ Len(u) = n + 1
        /\ \A i \in 1..n : u[i] = t[i]
        /\ u[n + 1] = e
    BY <1>1, <2>1 DEF n
  <2>3. b.current = after /\ b.trace = u
    BY <1>2, <1>8 DEF e
  <2> HIDE DEF u
  <2>4. ASSUME NEW i \in 1..(n + 1) PROVE TextAt(input, u, i) = TextAt(input, t, i)
    <3>1. i # 1 => i - 1 \in 1..n
      BY <1>1
    <3> QED BY <2>2, <3>1 DEF TextAt
  <2>5. TextAt(input, u, (n + 1) + 1) = after
    <3>1. (n + 1) + 1 # 1 /\ ((n + 1) + 1) - 1 = n + 1
      BY <1>1
    <3> QED BY <2>1, <2>2, <3>1 DEF TextAt
  <2>6. ASSUME NEW i \in 0..(n + 1) PROVE TurnAt(rules, u, m + 1, i) = TurnAt(rules, t, m, i)
    <3>1. CASE i = n + 1
      BY <1>1, <1>4, <2>1, <2>2, <3>1 DEF TurnAt, n
    <3>2. CASE i \in 1..n
      BY <1>1, <2>2, <3>2 DEF TurnAt, n
    <3>3. CASE i = 0
      BY <1>1, <2>2, <3>3 DEF TurnAt, n
    <3> QED BY <1>1, <3>1, <3>2, <3>3
  <2>7. TurnAt(rules, t, m, n + 1) = m + 1 /\ TurnAt(rules, u, m + 1, (n + 1) + 1) = m + 2
    BY <1>1, <2>2 DEF TurnAt, n
  <2>8. Named(rules, input, u, m + 1)
    <3> SUFFICES ASSUME NEW i \in 1..(n + 1)
                 PROVE  /\ u[i].before = TextAt(input, u, i)
                        /\ u[i].after # TextAt(input, u, i)
                        /\ u[i].before # <<>>
                        /\ TurnAt(rules, u, m + 1, i) \in 1..(m + 1)
                        /\ TurnAt(rules, u, m + 1, i - 1) < TurnAt(rules, u, m + 1, i)
      BY <2>2 DEF Named
    <3>1. i - 1 \in 0..(n + 1) /\ i \in 0..(n + 1)
      BY <1>1
    <3>2. CASE i \in 1..n
      <4>1. /\ t[i].before = TextAt(input, t, i)
            /\ t[i].after # TextAt(input, t, i)
            /\ t[i].before # <<>>
            /\ TurnAt(rules, t, m, i) \in 1..m
            /\ TurnAt(rules, t, m, i - 1) < TurnAt(rules, t, m, i)
        BY <1>3, <3>2 DEF Named, n
      <4>2. u[i] = t[i] /\ TextAt(input, u, i) = TextAt(input, t, i)
        BY <2>2, <2>4, <3>2
      <4>3. /\ TurnAt(rules, u, m + 1, i) = TurnAt(rules, t, m, i)
            /\ TurnAt(rules, u, m + 1, i - 1) = TurnAt(rules, t, m, i - 1)
        BY <2>6, <3>1
      <4>4. TurnAt(rules, t, m, i) \in 1..(m + 1)
        BY <1>1, <4>1
      <4> QED BY <4>1, <4>2, <4>3, <4>4
    <3>3. CASE i = n + 1
      <4>1. TurnAt(rules, t, m, n) < m + 1
        <5>1. CASE n = 0
          BY <1>1, <5>1 DEF TurnAt, n
        <5>2. CASE n # 0
          <6>1. n \in 1..n
            BY <1>1, <5>2
          <6> QED BY <1>3, <6>1 DEF Named, n
        <5> QED BY <5>1, <5>2
      <4>2. i - 1 = n
        BY <1>1, <3>3
      <4> QED BY <1>1, <1>3, <1>5, <1>8, <2>1, <2>2, <2>4, <2>6, <2>7, <3>1, <3>3, <4>1, <4>2
    <3> QED BY <1>1, <3>2, <3>3
  <2>9. Complete(rules, input, u, m + 1)
    <3> SUFFICES ASSUME NEW i \in 1..((n + 1) + 1), NEW j \in 1..(m + 1),
                        TurnAt(rules, u, m + 1, i - 1) < j, j <= TurnAt(rules, u, m + 1, i)
                 PROVE  ApplyRule(rules[j], TextAt(input, u, i)) =
                          IF j = TurnAt(rules, u, m + 1, i)
                          THEN TextAt(input, u, i + 1) ELSE TextAt(input, u, i)
      BY <2>2 DEF Complete
    <3>1. i - 1 \in 0..(n + 1)
      BY <1>1
    <3>2. CASE i \in 1..n
      <4>1. /\ i \in 0..(n + 1) /\ i \in 1..(n + 1) /\ i + 1 \in 1..(n + 1)
            /\ TurnAt(rules, t, m, i) \in 1..m
        BY <1>1, <1>3, <3>2 DEF Named, n
      <4>2. j \in 1..m
        BY <2>6, <4>1
      <4> QED BY <1>3, <2>4, <2>6, <3>1, <4>1, <4>2 DEF Complete, n
    <3>3. CASE i = n + 1 /\ j \in 1..m
      <4>1. j # m + 1 /\ i \in 0..(n + 1)
        BY <1>1, <3>3
      <4> QED BY <1>3, <2>4, <2>6, <2>7, <3>1, <3>3, <4>1 DEF Complete, n
    <3>4. CASE i = n + 1 /\ j = m + 1
      <4>1. i \in 0..(n + 1)
        BY <1>1, <3>4
      <4> QED BY <1>3, <2>4, <2>5, <2>6, <2>7, <3>4, <4>1 DEF after, r
    <3>5. CASE i = (n + 1) + 1
      <4>1. n + 1 \in 0..(n + 1) /\ i - 1 = n + 1
        BY <1>1, <3>5
      <4>2. TurnAt(rules, u, m + 1, i - 1) = m + 1
        BY <2>6, <2>7, <4>1
      <4> QED BY <1>1, <4>2
    <3> QED BY <1>1, <3>2, <3>3, <3>4, <3>5
  <2>10. Replayed(rules, input, b, m + 1)
    BY <2>2, <2>3, <2>5, <2>8, <2>9 DEF Replayed
  <2> QED BY <2>10 DEF b, r
<1> QED BY <1>7, <1>8

LEMMA RoundsReplay ==
  ASSUME NEW rules \in Seq(Rules), UniqueIDs(rules), NEW input \in Texts
  PROVE  Replayed(rules, input, Rounds(rules, input)[Len(rules)], Len(rules))
<1> DEFINE n == Len(rules)
           R == Rounds(rules, input)
           S == {k \in 0..n : Replayed(rules, input, R[k], k)}
<1>0. n \in Nat
  OBVIOUS
<1>1. 0 \in S
  <2>1. R[0] = [current |-> input, trace |-> <<>>]
    BY RoundsDef
  <2>2. R[0].trace = <<>> /\ Len(R[0].trace) = 0 /\ R[0].current = input
    BY <2>1
  <2> HIDE DEF R
  <2>3. Replayed(rules, input, R[0], 0)
    BY <2>2 DEF Replayed, Named, Complete, TextAt
  <2> QED BY <1>0, <2>3
<1>2. ASSUME NEW k \in 0..(n - 1), k \in S PROVE k + 1 \in S
  <2>1. k + 1 \in 1..n /\ (k + 1) - 1 = k /\ k \in 0..n /\ k \in Nat /\ k < n
    BY <1>0
  <2>2. R[k] \in Accs /\ R[k + 1] = Round(R[k], rules[k + 1])
    <3>1. R[k + 1] = Round(R[(k + 1) - 1], rules[k + 1])
      BY <2>1, RoundsDef
    <3>2. R[k] \in Accs
      BY <2>1, RoundsDef
    <3> QED BY <2>1, <3>1, <3>2
  <2>3. Replayed(rules, input, R[k], k)
    BY <1>2
  <2> HIDE DEF R
  <2>4. Replayed(rules, input, R[k + 1], k + 1)
    BY <2>1, <2>2, <2>3, RoundReplays
  <2> QED BY <2>1, <2>4
<1> HIDE DEF S
<1>3. \A k \in 0..n : k \in S
  BY <1>0, <1>1, <1>2, Induct
<1> QED BY <1>0, <1>3 DEF S

(* The fallback: if nothing is left of a text, its words.                  *)
LEMMA FallbackGives ==
  ASSUME NEW input \in Texts, ~IsBlank(input), NEW acc \in Accs
  PROVE  /\ acc.current # <<>> => Fallback(input, acc) = acc
         /\ acc.current = <<>> =>
              Fallback(input, acc) =
                [current |-> CollapseWhitespace(input),
                 trace   |-> Append(acc.trace, Applied("fallback_original", <<>>,
                                                       CollapseWhitespace(input)))]
         /\ CollapseWhitespace(input) # <<>> /\ ~IsBlank(CollapseWhitespace(input))
         /\ Fallback(input, acc).current # <<>>
<1>1. CollapseWhitespace(TrimSpace(input)) = CollapseWhitespace(input)
  BY TidyText
<1>2. CollapseWhitespace(input) # <<>> /\ ~IsBlank(CollapseWhitespace(input))
  <2>1. Fields(input) # <<>> /\ Fields(input) \in Seq(Words)
    BY FieldsOfBlank, FieldsType
  <2> QED BY <2>1, JoinOfSome DEF CollapseWhitespace
<1>3. acc.current # <<>> => Fallback(input, acc) = acc
  BY DEF Fallback
<1>4. acc.current = <<>> =>
        Fallback(input, acc) =
          [current |-> CollapseWhitespace(input),
           trace   |-> Append(acc.trace, Applied("fallback_original", <<>>,
                                                 CollapseWhitespace(input)))]
  BY <1>1 DEF Fallback
<1>5. Fallback(input, acc).current # <<>>
  BY <1>2, <1>3, <1>4
<1> QED BY <1>2, <1>3, <1>4, <1>5

(* Whatever the rules, the trace of a text that is not blank replays.      *)
LEMMA CleaningReplays ==
  ASSUME NEW input \in Texts, ~IsBlank(input), given \in Seq(Rules), UniqueIDs(given),
         result = CleanWithTrace(given, input)
  PROVE  TraceReplays
<1> DEFINE N == Len(given)
           acc == Rounds(given, input)[N]
           c == Fallback(input, acc)
           s == acc.trace
           n == Len(s)
           t == result.applied
           Text(k) == IF k = 1 THEN result.original ELSE t[k - 1].after
           By(k) == IF k \in DOMAIN t /\ t[k].before # <<>>
                    THEN CHOOSE j \in DOMAIN given : given[j].id = t[k].id
                    ELSE IF k = 0 THEN 0 ELSE Len(given) + 1
<1>1. acc \in Accs /\ Replayed(given, input, acc, N) /\ N \in Nat
  <2>1. N \in 0..N /\ N \in Nat
    OBVIOUS
  <2>2. acc \in Accs
    BY <2>1, RoundsDef
  <2> QED BY <2>1, <2>2, RoundsReplay
<1>2. /\ result.original = input /\ result.cleaned = c.current /\ t = c.trace
      /\ DOMAIN given = 1..N
  BY DEF CleanWithTrace
<1> SUFFICES /\ result.cleaned = Text(Len(t) + 1)
             /\ \A k \in DOMAIN t :
                  /\ t[k].before = Text(k) /\ t[k].after # Text(k)
                  /\ By(k - 1) < By(k)
                  /\ t[k].before = <<>> =>
                       /\ k = Len(t) /\ t[k].id = "fallback_original"
                       /\ t[k].after = CollapseWhitespace(result.original)
             /\ \A k \in 1..(Len(t) + 1), j \in DOMAIN given :
                  By(k - 1) < j /\ j <= By(k) =>
                    ApplyRule(given[j], Text(k)) = IF j = By(k) THEN Text(k + 1) ELSE Text(k)
  BY DEF TraceReplays
<1>3. /\ acc.current # <<>> => c = acc
      /\ acc.current = <<>> =>
           c = [current |-> CollapseWhitespace(input),
                trace   |-> Append(s, Applied("fallback_original", <<>>, CollapseWhitespace(input)))]
      /\ CollapseWhitespace(input) # <<>> /\ CollapseWhitespace(input) \in Texts
  BY <1>1, FallbackGives, TidyText
<1> HIDE DEF acc, N
<1>4. s \in Seq(Entries) /\ n \in Nat /\ acc.current \in Texts
  BY <1>1 DEF Accs
<1>5. acc.current = TextAt(input, s, n + 1) /\ Named(given, input, s, N) /\ Complete(given, input, s, N)
  BY <1>1 DEF Replayed
<1>6. TurnAt(given, s, N, n + 1) = N + 1 /\ TurnAt(given, s, N, 0) = 0
  BY <1>4 DEF TurnAt
<1>7. ASSUME NEW i \in 1..n
      PROVE  /\ s[i].before = TextAt(input, s, i)
             /\ s[i].after # TextAt(input, s, i)
             /\ s[i].before # <<>>
             /\ TurnAt(given, s, N, i) \in 1..N
             /\ TurnAt(given, s, N, i - 1) < TurnAt(given, s, N, i)
  BY <1>5 DEF Named
<1>8. ASSUME NEW i \in 1..(n + 1), NEW j \in 1..N,
             TurnAt(given, s, N, i - 1) < j, j <= TurnAt(given, s, N, i)
      PROVE  ApplyRule(given[j], TextAt(input, s, i)) =
               IF j = TurnAt(given, s, N, i) THEN TextAt(input, s, i + 1) ELSE TextAt(input, s, i)
  BY <1>5, <1>8 DEF Complete
<1> HIDE DEF c, s
<1>9. CASE acc.current # <<>>
  <2>1. t = s /\ result.cleaned = acc.current /\ DOMAIN t = 1..n /\ Len(t) = n
    BY <1>2, <1>3, <1>4, <1>9 DEF s
  <2> HIDE DEF t
  <2>2. ASSUME NEW k \in 0..(n + 1) PROVE By(k) = TurnAt(given, s, N, k)
    <3>1. CASE k \in 1..n
      <4>1. k \in DOMAIN t /\ t[k] = s[k] /\ t[k].before # <<>>
        BY <1>4, <1>7, <2>1, <3>1
      <4>2. By(k) = Turn(given, t[k].id)
        BY <4>1 DEF Turn
      <4>3. TurnAt(given, s, N, k) = Turn(given, s[k].id)
        BY <3>1 DEF TurnAt
      <4> QED BY <4>1, <4>2, <4>3
    <3>2. CASE k \notin 1..n
      BY <1>4, <2>1, <3>2 DEF TurnAt, N
    <3> QED BY <3>1, <3>2
  <2>3. \A k : Text(k) = TextAt(input, s, k)
    BY <1>2, <2>1 DEF TextAt
  <2> HIDE DEF Text, By
  <2>4. result.cleaned = Text(n + 1)
    BY <1>5, <2>1, <2>3
  <2>5. ASSUME NEW k \in 1..n
        PROVE  t[k].before = Text(k) /\ t[k].after # Text(k) /\ t[k].before # <<>> /\ By(k - 1) < By(k)
    <3>1. k \in 0..(n + 1) /\ k - 1 \in 0..(n + 1)
      BY <1>4
    <3>2. By(k) = TurnAt(given, s, N, k) /\ By(k - 1) = TurnAt(given, s, N, k - 1)
      BY <2>2, <3>1
    <3> QED BY <1>7, <2>1, <2>3, <3>2
  <2>6. ASSUME NEW k \in 1..(n + 1), NEW j \in 1..N, By(k - 1) < j, j <= By(k)
        PROVE  ApplyRule(given[j], Text(k)) = IF j = By(k) THEN Text(k + 1) ELSE Text(k)
    <3>1. k \in 0..(n + 1) /\ k - 1 \in 0..(n + 1)
      BY <1>4
    <3>2. By(k) = TurnAt(given, s, N, k) /\ By(k - 1) = TurnAt(given, s, N, k - 1)
      BY <2>2, <3>1
    <3> QED BY <1>8, <2>3, <2>6, <3>2
  <2> QED BY <1>2, <2>1, <2>4, <2>5, <2>6
<1>10. CASE acc.current = <<>>
  <2> DEFINE original == CollapseWhitespace(input)
             e == Applied("fallback_original", <<>>, original)
  <2>0. e.id = "fallback_original" /\ e.before = <<>> /\ e.after = original
    BY DEF Applied
  <2>a. t = Append(s, e) /\ result.cleaned = original
    BY <1>2, <1>3, <1>10
  <2> HIDE DEF e, original, t
  <2>1. /\ DOMAIN t = 1..(n + 1) /\ Len(t) = n + 1
        /\ \A i \in 1..n : t[i] = s[i]
        /\ t[n + 1] = e
    BY <1>4, <2>a
  <2>2. ASSUME NEW k \in 0..(n + 1) PROVE By(k) = TurnAt(given, s, N, k)
    <3>1. CASE k \in 1..n
      <4>1. k \in DOMAIN t /\ t[k] = s[k] /\ t[k].before # <<>>
        BY <1>4, <1>7, <2>1, <3>1
      <4>2. By(k) = Turn(given, t[k].id)
        BY <4>1 DEF Turn
      <4>3. TurnAt(given, s, N, k) = Turn(given, s[k].id)
        BY <3>1 DEF TurnAt
      <4> QED BY <4>1, <4>2, <4>3
    <3>2. CASE k \notin 1..n
      BY <1>4, <2>0, <2>1, <3>2 DEF TurnAt, N
    <3> QED BY <3>1, <3>2
  <2>3. ASSUME NEW k \in 1..(n + 1) PROVE Text(k) = TextAt(input, s, k)
    <3>1. k # 1 => k - 1 \in 1..n
      BY <1>4
    <3> QED BY <1>2, <2>1, <3>1 DEF TextAt
  <2>4. Text((n + 1) + 1) = original
    <3>1. (n + 1) + 1 # 1 /\ ((n + 1) + 1) - 1 = n + 1
      BY <1>4
    <3> QED BY <2>0, <2>1, <3>1
  <2>5. By((n + 1) + 1) = N + 1
    BY <1>4, <2>1 DEF N
  <2>6. result.original = input
    BY <1>2
  <2> HIDE DEF Text, By
  <2>7. ASSUME NEW k \in 1..(n + 1)
        PROVE  /\ t[k].before = Text(k) /\ t[k].after # Text(k) /\ By(k - 1) < By(k)
               /\ t[k].before = <<>> =>
                    k = n + 1 /\ t[k].id = "fallback_original" /\ t[k].after = original
    <3>1. k \in 0..(n + 1) /\ k - 1 \in 0..(n + 1)
      BY <1>4
    <3>2. By(k) = TurnAt(given, s, N, k) /\ By(k - 1) = TurnAt(given, s, N, k - 1)
      BY <2>2, <3>1
    <3>3. CASE k \in 1..n
      BY <1>7, <2>1, <2>3, <3>2, <3>3
    <3>4. CASE k = n + 1
      <4>1. TurnAt(given, s, N, n) < N + 1
        <5>1. CASE n = 0
          BY <1>1, <1>6, <5>1
        <5>2. CASE n # 0
          <6>1. n \in 1..n
            BY <1>4, <5>2
          <6>2. TurnAt(given, s, N, n) \in 1..N
            BY <1>7, <6>1
          <6> QED BY <1>1, <6>2
        <5> QED BY <5>1, <5>2
      <4>2. By(k - 1) < By(k)
        BY <1>4, <1>6, <3>2, <3>4, <4>1
      <4>3. Text(k) = <<>>
        BY <1>5, <1>10, <2>3, <3>4
      <4> QED BY <1>3, <2>0, <2>1, <3>4, <4>2, <4>3 DEF original
    <3> QED BY <1>4, <3>3, <3>4
  <2>8. ASSUME NEW k \in 1..((n + 1) + 1), NEW j \in 1..N, By(k - 1) < j, j <= By(k)
        PROVE  ApplyRule(given[j], Text(k)) = IF j = By(k) THEN Text(k + 1) ELSE Text(k)
    <3>1. CASE k \in 1..n
      <4>1. k \in 0..(n + 1) /\ k - 1 \in 0..(n + 1) /\ k \in 1..(n + 1) /\ k + 1 \in 1..(n + 1)
        BY <1>4, <3>1
      <4>2. By(k) = TurnAt(given, s, N, k) /\ By(k - 1) = TurnAt(given, s, N, k - 1)
        BY <2>2, <4>1
      <4>3. Text(k) = TextAt(input, s, k) /\ Text(k + 1) = TextAt(input, s, k + 1)
        BY <2>3, <4>1
      <4> QED BY <1>8, <2>8, <4>1, <4>2, <4>3
    <3>2. CASE k = n + 1
      <4>1. k \in 0..(n + 1) /\ k - 1 \in 0..(n + 1) /\ k \in 1..(n + 1)
        BY <1>4, <3>2
      <4>2. By(k) = TurnAt(given, s, N, k) /\ By(k - 1) = TurnAt(given, s, N, k - 1)
        BY <2>2, <4>1
      <4>3. Text(k) = TextAt(input, s, k) /\ j # N + 1 /\ By(k) = N + 1
        BY <1>1, <1>6, <2>3, <3>2, <4>1, <4>2
      <4> QED BY <1>8, <2>8, <4>1, <4>2, <4>3
    <3>3. CASE k = (n + 1) + 1
      <4>1. k - 1 = n + 1 /\ n + 1 \in 0..(n + 1)
        BY <1>4, <3>3
      <4>2. By(k - 1) = N + 1
        BY <1>6, <2>2, <4>1
      <4> QED BY <1>1, <2>8, <4>2
    <3> QED BY <1>4, <3>1, <3>2, <3>3
  <2> QED BY <1>2, <2>a, <2>1, <2>4, <2>6, <2>7, <2>8 DEF original
<1> QED BY <1>9, <1>10

-----------------------------------------------------------------------------
(* The default rules.                                                      *)

LEMMA LeadingLen == Len(Leading) = 7 /\ 3 * Len(Leading) = 21
<1>1. Len(Leading) = 7
  BY DEF Leading
<1> QED BY <1>1

LEMMA LeadingAre ==
  /\ Leading[1][2] = <<"okey", " ", "hermes">> /\ Leading[2][2] = <<"hey", " ", "hermes">>
  /\ Leading[3][2] = <<"listen", " ", "hermes">> /\ Leading[4][2] = <<"hermes">>
  /\ Leading[5][2] = <<"nu">> /\ Leading[6][2] = <<"ee">> /\ Leading[7][2] = <<"em">>
  BY DEF Leading

IsTrim(r)      == r.kind = "trim_space"
IsCollapse(r)  == r.kind = "collapse_space"
IsPrefixOf(r)  == r.kind = "remove_prefix_phrase"
IsSuffixOf(r)  == r.kind = "remove_suffix_phrase"
Please         == <<"please">>

LEMMA StrippingAre ==
  ASSUME NEW p
  PROVE  /\ IsPrefixOf(Stripping(p)[1]) /\ Stripping(p)[1].pattern = p[2]
         /\ IsTrim(Stripping(p)[2])
         /\ IsCollapse(Stripping(p)[3])
<1> DEFINE a == Rule("remove_prefix_" \o p[1], "remove_prefix_phrase", p[2])
           b == Rule("trim_space_" \o ("after_" \o p[1]), "trim_space", <<>>)
           c == Rule("collapse_space_" \o ("after_" \o p[1]), "collapse_space", <<>>)
<1>1. Stripping(p) = <<a>> \o <<b, c>>
  BY DEF Stripping, Tidy
<1>2. /\ IsPrefixOf(a) /\ a.pattern = p[2]
      /\ IsTrim(b) /\ IsCollapse(c)
  BY DEF Rule, IsPrefixOf, IsTrim, IsCollapse
<1> HIDE DEF a, b, c
<1>3. /\ (<<a>> \o <<b, c>>)[1] = a /\ (<<a>> \o <<b, c>>)[2] = b
      /\ (<<a>> \o <<b, c>>)[3] = c
  OBVIOUS
<1> QED BY <1>1, <1>2, <1>3

LEMMA Thirds ==
  ASSUME NEW i \in 1..7, NEW q \in 1..3
  PROVE  /\ 3 * (i - 1) + q \in 1..21
         /\ ((3 * (i - 1) + q) - 1) \div 3 = i - 1
         /\ ((3 * (i - 1) + q) - 1) % 3 = q - 1
  OBVIOUS

LEMMA FunctionSeq ==
  ASSUME NEW S, NEW n \in Nat, NEW f \in [1..n -> S]
  PROVE  f \in Seq(S) /\ Len(f) = n
  OBVIOUS

LEMMA Pair ==
  ASSUME NEW S, NEW a \in S, NEW b \in S
  PROVE  <<a, b>> \in Seq(S) /\ Len(<<a, b>>) = 2 /\ <<a, b>>[1] = a /\ <<a, b>>[2] = b
  OBVIOUS

LEMMA TidyAre ==
  ASSUME NEW w
  PROVE  Len(Tidy(w)) = 2 /\ IsTrim(Tidy(w)[1]) /\ IsCollapse(Tidy(w)[2])
  BY DEF Tidy, Rule, IsTrim, IsCollapse

(* Which rule has which number.                                            *)
LEMMA DefaultRulesAre ==
  /\ Len(DefaultRules) = 26
  /\ IsTrim(DefaultRules[1]) /\ IsCollapse(DefaultRules[2])
  /\ \A i \in 1..7 :
       /\ IsPrefixOf(DefaultRules[3 * i])
       /\ DefaultRules[3 * i].pattern = Leading[i][2]
       /\ IsTrim(DefaultRules[3 * i + 1])
       /\ IsCollapse(DefaultRules[3 * i + 2])
  /\ IsSuffixOf(DefaultRules[24])
  /\ DefaultRules[24].pattern = Please
  /\ IsTrim(DefaultRules[25]) /\ IsCollapse(DefaultRules[26])
<1> DEFINE A == Tidy("initial")
           M == [k \in 1..(3 * Len(Leading)) |->
                   Stripping(Leading[1 + ((k - 1) \div 3)])[1 + ((k - 1) % 3)]]
           z == Rule("remove_suffix_please", "remove_suffix_phrase", <<"please">>)
           E == Tidy("final")
           T == {A[1], A[2], z, E[1], E[2]} \cup {M[k] : k \in 1..21}
<1>1. DefaultRules = ((A \o M) \o <<z>>) \o E
  BY DEF DefaultRules
<1>2. A = <<A[1], A[2]>> /\ E = <<E[1], E[2]>>
  BY DEF Tidy
<1>3. M = [k \in 1..21 |-> M[k]]
  <2>1. 3 * Len(Leading) = 21
    BY LeadingLen
  <2> QED BY <2>1
<1>4. IsSuffixOf(z) /\ z.pattern = Please
  BY DEF Rule, IsSuffixOf, Please
<1>5. ASSUME NEW i \in 1..7, NEW q \in 1..3
      PROVE  M[3 * (i - 1) + q] = Stripping(Leading[i])[q]
  <2>1. 3 * Len(Leading) = 21
    BY LeadingLen
  <2>2. 1 + (i - 1) = i /\ 1 + (q - 1) = q
    OBVIOUS
  <2> QED BY <2>1, <2>2, Thirds
<1>6. /\ IsTrim(A[1]) /\ IsCollapse(A[2])
      /\ IsTrim(E[1]) /\ IsCollapse(E[2])
  BY TidyAre
<1> HIDE DEF A, M, z, E
<1>7. A \in Seq(T) /\ Len(A) = 2 /\ E \in Seq(T) /\ Len(E) = 2
  <2> DEFINE a1 == A[1]
             a2 == A[2]
             e1 == E[1]
             e2 == E[2]
  <2>1. a1 \in T /\ a2 \in T /\ e1 \in T /\ e2 \in T
    OBVIOUS
  <2>2. A = <<a1, a2>> /\ E = <<e1, e2>>
    BY <1>2
  <2> HIDE DEF T, a1, a2, e1, e2
  <2> QED BY <2>1, <2>2, Pair
<1>8. M \in Seq(T) /\ Len(M) = 21
  <2>1. \A k \in 1..21 : M[k] \in T
    OBVIOUS
  <2> HIDE DEF T
  <2>2. M \in [1..21 -> T]
    BY <1>3, <2>1
  <2> QED BY <2>2, FunctionSeq
<1>9. <<z>> \in Seq(T) /\ Len(<<z>>) = 1 /\ <<z>>[1] = z
  <2>1. z \in T
    OBVIOUS
  <2> HIDE DEF T
  <2> QED BY <2>1
<1> HIDE DEF T
<1> DEFINE B == A \o M
           C == B \o <<z>>
           D == C \o E
<1>10. /\ B \in Seq(T) /\ Len(B) = 23
       /\ \A k \in 1..2 : B[k] = A[k]
       /\ \A k \in 1..21 : B[2 + k] = M[k]
  <2>0. A \in Seq(T) /\ M \in Seq(T)
    BY <1>7, <1>8
  <2>1. /\ B \in Seq(T) /\ Len(B) = Len(A) + Len(M)
        /\ \A k \in 1..Len(A) : B[k] = A[k]
        /\ \A k \in 1..Len(M) : B[Len(A) + k] = M[k]
    BY <2>0
  <2> HIDE DEF B
  <2> QED BY <1>7, <1>8, <2>1
<1> HIDE DEF B
<1>11. C \in Seq(T) /\ Len(C) = 24 /\ C[24] = z /\ \A k \in 1..23 : C[k] = B[k]
  <2>0. B \in Seq(T) /\ <<z>> \in Seq(T)
    BY <1>9, <1>10
  <2>1. /\ C \in Seq(T) /\ Len(C) = Len(B) + Len(<<z>>)
        /\ \A k \in 1..Len(B) : C[k] = B[k]
        /\ \A k \in 1..Len(<<z>>) : C[Len(B) + k] = <<z>>[k]
    BY <2>0
  <2> HIDE DEF C
  <2>2. 1 \in 1..Len(<<z>>) /\ Len(B) + 1 = 24
    BY <1>9, <1>10
  <2>3. C[24] = z
    BY <1>9, <2>1, <2>2
  <2>4. Len(C) = 24
    BY <1>9, <1>10, <2>1
  <2> QED BY <1>10, <2>1, <2>3, <2>4
<1> HIDE DEF C
<1>12. Len(D) = 26 /\ D[25] = E[1] /\ D[26] = E[2] /\ \A k \in 1..24 : D[k] = C[k]
  <2>0. C \in Seq(T) /\ E \in Seq(T)
    BY <1>7, <1>11
  <2>1. /\ Len(D) = Len(C) + Len(E)
        /\ \A k \in 1..Len(C) : D[k] = C[k]
        /\ \A k \in 1..Len(E) : D[Len(C) + k] = E[k]
    BY <2>0
  <2> HIDE DEF D
  <2>2. 1 \in 1..Len(E) /\ 2 \in 1..Len(E) /\ Len(C) + 1 = 25 /\ Len(C) + 2 = 26
    BY <1>7, <1>11
  <2>3. D[25] = E[1] /\ D[26] = E[2]
    BY <2>1, <2>2
  <2> QED BY <1>7, <1>11, <2>1, <2>3
<1>13. DefaultRules = D
  BY <1>1 DEF B, C, D
<1> HIDE DEF D
<1>14. D[1] = A[1] /\ D[2] = A[2] /\ D[24] = z
  <2>1. D[1] = C[1] /\ D[2] = C[2] /\ D[24] = C[24]
    BY <1>12
  <2>2. C[1] = B[1] /\ C[2] = B[2]
    BY <1>11
  <2>3. B[1] = A[1] /\ B[2] = A[2]
    BY <1>10
  <2> QED BY <1>11, <2>1, <2>2, <2>3
<1>15. ASSUME NEW k \in 1..21 PROVE D[2 + k] = M[k]
  <2>1. 2 + k \in 1..23 /\ 2 + k \in 1..24
    OBVIOUS
  <2> QED BY <1>10, <1>11, <1>12, <2>1
<1>16. ASSUME NEW i \in 1..7
       PROVE  /\ D[3 * i] = Stripping(Leading[i])[1]
              /\ D[3 * i + 1] = Stripping(Leading[i])[2]
              /\ D[3 * i + 2] = Stripping(Leading[i])[3]
  <2>1. ASSUME NEW q \in 1..3 PROVE D[3 * i + (q - 1)] = Stripping(Leading[i])[q]
    <3>1. 3 * (i - 1) + q \in 1..21 /\ 2 + (3 * (i - 1) + q) = 3 * i + (q - 1)
      OBVIOUS
    <3> QED BY <1>5, <1>15, <3>1
  <2>2. 1 \in 1..3 /\ 2 \in 1..3 /\ 3 \in 1..3
    OBVIOUS
  <2>3. 3 * i + (1 - 1) = 3 * i /\ 3 * i + (2 - 1) = 3 * i + 1 /\ 3 * i + (3 - 1) = 3 * i + 2
    OBVIOUS
  <2> QED BY <2>1, <2>2, <2>3
<1>17. ASSUME NEW i \in 1..7
       PROVE  /\ IsPrefixOf(D[3 * i])
              /\ D[3 * i].pattern = Leading[i][2]
              /\ IsTrim(D[3 * i + 1])
              /\ IsCollapse(D[3 * i + 2])
  BY <1>16, StrippingAre
<1> QED BY <1>4, <1>6, <1>12, <1>13, <1>14, <1>17

(* The text after so many rounds.                                          *)
Now(rules, input, k) == Rounds(rules, input)[k].current

LEMMA NowIs ==
  ASSUME NEW rules \in Seq(Rules), NEW input \in Texts
  PROVE  /\ Now(rules, input, 0) = input
         /\ \A k \in 0..Len(rules) : Now(rules, input, k) \in Texts
         /\ \A k \in 1..Len(rules) :
              Now(rules, input, k) = ApplyRule(rules[k], Now(rules, input, k - 1))
<1>1. Now(rules, input, 0) = input
  <2>1. Rounds(rules, input)[0] = [current |-> input, trace |-> <<>>]
    BY RoundsDef
  <2> QED BY <2>1 DEF Now
<1>2. ASSUME NEW k \in 0..Len(rules) PROVE Now(rules, input, k) \in Texts
  <2>1. Rounds(rules, input)[k] \in Accs
    BY RoundsDef
  <2> QED BY <2>1 DEF Now, Accs
<1>3. ASSUME NEW k \in 1..Len(rules)
      PROVE  Now(rules, input, k) = ApplyRule(rules[k], Now(rules, input, k - 1))
  <2>1. Rounds(rules, input)[k] = Round(Rounds(rules, input)[k - 1], rules[k])
    BY RoundsDef
  <2> QED BY <2>1 DEF Now, Round
<1> QED BY <1>1, <1>2, <1>3

(* Two rounds that trim and collapse leave the words.                      *)
LEMMA TidyRounds ==
  ASSUME NEW rules \in Seq(Rules), NEW input \in Texts, NEW k \in 1..Len(rules),
         k + 1 <= Len(rules),
         IsTrim(rules[k]), IsCollapse(rules[k + 1])
  PROVE  Now(rules, input, k + 1) = Join(Fields(Now(rules, input, k - 1)))
<1>1. k - 1 \in 0..Len(rules) /\ k + 1 \in 1..Len(rules) /\ (k + 1) - 1 = k
  OBVIOUS
<1> DEFINE s == Now(rules, input, k - 1)
<1>2. /\ Now(rules, input, k) = ApplyRule(rules[k], s)
      /\ Now(rules, input, k + 1) = ApplyRule(rules[k + 1], Now(rules, input, k))
      /\ s \in Texts
  BY <1>1, NowIs
<1> HIDE DEF s
<1>3. Now(rules, input, k) = TrimSpace(s)
  BY <1>2 DEF ApplyRule, IsTrim
<1>4. Now(rules, input, k + 1) = CollapseWhitespace(TrimSpace(s))
  BY <1>2, <1>3 DEF ApplyRule, IsCollapse
<1> QED BY <1>2, <1>4, TidyText DEF s

-----------------------------------------------------------------------------
(* Phrases, told in words.                                                 *)

LEMMA StripType ==
  ASSUME NEW W \in Seq(Words), NEW P \in Seq(Words)
  PROVE  Strip(W, P) \in Seq(Words)
<1>1. CASE IsPrefix(P, W)
  <2>1. Len(P) \in Nat /\ Len(W) \in Nat /\ \A k \in (Len(P) + 1)..Len(W) : W[k] \in Words
    OBVIOUS
  <2>2. SubSeq(W, Len(P) + 1, Len(W)) \in Seq(Words)
    BY <2>1, SubSeqProperties
  <2> QED BY <1>1, <2>2 DEF Strip
<1>2. CASE ~IsPrefix(P, W)
  BY <1>2 DEF Strip
<1> QED BY <1>1, <1>2

(* A text that begins with a phrase consists of the phrase's words and     *)
(* those of the rest.                                                      *)
LEMMA PrefixSplits ==
  ASSUME NEW s \in Texts, NEW p \in Texts, HasPrefixPhrase(s, p)
  PROVE  /\ SubSeq(s, Len(p) + 1, Len(s)) \in Texts
         /\ Fields(s) = Fields(p) \o Fields(SubSeq(s, Len(p) + 1, Len(s)))
<1> DEFINE m == Len(p)
           r == SubSeq(s, m + 1, Len(s))
<1>1. /\ m \in Nat /\ Len(s) \in Nat /\ m <= Len(s) /\ SubSeq(s, 1, m) = p
      /\ Len(s) = m \/ s[m + 1] \in Spaces
  <2>1. SubSeq(p, 1, Len(p)) = p
    BY SubSeqFull DEF Texts
  <2> QED BY <2>1 DEF HasPrefixPhrase, IsPrefix, Texts
<1>2. r \in Texts /\ Len(r) = Len(s) - m /\ \A k \in 1..(Len(s) - m) : r[k] = s[m + k]
  BY <1>1 DEF Texts
<1>3. CASE Len(s) = m
  <2>1. r = <<>> /\ s = p
    BY <1>1, <1>3 DEF Texts
  <2>2. Fields(p) \o <<>> = Fields(p)
    BY FieldsType
  <2> QED BY <1>2, <2>1, <2>2, FieldsOfNothing
<1>4. CASE Len(s) # m
  <2>1. m + 1 \in 1..Len(s) /\ s[m + 1] \in Spaces /\ (m + 1) - 1 = m
    BY <1>1, <1>4
  <2>2. Fields(s) = Fields(p) \o Fields(SubSeq(s, (m + 1) + 1, Len(s)))
    BY <1>1, <2>1, SplitAt
  <2>3. SubSeq(s, (m + 1) + 1, Len(s)) = SubSeq(r, 2, Len(r))
    BY <1>1, <1>2, <2>1 DEF Texts
  <2> HIDE DEF r
  <2>4. Fields(SubSeq(r, 2, Len(r))) = Fields(r)
    <3>1. 2 \in 1..(Len(r) + 1) /\ \A k \in 1..(2 - 1) : r[k] \in Spaces
      <4> HIDE DEF m
      <4>a. Len(s) - m >= 1
        BY <1>1, <2>1
      <4>1. 1 \in 1..(Len(s) - m) /\ Len(r) >= 1
        BY <1>1, <1>2, <4>a
      <4>2. r[1] = s[m + 1]
        BY <1>2, <4>1
      <4>3. \A k \in 1..(2 - 1) : k = 1
        OBVIOUS
      <4> QED BY <1>2, <2>1, <4>1, <4>2, <4>3
    <3> QED BY <1>2, <3>1, FieldsFrom
  <2>5. Fields(s) = Fields(p) \o Fields(r)
    BY <2>2, <2>3, <2>4
  <2> QED BY <1>2, <2>5 DEF r
<1> QED BY <1>3, <1>4

(* A joined text begins with a phrase if its words begin with the phrase's *)
LEMMA PrefixOfJoin ==
  ASSUME NEW W \in Seq(Words), NEW P \in Seq(Words), P # <<>>, IsPrefix(P, W)
  PROVE  HasPrefixPhrase(Join(W), Join(P))
<1> DEFINE q == Len(P)
           s == Join(W)
           p == Join(P)
<1>1. q \in Nat /\ 0 < q /\ q <= Len(W) /\ Len(W) \in Nat /\ \A k \in 1..q : P[k] = W[k]
  <2>1. q <= Len(W) /\ SubSeq(P, 1, q) = SubSeq(W, 1, q)
    BY DEF IsPrefix
  <2>2. q \in Nat /\ 0 < q /\ Len(W) \in Nat
    OBVIOUS
  <2>3. ASSUME NEW k \in 1..q PROVE P[k] = W[k]
    <3>1. SubSeq(P, 1, q)[k] = P[k] /\ SubSeq(W, 1, q)[k] = W[k]
      BY <2>1, <2>2
    <3> QED BY <2>1, <3>1
  <2> QED BY <2>1, <2>2, <2>3
<1>2. Joined(W)[q] = p
  BY <1>1, JoinedAlike DEF Join
<1>3. s \in Texts /\ p \in Texts /\ Len(s) \in Nat /\ Len(p) \in Nat
  BY JoinType DEF Texts
<1>4. CASE q = Len(W)
  <2>1. s = p
    BY <1>2, <1>4 DEF Join
  <2> QED BY <1>3, <2>1 DEF HasPrefixPhrase, IsPrefix
<1>5. CASE q # Len(W)
  <2>1. q < Len(W)
    BY <1>1, <1>5
  <2>3. PICK t \in Texts : s = p \o <<Gap>> \o t
    BY <1>1, <1>2, <2>1, JoinBegins
  <2> HIDE DEF s, p
  <2>4. /\ Len(s) = Len(p) + 1 + Len(t) /\ Len(t) \in Nat
        /\ \A k \in 1..Len(p) : s[k] = p[k]
        /\ s[Len(p) + 1] = Gap
    <3> DEFINE u == p \o <<Gap>> \o t
    <3>1. /\ Len(u) = Len(p) + 1 + Len(t) /\ Len(t) \in Nat
          /\ \A k \in 1..Len(p) : u[k] = p[k]
          /\ u[Len(p) + 1] = Gap
      BY <1>3, GapIsSpace, SpacedText
    <3> QED BY <2>3, <3>1
  <2>5. SubSeq(p, 1, Len(p)) = SubSeq(s, 1, Len(p)) /\ Len(p) <= Len(s)
    BY <1>3, <2>4 DEF Texts
  <2>6. HasPrefixPhrase(s, p)
    <3>1. s[Len(p) + 1] \in Spaces
      BY <2>4, GapIsSpace
    <3> QED BY <2>5, <3>1 DEF HasPrefixPhrase, IsPrefix
  <2> QED BY <2>6 DEF s, p
<1> QED BY <1>4, <1>5

(* A prefix removed from a joined text is removed from its words.          *)
LEMMA PrefixByWords ==
  ASSUME NEW W \in Seq(Words), NEW P \in Seq(Words), P # <<>>,
         NEW r, IsPrefixOf(r), r.pattern = Join(P)
  PROVE  Fields(ApplyRule(r, Join(W))) = Strip(W, P)
<1> DEFINE s == Join(W)
           p == Join(P)
<1>1. s \in Texts /\ p \in Texts /\ Fields(s) = W /\ Fields(p) = P
  BY JoinType, FieldsOfJoin
<1>2. HasPrefixPhrase(s, p) => ApplyRule(r, s) = SubSeq(s, Len(p) + 1, Len(s))
  BY DEF ApplyRule, IsPrefixOf
<1>3. ~HasPrefixPhrase(s, p) => ApplyRule(r, s) = s
  BY DEF ApplyRule, IsPrefixOf
<1>4. IsPrefix(P, W) => HasPrefixPhrase(s, p)
  BY PrefixOfJoin
<1> HIDE DEF s, p
<1>5. CASE HasPrefixPhrase(s, p)
  <2> DEFINE V == Fields(SubSeq(s, Len(p) + 1, Len(s)))
  <2>1. V \in Seq(Words) /\ W = P \o V
    BY <1>1, <1>5, PrefixSplits, FieldsType
  <2>2. ApplyRule(r, s) = SubSeq(s, Len(p) + 1, Len(s))
    BY <1>2, <1>5
  <2> HIDE DEF V
  <2>3. SubSeq(W, Len(P) + 1, Len(W)) = V
    <3>1. Len(W) = Len(P) + Len(V) /\ \A k \in 1..Len(V) : W[Len(P) + k] = V[k]
      BY <2>1
    <3>2. Len(P) \in Nat /\ Len(V) \in Nat /\ \A k \in (Len(P) + 1)..Len(W) : W[k] \in Words
      BY <2>1
    <3> DEFINE R == SubSeq(W, Len(P) + 1, Len(W))
    <3>3. R \in Seq(Words) /\ Len(R) = Len(V) /\ \A k \in 1..Len(V) : R[k] = W[Len(P) + k]
      BY <3>1, <3>2
    <3> HIDE DEF R
    <3>4. R = V
      BY <2>1, <3>1, <3>3, SeqEqual
    <3> QED BY <3>4 DEF R
  <2>4. IsPrefix(P, W)
    BY <2>1 DEF IsPrefix
  <2> QED BY <2>2, <2>3, <2>4 DEF Strip, V, s
<1>6. CASE ~HasPrefixPhrase(s, p)
  <2>1. ApplyRule(r, s) = s /\ ~IsPrefix(P, W)
    BY <1>3, <1>4, <1>6
  <2> QED BY <1>1, <2>1 DEF Strip, s
<1> QED BY <1>5, <1>6

LEMMA SuffixIs ==
  ASSUME NEW s \in Texts, NEW w \in Texts
  PROVE  IsSuffix(w, s) <=>
           Len(w) <= Len(s) /\ \A k \in 1..Len(w) : s[Len(s) - Len(w) + k] = w[k]
<1> DEFINE n == Len(s)
           m == Len(w)
           a == Reverse(w)
           b == Reverse(s)
<1>1. n \in Nat /\ m \in Nat /\ \A k \in 1..n : s[k] \in Tokens
  BY DEF Texts
<1>2. /\ a \in Seq(Tokens) /\ Len(a) = m /\ \A k \in 1..m : a[k] = w[(m - k) + 1]
  BY <1>1 DEF Reverse, Texts
<1>3. /\ b \in Seq(Tokens) /\ Len(b) = n /\ \A k \in 1..n : b[k] = s[(n - k) + 1]
  BY <1>1 DEF Reverse, Texts
<1> HIDE DEF a, b
<1>4. IsSuffix(w, s) <=> m <= n /\ SubSeq(a, 1, m) = SubSeq(b, 1, m)
  BY <1>2, <1>3 DEF IsSuffix, IsPrefix, a, b
<1> HIDE DEF n, m
<1>5. ASSUME m <= n
      PROVE  SubSeq(a, 1, m) = SubSeq(b, 1, m) <=> \A k \in 1..m : a[k] = b[k]
  <2>1. SubSeq(a, 1, m) \in Seq(Tokens) /\ Len(SubSeq(a, 1, m)) = m
    BY <1>1, <1>2
  <2>2. SubSeq(b, 1, m) \in Seq(Tokens) /\ Len(SubSeq(b, 1, m)) = m
    BY <1>1, <1>3, <1>5
  <2>3. ASSUME NEW k \in 1..m PROVE SubSeq(a, 1, m)[k] = a[k] /\ SubSeq(b, 1, m)[k] = b[k]
    BY <1>1, <1>2, <1>3, <1>5
  <2> DEFINE c == SubSeq(a, 1, m)
             d == SubSeq(b, 1, m)
  <2>4. ASSUME \A k \in 1..m : a[k] = b[k] PROVE c = d
    <3>1. \A k \in 1..Len(c) : c[k] = d[k]
      BY <2>1, <2>3, <2>4
    <3> HIDE DEF c, d
    <3> QED BY <2>1, <2>2, <3>1, SeqEqual DEF c, d
  <2> QED BY <2>3, <2>4
<1>6. ASSUME m <= n
      PROVE  (\A k \in 1..m : a[k] = b[k]) <=> \A k \in 1..m : s[n - m + k] = w[k]
  <2>1. ASSUME \A k \in 1..m : a[k] = b[k], NEW k \in 1..m PROVE s[n - m + k] = w[k]
    <3>1. m - k + 1 \in 1..m /\ m - k + 1 \in 1..n
      BY <1>1, <1>6
    <3>2. (m - (m - k + 1)) + 1 = k /\ (n - (m - k + 1)) + 1 = n - m + k
      BY <1>1
    <3> QED BY <1>2, <1>3, <2>1, <3>1, <3>2
  <2>2. ASSUME \A k \in 1..m : s[n - m + k] = w[k], NEW k \in 1..m PROVE a[k] = b[k]
    <3>1. (m - k) + 1 \in 1..m /\ k \in 1..n /\ n - m + ((m - k) + 1) = (n - k) + 1
      BY <1>1, <1>6
    <3>2. s[n - m + ((m - k) + 1)] = w[(m - k) + 1]
      BY <2>2, <3>1
    <3>3. a[k] = w[(m - k) + 1] /\ b[k] = s[(n - k) + 1]
      BY <1>2, <1>3, <3>1
    <3> QED BY <3>1, <3>2, <3>3
  <2> QED BY <2>1, <2>2
<1> QED BY <1>4, <1>5, <1>6 DEF n, m

(* A last word removed from a joined text is removed from its words.       *)
LEMMA SuffixByWord ==
  ASSUME NEW W \in Seq(Words), NEW w \in Words,
         NEW r, IsSuffixOf(r), r.pattern = w
  PROVE  Fields(ApplyRule(r, Join(W))) = IF W # <<>> /\ Last(W) = w THEN Front(W) ELSE W
<1> DEFINE s == Join(W)
           m == Len(s) - Len(w)
<1>1. s \in Texts /\ w \in Texts /\ Fields(s) = W /\ Fields(w) = <<w>>
  BY JoinType, FieldsOfJoin, FieldsOfWord
<1>2. Len(s) \in Nat /\ Len(w) \in Nat /\ m \in Int
  BY <1>1 DEF Texts
<1>3. HasSuffixPhrase(s, w) => ApplyRule(r, s) = SubSeq(s, 1, m)
  BY DEF ApplyRule, IsSuffixOf
<1>4. ~HasSuffixPhrase(s, w) => ApplyRule(r, s) = s
  BY DEF ApplyRule, IsSuffixOf
<1>5. HasSuffixPhrase(s, w) <=>
        /\ Len(w) <= Len(s) /\ \A k \in 1..Len(w) : s[m + k] = w[k]
        /\ Len(s) = Len(w) \/ s[m] \in Spaces
  BY <1>1, SuffixIs DEF HasSuffixPhrase
<1> HIDE DEF s
<1>6. CASE HasSuffixPhrase(s, w)
  <2>1. ApplyRule(r, s) = SubSeq(s, 1, m)
    BY <1>3, <1>6
  <2>2. CASE Len(s) = Len(w)
    <3>1. s = w
      <4>1. m = 0 /\ \A k \in 1..Len(w) : m + k = k
        BY <1>2, <2>2
      <4>2. \A k \in 1..Len(s) : s[k] = w[k]
        BY <1>5, <1>6, <2>2, <4>1
      <4> QED BY <1>1, <2>2, <4>2, SeqEqual DEF Texts
    <3>2. W = <<w>> /\ SubSeq(s, 1, m) = <<>>
      BY <1>1, <1>2, <2>2, <3>1
    <3>3. W # <<>> /\ Last(W) = w /\ Front(W) = <<>>
      BY <3>2 DEF Last, Front
    <3> QED BY <2>1, <3>2, <3>3, FieldsOfNothing DEF s
  <2>3. CASE Len(s) # Len(w)
    <3>1. m \in 1..Len(s) /\ s[m] \in Spaces
      BY <1>2, <1>5, <1>6, <2>3
    <3> DEFINE u == SubSeq(s, 1, m - 1)
               v == SubSeq(s, m + 1, Len(s))
               q == SubSeq(s, 1, m)
    <3>2. W = Fields(u) \o Fields(v)
      BY <1>1, <3>1, SplitAt
    <3>3. v = w
      <4>1. v \in Texts /\ Len(v) = Len(w) /\ \A k \in 1..Len(w) : v[k] = s[m + k]
        BY <1>1, <1>2, <3>1 DEF Texts
      <4>2. \A k \in 1..Len(v) : v[k] = w[k]
        BY <1>5, <1>6, <4>1
      <4> HIDE DEF v
      <4> QED BY <1>1, <4>1, <4>2, SeqEqual DEF Texts
    <3>4. u \in Texts /\ Fields(u) \in Seq(Words)
      <4>1. u \in Texts
        BY <1>1, <1>2, <3>1 DEF Texts
      <4> QED BY <4>1, FieldsType
    <3>5. Fields(q) = Fields(u)
      <4>1. /\ q \in Texts /\ Len(q) = m /\ q[m] = s[m]
            /\ SubSeq(q, 1, m - 1) = u
        BY <1>1, <1>2, <3>1 DEF Texts
      <4> HIDE DEF q, u, m
      <4>2. m - 1 \in 0..Len(q) /\ \A k \in ((m - 1) + 1)..Len(q) : k = m
        BY <1>2, <3>1, <4>1
      <4>3. \A k \in ((m - 1) + 1)..Len(q) : q[k] \in Spaces
        BY <3>1, <4>1, <4>2
      <4>4. Fields(SubSeq(q, 1, m - 1)) = Fields(q)
        BY <4>1, <4>2, <4>3, FieldsUpTo
      <4> QED BY <4>1, <4>4
    <3> DEFINE V == Fields(u)
    <3>6. W = V \o <<w>> /\ V \in Seq(Words)
      BY <1>1, <3>2, <3>3, <3>4
    <3> HIDE DEF V
    <3>7. W # <<>> /\ Last(W) = w
      BY <3>6 DEF Last
    <3>8. Front(W) = V
      BY <3>6 DEF Front
    <3> QED BY <2>1, <3>5, <3>7, <3>8 DEF V, s
  <2> QED BY <2>2, <2>3
<1>7. CASE ~HasSuffixPhrase(s, w)
  <2>1. ~(W # <<>> /\ Last(W) = w)
    <3> SUFFICES ASSUME W # <<>>, Last(W) = w PROVE FALSE
      OBVIOUS
    <3> DEFINE n == Len(W)
    <3>1. n \in Nat /\ 1 <= n /\ W[n] = w
      BY DEF Last
    <3>2. CASE n = 1
      <4>1. s = w
        <5>1. Joined(W)[1] = W[1]
          BY <3>1, JoinedDef
        <5> QED BY <3>1, <3>2, <5>1 DEF s, Join
      <4>2. m = 0 /\ \A k \in 1..Len(w) : m + k = k
        BY <1>2, <4>1
      <4> QED BY <1>2, <1>5, <1>7, <4>1, <4>2
    <3>3. CASE n # 1
      <4> DEFINE u == Joined(W)[n - 1]
      <4>2. n \in 2..n /\ n - 1 \in 0..n
        <5> HIDE DEF n
        <5> QED BY <3>1, <3>3
      <4>3. s = u \o <<Gap>> \o w /\ u \in Texts
        <5>1. Joined(W)[n] = u \o <<Gap>> \o W[n]
          BY <4>2, JoinedDef
        <5>2. u \in Texts
          BY <4>2, JoinedDef
        <5> QED BY <3>1, <5>1, <5>2 DEF s, Join
      <4> HIDE DEF u
      <4> DEFINE z == u \o <<Gap>> \o w
      <4>4. /\ Len(u) \in Nat /\ Len(z) = Len(u) + 1 + Len(w)
            /\ z[Len(u) + 1] = Gap
            /\ \A k \in 1..Len(w) : z[Len(u) + 1 + k] = w[k]
        <5>1. u \in Texts /\ w \in Texts
          BY <1>1, <4>3
        <5>2. /\ z \in Texts /\ Len(u) \in Nat /\ Len(w) \in Nat /\ Len(z) = Len(u) + 1 + Len(w)
              /\ \A k \in 1..Len(u) : z[k] = u[k]
              /\ z[Len(u) + 1] = Gap
              /\ \A k \in 1..Len(w) : z[Len(u) + 1 + k] = w[k]
          BY <5>1, GapIsSpace, SpacedText
        <5> QED BY <5>2
      <4> HIDE DEF z
      <4>5. s = z
        BY <4>3 DEF z
      <4>6. m = Len(u) + 1 /\ Len(w) <= Len(s)
        BY <1>2, <4>4, <4>5
      <4>7. s[m] \in Spaces
        BY <4>4, <4>5, <4>6, GapIsSpace
      <4>8. \A k \in 1..Len(w) : s[m + k] = w[k]
        BY <4>4, <4>5, <4>6
      <4> QED BY <1>5, <1>7, <4>6, <4>7, <4>8
    <3> QED BY <3>2, <3>3
  <2> QED BY <1>1, <1>4, <1>7, <2>1 DEF s
<1> QED BY <1>6, <1>7

-----------------------------------------------------------------------------
(* The default rules, told in words.                                       *)

Phrase(k) == Fields(Leading[k][2])

LEMMA StrippedDef ==
  ASSUME NEW words \in Seq(Words), \A k \in 1..7 : Phrase(k) \in Seq(Words)
  PROVE  /\ Stripped(words)[0] = words
         /\ \A k \in 1..7 : Stripped(words)[k] = Strip(Stripped(words)[k - 1], Phrase(k))
         /\ \A k \in 0..7 : Stripped(words)[k] \in Seq(Words)
<1> DEFINE n == Len(Leading)
           A == Seq(Words)
           G == [p \in (1..n) \X A |-> Strip(p[2], Phrase(p[1]))]
           Is(f) == f = [k \in 0..n |-> IF k = 0 THEN words ELSE Strip(f[k - 1], Phrase(k))]
<1>0. n = 7 /\ n \in Nat
  BY LeadingLen
<1> HIDE DEF n
<1>1. G \in [(1..n) \X A -> A]
  BY <1>0, StripType
<1>2. PICK f : IsLoop(f, A, n, words, G)
  <2> HIDE DEF G, A
  <2>1. words \in A
    BY DEF A
  <2> QED BY <2>1, <1>0, <1>1, Loop
<1>3. ASSUME NEW k \in 1..n
      PROVE  f[k] = Strip(f[k - 1], Phrase(k))
  <2>1. f[k] = G[<<k, f[k - 1]>>]
    BY <1>2 DEF IsLoop
  <2>2. f[k - 1] \in A
    <3> HIDE DEF A, G
    <3> QED BY <1>0, <1>2 DEF IsLoop
  <2> QED BY <2>1, <2>2
<1>4. Is(f)
  BY <1>0, <1>2, <1>3 DEF IsLoop
<1>5. Is(Stripped(words))
  BY <1>4 DEF Stripped, Phrase, n
<1> DEFINE g == Stripped(words)
<1> HIDE DEF g
<1>6. g = [k \in 0..n |-> IF k = 0 THEN words ELSE Strip(g[k - 1], Phrase(k))]
  BY <1>5 DEF g
<1>7. g[0] = words
  BY <1>0, <1>6
<1>8. \A k \in 1..n : g[k] = Strip(g[k - 1], Phrase(k))
  BY <1>0, <1>6
<1>9. \A k \in 0..n : g[k] \in A
  <2> HIDE DEF A
  <2>1. g[0] \in A
    BY <1>7 DEF A
  <2>2. ASSUME NEW k \in 1..n, g[k - 1] \in A PROVE g[k] \in A
    BY <1>0, <1>8, <2>2, StripType DEF A
  <2> QED BY <1>0, <2>1, <2>2, LoopPreserves
<1> QED BY <1>0, <1>7, <1>8, <1>9 DEF g

LEMMA JoinedFirst ==
  ASSUME NEW W \in Seq(Words), Len(W) >= 1
  PROVE  Joined(W)[1] = W[1]
  BY JoinedDef

LEMMA JoinOfOne ==
  ASSUME NEW W \in Seq(Words), Len(W) = 1
  PROVE  Join(W) = W[1]
<1>1. Joined(W)[1] = W[1]
  <2>1. Len(W) >= 1
    OBVIOUS
  <2> QED BY <2>1, JoinedFirst
<1> QED BY <1>1 DEF Join

LEMMA JoinOfTwo ==
  ASSUME NEW W \in Seq(Words), Len(W) = 2
  PROVE  Join(W) = W[1] \o <<Gap>> \o W[2]
<1>1. 1 <= Len(W) /\ 2 \in 2..Len(W) /\ 2 - 1 = 1
  OBVIOUS
<1>2. Joined(W)[1] = W[1]
  BY <1>1, JoinedDef
<1>3. Joined(W)[2] = Joined(W)[2 - 1] \o <<Gap>> \o W[2]
  BY <1>1, JoinedDef
<1>4. Joined(W)[2] = Joined(W)[1] \o <<Gap>> \o W[2]
  BY <1>1, <1>3
<1> QED BY <1>2, <1>4 DEF Join

LEMMA OneWord ==
  ASSUME NEW w \in Words
  PROVE  Fields(w) = <<w>> /\ <<w>> \in Seq(Words) /\ <<w>> # <<>> /\ Join(<<w>>) = w
<1>1. <<w>> \in Seq(Words) /\ Len(<<w>>) = 1 /\ <<w>>[1] = w /\ <<w>> # <<>>
  OBVIOUS
<1>2. Join(<<w>>) = <<w>>[1]
  BY <1>1, JoinOfOne
<1> QED BY <1>1, <1>2, FieldsOfWord

LEMMA PairOfTwo ==
  ASSUME NEW S, NEW a \in S, NEW b \in S
  PROVE  <<a>> \o <<b>> = <<a, b>> /\ <<a, b>> # <<>>
<1> DEFINE c == <<a>> \o <<b>>
           d == <<a, b>>
<1>1. c \in Seq(S) /\ Len(c) = 2 /\ c[1] = a /\ c[2] = b
  OBVIOUS
<1>2. d \in Seq(S) /\ Len(d) = 2 /\ d[1] = a /\ d[2] = b
  BY Pair
<1> HIDE DEF c, d
<1>3. \A k \in 1..Len(c) : c[k] = d[k]
  <2>1. \A k \in 1..2 : k = 1 \/ k = 2
    OBVIOUS
  <2> QED BY <1>1, <1>2, <2>1
<1>4. c = d
  BY <1>1, <1>2, <1>3, SeqEqual
<1>5. d # <<>>
  BY <1>2, EmptySeq
<1> QED BY <1>4, <1>5 DEF c, d

LEMMA TwoWords ==
  ASSUME NEW v \in Words, NEW w \in Words
  PROVE  /\ Fields(v \o <<Gap>> \o w) = <<v, w>>
         /\ <<v, w>> \in Seq(Words) /\ <<v, w>> # <<>>
         /\ Join(<<v, w>>) = v \o <<Gap>> \o w
<1>1. /\ <<v, w>> \in Seq(Words) /\ Len(<<v, w>>) = 2 /\ <<v, w>>[1] = v /\ <<v, w>>[2] = w
      /\ <<v, w>> # <<>> /\ <<v>> \o <<w>> = <<v, w>>
  BY Pair, PairOfTwo
<1>2. v \in Texts /\ w \in Texts /\ Fields(v) = <<v>> /\ Fields(w) = <<w>>
  BY FieldsOfWord
<1>3. Fields(v \o <<Gap>> \o w) = <<v>> \o <<w>>
  BY <1>2, GapIsSpace, FieldsSplit
<1>4. Join(<<v, w>>) = <<v, w>>[1] \o <<Gap>> \o <<v, w>>[2]
  <2>1. <<v, w>> \in Seq(Words) /\ Len(<<v, w>>) = 2
    BY <1>1
  <2> DEFINE W == <<v, w>>
  <2> HIDE DEF W
  <2>2. Join(W) = W[1] \o <<Gap>> \o W[2]
    BY <2>1, JoinOfTwo DEF W
  <2> QED BY <2>2 DEF W
<1> QED BY <1>1, <1>3, <1>4

(* A phrase of one piece, and of two.                                      *)
IsPhrase(p) == Fields(p) \in Seq(Words) /\ Fields(p) # <<>> /\ Join(Fields(p)) = p

LEMMA PhraseOfOne ==
  ASSUME NEW a, a \notin Spaces, <<a>> \in Texts
  PROVE  <<a>> \in Words /\ IsPhrase(<<a>>)
<1>1. a \in Tokens
  <2> DEFINE p == <<a>>
  <2>1. p[1] = a /\ Len(p) = 1
    OBVIOUS
  <2> HIDE DEF p
  <2>2. p \in Seq(Tokens)
    BY DEF Texts, p
  <2>3. p[1] \in Tokens
    BY <2>1, <2>2
  <2> QED BY <2>1, <2>3
<1>2. <<a>> \in Words
  BY <1>1 DEF Words, Pieces
<1>3. <<<<a>>>> # <<>>
  OBVIOUS
<1> QED BY <1>2, <1>3, OneWord DEF IsPhrase

LEMMA PhraseOfTwo ==
  ASSUME NEW a, NEW b, a \notin Spaces, b \notin Spaces,
         <<a, Gap, b>> \in Texts
  PROVE  IsPhrase(<<a, Gap, b>>)
<1> DEFINE p == <<a, Gap, b>>
<1>1. p[1] = a /\ p[2] = Gap /\ p[3] = b /\ Len(p) = 3
  OBVIOUS
<1>2. p \in Seq(Tokens)
  BY DEF Texts
<1> HIDE DEF p
<1>3. a \in Tokens /\ b \in Tokens /\ Gap \in Tokens
  BY <1>1, <1>2
<1>4. <<a>> \in Words /\ <<b>> \in Words
  BY <1>3 DEF Words, Pieces
<1> DEFINE u == <<a>> \o <<Gap>> \o <<b>>
<1>5. u \in Seq(Tokens) /\ Len(u) = 3 /\ u[1] = a /\ u[2] = Gap /\ u[3] = b
  BY <1>3
<1>6. p = u
  <2> HIDE DEF u
  <2>1. \A k \in 1..Len(p) : p[k] = u[k]
    <3> SUFFICES ASSUME NEW k \in 1..3 PROVE p[k] = u[k]
      BY <1>1
    <3> QED BY <1>1, <1>5
  <2> QED BY <1>1, <1>2, <1>5, <2>1, SeqEqual
<1>7. IsPhrase(u)
  BY <1>4, TwoWords DEF IsPhrase
<1> QED BY <1>6, <1>7 DEF p

LEMMA LeadingPhrases ==
  ASSUME DefaultRules \in Seq(Rules)
  PROVE  /\ \A k \in 1..7 : Leading[k][2] \in Texts /\ IsPhrase(Leading[k][2])
         /\ Please \in Words
<1>1. \A k \in 1..26 : DefaultRules[k].pattern \in Texts
  <2>1. \A k \in 1..26 : DefaultRules[k] \in Rules
    <3> DEFINE D == DefaultRules
    <3> HIDE DEF D
    <3>1. D \in Seq(Rules) /\ Len(D) = 26
      BY DefaultRulesAre DEF D
    <3>2. \A k \in 1..26 : D[k] \in Rules
      BY <3>1, ElementOfSeq
    <3> QED BY <3>2 DEF D
  <2> QED BY <2>1 DEF Rules
<1>2. ASSUME NEW k \in 1..7 PROVE Leading[k][2] \in Texts
  <2>1. DefaultRules[3 * k].pattern = Leading[k][2]
    BY DefaultRulesAre
  <2>2. 3 * k \in 1..26
    OBVIOUS
  <2> QED BY <1>1, <2>1, <2>2
<1>3. Please \in Texts
  <2>1. 24 \in 1..26 /\ DefaultRules[24].pattern = Please
    BY DefaultRulesAre
  <2> QED BY <1>1, <2>1
<1>5. /\ "okey" \notin Spaces /\ "hey" \notin Spaces /\ "listen" \notin Spaces
      /\ "hermes" \notin Spaces /\ "nu" \notin Spaces /\ "ee" \notin Spaces
      /\ "em" \notin Spaces /\ "please" \notin Spaces
  BY DEF Spaces
<1>6. /\ Leading[1][2] = <<"okey", Gap, "hermes">> /\ Leading[2][2] = <<"hey", Gap, "hermes">>
      /\ Leading[3][2] = <<"listen", Gap, "hermes">>
  BY LeadingAre DEF Gap
<1>7. IsPhrase(Leading[1][2]) /\ IsPhrase(Leading[2][2]) /\ IsPhrase(Leading[3][2])
  <2>1. Leading[1][2] \in Texts /\ Leading[2][2] \in Texts /\ Leading[3][2] \in Texts
    BY <1>2
  <2> QED BY <1>5, <1>6, <2>1, PhraseOfTwo
<1>8. /\ IsPhrase(Leading[4][2]) /\ IsPhrase(Leading[5][2])
      /\ IsPhrase(Leading[6][2]) /\ IsPhrase(Leading[7][2])
  <2>1. /\ Leading[4][2] \in Texts /\ Leading[5][2] \in Texts
        /\ Leading[6][2] \in Texts /\ Leading[7][2] \in Texts
    BY <1>2
  <2> QED BY <1>5, <2>1, LeadingAre, PhraseOfOne
<1>9. Please \in Words
  BY <1>3, <1>5, PhraseOfOne DEF Please
<1>10. ASSUME NEW k \in 1..7 PROVE IsPhrase(Leading[k][2])
  <2>1. k = 1 \/ k = 2 \/ k = 3 \/ k = 4 \/ k = 5 \/ k = 6 \/ k = 7
    OBVIOUS
  <2> QED BY <1>7, <1>8, <2>1
<1> QED BY <1>2, <1>9, <1>10

(* The words the default rules leave, if any.                              *)
WithoutPlease(rest) == IF rest # <<>> /\ Last(rest) = Please THEN Front(rest) ELSE rest

Left(words) == WithoutPlease(Stripped(words)[7])

(* Each three rounds of the default rules strip one phrase, and the last   *)
(* three a final "please".                                                 *)
LEMMA StrippedByRounds ==
  ASSUME DefaultRules \in Seq(Rules), NEW input \in Texts
  PROVE  /\ \A i \in 0..7 :
              Now(DefaultRules, input, 3 * i + 2) = Join(Stripped(Fields(input))[i])
         /\ \A i \in 0..7 : Stripped(Fields(input))[i] \in Seq(Words)
<1> DEFINE D == DefaultRules
           T(j) == Now(D, input, j)
           W == Fields(input)
           g == Stripped(W)
           S == {i \in 0..7 : T(3 * i + 2) = Join(g[i])}
<1>0. D \in Seq(Rules) /\ Len(D) = 26 /\ W \in Seq(Words)
  BY DefaultRulesAre, FieldsType
<1>1. IsTrim(D[1]) /\ IsCollapse(D[2])
  BY DefaultRulesAre
<1>2. \A i \in 1..7 : /\ IsPrefixOf(D[3 * i]) /\ D[3 * i].pattern = Leading[i][2]
                      /\ IsTrim(D[3 * i + 1]) /\ IsCollapse(D[3 * i + 2])
  BY DefaultRulesAre
<1>3. \A k \in 1..7 : /\ Phrase(k) \in Seq(Words) /\ Phrase(k) # <<>>
                      /\ Join(Phrase(k)) = Leading[k][2]
  BY LeadingPhrases DEF IsPhrase, Phrase
<1>4. /\ g[0] = W /\ \A k \in 1..7 : g[k] = Strip(g[k - 1], Phrase(k))
      /\ \A k \in 0..7 : g[k] \in Seq(Words)
  BY <1>0, <1>3, StrippedDef
<1> HIDE DEF D, W, g
<1>5. T(0) = input /\ \A k \in 1..26 : T(k) = ApplyRule(D[k], T(k - 1))
  BY <1>0, NowIs
<1>6. 0 \in S
  <2>1. T(1 + 1) = Join(Fields(T(1 - 1)))
    <3>1. 1 \in 1..Len(D) /\ 1 + 1 <= Len(D) /\ 1 + 1 = 2
      BY <1>0
    <3>2. IsTrim(D[1]) /\ IsCollapse(D[1 + 1])
      BY <1>1, <3>1
    <3> QED BY <1>0, <3>1, <3>2, TidyRounds
  <2>2. T(2) = Join(W)
    <3>1. 1 + 1 = 2 /\ 1 - 1 = 0
      OBVIOUS
    <3> QED BY <2>1, <3>1, <1>5 DEF W
  <2>3. 3 * 0 + 2 = 2 /\ 0 \in 0..7
    OBVIOUS
  <2> QED BY <2>2, <2>3, <1>4
<1>7. ASSUME NEW i \in 0..(7 - 1), i \in S
      PROVE  i + 1 \in S
  <2> DEFINE k == 3 * (i + 1)
  <2>1. /\ i + 1 \in 1..7 /\ (i + 1) - 1 = i /\ k \in 1..26 /\ k - 1 = 3 * i + 2
        /\ k + 1 \in 1..26 /\ (k + 1) + 1 <= 26 /\ (k + 1) + 1 = k + 2 /\ (k + 1) - 1 = k
        /\ i \in 0..7
    OBVIOUS
  <2>2. /\ IsPrefixOf(D[k]) /\ D[k].pattern = Leading[i + 1][2]
        /\ IsTrim(D[k + 1]) /\ IsCollapse(D[k + 2])
    BY <1>2, <2>1
  <2> HIDE DEF k
  <2>3. T(k) = ApplyRule(D[k], Join(g[i]))
    <3>1. T(k) = ApplyRule(D[k], T(k - 1))
      BY <1>5, <2>1
    <3>2. T(k - 1) = Join(g[i])
      BY <1>7, <2>1
    <3> QED BY <3>1, <3>2
  <2>4. Fields(T(k)) = g[i + 1]
    <3>1. g[i] \in Seq(Words) /\ g[i + 1] = Strip(g[i], Phrase(i + 1))
      BY <1>4, <2>1
    <3>2. /\ Phrase(i + 1) \in Seq(Words) /\ Phrase(i + 1) # <<>>
          /\ D[k].pattern = Join(Phrase(i + 1))
      BY <1>3, <2>1, <2>2
    <3>3. Fields(ApplyRule(D[k], Join(g[i]))) = Strip(g[i], Phrase(i + 1))
      BY <2>2, <3>1, <3>2, PrefixByWords
    <3> QED BY <2>3, <3>1, <3>3
  <2>5. T((k + 1) + 1) = Join(Fields(T((k + 1) - 1)))
    BY <1>0, <2>1, <2>2, TidyRounds
  <2>6. T(k + 2) = Join(g[i + 1])
    BY <2>1, <2>4, <2>5
  <2> QED BY <2>1, <2>6 DEF k
<1>8. \A i \in 0..7 : i \in S
  <2> HIDE DEF S
  <2> QED BY <1>6, <1>7, Induct
<1> QED BY <1>4, <1>8 DEF D, W, g

LEMMA DefaultCleaning ==
  ASSUME DefaultRules \in Seq(Rules), NEW input \in Texts
  PROVE  /\ Left(Fields(input)) \in Seq(Words)
         /\ Now(DefaultRules, input, 26) = Join(Left(Fields(input)))
<1> DEFINE D == DefaultRules
           T(j) == Now(D, input, j)
           rest == Stripped(Fields(input))[7]
<1>0. D \in Seq(Rules) /\ Len(D) = 26
  BY DefaultRulesAre
<1>1. IsSuffixOf(D[24]) /\ D[24].pattern = Please /\ IsTrim(D[25]) /\ IsCollapse(D[26])
  BY DefaultRulesAre
<1>2. T(23) = Join(rest) /\ rest \in Seq(Words)
  <2>1. T(3 * 7 + 2) = Join(rest) /\ rest \in Seq(Words)
    BY StrippedByRounds
  <2>2. 3 * 7 + 2 = 23
    OBVIOUS
  <2> QED BY <2>1, <2>2
<1>3. Please \in Words
  BY LeadingPhrases
<1> HIDE DEF D, rest
<1>4. T(24) = ApplyRule(D[24], Join(rest))
  <2>1. 24 \in 1..Len(D) /\ 24 - 1 = 23
    BY <1>0
  <2>2. T(24) = ApplyRule(D[24], T(24 - 1))
    BY <1>0, <2>1, NowIs
  <2> QED BY <1>2, <2>1, <2>2
<1>5. Fields(T(24)) = WithoutPlease(rest)
  <2>1. Fields(ApplyRule(D[24], Join(rest)))
          = IF rest # <<>> /\ Last(rest) = Please THEN Front(rest) ELSE rest
    BY <1>1, <1>2, <1>3, SuffixByWord
  <2> QED BY <1>4, <2>1 DEF WithoutPlease
<1>6. T(24) \in Texts
  <2>1. 24 \in 0..Len(D)
    BY <1>0
  <2> QED BY <1>0, <2>1, NowIs
<1>7. T(26) = Join(Fields(T(24)))
  <2>1. 25 \in 1..Len(D) /\ 25 + 1 <= Len(D) /\ 25 + 1 = 26 /\ 25 - 1 = 24
    BY <1>0
  <2>2. IsTrim(D[25]) /\ IsCollapse(D[25 + 1])
    BY <1>1, <2>1
  <2>3. T(25 + 1) = Join(Fields(T(25 - 1)))
    BY <1>0, <2>1, <2>2, TidyRounds
  <2> QED BY <2>1, <2>3
<1>8. WithoutPlease(rest) \in Seq(Words)
  BY <1>5, <1>6, FieldsType
<1> QED BY <1>5, <1>7, <1>8 DEF Left, D, rest

(* What a text that is not blank becomes under the default rules.          *)
LEMMA DefaultCleaned ==
  ASSUME NEW input \in Texts, ~IsBlank(input), DefaultRules \in Seq(Rules)
  PROVE  LET left == Left(Fields(input))
             words == IF left = <<>> THEN Fields(input) ELSE left
         IN  /\ words \in Seq(Words) /\ words # <<>>
             /\ CleanWithTrace(DefaultRules, input).cleaned = Join(words)
<1> DEFINE left == Left(Fields(input))
           acc == Rounds(DefaultRules, input)[Len(DefaultRules)]
<1>1. Len(DefaultRules) = 26
  BY DefaultRulesAre
<1>2. acc \in Accs /\ acc.current = Join(left) /\ left \in Seq(Words)
  <2>1. Now(DefaultRules, input, 26) = Join(left) /\ left \in Seq(Words)
    BY DefaultCleaning
  <2>2. acc.current = Now(DefaultRules, input, 26)
    BY <1>1 DEF Now
  <2>3. acc \in Accs
    <3> DEFINE D == DefaultRules
    <3> HIDE DEF D
    <3>1. D \in Seq(Rules)
      BY DEF D
    <3>2. Len(D) \in 0..Len(D)
      BY <3>1
    <3>3. Rounds(D, input)[Len(D)] \in Accs
      BY <3>1, <3>2, RoundsDef
    <3> QED BY <3>3 DEF D
  <2> QED BY <2>1, <2>2, <2>3
<1>3. CleanWithTrace(DefaultRules, input).cleaned = Fallback(input, acc).current
  BY DEF CleanWithTrace
<1>4. Fields(input) \in Seq(Words) /\ Fields(input) # <<>>
  BY FieldsOfBlank, FieldsType
<1> HIDE DEF acc, left
<1>5. CASE left = <<>>
  <2>1. acc.current = <<>>
    BY <1>2, <1>5, JoinOfNothing
  <2>2. Fallback(input, acc).current = CollapseWhitespace(input)
    BY <1>2, <2>1, FallbackGives
  <2> QED BY <1>3, <1>4, <1>5, <2>2 DEF CollapseWhitespace, left
<1>6. CASE left # <<>>
  <2>1. acc.current # <<>>
    BY <1>2, <1>6, JoinOfSome
  <2>2. Fallback(input, acc) = acc
    BY <1>2, <2>1, FallbackGives
  <2> QED BY <1>2, <1>3, <1>6, <2>2 DEF left
<1> QED BY <1>5, <1>6

LEMMA CleaningByWords ==
  ASSUME NEW input \in Texts, ~IsBlank(input), given \in Seq(Rules),
         result = CleanWithTrace(given, input)
  PROVE  CleanedByWords
<1> SUFFICES ASSUME given = DefaultRules
             PROVE  /\ Fields(result.cleaned) = ByWords(Fields(result.original))
                    /\ result.cleaned = CollapseWhitespace(result.cleaned)
  BY DEF CleanedByWords
<1> DEFINE words == IF Left(Fields(input)) = <<>> THEN Fields(input) ELSE Left(Fields(input))
<1>1. words \in Seq(Words) /\ result.cleaned = Join(words)
  BY DefaultCleaned
<1>2. result.original = input
  BY DEF CleanWithTrace
<1>3. ByWords(Fields(input)) = words
  BY LeadingLen DEF ByWords, Left, WithoutPlease, Please
<1> HIDE DEF words
<1>4. Fields(result.cleaned) = words
  BY <1>1, FieldsOfJoin
<1>5. CollapseWhitespace(result.cleaned) = Join(words)
  BY <1>4 DEF CollapseWhitespace
<1> QED BY <1>1, <1>2, <1>3, <1>4, <1>5

(* Something is left of a text that is not blank.                          *)
LEMMA CleanedIsSome ==
  ASSUME NEW rules \in Seq(Rules), NEW input \in Texts, ~IsBlank(input)
  PROVE  CleanWithTrace(rules, input).cleaned # <<>>
<1> DEFINE acc == Rounds(rules, input)[Len(rules)]
<1>1. acc \in Accs
  <2>1. Len(rules) \in 0..Len(rules)
    OBVIOUS
  <2> QED BY <2>1, RoundsDef
<1>2. CleanWithTrace(rules, input).cleaned = Fallback(input, acc).current
  BY DEF CleanWithTrace
<1> HIDE DEF acc
<1>3. Fallback(input, acc).current # <<>>
  BY <1>1, FallbackGives
<1> QED BY <1>2, <1>3

(* And under the default rules it has a word in it.                        *)
LEMMA DefaultHasWords ==
  ASSUME DefaultRules \in Seq(Rules), NEW input \in Texts, ~IsBlank(input)
  PROVE  ~IsBlank(CleanWithTrace(DefaultRules, input).cleaned)
<1> DEFINE words == IF Left(Fields(input)) = <<>> THEN Fields(input) ELSE Left(Fields(input))
<1>1. /\ words \in Seq(Words) /\ words # <<>>
      /\ CleanWithTrace(DefaultRules, input).cleaned = Join(words)
  BY DefaultCleaned
<1> HIDE DEF words
<1>2. ~IsBlank(Join(words))
  BY <1>1, JoinOfSome
<1> QED BY <1>1, <1>2
================================================================================
