-------------------------- MODULE Renderer_proofs --------------------------
(***************************************************************************)
(* Proofs about the renderer on its own: the accounts of its queues, and   *)
(* that a frame does not depend on what was kept from the frames before.   *)
(***************************************************************************)
EXTENDS Renderer, FiniteSetTheorems, SequenceTheorems, WellFoundedInduction, TLAPS

-----------------------------------------------------------------------------
(* Sums over a sequence, the account that BytesOf keeps.                   *)

\* A set of numbers has a least one, and induction over a set of numbers.
LEMMA LeastNumber ==
  ASSUME NEW T, T \subseteq Nat, T # {}
  PROVE  \E m \in T : \A n \in T : m <= n
<1>1. PICK m \in T : \A n \in T : ~ (<<n, m>> \in OpToRel(<, Nat))
  BY NatLessThanWellFounded, WFMin
<1>2. \A n \in T : ~(n < m)
  BY <1>1 DEF OpToRel
<1> QED
  BY <1>2

LEMMA UpTo ==
  ASSUME NEW N \in Nat, NEW S, 0 \in S, \A n \in 0..(N - 1) : n \in S => n + 1 \in S
  PROVE  \A n \in 0..N : n \in S
<1> SUFFICES ASSUME NEW n \in 0..N, n \notin S PROVE FALSE
  OBVIOUS
<1>0. PICK T : T = {k \in 0..N : k \notin S}
  OBVIOUS
<1>1. PICK m \in T : \A k \in T : m <= k
  <2>1. T \subseteq Nat /\ T # {}
    BY <1>0
  <2> QED
    BY <2>1, LeastNumber
<1>2. m # 0 /\ m - 1 \in 0..(N - 1)
  BY <1>0, <1>1
<1>3. m - 1 \in S
  BY <1>0, <1>1, <1>2
<1> QED
  BY <1>0, <1>1, <1>2, <1>3

\* The entries of a queue, of whatever kind, and what they come to one by one.
Sized(s) == /\ Len(s) \in Nat /\ DOMAIN s = 1..Len(s)
            /\ \A i \in 1..Len(s) : s[i].bytes \in Nat
SumsTo(s, k, f) == f = [n \in 0..k |-> IF n = 0 THEN 0 ELSE f[n - 1] + s[n].bytes]
Sums(s, f) == SumsTo(s, Len(s), f)

LEMMA SumsExist ==
  ASSUME NEW s, Sized(s)
  PROVE  \E f : Sums(s, f)
<1> DEFINE S == {k \in 0..Len(s) : \E f : SumsTo(s, k, f)}
<1>1. Len(s) \in Nat
  BY DEF Sized
<1>2. 0 \in S
  <2> DEFINE f == [n \in 0..0 |-> 0]
  <2>1. SumsTo(s, 0, f)
    BY DEF SumsTo
  <2>2. 0 \in 0..Len(s)
    BY <1>1
  <2> QED
    BY <2>1, <2>2
<1>3. ASSUME NEW k \in 0..(Len(s) - 1), k \in S
      PROVE  k + 1 \in S
  <2>1. PICK f : SumsTo(s, k, f)
    BY <1>3
  <2> DEFINE g == [n \in 0..(k + 1) |-> IF n <= k THEN f[n] ELSE f[k] + s[k + 1].bytes]
  <2>2. \A n \in 0..(k + 1) : g[n] = IF n = 0 THEN 0 ELSE g[n - 1] + s[n].bytes
    <3> SUFFICES ASSUME NEW n \in 0..(k + 1)
                 PROVE  g[n] = IF n = 0 THEN 0 ELSE g[n - 1] + s[n].bytes
      OBVIOUS
    <3>1. k \in Nat
      BY <1>1
    <3>2. \A m \in 0..k : g[m] = f[m]
      BY <3>1
    <3>3. CASE n = 0
      BY <2>1, <3>1, <3>2, <3>3 DEF SumsTo
    <3>4. CASE n \in 1..k
      <4>1. n \in 0..k /\ n - 1 \in 0..k /\ n # 0
        BY <3>1, <3>4
      <4>2. f[n] = f[n - 1] + s[n].bytes
        BY <2>1, <4>1 DEF SumsTo
      <4> QED
        BY <3>2, <4>1, <4>2
    <3>5. CASE n = k + 1
      <4>1. n # 0 /\ n - 1 = k /\ ~(n <= k) /\ k \in 0..k
        BY <3>1, <3>5
      <4>2. g[n] = f[k] + s[n].bytes
        BY <3>5, <4>1
      <4> QED
        BY <3>2, <4>1, <4>2
    <3> QED
      BY <3>1, <3>3, <3>4, <3>5
  <2>3. SumsTo(s, k + 1, g)
    BY <2>2 DEF SumsTo
  <2>4. k + 1 \in 0..Len(s)
    BY <1>1
  <2> QED
    BY <2>3, <2>4
<1> HIDE DEF S
<1>4. \A n \in 0..Len(s) : n \in S
  BY <1>1, <1>2, <1>3, UpTo
<1>5. Len(s) \in S
  BY <1>1, <1>4
<1> QED
  BY <1>5 DEF S, Sums

\* The recursion of BytesOf has a solution, and is it.
LEMMA BytesOfSums ==
  ASSUME NEW s, Sized(s)
  PROVE  \E f : Sums(s, f) /\ BytesOf(s) = f[Len(s)]
<1> DEFINE f == CHOOSE g : g = [n \in 0..Len(s) |-> IF n = 0 THEN 0 ELSE g[n - 1] + s[n].bytes]
<1>1. Sums(s, f)
  BY SumsExist DEF Sums, SumsTo
<1>2. BytesOf(s) = f[Len(s)]
  BY DEF BytesOf
<1> QED
  BY <1>1, <1>2

LEMMA SumsType ==
  ASSUME NEW s, Sized(s), NEW f, Sums(s, f)
  PROVE  /\ \A n \in 0..Len(s) : f[n] \in Nat
         /\ f[0] = 0
         /\ \A n \in 1..Len(s) : f[n] = f[n - 1] + s[n].bytes
<1>1. Len(s) \in Nat /\ \A i \in 1..Len(s) : s[i].bytes \in Nat
  BY DEF Sized
<1>2. f[0] = 0
  BY <1>1 DEF Sums, SumsTo
<1>3. \A n \in 1..Len(s) : f[n] = f[n - 1] + s[n].bytes
  <2> SUFFICES ASSUME NEW n \in 1..Len(s) PROVE f[n] = f[n - 1] + s[n].bytes
    OBVIOUS
  <2>1. n \in 0..Len(s) /\ n # 0
    BY <1>1
  <2> QED
    BY <2>1 DEF Sums, SumsTo
<1> DEFINE S == {n \in Nat : f[n] \in Nat}
<1>4. 0 \in S
  BY <1>2
<1>5. ASSUME NEW n \in 0..(Len(s) - 1), n \in S
      PROVE  n + 1 \in S
  <2>1. n + 1 \in 1..Len(s) /\ (n + 1) - 1 = n
    BY <1>1
  <2>2. f[n + 1] = f[n] + s[n + 1].bytes
    BY <1>3, <2>1
  <2> QED
    BY <1>1, <1>5, <2>1, <2>2
<1> HIDE DEF S
<1>6. \A n \in 0..Len(s) : n \in S
  BY <1>1, <1>4, <1>5, UpTo
<1> QED
  BY <1>2, <1>3, <1>6 DEF S

\* m entries of t behind c are those of s behind d.
Same(t, c, s, d, m) == /\ c \in Nat /\ d \in Nat /\ m \in Nat
                       /\ c + m <= Len(t) /\ d + m <= Len(s)
                       /\ \A k \in 1..m : t[c + k] = s[d + k]

\* Two stretches of equal entries come to the same.
LEMMA SumsShift ==
  ASSUME NEW s, Sized(s), NEW f, Sums(s, f), NEW t, Sized(t), NEW g, Sums(t, g),
         NEW c, NEW d, NEW m, Same(t, c, s, d, m)
  PROVE  g[c + m] + f[d] = f[d + m] + g[c]
<1>0. /\ c \in Nat /\ d \in Nat /\ m \in Nat /\ c + m <= Len(t) /\ d + m <= Len(s)
      /\ \A k \in 1..m : t[c + k] = s[d + k]
  BY DEF Same
<1>1. Len(s) \in Nat /\ Len(t) \in Nat
  BY DEF Sized
<1>2. /\ \A n \in 0..Len(s) : f[n] \in Nat
      /\ \A n \in 0..Len(t) : g[n] \in Nat
      /\ \A n \in 1..Len(s) : f[n] = f[n - 1] + s[n].bytes
      /\ \A n \in 1..Len(t) : g[n] = g[n - 1] + t[n].bytes
  BY SumsType
<1> DEFINE S == {k \in Nat : g[c + k] + f[d] = f[d + k] + g[c]}
<1>3. 0 \in S
  <2>1. c \in 0..Len(t) /\ d \in 0..Len(s)
    BY <1>0, <1>1
  <2>2. g[c] \in Nat /\ f[d] \in Nat /\ c + 0 = c /\ d + 0 = d
    BY <1>0, <1>2, <2>1
  <2> QED
    BY <2>2
<1>4. ASSUME NEW k \in 0..(m - 1), k \in S
      PROVE  k + 1 \in S
  <2>1. PICK cc : cc = c + k
    OBVIOUS
  <2>2. PICK dd : dd = d + k
    OBVIOUS
  <2>3. /\ cc + 1 \in 1..Len(t) /\ dd + 1 \in 1..Len(s) /\ (cc + 1) - 1 = cc /\ (dd + 1) - 1 = dd
        /\ cc \in 0..Len(t) /\ dd \in 0..Len(s) /\ d \in 0..Len(s) /\ c \in 0..Len(t) /\ k + 1 \in 1..m
        /\ c + (k + 1) = cc + 1 /\ d + (k + 1) = dd + 1 /\ k + 1 \in Nat
    BY <1>0, <1>1, <2>1, <2>2
  <2>4. t[cc + 1] = s[dd + 1]
    <3>1. PICK j \in 1..m : j = k + 1
      BY <2>3
    <3>2. t[c + j] = s[d + j]
      BY <1>0
    <3>3. c + j = cc + 1 /\ d + j = dd + 1
      BY <2>3, <3>1
    <3> QED
      BY <3>2, <3>3
  <2>5. g[cc + 1] = g[cc] + t[cc + 1].bytes /\ f[dd + 1] = f[dd] + s[dd + 1].bytes
    BY <1>2, <2>3
  <2>6. /\ g[cc] \in Nat /\ g[c] \in Nat /\ f[dd] \in Nat /\ f[d] \in Nat
        /\ s[dd + 1].bytes \in Nat
    BY <1>2, <2>3 DEF Sized
  <2>7. g[cc] + f[d] = f[dd] + g[c]
    BY <1>4, <2>1, <2>2
  <2>8. PICK x : x = s[dd + 1].bytes
    OBVIOUS
  <2>9. g[cc + 1] = g[cc] + x /\ f[dd + 1] = f[dd] + x /\ x \in Nat
    BY <2>4, <2>5, <2>6, <2>8
  <2>10. g[cc + 1] + f[d] = f[dd + 1] + g[c]
    <3>1. PICK u \in Nat, v \in Nat, w \in Nat, z \in Nat :
            u = g[cc] /\ v = f[d] /\ w = f[dd] /\ z = g[c]
      BY <2>6
    <3>2. u + v = w + z /\ g[cc + 1] = u + x /\ f[dd + 1] = w + x /\ x \in Nat
      BY <2>7, <2>9, <3>1
    <3>3. (u + x) + v = (w + x) + z
      BY <3>2
    <3> QED
      BY <3>1, <3>2, <3>3
  <2> QED
    BY <2>3, <2>10
<1> HIDE DEF S
<1>5. \A k \in 0..m : k \in S
  BY <1>0, <1>3, <1>4, UpTo
<1>6. m \in S
  BY <1>0, <1>5
<1> QED
  BY <1>6 DEF S

\* Sequences whose entries nothing else is asked of.
Listed(s) == \E S : s \in Seq(S)

LEMMA ListedLen ==
  ASSUME NEW s, Listed(s)
  PROVE  Len(s) \in Nat /\ DOMAIN s = 1..Len(s)
  BY DEF Listed

\* The forms in which the model makes a sequence of another.
Appended(s, e, t) == t = Append(s, e)
Stretch(s, a, b, t) == t = SubSeq(s, a + 1, b)
Without(s, i, t) == t = RemoveAt(s, i)

LEMMA ListedAppend ==
  ASSUME NEW s, Listed(s), NEW e, NEW t, Appended(s, e, t)
  PROVE  /\ Listed(t) /\ Len(t) = Len(s) + 1
         /\ Same(t, 0, s, 0, Len(s))
         /\ t[Len(s) + 1] = e
<1>1. PICK S : s \in Seq(S)
  BY DEF Listed
<1>2. PICK T : T = S \cup {e}
  OBVIOUS
<1>3. s \in Seq(T) /\ e \in T /\ t = Append(s, e)
  BY <1>1, <1>2 DEF Appended
<1>4. Append(s, e) \in Seq(T)
  BY <1>3
<1>5. Listed(t)
  BY <1>3, <1>4 DEF Listed
<1>6. Len(t) = Len(s) + 1 /\ t[Len(s) + 1] = e /\ Len(s) \in Nat
  BY <1>3
<1>7. \A k \in 1..Len(s) : t[k] = s[k]
  BY <1>3
<1>8. Same(t, 0, s, 0, Len(s))
  BY <1>6, <1>7 DEF Same
<1> QED
  BY <1>5, <1>6, <1>8

LEMMA ListedSub ==
  ASSUME NEW s, Listed(s), NEW a \in Nat, NEW b \in Nat, a <= b, b <= Len(s),
         NEW t, Stretch(s, a, b, t)
  PROVE  /\ Listed(t) /\ Len(t) = b - a
         /\ Same(t, 0, s, a, b - a)
<1>1. PICK S : s \in Seq(S)
  BY DEF Listed
<1>2. Len(s) \in Nat /\ t = SubSeq(s, a + 1, b)
  BY <1>1 DEF Stretch
<1>3. \A i \in (a + 1)..b : i \in DOMAIN s
  BY <1>1, <1>2
<1>4. t \in Seq(S) /\ Len(t) = b - a
  BY <1>1, <1>2, <1>3
<1>5. \A k \in 1..(b - a) : t[k] = s[a + k]
  BY <1>1, <1>2, <1>3
<1>6. Same(t, 0, s, a, b - a)
  BY <1>2, <1>4, <1>5 DEF Same
<1> QED
  BY <1>4, <1>6 DEF Listed

LEMMA ListedRemove ==
  ASSUME NEW s, Listed(s), NEW i \in 1..Len(s), NEW t, Without(s, i, t)
  PROVE  /\ Listed(t) /\ Len(t) = Len(s) - 1
         /\ Same(t, 0, s, 0, i - 1)
         /\ Same(t, i - 1, s, i, Len(s) - i)
<1>1. PICK S : s \in Seq(S)
  BY DEF Listed
<1>2. PICK n : n = Len(s)
  OBVIOUS
<1>3. n \in Nat /\ i \in 1..n
  BY <1>1, <1>2
<1>4. PICK p : p = SubSeq(s, 1, i - 1)
  OBVIOUS
<1>5. PICK q : q = SubSeq(s, i + 1, n)
  OBVIOUS
<1>6. p \in Seq(S) /\ Len(p) = i - 1 /\ \A k \in 1..(i - 1) : p[k] = s[k]
  BY <1>1, <1>2, <1>3, <1>4
<1>7. q \in Seq(S) /\ Len(q) = n - i /\ \A k \in 1..(n - i) : q[k] = s[i + k]
  BY <1>1, <1>2, <1>3, <1>5
<1>8. t = p \o q
  BY <1>2, <1>4, <1>5 DEF Without, RemoveAt
<1>9. t \in Seq(S) /\ Len(t) = n - 1
  <2>1. t \in Seq(S) /\ Len(t) = Len(p) + Len(q)
    BY <1>6, <1>7, <1>8, ConcatProperties
  <2> QED
    BY <1>3, <1>6, <1>7, <2>1
<1>10. \A k \in 1..(i - 1) : t[k] = s[k]
  BY <1>3, <1>6, <1>7, <1>8
<1>11. ASSUME NEW j \in 1..(n - i)
       PROVE  t[(i - 1) + j] = s[i + j]
  <2>1. PICK k : k = (i - 1) + j
    OBVIOUS
  <2>2. /\ k \in 1..((i - 1) + (n - i)) /\ k > i - 1 /\ k - (i - 1) = j
    BY <1>3, <2>1
  <2>3. t[k] = q[k - (i - 1)]
    BY <1>3, <1>6, <1>7, <1>8, <2>2
  <2> QED
    BY <1>7, <2>1, <2>2, <2>3
<1>12. Same(t, 0, s, 0, i - 1)
  BY <1>2, <1>3, <1>9, <1>10 DEF Same
<1>13. Same(t, i - 1, s, i, n - i)
  BY <1>2, <1>3, <1>9, <1>11 DEF Same
<1> QED
  BY <1>2, <1>9, <1>12, <1>13 DEF Listed

Bytes(s) == Listed(s) /\ \A i \in 1..Len(s) : s[i].bytes \in Nat

LEMMA BytesSized ==
  ASSUME NEW s, Bytes(s)
  PROVE  Sized(s) /\ BytesOf(s) \in Nat
<1>1. Sized(s)
  BY ListedLen DEF Bytes, Sized
<1>2. PICK f : Sums(s, f) /\ BytesOf(s) = f[Len(s)]
  BY <1>1, BytesOfSums
<1>3. Len(s) \in 0..Len(s)
  BY <1>1 DEF Sized
<1>4. f[Len(s)] \in Nat
  BY <1>1, <1>2, <1>3, SumsType
<1> QED
  BY <1>1, <1>2, <1>4

LEMMA EmptyBytes ==
  Bytes(<<>>) /\ BytesOf(<<>>) = 0
<1>1. Listed(<<>>) /\ Len(<<>>) = 0
  <2>1. <<>> \in Seq({})
    OBVIOUS
  <2> QED
    BY <2>1 DEF Listed
<1>2. Bytes(<<>>)
  BY <1>1 DEF Bytes
<1>3. Sized(<<>>)
  BY <1>2, BytesSized
<1>4. PICK f : Sums(<<>>, f) /\ BytesOf(<<>>) = f[Len(<<>>)]
  BY <1>3, BytesOfSums
<1>5. f[0] = 0
  BY <1>3, <1>4, SumsType
<1> QED
  BY <1>1, <1>2, <1>4, <1>5

\* An entry behind the others.
LEMMA AppendBytes ==
  ASSUME NEW s, Bytes(s), NEW e, e.bytes \in Nat, NEW t, Appended(s, e, t)
  PROVE  Bytes(t) /\ BytesOf(t) = BytesOf(s) + e.bytes
<1>0. Listed(s) /\ Len(s) \in Nat
  BY ListedLen DEF Bytes
<1>1. /\ Listed(t) /\ Len(t) = Len(s) + 1
      /\ Same(t, 0, s, 0, Len(s))
      /\ t[Len(s) + 1] = e
  BY <1>0, ListedAppend
<1>2. \A k \in 1..Len(t) : k \in 1..Len(s) \/ k = Len(s) + 1
  BY <1>0, <1>1
<1>3. Bytes(t)
  BY <1>0, <1>1, <1>2 DEF Bytes, Same
<1>4. Sized(s) /\ Sized(t)
  BY <1>3, BytesSized
<1>5. PICK f : Sums(s, f) /\ BytesOf(s) = f[Len(s)]
  BY <1>4, BytesOfSums
<1>6. PICK g : Sums(t, g) /\ BytesOf(t) = g[Len(t)]
  BY <1>4, BytesOfSums
<1>7. PICK n \in Nat : n = Len(s)
  BY <1>0
<1>8. f[0] = 0 /\ g[0] = 0 /\ f[n] \in Nat /\ g[n] \in Nat /\ g[n + 1] = g[n] + e.bytes
  <2>1. /\ \A k \in 0..Len(s) : f[k] \in Nat
        /\ \A k \in 0..Len(t) : g[k] \in Nat
        /\ \A k \in 1..Len(t) : g[k] = g[k - 1] + t[k].bytes
        /\ f[0] = 0 /\ g[0] = 0
    BY <1>4, <1>5, <1>6, SumsType
  <2>2. n \in 0..Len(s) /\ n \in 0..Len(t) /\ n + 1 \in 1..Len(t) /\ (n + 1) - 1 = n
    BY <1>1, <1>7
  <2>3. t[n + 1] = e
    BY <1>1, <1>7
  <2>4. g[n + 1] = g[n] + t[n + 1].bytes
    BY <2>1, <2>2
  <2> QED
    BY <2>1, <2>2, <2>3, <2>4
<1>9. g[0 + n] + f[0] = f[0 + n] + g[0]
  BY <1>1, <1>4, <1>5, <1>6, <1>7, SumsShift
<1>10. g[n] = f[n]
  BY <1>8, <1>9
<1>11. BytesOf(s) = f[n] /\ BytesOf(t) = g[n + 1]
  BY <1>1, <1>5, <1>6, <1>7
<1> QED
  BY <1>3, <1>8, <1>10, <1>11

\* The first entries and the rest.
LEMMA SplitBytes ==
  ASSUME NEW s, Bytes(s), NEW n \in 0..Len(s), NEW t, Stretch(s, 0, n, t),
         NEW u, Stretch(s, n, Len(s), u)
  PROVE  /\ Bytes(t) /\ Bytes(u)
         /\ BytesOf(u) = BytesOf(s) - BytesOf(t)
<1>0. Listed(s) /\ Len(s) \in Nat
  BY ListedLen DEF Bytes
<1>1. PICK m \in Nat : m = Len(s)
  BY <1>0
<1>2. n \in Nat /\ n <= m /\ 0 \in Nat /\ 0 <= n /\ n - 0 = n
  BY <1>1
<1>3. Listed(t) /\ Len(t) = n /\ Same(t, 0, s, 0, n)
  BY <1>0, <1>1, <1>2, ListedSub
<1>4. Listed(u) /\ Len(u) = m - n /\ Same(u, 0, s, n, m - n)
  BY <1>0, <1>1, <1>2, ListedSub
<1>5. Bytes(t)
  <2> SUFFICES ASSUME NEW k \in 1..n PROVE t[k].bytes \in Nat
    BY <1>3 DEF Bytes
  <2>1. t[k] = s[k] /\ k \in 1..Len(s)
    BY <1>1, <1>2, <1>3 DEF Same
  <2> QED
    BY <2>1 DEF Bytes
<1>6. Bytes(u)
  <2> SUFFICES ASSUME NEW k \in 1..(m - n) PROVE u[k].bytes \in Nat
    BY <1>4 DEF Bytes
  <2>1. u[k] = s[n + k] /\ n + k \in 1..Len(s)
    BY <1>1, <1>2, <1>4 DEF Same
  <2> QED
    BY <2>1 DEF Bytes
<1>7. Sized(s) /\ Sized(t) /\ Sized(u)
  BY <1>5, <1>6, BytesSized
<1>8. PICK f : Sums(s, f) /\ BytesOf(s) = f[Len(s)]
  BY <1>7, BytesOfSums
<1>9. PICK g : Sums(t, g) /\ BytesOf(t) = g[Len(t)]
  BY <1>7, BytesOfSums
<1>10. PICK h : Sums(u, h) /\ BytesOf(u) = h[Len(u)]
  BY <1>7, BytesOfSums
<1>11. PICK l \in Nat : l = m - n
  BY <1>2
<1>12. n + l = m /\ 0 + n = n /\ 0 + l = l /\ l <= m
  BY <1>2, <1>11
<1>13. g[0 + n] + f[0] = f[0 + n] + g[0]
  BY <1>3, <1>7, <1>8, <1>9, SumsShift
<1>14. h[0 + l] + f[n] = f[n + l] + h[0]
  BY <1>4, <1>7, <1>8, <1>10, <1>11, SumsShift
<1>15. /\ f[0] = 0 /\ g[0] = 0 /\ h[0] = 0 /\ f[n] \in Nat /\ f[m] \in Nat
       /\ g[n] \in Nat /\ h[l] \in Nat
  <2>1. /\ f[0] = 0 /\ g[0] = 0 /\ h[0] = 0
        /\ \A k \in 0..Len(s) : f[k] \in Nat
        /\ \A k \in 0..Len(t) : g[k] \in Nat
        /\ \A k \in 0..Len(u) : h[k] \in Nat
    BY <1>7, <1>8, <1>9, <1>10, SumsType
  <2>2. n \in 0..Len(s) /\ m \in 0..Len(s) /\ n \in 0..Len(t) /\ l \in 0..Len(u)
    BY <1>1, <1>2, <1>3, <1>4, <1>11
  <2> QED
    BY <2>1, <2>2
<1>16. /\ BytesOf(s) = f[m] /\ BytesOf(t) = g[n] /\ BytesOf(u) = h[l]
       /\ g[n] + f[0] = f[n] + g[0] /\ h[l] + f[n] = f[m] + h[0]
  BY <1>1, <1>3, <1>4, <1>8, <1>9, <1>10, <1>11, <1>12, <1>13, <1>14
<1>17. h[l] = f[m] - g[n]
  <2>1. PICK a \in Nat, b \in Nat, c \in Nat, d \in Nat :
          a = f[n] /\ b = f[m] /\ c = g[n] /\ d = h[l]
    BY <1>15
  <2>2. c + 0 = a + 0 /\ d + a = b + 0
    BY <1>15, <1>16, <2>1
  <2>3. d = b - c
    BY <2>2
  <2> QED
    BY <2>1, <2>3
<1> QED
  BY <1>5, <1>6, <1>16, <1>17

\* An entry taken out.
LEMMA RemoveBytes ==
  ASSUME NEW s, Bytes(s), NEW i \in 1..Len(s), NEW t, Without(s, i, t)
  PROVE  /\ Bytes(t) /\ BytesOf(t) = BytesOf(s) - s[i].bytes
<1>0. Listed(s) /\ Len(s) \in Nat
  BY ListedLen DEF Bytes
<1>1. PICK m \in Nat : m = Len(s)
  BY <1>0
<1>2. PICK c \in Nat : c = i - 1
  BY <1>0
<1>3. PICK l \in Nat : l = m - i
  <2>1. i \in 1..m /\ m - i \in Nat
    BY <1>1
  <2> QED
    BY <2>1
<1>4. /\ i \in 1..m /\ i \in Nat /\ c + 1 = i /\ c + l = m - 1 /\ i + l = m
      /\ 0 + c = c /\ c \in 0..m
  BY <1>1, <1>2, <1>3
<1>5. Listed(t) /\ Len(t) = m - 1 /\ Same(t, 0, s, 0, c) /\ Same(t, c, s, i, l)
  BY <1>0, <1>1, <1>2, <1>3, ListedRemove
<1>6. Bytes(t)
  <2> SUFFICES ASSUME NEW k \in 1..(m - 1) PROVE t[k].bytes \in Nat
    BY <1>5 DEF Bytes
  <2>1. CASE k \in 1..c
    <3>1. t[0 + k] = s[0 + k] /\ 0 + k = k /\ k \in 1..Len(s)
      BY <1>1, <1>2, <1>4, <1>5, <2>1 DEF Same
    <3> QED
      BY <3>1 DEF Bytes
  <2>2. CASE k \notin 1..c
    <3>1. PICK j \in 1..l : c + j = k
      <4>1. k - c \in 1..l /\ c + (k - c) = k
        BY <1>3, <1>4, <2>2
      <4> QED
        BY <4>1
    <3>2. t[c + j] = s[i + j] /\ i + j \in 1..Len(s)
      BY <1>1, <1>3, <1>4, <1>5 DEF Same
    <3> QED
      BY <3>1, <3>2 DEF Bytes
  <2> QED
    BY <2>1, <2>2
<1>7. Sized(s) /\ Sized(t)
  BY <1>6, BytesSized
<1>8. PICK f : Sums(s, f) /\ BytesOf(s) = f[Len(s)]
  BY <1>7, BytesOfSums
<1>9. PICK g : Sums(t, g) /\ BytesOf(t) = g[Len(t)]
  BY <1>7, BytesOfSums
<1>10. g[0 + c] + f[0] = f[0 + c] + g[0]
  BY <1>5, <1>7, <1>8, <1>9, SumsShift
<1>11. g[c + l] + f[i] = f[i + l] + g[c]
  BY <1>5, <1>7, <1>8, <1>9, SumsShift
<1>12. /\ f[0] = 0 /\ g[0] = 0 /\ f[c] \in Nat /\ f[i] \in Nat /\ f[m] \in Nat
       /\ g[c] \in Nat /\ g[m - 1] \in Nat /\ f[i] = f[c] + s[i].bytes
  <2>1. /\ f[0] = 0 /\ g[0] = 0
        /\ \A k \in 0..Len(s) : f[k] \in Nat
        /\ \A k \in 0..Len(t) : g[k] \in Nat
        /\ \A k \in 1..Len(s) : f[k] = f[k - 1] + s[k].bytes
    BY <1>7, <1>8, <1>9, SumsType
  <2>2. /\ c \in 0..Len(s) /\ i \in 0..Len(s) /\ m \in 0..Len(s)
        /\ c \in 0..Len(t) /\ m - 1 \in 0..Len(t) /\ i - 1 = c
    BY <1>1, <1>4, <1>5
  <2> QED
    BY <2>1, <2>2
<1>13. /\ BytesOf(s) = f[m] /\ BytesOf(t) = g[m - 1]
       /\ g[c] + f[0] = f[c] + g[0] /\ g[m - 1] + f[i] = f[m] + g[c]
  BY <1>1, <1>4, <1>5, <1>8, <1>9, <1>10, <1>11
<1>14. g[m - 1] = f[m] - s[i].bytes
  <2>1. PICK a \in Nat, b \in Nat, d \in Nat, e \in Nat, x \in Nat :
          a = f[c] /\ b = f[m] /\ d = g[c] /\ e = g[m - 1] /\ x = s[i].bytes
    BY <1>12 DEF Bytes
  <2>2. d + 0 = a + 0 /\ e + (a + x) = b + d
    BY <1>12, <1>13, <2>1
  <2>3. e = b - x
    BY <2>2
  <2> QED
    BY <2>1, <2>3
<1> QED
  BY <1>6, <1>13, <1>14

-----------------------------------------------------------------------------
(* The queues.                                                             *)

\* One entry for a key, no entry for a key, and no entries but those of s.
OneEach(s) == \A i, j \in 1..Len(s) : s[i].key = s[j].key => i = j
NoneFor(s, key) == \A i \in 1..Len(s) : s[i].key # key
Among(t, s) == \A i \in 1..Len(t) : \E j \in 1..Len(s) : t[i] = s[j]
AmongOr(t, s, e) == \A i \in 1..Len(t) : t[i] = e \/ \E j \in 1..Len(s) : t[i] = s[j]

LEMMA RemoveOne ==
  ASSUME NEW s, Listed(s), OneEach(s), NEW i \in 1..Len(s), NEW t, Without(s, i, t)
  PROVE  OneEach(t) /\ Among(t, s) /\ NoneFor(t, s[i].key)
<1>1. PICK m \in Nat : m = Len(s)
  BY ListedLen
<1>2. Listed(t) /\ Len(t) = m - 1 /\ Same(t, 0, s, 0, i - 1) /\ Same(t, i - 1, s, i, m - i)
  BY <1>1, ListedRemove
<1>3. i \in 1..m
  BY <1>1
<1> DEFINE at(k) == IF k < i THEN k ELSE k + 1
<1>4. ASSUME NEW k \in 1..(m - 1)
      PROVE  t[k] = s[at(k)] /\ at(k) \in 1..m /\ at(k) # i
  <2>1. CASE k < i
    <3>1. k \in 1..(i - 1) /\ 0 + k = k
      BY <1>3, <2>1
    <3>2. t[0 + k] = s[0 + k]
      BY <1>2, <3>1 DEF Same
    <3> QED
      BY <1>3, <2>1, <3>1, <3>2
  <2>2. CASE ~(k < i)
    <3>1. PICK j \in 1..(m - i) : j = k - (i - 1)
      <4>1. k - (i - 1) \in 1..(m - i)
        BY <1>3, <2>2
      <4> QED
        BY <4>1
    <3>2. t[(i - 1) + j] = s[i + j]
      BY <1>2 DEF Same
    <3>3. (i - 1) + j = k /\ i + j = k + 1
      BY <1>3, <3>1
    <3> QED
      BY <1>3, <2>2, <3>2, <3>3
  <2> QED
    BY <2>1, <2>2
<1>5. \A j, k \in 1..(m - 1) : at(j) = at(k) => j = k
  BY <1>3
<1> HIDE DEF at
<1>6. OneEach(t)
  BY <1>1, <1>2, <1>4, <1>5 DEF OneEach
<1>7. Among(t, s)
  BY <1>1, <1>2, <1>4 DEF Among
<1>8. NoneFor(t, s[i].key)
  BY <1>1, <1>2, <1>4 DEF NoneFor, OneEach
<1> QED
  BY <1>6, <1>7, <1>8

LEMMA AppendOne ==
  ASSUME NEW s, Listed(s), OneEach(s), NEW e, NoneFor(s, e.key), NEW t, Appended(s, e, t)
  PROVE  OneEach(t) /\ \A i \in 1..Len(t) : t[i] = e \/ \E j \in 1..Len(s) : t[i] = s[j]
<1>1. PICK m \in Nat : m = Len(s)
  BY ListedLen
<1>2. Len(t) = m + 1 /\ Same(t, 0, s, 0, m) /\ t[m + 1] = e
  BY <1>1, ListedAppend
<1>3. ASSUME NEW k \in 1..m
      PROVE  t[k] = s[k]
  <2>1. t[0 + k] = s[0 + k] /\ 0 + k = k
    BY <1>2 DEF Same
  <2> QED
    BY <2>1
<1>4. \A i \in 1..(m + 1) : i \in 1..m \/ i = m + 1
  OBVIOUS
<1>5. OneEach(t)
  <2> SUFFICES ASSUME NEW i \in 1..(m + 1), NEW j \in 1..(m + 1), t[i].key = t[j].key
               PROVE  i = j
    BY <1>2 DEF OneEach
  <2>1. CASE i \in 1..m /\ j \in 1..m
    BY <1>1, <1>3, <2>1 DEF OneEach
  <2>2. CASE i \in 1..m /\ j = m + 1
    <3>1. s[i].key = e.key
      BY <1>2, <1>3, <2>2
    <3> QED
      BY <1>1, <2>2, <3>1 DEF NoneFor
  <2>3. CASE i = m + 1 /\ j \in 1..m
    <3>1. s[j].key = e.key
      BY <1>2, <1>3, <2>3
    <3> QED
      BY <1>1, <2>3, <3>1 DEF NoneFor
  <2> QED
    BY <1>4, <2>1, <2>2, <2>3
<1> QED
  BY <1>1, <1>2, <1>3, <1>4, <1>5

LEMMA StretchOne ==
  ASSUME NEW s, Listed(s), OneEach(s), NEW n \in 0..Len(s), NEW u, Stretch(s, n, Len(s), u)
  PROVE  OneEach(u) /\ Among(u, s)
<1>1. PICK m \in Nat : m = Len(s)
  BY ListedLen
<1>2. n \in Nat /\ n <= m
  BY <1>1
<1>3. Len(u) = m - n /\ Same(u, 0, s, n, m - n)
  BY <1>1, <1>2, ListedSub
<1>4. ASSUME NEW k \in 1..(m - n)
      PROVE  u[k] = s[n + k] /\ n + k \in 1..m
  <2>1. u[0 + k] = s[n + k] /\ 0 + k = k
    BY <1>3 DEF Same
  <2> QED
    BY <1>2, <2>1
<1>5. \A j, k \in 1..(m - n) : n + j = n + k => j = k
  BY <1>2
<1>6. OneEach(u)
  BY <1>1, <1>3, <1>4, <1>5 DEF OneEach
<1>7. Among(u, s)
  BY <1>1, <1>3, <1>4 DEF Among
<1> QED
  BY <1>6, <1>7

IsQueue(q) == \E S : q \in [entries : Seq(S), bytes : Nat]
SoundQueue(q, maxBytes, maxEntries) ==
  /\ IsQueue(q) /\ Bytes(q.entries) /\ OneEach(q.entries)
  /\ q.bytes = BytesOf(q.entries) /\ q.bytes <= maxBytes /\ Len(q.entries) <= maxEntries

LEMMA QueueIs ==
  ASSUME NEW s, Listed(s), NEW b \in Nat, NEW q, q = [entries |-> s, bytes |-> b]
  PROVE  IsQueue(q) /\ q.entries = s /\ q.bytes = b
  BY DEF Listed, IsQueue

LEMMA EmptyQueueSound ==
  ASSUME NEW maxBytes \in Nat, NEW maxEntries \in Nat
  PROVE  SoundQueue(EmptyQueue, maxBytes, maxEntries) /\ Len(EmptyQueue.entries) = 0
<1>1. Bytes(<<>>) /\ BytesOf(<<>>) = 0
  BY EmptyBytes
<1>2. Listed(<<>>)
  BY <1>1 DEF Bytes
<1>3. IsQueue(EmptyQueue) /\ EmptyQueue.entries = <<>> /\ EmptyQueue.bytes = 0
  BY <1>2, QueueIs DEF EmptyQueue
<1>4. Len(<<>>) = 0
  OBVIOUS
<1>5. OneEach(<<>>)
  BY <1>4 DEF OneEach
<1> QED
  BY <1>1, <1>3, <1>4, <1>5 DEF SoundQueue

\* Position finds the entry for a key, or that there is none.
LEMMA PositionIs ==
  ASSUME NEW q, Listed(q.entries), NEW key, NEW i, i = Position(q, key)
  PROVE  /\ i = 0 => NoneFor(q.entries, key)
         /\ i # 0 => i \in 1..Len(q.entries) /\ q.entries[i].key = key
<1>1. PICK s : s = q.entries
  OBVIOUS
<1>2. Len(s) \in Nat
  BY <1>1, ListedLen
<1>3. PICK T : T = {k \in 1..Len(s) : s[k].key = key}
  OBVIOUS
<1>4. i = IF T # {} THEN Min(T) ELSE 0
  BY <1>1, <1>3 DEF Position, SelectInSeq
<1>5. T \subseteq Nat
  BY <1>2, <1>3
<1>6. CASE T = {}
  <2>1. i = 0
    BY <1>4, <1>6
  <2>2. NoneFor(s, key)
    BY <1>3, <1>6 DEF NoneFor
  <2> QED
    BY <1>1, <2>1, <2>2
<1>7. CASE T # {}
  <2>1. i = Min(T)
    BY <1>4, <1>7
  <2>2. \E m \in T : \A n \in T : m <= n
    BY <1>5, <1>7, LeastNumber
  <2>3. i \in T
    BY <2>1, <2>2 DEF Min
  <2>4. i \in 1..Len(s) /\ s[i].key = key
    BY <1>3, <2>3
  <2>5. i # 0
    BY <1>2, <2>4
  <2> QED
    BY <1>1, <2>4, <2>5
<1> QED
  BY <1>6, <1>7

LEMMA TakeSound ==
  ASSUME NEW q, NEW maxBytes \in Nat, NEW maxEntries \in Nat, SoundQueue(q, maxBytes, maxEntries),
         NEW i \in 1..Len(q.entries), NEW t, t = [entries |-> RemoveAt(q.entries, i),
                                                 bytes |-> q.bytes - q.entries[i].bytes]
  PROVE  /\ SoundQueue(t, maxBytes, maxEntries) /\ Among(t.entries, q.entries)
         /\ NoneFor(t.entries, q.entries[i].key)
         /\ t.bytes = q.bytes - q.entries[i].bytes /\ Len(t.entries) = Len(q.entries) - 1
<1>1. PICK s : s = q.entries
  OBVIOUS
<1>2. PICK u : Without(s, i, u)
  BY DEF Without
<1>3. /\ Bytes(s) /\ OneEach(s) /\ Listed(s) /\ i \in 1..Len(s) /\ q.bytes = BytesOf(s)
      /\ q.bytes <= maxBytes /\ Len(s) <= maxEntries
  BY <1>1 DEF SoundQueue, Bytes
<1>4. /\ Bytes(u) /\ BytesOf(u) = BytesOf(s) - s[i].bytes /\ Listed(u) /\ Len(u) = Len(s) - 1
      /\ OneEach(u) /\ Among(u, s) /\ NoneFor(u, s[i].key)
  BY <1>2, <1>3, RemoveBytes, RemoveOne, ListedRemove
<1>5. PICK b : b = BytesOf(u)
  OBVIOUS
<1>6. b \in Nat /\ BytesOf(s) \in Nat /\ s[i].bytes \in Nat /\ Len(s) \in Nat
  BY <1>3, <1>4, <1>5, BytesSized, ListedLen DEF Bytes
<1>7. t = [entries |-> u, bytes |-> b]
  BY <1>1, <1>2, <1>3, <1>4, <1>5 DEF Without
<1>8. IsQueue(t) /\ t.entries = u /\ t.bytes = b
  BY <1>4, <1>6, <1>7, QueueIs
<1>9. b <= maxBytes /\ Len(u) <= maxEntries
  BY <1>3, <1>4, <1>5, <1>6
<1>10. SoundQueue(t, maxBytes, maxEntries)
  BY <1>4, <1>5, <1>8, <1>9 DEF SoundQueue
<1> QED
  BY <1>1, <1>3, <1>4, <1>5, <1>8, <1>10

LEMMA PromotedSound ==
  ASSUME NEW q, NEW maxBytes \in Nat, NEW maxEntries \in Nat, SoundQueue(q, maxBytes, maxEntries),
         NEW i \in 1..Len(q.entries), NEW t, t = Promoted(q, i)
  PROVE  SoundQueue(t, maxBytes, maxEntries) /\ Among(t.entries, q.entries)
<1>1. PICK s : s = q.entries
  OBVIOUS
<1>2. PICK u : Without(s, i, u)
  BY DEF Without
<1>3. PICK e : e = s[i]
  OBVIOUS
<1>4. PICK v : Appended(u, e, v)
  BY DEF Appended
<1>5. /\ IsQueue(q) /\ Bytes(s) /\ OneEach(s) /\ Listed(s) /\ i \in 1..Len(s) /\ q.bytes = BytesOf(s)
      /\ q.bytes <= maxBytes /\ Len(s) <= maxEntries
  BY <1>1 DEF SoundQueue, Bytes
<1>6. /\ Bytes(u) /\ BytesOf(u) = BytesOf(s) - s[i].bytes /\ Listed(u) /\ Len(u) = Len(s) - 1
      /\ OneEach(u) /\ Among(u, s) /\ NoneFor(u, s[i].key)
  BY <1>2, <1>5, RemoveBytes, RemoveOne, ListedRemove
<1>7. e.bytes \in Nat /\ NoneFor(u, e.key) /\ BytesOf(u) = BytesOf(s) - e.bytes
  BY <1>3, <1>5, <1>6 DEF Bytes
<1>8. Bytes(v) /\ BytesOf(v) = BytesOf(u) + e.bytes
  BY <1>4, <1>6, <1>7, AppendBytes
<1>9. OneEach(v) /\ \A k \in 1..Len(v) : v[k] = e \/ \E j \in 1..Len(u) : v[k] = u[j]
  BY <1>4, <1>6, <1>7, AppendOne
<1>10. Listed(v) /\ Len(v) = Len(u) + 1
  BY <1>4, <1>6, ListedAppend
<1>11. BytesOf(s) \in Nat /\ BytesOf(u) \in Nat /\ Len(s) \in Nat
  BY <1>5, <1>6, BytesSized, ListedLen
<1>12. BytesOf(v) = q.bytes /\ Len(v) = Len(s)
  BY <1>5, <1>6, <1>7, <1>8, <1>10, <1>11
<1>13. Among(v, s)
  <2> SUFFICES ASSUME NEW k \in 1..Len(v) PROVE \E j \in 1..Len(s) : v[k] = s[j]
    BY DEF Among
  <2>1. CASE v[k] = e
    BY <1>3, <1>5, <2>1
  <2>2. CASE v[k] # e
    <3>1. PICK j \in 1..Len(u) : v[k] = u[j]
      BY <1>9, <2>2
    <3> QED
      BY <1>6, <3>1 DEF Among
  <2> QED
    BY <2>1, <2>2
<1>14. t = [q EXCEPT !.entries = v]
  BY <1>1, <1>2, <1>3, <1>4 DEF Promoted, Without, Appended
<1>15. IsQueue(t) /\ t.entries = v /\ t.bytes = q.bytes
  <2>1. PICK S : q \in [entries : Seq(S), bytes : Nat]
    BY <1>5 DEF IsQueue
  <2>2. t = [entries |-> v, bytes |-> q.bytes] /\ q.bytes \in Nat
    BY <1>14, <2>1
  <2> QED
    BY <1>10, <2>2, QueueIs
<1>16. SoundQueue(t, maxBytes, maxEntries)
  BY <1>5, <1>8, <1>9, <1>12, <1>15 DEF SoundQueue
<1> QED
  BY <1>1, <1>13, <1>15, <1>16

\* Room can be made for an entry that fits at all, and is.
LEMMA PushedSound ==
  ASSUME NEW q, NEW maxBytes \in Nat, NEW maxEntries \in Nat \ {0}, SoundQueue(q, maxBytes, maxEntries),
         NEW e, e.bytes \in 0..maxBytes, NoneFor(q.entries, e.key),
         NEW t, t = Pushed(q, e, maxBytes, maxEntries)
  PROVE  /\ SoundQueue(t, maxBytes, maxEntries)
         /\ AmongOr(t.entries, q.entries, e)
<1>1. PICK s : s = q.entries
  OBVIOUS
<1>2. PICK m \in Nat : m = Len(s)
  BY <1>1, ListedLen DEF SoundQueue, Bytes
<1>3. /\ Bytes(s) /\ OneEach(s) /\ Listed(s) /\ q.bytes = BytesOf(s)
      /\ q.bytes <= maxBytes /\ BytesOf(s) \in Nat
  BY <1>1, BytesSized DEF SoundQueue, Bytes
<1> DEFINE Left(n) == q.bytes - BytesOf(SubSeq(q.entries, 1, n))
           Fits(n) == Left(n) + e.bytes <= maxBytes /\ Len(q.entries) - n < maxEntries
           gone == CHOOSE n \in 0..Len(q.entries) : Fits(n) /\ \A k \in 0..(n - 1) : ~Fits(k)
<1>4. t = [entries |-> Append(SubSeq(q.entries, gone + 1, Len(q.entries)), e),
           bytes |-> Left(gone) + e.bytes]
  BY DEF Pushed
<1>5. ASSUME NEW n \in 0..m
      PROVE  \E u : Stretch(s, n, m, u) /\ Bytes(u) /\ BytesOf(u) = Left(n) /\ Len(u) = m - n
  <2>1. PICK v : v = SubSeq(s, 1, n)
    OBVIOUS
  <2>2. PICK u : Stretch(s, n, m, u)
    BY DEF Stretch
  <2>3. Stretch(s, 0, n, v)
    <3>1. 0 + 1 = 1
      OBVIOUS
    <3> QED
      BY <2>1, <3>1 DEF Stretch
  <2>4. Bytes(u) /\ BytesOf(u) = BytesOf(s) - BytesOf(v)
    BY <1>2, <1>3, <2>2, <2>3, SplitBytes
  <2>5. n \in Nat /\ n <= m
    OBVIOUS
  <2>6. Len(u) = m - n
    BY <1>2, <1>3, <2>2, <2>5, ListedSub
  <2>7. Left(n) = BytesOf(s) - BytesOf(v)
    BY <1>1, <1>3, <2>1
  <2> QED
    BY <2>2, <2>4, <2>6, <2>7
<1>6. Fits(m)
  <2>1. PICK u : Bytes(u) /\ BytesOf(u) = Left(m) /\ Len(u) = 0
    <3>1. m \in 0..m /\ m - m = 0
      OBVIOUS
    <3> HIDE DEF Left
    <3> QED
      BY <1>5, <3>1
  <2>2. BytesOf(u) = 0
    <3>1. \E S : u \in Seq(S)
      BY <2>1 DEF Bytes, Listed
    <3>2. u = <<>>
      BY <2>1, <3>1
    <3> QED
      BY <3>2, EmptyBytes
  <2>3. Left(m) = 0
    BY <2>1, <2>2
  <2>4. 0 + e.bytes <= maxBytes /\ m - m < maxEntries
    OBVIOUS
  <2> HIDE DEF Left
  <2> QED
    BY <1>1, <1>2, <2>3, <2>4
<1> HIDE DEF Left, Fits
<1>7. \E n \in 0..m : Fits(n) /\ \A k \in 0..(n - 1) : ~Fits(k)
  <2>1. PICK T : T = {n \in 0..m : Fits(n)}
    OBVIOUS
  <2>2. T \subseteq Nat /\ m \in T
    BY <1>6, <2>1
  <2>3. PICK n \in T : \A k \in T : n <= k
    BY <2>2, LeastNumber
  <2>4. n \in 0..m /\ Fits(n)
    BY <2>1, <2>3
  <2>5. ASSUME NEW k \in 0..(n - 1), Fits(k) PROVE FALSE
    <3>1. k \in 0..m /\ ~(n <= k)
      BY <2>4
    <3>2. k \in T
      BY <2>1, <2>5, <3>1
    <3> QED
      BY <2>3, <3>1, <3>2
  <2> QED
    BY <2>4, <2>5
<1>8. gone \in 0..m /\ Fits(gone)
  BY <1>1, <1>2, <1>7
<1> HIDE DEF gone
<1>9. PICK u : Stretch(s, gone, m, u) /\ Bytes(u) /\ BytesOf(u) = Left(gone) /\ Len(u) = m - gone
  BY <1>5, <1>8
<1>10. PICK v : Appended(u, e, v)
  BY DEF Appended
<1>11. OneEach(u) /\ Among(u, s)
  BY <1>2, <1>3, <1>8, <1>9, StretchOne
<1>12. NoneFor(u, e.key)
  BY <1>1, <1>11 DEF NoneFor, Among
<1>13. Listed(u) /\ e.bytes \in Nat
  BY <1>9 DEF Bytes
<1>14. Bytes(v) /\ BytesOf(v) = BytesOf(u) + e.bytes
  BY <1>9, <1>10, <1>13, AppendBytes
<1>15. OneEach(v) /\ \A k \in 1..Len(v) : v[k] = e \/ \E j \in 1..Len(u) : v[k] = u[j]
  BY <1>10, <1>11, <1>12, <1>13, AppendOne
<1>16. Listed(v) /\ Len(v) = Len(u) + 1
  BY <1>10, <1>13, ListedAppend
<1>17. PICK b : b = BytesOf(v)
  OBVIOUS
<1>18. b \in Nat /\ b = Left(gone) + e.bytes
  BY <1>9, <1>14, <1>17, BytesSized
<1>19. t = [entries |-> v, bytes |-> b]
  BY <1>1, <1>2, <1>4, <1>9, <1>10, <1>18 DEF Stretch, Appended
<1>20. IsQueue(t) /\ t.entries = v /\ t.bytes = b
  BY <1>16, <1>18, <1>19, QueueIs
<1>21. b <= maxBytes /\ Len(v) <= maxEntries
  <2>1. b <= maxBytes /\ m - gone < maxEntries
    BY <1>1, <1>2, <1>8, <1>18 DEF Fits
  <2>2. Len(v) = (m - gone) + 1
    BY <1>9, <1>16
  <2> QED
    BY <1>8, <2>1, <2>2
<1>22. SoundQueue(t, maxBytes, maxEntries)
  BY <1>14, <1>15, <1>17, <1>20, <1>21 DEF SoundQueue
<1>23. ASSUME NEW k \in 1..Len(v)
       PROVE  v[k] = e \/ \E j \in 1..Len(s) : v[k] = s[j]
  <2>1. CASE v[k] # e
    <3>1. PICK j \in 1..Len(u) : v[k] = u[j]
      BY <1>15, <2>1
    <3> QED
      BY <1>11, <3>1 DEF Among
  <2> QED
    BY <2>1
<1> QED
  BY <1>1, <1>20, <1>22, <1>23 DEF AmongOr

-----------------------------------------------------------------------------
(* The renderer as a record, and what its updates leave alone.             *)

IsFrame(f) == \E size, picture : Listed(picture) /\ f = [size |-> size, picture |-> picture]
IsRenderer(r) ==
  \E a, b, c, d, e, f, g, h, i, j :
    r = [dir |-> a, icons |-> b, masks |-> c, layouts |-> d, transient |-> e, background |-> f,
         fonts |-> g, glyphs |-> h, frame |-> i, ok |-> j]

\* What is kept for other frames, fonts apart.
Agree(t, r) == /\ t.dir = r.dir /\ t.icons = r.icons /\ t.masks = r.masks /\ t.layouts = r.layouts
               /\ t.transient = r.transient /\ t.background = r.background /\ t.glyphs = r.glyphs

LEMMA RecordIs ==
  ASSUME NEW a, NEW b, NEW c, NEW d, NEW e, NEW f, NEW g, NEW h, NEW i, NEW j,
         NEW r, r = [dir |-> a, icons |-> b, masks |-> c, layouts |-> d, transient |-> e, background |-> f,
                     fonts |-> g, glyphs |-> h, frame |-> i, ok |-> j]
  PROVE  /\ IsRenderer(r) /\ r.dir = a /\ r.icons = b /\ r.masks = c /\ r.layouts = d
         /\ r.transient = e /\ r.background = f /\ r.fonts = g /\ r.glyphs = h /\ r.frame = i /\ r.ok = j
  BY DEF IsRenderer

LEMMA FrameIs ==
  ASSUME NEW size, NEW picture, Listed(picture), NEW f, f = [size |-> size, picture |-> picture]
  PROVE  IsFrame(f) /\ f.size = size /\ f.picture = picture
  BY DEF IsFrame

LEMMA DrawsIs ==
  ASSUME NEW r, IsRenderer(r), IsFrame(r.frame), NEW l, NEW t, t = Draws(r, l)
  PROVE  /\ IsRenderer(t) /\ Agree(t, r) /\ t.ok = r.ok
         /\ IsFrame(t.frame) /\ t.frame.size = r.frame.size /\ t.frame.picture = Append(r.frame.picture, l)
<1>1. PICK a, b, c, d, e, f, g, h, i, j :
        r = [dir |-> a, icons |-> b, masks |-> c, layouts |-> d, transient |-> e, background |-> f,
             fonts |-> g, glyphs |-> h, frame |-> i, ok |-> j]
  BY DEF IsRenderer
<1>2. PICK size, picture : Listed(picture) /\ i = [size |-> size, picture |-> picture]
  BY <1>1 DEF IsFrame
<1>3. PICK p : Appended(picture, l, p)
  BY DEF Appended
<1>4. Listed(p)
  BY <1>2, <1>3, ListedAppend
<1>5. PICK k : k = [size |-> size, picture |-> p]
  OBVIOUS
<1>6. i.picture = picture /\ [i EXCEPT !.picture = p] = k
  BY <1>2, <1>5
<1>7. r.frame = i
  BY <1>1
<1>8. t = [r EXCEPT !.frame = k]
  BY <1>3, <1>6, <1>7 DEF Draws, Appended
<1>9. t = [dir |-> a, icons |-> b, masks |-> c, layouts |-> d, transient |-> e, background |-> f,
           fonts |-> g, glyphs |-> h, frame |-> k, ok |-> j]
  BY <1>1, <1>8
<1>10. /\ IsRenderer(t) /\ Agree(t, r) /\ t.ok = r.ok /\ t.frame = k
  BY <1>1, <1>9, RecordIs DEF Agree
<1>11. IsFrame(k) /\ k.size = size /\ k.picture = p
  BY <1>4, <1>5, FrameIs
<1>12. r.frame.size = size /\ p = Append(r.frame.picture, l)
  BY <1>2, <1>3, <1>6, <1>7 DEF Appended
<1> QED
  BY <1>10, <1>11, <1>12

LEMMA FailedIs ==
  ASSUME NEW r, IsRenderer(r), NEW t, t = Failed(r)
  PROVE  IsRenderer(t) /\ Agree(t, r) /\ t.ok = FALSE /\ t.frame = r.frame
<1>1. PICK a, b, c, d, e, f, g, h, i, j :
        r = [dir |-> a, icons |-> b, masks |-> c, layouts |-> d, transient |-> e, background |-> f,
             fonts |-> g, glyphs |-> h, frame |-> i, ok |-> j]
  BY DEF IsRenderer
<1>2. PICK k : k = FALSE
  OBVIOUS
<1>3. t = [dir |-> a, icons |-> b, masks |-> c, layouts |-> d, transient |-> e, background |-> f,
           fonts |-> g, glyphs |-> h, frame |-> i, ok |-> k]
  BY <1>1, <1>2 DEF Failed
<1> QED
  BY <1>1, <1>2, <1>3, RecordIs DEF Agree

\* The updates the renderer makes.
LEMMA IconsAre ==
  ASSUME NEW r, IsRenderer(r), NEW q, NEW t, t = [r EXCEPT !.icons = q]
  PROVE  /\ IsRenderer(t) /\ t.dir = r.dir /\ t.icons = q /\ t.masks = r.masks /\ t.layouts = r.layouts
         /\ t.transient = r.transient /\ t.background = r.background /\ t.glyphs = r.glyphs
         /\ t.frame = r.frame /\ t.ok = r.ok
<1>1. PICK a, b, c, d, e, f, g, h, i, j :
        r = [dir |-> a, icons |-> b, masks |-> c, layouts |-> d, transient |-> e, background |-> f,
             fonts |-> g, glyphs |-> h, frame |-> i, ok |-> j]
  BY DEF IsRenderer
<1>2. t = [dir |-> a, icons |-> q, masks |-> c, layouts |-> d, transient |-> e, background |-> f,
           fonts |-> g, glyphs |-> h, frame |-> i, ok |-> j]
  BY <1>1
<1> QED
  BY <1>1, <1>2, RecordIs

\* Updates of two fields.
Moved(r, x, q, t) == t = [r EXCEPT !.dir = x, !.icons = q]
Refonted(r, x, q, t) == t = [r EXCEPT !.fonts = x, !.layouts = q]
Reglyphed(r, x, q, t) == t = [r EXCEPT !.glyphs = x, !.layouts = q]

LEMMA DirIs ==
  ASSUME NEW r, IsRenderer(r), NEW x, NEW q, NEW t, Moved(r, x, q, t)
  PROVE  /\ IsRenderer(t) /\ t.dir = x /\ t.icons = q /\ t.masks = r.masks /\ t.layouts = r.layouts
         /\ t.transient = r.transient /\ t.background = r.background /\ t.glyphs = r.glyphs
         /\ t.frame = r.frame /\ t.ok = r.ok
<1>1. PICK a, b, c, d, e, f, g, h, i, j :
        r = [dir |-> a, icons |-> b, masks |-> c, layouts |-> d, transient |-> e, background |-> f,
             fonts |-> g, glyphs |-> h, frame |-> i, ok |-> j]
  BY DEF IsRenderer
<1>2. PICK u : u = [dir |-> x, icons |-> q, masks |-> c, layouts |-> d, transient |-> e, background |-> f,
                     fonts |-> g, glyphs |-> h, frame |-> i, ok |-> j]
  OBVIOUS
<1>3. t = u
  <2>1. PICK v : v = [r EXCEPT !.dir = x]
    OBVIOUS
  <2>2. v = [dir |-> x, icons |-> b, masks |-> c, layouts |-> d, transient |-> e, background |-> f,
         fonts |-> g, glyphs |-> h, frame |-> i, ok |-> j]
    BY <1>1, <2>1
  <2>3. [r EXCEPT !.dir = x, !.icons = q] = [[r EXCEPT !.dir = x] EXCEPT !.icons = q]
    OBVIOUS
  <2>4. t = [v EXCEPT !.icons = q]
    BY <2>1, <2>3 DEF Moved
  <2> QED
    BY <1>2, <2>2, <2>4
<1>4. /\ IsRenderer(u) /\ u.dir = x /\ u.icons = q /\ u.masks = r.masks /\ u.layouts = r.layouts
      /\ u.transient = r.transient /\ u.background = r.background /\ u.glyphs = r.glyphs
      /\ u.frame = r.frame /\ u.ok = r.ok
  BY <1>1, <1>2, RecordIs
<1> QED
  BY <1>3, <1>4

LEMMA MasksAre ==
  ASSUME NEW r, IsRenderer(r), NEW q, NEW t, t = [r EXCEPT !.masks = q]
  PROVE  /\ IsRenderer(t) /\ t.dir = r.dir /\ t.icons = r.icons /\ t.masks = q /\ t.layouts = r.layouts
         /\ t.transient = r.transient /\ t.background = r.background /\ t.glyphs = r.glyphs
         /\ t.frame = r.frame /\ t.ok = r.ok
<1>1. PICK a, b, c, d, e, f, g, h, i, j :
        r = [dir |-> a, icons |-> b, masks |-> c, layouts |-> d, transient |-> e, background |-> f,
             fonts |-> g, glyphs |-> h, frame |-> i, ok |-> j]
  BY DEF IsRenderer
<1>2. t = [dir |-> a, icons |-> b, masks |-> q, layouts |-> d, transient |-> e, background |-> f,
           fonts |-> g, glyphs |-> h, frame |-> i, ok |-> j]
  BY <1>1
<1> QED
  BY <1>1, <1>2, RecordIs

LEMMA TransientIs ==
  ASSUME NEW r, IsRenderer(r), NEW x, NEW t, t = [r EXCEPT !.transient = x]
  PROVE  /\ IsRenderer(t) /\ t.dir = r.dir /\ t.icons = r.icons /\ t.masks = r.masks /\ t.layouts = r.layouts
         /\ t.transient = x /\ t.background = r.background /\ t.glyphs = r.glyphs
         /\ t.frame = r.frame /\ t.ok = r.ok
<1>1. PICK a, b, c, d, e, f, g, h, i, j :
        r = [dir |-> a, icons |-> b, masks |-> c, layouts |-> d, transient |-> e, background |-> f,
             fonts |-> g, glyphs |-> h, frame |-> i, ok |-> j]
  BY DEF IsRenderer
<1>2. t = [dir |-> a, icons |-> b, masks |-> c, layouts |-> d, transient |-> x, background |-> f,
           fonts |-> g, glyphs |-> h, frame |-> i, ok |-> j]
  BY <1>1
<1> QED
  BY <1>1, <1>2, RecordIs

LEMMA BackgroundIs ==
  ASSUME NEW r, IsRenderer(r), NEW x, NEW t, t = [r EXCEPT !.background = x]
  PROVE  /\ IsRenderer(t) /\ t.dir = r.dir /\ t.icons = r.icons /\ t.masks = r.masks /\ t.layouts = r.layouts
         /\ t.transient = r.transient /\ t.background = x /\ t.glyphs = r.glyphs
         /\ t.frame = r.frame /\ t.ok = r.ok
<1>1. PICK a, b, c, d, e, f, g, h, i, j :
        r = [dir |-> a, icons |-> b, masks |-> c, layouts |-> d, transient |-> e, background |-> f,
             fonts |-> g, glyphs |-> h, frame |-> i, ok |-> j]
  BY DEF IsRenderer
<1>2. t = [dir |-> a, icons |-> b, masks |-> c, layouts |-> d, transient |-> e, background |-> x,
           fonts |-> g, glyphs |-> h, frame |-> i, ok |-> j]
  BY <1>1
<1> QED
  BY <1>1, <1>2, RecordIs

LEMMA FrameSetIs ==
  ASSUME NEW r, IsRenderer(r), NEW x, NEW t, t = [r EXCEPT !.frame = x]
  PROVE  /\ IsRenderer(t) /\ Agree(t, r) /\ t.frame = x /\ t.ok = r.ok
<1>1. PICK a, b, c, d, e, f, g, h, i, j :
        r = [dir |-> a, icons |-> b, masks |-> c, layouts |-> d, transient |-> e, background |-> f,
             fonts |-> g, glyphs |-> h, frame |-> i, ok |-> j]
  BY DEF IsRenderer
<1>2. t = [dir |-> a, icons |-> b, masks |-> c, layouts |-> d, transient |-> e, background |-> f,
           fonts |-> g, glyphs |-> h, frame |-> x, ok |-> j]
  BY <1>1
<1> QED
  BY <1>1, <1>2, RecordIs DEF Agree

LEMMA LayoutsAre ==
  ASSUME NEW r, IsRenderer(r), NEW x, NEW q, NEW t, Refonted(r, x, q, t)
  PROVE  /\ IsRenderer(t) /\ t.dir = r.dir /\ t.icons = r.icons /\ t.masks = r.masks /\ t.layouts = q
         /\ t.transient = r.transient /\ t.background = r.background /\ t.glyphs = r.glyphs
         /\ t.frame = r.frame /\ t.ok = r.ok
<1>1. PICK a, b, c, d, e, f, g, h, i, j :
        r = [dir |-> a, icons |-> b, masks |-> c, layouts |-> d, transient |-> e, background |-> f,
             fonts |-> g, glyphs |-> h, frame |-> i, ok |-> j]
  BY DEF IsRenderer
<1>2. PICK u : u = [dir |-> a, icons |-> b, masks |-> c, layouts |-> q, transient |-> e, background |-> f,
                     fonts |-> x, glyphs |-> h, frame |-> i, ok |-> j]
  OBVIOUS
<1>3. t = u
  <2>1. PICK v : v = [r EXCEPT !.fonts = x]
    OBVIOUS
  <2>2. v = [dir |-> a, icons |-> b, masks |-> c, layouts |-> d, transient |-> e, background |-> f,
         fonts |-> x, glyphs |-> h, frame |-> i, ok |-> j]
    BY <1>1, <2>1
  <2>3. [r EXCEPT !.fonts = x, !.layouts = q] = [[r EXCEPT !.fonts = x] EXCEPT !.layouts = q]
    OBVIOUS
  <2>4. t = [v EXCEPT !.layouts = q]
    BY <2>1, <2>3 DEF Refonted
  <2> QED
    BY <1>2, <2>2, <2>4
<1>4. /\ IsRenderer(u) /\ u.dir = r.dir /\ u.icons = r.icons /\ u.masks = r.masks /\ u.layouts = q
      /\ u.transient = r.transient /\ u.background = r.background /\ u.glyphs = r.glyphs
      /\ u.frame = r.frame /\ u.ok = r.ok
  BY <1>1, <1>2, RecordIs
<1> QED
  BY <1>3, <1>4

LEMMA GlyphsAre ==
  ASSUME NEW r, IsRenderer(r), NEW x, NEW q, NEW t, Reglyphed(r, x, q, t)
  PROVE  /\ IsRenderer(t) /\ t.dir = r.dir /\ t.icons = r.icons /\ t.masks = r.masks /\ t.layouts = q
         /\ t.transient = r.transient /\ t.background = r.background /\ t.glyphs = x
         /\ t.frame = r.frame /\ t.ok = r.ok
<1>1. PICK a, b, c, d, e, f, g, h, i, j :
        r = [dir |-> a, icons |-> b, masks |-> c, layouts |-> d, transient |-> e, background |-> f,
             fonts |-> g, glyphs |-> h, frame |-> i, ok |-> j]
  BY DEF IsRenderer
<1>2. PICK u : u = [dir |-> a, icons |-> b, masks |-> c, layouts |-> q, transient |-> e, background |-> f,
                     fonts |-> g, glyphs |-> x, frame |-> i, ok |-> j]
  OBVIOUS
<1>3. t = u
  <2>1. PICK v : v = [r EXCEPT !.glyphs = x]
    OBVIOUS
  <2>2. v = [dir |-> a, icons |-> b, masks |-> c, layouts |-> d, transient |-> e, background |-> f,
         fonts |-> g, glyphs |-> x, frame |-> i, ok |-> j]
    BY <1>1, <2>1
  <2>3. [r EXCEPT !.glyphs = x, !.layouts = q] = [[r EXCEPT !.glyphs = x] EXCEPT !.layouts = q]
    OBVIOUS
  <2>4. t = [v EXCEPT !.layouts = q]
    BY <2>1, <2>3 DEF Reglyphed
  <2> QED
    BY <1>2, <2>2, <2>4
<1>4. /\ IsRenderer(u) /\ u.dir = r.dir /\ u.icons = r.icons /\ u.masks = r.masks /\ u.layouts = q
      /\ u.transient = r.transient /\ u.background = r.background /\ u.glyphs = x
      /\ u.frame = r.frame /\ u.ok = r.ok
  BY <1>1, <1>2, RecordIs
<1> QED
  BY <1>3, <1>4

-----------------------------------------------------------------------------
(* What is kept between frames: the invariant of the renderer.             *)

\* Icons as the files d are, for a theme whose own icons are in dir.
ExistsOn(d, dir, name) == <<dir, name>> \in IconFiles /\ d[<<dir, name>>] # Absent
FindOn(d, dir, name) == IF dir # NoDir /\ ExistsOn(d, dir, name) THEN {<<dir, name>>}
                        ELSE IF ExistsOn(d, System, name) THEN {<<System, name>>} ELSE {}
PathOn(d, path, w) == IF d[path] = Broken THEN NoImage
                      ELSE [image |-> <<path, d[path], w>>, symbolic |-> Symbolic(path)]
RasterOn(d, dir, name, w) ==
  LET found == FindOn(d, dir, name)
      spare == UNION {IF PathOn(d, p, w) = NoImage THEN {} ELSE {PathOn(d, p, w).image} :
                        p \in FindOn(d, dir, Fallback)}
      other == IF name = Fallback THEN {} ELSE spare
  IN IF found # {} THEN PathOn(d, CHOOSE p \in found : TRUE, w)
     ELSE [image |-> IF other = {} THEN <<"embedded", w>> ELSE CHOOSE i \in other : TRUE,
           symbolic |-> TRUE]
GotOn(d, dir, name, w) == IF name = "" \/ ~Pixels(w, w) THEN NoImage ELSE RasterOn(d, dir, name, w)

IconsFresh(d, dir, q) ==
  \A i \in 1..Len(q.entries) :
    \E name, w : q.entries[i].key = <<name, w>> /\ q.entries[i].of = RasterOn(d, dir, name, w)
MasksMade(q) ==
  \A i \in 1..Len(q.entries) :
    \E w, radius, blur : /\ q.entries[i].key = <<w, radius, blur>>
                         /\ Pixels(w + 2 * blur, w + 2 * blur)
GlyphsKept(glyphs) == IsFiniteSet(glyphs) /\ Cardinality(glyphs) <= GlyphEntries

\* What a rectangle with its shadow adds to a picture, if it can be drawn.
Possible(rect) == rect.blur = 0 \/ Pixels(rect.w + 2 * rect.blur, rect.w + 2 * rect.blur)
Over(p, rect) ==
  LET under == IF rect.blur = 0 THEN p ELSE Append(p, <<"shadow", rect.w, rect.radius, rect.blur>>)
  IN Append(under, <<"rect", rect.w, rect.radius, rect.fill, rect.alpha>>)
BackgroundMade(b) == b # NoBackground => Possible(b.rect) /\ b.picture = Over(<<>>, b.rect)

\* A renderer between two drawings.
Kept(r) ==
  /\ IsRenderer(r) /\ IsFrame(r.frame) /\ r.ok \in BOOLEAN
  /\ SoundQueue(r.icons, IconBytes, IconEntries)
  /\ SoundQueue(r.masks, MaskBytes, MaskEntries) /\ MasksMade(r.masks)
  /\ SoundQueue(r.layouts, LayoutBytes, LayoutEntries)
  /\ r.transient = {} /\ GlyphsKept(r.glyphs) /\ BackgroundMade(r.background)
Fresh(d, r) == IconsFresh(d, r.dir, r.icons)

\* What the assumption says of the limits.
LEMMA Limits ==
  /\ IconBytes \in Nat /\ MaskBytes \in Nat /\ LayoutBytes \in Nat /\ GlyphEntries \in Nat
  /\ IconEntries \in Nat \ {0} /\ MaskEntries \in Nat \ {0} /\ LayoutEntries \in Nat \ {0}
  BY RendererAssumption

LEMMA RasteriseOn ==
  ASSUME NEW r, NEW name, NEW w
  PROVE  Rasterise(r, name, w) = RasterOn(disk, r.dir, name, w)
  BY DEF Rasterise, RasterOn, Find, FindOn, Exists, ExistsOn, Path, PathOn

LEMMA AmongFresh ==
  ASSUME NEW d, NEW dir, NEW q, IconsFresh(d, dir, q), NEW t, Among(t.entries, q.entries)
  PROVE  IconsFresh(d, dir, t)
  BY DEF IconsFresh, Among

\* An icon comes from the queue or from its file; if the queue is as the
\* files are, it is what the file holds.
LEMMA ResolveIconIs ==
  ASSUME NEW r, Kept(r), NEW name, NEW w \in Nat, NEW icon, icon = ResolveIcon(r, name, w)
  PROVE  /\ Kept(icon.to) /\ icon.to.dir = r.dir /\ icon.to.frame = r.frame /\ icon.to.ok = r.ok
         /\ Fresh(disk, r) => Fresh(disk, icon.to) /\ icon.got = GotOn(disk, r.dir, name, w)
<1>1. PICK i : i = Position(r.icons, <<name, w>>)
  OBVIOUS
<1>2. PICK made : made = Rasterise(r, name, w)
  OBVIOUS
<1>3. PICK entry : entry = [key |-> <<name, w>>, bytes |-> w, of |-> made]
  OBVIOUS
<1>4. /\ IsRenderer(r) /\ SoundQueue(r.icons, IconBytes, IconEntries)
      /\ IconBytes \in Nat /\ IconEntries \in Nat \ {0} /\ Listed(r.icons.entries)
  BY Limits DEF Kept, SoundQueue, Bytes
<1>5. /\ i = 0 => NoneFor(r.icons.entries, <<name, w>>)
      /\ i # 0 => i \in 1..Len(r.icons.entries) /\ r.icons.entries[i].key = <<name, w>>
  BY <1>1, <1>4, PositionIs
<1>6. ASSUME NEW q, SoundQueue(q, IconBytes, IconEntries), NEW t, t = [r EXCEPT !.icons = q]
      PROVE  Kept(t) /\ t.dir = r.dir /\ t.icons = q /\ t.frame = r.frame /\ t.ok = r.ok
  <2>1. /\ IsRenderer(t) /\ t.dir = r.dir /\ t.icons = q /\ t.masks = r.masks /\ t.layouts = r.layouts
        /\ t.transient = r.transient /\ t.background = r.background /\ t.glyphs = r.glyphs
        /\ t.frame = r.frame /\ t.ok = r.ok
    BY <1>4, <1>6, IconsAre
  <2> QED
    BY <1>6, <2>1 DEF Kept
<1>7. CASE name = "" \/ ~Pixels(w, w)
  <2>1. icon.to = r /\ icon.got = NoImage
    BY <1>7 DEF ResolveIcon
  <2> QED
    BY <1>7, <2>1 DEF GotOn
<1>8. CASE ~(name = "" \/ ~Pixels(w, w)) /\ i # 0
  <2>1. PICK q : q = Promoted(r.icons, i)
    OBVIOUS
  <2>2. PICK t : t = [r EXCEPT !.icons = q]
    OBVIOUS
  <2>3. icon = [to |-> t, got |-> r.icons.entries[i].of]
    BY <1>1, <1>8, <2>1, <2>2 DEF ResolveIcon
  <2>4. SoundQueue(q, IconBytes, IconEntries) /\ Among(q.entries, r.icons.entries)
    BY <1>4, <1>5, <1>8, <2>1, PromotedSound
  <2>5. Kept(t) /\ t.dir = r.dir /\ t.icons = q /\ t.frame = r.frame /\ t.ok = r.ok
    BY <1>6, <2>2, <2>4
  <2>6. ASSUME Fresh(disk, r)
        PROVE  Fresh(disk, t) /\ r.icons.entries[i].of = GotOn(disk, r.dir, name, w)
    <3>1. IconsFresh(disk, r.dir, r.icons)
      BY <2>6 DEF Fresh
    <3>2. Fresh(disk, t)
      BY <2>4, <2>5, <3>1, AmongFresh DEF Fresh
    <3>3. PICK n, v : r.icons.entries[i].key = <<n, v>> /\ r.icons.entries[i].of = RasterOn(disk, r.dir, n, v)
      BY <1>5, <1>8, <3>1 DEF IconsFresh
    <3>4. n = name /\ v = w
      <4>1. <<n, v>> = <<name, w>>
        BY <1>5, <1>8, <3>3
      <4> QED
        BY <4>1
    <3> QED
      BY <1>8, <3>2, <3>3, <3>4 DEF GotOn
  <2> QED
    BY <2>3, <2>5, <2>6
<1>9. CASE ~(name = "" \/ ~Pixels(w, w)) /\ i = 0 /\ (made = NoImage \/ w > IconBytes)
  <2>1. icon = [to |-> r, got |-> made]
    BY <1>1, <1>2, <1>9 DEF ResolveIcon
  <2>2. made = GotOn(disk, r.dir, name, w)
    BY <1>2, <1>9, RasteriseOn DEF GotOn
  <2> QED
    BY <2>1, <2>2
<1>10. CASE ~(name = "" \/ ~Pixels(w, w)) /\ i = 0 /\ ~(made = NoImage \/ w > IconBytes)
  <2>1. PICK q : q = Pushed(r.icons, entry, IconBytes, IconEntries)
    OBVIOUS
  <2>2. PICK t : t = [r EXCEPT !.icons = q]
    OBVIOUS
  <2>3. icon = [to |-> t, got |-> made]
    BY <1>1, <1>2, <1>3, <1>10, <2>1, <2>2 DEF ResolveIcon
  <2>4. entry.key = <<name, w>> /\ entry.bytes = w /\ entry.of = made
    BY <1>3
  <2>5. entry.bytes \in 0..IconBytes /\ NoneFor(r.icons.entries, entry.key)
    <3>1. w \in 0..IconBytes
      <4>1. IconBytes \in Nat /\ ~(w > IconBytes)
        BY <1>4, <1>10
      <4> QED
        BY <4>1
    <3>2. NoneFor(r.icons.entries, <<name, w>>)
      BY <1>5, <1>10
    <3> QED
      BY <2>4, <3>1, <3>2
  <2>6. /\ SoundQueue(q, IconBytes, IconEntries)
        /\ AmongOr(q.entries, r.icons.entries, entry)
    BY <1>4, <2>1, <2>5, PushedSound
  <2>7. Kept(t) /\ t.dir = r.dir /\ t.icons = q /\ t.frame = r.frame /\ t.ok = r.ok
    BY <1>6, <2>2, <2>6
  <2>8. made = RasterOn(disk, r.dir, name, w)
    BY <1>2, RasteriseOn
  <2>9. ASSUME Fresh(disk, r)
        PROVE  Fresh(disk, t)
    <3>1. IconsFresh(disk, r.dir, r.icons)
      BY <2>9 DEF Fresh
    <3>2. ASSUME NEW k \in 1..Len(q.entries)
          PROVE  \E n, v : q.entries[k].key = <<n, v>> /\ q.entries[k].of = RasterOn(disk, r.dir, n, v)
      <4>1. CASE q.entries[k] = entry
        BY <2>4, <2>8, <4>1
      <4>2. CASE q.entries[k] # entry
        BY <2>6, <3>1, <4>2 DEF IconsFresh, AmongOr
      <4> QED
        BY <4>1, <4>2
    <3> QED
      BY <2>7, <3>2 DEF Fresh, IconsFresh
  <2>10. made = GotOn(disk, r.dir, name, w)
    BY <1>10, <2>8 DEF GotOn
  <2> QED
    BY <2>3, <2>7, <2>9, <2>10
<1> QED
  BY <1>7, <1>8, <1>9, <1>10

-----------------------------------------------------------------------------
(* The masks of shadows.                                                   *)

\* A renderer of which only the transient mask is not as between drawings.
Holds(r, x) ==
  /\ IsRenderer(r) /\ IsFrame(r.frame) /\ r.ok \in BOOLEAN
  /\ SoundQueue(r.icons, IconBytes, IconEntries)
  /\ SoundQueue(r.masks, MaskBytes, MaskEntries) /\ MasksMade(r.masks)
  /\ SoundQueue(r.layouts, LayoutBytes, LayoutEntries)
  /\ r.transient = x /\ GlyphsKept(r.glyphs) /\ BackgroundMade(r.background)

LEMMA ReleasedIs ==
  ASSUME NEW r, NEW x, Holds(r, x), NEW t, t = [r EXCEPT !.transient = {}]
  PROVE  /\ Kept(t) /\ t.dir = r.dir /\ t.icons = r.icons /\ t.frame = r.frame /\ t.ok = r.ok
         /\ t.masks = r.masks
<1>1. IsRenderer(r)
  BY DEF Holds
<1>2. /\ IsRenderer(t) /\ t.dir = r.dir /\ t.icons = r.icons /\ t.masks = r.masks /\ t.layouts = r.layouts
      /\ t.transient = {} /\ t.background = r.background /\ t.glyphs = r.glyphs
      /\ t.frame = r.frame /\ t.ok = r.ok
  BY <1>1, TransientIs
<1> QED
  BY <1>2 DEF Holds, Kept

LEMMA KeptHolds ==
  ASSUME NEW r
  PROVE  Kept(r) <=> Holds(r, {})
  BY DEF Kept, Holds

\* A mask is in the queue or made, if it can be; it may be held for this
\* use only.
LEMMA MaskIs ==
  ASSUME NEW r, Kept(r), r.ok = TRUE, NEW rect, rect.w \in Nat, rect.blur \in Nat, rect.blur # 0,
         NEW t, t = Mask(r, rect)
  PROVE  /\ \E x : Holds(t, x)
         /\ t.dir = r.dir /\ t.icons = r.icons /\ t.frame = r.frame
         /\ Possible(rect) => t.ok = TRUE
         /\ ~Possible(rect) => t.ok = FALSE /\ Kept(t)
<1>1. PICK key : key = <<rect.w, rect.radius, rect.blur>>
  OBVIOUS
<1>2. PICK bytes \in Nat : bytes = rect.w + 2 * rect.blur
  OBVIOUS
<1>3. PICK i : i = Position(r.masks, key)
  OBVIOUS
<1>4. /\ IsRenderer(r) /\ SoundQueue(r.masks, MaskBytes, MaskEntries) /\ MasksMade(r.masks)
      /\ MaskBytes \in Nat /\ MaskEntries \in Nat \ {0} /\ Listed(r.masks.entries)
  BY Limits DEF Kept, SoundQueue, Bytes
<1>5. /\ i = 0 => NoneFor(r.masks.entries, key)
      /\ i # 0 => i \in 1..Len(r.masks.entries) /\ r.masks.entries[i].key = key
  BY <1>3, <1>4, PositionIs
<1>6. Possible(rect) <=> Pixels(bytes, bytes)
  BY <1>2 DEF Possible
<1>7. ASSUME NEW q, SoundQueue(q, MaskBytes, MaskEntries), MasksMade(q), t = [r EXCEPT !.masks = q]
      PROVE  Kept(t) /\ t.dir = r.dir /\ t.icons = r.icons /\ t.frame = r.frame /\ t.ok = r.ok
  <2>1. /\ IsRenderer(t) /\ t.dir = r.dir /\ t.icons = r.icons /\ t.masks = q /\ t.layouts = r.layouts
        /\ t.transient = r.transient /\ t.background = r.background /\ t.glyphs = r.glyphs
        /\ t.frame = r.frame /\ t.ok = r.ok
    BY <1>4, <1>7, MasksAre
  <2> QED
    BY <1>7, <2>1 DEF Kept
<1>8. CASE i # 0
  <2>1. PICK q : q = Promoted(r.masks, i)
    OBVIOUS
  <2>2. SoundQueue(q, MaskBytes, MaskEntries) /\ Among(q.entries, r.masks.entries)
    BY <1>4, <1>5, <1>8, <2>1, PromotedSound
  <2>3. MasksMade(q)
    <3> SUFFICES ASSUME NEW k \in 1..Len(q.entries)
                 PROVE  \E w, radius, blur : /\ q.entries[k].key = <<w, radius, blur>>
                                             /\ Pixels(w + 2 * blur, w + 2 * blur)
      BY DEF MasksMade
    <3>1. PICK j \in 1..Len(r.masks.entries) : q.entries[k] = r.masks.entries[j]
      BY <2>2 DEF Among
    <3>2. \E w, radius, blur : /\ r.masks.entries[j].key = <<w, radius, blur>>
                               /\ Pixels(w + 2 * blur, w + 2 * blur)
      BY <1>4 DEF MasksMade
    <3> QED
      BY <3>1, <3>2
  <2>4. t = [r EXCEPT !.masks = q]
    BY <1>1, <1>3, <1>8, <2>1 DEF Mask
  <2>5. Pixels(bytes, bytes)
    <3>1. PICK w, radius, blur : key = <<w, radius, blur>> /\ Pixels(w + 2 * blur, w + 2 * blur)
      BY <1>4, <1>5, <1>8 DEF MasksMade
    <3>2. w = rect.w /\ blur = rect.blur
      <4>1. <<w, radius, blur>> = <<rect.w, rect.radius, rect.blur>>
        BY <1>1, <3>1
      <4> QED
        BY <4>1
    <3> QED
      BY <1>2, <3>1, <3>2
  <2>6. Kept(t) /\ t.dir = r.dir /\ t.icons = r.icons /\ t.frame = r.frame /\ t.ok = r.ok
    BY <1>7, <2>2, <2>3, <2>4
  <2> QED
    BY <1>6, <2>5, <2>6, KeptHolds
<1>9. CASE i = 0 /\ ~Pixels(bytes, bytes)
  <2>1. t = Failed(r)
    BY <1>1, <1>2, <1>3, <1>9 DEF Mask
  <2>2. IsRenderer(t) /\ Agree(t, r) /\ t.ok = FALSE /\ t.frame = r.frame
    BY <1>4, <2>1, FailedIs
  <2>3. Kept(t)
    BY <2>2 DEF Kept, Agree
  <2> QED
    BY <1>6, <1>9, <2>2, <2>3, KeptHolds DEF Agree
<1>10. CASE i = 0 /\ Pixels(bytes, bytes) /\ bytes > MaskBytes
  <2>1. PICK x : x = {key}
    OBVIOUS
  <2>2. t = [r EXCEPT !.transient = x]
    BY <1>1, <1>2, <1>3, <1>10, <2>1 DEF Mask
  <2>3. /\ IsRenderer(t) /\ t.dir = r.dir /\ t.icons = r.icons /\ t.masks = r.masks /\ t.layouts = r.layouts
        /\ t.transient = x /\ t.background = r.background /\ t.glyphs = r.glyphs
        /\ t.frame = r.frame /\ t.ok = r.ok
    BY <1>4, <2>2, TransientIs
  <2>4. Holds(t, x)
    BY <2>3 DEF Kept, Holds
  <2> QED
    BY <1>6, <1>10, <2>3, <2>4
<1>11. CASE i = 0 /\ Pixels(bytes, bytes) /\ ~(bytes > MaskBytes)
  <2>1. PICK entry : entry = [key |-> key, bytes |-> bytes]
    OBVIOUS
  <2>2. entry.key = key /\ entry.bytes = bytes
    BY <2>1
  <2>3. PICK q : q = Pushed(r.masks, entry, MaskBytes, MaskEntries)
    OBVIOUS
  <2>4. t = [r EXCEPT !.masks = q]
    BY <1>1, <1>2, <1>3, <1>11, <2>1, <2>3 DEF Mask
  <2>5. entry.bytes \in 0..MaskBytes /\ NoneFor(r.masks.entries, entry.key)
    <3>1. bytes \in 0..MaskBytes
      <4>1. MaskBytes \in Nat /\ ~(bytes > MaskBytes)
        BY <1>4, <1>11
      <4> QED
        BY <4>1
    <3>2. NoneFor(r.masks.entries, key)
      BY <1>5, <1>11
    <3> QED
      BY <2>2, <3>1, <3>2
  <2>6. SoundQueue(q, MaskBytes, MaskEntries) /\ AmongOr(q.entries, r.masks.entries, entry)
    BY <1>4, <2>3, <2>5, PushedSound
  <2>7. MasksMade(q)
    <3> SUFFICES ASSUME NEW k \in 1..Len(q.entries)
                 PROVE  \E w, radius, blur : /\ q.entries[k].key = <<w, radius, blur>>
                                             /\ Pixels(w + 2 * blur, w + 2 * blur)
      BY DEF MasksMade
    <3>1. CASE q.entries[k] = entry
      <4>1. PICK w, radius, blur : w = rect.w /\ radius = rect.radius /\ blur = rect.blur
        OBVIOUS
      <4>2. q.entries[k].key = <<w, radius, blur>>
        BY <1>1, <2>2, <3>1, <4>1
      <4>3. Pixels(w + 2 * blur, w + 2 * blur)
        BY <1>2, <1>11, <4>1
      <4> QED
        BY <4>2, <4>3, Zenon
    <3>2. CASE q.entries[k] # entry
      <4>1. PICK j \in 1..Len(r.masks.entries) : q.entries[k] = r.masks.entries[j]
        BY <2>6, <3>2 DEF AmongOr
      <4>2. \E w, radius, blur : /\ r.masks.entries[j].key = <<w, radius, blur>>
                                 /\ Pixels(w + 2 * blur, w + 2 * blur)
        BY <1>4 DEF MasksMade
      <4> QED
        BY <4>1, <4>2
    <3> QED
      BY <3>1, <3>2
  <2>8. Kept(t) /\ t.dir = r.dir /\ t.icons = r.icons /\ t.frame = r.frame /\ t.ok = r.ok
    BY <1>7, <2>4, <2>6, <2>7
  <2> QED
    BY <1>6, <1>11, <2>8, KeptHolds
<1> QED
  BY <1>8, <1>9, <1>10, <1>11

-----------------------------------------------------------------------------
(* The elements: t is r after something was drawn, which could be done or  *)
(* not, with the picture p; icons in it may be older if those kept are.    *)

Drawn(t, r, can, p) ==
  /\ Kept(t) /\ t.dir = r.dir /\ t.frame.size = r.frame.size
  /\ Fresh(disk, r) => Fresh(disk, t)
  /\ can = "yes" => /\ t.ok = TRUE /\ Outline(t.frame.picture) = Outline(p)
                    /\ Fresh(disk, r) => t.frame.picture = p
  /\ can = "no" => t.ok = FALSE

LEMMA ExactlyDrawn ==
  ASSUME NEW t, NEW r, NEW can, can \in {"yes", "no"}, NEW p, Kept(t), t.dir = r.dir, t.icons = r.icons,
         t.frame.size = r.frame.size,
         can = "yes" => t.ok = TRUE /\ t.frame.picture = p, can = "no" => t.ok = FALSE
  PROVE  Drawn(t, r, can, p)
  BY DEF Drawn, Fresh

LEMMA FailedDrawn ==
  ASSUME NEW r, Kept(r), NEW t, t = Failed(r), NEW p
  PROVE  Drawn(t, r, "no", p)
<1>1. IsRenderer(t) /\ Agree(t, r) /\ t.ok = FALSE /\ t.frame = r.frame
  BY FailedIs DEF Kept
<1>2. Kept(t)
  BY <1>1 DEF Kept, Agree
<1> QED
  BY <1>1, <1>2 DEF Drawn, Fresh, Agree

LEMMA DrawsKept ==
  ASSUME NEW r, Kept(r), NEW l, NEW t, t = Draws(r, l)
  PROVE  /\ Kept(t) /\ t.dir = r.dir /\ t.icons = r.icons /\ t.ok = r.ok
         /\ t.frame.size = r.frame.size /\ t.frame.picture = Append(r.frame.picture, l)
<1>1. /\ IsRenderer(t) /\ Agree(t, r) /\ t.ok = r.ok
      /\ IsFrame(t.frame) /\ t.frame.size = r.frame.size /\ t.frame.picture = Append(r.frame.picture, l)
  BY DrawsIs DEF Kept
<1>2. Kept(t)
  BY <1>1 DEF Kept, Agree
<1> QED
  BY <1>1, <1>2 DEF Agree

CanRect(rect) == IF Possible(rect) THEN "yes" ELSE "no"

LEMMA DrawResolvedIs ==
  ASSUME NEW r, Kept(r), r.ok = TRUE, NEW rect, rect.w \in Nat, rect.blur \in Nat,
         NEW t, t = DrawResolved(r, rect)
  PROVE  /\ Drawn(t, r, CanRect(rect), Over(r.frame.picture, rect)) /\ t.icons = r.icons
         /\ Possible(rect) => t.frame.picture = Over(r.frame.picture, rect)
<1> DEFINE top == <<"rect", rect.w, rect.radius, rect.fill, rect.alpha>>
           shade == <<"shadow", rect.w, rect.radius, rect.blur>>
<1> HIDE DEF top, shade
<1>1. CASE rect.blur = 0
  <2>1. t = Draws(r, top)
    BY <1>1 DEF DrawResolved, top
  <2>2. /\ Kept(t) /\ t.dir = r.dir /\ t.icons = r.icons /\ t.ok = r.ok
        /\ t.frame.size = r.frame.size /\ t.frame.picture = Append(r.frame.picture, top)
    BY <2>1, DrawsKept
  <2>3. t.frame.picture = Over(r.frame.picture, rect) /\ CanRect(rect) = "yes"
    BY <1>1, <2>2 DEF Over, CanRect, Possible, top
  <2> QED
    BY <2>2, <2>3, ExactlyDrawn
<1>2. CASE rect.blur # 0
  <2>1. PICK u : u = [r EXCEPT !.transient = {}]
    OBVIOUS
  <2>2. Kept(u) /\ u.dir = r.dir /\ u.icons = r.icons /\ u.frame = r.frame /\ u.ok = r.ok
    BY <2>1, KeptHolds, ReleasedIs
  <2>3. PICK v : v = Mask(u, rect)
    OBVIOUS
  <2>4. /\ \E x : Holds(v, x)
        /\ v.dir = u.dir /\ v.icons = u.icons /\ v.frame = u.frame
        /\ Possible(rect) => v.ok = TRUE
        /\ ~Possible(rect) => v.ok = FALSE /\ Kept(v)
    BY <1>2, <2>2, <2>3, MaskIs
  <2>5. CASE ~Possible(rect)
    <3>1. t = v
      BY <1>2, <2>1, <2>3, <2>4, <2>5 DEF DrawResolved
    <3>2. CanRect(rect) = "no"
      BY <2>5 DEF CanRect
    <3> QED
      BY <2>2, <2>4, <2>5, <3>1, <3>2, ExactlyDrawn
  <2>6. CASE Possible(rect)
    <3>1. PICK w : w = [v EXCEPT !.transient = {}]
      OBVIOUS
    <3>2. Kept(w) /\ w.dir = v.dir /\ w.icons = v.icons /\ w.frame = v.frame /\ w.ok = v.ok
      BY <2>4, <3>1, ReleasedIs
    <3>3. PICK y : y = Draws(w, shade)
      OBVIOUS
    <3>4. /\ Kept(y) /\ y.dir = w.dir /\ y.icons = w.icons /\ y.ok = w.ok
          /\ y.frame.size = w.frame.size /\ y.frame.picture = Append(w.frame.picture, shade)
      <4>1. Kept(w)
        BY <3>2
      <4>2. y = Draws(w, shade)
        BY <3>3
      <4> QED
        BY <4>1, <4>2, DrawsKept
    <3>5. t = Draws(y, top)
      BY <1>2, <2>1, <2>3, <2>4, <2>6, <3>1, <3>3 DEF DrawResolved, top, shade
    <3>6. /\ Kept(t) /\ t.dir = y.dir /\ t.icons = y.icons /\ t.ok = y.ok
          /\ t.frame.size = y.frame.size /\ t.frame.picture = Append(y.frame.picture, top)
      BY <3>4, <3>5, DrawsKept
    <3>7. t.frame.picture = Over(r.frame.picture, rect) /\ CanRect(rect) = "yes"
      BY <1>2, <2>2, <2>4, <2>6, <3>2, <3>4, <3>6 DEF Over, CanRect, top, shade
    <3> QED
      BY <2>2, <2>4, <2>6, <3>2, <3>4, <3>6, <3>7, ExactlyDrawn
  <2> QED
    BY <2>5, <2>6
<1> QED
  BY <1>1, <1>2

\* What an element adds to a picture, and whether it can be drawn.
IconLayer(got, e, value, alpha) ==
  LET tint == IF e.colour = "auto" THEN "none"
              ELSE IF e.colour = "unset" THEN (IF got.symbolic THEN value ELSE "none")
              ELSE Bound(e.colour, value)
  IN IF got = NoImage THEN <<"placeholder", e.w, value, alpha>> ELSE <<"icon", got.image, tint, alpha>>
OverBar(p, e, value, alpha) ==
  LET filled == <<"bar", e.w, value, alpha>>
  IN IF e.what = "cells" THEN Append(p, <<"cells", e.w, value>>)
     ELSE IF e.what = "gains" THEN Append(Append(p, filled), <<"gain", e.w, value, alpha>>)
     ELSE Append(p, filled)
OverText(p, e, value, alpha) ==
  LET label == Bound(e.what, value)
  IN IF label = "" THEN p ELSE Append(p, <<"text", <<label, e.w>>, value, alpha>>)
OverImage(d, dir, p, e, value, alpha) ==
  Append(p, IconLayer(GotOn(d, dir, Bound(e.what, value), e.w), e, value, alpha))
OverElement(d, dir, p, e, value, alpha) ==
  IF e.is = "rect" THEN Over(p, Resolve(e, value, alpha))
  ELSE IF e.is = "bar" THEN OverBar(p, e, value, alpha)
  ELSE IF e.is = "text" THEN OverText(p, e, value, alpha)
  ELSE OverImage(d, dir, p, e, value, alpha)

CanDraw(e, value) ==
  IF e.is = "rect" THEN (IF e.fails = "no" /\ Possible(e) THEN "yes" ELSE "no")
  ELSE IF e.is = "text"
       THEN (IF e.fails = "no" \/ (e.fails = "late" /\ Bound(e.what, value) = "") THEN "yes" ELSE "no")
  ELSE IF e.fails = "no" THEN "yes" ELSE "no"

\* A rectangle as an element is resolved to.
LEMMA ResolveIs ==
  ASSUME NEW e \in Element, NEW value, NEW alpha, NEW rect, rect = Resolve(e, value, alpha)
  PROVE  /\ rect.w \in Nat /\ rect.blur \in Nat /\ (Possible(rect) <=> Possible(e))
         /\ rect.radius = e.radius /\ rect.blur = e.blur
  BY DEF Element, Resolve, Possible

LEMMA DrawRectIs ==
  ASSUME NEW r, Kept(r), r.ok = TRUE, NEW e \in Element, e.is = "rect", NEW value, NEW alpha,
         NEW t, t = DrawRect(r, e, value, alpha)
  PROVE  Drawn(t, r, CanDraw(e, value), Over(r.frame.picture, Resolve(e, value, alpha)))
<1>1. PICK rect : rect = Resolve(e, value, alpha)
  OBVIOUS
<1>2. rect.w \in Nat /\ rect.blur \in Nat /\ (Possible(rect) <=> Possible(e))
  BY <1>1, ResolveIs
<1>3. CASE e.fails # "no"
  <2>1. t = Failed(r) /\ CanDraw(e, value) = "no"
    BY <1>3 DEF DrawRect, CanDraw
  <2> QED
    BY <2>1, FailedDrawn
<1>4. CASE e.fails = "no"
  <2>1. t = DrawResolved(r, rect) /\ CanDraw(e, value) = CanRect(rect)
    <3>1. t = DrawResolved(r, rect)
      BY <1>1, <1>4 DEF DrawRect
    <3>2. CanDraw(e, value) = IF Possible(e) THEN "yes" ELSE "no"
      BY <1>4 DEF CanDraw
    <3> QED
      BY <1>2, <3>1, <3>2 DEF CanRect
  <2>2. Drawn(t, r, CanRect(rect), Over(r.frame.picture, rect))
    BY <1>2, <2>1, DrawResolvedIs
  <2> QED
    BY <1>1, <2>1, <2>2
<1> QED
  BY <1>3, <1>4

LEMMA DrawBarIs ==
  ASSUME NEW r, Kept(r), r.ok = TRUE, NEW e \in Element, e.is = "bar", NEW value, NEW alpha,
         NEW t, t = DrawBar(r, e, value, alpha)
  PROVE  Drawn(t, r, CanDraw(e, value), OverBar(r.frame.picture, e, value, alpha))
<1>1. PICK filled : filled = <<"bar", e.w, value, alpha>>
  OBVIOUS
<1>2. PICK cells : cells = <<"cells", e.w, value>>
  OBVIOUS
<1>3. PICK gain : gain = <<"gain", e.w, value, alpha>>
  OBVIOUS
<1>4. CASE e.fails # "no"
  <2>1. t = Failed(r) /\ CanDraw(e, value) = "no"
    BY <1>4 DEF DrawBar, CanDraw
  <2> QED
    BY <2>1, FailedDrawn
<1>5. CASE e.fails = "no" /\ e.what = "cells"
  <2>1. t = Draws(r, cells) /\ CanDraw(e, value) = "yes"
    BY <1>2, <1>5 DEF DrawBar, CanDraw
  <2>2. /\ Kept(t) /\ t.dir = r.dir /\ t.icons = r.icons /\ t.ok = r.ok
        /\ t.frame.size = r.frame.size /\ t.frame.picture = Append(r.frame.picture, cells)
    BY <2>1, DrawsKept
  <2>3. t.frame.picture = OverBar(r.frame.picture, e, value, alpha)
    BY <1>2, <1>5, <2>2 DEF OverBar
  <2> QED
    BY <2>1, <2>2, <2>3, ExactlyDrawn
<1>6. CASE e.fails = "no" /\ e.what = "gains"
  <2>1. PICK u : u = Draws(r, filled)
    OBVIOUS
  <2>2. /\ Kept(u) /\ u.dir = r.dir /\ u.icons = r.icons /\ u.ok = r.ok
        /\ u.frame.size = r.frame.size /\ u.frame.picture = Append(r.frame.picture, filled)
    BY <2>1, DrawsKept
  <2>3. t = Draws(u, gain) /\ CanDraw(e, value) = "yes"
    BY <1>1, <1>3, <1>6, <2>1 DEF DrawBar, CanDraw
  <2>4. Kept(u)
    BY <2>2
  <2>5. /\ Kept(t) /\ t.dir = u.dir /\ t.icons = u.icons /\ t.ok = u.ok
        /\ t.frame.size = u.frame.size /\ t.frame.picture = Append(u.frame.picture, gain)
    BY <2>3, <2>4, DrawsKept
  <2>6. t.frame.picture = OverBar(r.frame.picture, e, value, alpha)
    BY <1>1, <1>3, <1>6, <2>2, <2>5 DEF OverBar
  <2> QED
    BY <2>2, <2>3, <2>5, <2>6, ExactlyDrawn
<1>7. CASE e.fails = "no" /\ e.what # "cells" /\ e.what # "gains"
  <2>1. t = Draws(r, filled) /\ CanDraw(e, value) = "yes"
    BY <1>1, <1>7 DEF DrawBar, CanDraw
  <2>2. /\ Kept(t) /\ t.dir = r.dir /\ t.icons = r.icons /\ t.ok = r.ok
        /\ t.frame.size = r.frame.size /\ t.frame.picture = Append(r.frame.picture, filled)
    BY <2>1, DrawsKept
  <2>3. t.frame.picture = OverBar(r.frame.picture, e, value, alpha)
    BY <1>1, <1>7, <2>2 DEF OverBar
  <2> QED
    BY <2>1, <2>2, <2>3, ExactlyDrawn
<1> QED
  BY <1>4, <1>5, <1>6, <1>7

LEMMA OverListed ==
  ASSUME NEW p, Listed(p), NEW rect
  PROVE  Listed(Over(p, rect))
<1>1. ASSUME NEW q, Listed(q), NEW l
      PROVE  Listed(Append(q, l))
  <2>1. PICK u : Appended(q, l, u)
    BY DEF Appended
  <2>2. Listed(u)
    BY <1>1, <2>1, ListedAppend
  <2> QED
    BY <2>1, <2>2 DEF Appended
<1>2. PICK top : top = <<"rect", rect.w, rect.radius, rect.fill, rect.alpha>>
  OBVIOUS
<1>3. PICK shade : shade = <<"shadow", rect.w, rect.radius, rect.blur>>
  OBVIOUS
<1>4. Over(p, rect) = Append(IF rect.blur = 0 THEN p ELSE Append(p, shade), top)
  BY <1>2, <1>3 DEF Over
<1>5. CASE rect.blur = 0
  BY <1>1, <1>4, <1>5
<1>6. CASE rect.blur # 0
  <2>1. Listed(Append(p, shade))
    BY <1>1
  <2> QED
    BY <1>1, <1>4, <1>6, <2>1
<1> QED
  BY <1>5, <1>6

\* The background is drawn over an empty picture, or was.
LEMMA DrawBackgroundIs ==
  ASSUME NEW r, Kept(r), r.ok = TRUE, r.frame.picture = <<>>, NEW e \in Element, e.is = "rect",
         NEW value, NEW t, t = DrawBackground(r, e, value)
  PROVE  Drawn(t, r, CanDraw(e, value), Over(r.frame.picture, Resolve(e, value, 1)))
<1>1. PICK rect : rect = Resolve(e, value, 1)
  OBVIOUS
<1>2. rect.w \in Nat /\ rect.blur \in Nat /\ (Possible(rect) <=> Possible(e))
  BY <1>1, ResolveIs
<1>3. PICK p : p = Over(r.frame.picture, rect)
  OBVIOUS
<1>4. PICK drawn : drawn = DrawResolved(r, rect)
  OBVIOUS
<1>5. /\ Drawn(drawn, r, CanRect(rect), p) /\ drawn.icons = r.icons
      /\ Possible(rect) => drawn.frame.picture = p
  BY <1>2, <1>3, <1>4, DrawResolvedIs
<1>6. CanRect(rect) = IF Possible(rect) THEN "yes" ELSE "no"
  BY DEF CanRect
<1>7. Possible(rect) <=> drawn.ok = TRUE
  BY <1>5, <1>6 DEF Drawn
<1>8. PICK cacheable : cacheable = ((rect.radius > 0 \/ rect.blur > 0) /\ r.frame.size <= BackgroundBytes)
  OBVIOUS
<1>9. drawn.ok \in BOOLEAN /\ Kept(drawn)
  BY <1>5 DEF Drawn, Kept
<1>10. CASE e.fails # "no"
  <2>1. t = Failed(r) /\ CanDraw(e, value) = "no"
    BY <1>10 DEF DrawBackground, CanDraw
  <2> QED
    BY <2>1, FailedDrawn
<1>11. CASE e.fails = "no"
  <2>1. CanDraw(e, value) = CanRect(rect)
    BY <1>2, <1>6, <1>11 DEF CanDraw
  <2>2. CASE cacheable /\ r.background # NoBackground /\ Usable(r, rect)
    <3>1. PICK f : f = [size |-> r.background.size, picture |-> r.background.picture]
      OBVIOUS
    <3>2. t = [r EXCEPT !.frame = f]
      BY <1>1, <1>8, <1>11, <2>2, <3>1 DEF DrawBackground
    <3>3. /\ r.background.rect = rect /\ r.background.size = r.frame.size
          /\ Possible(rect) /\ r.background.picture = Over(<<>>, rect)
      BY <2>2 DEF Usable, Kept, BackgroundMade
    <3>4. r.background.picture = p
      BY <1>3, <3>3
    <3>5. Listed(p)
      <4>1. Listed(<<>>)
        BY EmptyBytes DEF Bytes
      <4> QED
        BY <1>3, <4>1, OverListed
    <3>6. IsFrame(f) /\ f.size = r.frame.size /\ f.picture = p
      BY <3>1, <3>3, <3>4, <3>5, FrameIs
    <3>7. IsRenderer(t) /\ Agree(t, r) /\ t.frame = f /\ t.ok = r.ok
      BY <3>2, FrameSetIs DEF Kept
    <3>8. Kept(t)
      BY <3>6, <3>7 DEF Kept, Agree
    <3>9. Drawn(t, r, CanRect(rect), p)
      BY <1>6, <3>3, <3>6, <3>7, <3>8, ExactlyDrawn DEF Agree
    <3> QED
      BY <1>1, <1>3, <2>1, <3>9
  <2>3. CASE ~(cacheable /\ r.background # NoBackground /\ Usable(r, rect)) /\ ~drawn.ok
    <3>1. t = drawn
      BY <1>1, <1>4, <1>8, <1>11, <2>3 DEF DrawBackground
    <3> QED
      BY <1>1, <1>3, <1>5, <2>1, <3>1
  <2>4. CASE ~(cacheable /\ r.background # NoBackground /\ Usable(r, rect)) /\ drawn.ok
    <3>1. PICK b : b = IF cacheable THEN [rect |-> rect, size |-> r.frame.size, picture |-> drawn.frame.picture]
                       ELSE NoBackground
      OBVIOUS
    <3>2. t = [drawn EXCEPT !.background = b]
      BY <1>1, <1>4, <1>8, <1>11, <2>4, <3>1 DEF DrawBackground
    <3>3. Possible(rect) /\ drawn.frame.picture = p /\ drawn.ok = TRUE
      BY <1>5, <1>7, <1>9, <2>4
    <3>4. BackgroundMade(b)
      <4>1. CASE b # NoBackground
        <5>1. b.rect = rect /\ b.picture = p
          BY <3>1, <3>3, <4>1
        <5> QED
          BY <1>3, <3>3, <5>1 DEF BackgroundMade
      <4> QED
        BY <4>1 DEF BackgroundMade
    <3>5. /\ IsRenderer(t) /\ t.dir = drawn.dir /\ t.icons = drawn.icons /\ t.masks = drawn.masks
          /\ t.layouts = drawn.layouts
          /\ t.transient = drawn.transient /\ t.background = b /\ t.glyphs = drawn.glyphs
          /\ t.frame = drawn.frame /\ t.ok = drawn.ok
      BY <1>9, <3>2, BackgroundIs DEF Kept
    <3>6. Kept(t)
      BY <1>9, <3>4, <3>5 DEF Kept
    <3>7. drawn.dir = r.dir /\ drawn.frame.size = r.frame.size
      BY <1>5 DEF Drawn
    <3>8. Drawn(t, r, CanRect(rect), p)
      BY <1>5, <1>6, <3>3, <3>5, <3>6, <3>7, ExactlyDrawn
    <3> QED
      BY <1>1, <1>3, <2>1, <3>8
  <2> QED
    BY <2>2, <2>3, <2>4
<1> QED
  BY <1>10, <1>11

\* A layout taken is out of the queue, so that it can be put back.
LEMMA TakeLayoutIs ==
  ASSUME NEW q, SoundQueue(q, LayoutBytes, LayoutEntries), NEW key, NEW i, i = Position(q, key),
         NEW t, t = TakeLayout(q, i)
  PROVE  SoundQueue(t, LayoutBytes, LayoutEntries) /\ NoneFor(t.entries, key)
<1>1. LayoutBytes \in Nat /\ LayoutEntries \in Nat \ {0} /\ LayoutEntries \in Nat
  BY Limits
<1>2. Listed(q.entries)
  BY DEF SoundQueue, Bytes
<1>3. /\ i = 0 => NoneFor(q.entries, key)
      /\ i # 0 => i \in 1..Len(q.entries) /\ q.entries[i].key = key
  BY <1>2, PositionIs
<1>4. CASE i = 0
  BY <1>3, <1>4 DEF TakeLayout
<1>5. CASE i # 0
  <2>1. t = [entries |-> RemoveAt(q.entries, i), bytes |-> q.bytes - q.entries[i].bytes]
    BY <1>5 DEF TakeLayout
  <2>2. SoundQueue(t, LayoutBytes, LayoutEntries) /\ NoneFor(t.entries, q.entries[i].key)
    BY <1>1, <1>3, <1>5, <2>1, TakeSound
  <2> QED
    BY <1>3, <1>5, <2>2
<1> QED
  BY <1>4, <1>5

LEMMA InsertLayoutIs ==
  ASSUME NEW q, SoundQueue(q, LayoutBytes, LayoutEntries), NEW label, NEW font \in Nat,
         NoneFor(q.entries, <<label, font>>), NEW t, t = InsertLayout(q, label, font)
  PROVE  SoundQueue(t, LayoutBytes, LayoutEntries)
<1>1. LayoutBytes \in Nat /\ LayoutEntries \in Nat \ {0}
  BY Limits
<1>2. PICK bytes \in Nat : bytes = font + 1
  OBVIOUS
<1>3. PICK entry : entry = [key |-> <<label, font>>, bytes |-> bytes]
  OBVIOUS
<1>4. entry.key = <<label, font>> /\ entry.bytes = bytes
  BY <1>3
<1>5. CASE font > LabelBytes \/ bytes > LayoutBytes
  BY <1>2, <1>5 DEF InsertLayout
<1>6. CASE ~(font > LabelBytes \/ bytes > LayoutBytes)
  <2>1. t = Pushed(q, entry, LayoutBytes, LayoutEntries)
    BY <1>2, <1>3, <1>6 DEF InsertLayout
  <2>2. bytes \in 0..LayoutBytes
    BY <1>1, <1>6
  <2>3. entry.bytes \in 0..LayoutBytes /\ NoneFor(q.entries, entry.key)
    BY <1>4, <2>2
  <2> QED
    BY <1>1, <2>1, <2>3, PushedSound
<1> QED
  BY <1>5, <1>6

LEMMA DrawTextIs ==
  ASSUME NEW r, Kept(r), r.ok = TRUE, NEW e \in Element, e.is = "text", NEW value, NEW alpha,
         NEW t, t = DrawText(r, e, value, alpha)
  PROVE  Drawn(t, r, CanDraw(e, value), OverText(r.frame.picture, e, value, alpha))
<1>1. PICK label : label = Bound(e.what, value)
  OBVIOUS
<1>2. PICK i : i = Position(r.layouts, <<label, e.w>>)
  OBVIOUS
<1>3. PICK layouts : layouts = TakeLayout(r.layouts, i)
  OBVIOUS
<1>4. PICK taken : taken = [r EXCEPT !.fonts = TRUE, !.layouts = layouts]
  OBVIOUS
<1>5. /\ IsRenderer(r) /\ SoundQueue(r.layouts, LayoutBytes, LayoutEntries) /\ e.w \in Nat
      /\ e.fails \in {"no", "early", "late"}
  BY DEF Kept, Element
<1>6. SoundQueue(layouts, LayoutBytes, LayoutEntries) /\ NoneFor(layouts.entries, <<label, e.w>>)
  BY <1>2, <1>3, <1>5, TakeLayoutIs
<1>7. /\ IsRenderer(taken) /\ taken.dir = r.dir /\ taken.icons = r.icons /\ taken.masks = r.masks
      /\ taken.layouts = layouts
      /\ taken.transient = r.transient /\ taken.background = r.background /\ taken.glyphs = r.glyphs
      /\ taken.frame = r.frame /\ taken.ok = r.ok
  <2>1. IsRenderer(r)
    BY <1>5
  <2>2. PICK yes : yes = TRUE
    OBVIOUS
  <2>3. Refonted(r, yes, layouts, taken)
    BY <1>4, <2>2 DEF Refonted
  <2> QED
    BY <2>1, <2>3, LayoutsAre
<1>8. Kept(taken)
  BY <1>6, <1>7 DEF Kept
<1>9. CASE e.fails = "early"
  <2>1. t = Failed(r) /\ CanDraw(e, value) = "no"
    BY <1>9 DEF DrawText, CanDraw
  <2> QED
    BY <2>1, FailedDrawn
<1>10. CASE e.fails # "early" /\ label = ""
  <2>1. t = r
    BY <1>1, <1>10 DEF DrawText
  <2>2. CanDraw(e, value) = "yes"
    BY <1>1, <1>5, <1>10 DEF CanDraw
  <2>3. t.frame.picture = OverText(r.frame.picture, e, value, alpha)
    BY <1>1, <1>10, <2>1 DEF OverText
  <2> QED
    BY <2>1, <2>2, <2>3, ExactlyDrawn
<1>11. CASE e.fails = "late" /\ label # ""
  <2>1. t = Failed(taken)
    BY <1>1, <1>2, <1>3, <1>4, <1>11 DEF DrawText
  <2>2. CanDraw(e, value) = "no"
    BY <1>1, <1>11 DEF CanDraw
  <2>3. Drawn(t, taken, "no", <<>>)
    BY <1>8, <2>1, FailedDrawn
  <2> QED
    BY <1>7, <2>2, <2>3 DEF Drawn, Fresh
<1>12. CASE e.fails = "no" /\ label # ""
  <2>1. PICK all : all = r.glyphs \cup {label}
    OBVIOUS
  <2>2. PICK glyphs : glyphs = IF Cardinality(all) > GlyphEntries THEN {} ELSE all
    OBVIOUS
  <2>3. PICK q : q = InsertLayout(layouts, label, e.w)
    OBVIOUS
  <2>4. PICK u : u = [taken EXCEPT !.glyphs = glyphs, !.layouts = q]
    OBVIOUS
  <2>5. PICK l : l = <<"text", <<label, e.w>>, value, alpha>>
    OBVIOUS
  <2>6. (IF i = 0 THEN <<label, e.w>> ELSE r.layouts.entries[i].key) = <<label, e.w>>
    <3>1. Listed(r.layouts.entries)
      BY <1>5 DEF SoundQueue, Bytes
    <3>2. i # 0 => r.layouts.entries[i].key = <<label, e.w>>
      BY <1>2, <3>1, PositionIs
    <3> QED
      BY <3>2
  <2>7. [taken EXCEPT !.glyphs = glyphs, !.layouts = InsertLayout(@, label, e.w)] = u
    BY <1>7, <2>3, <2>4
  <2>8. t = Draws(u, <<"text", IF i = 0 THEN <<label, e.w>> ELSE r.layouts.entries[i].key, value, alpha>>)
    BY <1>1, <1>2, <1>3, <1>4, <1>12, <2>1, <2>2, <2>7 DEF DrawText
  <2>9. t = Draws(u, l)
    BY <2>5, <2>6, <2>8
  <2>10. GlyphsKept(glyphs)
    <3>1. IsFiniteSet(all) /\ IsFiniteSet({}) /\ Cardinality({}) = 0
      BY <2>1, FS_AddElement, FS_EmptySet DEF Kept, GlyphsKept
    <3>2. GlyphEntries \in Nat /\ Cardinality(all) \in Nat
      BY <3>1, Limits, FS_CardinalityType
    <3>3. CASE Cardinality(all) > GlyphEntries
      BY <2>2, <3>1, <3>2, <3>3 DEF GlyphsKept
    <3>4. CASE ~(Cardinality(all) > GlyphEntries)
      BY <2>2, <3>1, <3>2, <3>4 DEF GlyphsKept
    <3> QED
      BY <3>3, <3>4
  <2>11. SoundQueue(q, LayoutBytes, LayoutEntries)
    BY <1>5, <1>6, <2>3, InsertLayoutIs
  <2>12. /\ IsRenderer(u) /\ u.dir = taken.dir /\ u.icons = taken.icons /\ u.masks = taken.masks
         /\ u.layouts = q
         /\ u.transient = taken.transient /\ u.background = taken.background /\ u.glyphs = glyphs
         /\ u.frame = taken.frame /\ u.ok = taken.ok
    <3>1. IsRenderer(taken)
      BY <1>7
    <3>2. Reglyphed(taken, glyphs, q, u)
      BY <2>4 DEF Reglyphed
    <3> QED
      BY <3>1, <3>2, GlyphsAre
  <2>13. Kept(u)
    BY <1>8, <2>10, <2>11, <2>12 DEF Kept
  <2>14. /\ Kept(t) /\ t.dir = u.dir /\ t.icons = u.icons /\ t.ok = u.ok
         /\ t.frame.size = u.frame.size /\ t.frame.picture = Append(u.frame.picture, l)
    BY <2>9, <2>13, DrawsKept
  <2>15. t.frame.picture = OverText(r.frame.picture, e, value, alpha)
    BY <1>1, <1>7, <1>12, <2>5, <2>12, <2>14 DEF OverText
  <2>16. CanDraw(e, value) = "yes"
    BY <1>12 DEF CanDraw
  <2> QED
    BY <1>7, <2>12, <2>14, <2>15, <2>16, ExactlyDrawn
<1> QED
  BY <1>5, <1>9, <1>10, <1>11, <1>12

-----------------------------------------------------------------------------
(* Pictures that differ in the contents of their icons only.               *)

Plain(l) == IF l[1] \in {"icon", "placeholder"} THEN <<"icon">> ELSE l
Alike(p, q) == Outline(p) = Outline(q)

LEMMA OutlineIs ==
  ASSUME NEW p, Listed(p)
  PROVE  Outline(p) = [i \in 1..Len(p) |-> Plain(p[i])]
<1>1. DOMAIN p = 1..Len(p)
  BY ListedLen
<1> QED
  BY <1>1 DEF Outline, Plain

LEMMA AlikeAppend ==
  ASSUME NEW p, Listed(p), NEW q, Listed(q), Alike(p, q), NEW l, NEW m, Plain(l) = Plain(m),
         NEW t, Appended(p, l, t), NEW u, Appended(q, m, u)
  PROVE  Alike(t, u)
<1>1. /\ Len(p) \in Nat /\ Listed(t) /\ Len(t) = Len(p) + 1 /\ t[Len(p) + 1] = l
      /\ Same(t, 0, p, 0, Len(p))
  BY ListedLen, ListedAppend
<1>2. /\ Len(q) \in Nat /\ Listed(u) /\ Len(u) = Len(q) + 1 /\ u[Len(q) + 1] = m
      /\ Same(u, 0, q, 0, Len(q))
  BY ListedLen, ListedAppend
<1>3. [i \in 1..Len(p) |-> Plain(p[i])] = [i \in 1..Len(q) |-> Plain(q[i])]
  BY OutlineIs DEF Alike
<1>4. 1..Len(p) = 1..Len(q)
  BY <1>3
<1>5. Len(p) = Len(q)
  BY <1>1, <1>2, <1>4
<1>6. \A i \in 1..Len(p) : Plain(p[i]) = Plain(q[i])
  BY <1>3, <1>5
<1>7. ASSUME NEW i \in 1..Len(t)
      PROVE  Plain(t[i]) = Plain(u[i])
  <2>1. CASE i = Len(p) + 1
    BY <1>1, <1>2, <1>5, <2>1
  <2>2. CASE i # Len(p) + 1
    <3>1. i \in 1..Len(p)
      BY <1>1, <2>2
    <3>2. t[i] = p[i]
      BY <1>1, <3>1 DEF Same
    <3>3. u[i] = q[i]
      BY <1>2, <1>5, <3>1 DEF Same
    <3> QED
      BY <1>6, <3>1, <3>2, <3>3
  <2> QED
    BY <2>1, <2>2
<1>8. Outline(t) = [i \in 1..Len(t) |-> Plain(t[i])] /\ Outline(u) = [i \in 1..Len(u) |-> Plain(u[i])]
  BY <1>1, <1>2, OutlineIs
<1>9. Len(t) = Len(u)
  BY <1>1, <1>2, <1>5
<1> QED
  BY <1>7, <1>8, <1>9 DEF Alike

\* The layer of an icon is one whatever the icon.
LEMMA IconLayersAlike ==
  ASSUME NEW got, NEW other, NEW e, NEW value, NEW alpha
  PROVE  Plain(IconLayer(got, e, value, alpha)) = Plain(IconLayer(other, e, value, alpha))
<1>1. ASSUME NEW g
      PROVE  Plain(IconLayer(g, e, value, alpha)) = <<"icon">>
  <2>1. PICK l : l = IconLayer(g, e, value, alpha)
    OBVIOUS
  <2>2. l[1] \in {"icon", "placeholder"}
    BY <2>1 DEF IconLayer
  <2> QED
    BY <2>1, <2>2 DEF Plain
<1> QED
  BY <1>1

LEMMA DrawImageIs ==
  ASSUME NEW r, Kept(r), r.ok = TRUE, NEW e \in Element, e.is = "image", NEW value, NEW alpha,
         NEW t, t = DrawImage(r, e, value, alpha)
  PROVE  Drawn(t, r, CanDraw(e, value), OverImage(disk, r.dir, r.frame.picture, e, value, alpha))
<1>1. PICK name : name = Bound(e.what, value)
  OBVIOUS
<1>2. PICK w \in Nat : w = e.w
  BY DEF Element
<1>3. PICK icon : icon = ResolveIcon(r, name, w)
  OBVIOUS
<1>4. /\ Kept(icon.to) /\ icon.to.dir = r.dir /\ icon.to.frame = r.frame /\ icon.to.ok = r.ok
      /\ Fresh(disk, r) => Fresh(disk, icon.to) /\ icon.got = GotOn(disk, r.dir, name, w)
  BY <1>3, ResolveIconIs
<1>5. CASE e.fails # "no"
  <2>1. t = Failed(r) /\ CanDraw(e, value) = "no"
    BY <1>5 DEF DrawImage, CanDraw
  <2> QED
    BY <2>1, FailedDrawn
<1>6. CASE e.fails = "no"
  <2>1. PICK l : l = IconLayer(icon.got, e, value, alpha)
    OBVIOUS
  <2>2. PICK u : u = icon.to
    OBVIOUS
  <2>3. t = Draws(u, l)
    BY <1>1, <1>2, <1>3, <1>6, <2>1, <2>2 DEF DrawImage, IconLayer
  <2>4. /\ Kept(t) /\ t.dir = u.dir /\ t.icons = u.icons /\ t.ok = u.ok
        /\ t.frame.size = u.frame.size /\ t.frame.picture = Append(u.frame.picture, l)
    BY <1>4, <2>2, <2>3, DrawsKept
  <2>5. PICK m : m = IconLayer(GotOn(disk, r.dir, name, w), e, value, alpha)
    OBVIOUS
  <2>6. PICK p : Appended(r.frame.picture, m, p)
    BY DEF Appended
  <2>7. p = OverImage(disk, r.dir, r.frame.picture, e, value, alpha)
    BY <1>1, <1>2, <2>5, <2>6 DEF OverImage, Appended
  <2>8. Alike(t.frame.picture, p)
    <3>1. Listed(r.frame.picture)
      BY FrameIs DEF Kept, IsFrame
    <3>2. Alike(r.frame.picture, r.frame.picture)
      BY DEF Alike
    <3>3. Plain(l) = Plain(m)
      BY <2>1, <2>5, IconLayersAlike
    <3>4. Appended(r.frame.picture, l, t.frame.picture)
      BY <1>4, <2>2, <2>4 DEF Appended
    <3> QED
      BY <2>6, <3>1, <3>2, <3>3, <3>4, AlikeAppend
  <2>9. Fresh(disk, r) => Fresh(disk, t) /\ l = m
    BY <1>4, <2>1, <2>2, <2>4, <2>5 DEF Fresh
  <2>10. Fresh(disk, r) => t.frame.picture = p
    BY <1>4, <2>2, <2>4, <2>6, <2>9 DEF Appended
  <2>11. CanDraw(e, value) = "yes"
    BY <1>6 DEF CanDraw
  <2>12. t.dir = r.dir /\ t.frame.size = r.frame.size /\ t.ok = TRUE
    BY <1>4, <2>2, <2>4
  <2> QED
    BY <2>4, <2>7, <2>8, <2>9, <2>10, <2>11, <2>12 DEF Drawn, Alike
<1> QED
  BY <1>5, <1>6

\* Each kind of element is drawn as OverElement says, if it can be.
LEMMA DrawElementIs ==
  ASSUME NEW r, Kept(r), r.ok = TRUE, NEW e \in Element, NEW value, NEW alpha,
         NEW t, t = DrawElement(r, e, value, alpha)
  PROVE  Drawn(t, r, CanDraw(e, value), OverElement(disk, r.dir, r.frame.picture, e, value, alpha))
<1>1. e.is \in {"rect", "bar", "text", "image"}
  BY DEF Element
<1>2. CASE e.is = "rect"
  <2>1. t = DrawRect(r, e, value, alpha)
    BY <1>2 DEF DrawElement
  <2>2. Drawn(t, r, CanDraw(e, value), Over(r.frame.picture, Resolve(e, value, alpha)))
    BY <1>2, <2>1, DrawRectIs
  <2> QED
    BY <1>2, <2>2 DEF OverElement
<1>3. CASE e.is = "bar"
  <2>1. t = DrawBar(r, e, value, alpha)
    BY <1>3 DEF DrawElement
  <2>2. Drawn(t, r, CanDraw(e, value), OverBar(r.frame.picture, e, value, alpha))
    BY <1>3, <2>1, DrawBarIs
  <2> QED
    BY <1>3, <2>2 DEF OverElement
<1>4. CASE e.is = "text"
  <2>1. t = DrawText(r, e, value, alpha)
    BY <1>4 DEF DrawElement
  <2>2. Drawn(t, r, CanDraw(e, value), OverText(r.frame.picture, e, value, alpha))
    BY <1>4, <2>1, DrawTextIs
  <2> QED
    BY <1>4, <2>2 DEF OverElement
<1>5. CASE e.is = "image"
  <2>1. t = DrawImage(r, e, value, alpha)
    BY <1>5 DEF DrawElement
  <2>2. Drawn(t, r, CanDraw(e, value), OverImage(disk, r.dir, r.frame.picture, e, value, alpha))
    BY <1>5, <2>1, DrawImageIs
  <2> QED
    BY <1>5, <2>2 DEF OverElement
<1> QED
  BY <1>1, <1>2, <1>3, <1>4, <1>5

\* What is drawn over pictures that are alike leaves them alike.
LEMMA OnTop ==
  ASSUME NEW p, Listed(p), NEW q, Listed(q), Alike(p, q), NEW l
  PROVE  Listed(Append(p, l)) /\ Listed(Append(q, l)) /\ Alike(Append(p, l), Append(q, l))
<1>1. PICK t : Appended(p, l, t)
  BY DEF Appended
<1>2. PICK u : Appended(q, l, u)
  BY DEF Appended
<1>3. Listed(t)
  BY <1>1, ListedAppend
<1>4. Listed(u)
  BY <1>2, ListedAppend
<1>5. Plain(l) = Plain(l)
  OBVIOUS
<1>6. Alike(t, u)
  BY <1>1, <1>2, <1>5, AlikeAppend
<1> QED
  BY <1>1, <1>2, <1>3, <1>4, <1>6 DEF Appended

LEMMA OverAlike ==
  ASSUME NEW d, NEW dir, NEW e \in Element, NEW value, NEW alpha,
         NEW p, Listed(p), NEW q, Listed(q), Alike(p, q)
  PROVE  Alike(OverElement(d, dir, p, e, value, alpha), OverElement(d, dir, q, e, value, alpha))
<1>0. PICK a, b : a = OverElement(d, dir, p, e, value, alpha) /\ b = OverElement(d, dir, q, e, value, alpha)
  OBVIOUS
<1> SUFFICES Alike(a, b)
  BY <1>0
<1>1. e.is \in {"rect", "bar", "text", "image"}
  BY DEF Element
<1>2. CASE e.is = "rect"
  <2>1. PICK rect : rect = Resolve(e, value, alpha)
    OBVIOUS
  <2>2. PICK top : top = <<"rect", rect.w, rect.radius, rect.fill, rect.alpha>>
    OBVIOUS
  <2>3. PICK shade : shade = <<"shadow", rect.w, rect.radius, rect.blur>>
    OBVIOUS
  <2>4. /\ a = Append(IF rect.blur = 0 THEN p ELSE Append(p, shade), top)
        /\ b = Append(IF rect.blur = 0 THEN q ELSE Append(q, shade), top)
    BY <1>0, <1>2, <2>1, <2>2, <2>3 DEF OverElement, Over
  <2>5. CASE rect.blur = 0
    <3>1. Alike(Append(p, top), Append(q, top))
      BY OnTop
    <3> QED
      BY <2>4, <2>5, <3>1
  <2>6. CASE rect.blur # 0
    <3>1. PICK s, t : s = Append(p, shade) /\ t = Append(q, shade)
      OBVIOUS
    <3>2. Listed(s) /\ Listed(t) /\ Alike(s, t)
      BY <3>1, OnTop
    <3>3. Alike(Append(s, top), Append(t, top))
      BY <3>2, OnTop
    <3> QED
      BY <2>4, <2>6, <3>1, <3>3
  <2> QED
    BY <2>5, <2>6
<1>3. CASE e.is = "bar"
  <2>1. PICK filled : filled = <<"bar", e.w, value, alpha>>
    OBVIOUS
  <2>2. PICK cells : cells = <<"cells", e.w, value>>
    OBVIOUS
  <2>3. PICK gain : gain = <<"gain", e.w, value, alpha>>
    OBVIOUS
  <2>4. /\ a = IF e.what = "cells" THEN Append(p, cells)
               ELSE IF e.what = "gains" THEN Append(Append(p, filled), gain)
               ELSE Append(p, filled)
        /\ b = IF e.what = "cells" THEN Append(q, cells)
               ELSE IF e.what = "gains" THEN Append(Append(q, filled), gain)
               ELSE Append(q, filled)
    BY <1>0, <1>3, <2>1, <2>2, <2>3 DEF OverElement, OverBar
  <2>5. PICK s, t : s = Append(p, filled) /\ t = Append(q, filled)
    OBVIOUS
  <2>6. Listed(s) /\ Listed(t) /\ Alike(s, t)
    BY <2>5, OnTop
  <2>7. Alike(Append(s, gain), Append(t, gain))
    BY <2>6, OnTop
  <2>8. Alike(Append(p, cells), Append(q, cells))
    BY OnTop
  <2> QED
    BY <2>4, <2>5, <2>6, <2>7, <2>8
<1>4. CASE e.is = "text"
  <2>1. PICK label : label = Bound(e.what, value)
    OBVIOUS
  <2>2. PICK l : l = <<"text", <<label, e.w>>, value, alpha>>
    OBVIOUS
  <2>3. a = (IF label = "" THEN p ELSE Append(p, l)) /\ b = (IF label = "" THEN q ELSE Append(q, l))
    BY <1>0, <1>4, <2>1, <2>2 DEF OverElement, OverText
  <2>4. Alike(Append(p, l), Append(q, l))
    BY OnTop
  <2> QED
    BY <2>3, <2>4
<1>5. CASE e.is = "image"
  <2>1. PICK l : l = IconLayer(GotOn(d, dir, Bound(e.what, value), e.w), e, value, alpha)
    OBVIOUS
  <2>2. a = Append(p, l) /\ b = Append(q, l)
    BY <1>0, <1>5, <2>1 DEF OverElement, OverImage
  <2>3. Alike(Append(p, l), Append(q, l))
    BY OnTop
  <2> QED
    BY <2>2, <2>3
<1> QED
  BY <1>1, <1>2, <1>3, <1>4, <1>5

-----------------------------------------------------------------------------
(* The frame.                                                              *)

\* The first element is drawn over nothing; the background of another frame
\* is used for it or forgotten.
LEMMA DrawNthIs ==
  ASSUME NEW r, Kept(r), r.ok = TRUE, NEW e \in Element, NEW n \in Nat \ {0},
         n = 1 => r.frame.picture = <<>>, NEW value, NEW time,
         NEW t, t = DrawNth(r, e, n, value, time)
  PROVE  Drawn(t, r, CanDraw(e, value),
               OverElement(disk, r.dir, r.frame.picture, e, value, Alpha(e, time)))
<1>1. e.animated \in BOOLEAN /\ n \in Nat /\ n # 0
  BY DEF Element
<1>2. CASE n > 1
  <2>1. t = DrawElement(r, e, value, Alpha(e, time))
    BY <1>1, <1>2 DEF DrawNth
  <2> QED
    BY <2>1, DrawElementIs
<1>3. CASE n = 1 /\ e.is = "rect" /\ ~e.animated
  <2>1. t = DrawBackground(r, e, value) /\ r.frame.picture = <<>>
    BY <1>1, <1>3 DEF DrawNth
  <2>2. Drawn(t, r, CanDraw(e, value), Over(r.frame.picture, Resolve(e, value, 1)))
    BY <1>3, <2>1, DrawBackgroundIs
  <2>3. Alpha(e, time) = 1
    BY <1>3 DEF Alpha
  <2> QED
    BY <1>3, <2>2, <2>3 DEF OverElement
<1>4. CASE n = 1 /\ ~(e.is = "rect" /\ ~e.animated)
  <2>1. PICK none : none = NoBackground
    OBVIOUS
  <2>2. PICK u : u = [r EXCEPT !.background = none]
    OBVIOUS
  <2>3. t = DrawElement(u, e, value, Alpha(e, time))
    BY <1>1, <1>4, <2>1, <2>2 DEF DrawNth
  <2>4. IsRenderer(r)
    BY DEF Kept
  <2>5. /\ IsRenderer(u) /\ u.dir = r.dir /\ u.icons = r.icons /\ u.masks = r.masks /\ u.layouts = r.layouts
        /\ u.transient = r.transient /\ u.background = none /\ u.glyphs = r.glyphs
        /\ u.frame = r.frame /\ u.ok = r.ok
    BY <2>2, <2>4, BackgroundIs
  <2>6. Kept(u)
    BY <2>1, <2>5 DEF Kept, BackgroundMade
  <2>7. u.ok = TRUE
    BY <2>5
  <2>8. Drawn(t, u, CanDraw(e, value),
              OverElement(disk, u.dir, u.frame.picture, e, value, Alpha(e, time)))
    BY <2>3, <2>6, <2>7, DrawElementIs
  <2> QED
    BY <2>5, <2>8 DEF Drawn, Fresh
<1> QED
  BY <1>1, <1>2, <1>3, <1>4

\* Every place of the drawing order is an element's: ranks are distinct.
Below(scene, j, i) == scene[j].z < scene[i].z \/ (scene[j].z = scene[i].z /\ j < i)
Under(scene, i) == {j \in DOMAIN scene : Below(scene, j, i)}

LEMMA OrderIs ==
  ASSUME NEW scene \in Seq(Element), NEW n \in 1..Len(scene)
  PROVE  Order(scene)[n] \in 1..Len(scene)
<1>1. PICK N \in Nat : N = Len(scene)
  OBVIOUS
<1>2. DOMAIN scene = 1..N /\ n \in 1..N
  BY <1>1
<1>3. \A i \in 1..N : scene[i].z \in Int
  <2> SUFFICES ASSUME NEW i \in 1..N PROVE scene[i].z \in Int
    OBVIOUS
  <2>1. scene[i] \in Element
    BY <1>1
  <2> QED
    BY <2>1 DEF Element
<1>4. IsFiniteSet(1..N) /\ Cardinality(1..N) = N
  BY FS_Interval
<1>5. ASSUME NEW i \in 1..N
      PROVE  /\ IsFiniteSet(Under(scene, i)) /\ Cardinality(Under(scene, i)) \in 0..(N - 1)
             /\ Under(scene, i) \subseteq 1..N /\ i \notin Under(scene, i)
  <2>1. Under(scene, i) \subseteq 1..N /\ i \notin Under(scene, i)
    BY <1>2, <1>3 DEF Under, Below
  <2>2. /\ IsFiniteSet(Under(scene, i)) /\ Cardinality(Under(scene, i)) <= N
        /\ Cardinality(1..N) = Cardinality(Under(scene, i)) => 1..N = Under(scene, i)
    BY <1>4, <2>1, FS_Subset
  <2>3. Cardinality(Under(scene, i)) \in Nat
    BY <2>2, FS_CardinalityType
  <2> QED
    BY <1>4, <2>1, <2>2, <2>3
<1>6. ASSUME NEW i \in 1..N, NEW j \in 1..N, Below(scene, i, j)
      PROVE  Cardinality(Under(scene, i)) < Cardinality(Under(scene, j))
  <2>1. Under(scene, i) \cup {i} \subseteq Under(scene, j)
    <3>1. i \in Under(scene, j)
      BY <1>2, <1>6 DEF Under
    <3>2. ASSUME NEW k \in Under(scene, i) PROVE k \in Under(scene, j)
      <4>1. k \in 1..N /\ Below(scene, k, i)
        BY <1>2 DEF Under
      <4>2. Below(scene, k, j)
        BY <1>3, <1>6, <4>1 DEF Below
      <4> QED
        BY <1>2, <4>1, <4>2 DEF Under
    <3> QED
      BY <3>1, <3>2
  <2>2. PICK U : U = Under(scene, i) \cup {i}
    OBVIOUS
  <2>3. IsFiniteSet(U) /\ Cardinality(U) = Cardinality(Under(scene, i)) + 1
    BY <1>5, <2>2, FS_AddElement
  <2>4. Cardinality(U) <= Cardinality(Under(scene, j))
    BY <1>5, <2>1, <2>2, FS_Subset
  <2>5. Cardinality(Under(scene, i)) \in Nat /\ Cardinality(Under(scene, j)) \in Nat
    BY <1>5
  <2> QED
    BY <2>3, <2>4, <2>5
<1>7. PICK rank : rank = [i \in 1..N |-> Cardinality(Under(scene, i)) + 1]
  OBVIOUS
<1>8. rank \in Injection(1..N, 1..N)
  <2>1. ASSUME NEW i \in 1..N
        PROVE  rank[i] \in 1..N
    BY <1>5, <1>7
  <2>2. rank \in [1..N -> 1..N]
    BY <1>7, <2>1
  <2>3. ASSUME NEW i \in 1..N, NEW j \in 1..N, rank[i] = rank[j]
        PROVE  i = j
    <3>1. Cardinality(Under(scene, i)) = Cardinality(Under(scene, j))
      BY <1>5, <1>7, <2>3
    <3>2. Cardinality(Under(scene, i)) \in Nat /\ Cardinality(Under(scene, j)) \in Nat
      BY <1>5
    <3>3. ~Below(scene, i, j) /\ ~Below(scene, j, i)
      BY <1>6, <3>1, <3>2
    <3> QED
      BY <1>3, <3>3 DEF Below
  <2> QED
    BY <1>7, <2>2, <2>3 DEF Injection, IsInjective
<1>9. rank \in Surjection(1..N, 1..N)
  BY <1>4, <1>8, FS_Injection
<1>10. PICK i \in 1..N : rank[i] = n
  BY <1>2, <1>9 DEF Surjection
<1>11. Cardinality(Under(scene, i)) = n - 1
  <2>1. PICK c \in Nat : c = Cardinality(Under(scene, i))
    BY <1>5
  <2>2. n = c + 1
    BY <1>7, <1>10, <2>1
  <2> QED
    BY <2>1, <2>2
<1>12. Order(scene)[n] = CHOOSE k \in 1..N : Cardinality(Under(scene, k)) = n - 1
  BY <1>2 DEF Order, Under, Below
<1> QED
  BY <1>1, <1>10, <1>11, <1>12

\* The frame is cleared, then drawn element by element.
Cleared(r, f, yes, b, t) == t = [r EXCEPT !.frame = f, !.ok = yes, !.background = b]

LEMMA ClearedIs ==
  ASSUME NEW r, IsRenderer(r), NEW x, NEW yes, NEW bg, NEW t, Cleared(r, x, yes, bg, t)
  PROVE  /\ IsRenderer(t) /\ t.dir = r.dir /\ t.icons = r.icons /\ t.masks = r.masks /\ t.layouts = r.layouts
         /\ t.transient = r.transient /\ t.background = bg /\ t.glyphs = r.glyphs
         /\ t.frame = x /\ t.ok = yes
<1>1. PICK a, b, c, d, e, f, g, h, i, j :
        r = [dir |-> a, icons |-> b, masks |-> c, layouts |-> d, transient |-> e, background |-> f,
             fonts |-> g, glyphs |-> h, frame |-> i, ok |-> j]
  BY DEF IsRenderer
<1>2. PICK u : u = [dir |-> a, icons |-> b, masks |-> c, layouts |-> d, transient |-> e, background |-> bg,
                    fonts |-> g, glyphs |-> h, frame |-> x, ok |-> yes]
  OBVIOUS
<1>3. t = u
  <2>1. PICK v : v = [r EXCEPT !.frame = x]
    OBVIOUS
  <2>2. v = [dir |-> a, icons |-> b, masks |-> c, layouts |-> d, transient |-> e, background |-> f,
             fonts |-> g, glyphs |-> h, frame |-> x, ok |-> j]
    BY <1>1, <2>1
  <2>3. PICK w : w = [v EXCEPT !.ok = yes]
    OBVIOUS
  <2>4. w = [dir |-> a, icons |-> b, masks |-> c, layouts |-> d, transient |-> e, background |-> f,
             fonts |-> g, glyphs |-> h, frame |-> x, ok |-> yes]
    BY <2>2, <2>3
  <2>5. [r EXCEPT !.frame = x, !.ok = yes, !.background = bg]
          = [[[r EXCEPT !.frame = x] EXCEPT !.ok = yes] EXCEPT !.background = bg]
    OBVIOUS
  <2>6. t = [w EXCEPT !.background = bg]
    BY <2>1, <2>3, <2>5 DEF Cleared
  <2> QED
    BY <1>2, <2>4, <2>6
<1>4. /\ IsRenderer(u) /\ u.dir = r.dir /\ u.icons = r.icons /\ u.masks = r.masks /\ u.layouts = r.layouts
      /\ u.transient = r.transient /\ u.background = bg /\ u.glyphs = r.glyphs
      /\ u.frame = x /\ u.ok = yes
  BY <1>1, <1>2, RecordIs
<1> QED
  BY <1>3, <1>4

Clears(r, theme, c) ==
  \E frame, yes, bg : /\ frame = [size |-> theme.size, picture |-> <<>>] /\ yes = TRUE
                      /\ bg = (IF theme.scene = <<>> THEN NoBackground ELSE r.background)
                      /\ Cleared(r, frame, yes, bg, c)
StepsTo(c, theme, value, time, k, f) ==
  f = [n \in 0..k |-> IF n = 0 THEN c
                      ELSE DrawNth(f[n - 1], theme.scene[Order(theme.scene)[n]], n, value, time)]

LEMMA StepsExist ==
  ASSUME NEW N \in Nat, NEW c, NEW theme, NEW value, NEW time
  PROVE  \E f : StepsTo(c, theme, value, time, N, f)
<1> DEFINE Nth(r, n) == DrawNth(r, theme.scene[Order(theme.scene)[n]], n, value, time)
           S == {k \in 0..N : \E f : StepsTo(c, theme, value, time, k, f)}
<1>0. ASSUME NEW k \in Nat, NEW f
      PROVE  StepsTo(c, theme, value, time, k, f)
               <=> f = [n \in 0..k |-> IF n = 0 THEN c ELSE Nth(f[n - 1], n)]
  BY DEF StepsTo
<1> HIDE DEF Nth
<1>1. 0 \in S
  <2> DEFINE f == [n \in 0..0 |-> c]
  <2>1. \A n \in 0..0 : f[n] = IF n = 0 THEN c ELSE Nth(f[n - 1], n)
    OBVIOUS
  <2>2. f = [n \in 0..0 |-> IF n = 0 THEN c ELSE Nth(f[n - 1], n)]
    BY <2>1
  <2>3. StepsTo(c, theme, value, time, 0, f)
    BY <1>0, <2>2
  <2> QED
    BY <2>3
<1>2. ASSUME NEW k \in 0..(N - 1), k \in S
      PROVE  k + 1 \in S
  <2>1. k \in Nat /\ k + 1 \in Nat /\ k + 1 \in 0..N
    OBVIOUS
  <2>2. PICK f : StepsTo(c, theme, value, time, k, f)
    BY <1>2
  <2>3. f = [n \in 0..k |-> IF n = 0 THEN c ELSE Nth(f[n - 1], n)]
    BY <1>0, <2>1, <2>2
  <2> DEFINE g == [n \in 0..(k + 1) |-> IF n <= k THEN f[n] ELSE Nth(f[k], n)]
  <2>4. \A n \in 0..(k + 1) : g[n] = IF n = 0 THEN c ELSE Nth(g[n - 1], n)
    <3> SUFFICES ASSUME NEW n \in 0..(k + 1)
                 PROVE  g[n] = IF n = 0 THEN c ELSE Nth(g[n - 1], n)
      OBVIOUS
    <3>1. \A m \in 0..k : g[m] = f[m]
      BY <2>1
    <3>2. CASE n = 0
      BY <2>1, <2>3, <3>1, <3>2
    <3>3. CASE n \in 1..k
      <4>1. n \in 0..k /\ n - 1 \in 0..k /\ n # 0
        BY <2>1, <3>3
      <4>2. f[n] = Nth(f[n - 1], n)
        BY <2>3, <4>1
      <4> QED
        BY <3>1, <4>1, <4>2
    <3>4. CASE n = k + 1
      <4>1. n # 0 /\ n - 1 = k /\ ~(n <= k) /\ k \in 0..k
        BY <2>1, <3>4
      <4>2. g[n] = Nth(f[k], n)
        BY <3>4, <4>1
      <4> QED
        BY <3>1, <4>1, <4>2
    <3> QED
      BY <2>1, <3>2, <3>3, <3>4
  <2>5. g = [n \in 0..(k + 1) |-> IF n = 0 THEN c ELSE Nth(g[n - 1], n)]
    BY <2>4
  <2>6. StepsTo(c, theme, value, time, k + 1, g)
    BY <1>0, <2>1, <2>5
  <2> QED
    BY <2>1, <2>6
<1> HIDE DEF S
<1>3. N \in S
  <2>1. \A n \in 0..N : n \in S
    BY <1>1, <1>2, UpTo
  <2> QED
    BY <2>1
<1> QED
  BY <1>3 DEF S

LEMMA DrawFrameIs ==
  ASSUME NEW r, NEW theme, NEW N \in Nat, N = Len(theme.scene), NEW value, NEW time,
         NEW t, t = DrawFrame(r, theme, value, time)
  PROVE  \E c, f : Clears(r, theme, c) /\ StepsTo(c, theme, value, time, N, f) /\ t = f[N]
<1>1. PICK frame : frame = [size |-> theme.size, picture |-> <<>>]
  OBVIOUS
<1>2. PICK bg : bg = (IF theme.scene = <<>> THEN NoBackground ELSE r.background)
  OBVIOUS
<1>3. PICK yes : yes = TRUE
  OBVIOUS
<1>4. PICK c : c = [r EXCEPT !.frame = [size |-> theme.size, picture |-> <<>>], !.ok = TRUE,
                             !.background = IF theme.scene = <<>> THEN NoBackground ELSE @]
  OBVIOUS
<1>5. Clears(r, theme, c)
  <2>1. Cleared(r, frame, yes, bg, c)
    BY <1>1, <1>2, <1>3, <1>4 DEF Cleared
  <2> QED
    BY <1>1, <1>2, <1>3, <2>1 DEF Clears
<1> DEFINE f == CHOOSE g : g = [n \in 0..N |->
                  IF n = 0 THEN c ELSE DrawNth(g[n - 1], theme.scene[Order(theme.scene)[n]], n, value, time)]
<1>7. StepsTo(c, theme, value, time, N, f)
  <2>1. \E g : StepsTo(c, theme, value, time, N, g)
    BY StepsExist
  <2>2. \E g : g = [n \in 0..N |-> IF n = 0 THEN c
                   ELSE DrawNth(g[n - 1], theme.scene[Order(theme.scene)[n]], n, value, time)]
    BY <2>1 DEF StepsTo
  <2>3. f = [n \in 0..N |-> IF n = 0 THEN c
               ELSE DrawNth(f[n - 1], theme.scene[Order(theme.scene)[n]], n, value, time)]
    BY <2>2, Zenon
  <2> QED
    BY <2>3 DEF StepsTo
<1>8. t = f[N]
  BY <1>4 DEF DrawFrame
<1> QED
  BY <1>5, <1>7, <1>8

\* Two renderers of which the second has what the files hold: they fail
\* alike, or their pictures are alike, and the same if both are fresh.
Follows(m, w, fresh) ==
  /\ Kept(m) /\ Kept(w) /\ m.dir = w.dir /\ m.ok = w.ok /\ Fresh(disk, w)
  /\ m.ok = TRUE => m.frame.size = w.frame.size /\ Alike(m.frame.picture, w.frame.picture)
  /\ fresh = "yes" => Fresh(disk, m)
  /\ fresh = "yes" /\ m.ok = TRUE => m.frame.picture = w.frame.picture

LEMMA NthFollows ==
  ASSUME NEW m, NEW w, NEW fresh, Follows(m, w, fresh), NEW e \in Element, NEW n \in Nat \ {0},
         n = 1 => m.frame.picture = <<>> /\ w.frame.picture = <<>>, NEW value, NEW time,
         NEW t, t = DrawNth(m, e, n, value, time), NEW u, u = DrawNth(w, e, n, value, time)
  PROVE  Follows(t, u, fresh) /\ t.dir = m.dir
<1>1. m.ok \in BOOLEAN /\ w.ok = m.ok
  BY DEF Follows, Kept
<1>2. CASE m.ok = FALSE
  <2>1. t = m /\ u = w
    BY <1>1, <1>2 DEF DrawNth
  <2> QED
    BY <2>1
<1>3. CASE m.ok = TRUE
  <2>1. PICK can : can = CanDraw(e, value)
    OBVIOUS
  <2>2. can \in {"yes", "no"}
    BY <2>1 DEF CanDraw
  <2>3. PICK alpha : alpha = Alpha(e, time)
    OBVIOUS
  <2>4. PICK p : p = OverElement(disk, m.dir, m.frame.picture, e, value, alpha)
    OBVIOUS
  <2>5. PICK q : q = OverElement(disk, w.dir, w.frame.picture, e, value, alpha)
    OBVIOUS
  <2>6. Drawn(t, m, can, p)
    <3>1. Kept(m)
      BY DEF Follows
    <3> QED
      BY <1>3, <2>1, <2>3, <2>4, <3>1, DrawNthIs
  <2>7. Drawn(u, w, can, q)
    <3>1. Kept(w) /\ w.ok = TRUE
      BY <1>1, <1>3 DEF Follows
    <3> QED
      BY <2>1, <2>3, <2>5, <3>1, DrawNthIs
  <2>8. Alike(p, q)
    <3>1. Listed(m.frame.picture) /\ Listed(w.frame.picture)
      BY FrameIs DEF Follows, Kept, IsFrame
    <3>2. Alike(m.frame.picture, w.frame.picture) /\ m.dir = w.dir
      BY <1>3 DEF Follows
    <3> QED
      BY <2>4, <2>5, <3>1, <3>2, OverAlike
  <2>9. /\ Kept(t) /\ Kept(u) /\ t.dir = m.dir /\ u.dir = w.dir /\ m.dir = w.dir /\ Fresh(disk, u)
        /\ t.frame.size = u.frame.size
        /\ fresh = "yes" => Fresh(disk, t)
    BY <1>3, <2>6, <2>7 DEF Drawn, Follows
  <2>10. CASE can = "no"
    <3>1. t.ok = FALSE /\ u.ok = FALSE
      BY <2>6, <2>7, <2>10 DEF Drawn
    <3> QED
      BY <2>9, <3>1 DEF Follows
  <2>11. CASE can = "yes"
    <3>1. t.ok = TRUE /\ u.ok = TRUE /\ Alike(t.frame.picture, p) /\ Alike(u.frame.picture, q)
      BY <2>6, <2>7, <2>11 DEF Drawn, Alike
    <3>2. Alike(t.frame.picture, u.frame.picture)
      BY <2>8, <3>1 DEF Alike
    <3>3. ASSUME fresh = "yes"
          PROVE  t.frame.picture = u.frame.picture
      <4>1. Fresh(disk, m) /\ Fresh(disk, w) /\ m.frame.picture = w.frame.picture /\ m.dir = w.dir
        BY <1>3, <3>3 DEF Follows
      <4>2. t.frame.picture = p
        BY <2>6, <2>11, <4>1 DEF Drawn
      <4>3. u.frame.picture = q
        BY <2>7, <2>11, <4>1 DEF Drawn
      <4> QED
        BY <2>4, <2>5, <4>1, <4>2, <4>3
    <3> QED
      BY <2>9, <3>1, <3>2, <3>3 DEF Follows
  <2> QED
    BY <2>2, <2>9, <2>10, <2>11
<1> QED
  BY <1>1, <1>2, <1>3

\* A renderer whose frame was cleared is as it was.
LEMMA ClearedKept ==
  ASSUME NEW r, Kept(r), NEW theme, NEW c, Clears(r, theme, c)
  PROVE  /\ Kept(c) /\ c.dir = r.dir /\ c.icons = r.icons /\ c.ok = TRUE
         /\ c.frame.size = theme.size /\ c.frame.picture = <<>>
<1>0. PICK frame, yes, bg : /\ frame = [size |-> theme.size, picture |-> <<>>] /\ yes = TRUE
                            /\ bg = (IF theme.scene = <<>> THEN NoBackground ELSE r.background)
                            /\ Cleared(r, frame, yes, bg, c)
  BY DEF Clears
<1>1. IsRenderer(r) /\ BackgroundMade(r.background)
  BY DEF Kept
<1>2. /\ IsRenderer(c) /\ c.dir = r.dir /\ c.icons = r.icons /\ c.masks = r.masks /\ c.layouts = r.layouts
      /\ c.transient = r.transient /\ c.background = bg /\ c.glyphs = r.glyphs
      /\ c.frame = frame /\ c.ok = yes
  <2>1. IsRenderer(r)
    BY <1>1
  <2>2. Cleared(r, frame, yes, bg, c)
    BY <1>0
  <2> QED
    BY <2>1, <2>2, ClearedIs
<1>3. Listed(<<>>)
  BY EmptyBytes DEF Bytes
<1>4. PICK none, size : none = <<>> /\ size = theme.size
  OBVIOUS
<1>5. IsFrame(frame) /\ frame.size = size /\ frame.picture = none
  <2>1. frame = [size |-> size, picture |-> none]
    BY <1>0, <1>4
  <2>2. Listed(none)
    BY <1>3, <1>4
  <2> QED
    BY <2>1, <2>2, FrameIs
<1>6. BackgroundMade(bg)
  BY <1>0, <1>1 DEF BackgroundMade
<1> QED
  BY <1>0, <1>2, <1>4, <1>5, <1>6 DEF Kept

LEMMA FrameFollows ==
  ASSUME NEW m, Kept(m), NEW w, Kept(w), m.dir = w.dir, Fresh(disk, w),
         NEW fresh, fresh = "yes" => Fresh(disk, m), NEW theme \in Themes, NEW value, NEW time,
         NEW t, t = DrawFrame(m, theme, value, time), NEW u, u = DrawFrame(w, theme, value, time)
  PROVE  Follows(t, u, fresh) /\ t.dir = m.dir
<1>1. PICK N \in Nat : N = Len(theme.scene)
  BY RendererAssumption
<1>2. PICK c, f : Clears(m, theme, c) /\ StepsTo(c, theme, value, time, N, f) /\ t = f[N]
  BY <1>1, DrawFrameIs
<1>3. PICK d, g : Clears(w, theme, d) /\ StepsTo(d, theme, value, time, N, g) /\ u = g[N]
  BY <1>1, DrawFrameIs
<1>4. /\ Kept(c) /\ c.dir = m.dir /\ c.icons = m.icons /\ c.ok = TRUE
      /\ c.frame.size = theme.size /\ c.frame.picture = <<>>
  <2>1. Clears(m, theme, c)
    BY <1>2
  <2> QED
    BY <2>1, ClearedKept
<1>5. /\ Kept(d) /\ d.dir = w.dir /\ d.icons = w.icons /\ d.ok = TRUE
      /\ d.frame.size = theme.size /\ d.frame.picture = <<>>
  <2>1. Clears(w, theme, d)
    BY <1>3
  <2> QED
    BY <2>1, ClearedKept
<1>6. Follows(c, d, fresh)
  <2>1. Fresh(disk, d) /\ (fresh = "yes" => Fresh(disk, c))
    BY <1>4, <1>5 DEF Fresh
  <2> QED
    BY <1>4, <1>5, <2>1 DEF Follows, Alike
<1> DEFINE S == {n \in 0..N : /\ Follows(f[n], g[n], fresh) /\ f[n].dir = m.dir
                              /\ n = 0 => f[n].frame.picture = <<>> /\ g[n].frame.picture = <<>>}
<1>7. 0 \in S
  <2>1. 0 \in 0..N
    OBVIOUS
  <2>2. f[0] = c /\ g[0] = d
    BY <1>2, <1>3, <2>1 DEF StepsTo
  <2> QED
    BY <1>4, <1>5, <1>6, <2>1, <2>2
<1>8. ASSUME NEW n \in 0..(N - 1), n \in S
      PROVE  n + 1 \in S
  <2>1. n + 1 \in 1..N /\ n + 1 \in 0..N /\ n + 1 # 0 /\ (n + 1) - 1 = n /\ n + 1 \in Nat \ {0}
        /\ (n + 1 = 1 => n = 0)
    OBVIOUS
  <2>2. PICK k \in Nat \ {0} : k = n + 1
    BY <2>1
  <2>3. PICK e : e = theme.scene[Order(theme.scene)[k]]
    OBVIOUS
  <2>4. e \in Element
    <3>1. theme.scene \in Seq(Element)
      BY RendererAssumption
    <3>2. k \in 1..Len(theme.scene)
      BY <1>1, <2>1, <2>2
    <3>3. Order(theme.scene)[k] \in 1..Len(theme.scene)
      BY <3>1, <3>2, OrderIs
    <3> QED
      BY <2>3, <3>1, <3>3
  <2>5. f[k] = DrawNth(f[n], e, k, value, time) /\ g[k] = DrawNth(g[n], e, k, value, time)
    BY <1>2, <1>3, <2>1, <2>2, <2>3 DEF StepsTo
  <2>6. PICK x, y : x = f[n] /\ y = g[n]
    OBVIOUS
  <2>7. Follows(x, y, fresh) /\ x.dir = m.dir
    BY <1>8, <2>6
  <2>8. k = 1 => x.frame.picture = <<>> /\ y.frame.picture = <<>>
    BY <1>8, <2>1, <2>2, <2>6
  <2>9. Follows(f[k], g[k], fresh) /\ f[k].dir = x.dir
    BY <2>4, <2>5, <2>6, <2>7, <2>8, NthFollows
  <2> QED
    BY <2>1, <2>2, <2>7, <2>9
<1> HIDE DEF S
<1>9. N \in S
  <2>1. \A n \in 0..N : n \in S
    BY <1>7, <1>8, UpTo
  <2> QED
    BY <2>1
<1> QED
  BY <1>2, <1>3, <1>9 DEF S

LEMMA RenderFollows ==
  ASSUME NEW m, Kept(m), NEW w, Kept(w), m.dir = w.dir, Fresh(disk, w),
         NEW fresh, fresh = "yes" => Fresh(disk, m), NEW theme \in Themes, NEW value, NEW time,
         NEW t, t = RenderCached(m, theme, value, time), NEW u, u = RenderCached(w, theme, value, time)
  PROVE  Follows(t, u, fresh) /\ t.dir = m.dir
<1>1. CASE Pixels(theme.size, theme.size)
  <2>1. t = DrawFrame(m, theme, value, time) /\ u = DrawFrame(w, theme, value, time)
    BY <1>1 DEF RenderCached
  <2> QED
    BY <2>1, FrameFollows
<1>2. CASE ~Pixels(theme.size, theme.size)
  <2>1. t = Failed(m) /\ u = Failed(w)
    BY <1>2 DEF RenderCached
  <2>2. PICK p : p = <<>>
    OBVIOUS
  <2>3. Drawn(t, m, "no", p) /\ Drawn(u, w, "no", p)
    BY <2>1, FailedDrawn
  <2> QED
    BY <2>3 DEF Drawn, Follows
<1> QED
  BY <1>1, <1>2

-----------------------------------------------------------------------------
(* What the thread does to a renderer between two drawings.                *)

LEMMA EmptyQueuesSound ==
  /\ SoundQueue(EmptyQueue, IconBytes, IconEntries) /\ SoundQueue(EmptyQueue, MaskBytes, MaskEntries)
  /\ SoundQueue(EmptyQueue, LayoutBytes, LayoutEntries)
  /\ MasksMade(EmptyQueue) /\ \A d, dir : IconsFresh(d, dir, EmptyQueue)
<1>1. /\ IconBytes \in Nat /\ IconEntries \in Nat /\ MaskBytes \in Nat /\ MaskEntries \in Nat
      /\ LayoutBytes \in Nat /\ LayoutEntries \in Nat
  BY Limits
<1>2. Len(EmptyQueue.entries) = 0
  BY <1>1, EmptyQueueSound
<1>3. 1..0 = {}
  OBVIOUS
<1>4. MasksMade(EmptyQueue) /\ \A d, dir : IconsFresh(d, dir, EmptyQueue)
  BY <1>2, <1>3 DEF MasksMade, IconsFresh
<1> QED
  BY <1>1, <1>4, EmptyQueueSound

LEMMA NoGlyphs ==
  GlyphsKept({})
<1>1. IsFiniteSet({}) /\ Cardinality({}) = 0 /\ GlyphEntries \in Nat
  BY FS_EmptySet, Limits
<1> QED
  BY <1>1 DEF GlyphsKept

LEMMA NewKept ==
  ASSUME NEW d, NEW dir, NEW r, r = [New EXCEPT !.dir = dir]
  PROVE  Kept(New) /\ Fresh(d, New) /\ Kept(r) /\ Fresh(d, r) /\ r.dir = dir
<1>1. PICK frame : frame = [size |-> 0, picture |-> <<>>]
  OBVIOUS
<1>2. IsFrame(frame)
  <2>1. PICK none, size : none = <<>> /\ size = 0
    OBVIOUS
  <2>2. frame = [size |-> size, picture |-> none]
    BY <1>1, <2>1
  <2>3. Listed(none)
    BY <2>1, EmptyBytes DEF Bytes
  <2> QED
    BY <2>2, <2>3, FrameIs
<1>3. PICK q : q = EmptyQueue
  OBVIOUS
<1>4. PICK bg : bg = NoBackground
  OBVIOUS
<1>5. PICK empty : empty = {}
  OBVIOUS
<1>6. PICK no, yes : no = FALSE /\ yes = TRUE
  OBVIOUS
<1>7. PICK nodir : nodir = NoDir
  OBVIOUS
<1>8. ASSUME NEW x, NEW t,
             t = [dir |-> x, icons |-> q, masks |-> q, layouts |-> q, transient |-> empty, background |-> bg,
                  fonts |-> no, glyphs |-> empty, frame |-> frame, ok |-> yes]
      PROVE  Kept(t) /\ Fresh(d, t) /\ t.dir = x
  <2>1. /\ IsRenderer(t) /\ t.dir = x /\ t.icons = q /\ t.masks = q /\ t.layouts = q
        /\ t.transient = empty /\ t.background = bg /\ t.fonts = no /\ t.glyphs = empty
        /\ t.frame = frame /\ t.ok = yes
    BY <1>8, RecordIs
  <2>2. BackgroundMade(bg) /\ GlyphsKept(empty)
    BY <1>4, <1>5, NoGlyphs DEF BackgroundMade
  <2>3. /\ SoundQueue(q, IconBytes, IconEntries) /\ SoundQueue(q, MaskBytes, MaskEntries)
        /\ SoundQueue(q, LayoutBytes, LayoutEntries)
        /\ MasksMade(q) /\ IconsFresh(d, x, q)
    BY <1>3, EmptyQueuesSound
  <2> QED
    BY <1>2, <1>5, <1>6, <2>1, <2>2, <2>3 DEF Kept, Fresh
<1>9. New = [dir |-> nodir, icons |-> q, masks |-> q, layouts |-> q, transient |-> empty, background |-> bg,
             fonts |-> no, glyphs |-> empty, frame |-> frame, ok |-> yes]
  BY <1>1, <1>3, <1>4, <1>5, <1>6, <1>7 DEF New
<1>10. r = [dir |-> dir, icons |-> q, masks |-> q, layouts |-> q, transient |-> empty, background |-> bg,
            fonts |-> no, glyphs |-> empty, frame |-> frame, ok |-> yes]
  BY <1>9
<1> QED
  BY <1>8, <1>9, <1>10

LEMMA PrepareKept ==
  ASSUME NEW r, Kept(r), NEW theme, NEW t, t = PrepareTheme(r, theme)
  PROVE  Kept(t) /\ t.dir = r.dir /\ t.icons = r.icons
<1>1. PICK x : x = (r.fonts \/ \E i \in DOMAIN theme.scene : theme.scene[i].is = "text")
  OBVIOUS
<1>2. t = [r EXCEPT !.fonts = x]
  BY <1>1 DEF PrepareTheme
<1>3. PICK a, b, c, d, e, f, g, h, i, j :
        r = [dir |-> a, icons |-> b, masks |-> c, layouts |-> d, transient |-> e, background |-> f,
             fonts |-> g, glyphs |-> h, frame |-> i, ok |-> j]
  BY DEF Kept, IsRenderer
<1>4. t = [dir |-> a, icons |-> b, masks |-> c, layouts |-> d, transient |-> e, background |-> f,
           fonts |-> x, glyphs |-> h, frame |-> i, ok |-> j]
  BY <1>2, <1>3
<1>5. IsRenderer(t) /\ Agree(t, r) /\ t.frame = r.frame /\ t.ok = r.ok
  BY <1>3, <1>4, RecordIs DEF Agree
<1> QED
  BY <1>5 DEF Kept, Agree

LEMMA SetThemeDirKept ==
  ASSUME NEW r, Kept(r), NEW dir, NEW t, t = SetThemeDir(r, dir)
  PROVE  /\ Kept(t) /\ t.dir = dir
         /\ dir = r.dir => t = r
         /\ dir # r.dir => t.icons = EmptyQueue
<1>1. CASE dir = r.dir
  BY <1>1 DEF SetThemeDir
<1>2. CASE dir # r.dir
  <2>1. PICK q : q = EmptyQueue
    OBVIOUS
  <2>2. Moved(r, dir, q, t)
    BY <1>2, <2>1 DEF SetThemeDir, Moved
  <2>3. IsRenderer(r)
    BY DEF Kept
  <2>4. /\ IsRenderer(t) /\ t.dir = dir /\ t.icons = q /\ t.masks = r.masks /\ t.layouts = r.layouts
        /\ t.transient = r.transient /\ t.background = r.background /\ t.glyphs = r.glyphs
        /\ t.frame = r.frame /\ t.ok = r.ok
    BY <2>2, <2>3, DirIs
  <2> QED
    BY <1>2, <2>1, <2>4, EmptyQueuesSound DEF Kept
<1> QED
  BY <1>1, <1>2

LEMMA InvalidateKept ==
  ASSUME NEW r, Kept(r), NEW t, t = InvalidateCaches(r)
  PROVE  Kept(t) /\ t.dir = r.dir /\ t.icons = EmptyQueue
<1>1. PICK q : q = EmptyQueue
  OBVIOUS
<1>2. PICK empty : empty = {}
  OBVIOUS
<1>3. PICK bg : bg = NoBackground
  OBVIOUS
<1>4. PICK a, b, c, d, e, f, g, h, i, j :
        r = [dir |-> a, icons |-> b, masks |-> c, layouts |-> d, transient |-> e, background |-> f,
             fonts |-> g, glyphs |-> h, frame |-> i, ok |-> j]
  BY DEF Kept, IsRenderer
<1>5. t = [dir |-> a, icons |-> q, masks |-> q, layouts |-> q, transient |-> empty, background |-> bg,
           fonts |-> g, glyphs |-> empty, frame |-> i, ok |-> j]
  BY <1>1, <1>2, <1>3, <1>4 DEF InvalidateCaches
<1>6. /\ IsRenderer(t) /\ t.dir = a /\ t.icons = q /\ t.masks = q /\ t.layouts = q
      /\ t.transient = empty /\ t.background = bg /\ t.fonts = g /\ t.glyphs = empty
      /\ t.frame = i /\ t.ok = j
  BY <1>5, RecordIs
<1>7. r.dir = a /\ r.frame = i /\ r.ok = j
  BY <1>4, RecordIs
<1>8. BackgroundMade(bg) /\ GlyphsKept(empty)
  BY <1>2, <1>3, NoGlyphs DEF BackgroundMade
<1>9. IsFrame(r.frame) /\ r.ok \in BOOLEAN
  BY DEF Kept
<1> QED
  BY <1>1, <1>2, <1>6, <1>7, <1>8, <1>9, EmptyQueuesSound DEF Kept

-----------------------------------------------------------------------------
(* The invariant, and the properties.                                      *)

\* What the renderer keeps is sound; icons are as their files are, unless one
\* has changed since they were last dropped.
IInv ==
  /\ Kept(renderer) /\ edited \in BOOLEAN
  /\ ~edited => Fresh(disk, renderer)
  /\ showing # Nothing => showing \in [theme : Themes, value : Values]

LEMMA InitIInv ==
  RendererInit => IInv
<1> SUFFICES ASSUME RendererInit PROVE IInv
  OBVIOUS
<1>1. PICK r : r = [New EXCEPT !.dir = NoDir]
  OBVIOUS
<1>2. Kept(New) /\ Fresh(disk, New)
  BY <1>1, NewKept
<1> QED
  BY <1>2 DEF RendererInit, IInv

LEMMA DrawFollows ==
  ASSUME IInv, NEW time, Draw(time),
         NEW w, w = RenderCached([New EXCEPT !.dir = renderer.dir], showing.theme, showing.value, time),
         NEW fresh, fresh = IF edited THEN "no" ELSE "yes"
  PROVE  Follows(renderer', w, fresh) /\ renderer'.dir = renderer.dir
<1>1. PICK r, dir : dir = renderer.dir /\ r = [New EXCEPT !.dir = dir]
  OBVIOUS
<1>2. Kept(r) /\ Fresh(disk, r) /\ r.dir = dir
  BY <1>1, NewKept
<1>3. PICK theme, value : theme = showing.theme /\ value = showing.value
  OBVIOUS
<1>4. theme \in Themes
  BY <1>3 DEF IInv, Draw
<1>5. PICK m, t : m = renderer /\ t = renderer'
  OBVIOUS
<1>6. t = RenderCached(m, theme, value, time) /\ w = RenderCached(r, theme, value, time)
  BY <1>1, <1>3, <1>5 DEF Draw
<1>7. Kept(m) /\ m.dir = r.dir /\ (fresh = "yes" => Fresh(disk, m))
  BY <1>1, <1>2, <1>5 DEF IInv
<1>8. Follows(t, w, fresh) /\ t.dir = m.dir
  BY <1>2, <1>4, <1>6, <1>7, RenderFollows
<1> QED
  BY <1>5, <1>8

LEMMA NextIInv ==
  IInv /\ [RendererNext]_rendererVars => IInv'
<1> SUFFICES ASSUME IInv, [RendererNext]_rendererVars PROVE IInv'
  OBVIOUS
<1>1. ASSUME NEW path \in IconFiles, NEW content \in Contents \cup {Absent}, Edit(path, content)
      PROVE  IInv'
  BY <1>1 DEF IInv, Edit, Nothing
<1>2. ASSUME NEW theme \in Themes, Retheme(theme)
      PROVE  IInv'
  <2>1. PICK u, v, t, dir : /\ dir = theme.dir /\ u = InvalidateCaches(renderer) /\ v = PrepareTheme(u, theme)
                            /\ t = SetThemeDir(v, dir)
    OBVIOUS
  <2>2. Kept(renderer)
    BY DEF IInv
  <2>3. Kept(u) /\ u.icons = EmptyQueue
    BY <2>1, <2>2, InvalidateKept
  <2>4. Kept(v) /\ v.icons = EmptyQueue
    BY <2>1, <2>3, PrepareKept
  <2>5. Kept(t) /\ t.icons = EmptyQueue
    BY <2>1, <2>4, SetThemeDirKept
  <2>6. renderer' = t /\ edited' = FALSE
    BY <1>2, <2>1 DEF Retheme
  <2>7. Kept(renderer)' /\ Fresh(disk, renderer)'
    BY <2>5, <2>6, EmptyQueuesSound DEF Fresh
  <2>8. showing' # Nothing => showing' \in [theme : Themes, value : Values]
    BY <1>2 DEF IInv, Retheme
  <2> QED
    BY <2>6, <2>7, <2>8 DEF IInv, Nothing
<1>3. ASSUME NEW theme \in Themes, NEW value \in Values, Show(theme, value)
      PROVE  IInv'
  <2>1. PICK v, t, dir : dir = theme.dir /\ v = PrepareTheme(renderer, theme) /\ t = SetThemeDir(v, dir)
    OBVIOUS
  <2>2. Kept(renderer)
    BY DEF IInv
  <2>3. Kept(v) /\ v.dir = renderer.dir /\ v.icons = renderer.icons
    BY <2>1, <2>2, PrepareKept
  <2>4. /\ Kept(t) /\ t.dir = dir
        /\ dir = v.dir => t = v
        /\ dir # v.dir => t.icons = EmptyQueue
    BY <2>1, <2>3, SetThemeDirKept
  <2>5. /\ renderer' = t /\ edited' = (edited /\ dir = renderer.dir) /\ disk' = disk
        /\ showing' = [theme |-> theme, value |-> value]
    BY <1>3, <2>1 DEF Show
  <2>6. ASSUME ~edited'
        PROVE  Fresh(disk, renderer)'
    <3>1. CASE dir = renderer.dir
      BY <2>3, <2>4, <2>5, <2>6, <3>1 DEF IInv, Fresh
    <3>2. CASE dir # renderer.dir
      BY <2>3, <2>4, <2>5, <3>2, EmptyQueuesSound DEF Fresh
    <3> QED
      BY <3>1, <3>2
  <2> QED
    BY <2>4, <2>5, <2>6 DEF IInv
<1>4. ASSUME Hide
      PROVE  IInv'
  BY <1>4 DEF IInv, Hide, Nothing
<1>5. ASSUME NEW time \in Times, Draw(time)
      PROVE  IInv'
  <2>1. PICK w : w = RenderCached([New EXCEPT !.dir = renderer.dir], showing.theme, showing.value, time)
    OBVIOUS
  <2>2. PICK fresh : fresh = IF edited THEN "no" ELSE "yes"
    OBVIOUS
  <2>3. Follows(renderer', w, fresh)
    BY <1>5, <2>1, <2>2, DrawFollows
  <2>4. Kept(renderer') /\ (~edited => Fresh(disk, renderer'))
    BY <2>2, <2>3 DEF Follows
  <2>5. UNCHANGED <<disk, edited, showing>>
    BY <1>5 DEF Draw
  <2> QED
    BY <2>4, <2>5 DEF IInv, Nothing
<1>6. CASE UNCHANGED rendererVars
  BY <1>6 DEF rendererVars, IInv, Nothing
<1> QED
  BY <1>1, <1>2, <1>3, <1>4, <1>5, <1>6 DEF RendererNext

\* The queues of icons, masks and labels keep exact accounts within their
\* limits, one entry for a key; no mask outlives its use and the glyphs stay
\* within theirs: for every set of themes and every limit.
THEOREM RendererQueuesAccounted ==
  RendererSpec => []QueuesAccounted
<1>1. IInv => QueuesAccounted
  <2> SUFFICES ASSUME IInv PROVE QueuesAccounted
    OBVIOUS
  <2>1. /\ SoundQueue(renderer.icons, IconBytes, IconEntries)
        /\ SoundQueue(renderer.masks, MaskBytes, MaskEntries)
        /\ SoundQueue(renderer.layouts, LayoutBytes, LayoutEntries)
        /\ renderer.transient = {} /\ Cardinality(renderer.glyphs) <= GlyphEntries
    BY DEF IInv, Kept, GlyphsKept
  <2>2. ASSUME NEW q, NEW maxBytes, NEW maxEntries, SoundQueue(q, maxBytes, maxEntries)
        PROVE  /\ q.bytes = BytesOf(q.entries) /\ q.bytes <= maxBytes /\ Len(q.entries) <= maxEntries
               /\ \A i, j \in DOMAIN q.entries : q.entries[i].key = q.entries[j].key => i = j
    <3>1. DOMAIN q.entries = 1..Len(q.entries)
      BY <2>2, ListedLen DEF SoundQueue, Bytes
    <3> QED
      BY <2>2, <3>1 DEF SoundQueue, OneEach
  <2> QED
    BY <2>1, <2>2 DEF QueuesAccounted
<1> QED
  BY <1>1, InitIInv, NextIInv, PTL DEF RendererSpec

\* Whatever was drawn, shown, edited and forgotten before, a frame is what a
\* new renderer would draw, or fails as it would; icons alone may be older
\* than their files, and only until the next change of theme.
THEOREM RendererFramesAgree ==
  RendererSpec => FramesAgree
<1>1. ASSUME IInv, NEW time \in Times, Draw(time),
             NEW w, w = RenderCached([New EXCEPT !.dir = renderer.dir], showing.theme, showing.value, time)
      PROVE  /\ renderer'.ok = w.ok
             /\ renderer'.ok => renderer'.frame.size = w.frame.size
             /\ renderer'.ok => Outline(renderer'.frame.picture) = Outline(w.frame.picture)
             /\ renderer'.ok /\ ~edited => renderer'.frame.picture = w.frame.picture
  <2>1. PICK fresh : fresh = IF edited THEN "no" ELSE "yes"
    OBVIOUS
  <2>2. Follows(renderer', w, fresh)
    BY <1>1, <2>1, DrawFollows
  <2>3. renderer'.ok \in BOOLEAN
    BY <2>2 DEF Follows, Kept
  <2> QED
    BY <2>1, <2>2, <2>3 DEF Follows, Alike
<1> DEFINE A == \A time \in Times :
                  Draw(time) =>
                    LET mine == renderer'
                        new  == RenderCached([New EXCEPT !.dir = renderer.dir], showing.theme, showing.value, time)
                    IN /\ mine.ok = new.ok
                       /\ mine.ok => mine.frame.size = new.frame.size
                       /\ mine.ok => Outline(mine.frame.picture) = Outline(new.frame.picture)
                       /\ mine.ok /\ ~edited => mine.frame.picture = new.frame.picture
<1>2. IInv /\ [RendererNext]_rendererVars => [A]_rendererVars
  BY <1>1
<1> QED
  BY <1>2, InitIInv, NextIInv, PTL DEF RendererSpec, FramesAgree
=============================================================================
