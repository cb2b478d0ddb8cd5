---------------------------- MODULE SListProofs -----------------------------
(***************************************************************************)
(* The singly linked lists of list.h hold what the caller has put in.      *)
(*                                                                         *)
(* SListIsOrder is not inductive: a node in two lists at once, or twice in *)
(* one, would be linked right until the next call writes through it.  So   *)
(* the invariant says too that no two places hold the same node (Apart).   *)
(* Every call puts a run of nodes behind a place (one node, or those of    *)
(* another list) or takes the one behind it out; Spliced and Removed say   *)
(* what that does to the order.                                            *)
(***************************************************************************)
EXTENDS SList, SequenceTheorems, TLAPS

Cells == SNodes \cup SHeads

(* Place k of a list: its head, and then its nodes. *)
Place(d, h, k) == IF k \in DOMAIN d[h] THEN d[h][k] ELSE h

LastPlace(d, h) == Place(d, h, Len(d[h]))

SListTyped(n, d) == n \in [Cells -> SNodes \cup {Nil}] /\ d \in [SHeads -> Seq(SNodes)]

Apart(d) ==
  \A g, h \in SHeads : \A i \in DOMAIN d[g], j \in DOMAIN d[h] : d[g][i] = d[h][j] => g = h /\ i = j

Leads(n, d, h) ==
  /\ \A i \in 0..(Len(d[h]) - 1) : n[Place(d, h, i)] = Place(d, h, i + 1)
  /\ n[Place(d, h, Len(d[h]))] = Nil

ChainLinked(n, d) == \A h \in SHeads : Leads(n, d, h)

LastKnown(l, d) == l \in [SHeads -> Cells] /\ \A h \in SHeads : l[h] = LastPlace(d, h)

Whole(n, l, d) == SListTyped(n, d) /\ Apart(d) /\ ChainLinked(n, d) /\ LastKnown(l, d)

SListInv == Whole(snext, last, sorder)

(* t is s with q behind the first k, or without the k-th.                  *)
Spliced(s, k, q, t) ==
  /\ t \in Seq(SNodes) /\ Len(t) = Len(s) + Len(q)
  /\ \A i \in 1..k : t[i] = s[i]
  /\ \A i \in 1..Len(q) : t[k + i] = q[i]
  /\ \A i \in (k + 1)..Len(s) : t[i + Len(q)] = s[i]

Removed(s, k, t) ==
  /\ t \in Seq(SNodes) /\ Len(t) = Len(s) - 1
  /\ \A i \in 1..(k - 1) : t[i] = s[i]
  /\ \A i \in k..(Len(s) - 1) : t[i] = s[i + 1]

-----------------------------------------------------------------------------
LEMMA SubSeqParts ==
  ASSUME NEW s \in Seq(SNodes), NEW m \in Nat, NEW n \in Nat, 1 <= m, m <= n + 1, n <= Len(s)
  PROVE  /\ SubSeq(s, m, n) \in Seq(SNodes) /\ Len(SubSeq(s, m, n)) = n - m + 1
         /\ \A i \in 1..(n - m + 1) : SubSeq(s, m, n)[i] = s[m + i - 1]
<1>1. \A i \in m..n : s[i] \in SNodes
  BY ElementOfSeq
<1>2. PICK b : b = SubSeq(s, m, n)
  OBVIOUS
<1>3. /\ b \in Seq(SNodes) /\ Len(b) = IF m <= n THEN n - m + 1 ELSE 0
      /\ \A i \in 1..(n - m + 1) : b[i] = s[m + i - 1]
  BY <1>1, <1>2, SubSeqProperties
<1>4. Len(b) = n - m + 1
  BY <1>3
<1>5. QED
  BY <1>2, <1>3, <1>4

LEMMA SpliceIs ==
  ASSUME NEW s \in Seq(SNodes), NEW q \in Seq(SNodes), NEW i \in 1..(Len(s) + 1)
  PROVE  Spliced(s, i - 1, q, SubSeq(s, 1, i - 1) \o q \o SubSeq(s, i, Len(s)))
<1>1. PICK n \in Nat : n = Len(s)
  OBVIOUS
<1>2. PICK k \in Nat : k = i - 1 /\ i = k + 1 /\ k <= n
  <2>1. i - 1 \in Nat /\ i = (i - 1) + 1 /\ i - 1 <= n
    BY <1>1
  <2>2. QED
    BY <2>1
<1>3. PICK a : a = SubSeq(s, 1, k)
  OBVIOUS
<1>4. PICK c : c = SubSeq(s, k + 1, n)
  OBVIOUS
<1>5. a \in Seq(SNodes) /\ Len(a) = k /\ \A j \in 1..k : a[j] = s[j]
  <2>1. /\ SubSeq(s, 1, k) \in Seq(SNodes) /\ Len(SubSeq(s, 1, k)) = k - 1 + 1
        /\ \A j \in 1..(k - 1 + 1) : SubSeq(s, 1, k)[j] = s[1 + j - 1]
    BY <1>1, <1>2, SubSeqParts
  <2>2. k - 1 + 1 = k /\ \A j \in Int : 1 + j - 1 = j
    OBVIOUS
  <2>3. QED
    BY <2>1, <2>2, <1>3
<1>6. c \in Seq(SNodes) /\ Len(c) = n - k /\ \A j \in 1..(n - k) : c[j] = s[k + j]
  <2>1. /\ SubSeq(s, k + 1, n) \in Seq(SNodes) /\ Len(SubSeq(s, k + 1, n)) = n - (k + 1) + 1
        /\ \A j \in 1..(n - (k + 1) + 1) : SubSeq(s, k + 1, n)[j] = s[k + 1 + j - 1]
    BY <1>1, <1>2, SubSeqParts
  <2>2. n - (k + 1) + 1 = n - k /\ \A j \in Int : k + 1 + j - 1 = k + j
    OBVIOUS
  <2>3. QED
    BY <2>1, <2>2, <1>4
<1>7. PICK b \in Nat : b = Len(q)
  OBVIOUS
<1>8. PICK u : u = a \o q
  OBVIOUS
<1>9. /\ u \in Seq(SNodes) /\ Len(u) = k + b
      /\ \A j \in 1..(k + b) : u[j] = IF j <= k THEN a[j] ELSE q[j - k]
  BY <1>5, <1>7, <1>8, ConcatProperties
<1>10. PICK t : t = u \o c
  OBVIOUS
<1>11. /\ t \in Seq(SNodes) /\ Len(t) = (k + b) + (n - k)
       /\ \A j \in 1..((k + b) + (n - k)) : t[j] = IF j <= k + b THEN u[j] ELSE c[j - (k + b)]
  <2>1. /\ t \in Seq(SNodes) /\ Len(t) = Len(u) + Len(c)
        /\ \A j \in 1..(Len(u) + Len(c)) : t[j] = IF j <= Len(u) THEN u[j] ELSE c[j - Len(u)]
    BY <1>6, <1>9, <1>10, ConcatProperties
  <2>2. Len(u) = k + b /\ Len(c) = n - k
    BY <1>6, <1>9
  <2>3. QED
    BY <2>1, <2>2
<1>12. Len(t) = n + b /\ \A j \in 1..(n + b) : t[j] = IF j <= k + b THEN u[j] ELSE c[j - (k + b)]
  <2>1. (k + b) + (n - k) = n + b
    OBVIOUS
  <2>2. QED
    BY <1>11, <2>1
<1>13. \A j \in 1..k : t[j] = s[j]
  <2>1. \A j \in 1..k : j \in 1..(n + b) /\ j <= k + b /\ j \in 1..(k + b) /\ j <= k
    BY <1>2
  <2>2. QED
    BY <2>1, <1>5, <1>9, <1>12
<1>14. \A j \in 1..b : t[k + j] = q[j]
  <2>1. \A j \in 1..b : k + j \in 1..(n + b) /\ k + j <= k + b /\ k + j \in 1..(k + b) /\ ~(k + j <= k)
                        /\ (k + j) - k = j
    BY <1>2
  <2>2. QED
    BY <2>1, <1>9, <1>12
<1>15. \A j \in (k + 1)..n : t[j + b] = s[j]
  <2>1. SUFFICES ASSUME NEW j \in (k + 1)..n PROVE t[j + b] = s[j]
    OBVIOUS
  <2>2. j + b \in 1..(n + b) /\ ~(j + b <= k + b) /\ (j + b) - (k + b) = j - k /\ j - k \in 1..(n - k) /\ k + (j - k) = j
    BY <1>2
  <2>3. t[j + b] = c[j - k]
    BY <2>2, <1>12
  <2>4. c[j - k] = s[k + (j - k)]
    BY <2>2, <1>6
  <2>5. QED
    BY <2>2, <2>3, <2>4
<1>16. Spliced(s, k, q, t)
  BY <1>1, <1>7, <1>11, <1>12, <1>13, <1>14, <1>15 DEF Spliced
<1>17. t = SubSeq(s, 1, i - 1) \o q \o SubSeq(s, i, Len(s))
  BY <1>1, <1>2, <1>3, <1>4, <1>8, <1>10
<1>18. QED
  BY <1>2, <1>16, <1>17

LEMMA AppendIs ==
  ASSUME NEW s \in Seq(SNodes), NEW x \in SNodes
  PROVE  Spliced(s, Len(s), <<x>>, Append(s, x))
<1>1. Len(s) \in Nat /\ Len(<<x>>) = 1
  OBVIOUS
<1>2. PICK q : q = <<x>>
  OBVIOUS
<1>3. Len(q) = 1 /\ \A i \in 1..1 : q[i] = x /\ i = 1
  BY <1>2
<1>4. PICK t : t = Append(s, x)
  OBVIOUS
<1>5. t \in Seq(SNodes) /\ Len(t) = Len(s) + 1 /\ t[Len(s) + 1] = x /\ \A i \in 1..Len(s) : t[i] = s[i]
  BY <1>1, <1>4
<1>6. \A i \in (Len(s) + 1)..Len(s) : FALSE
  BY <1>1
<1>7. Spliced(s, Len(s), q, t)
  BY <1>3, <1>5, <1>6 DEF Spliced
<1>8. QED
  BY <1>2, <1>4, <1>7

LEMMA RemoveIs ==
  ASSUME NEW s \in Seq(SNodes), NEW k \in 1..Len(s)
  PROVE  Removed(s, k, RemoveAt(s, k))
<1>1. PICK n \in Nat : n = Len(s)
  OBVIOUS
<1>2. k \in Nat /\ k \in 1..n
  BY <1>1
<1>3. PICK a : a = SubSeq(s, 1, k - 1)
  OBVIOUS
<1>4. PICK b : b = SubSeq(s, k + 1, n)
  OBVIOUS
<1>5. a \in Seq(SNodes) /\ Len(a) = k - 1 /\ \A j \in 1..(k - 1) : a[j] = s[j]
  <2>0. k - 1 \in Nat /\ 1 <= (k - 1) + 1 /\ k - 1 <= Len(s)
    BY <1>1, <1>2
  <2>1. /\ SubSeq(s, 1, k - 1) \in Seq(SNodes) /\ Len(SubSeq(s, 1, k - 1)) = (k - 1) - 1 + 1
        /\ \A j \in 1..((k - 1) - 1 + 1) : SubSeq(s, 1, k - 1)[j] = s[1 + j - 1]
    BY <2>0, SubSeqParts
  <2>2. (k - 1) - 1 + 1 = k - 1 /\ \A j \in Int : 1 + j - 1 = j
    BY <1>2
  <2>3. QED
    BY <2>1, <2>2, <1>3
<1>6. b \in Seq(SNodes) /\ Len(b) = n - k /\ \A j \in 1..(n - k) : b[j] = s[k + j]
  <2>0. k + 1 \in Nat /\ 1 <= k + 1 /\ k + 1 <= n + 1 /\ n <= Len(s)
    BY <1>1, <1>2
  <2>1. /\ SubSeq(s, k + 1, n) \in Seq(SNodes) /\ Len(SubSeq(s, k + 1, n)) = n - (k + 1) + 1
        /\ \A j \in 1..(n - (k + 1) + 1) : SubSeq(s, k + 1, n)[j] = s[k + 1 + j - 1]
    BY <2>0, SubSeqParts
  <2>2. n - (k + 1) + 1 = n - k /\ \A j \in Int : k + 1 + j - 1 = k + j
    BY <1>2
  <2>3. QED
    BY <2>1, <2>2, <1>4
<1>7. PICK t : t = a \o b
  OBVIOUS
<1>8. /\ t \in Seq(SNodes) /\ Len(t) = n - 1
      /\ \A j \in 1..(n - 1) : t[j] = IF j <= k - 1 THEN a[j] ELSE b[j - (k - 1)]
  <2>1. /\ t \in Seq(SNodes) /\ Len(t) = Len(a) + Len(b)
        /\ \A j \in 1..(Len(a) + Len(b)) : t[j] = IF j <= Len(a) THEN a[j] ELSE b[j - Len(a)]
    BY <1>5, <1>6, <1>7, ConcatProperties
  <2>2. Len(a) = k - 1 /\ Len(a) + Len(b) = n - 1
    BY <1>2, <1>5, <1>6
  <2>3. QED
    BY <2>1, <2>2
<1>9. \A i \in 1..(k - 1) : t[i] = s[i]
  BY <1>2, <1>5, <1>8
<1>10. \A i \in k..(n - 1) : t[i] = s[i + 1]
  <2>1. SUFFICES ASSUME NEW i \in k..(n - 1) PROVE t[i] = s[i + 1]
    OBVIOUS
  <2>2. /\ i \in 1..(n - 1) /\ ~(i <= k - 1)
        /\ i - (k - 1) \in 1..(n - k) /\ k + (i - (k - 1)) = i + 1
    BY <1>2
  <2>3. QED
    BY <1>6, <1>8, <2>2
<1>11. Removed(s, k, t)
  BY <1>1, <1>8, <1>9, <1>10 DEF Removed
<1>12. RemoveAt(s, k) = t
  BY <1>1, <1>3, <1>4, <1>7 DEF RemoveAt
<1>13. QED
  BY <1>11, <1>12

Once(s) == \A i, j \in DOMAIN s : s[i] = s[j] => i = j

Disjoint(s, q) == \A i \in DOMAIN s, j \in DOMAIN q : s[i] # q[j]

LEMMA SplicedOnce ==
  ASSUME NEW s \in Seq(SNodes), NEW q \in Seq(SNodes), NEW k \in 0..Len(s), NEW t,
         Spliced(s, k, q, t), Once(s), Once(q), Disjoint(s, q)
  PROVE  /\ Once(t)
         /\ \A i \in DOMAIN t : (\E j \in DOMAIN s : t[i] = s[j]) \/ (\E j \in DOMAIN q : t[i] = q[j])
<1>1. PICK n \in Nat : n = Len(s) /\ DOMAIN s = 1..n
  OBVIOUS
<1>2. PICK b \in Nat : b = Len(q) /\ DOMAIN q = 1..b
  OBVIOUS
<1>3. t \in Seq(SNodes) /\ Len(t) = n + b /\ DOMAIN t = 1..(n + b) /\ k \in 0..n
  BY <1>1, <1>2 DEF Spliced
<1>4. /\ \A i \in 1..k : t[i] = s[i]
      /\ \A i \in 1..b : t[k + i] = q[i]
      /\ \A i \in (k + 1)..n : t[i + b] = s[i]
  BY <1>1, <1>2 DEF Spliced
<1>5. ASSUME NEW i \in DOMAIN t
      PROVE  \/ i <= k /\ i \in 1..n /\ t[i] = s[i]
             \/ i - k \in 1..b /\ t[i] = q[i - k]
             \/ i - b > k /\ i - b \in 1..n /\ t[i] = s[i - b]
  <2>1. CASE i <= k
    <3>1. i \in 1..k /\ i \in 1..n
      BY <1>3, <2>1
    <3>2. QED
      BY <2>1, <3>1, <1>4
  <2>2. CASE i > k /\ i <= k + b
    <3>1. i - k \in 1..b /\ k + (i - k) = i
      BY <1>3, <2>2
    <3>2. QED
      BY <3>1, <1>4
  <2>3. CASE i > k + b
    <3>1. i - b \in (k + 1)..n /\ (i - b) + b = i /\ i - b \in 1..n /\ i - b > k
      BY <1>3, <2>3
    <3>2. QED
      BY <3>1, <1>4
  <2>4. QED
    BY <1>3, <2>1, <2>2, <2>3
<1>6. ASSUME NEW i \in DOMAIN t
      PROVE  (\E j \in DOMAIN s : t[i] = s[j]) \/ (\E j \in DOMAIN q : t[i] = q[j])
  BY <1>1, <1>2, <1>5
<1>7. ASSUME NEW i \in DOMAIN t, NEW j \in DOMAIN t, t[i] = t[j] PROVE i = j
  <2>0. i \in Int /\ j \in Int /\ k \in Int
    BY <1>3
  <2>s. \A x, y \in 1..n : s[x] = s[y] => x = y
    BY <1>1 DEF Once
  <2>q. \A x, y \in 1..b : q[x] = q[y] => x = y
    BY <1>2 DEF Once
  <2>d. \A x \in 1..n, y \in 1..b : s[x] # q[y]
    BY <1>1, <1>2 DEF Disjoint
  <2>1. CASE i <= k /\ i \in 1..n /\ t[i] = s[i]
    <3>1. CASE j <= k /\ j \in 1..n /\ t[j] = s[j]
      BY <1>7, <2>s, <2>1, <3>1
    <3>2. CASE j - k \in 1..b /\ t[j] = q[j - k]
      BY <1>7, <2>d, <2>1, <3>2
    <3>3. CASE j - b > k /\ j - b \in 1..n /\ t[j] = s[j - b]
      <4>1. i = j - b
        BY <1>7, <2>s, <2>1, <3>3
      <4>2. QED
        BY <2>0, <2>1, <3>3, <4>1
    <3>4. QED
      BY <1>5, <3>1, <3>2, <3>3
  <2>2. CASE i - k \in 1..b /\ t[i] = q[i - k]
    <3>1. CASE j <= k /\ j \in 1..n /\ t[j] = s[j]
      BY <1>7, <2>d, <2>2, <3>1
    <3>2. CASE j - k \in 1..b /\ t[j] = q[j - k]
      <4>1. i - k = j - k
        BY <1>7, <2>q, <2>2, <3>2
      <4>2. QED
        BY <2>0, <4>1
    <3>3. CASE j - b > k /\ j - b \in 1..n /\ t[j] = s[j - b]
      BY <1>7, <2>d, <2>2, <3>3
    <3>4. QED
      BY <1>5, <3>1, <3>2, <3>3
  <2>3. CASE i - b > k /\ i - b \in 1..n /\ t[i] = s[i - b]
    <3>1. CASE j <= k /\ j \in 1..n /\ t[j] = s[j]
      <4>1. j = i - b
        BY <1>7, <2>s, <2>3, <3>1
      <4>2. QED
        BY <2>0, <2>3, <3>1, <4>1
    <3>2. CASE j - k \in 1..b /\ t[j] = q[j - k]
      BY <1>7, <2>d, <2>3, <3>2
    <3>3. CASE j - b > k /\ j - b \in 1..n /\ t[j] = s[j - b]
      <4>1. i - b = j - b
        BY <1>7, <2>s, <2>3, <3>3
      <4>2. QED
        BY <2>0, <4>1
    <3>4. QED
      BY <1>5, <3>1, <3>2, <3>3
  <2>4. QED
    BY <1>5, <2>1, <2>2, <2>3
<1>8. QED
  BY <1>6, <1>7 DEF Once

LEMMA RemovedOnce ==
  ASSUME NEW s \in Seq(SNodes), NEW k \in 1..Len(s), NEW t, Removed(s, k, t), Once(s)
  PROVE  Once(t) /\ \A i \in DOMAIN t : \E j \in DOMAIN s : t[i] = s[j]
<1>1. PICK n \in Nat : n = Len(s) /\ DOMAIN s = 1..n
  OBVIOUS
<1>2. t \in Seq(SNodes) /\ Len(t) = n - 1 /\ DOMAIN t = 1..(n - 1) /\ k \in 1..n
  BY <1>1 DEF Removed
<1>3. (\A i \in 1..(k - 1) : t[i] = s[i]) /\ (\A i \in k..(n - 1) : t[i] = s[i + 1])
  BY <1>1 DEF Removed
<1>4. ASSUME NEW i \in DOMAIN t
      PROVE  \/ i < k /\ i \in 1..n /\ t[i] = s[i]
             \/ i >= k /\ i + 1 \in 1..n /\ t[i] = s[i + 1]
  <2>1. CASE i < k
    <3>1. i \in 1..(k - 1) /\ i \in 1..n
      BY <1>2, <2>1
    <3>2. QED
      BY <2>1, <3>1, <1>3
  <2>2. CASE i >= k
    <3>1. i \in k..(n - 1) /\ i + 1 \in 1..n
      BY <1>2, <2>2
    <3>2. QED
      BY <2>2, <3>1, <1>3
  <2>3. QED
    BY <1>2, <2>1, <2>2
<1>5. ASSUME NEW i \in DOMAIN t PROVE \E j \in DOMAIN s : t[i] = s[j]
  BY <1>1, <1>4
<1>6. ASSUME NEW i \in DOMAIN t, NEW j \in DOMAIN t, t[i] = t[j] PROVE i = j
  <2>0. i \in Int /\ j \in Int /\ k \in Int
    BY <1>2
  <2>s. \A x, y \in 1..n : s[x] = s[y] => x = y
    BY <1>1 DEF Once
  <2>1. CASE i < k /\ i \in 1..n /\ t[i] = s[i]
    <3>1. CASE j < k /\ j \in 1..n /\ t[j] = s[j]
      BY <1>6, <2>s, <2>1, <3>1
    <3>2. CASE j >= k /\ j + 1 \in 1..n /\ t[j] = s[j + 1]
      <4>1. i = j + 1
        BY <1>6, <2>s, <2>1, <3>2
      <4>2. QED
        BY <2>0, <2>1, <3>2, <4>1
    <3>3. QED
      BY <1>4, <3>1, <3>2
  <2>2. CASE i >= k /\ i + 1 \in 1..n /\ t[i] = s[i + 1]
    <3>1. CASE j < k /\ j \in 1..n /\ t[j] = s[j]
      <4>1. j = i + 1
        BY <1>6, <2>s, <2>2, <3>1
      <4>2. QED
        BY <2>0, <2>2, <3>1, <4>1
    <3>2. CASE j >= k /\ j + 1 \in 1..n /\ t[j] = s[j + 1]
      <4>1. i + 1 = j + 1
        BY <1>6, <2>s, <2>2, <3>2
      <4>2. QED
        BY <2>0, <4>1
    <3>3. QED
      BY <1>4, <3>1, <3>2
  <2>3. QED
    BY <1>4, <2>1, <2>2
<1>7. QED
  BY <1>5, <1>6 DEF Once

-----------------------------------------------------------------------------
(* The places of the lists are all different.                              *)
LEMMA PlacesApart ==
  ASSUME NEW d, d \in [SHeads -> Seq(SNodes)], Apart(d), NEW g \in SHeads, NEW h \in SHeads,
         NEW i \in 0..Len(d[g]), NEW j \in 0..Len(d[h]), Place(d, g, i) = Place(d, h, j)
  PROVE  g = h /\ i = j
<1> USE SListAssumption
<1>1. (i = 0 \/ i \in DOMAIN d[g]) /\ (j = 0 \/ j \in DOMAIN d[h])
  <2>1. d[g] \in Seq(SNodes) /\ d[h] \in Seq(SNodes)
    OBVIOUS
  <2>2. QED
    BY <2>1
<1>2. 0 \notin DOMAIN d[g] /\ 0 \notin DOMAIN d[h]
  <2>1. d[g] \in Seq(SNodes) /\ d[h] \in Seq(SNodes)
    OBVIOUS
  <2>2. QED
    BY <2>1
<1>3. (\A x \in DOMAIN d[g] : d[g][x] \in SNodes) /\ (\A x \in DOMAIN d[h] : d[h][x] \in SNodes)
  OBVIOUS
<1>4. QED
  BY <1>1, <1>2, <1>3 DEF Place, Apart

LEMMA PlaceTyped ==
  ASSUME NEW d, d \in [SHeads -> Seq(SNodes)], NEW h \in SHeads
  PROVE  /\ d[h] \in Seq(SNodes) /\ Len(d[h]) \in Nat /\ DOMAIN d[h] = 1..Len(d[h])
         /\ Place(d, h, 0) = h
         /\ \A i : Place(d, h, i) \in Cells
         /\ \A i \in 1..Len(d[h]) : Place(d, h, i) = d[h][i] /\ d[h][i] \in SNodes
<1>1. d[h] \in Seq(SNodes) /\ Len(d[h]) \in Nat /\ DOMAIN d[h] = 1..Len(d[h])
  OBVIOUS
<1>2. \A i \in DOMAIN d[h] : d[h][i] \in SNodes
  OBVIOUS
<1>3. 0 \notin DOMAIN d[h]
  BY <1>1
<1>4. QED
  BY <1>1, <1>2, <1>3 DEF Place, Cells

PlacesSpliced(d, e, h, k, q) ==
  /\ \A i \in 0..k : Place(e, h, i) = Place(d, h, i)
  /\ \A i \in 1..Len(q) : Place(e, h, k + i) = q[i]
  /\ \A i \in (k + 1)..Len(d[h]) : Place(e, h, i + Len(q)) = Place(d, h, i)

LEMMA SplicedPlaces ==
  ASSUME NEW d, NEW h \in SHeads, NEW k, NEW q, NEW e,
         d \in [SHeads -> Seq(SNodes)], q \in Seq(SNodes), k \in 0..Len(d[h]), Spliced(d[h], k, q, e[h])
  PROVE  PlacesSpliced(d, e, h, k, q)
<1>1. PICK n \in Nat : n = Len(d[h]) /\ DOMAIN d[h] = 1..n
  BY PlaceTyped
<1>2. PICK b \in Nat : b = Len(q)
  OBVIOUS
<1>3. e[h] \in Seq(SNodes) /\ Len(e[h]) = n + b /\ DOMAIN e[h] = 1..(n + b) /\ k \in 0..n
  BY <1>1, <1>2 DEF Spliced
<1>4. /\ \A i \in 1..k : e[h][i] = d[h][i]
      /\ \A i \in 1..b : e[h][k + i] = q[i]
      /\ \A i \in (k + 1)..n : e[h][i + b] = d[h][i]
  BY <1>1, <1>2 DEF Spliced
<1>5. \A i \in 0..k : Place(e, h, i) = Place(d, h, i)
  <2>1. \A i \in 0..k : \/ i \in 1..k /\ i \in DOMAIN d[h] /\ i \in DOMAIN e[h]
                        \/ i \notin DOMAIN d[h] /\ i \notin DOMAIN e[h]
    BY <1>1, <1>3
  <2>2. QED
    BY <2>1, <1>4 DEF Place
<1>6. \A i \in 1..b : Place(e, h, k + i) = q[i]
  <2>1. \A i \in 1..b : k + i \in DOMAIN e[h]
    BY <1>3
  <2>2. QED
    BY <2>1, <1>4 DEF Place
<1>7. \A i \in (k + 1)..n : Place(e, h, i + b) = Place(d, h, i)
  <2>1. \A i \in (k + 1)..n : i + b \in DOMAIN e[h] /\ i \in DOMAIN d[h]
    BY <1>1, <1>3
  <2>2. QED
    BY <2>1, <1>4 DEF Place
<1>8. QED
  BY <1>1, <1>2, <1>5, <1>6, <1>7 DEF PlacesSpliced

PlacesRemoved(d, e, h, k) ==
  /\ \A i \in 0..(k - 1) : Place(e, h, i) = Place(d, h, i)
  /\ \A i \in k..(Len(d[h]) - 1) : Place(e, h, i) = Place(d, h, i + 1)

LEMMA RemovedPlaces ==
  ASSUME NEW d, NEW h \in SHeads, NEW k, NEW e,
         d \in [SHeads -> Seq(SNodes)], k \in 1..Len(d[h]), Removed(d[h], k, e[h])
  PROVE  PlacesRemoved(d, e, h, k)
<1>1. PICK n \in Nat : n = Len(d[h]) /\ DOMAIN d[h] = 1..n
  BY PlaceTyped
<1>2. DOMAIN e[h] = 1..(n - 1) /\ k \in 1..n
  BY <1>1 DEF Removed
<1>3. (\A i \in 1..(k - 1) : e[h][i] = d[h][i]) /\ (\A i \in k..(n - 1) : e[h][i] = d[h][i + 1])
  BY <1>1 DEF Removed
<1>4. \A i \in 0..(k - 1) : Place(e, h, i) = Place(d, h, i)
  <2>1. \A i \in 0..(k - 1) : \/ i \in 1..(k - 1) /\ i \in DOMAIN d[h] /\ i \in DOMAIN e[h]
                              \/ i \notin DOMAIN d[h] /\ i \notin DOMAIN e[h]
    BY <1>1, <1>2
  <2>2. QED
    BY <2>1, <1>3 DEF Place
<1>5. \A i \in k..(n - 1) : Place(e, h, i) = Place(d, h, i + 1)
  <2>1. \A i \in k..(n - 1) : i \in DOMAIN e[h] /\ i + 1 \in DOMAIN d[h]
    BY <1>1, <1>2
  <2>2. QED
    BY <2>1, <1>3 DEF Place
<1>6. QED
  BY <1>1, <1>4, <1>5 DEF PlacesRemoved

-----------------------------------------------------------------------------
(* What the pointers of a list have to be after a run of nodes is put      *)
(* behind place k, or the node at place k is taken out.                    *)
SpliceLinks(n, m, d, h, k, q) ==
  /\ m[Place(d, h, k)] = q[1]
  /\ \A i \in 1..(Len(q) - 1) : m[q[i]] = q[i + 1]
  /\ m[q[Len(q)]] = n[Place(d, h, k)]
  /\ \A j \in 0..Len(d[h]) : j # k => m[Place(d, h, j)] = n[Place(d, h, j)]

RemoveLinks(n, m, d, h, k) ==
  /\ m[Place(d, h, k - 1)] = n[Place(d, h, k)]
  /\ \A j \in 0..Len(d[h]) : j # k - 1 => m[Place(d, h, j)] = n[Place(d, h, j)]

LEMMA SpliceLeads ==
  ASSUME NEW n, NEW m, NEW d, NEW h \in SHeads, NEW k, NEW q, NEW e,
         d \in [SHeads -> Seq(SNodes)], q \in Seq(SNodes), Len(q) # 0, k \in 0..Len(d[h]),
         Spliced(d[h], k, q, e[h]), Leads(n, d, h), SpliceLinks(n, m, d, h, k, q)
  PROVE  Leads(m, e, h)
<1>1. PICK c \in Nat : c = Len(d[h])
  BY PlaceTyped
<1>2. PICK b \in Nat : b = Len(q) /\ b # 0
  OBVIOUS
<1>3. k \in 0..c /\ Len(e[h]) = c + b
  BY <1>1, <1>2 DEF Spliced
<1>4. /\ \A i \in 0..k : Place(e, h, i) = Place(d, h, i)
      /\ \A i \in 1..b : Place(e, h, k + i) = q[i]
      /\ \A i \in (k + 1)..c : Place(e, h, i + b) = Place(d, h, i)
  <2>1. PlacesSpliced(d, e, h, k, q)
    BY SplicedPlaces
  <2>2. QED
    BY <2>1, <1>1, <1>2 DEF PlacesSpliced
<1>5. /\ m[Place(d, h, k)] = q[1] /\ \A i \in 1..(b - 1) : m[q[i]] = q[i + 1]
      /\ m[q[b]] = n[Place(d, h, k)]
      /\ \A j \in 0..c : j # k => m[Place(d, h, j)] = n[Place(d, h, j)]
  BY <1>1, <1>2 DEF SpliceLinks
<1>6. (\A i \in 0..(c - 1) : n[Place(d, h, i)] = Place(d, h, i + 1)) /\ n[Place(d, h, c)] = Nil
  BY <1>1 DEF Leads
<1>7. ASSUME NEW i \in 0..(c + b - 1) PROVE m[Place(e, h, i)] = Place(e, h, i + 1)
  <2>1. CASE i < k
    <3>1. i \in 0..k /\ i + 1 \in 0..k /\ i \in 0..c /\ i # k /\ i \in 0..(c - 1)
      BY <1>3, <2>1
    <3>2. QED
      BY <3>1, <1>4, <1>5, <1>6
  <2>2. CASE i = k
    <3>1. i \in 0..k /\ 1 \in 1..b
      BY <1>2, <2>2
    <3>2. QED
      BY <3>1, <2>2, <1>4, <1>5
  <2>3. CASE i > k /\ i < k + b
    <3>1. PICK j \in 1..(b - 1) : i = k + j
      <4>1. i - k \in 1..(b - 1) /\ i = k + (i - k)
        BY <1>3, <2>3
      <4>2. QED
        BY <4>1
    <3>2. j \in 1..b /\ j + 1 \in 1..b /\ i + 1 = k + (j + 1)
      BY <3>1, <1>3
    <3>3. Place(e, h, i) = q[j] /\ Place(e, h, i + 1) = q[j + 1]
      BY <3>1, <3>2, <1>4
    <3>4. QED
      BY <3>1, <3>3, <1>5
  <2>4. CASE i = k + b
    <3>1. b \in 1..b /\ k + 1 \in (k + 1)..c /\ i + 1 = (k + 1) + b /\ k \in 0..(c - 1)
      BY <1>2, <1>3, <2>4
    <3>2. Place(e, h, i) = q[b] /\ Place(e, h, i + 1) = Place(d, h, k + 1)
      BY <3>1, <2>4, <1>4
    <3>3. QED
      BY <3>1, <3>2, <1>5, <1>6
  <2>5. CASE i > k + b
    <3>1. PICK j \in (k + 1)..(c - 1) : i = j + b
      <4>1. i - b \in (k + 1)..(c - 1) /\ i = (i - b) + b
        BY <1>3, <2>5
      <4>2. QED
        BY <4>1
    <3>2. j \in (k + 1)..c /\ j + 1 \in (k + 1)..c /\ i + 1 = (j + 1) + b /\ j \in 0..c /\ j # k /\ j \in 0..(c - 1)
      BY <3>1, <1>3
    <3>3. Place(e, h, i) = Place(d, h, j) /\ Place(e, h, i + 1) = Place(d, h, j + 1)
      BY <3>1, <3>2, <1>4
    <3>4. QED
      BY <3>2, <3>3, <1>5, <1>6
  <2>6. QED
    BY <1>3, <2>1, <2>2, <2>3, <2>4, <2>5
<1>8. m[Place(e, h, c + b)] = Nil
  <2>1. CASE k = c
    <3>1. b \in 1..b
      BY <1>2
    <3>2. Place(e, h, c + b) = q[b]
      BY <3>1, <2>1, <1>4
    <3>3. QED
      BY <3>2, <2>1, <1>5, <1>6
  <2>2. CASE k # c
    <3>1. c \in (k + 1)..c /\ c \in 0..c
      BY <1>3, <2>2
    <3>2. QED
      BY <3>1, <2>2, <1>4, <1>5, <1>6
  <2>3. QED
    BY <2>1, <2>2
<1>9. QED
  BY <1>3, <1>7, <1>8 DEF Leads

LEMMA RemoveLeads ==
  ASSUME NEW n, NEW m, NEW d, NEW h \in SHeads, NEW k, NEW e,
         d \in [SHeads -> Seq(SNodes)], k \in 1..Len(d[h]),
         Removed(d[h], k, e[h]), Leads(n, d, h), RemoveLinks(n, m, d, h, k)
  PROVE  Leads(m, e, h)
<1>1. PICK c \in Nat : c = Len(d[h])
  BY PlaceTyped
<1>2. k \in 1..c /\ Len(e[h]) = c - 1
  BY <1>1 DEF Removed
<1>3. /\ \A i \in 0..(k - 1) : Place(e, h, i) = Place(d, h, i)
      /\ \A i \in k..(c - 1) : Place(e, h, i) = Place(d, h, i + 1)
  <2>1. PlacesRemoved(d, e, h, k)
    BY RemovedPlaces
  <2>2. QED
    BY <2>1, <1>1 DEF PlacesRemoved
<1>4. /\ m[Place(d, h, k - 1)] = n[Place(d, h, k)]
      /\ \A j \in 0..c : j # k - 1 => m[Place(d, h, j)] = n[Place(d, h, j)]
  BY <1>1 DEF RemoveLinks
<1>5. (\A i \in 0..(c - 1) : n[Place(d, h, i)] = Place(d, h, i + 1)) /\ n[Place(d, h, c)] = Nil
  BY <1>1 DEF Leads
<1>6. ASSUME NEW i \in 0..(c - 1 - 1) PROVE m[Place(e, h, i)] = Place(e, h, i + 1)
  <2>1. CASE i < k - 1
    <3>1. i \in 0..(k - 1) /\ i + 1 \in 0..(k - 1) /\ i \in 0..c /\ i # k - 1 /\ i \in 0..(c - 1)
      BY <1>2, <2>1
    <3>2. QED
      BY <3>1, <1>3, <1>4, <1>5
  <2>2. CASE i = k - 1
    <3>1. i \in 0..(k - 1) /\ k \in k..(c - 1) /\ k \in 0..(c - 1) /\ i + 1 = k
      BY <1>2, <2>2
    <3>2. QED
      BY <3>1, <2>2, <1>3, <1>4, <1>5
  <2>3. CASE i > k - 1
    <3>1. i \in k..(c - 1) /\ i + 1 \in k..(c - 1) /\ i + 1 \in 0..c /\ i + 1 # k - 1 /\ i + 1 \in 0..(c - 1)
      BY <1>2, <2>3
    <3>2. Place(e, h, i) = Place(d, h, i + 1) /\ Place(e, h, i + 1) = Place(d, h, (i + 1) + 1)
      BY <3>1, <1>3
    <3>3. QED
      BY <3>1, <3>2, <1>4, <1>5
  <2>4. QED
    BY <1>2, <2>1, <2>2, <2>3
<1>7. m[Place(e, h, c - 1)] = Nil
  <2>1. CASE k = c
    <3>1. c - 1 \in 0..(k - 1) /\ c - 1 = k - 1
      BY <1>2, <2>1
    <3>2. QED
      BY <3>1, <2>1, <1>3, <1>4, <1>5
  <2>2. CASE k # c
    <3>1. c - 1 \in k..(c - 1) /\ c \in 0..c /\ c # k - 1 /\ (c - 1) + 1 = c
      BY <1>2, <2>2
    <3>2. Place(e, h, c - 1) = Place(d, h, c)
      BY <3>1, <1>3
    <3>3. QED
      BY <3>1, <3>2, <1>4, <1>5
  <2>3. QED
    BY <2>1, <2>2
<1>8. QED
  BY <1>2, <1>6, <1>7 DEF Leads

-----------------------------------------------------------------------------
(* The lists a call does not write to. *)
LEMMA LeadsKept ==
  ASSUME NEW n, NEW m, NEW d, NEW e, NEW g \in SHeads, e[g] = d[g], Leads(n, d, g),
         d \in [SHeads -> Seq(SNodes)],
         \A i \in 0..Len(d[g]) : m[Place(d, g, i)] = n[Place(d, g, i)]
  PROVE  Leads(m, e, g)
<1>1. PICK c \in Nat : c = Len(d[g])
  BY PlaceTyped
<1>2. \A i : Place(e, g, i) = Place(d, g, i)
  BY DEF Place
<1>3. \A i \in 0..(c - 1) : m[Place(e, g, i)] = Place(e, g, i + 1)
  <2>1. \A i \in 0..(c - 1) : i \in 0..c
    OBVIOUS
  <2>2. QED
    BY <2>1, <1>1, <1>2 DEF Leads
<1>4. m[Place(e, g, c)] = Nil
  BY <1>1, <1>2 DEF Leads
<1>5. QED
  BY <1>1, <1>3, <1>4 DEF Leads

LEMMA ApartKept ==
  ASSUME NEW d, NEW e, NEW h \in SHeads, Apart(d), Once(e[h]),
         \A g \in SHeads \ {h} : \A i \in DOMAIN e[g] : i \in DOMAIN d[g] /\ e[g][i] = d[g][i],
         \A i \in DOMAIN e[h] : \A g \in SHeads \ {h} : \A j \in DOMAIN e[g] : e[h][i] # e[g][j]
  PROVE  Apart(e)
<1>1. SUFFICES ASSUME NEW f \in SHeads, NEW g \in SHeads, NEW i \in DOMAIN e[f], NEW j \in DOMAIN e[g],
                      e[f][i] = e[g][j]
               PROVE  f = g /\ i = j
  BY DEF Apart
<1>2. CASE f = h /\ g = h
  BY <1>1, <1>2 DEF Once
<1>3. CASE f # h /\ g # h
  BY <1>1, <1>3 DEF Apart
<1>4. CASE f = h /\ g # h
  BY <1>1, <1>4
<1>5. CASE f # h /\ g = h
  BY <1>1, <1>5
<1>6. QED
  BY <1>2, <1>3, <1>4, <1>5

(* The next pointer at a place is Nil at the last place only.              *)
LEMMA NilIsLast ==
  ASSUME NEW n, NEW d, NEW h \in SHeads, NEW k, d \in [SHeads -> Seq(SNodes)], Leads(n, d, h),
         k \in 0..Len(d[h])
  PROVE  n[Place(d, h, k)] = Nil <=> k = Len(d[h])
<1>1. PICK c \in Nat : c = Len(d[h])
  BY PlaceTyped
<1>2. CASE k = c
  BY <1>1, <1>2 DEF Leads
<1>3. CASE k # c
  <2>1. k \in 0..(c - 1) /\ k + 1 \in 1..c
    BY <1>1, <1>3
  <2>2. n[Place(d, h, k)] = Place(d, h, k + 1)
    BY <2>1, <1>1 DEF Leads
  <2>3. Place(d, h, k + 1) \in SNodes
    BY <2>1, <1>1, PlaceTyped
  <2>4. n[Place(d, h, k)] # Nil
    BY <2>2, <2>3, SListAssumption
  <2>5. QED
    BY <2>4, <1>1, <1>3
<1>4. QED
  BY <1>2, <1>3

LastSpliced(d, e, h, k, q) ==
  LastPlace(e, h) = IF k = Len(d[h]) THEN q[Len(q)] ELSE LastPlace(d, h)

LEMMA SplicedLast ==
  ASSUME NEW d, NEW h \in SHeads, NEW k, NEW q, NEW e,
         d \in [SHeads -> Seq(SNodes)], q \in Seq(SNodes), Len(q) # 0, k \in 0..Len(d[h]), Spliced(d[h], k, q, e[h])
  PROVE  LastSpliced(d, e, h, k, q)
<1>1. PICK c \in Nat : c = Len(d[h])
  BY PlaceTyped
<1>2. PICK b \in Nat : b = Len(q) /\ b # 0
  OBVIOUS
<1>3. k \in 0..c /\ Len(e[h]) = c + b
  BY <1>1, <1>2 DEF Spliced
<1>4. PlacesSpliced(d, e, h, k, q)
  BY SplicedPlaces
<1>5. CASE k = c
  <2>1. b \in 1..b /\ k + b = c + b
    BY <1>2, <1>5
  <2>2. Place(e, h, k + b) = q[b]
    BY <2>1, <1>2, <1>4 DEF PlacesSpliced
  <2>3. QED
    BY <2>1, <2>2, <1>1, <1>2, <1>3, <1>5 DEF LastPlace, LastSpliced
<1>6. CASE k # c
  <2>1. c \in (k + 1)..c
    BY <1>3, <1>6
  <2>2. Place(e, h, c + b) = Place(d, h, c)
    BY <2>1, <1>1, <1>2, <1>4 DEF PlacesSpliced
  <2>3. QED
    BY <2>2, <1>1, <1>3, <1>6 DEF LastPlace, LastSpliced
<1>7. QED
  BY <1>1, <1>5, <1>6

LastRemoved(d, e, h, k) ==
  LastPlace(e, h) = IF k = Len(d[h]) THEN Place(d, h, k - 1) ELSE LastPlace(d, h)

LEMMA RemovedLast ==
  ASSUME NEW d, NEW h \in SHeads, NEW k, NEW e,
         d \in [SHeads -> Seq(SNodes)], k \in 1..Len(d[h]), Removed(d[h], k, e[h])
  PROVE  LastRemoved(d, e, h, k)
<1>1. PICK c \in Nat : c = Len(d[h])
  BY PlaceTyped
<1>2. k \in 1..c /\ Len(e[h]) = c - 1
  BY <1>1 DEF Removed
<1>3. PlacesRemoved(d, e, h, k)
  BY RemovedPlaces
<1>4. CASE k = c
  <2>1. c - 1 \in 0..(k - 1) /\ c - 1 = k - 1
    BY <1>2, <1>4
  <2>2. Place(e, h, c - 1) = Place(d, h, k - 1)
    BY <2>1, <1>3 DEF PlacesRemoved
  <2>3. QED
    BY <2>2, <1>1, <1>2, <1>4 DEF LastPlace, LastRemoved
<1>5. CASE k # c
  <2>1. c - 1 \in k..(c - 1) /\ (c - 1) + 1 = c
    BY <1>2, <1>5
  <2>2. Place(e, h, c - 1) = Place(d, h, c)
    BY <2>1, <1>1, <1>3 DEF PlacesRemoved
  <2>3. QED
    BY <2>2, <1>1, <1>2, <1>5 DEF LastPlace, LastRemoved
<1>6. QED
  BY <1>1, <1>4, <1>5

-----------------------------------------------------------------------------
(* A node that is in no list put behind place k.                           *)
LEMMA InsertKeepsWhole ==
  ASSUME NEW n, NEW l, NEW d, NEW x \in SNodes, NEW h \in SHeads, NEW k, NEW t,
         Whole(n, l, d), \A g \in SHeads : \A i \in DOMAIN d[g] : d[g][i] # x,
         k \in 0..Len(d[h]), Spliced(d[h], k, <<x>>, t)
  PROVE  Whole([[n EXCEPT ![x] = n[Place(d, h, k)]] EXCEPT ![Place(d, h, k)] = x],
               IF n[Place(d, h, k)] = Nil THEN [l EXCEPT ![h] = x] ELSE l,
               [d EXCEPT ![h] = t])
<1> USE SListAssumption
<1>1. /\ d \in [SHeads -> Seq(SNodes)] /\ n \in [Cells -> SNodes \cup {Nil}] /\ l \in [SHeads -> Cells]
      /\ Apart(d) /\ ChainLinked(n, d) /\ LastKnown(l, d) /\ d[h] \in Seq(SNodes) /\ Leads(n, d, h)
  BY DEF Whole, SListTyped, LastKnown, ChainLinked
<1>2. PICK at : at = Place(d, h, k)
  OBVIOUS
<1>3. PICK q : q = <<x>>
  OBVIOUS
<1>4. q \in Seq(SNodes) /\ Len(q) = 1 /\ q[1] = x /\ DOMAIN q = {1}
  BY <1>3
<1>5. PICK e : e = [d EXCEPT ![h] = t]
  OBVIOUS
<1>6. PICK m : m = [[n EXCEPT ![x] = n[at]] EXCEPT ![at] = x]
  OBVIOUS
<1>7. PICK u : u = IF n[at] = Nil THEN [l EXCEPT ![h] = x] ELSE l
  OBVIOUS
<1>8. Spliced(d[h], k, q, t)
  BY <1>3
<1>9. t \in Seq(SNodes) /\ e[h] = t /\ e \in [SHeads -> Seq(SNodes)] /\ \A g \in SHeads \ {h} : e[g] = d[g]
  BY <1>1, <1>5, <1>8 DEF Spliced
<1>10. \A g \in SHeads : \A i : Place(d, g, i) # x /\ Place(d, g, i) \in Cells
  <2>1. SUFFICES ASSUME NEW g \in SHeads, NEW i PROVE Place(d, g, i) # x /\ Place(d, g, i) \in Cells
    OBVIOUS
  <2>2. Place(d, g, i) \in Cells
    BY <1>1, PlaceTyped
  <2>3. Place(d, g, i) # x
    BY DEF Place
  <2>4. QED
    BY <2>2, <2>3
<1>11. at \in Cells /\ at # x /\ x \in Cells
  BY <1>2, <1>10 DEF Cells
<1>12. m[at] = x /\ m[x] = n[at] /\ \A y \in Cells : y # at /\ y # x => m[y] = n[y]
  BY <1>1, <1>6, <1>11
<1>13. SListTyped(m, e)
  <2>1. n[at] \in SNodes \cup {Nil}
    BY <1>1, <1>11
  <2>2. m \in [Cells -> SNodes \cup {Nil}]
    BY <1>1, <1>6, <2>1
  <2>3. QED
    BY <2>2, <1>9 DEF SListTyped
<1>14. Apart(e)
  <2>1. Once(d[h]) /\ Once(q) /\ Disjoint(d[h], q)
    BY <1>1, <1>4 DEF Once, Apart, Disjoint
  <2>2. /\ Once(t)
        /\ \A i \in DOMAIN t : (\E j \in DOMAIN d[h] : t[i] = d[h][j]) \/ (\E j \in DOMAIN q : t[i] = q[j])
    BY <2>1, <1>1, <1>4, <1>8, SplicedOnce
  <2>3. ASSUME NEW i \in DOMAIN e[h], NEW g \in SHeads \ {h}, NEW j \in DOMAIN e[g] PROVE e[h][i] # e[g][j]
    <3>1. e[g] = d[g] /\ e[h] = t
      BY <1>9
    <3>2. CASE \E a \in DOMAIN d[h] : t[i] = d[h][a]
      BY <2>3, <3>1, <3>2, <1>1 DEF Apart
    <3>3. CASE \E a \in DOMAIN q : t[i] = q[a]
      BY <2>3, <3>1, <3>3, <1>4
    <3>4. QED
      BY <2>2, <2>3, <3>1, <3>2, <3>3
  <2>4. \A g \in SHeads \ {h} : \A i \in DOMAIN e[g] : i \in DOMAIN d[g] /\ e[g][i] = d[g][i]
    BY <1>9
  <2>5. Once(e[h])
    BY <2>2, <1>9
  <2>6. QED
    BY <2>3, <2>4, <2>5, <1>1, ApartKept
<1>15. ChainLinked(m, e)
  <2>1. \A j \in 0..Len(d[h]) : j # k => m[Place(d, h, j)] = n[Place(d, h, j)]
    <3>1. ASSUME NEW j \in 0..Len(d[h]), j # k PROVE Place(d, h, j) # at
      BY <3>1, <1>1, <1>2, PlacesApart
    <3>2. QED
      BY <3>1, <1>10, <1>12
  <2>2. \A i \in 1..(Len(q) - 1) : m[q[i]] = q[i + 1]
    BY <1>4
  <2>3. m[Place(d, h, k)] = q[1] /\ m[q[Len(q)]] = n[Place(d, h, k)]
    BY <1>2, <1>4, <1>12
  <2>4. SpliceLinks(n, m, d, h, k, q)
    BY <2>1, <2>2, <2>3 DEF SpliceLinks
  <2>5. Leads(m, e, h)
    <3>1. Spliced(d[h], k, q, e[h]) /\ Len(q) # 0
      BY <1>4, <1>8, <1>9
    <3>2. QED
      BY <2>4, <3>1, <1>1, <1>4, SpliceLeads
  <2>6. ASSUME NEW g \in SHeads, g # h PROVE Leads(m, e, g)
    <3>1. e[g] = d[g] /\ Leads(n, d, g)
      BY <2>6, <1>1, <1>9 DEF ChainLinked
    <3>2. ASSUME NEW i \in 0..Len(d[g]) PROVE m[Place(d, g, i)] = n[Place(d, g, i)]
      <4>1. Place(d, g, i) # at
        BY <2>6, <1>1, <1>2, PlacesApart
      <4>2. QED
        BY <4>1, <1>10, <1>12
    <3>3. QED
      BY <3>1, <3>2, <1>1, LeadsKept
  <2>7. QED
    BY <2>5, <2>6 DEF ChainLinked
<1>16. LastKnown(u, e)
  <2>1. LastPlace(e, h) = IF k = Len(d[h]) THEN x ELSE LastPlace(d, h)
    <3>1. Spliced(d[h], k, q, e[h]) /\ Len(q) # 0 /\ x = q[Len(q)]
      BY <1>4, <1>8, <1>9
    <3>2. LastSpliced(d, e, h, k, q)
      BY <3>1, <1>1, <1>4, SplicedLast
    <3>3. QED
      BY <3>1, <3>2 DEF LastSpliced
  <2>2. n[at] = Nil <=> k = Len(d[h])
    <3>1. d \in [SHeads -> Seq(SNodes)] /\ Leads(n, d, h)
      BY <1>1
    <3>2. n[Place(d, h, k)] = Nil <=> k = Len(d[h])
      BY <3>1, NilIsLast
    <3>3. QED
      BY <3>2, <1>2
  <2>3. u \in [SHeads -> Cells] /\ (\A g \in SHeads \ {h} : u[g] = l[g]) /\ u[h] = IF n[at] = Nil THEN x ELSE l[h]
    BY <1>1, <1>7, <1>11
  <2>4. \A g \in SHeads : l[g] = LastPlace(d, g)
    BY <1>1 DEF LastKnown
  <2>5. \A g \in SHeads \ {h} : LastPlace(e, g) = LastPlace(d, g)
    BY <1>9 DEF Place, LastPlace
  <2>6. u[h] = LastPlace(e, h)
    BY <2>1, <2>2, <2>3, <2>4
  <2>7. QED
    BY <2>3, <2>4, <2>5, <2>6 DEF LastKnown
<1>17. Whole(m, u, e)
  BY <1>13, <1>14, <1>15, <1>16 DEF Whole
<1>18. QED
  BY <1>17, <1>2, <1>5, <1>6, <1>7

(* The node behind place k - 1 taken out. *)
LEMMA RemoveKeepsWhole ==
  ASSUME NEW n, NEW l, NEW d, NEW h \in SHeads, NEW k, NEW t,
         Whole(n, l, d), k \in 1..Len(d[h]), Removed(d[h], k, t)
  PROVE  Whole([n EXCEPT ![Place(d, h, k - 1)] = n[n[Place(d, h, k - 1)]]],
               IF n[n[Place(d, h, k - 1)]] = Nil THEN [l EXCEPT ![h] = Place(d, h, k - 1)] ELSE l,
               [d EXCEPT ![h] = t])
<1> USE SListAssumption
<1>1. /\ d \in [SHeads -> Seq(SNodes)] /\ n \in [Cells -> SNodes \cup {Nil}] /\ l \in [SHeads -> Cells]
      /\ Apart(d) /\ ChainLinked(n, d) /\ LastKnown(l, d) /\ d[h] \in Seq(SNodes) /\ Leads(n, d, h)
  BY DEF Whole, SListTyped, LastKnown, ChainLinked
<1>2. PICK c \in Nat : c = Len(d[h])
  BY <1>1, PlaceTyped
<1>3. k \in 1..c /\ k - 1 \in 0..(c - 1) /\ (k - 1) + 1 = k /\ k \in 0..c /\ k - 1 \in 0..c
  BY <1>2
<1>4. PICK p : p = Place(d, h, k - 1)
  OBVIOUS
<1>5. PICK x : x = Place(d, h, k)
  OBVIOUS
<1>6. n[p] = x
  BY <1>1, <1>2, <1>3, <1>4, <1>5 DEF Leads
<1>7. p \in Cells /\ x \in Cells /\ n[x] \in SNodes \cup {Nil}
  BY <1>1, <1>4, <1>5, PlaceTyped
<1>8. PICK e : e = [d EXCEPT ![h] = t]
  OBVIOUS
<1>9. PICK m : m = [n EXCEPT ![p] = n[x]]
  OBVIOUS
<1>10. PICK u : u = IF n[x] = Nil THEN [l EXCEPT ![h] = p] ELSE l
  OBVIOUS
<1>11. t \in Seq(SNodes) /\ e[h] = t /\ e \in [SHeads -> Seq(SNodes)] /\ \A g \in SHeads \ {h} : e[g] = d[g]
  BY <1>1, <1>8 DEF Removed
<1>12. m[p] = n[x] /\ \A y \in Cells : y # p => m[y] = n[y]
  BY <1>1, <1>7, <1>9
<1>13. \A g \in SHeads : \A i : Place(d, g, i) \in Cells
  BY <1>1, PlaceTyped
<1>14. SListTyped(m, e)
  BY <1>1, <1>7, <1>9, <1>11 DEF SListTyped
<1>15. Apart(e)
  <2>1. Once(d[h])
    BY <1>1 DEF Once, Apart
  <2>2. Once(t) /\ \A i \in DOMAIN t : \E j \in DOMAIN d[h] : t[i] = d[h][j]
    BY <2>1, <1>1, RemovedOnce
  <2>3. ASSUME NEW i \in DOMAIN e[h], NEW g \in SHeads \ {h}, NEW j \in DOMAIN e[g] PROVE e[h][i] # e[g][j]
    <3>1. e[g] = d[g] /\ e[h] = t
      BY <1>11
    <3>2. PICK a \in DOMAIN d[h] : t[i] = d[h][a]
      BY <2>2, <3>1
    <3>3. QED
      BY <2>3, <3>1, <3>2, <1>1 DEF Apart
  <2>4. \A g \in SHeads \ {h} : \A i \in DOMAIN e[g] : i \in DOMAIN d[g] /\ e[g][i] = d[g][i]
    BY <1>11
  <2>5. Once(e[h])
    BY <2>2, <1>11
  <2>6. QED
    BY <2>3, <2>4, <2>5, <1>1, ApartKept
<1>16. ChainLinked(m, e)
  <2>1. \A j \in 0..Len(d[h]) : j # k - 1 => m[Place(d, h, j)] = n[Place(d, h, j)]
    <3>1. ASSUME NEW j \in 0..Len(d[h]), j # k - 1 PROVE Place(d, h, j) # p
      <4>1. k - 1 \in 0..Len(d[h])
        BY <1>2, <1>3
      <4>2. QED
        BY <3>1, <4>1, <1>1, <1>4, PlacesApart
    <3>2. QED
      BY <3>1, <1>12, <1>13
  <2>2. RemoveLinks(n, m, d, h, k)
    BY <2>1, <1>4, <1>5, <1>12 DEF RemoveLinks
  <2>3. Leads(m, e, h)
    <3>1. Removed(d[h], k, e[h])
      BY <1>11
    <3>2. QED
      BY <2>2, <3>1, <1>1, RemoveLeads
  <2>4. ASSUME NEW g \in SHeads, g # h PROVE Leads(m, e, g)
    <3>1. e[g] = d[g] /\ Leads(n, d, g)
      BY <2>4, <1>1, <1>11 DEF ChainLinked
    <3>2. ASSUME NEW i \in 0..Len(d[g]) PROVE m[Place(d, g, i)] = n[Place(d, g, i)]
      <4>1. k - 1 \in 0..Len(d[h])
        BY <1>2, <1>3
      <4>2. Place(d, g, i) # p
        BY <2>4, <4>1, <1>1, <1>4, PlacesApart
      <4>3. QED
        BY <4>2, <1>12, <1>13
    <3>3. QED
      BY <3>1, <3>2, <1>1, LeadsKept
  <2>5. QED
    BY <2>3, <2>4 DEF ChainLinked
<1>17. LastKnown(u, e)
  <2>1. LastPlace(e, h) = IF k = Len(d[h]) THEN p ELSE LastPlace(d, h)
    <3>1. Removed(d[h], k, e[h])
      BY <1>11
    <3>2. LastRemoved(d, e, h, k)
      BY <3>1, <1>1, RemovedLast
    <3>3. QED
      BY <3>2, <1>4 DEF LastRemoved
  <2>2. n[x] = Nil <=> k = Len(d[h])
    <3>1. k \in 0..Len(d[h])
      BY <1>2, <1>3
    <3>2. QED
      <4>1. d \in [SHeads -> Seq(SNodes)] /\ Leads(n, d, h)
        BY <1>1
      <4>2. n[Place(d, h, k)] = Nil <=> k = Len(d[h])
        BY <3>1, <4>1, NilIsLast
      <4>3. QED
        BY <4>2, <1>5
  <2>3. u \in [SHeads -> Cells] /\ (\A g \in SHeads \ {h} : u[g] = l[g]) /\ u[h] = IF n[x] = Nil THEN p ELSE l[h]
    BY <1>1, <1>7, <1>10
  <2>4. \A g \in SHeads : l[g] = LastPlace(d, g)
    BY <1>1 DEF LastKnown
  <2>5. \A g \in SHeads \ {h} : LastPlace(e, g) = LastPlace(d, g)
    BY <1>11 DEF Place, LastPlace
  <2>6. u[h] = LastPlace(e, h)
    BY <2>1, <2>2, <2>3, <2>4
  <2>7. QED
    BY <2>3, <2>4, <2>5, <2>6 DEF LastKnown
<1>18. Whole(m, u, e)
  BY <1>14, <1>15, <1>16, <1>17 DEF Whole
<1>19. QED
  BY <1>18, <1>4, <1>6, <1>8, <1>9, <1>10

(* The nodes of list f put behind place k of another list, and f emptied.  *)
LEMMA SpliceKeepsWhole ==
  ASSUME NEW n, NEW l, NEW d, NEW f \in SHeads, NEW h \in SHeads, NEW k, NEW t,
         Whole(n, l, d), f # h, Len(d[f]) # 0, k \in 0..Len(d[h]), Spliced(d[h], k, d[f], t)
  PROVE  Whole([n EXCEPT ![l[f]] = n[Place(d, h, k)], ![Place(d, h, k)] = n[f], ![f] = Nil],
               [l EXCEPT ![h] = IF n[Place(d, h, k)] = Nil THEN l[f] ELSE l[h], ![f] = f],
               [d EXCEPT ![h] = t, ![f] = <<>>])
<1> USE SListAssumption
<1>1. /\ d \in [SHeads -> Seq(SNodes)] /\ n \in [Cells -> SNodes \cup {Nil}] /\ l \in [SHeads -> Cells]
      /\ Apart(d) /\ ChainLinked(n, d) /\ LastKnown(l, d) /\ Leads(n, d, h) /\ Leads(n, d, f)
  BY DEF Whole, SListTyped, LastKnown, ChainLinked
<1>2. PICK at : at = Place(d, h, k)
  OBVIOUS
<1>3. PICK q : q = d[f]
  OBVIOUS
<1>4. PICK b \in Nat : b = Len(q) /\ b # 0
  BY <1>1, <1>3, PlaceTyped
<1>5. q \in Seq(SNodes) /\ DOMAIN q = 1..b /\ 1 \in 1..b /\ b \in 1..b /\ d[h] \in Seq(SNodes)
  BY <1>1, <1>3, <1>4
<1>6. Place(d, f, 0) = f /\ \A i \in 1..b : Place(d, f, i) = q[i]
  BY <1>1, <1>3, <1>4, PlaceTyped
<1>7. PICK z : z = l[f] /\ z = q[b]
  BY <1>1, <1>3, <1>4, <1>5, <1>6 DEF LastKnown, LastPlace
<1>8. n[f] = q[1] /\ \A i \in 1..(b - 1) : n[q[i]] = q[i + 1]
  <2>1. \A i \in 0..(b - 1) : n[Place(d, f, i)] = Place(d, f, i + 1)
    BY <1>1, <1>3, <1>4 DEF Leads
  <2>2. 0 \in 0..(b - 1) /\ 0 + 1 = 1 /\ \A i \in 1..(b - 1) : i \in 0..(b - 1) /\ i \in 1..b /\ i + 1 \in 1..b
    BY <1>4
  <2>3. QED
    BY <2>1, <2>2, <1>5, <1>6
<1>9. PICK e : e = [d EXCEPT ![h] = t, ![f] = <<>>]
  OBVIOUS
<1>10. PICK m : m = [n EXCEPT ![z] = n[at], ![at] = n[f], ![f] = Nil]
  OBVIOUS
<1>11. PICK u : u = [l EXCEPT ![h] = IF n[at] = Nil THEN z ELSE l[h], ![f] = f]
  OBVIOUS
<1>12. Spliced(d[h], k, q, t)
  BY <1>3
<1>13. /\ t \in Seq(SNodes) /\ e[h] = t /\ e[f] = <<>> /\ e \in [SHeads -> Seq(SNodes)]
       /\ \A g \in SHeads : g # h /\ g # f => e[g] = d[g]
  <2>1. t \in Seq(SNodes) /\ <<>> \in Seq(SNodes)
    BY <1>12 DEF Spliced
  <2>2. QED
    BY <2>1, <1>1, <1>9
<1>14. \A g \in SHeads : \A i : Place(d, g, i) \in Cells
  BY <1>1, PlaceTyped
<1>15. /\ at \in Cells /\ z \in Cells /\ f \in Cells /\ z \in SNodes /\ \A i \in 1..b : q[i] \in Cells /\ q[i] \in SNodes
  <2>1. \A i \in 1..b : q[i] \in SNodes
    BY <1>5
  <2>2. QED
    BY <2>1, <1>2, <1>5, <1>7, <1>14 DEF Cells
(* The cells the call writes to, and the others of the two lists.          *)
<1>16. \A i \in 1..b : q[i] # at /\ q[i] # f /\ (i # b => q[i] # z)
  <2>1. ASSUME NEW i \in 1..b PROVE q[i] # at
    <3>1. i \in 0..Len(d[f])
      BY <1>3, <1>4
    <3>2. Place(d, f, i) # Place(d, h, k)
      BY <3>1, <1>1, PlacesApart
    <3>3. QED
      BY <3>2, <1>2, <1>6
  <2>2. ASSUME NEW i \in 1..b PROVE q[i] # f
    BY <1>15
  <2>3. ASSUME NEW i \in 1..b, i # b PROVE q[i] # z
    BY <2>3, <1>1, <1>3, <1>5, <1>7 DEF Apart
  <2>4. QED
    BY <2>1, <2>2, <2>3
<1>17. at # f /\ at # z /\ z # f
  <2>1. 0 \in 0..Len(d[f])
    BY <1>3, <1>4
  <2>2. Place(d, f, 0) # Place(d, h, k)
    BY <2>1, <1>1, PlacesApart
  <2>3. QED
    BY <2>2, <1>2, <1>5, <1>6, <1>7, <1>16
<1>18. m[z] = n[at] /\ m[at] = q[1] /\ m[f] = Nil /\ \A y \in Cells : y # z /\ y # at /\ y # f => m[y] = n[y]
  BY <1>1, <1>8, <1>10, <1>15, <1>17
<1>19. SListTyped(m, e)
  <2>1. n[at] \in SNodes \cup {Nil} /\ n[f] \in SNodes \cup {Nil} /\ Nil \in SNodes \cup {Nil}
    BY <1>1, <1>15
  <2>2. m \in [Cells -> SNodes \cup {Nil}]
    BY <1>1, <1>10, <2>1
  <2>3. QED
    BY <2>2, <1>13 DEF SListTyped
<1>20. Apart(e)
  <2>1. Once(d[h]) /\ Once(q) /\ Disjoint(d[h], q)
    BY <1>1, <1>3 DEF Once, Apart, Disjoint
  <2>2. /\ Once(t)
        /\ \A i \in DOMAIN t : (\E j \in DOMAIN d[h] : t[i] = d[h][j]) \/ (\E j \in DOMAIN q : t[i] = q[j])
    BY <2>1, <1>5, <1>12, SplicedOnce
  <2>3. ASSUME NEW g \in SHeads \ {h}, NEW j \in DOMAIN e[g] PROVE g # f /\ j \in DOMAIN d[g] /\ e[g][j] = d[g][j]
    <3>1. g # f
      <4>1. DOMAIN <<>> = {}
        OBVIOUS
      <4>2. QED
        BY <4>1, <2>3, <1>13
    <3>2. QED
      BY <3>1, <2>3, <1>13
  <2>4. ASSUME NEW i \in DOMAIN e[h], NEW g \in SHeads \ {h}, NEW j \in DOMAIN e[g] PROVE e[h][i] # e[g][j]
    <3>1. g # f /\ e[h] = t /\ j \in DOMAIN d[g] /\ e[g][j] = d[g][j]
      BY <2>3, <2>4, <1>13
    <3>2. CASE \E a \in DOMAIN d[h] : t[i] = d[h][a]
      BY <2>4, <3>1, <3>2, <1>1 DEF Apart
    <3>3. CASE \E a \in DOMAIN q : t[i] = q[a]
      BY <2>4, <3>1, <3>3, <1>1, <1>3 DEF Apart
    <3>4. QED
      BY <2>2, <2>4, <3>1, <3>2, <3>3
  <2>5. Once(e[h])
    BY <2>2, <1>13
  <2>6. QED
    BY <2>3, <2>4, <2>5, <1>1, ApartKept
<1>21. ChainLinked(m, e)
  <2>1. \A j \in 0..Len(d[h]) : j # k => m[Place(d, h, j)] = n[Place(d, h, j)]
    <3>1. ASSUME NEW j \in 0..Len(d[h]), j # k PROVE Place(d, h, j) # at /\ Place(d, h, j) # z /\ Place(d, h, j) # f
      <4>1. Place(d, h, j) # at
        BY <3>1, <1>1, <1>2, PlacesApart
      <4>2. 0 \in 0..Len(d[f]) /\ b \in 0..Len(d[f])
        BY <1>3, <1>4
      <4>3. Place(d, h, j) # Place(d, f, 0) /\ Place(d, h, j) # Place(d, f, b)
        BY <4>2, <1>1, PlacesApart
      <4>4. QED
        BY <4>1, <4>3, <1>5, <1>6, <1>7
    <3>2. QED
      BY <3>1, <1>14, <1>18
  <2>2. \A i \in 1..(Len(q) - 1) : m[q[i]] = q[i + 1]
    <3>1. \A i \in 1..(b - 1) : i \in 1..b /\ i # b
      BY <1>4
    <3>2. QED
      BY <3>1, <1>4, <1>8, <1>15, <1>16, <1>18
  <2>3. m[Place(d, h, k)] = q[1] /\ m[q[Len(q)]] = n[Place(d, h, k)]
    BY <1>2, <1>4, <1>7, <1>18
  <2>4. SpliceLinks(n, m, d, h, k, q)
    BY <2>1, <2>2, <2>3 DEF SpliceLinks
  <2>5. Leads(m, e, h)
    <3>1. Spliced(d[h], k, q, e[h]) /\ Len(q) # 0
      BY <1>4, <1>12, <1>13
    <3>2. QED
      BY <2>4, <3>1, <1>1, <1>5, SpliceLeads
  <2>6. Leads(m, e, f)
    <3>1. Len(e[f]) = 0 /\ \A i : Place(e, f, i) = f
      BY <1>13 DEF Place
    <3>2. QED
      BY <3>1, <1>18 DEF Leads
  <2>7. ASSUME NEW g \in SHeads, g # h, g # f PROVE Leads(m, e, g)
    <3>1. e[g] = d[g] /\ Leads(n, d, g)
      BY <2>7, <1>1, <1>13 DEF ChainLinked
    <3>2. ASSUME NEW i \in 0..Len(d[g]) PROVE m[Place(d, g, i)] = n[Place(d, g, i)]
      <4>1. Place(d, g, i) # at
        BY <2>7, <1>1, <1>2, PlacesApart
      <4>2. 0 \in 0..Len(d[f]) /\ b \in 0..Len(d[f])
        BY <1>3, <1>4
      <4>3. Place(d, g, i) # Place(d, f, 0) /\ Place(d, g, i) # Place(d, f, b)
        BY <2>7, <4>2, <1>1, PlacesApart
      <4>4. QED
        BY <4>1, <4>3, <1>5, <1>6, <1>7, <1>14, <1>18
    <3>3. QED
      BY <3>1, <3>2, <1>1, LeadsKept
  <2>8. QED
    BY <2>5, <2>6, <2>7 DEF ChainLinked
<1>22. LastKnown(u, e)
  <2>1. LastPlace(e, h) = IF k = Len(d[h]) THEN z ELSE LastPlace(d, h)
    <3>1. Spliced(d[h], k, q, e[h]) /\ Len(q) # 0 /\ z = q[Len(q)]
      BY <1>4, <1>7, <1>12, <1>13
    <3>2. LastSpliced(d, e, h, k, q)
      BY <3>1, <1>1, <1>5, SplicedLast
    <3>3. QED
      BY <3>1, <3>2 DEF LastSpliced
  <2>2. n[at] = Nil <=> k = Len(d[h])
    <3>1. d \in [SHeads -> Seq(SNodes)] /\ Leads(n, d, h)
      BY <1>1
    <3>2. n[Place(d, h, k)] = Nil <=> k = Len(d[h])
      BY <3>1, NilIsLast
    <3>3. QED
      BY <3>2, <1>2
  <2>3. /\ u \in [SHeads -> Cells] /\ u[f] = f /\ u[h] = IF n[at] = Nil THEN z ELSE l[h]
        /\ \A g \in SHeads : g # h /\ g # f => u[g] = l[g]
    BY <1>1, <1>11, <1>15
  <2>4. \A g \in SHeads : l[g] = LastPlace(d, g)
    BY <1>1 DEF LastKnown
  <2>5. \A g \in SHeads : g # h /\ g # f => LastPlace(e, g) = LastPlace(d, g)
    BY <1>13 DEF Place, LastPlace
  <2>6. u[h] = LastPlace(e, h)
    BY <2>1, <2>2, <2>3, <2>4
  <2>7. LastPlace(e, f) = f
    BY <1>13 DEF Place, LastPlace
  <2>8. QED
    BY <2>3, <2>4, <2>5, <2>6, <2>7 DEF LastKnown
<1>23. Whole(m, u, e)
  BY <1>19, <1>20, <1>21, <1>22 DEF Whole
<1>24. QED
  BY <1>23, <1>2, <1>7, <1>9, <1>10, <1>11

-----------------------------------------------------------------------------
(* The chain of the model is the head and the places behind it.            *)
ChainPlaces(h) ==
  /\ DOMAIN Chain(h) = 1..(Len(sorder[h]) + 1) /\ Len(Chain(h)) = Len(sorder[h]) + 1
  /\ \A i \in 1..(Len(sorder[h]) + 1) : Chain(h)[i] = Place(sorder, h, i - 1)

LEMMA ChainIs ==
  ASSUME NEW h \in SHeads, SListInv
  PROVE  ChainPlaces(h)
<1>1. sorder \in [SHeads -> Seq(SNodes)]
  BY DEF SListInv, Whole, SListTyped
<1>2. PICK s \in Seq(SNodes) : s = sorder[h]
  BY <1>1
<1>3. PICK c \in Nat : c = Len(s) /\ DOMAIN s = 1..c
  OBVIOUS
<1>4. PICK a : a = <<h>>
  OBVIOUS
<1>5. PICK b : b = a \o s
  OBVIOUS
<1>6. a \in Seq(Cells) /\ Len(a) = 1 /\ a[1] = h
  BY <1>4 DEF Cells
<1>7. s \in Seq(Cells)
  BY DEF Cells
<1>8. b \in Seq(Cells) /\ Len(b) = 1 + c /\ \A i \in 1..(1 + c) : b[i] = IF i <= 1 THEN a[i] ELSE s[i - 1]
  BY <1>3, <1>5, <1>6, <1>7, ConcatProperties
<1>9. Len(b) = c + 1 /\ DOMAIN b = 1..(c + 1)
  BY <1>8
<1>10. ASSUME NEW i \in 1..(c + 1) PROVE b[i] = Place(sorder, h, i - 1)
  <2>1. CASE i = 1
    <3>1. i \in 1..(1 + c) /\ i <= 1 /\ i - 1 \notin 1..c
      BY <1>3, <2>1
    <3>2. b[i] = h
      BY <3>1, <2>1, <1>6, <1>8
    <3>3. QED
      BY <3>1, <3>2, <1>2, <1>3 DEF Place
  <2>2. CASE i # 1
    <3>1. i \in 1..(1 + c) /\ ~(i <= 1) /\ i - 1 \in 1..c
      BY <1>3, <2>2
    <3>2. b[i] = s[i - 1]
      BY <3>1, <1>8
    <3>3. QED
      BY <3>1, <3>2, <1>2, <1>3 DEF Place
  <2>3. QED
    BY <2>1, <2>2
<1>11. Chain(h) = b
  BY <1>2, <1>4, <1>5 DEF Chain
<1>12. QED
  BY <1>2, <1>3, <1>9, <1>10, <1>11 DEF ChainPlaces

LEMMA FreeIsNew ==
  ASSUME NEW x \in Free
  PROVE  \A g \in SHeads : \A i \in DOMAIN sorder[g] : sorder[g][i] # x
BY DEF Free, ToSet

(* No call leaves a link, a last node or an order that disagree.           *)
LEMMA SListStart ==
  SListInit => SListInv
<1> USE SListAssumption
<1>1. SUFFICES ASSUME SListInit PROVE SListInv
  OBVIOUS
<1>2. snext = [x \in Cells |-> Nil] /\ last = [h \in SHeads |-> h] /\ sorder = [h \in SHeads |-> <<>>]
  BY <1>1 DEF SListInit, Cells
<1>3. \A h \in SHeads : sorder[h] = <<>> /\ Len(sorder[h]) = 0 /\ DOMAIN sorder[h] = {}
  BY <1>2
<1>4. \A h \in SHeads : \A i : Place(sorder, h, i) = h
  BY <1>3 DEF Place
<1>5. SListTyped(snext, sorder)
  <2>1. snext \in [Cells -> SNodes \cup {Nil}]
    BY <1>2
  <2>2. <<>> \in Seq(SNodes)
    OBVIOUS
  <2>3. sorder \in [SHeads -> Seq(SNodes)]
    BY <1>2, <2>2
  <2>4. QED
    BY <2>1, <2>3 DEF SListTyped
<1>6. Apart(sorder)
  BY <1>3 DEF Apart
<1>7. ChainLinked(snext, sorder)
  BY <1>2, <1>3, <1>4 DEF ChainLinked, Leads, Cells
<1>8. LastKnown(last, sorder)
  BY <1>2, <1>4 DEF LastKnown, LastPlace, Cells
<1>9. QED
  BY <1>5, <1>6, <1>7, <1>8 DEF SListInv, Whole

LEMMA AddAfterKeeps ==
  ASSUME SListInv, NEW x \in SNodes, NEW h \in SHeads, NEW i \in DOMAIN Chain(h), slist_add_after(x, i, h)
  PROVE  SListInv'
<1>1. sorder \in [SHeads -> Seq(SNodes)] /\ Whole(snext, last, sorder)
  BY DEF SListInv, Whole, SListTyped
<1>2. PICK s \in Seq(SNodes) : s = sorder[h]
  BY <1>1
<1>3. PICK k \in Nat : k = i - 1 /\ k \in 0..Len(s) /\ i \in 1..(Len(s) + 1)
  <2>1. ChainPlaces(h)
    BY ChainIs
  <2>2. i \in 1..(Len(s) + 1)
    BY <2>1, <1>2 DEF ChainPlaces
  <2>3. i - 1 \in Nat /\ i - 1 \in 0..Len(s)
    BY <2>2
  <2>4. QED
    BY <2>2, <2>3
<1>4. Chain(h)[i] = Place(sorder, h, k)
  <2>1. ChainPlaces(h)
    BY ChainIs
  <2>2. QED
    BY <2>1, <1>2, <1>3 DEF ChainPlaces
<1>5. PICK t : t = InsertAt(s, i, x)
  OBVIOUS
<1>6. Spliced(sorder[h], k, <<x>>, t)
  <2>0. <<x>> \in Seq(SNodes)
    OBVIOUS
  <2>1. PICK q \in Seq(SNodes) : q = <<x>>
    BY <2>0
  <2>2. Spliced(s, i - 1, q, SubSeq(s, 1, i - 1) \o q \o SubSeq(s, i, Len(s)))
    BY <1>3, SpliceIs
  <2>3. QED
    BY <2>1, <2>2, <1>2, <1>3, <1>5 DEF InsertAt
<1>7. /\ snext' = [[snext EXCEPT ![x] = snext[Place(sorder, h, k)]] EXCEPT ![Place(sorder, h, k)] = x]
      /\ last' = IF snext[Place(sorder, h, k)] = Nil THEN [last EXCEPT ![h] = x] ELSE last
      /\ sorder' = [sorder EXCEPT ![h] = t] /\ x \in Free
  BY <1>2, <1>4, <1>5 DEF slist_add_after, AddAfter
<1>8. \A g \in SHeads : \A j \in DOMAIN sorder[g] : sorder[g][j] # x
  BY <1>7, FreeIsNew
<1>9. k \in 0..Len(sorder[h])
  BY <1>2, <1>3
<1>10. Whole([[snext EXCEPT ![x] = snext[Place(sorder, h, k)]] EXCEPT ![Place(sorder, h, k)] = x],
             IF snext[Place(sorder, h, k)] = Nil THEN [last EXCEPT ![h] = x] ELSE last,
             [sorder EXCEPT ![h] = t])
  BY <1>1, <1>6, <1>8, <1>9, InsertKeepsWhole
<1>11. Whole(snext', last', sorder')
  BY <1>7, <1>10
<1>12. QED
  BY <1>11 DEF SListInv

LEMMA AddTailKeeps ==
  ASSUME SListInv, NEW x \in SNodes, NEW h \in SHeads, slist_add_tail(x, h)
  PROVE  SListInv'
<1> USE SListAssumption
<1>1. /\ sorder \in [SHeads -> Seq(SNodes)] /\ snext \in [Cells -> SNodes \cup {Nil}] /\ last \in [SHeads -> Cells]
      /\ Whole(snext, last, sorder) /\ Leads(snext, sorder, h)
  BY DEF SListInv, Whole, SListTyped, ChainLinked, LastKnown
<1>2. PICK s \in Seq(SNodes) : s = sorder[h]
  BY <1>1
<1>3. PICK k \in Nat : k = Len(s) /\ k \in 0..Len(sorder[h]) /\ k = Len(sorder[h])
  BY <1>2
<1>4. PICK p : p = last[h] /\ p = Place(sorder, h, k) /\ snext[p] = Nil
  <2>1. last[h] = Place(sorder, h, k)
    BY <1>1, <1>3 DEF Whole, LastKnown, LastPlace
  <2>2. snext[Place(sorder, h, k)] = Nil
    BY <1>1, <1>3 DEF Leads
  <2>3. QED
    BY <2>1, <2>2
<1>5. PICK t : t = Append(s, x)
  OBVIOUS
<1>6. Spliced(sorder[h], k, <<x>>, t)
  <2>1. Spliced(s, Len(s), <<x>>, Append(s, x))
    BY AppendIs
  <2>2. QED
    BY <2>1, <1>2, <1>3, <1>5
<1>7. snext' = [[snext EXCEPT ![x] = snext[p]] EXCEPT ![p] = x]
  BY <1>4 DEF slist_add_tail
<1>8. last' = IF snext[p] = Nil THEN [last EXCEPT ![h] = x] ELSE last
  BY <1>4 DEF slist_add_tail
<1>9. sorder' = [sorder EXCEPT ![h] = t] /\ x \in Free
  BY <1>2, <1>5 DEF slist_add_tail
<1>10. \A g \in SHeads : \A j \in DOMAIN sorder[g] : sorder[g][j] # x
  BY <1>9, FreeIsNew
<1>11. Whole([[snext EXCEPT ![x] = snext[Place(sorder, h, k)]] EXCEPT ![Place(sorder, h, k)] = x],
             IF snext[Place(sorder, h, k)] = Nil THEN [last EXCEPT ![h] = x] ELSE last,
             [sorder EXCEPT ![h] = t])
  BY <1>1, <1>3, <1>6, <1>10, InsertKeepsWhole
<1>12. Whole(snext', last', sorder')
  BY <1>4, <1>7, <1>8, <1>9, <1>11
<1>13. QED
  BY <1>12 DEF SListInv

LEMMA DelAfterKeeps ==
  ASSUME SListInv, NEW h \in SHeads, NEW i \in DOMAIN sorder[h], slist_del_after(i, h)
  PROVE  SListInv'
<1>1. sorder \in [SHeads -> Seq(SNodes)] /\ snext \in [Cells -> SNodes \cup {Nil}] /\ Whole(snext, last, sorder)
  BY DEF SListInv, Whole, SListTyped
<1>2. PICK s \in Seq(SNodes) : s = sorder[h]
  BY <1>1
<1>3. i \in 1..Len(s) /\ i \in 1..Len(sorder[h]) /\ i \in 1..(Len(sorder[h]) + 1)
  BY <1>2
<1>4. PICK p : p = Chain(h)[i] /\ p = Place(sorder, h, i - 1) /\ p \in Cells
  <2>1. ChainPlaces(h)
    BY ChainIs
  <2>2. Chain(h)[i] = Place(sorder, h, i - 1)
    BY <2>1, <1>3 DEF ChainPlaces
  <2>3. Place(sorder, h, i - 1) \in Cells
    BY <1>1, PlaceTyped
  <2>4. QED
    BY <2>2, <2>3
<1>5. PICK t : t = RemoveAt(s, i)
  OBVIOUS
<1>6. Removed(sorder[h], i, t)
  <2>1. Removed(s, i, RemoveAt(s, i))
    BY <1>3, RemoveIs
  <2>2. QED
    BY <2>1, <1>2, <1>5
<1>7. snext' = [snext EXCEPT ![p] = snext[snext[p]]]
  BY <1>4 DEF slist_del_after
<1>8. snext'[p] = snext[snext[p]]
  BY <1>1, <1>4, <1>7
<1>9. last' = IF snext[snext[p]] = Nil THEN [last EXCEPT ![h] = p] ELSE last
  BY <1>4, <1>8 DEF slist_del_after
<1>10. sorder' = [sorder EXCEPT ![h] = t]
  BY <1>2, <1>5 DEF slist_del_after
<1>11. Whole([snext EXCEPT ![Place(sorder, h, i - 1)] = snext[snext[Place(sorder, h, i - 1)]]],
             IF snext[snext[Place(sorder, h, i - 1)]] = Nil THEN [last EXCEPT ![h] = Place(sorder, h, i - 1)] ELSE last,
             [sorder EXCEPT ![h] = t])
  BY <1>1, <1>3, <1>6, RemoveKeepsWhole
<1>12. Whole(snext', last', sorder')
  BY <1>4, <1>7, <1>9, <1>10, <1>11
<1>13. QED
  BY <1>12 DEF SListInv

LEMMA SpliceInitKeeps ==
  ASSUME SListInv, NEW f \in SHeads, NEW h \in SHeads, NEW i \in DOMAIN Chain(h), slist_splice_init(f, i, h)
  PROVE  SListInv'
<1>1. sorder \in [SHeads -> Seq(SNodes)] /\ Whole(snext, last, sorder)
  BY DEF SListInv, Whole, SListTyped
<1>2. PICK s \in Seq(SNodes) : s = sorder[h]
  BY <1>1
<1>3. PICK k \in Nat : k = i - 1 /\ k \in 0..Len(s) /\ i \in 1..(Len(s) + 1)
  <2>1. ChainPlaces(h)
    BY ChainIs
  <2>2. i \in 1..(Len(s) + 1)
    BY <2>1, <1>2 DEF ChainPlaces
  <2>3. i - 1 \in Nat /\ i - 1 \in 0..Len(s)
    BY <2>2
  <2>4. QED
    BY <2>2, <2>3
<1>4. Chain(h)[i] = Place(sorder, h, k)
  <2>1. ChainPlaces(h)
    BY ChainIs
  <2>2. QED
    BY <2>1, <1>2, <1>3 DEF ChainPlaces
<1>5. PICK q \in Seq(SNodes) : q = sorder[f]
  BY <1>1
<1>6. PICK t : t = SubSeq(s, 1, i - 1) \o q \o SubSeq(s, i, Len(s))
  OBVIOUS
<1>7. Spliced(sorder[h], k, sorder[f], t)
  <2>1. Spliced(s, i - 1, q, SubSeq(s, 1, i - 1) \o q \o SubSeq(s, i, Len(s)))
    BY <1>3, SpliceIs
  <2>2. QED
    BY <2>1, <1>2, <1>3, <1>5, <1>6
<1>8. f # h /\ Len(sorder[f]) # 0 /\ k \in 0..Len(sorder[h])
  <2>1. f # h /\ q # <<>>
    BY <1>5 DEF slist_splice_init
  <2>2. QED
    BY <2>1, <1>2, <1>3, <1>5
<1>9. PICK at : at = Chain(h)[i]
  OBVIOUS
<1>10. /\ snext' = [snext EXCEPT ![last[f]] = snext[at], ![at] = snext[f], ![f] = Nil]
       /\ last' = [last EXCEPT ![h] = IF snext[at] = Nil THEN last[f] ELSE last[h], ![f] = f]
       /\ sorder' = [sorder EXCEPT ![h] = t, ![f] = <<>>]
  BY <1>2, <1>5, <1>6, <1>9 DEF slist_splice_init
<1>11. Whole([snext EXCEPT ![last[f]] = snext[Place(sorder, h, k)], ![Place(sorder, h, k)] = snext[f], ![f] = Nil],
             [last EXCEPT ![h] = IF snext[Place(sorder, h, k)] = Nil THEN last[f] ELSE last[h], ![f] = f],
             [sorder EXCEPT ![h] = t, ![f] = <<>>])
  BY <1>1, <1>7, <1>8, SpliceKeepsWhole
<1>12. Whole(snext', last', sorder')
  BY <1>4, <1>9, <1>10, <1>11
<1>13. QED
  BY <1>12 DEF SListInv

-----------------------------------------------------------------------------
LEMMA SListStep ==
  SListInv /\ [SListNext]_slistVars => SListInv'
<1>1. ASSUME SListInv, NEW x \in SNodes, NEW h \in SHeads, slist_add_tail(x, h) PROVE SListInv'
  BY <1>1, AddTailKeeps
<1>2. ASSUME SListInv, NEW x \in SNodes, NEW h \in SHeads, NEW i \in DOMAIN Chain(h), slist_add_after(x, i, h)
      PROVE  SListInv'
  BY <1>2, AddAfterKeeps
<1>3. ASSUME SListInv, NEW h \in SHeads, NEW i \in DOMAIN sorder[h], slist_del_after(i, h) PROVE SListInv'
  BY <1>3, DelAfterKeeps
<1>4. ASSUME SListInv, NEW f \in SHeads, NEW h \in SHeads, NEW i \in DOMAIN Chain(h), slist_splice_init(f, i, h)
      PROVE  SListInv'
  BY <1>4, SpliceInitKeeps
<1>5. ASSUME SListInv, UNCHANGED slistVars PROVE SListInv'
  BY <1>5 DEF slistVars, SListInv
<1>6. QED
  BY <1>1, <1>2, <1>3, <1>4, <1>5 DEF SListNext

(* The places linked one to the next are what slist_for_each meets.        *)
LEMMA WholeIsOrder ==
  SListInv => SListIsOrder
<1>1. SUFFICES ASSUME SListInv, NEW h \in SHeads
               PROVE  LET c == Chain(h)
                      IN  /\ \A i \in DOMAIN c : snext[c[i]] = IF i < Len(c) THEN c[i + 1] ELSE Nil
                          /\ last[h] = c[Len(c)]
  BY DEF SListIsOrder
<1>2. /\ sorder \in [SHeads -> Seq(SNodes)] /\ Leads(snext, sorder, h) /\ last[h] = LastPlace(sorder, h)
  BY <1>1 DEF SListInv, Whole, SListTyped, ChainLinked, LastKnown
<1>3. PICK n \in Nat : n = Len(sorder[h])
  BY <1>2, PlaceTyped
<1>4. PICK c : c = Chain(h)
  OBVIOUS
<1>5. DOMAIN c = 1..(n + 1) /\ Len(c) = n + 1 /\ \A i \in 1..(n + 1) : c[i] = Place(sorder, h, i - 1)
  <2>1. ChainPlaces(h)
    BY <1>1, ChainIs
  <2>2. QED
    BY <2>1, <1>3, <1>4 DEF ChainPlaces
<1>6. (\A i \in 0..(n - 1) : snext[Place(sorder, h, i)] = Place(sorder, h, i + 1)) /\ snext[Place(sorder, h, n)] = Nil
  BY <1>2, <1>3 DEF Leads
<1>7. ASSUME NEW i \in DOMAIN c PROVE snext[c[i]] = IF i < Len(c) THEN c[i + 1] ELSE Nil
  <2>1. CASE i < n + 1
    <3>1. i \in 1..(n + 1) /\ i + 1 \in 1..(n + 1) /\ i - 1 \in 0..(n - 1) /\ (i - 1) + 1 = i /\ (i + 1) - 1 = i
      BY <1>5, <2>1
    <3>2. snext[c[i]] = c[i + 1]
      BY <3>1, <1>5, <1>6
    <3>3. QED
      BY <3>2, <2>1, <1>5
  <2>2. CASE i = n + 1
    <3>1. i \in 1..(n + 1) /\ i - 1 = n /\ ~(i < n + 1)
      BY <1>5, <2>2
    <3>2. snext[c[i]] = Nil
      BY <3>1, <1>5, <1>6
    <3>3. QED
      BY <3>1, <3>2, <1>5
  <2>3. QED
    BY <1>5, <2>1, <2>2
<1>8. last[h] = c[Len(c)]
  <2>1. n + 1 \in 1..(n + 1) /\ (n + 1) - 1 = n
    OBVIOUS
  <2>2. QED
    BY <2>1, <1>2, <1>3, <1>5 DEF LastPlace
<1>9. QED
  BY <1>4, <1>7, <1>8

(* Whatever is added behind any node or at the tail, deleted behind any    *)
(* node or spliced into the other list, slist_for_each meets the caller's  *)
(* nodes in the caller's order, and last is the node at the end, so that   *)
(* the next slist_add_tail links behind it and not into another list.      *)
THEOREM ChainsMeetTheOrder ==
  SListSpec => []SListIsOrder
<1>1. SListInit => SListInv
  BY SListStart
<1>2. SListInv /\ [SListNext]_slistVars => SListInv'
  BY SListStep
<1>3. SListInv => SListIsOrder
  BY WholeIsOrder
<1>4. QED
  BY <1>1, <1>2, <1>3, PTL DEF SListSpec
=============================================================================
