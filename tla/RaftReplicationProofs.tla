----------------------- MODULE RaftReplicationProofs -----------------------
(***************************************************************************)
(* Log Matching, Leader Completeness and what follows from them, for every *)
(* finite set of servers, every length of logs and every loss, repetition  *)
(* and reordering of requests and answers.                                 *)
(*                                                                         *)
(* A leader's log is lost to the state once its term is over, so the       *)
(* invariant says that there is a G, with G[t] the log of the leader of    *)
(* term t as far as it got, that explains every log, request and answer.   *)
(***************************************************************************)
EXTENDS RaftReplication, RaftElectionProofs, SequenceTheorems, WellFoundedInduction

-----------------------------------------------------------------------------
(* Every set of naturals has a least element. *)
LEMMA NatMin ==
    ASSUME NEW S \in SUBSET Nat, S # {}
    PROVE  \E x \in S : \A y \in S : x <= y
<1>1. PICK x \in S : \A y \in S : ~ (<<y, x>> \in OpToRel(<, Nat))
  BY NatLessThanWellFounded, WFMin, Zenon
<1>2. ASSUME NEW y \in S, y < x PROVE FALSE
  <2>1. <<y, x>> \in {ss \in Nat \X Nat : ss[1] < ss[2]}
    BY <1>2
  <2>2. OpToRel(<, Nat) = {ss \in Nat \X Nat : ss[1] < ss[2]}
    BY Zenon DEF OpToRel
  <2> QED BY <1>1, <2>1, <2>2, Zenon
<1>3. \A y \in S : x <= y
  BY <1>2
<1> QED BY <1>3

(* So has a bounded one a greatest. *)
LEMMA NatMax ==
    ASSUME NEW S \in SUBSET Nat, S # {}, NEW b \in Nat, \A x \in S : x <= b
    PROVE  \E x \in S : \A y \in S : y <= x
<1> DEFINE T == {d \in Nat : \E x \in S : d + x = b}
<1>1. PICK z \in S : TRUE
  OBVIOUS
<1>2. b - z \in T
  OBVIOUS
<1>3. PICK t \in T : \A u \in T : t <= u
  BY <1>2, NatMin
<1>4. PICK x \in S : t + x = b
  OBVIOUS
<1>5. ASSUME NEW y \in S PROVE y <= x
  <2>1. b - y \in T /\ t \in Nat
    OBVIOUS
  <2>2. t <= b - y
    BY <1>3, <2>1
  <2> HIDE DEF T
  <2> QED BY <1>4, <2>1, <2>2
<1> QED BY <1>5

(* Max and Min of what has one. *)
LEMMA MaxIs ==
    ASSUME NEW S \in SUBSET Nat, NEW x \in S, \A y \in S : y <= x, NEW z, z = Max(S)
    PROVE  z \in S /\ \A y \in S : y <= z
<1>1. \E v \in S : \A y \in S : v >= y
  <2>1. \A y \in S : x >= y
    OBVIOUS
  <2> QED BY <2>1
<1>2. z = CHOOSE v \in S : \A y \in S : v >= y
  BY DEF Max
<1>3. z \in S /\ \A y \in S : z >= y
  BY <1>1, <1>2
<1> QED BY <1>3

(* Min is the least, which every set of naturals has. *)
LEMMA MinIs ==
    ASSUME NEW S \in SUBSET Nat, S # {}, NEW z, z = Min(S)
    PROVE  z \in S /\ \A y \in S : z <= y
<1>1. \E v \in S : \A y \in S : v <= y
  BY NatMin
<1>2. z = CHOOSE v \in S : \A y \in S : v <= y
  BY DEF Min
<1> QED BY <1>1, <1>2

(* Arithmetic the first-order prover is given as a fact. *)
LEMMA Ordered == \A x, y \in Nat : x <= y \/ y <= x
OBVIOUS

(* Between two equal numbers there is only one. *)
LEMMA Between == \A x, y, z \in Nat : x <= y /\ y <= z => x <= z /\ (z = x => y = x)
OBVIOUS

(* Max of two numbers. *)
LEMMA MaxOfTwo ==
    ASSUME NEW a \in Nat, NEW b \in Nat, NEW z, z = Max({a, b})
    PROVE  z \in Nat /\ (z = a \/ z = b) /\ a <= z /\ b <= z
<1>1. {a, b} \in SUBSET Nat
  OBVIOUS
<1>2. CASE a <= b
  <2>1. \A y \in {a, b} : y <= b
    BY <1>2
  <2>2. z \in {a, b} /\ \A y \in {a, b} : y <= z
    BY <1>1, <2>1, MaxIs
  <2> QED BY <2>2
<1>3. CASE ~(a <= b)
  <2>1. \A y \in {a, b} : y <= a
    BY <1>3
  <2>2. z \in {a, b} /\ \A y \in {a, b} : y <= z
    BY <1>1, <2>1, MaxIs
  <2> QED BY <2>2
<1> QED BY <1>2, <1>3

(* Min of two numbers. *)
LEMMA MinOfTwo ==
    ASSUME NEW a \in Nat, NEW b \in Nat, NEW z, z = Min({a, b})
    PROVE  z \in Nat /\ (z = a \/ z = b) /\ z <= a /\ z <= b
<1>1. {a, b} \in SUBSET Nat /\ {a, b} # {}
  OBVIOUS
<1>2. z \in {a, b} /\ \A y \in {a, b} : z <= y
  BY <1>1, MinIs
<1> QED BY <1>2
-----------------------------------------------------------------------------
(* Two logs have the same first i entries. *)
Agree(k, l, i) == i <= Len(k) /\ i <= Len(l) /\ \A j \in 1 .. i : k[j] = l[j]

(* A log agrees with itself. *)
LEMMA AgreeSame == ASSUME NEW k \in Seq(Nat), NEW i \in Nat, i <= Len(k) PROVE Agree(k, k, i)
BY DEF Agree

(* Agreement is symmetric. *)
LEMMA AgreeBack == ASSUME NEW k, NEW l, NEW i, Agree(k, l, i) PROVE Agree(l, k, i)
BY DEF Agree

(* What agrees agrees on every shorter prefix. *)
LEMMA AgreeLess ==
    ASSUME NEW k \in Seq(Nat), NEW l \in Seq(Nat), NEW i \in Nat, NEW j \in Nat, j <= i,
           Agree(k, l, i)
    PROVE  Agree(k, l, j)
<1>1. Len(k) \in Nat /\ Len(l) \in Nat
  BY LenProperties
<1>2. j <= Len(k) /\ j <= Len(l) /\ 1 .. j \subseteq 1 .. i
  BY <1>1 DEF Agree
<1> QED BY <1>2 DEF Agree

(* What agrees has the same entries. *)
LEMMA AgreeAt ==
    ASSUME NEW k \in Seq(Nat), NEW l \in Seq(Nat), NEW i \in Nat, Agree(k, l, i),
           NEW j \in Nat, 1 <= j, j <= i
    PROVE  k[j] = l[j] /\ j \in 1 .. Len(k) /\ j \in 1 .. Len(l)
<1>1. Len(k) \in Nat /\ Len(l) \in Nat
  BY LenProperties
<1>2. j \in 1 .. i /\ i <= Len(k) /\ i <= Len(l)
  BY DEF Agree
<1>3. j \in 1 .. Len(k) /\ j \in 1 .. Len(l)
  BY <1>1, <1>2
<1> QED BY <1>2, <1>3 DEF Agree

(* Agreement is transitive. *)
LEMMA AgreeOn ==
    ASSUME NEW k, NEW l, NEW m, NEW i, Agree(k, l, i), Agree(l, m, i)
    PROVE  Agree(k, m, i)
BY DEF Agree

(* The properties speak of prefixes. *)
LEMMA PrefixIs ==
    ASSUME NEW l \in Seq(Nat), NEW i \in Nat, i <= Len(l), NEW p, p = Prefix(l, i)
    PROVE  p \in Seq(Nat) /\ Len(p) = i /\ \A j \in 1 .. i : p[j] = l[j]
<1>1. Len(l) \in Nat
  BY LenProperties
<1>2. Min({i, Len(l)}) = i
  <2>1. PICK z : z = Min({i, Len(l)})
    OBVIOUS
  <2>2. z = i
    BY <1>1, <2>1, MinOfTwo
  <2> QED BY <2>1, <2>2
<1>3. p = SubSeq(l, 1, i)
  BY <1>2 DEF Prefix
<1>4. \A j \in 1 .. i : l[j] \in Nat
  <2>1. 1 .. i \subseteq 1 .. Len(l)
    BY <1>1
  <2> QED BY <2>1, ElementOfSeq
<1>5. /\ p \in Seq(Nat) /\ Len(p) = (IF 1 <= i THEN i - 1 + 1 ELSE 0)
      /\ \A j \in 1 .. i - 1 + 1 : p[j] = l[1 + j - 1]
  BY <1>3, <1>4, SubSeqProperties
<1>6. Len(p) = i
  BY <1>5
<1>7. ASSUME NEW j \in 1 .. i PROVE p[j] = l[j]
  <2>1. j \in 1 .. i - 1 + 1 /\ 1 + j - 1 = j
    OBVIOUS
  <2> QED BY <1>5, <2>1
<1> QED BY <1>5, <1>6, <1>7

(* Logs that agree have the same prefix. *)
LEMMA AgreePrefix ==
    ASSUME NEW k \in Seq(Nat), NEW l \in Seq(Nat), NEW i \in Nat, Agree(k, l, i)
    PROVE  Prefix(k, i) = Prefix(l, i)
<1>1. PICK p : p = Prefix(k, i)
  OBVIOUS
<1>2. PICK q : q = Prefix(l, i)
  OBVIOUS
<1>3. i <= Len(k) /\ i <= Len(l)
  BY DEF Agree
<1>4. p \in Seq(Nat) /\ Len(p) = i /\ \A j \in 1 .. i : p[j] = k[j]
  BY <1>1, <1>3, PrefixIs
<1>5. q \in Seq(Nat) /\ Len(q) = i /\ \A j \in 1 .. i : q[j] = l[j]
  BY <1>2, <1>3, PrefixIs
<1>6. Len(p) = Len(q) /\ \A j \in 1 .. Len(p) : p[j] = q[j]
  BY <1>4, <1>5 DEF Agree
<1>7. p = q
  BY <1>4, <1>5, <1>6, SeqEqual
<1> QED BY <1>1, <1>2, <1>7

(* A log that agrees with another on all of itself is its prefix. *)
LEMMA AgreeWhole ==
    ASSUME NEW k \in Seq(Nat), NEW l \in Seq(Nat), NEW i \in Nat, i = Len(l), Agree(k, l, i)
    PROVE  Prefix(k, i) = l
<1>1. PICK p : p = Prefix(k, i)
  OBVIOUS
<1>2. i <= Len(k)
  BY DEF Agree
<1>3. p \in Seq(Nat) /\ Len(p) = i /\ \A j \in 1 .. i : p[j] = k[j]
  BY <1>1, <1>2, PrefixIs
<1>4. Len(p) = Len(l) /\ \A j \in 1 .. Len(p) : p[j] = l[j]
  BY <1>3 DEF Agree
<1>5. p = l
  BY <1>3, <1>4, SeqEqual
<1> QED BY <1>1, <1>5

(* A part of a sequence, and two put together. *)
LEMMA PartOf ==
    ASSUME NEW s \in Seq(Nat), NEW m \in Nat, m > 0, NEW n \in Nat, n <= Len(s),
           m <= n + 1, NEW t, t = SubSeq(s, m, n)
    PROVE  /\ t \in Seq(Nat) /\ Len(t) = (n + 1) - m
           /\ \A j \in 1 .. (n + 1) - m : t[j] = s[(m + j) - 1]
<1>1. \A i \in m .. n : s[i] \in Nat
  <2>1. m .. n \subseteq 1 .. Len(s)
    BY LenProperties
  <2> QED BY <2>1, ElementOfSeq
<1>2. m \in Int /\ n \in Int
  OBVIOUS
<1>3. /\ t \in Seq(Nat) /\ Len(t) = (IF m <= n THEN n - m + 1 ELSE 0)
      /\ \A i \in 1 .. n - m + 1 : t[i] = s[m + i - 1]
  BY <1>1, <1>2, SubSeqProperties
<1>4. Len(t) = (n + 1) - m
  BY <1>3
<1>5. ASSUME NEW j \in 1 .. (n + 1) - m PROVE t[j] = s[(m + j) - 1]
  <2>1. j \in 1 .. n - m + 1 /\ m + j - 1 = (m + j) - 1
    OBVIOUS
  <2> QED BY <1>3, <2>1
<1> QED BY <1>3, <1>4, <1>5

IsTail(t, s, k, d) ==
    /\ t \in Seq(Nat) /\ Len(t) = (d + 1) - k
    /\ \A j \in 1 .. (d + 1) - k : t[j] = s[(k + j) - 1]

(* SubSeq, in one predicate. *)
LEMMA PartIs ==
    ASSUME NEW s \in Seq(Nat), NEW m \in Nat, m > 0, NEW n \in Nat, n <= Len(s),
           m <= n + 1, NEW t, t = SubSeq(s, m, n)
    PROVE  IsTail(t, s, m, n)
BY PartOf DEF IsTail

(* What SubSeq cuts off the front of a log. *)
LEMMA TailOf ==
    ASSUME NEW s \in Seq(Nat), NEW d \in Nat, d = Len(s), NEW k \in Nat, k >= 1, k <= d,
           NEW t, t = SubSeq(s, k, d)
    PROVE  IsTail(t, s, k, d)
<1>1. k > 0 /\ d <= Len(s) /\ k <= d + 1
  OBVIOUS
<1>2. /\ t \in Seq(Nat) /\ Len(t) = (d + 1) - k
      /\ \A j \in 1 .. (d + 1) - k : t[j] = s[(k + j) - 1]
  BY <1>1, PartOf
<1> QED BY <1>2 DEF IsTail

(* The tail ends where the entries end. *)
LEMMA TailSum ==
    ASSUME NEW p \in Nat, NEW d \in Nat, NEW k \in Nat, NEW q \in Nat, NEW n \in Nat,
           q = (p + k) - 1, n = p + d
    PROVE  q + ((d + 1) - k) = n
OBVIOUS

(* A concatenation, entry by entry. *)
LEMMA JoinOf ==
    ASSUME NEW u \in Seq(Nat), NEW v \in Seq(Nat), NEW m, m = u \o v
    PROVE  /\ m \in Seq(Nat) /\ Len(m) = Len(u) + Len(v)
           /\ \A j \in 1 .. Len(u) + Len(v) :
                m[j] = IF j <= Len(u) THEN u[j] ELSE v[j - Len(u)]
<1>1. u \o v \in Seq(Nat) /\ Len(u \o v) = Len(u) + Len(v)
  BY ConcatProperties
<1>2. \A j \in 1 .. Len(u) + Len(v) :
         (u \o v)[j] = IF j <= Len(u) THEN u[j] ELSE v[j - Len(u)]
  BY ConcatProperties
<1> QED BY <1>1, <1>2

(* The log r agrees with g up to n, and was cut from l only where that did *)
(* not.                                                                    *)
IsMerged(l, g, n, r) ==
    /\ r \in Seq(Nat) /\ Agree(r, g, n)
    /\ r = l \/ (Len(r) = n /\ ~Agree(l, g, n))

(* The follower's loop, when the entries are those behind index p of a log *)
(* g with which the follower's agrees up to p: the follower's log agrees   *)
(* with g as far as the entries go, and was cut only where it did not.     *)
LEMMA MergeAgrees ==
    ASSUME NEW l \in Seq(Nat), NEW g \in Seq(Nat), \A j \in 1 .. Len(g) : g[j] >= 1,
           NEW p \in Nat, NEW e \in Seq(Nat), NEW n \in Nat, n = p + Len(e), n <= Len(g),
           Agree(l, g, p), \A k \in 1 .. Len(e) : e[k] = g[p + k],
           NEW r, r = Merge(l, p, e)
    PROVE  IsMerged(l, g, n, r)
<1> SUFFICES /\ r \in Seq(Nat) /\ Agree(r, g, n)
             /\ r = l \/ (Len(r) = n /\ ~Agree(l, g, n))
  BY DEF IsMerged
<1>1. PICK c \in Nat : c = Len(l) /\ DOMAIN l = 1 .. c
  BY LenProperties
<1>2. PICK d \in Nat : d = Len(e) /\ DOMAIN e = 1 .. d
  BY LenProperties
<1>3. PICK b \in Nat : b = Len(g)
  BY LenProperties
<1>4. PICK N : N = {k \in DOMAIN e : TermAt(l, p + k) # e[k]}
  OBVIOUS
<1>5. N \in SUBSET Nat /\ N \subseteq 1 .. d
  BY <1>2, <1>4
<1>6. n = p + d /\ n <= b /\ p <= c /\ p <= b /\ \A j \in 1 .. p : l[j] = g[j]
  BY <1>1, <1>2, <1>3 DEF Agree
<1>7. ASSUME NEW k \in 1 .. d
      PROVE  k \notin N <=> (p + k <= c /\ l[p + k] = g[p + k])
  <2>1. e[k] = g[p + k] /\ g[p + k] >= 1 /\ p + k \in 1 .. b
    BY <1>2, <1>3, <1>6
  <2>2. k \notin N <=> TermAt(l, p + k) = e[k]
    BY <1>2, <1>4
  <2>3. p + k \in 1 .. c <=> p + k <= c
    BY <1>6
  <2>4. CASE p + k <= c
    <3>1. TermAt(l, p + k) = l[p + k]
      BY <1>1, <2>3, <2>4 DEF TermAt
    <3> QED BY <2>1, <2>2, <2>4, <3>1
  <2>5. CASE ~(p + k <= c)
    <3>1. TermAt(l, p + k) = 0
      BY <1>1, <2>3, <2>5 DEF TermAt
    <3>2. ~(0 >= 1)
      OBVIOUS
    <3> QED BY <2>1, <2>2, <2>5, <3>1, <3>2
  <2> QED BY <2>4, <2>5
<1>8. CASE N = {}
  <2>1. r = l
    BY <1>4, <1>8 DEF Merge
  <2>2. n <= c
    <3>1. CASE d = 0
      BY <1>6, <3>1
    <3>2. CASE d # 0
      <4>1. d \in 1 .. d
        BY <3>2
      <4>2. p + d <= c
        BY <1>7, <1>8, <4>1
      <4> QED BY <1>6, <4>2
    <3> QED BY <3>1, <3>2
  <2>3. ASSUME NEW j \in 1 .. n PROVE l[j] = g[j]
    <3>1. CASE j <= p
      BY <1>6, <3>1
    <3>2. CASE ~(j <= p)
      <4>1. j - p \in 1 .. d /\ p + (j - p) = j
        BY <1>6, <3>2
      <4> QED BY <1>7, <1>8, <4>1
    <3> QED BY <3>1, <3>2
  <2>4. Agree(l, g, n)
    BY <1>1, <1>3, <1>6, <2>2, <2>3 DEF Agree
  <2> QED BY <2>1, <2>4
<1>9. CASE N # {}
  <2>0. PICK z : z = Min(N)
    OBVIOUS
  <2>00. z \in N /\ \A j \in N : z <= j
    BY <1>5, <1>9, <2>0, MinIs
  <2>1. PICK k \in Nat : k = z
    BY <1>5, <2>00
  <2>2. k \in N /\ \A j \in N : k <= j
    BY <2>00, <2>1
  <2>3. k \in Nat /\ k >= 1 /\ k <= d /\ k \in 1 .. d
    BY <1>5, <2>2
  <2>4. PICK q \in Nat : q = (p + k) - 1
    BY <2>3
  <2>5. ASSUME NEW j \in 1 .. k - 1 PROVE p + j <= c /\ l[p + j] = g[p + j]
    <3>1. j \in 1 .. d /\ ~(k <= j)
      BY <2>3
    <3> QED BY <1>7, <2>2, <3>1
  <2>6. q <= c /\ q <= n
    <3>1. CASE k = 1
      BY <1>6, <2>4, <3>1
    <3>2. CASE k # 1
      <4>1. k - 1 \in 1 .. k - 1 /\ p + (k - 1) = q
        BY <2>3, <2>4, <3>2
      <4>2. p + (k - 1) <= c
        BY <2>5, <4>1
      <4> QED BY <1>6, <2>3, <2>4, <4>1, <4>2
    <3> QED BY <3>1, <3>2
  <2>7. ASSUME NEW j \in 1 .. q PROVE l[j] = g[j]
    <3>1. CASE j <= p
      BY <1>6, <3>1
    <3>2. CASE ~(j <= p)
      <4>1. j - p \in 1 .. k - 1 /\ p + (j - p) = j
        BY <2>3, <2>4, <3>2
      <4> QED BY <2>5, <4>1
    <3> QED BY <3>1, <3>2
  <2>8. PICK u : u = SubSeq(l, 1, q)
    OBVIOUS
  <2>9. PICK v : v = SubSeq(e, k, d)
    OBVIOUS
  <2>10. u \in Seq(Nat) /\ Len(u) = q /\ \A j \in 1 .. q : u[j] = l[j]
    <3>1. /\ u \in Seq(Nat) /\ Len(u) = (q + 1) - 1
          /\ \A j \in 1 .. (q + 1) - 1 : u[j] = l[(1 + j) - 1]
      BY <1>1, <2>6, <2>8, PartOf
    <3>2. (q + 1) - 1 = q /\ \A j \in 1 .. q : (1 + j) - 1 = j
      OBVIOUS
    <3> QED BY <3>1, <3>2
  <2>11. /\ v \in Seq(Nat) /\ Len(v) = (d + 1) - k
         /\ \A j \in 1 .. (d + 1) - k : v[j] = e[(k + j) - 1]
    <3>1. IsTail(v, e, k, d)
      BY <1>2, <2>3, <2>9, TailOf
    <3> QED BY <3>1 DEF IsTail
  <2>12. r = u \o v
    <3>1. r = SubSeq(l, 1, p + k - 1) \o SubSeq(e, k, Len(e))
      BY <1>4, <1>9, <2>0, <2>1 DEF Merge
    <3>2. p + k - 1 = q
      BY <2>3, <2>4
    <3> QED BY <1>2, <2>8, <2>9, <3>1, <3>2
  <2>13. /\ r \in Seq(Nat) /\ Len(r) = Len(u) + Len(v)
         /\ \A j \in 1 .. Len(u) + Len(v) : r[j] = IF j <= Len(u) THEN u[j] ELSE v[j - Len(u)]
    <3>1. u \in Seq(Nat) /\ v \in Seq(Nat)
      BY <2>10, <2>11
    <3> QED BY <2>12, <3>1, JoinOf
  <2>14. Len(u) + Len(v) = n
    <3>1. q + ((d + 1) - k) = n
      BY <1>2, <1>6, <2>3, <2>4, TailSum
    <3> QED BY <2>10, <2>11, <3>1
  <2>15. ASSUME NEW j \in 1 .. n PROVE r[j] = g[j]
    <3>1. r[j] = IF j <= q THEN u[j] ELSE v[j - q]
      BY <2>10, <2>13, <2>14
    <3>2. CASE j <= q
      <4>1. j \in 1 .. q
        BY <3>2
      <4>2. u[j] = l[j] /\ l[j] = g[j]
        BY <2>7, <2>10, <4>1
      <4> QED BY <3>1, <3>2, <4>2
    <3>3. CASE ~(j <= q)
      <4>1. /\ j - q \in 1 .. (d + 1) - k /\ (k + (j - q)) - 1 = j - p
            /\ j - p \in 1 .. d /\ p + (j - p) = j
        BY <1>6, <2>3, <2>4, <3>3
      <4>2. v[j - q] = e[j - p]
        BY <2>11, <4>1
      <4>3. e[j - p] = g[p + (j - p)]
        BY <1>2, <4>1
      <4> QED BY <3>1, <3>3, <4>1, <4>2, <4>3
    <3> QED BY <3>2, <3>3
  <2>16. Agree(r, g, n)
    BY <1>3, <1>6, <2>13, <2>14, <2>15 DEF Agree
  <2>17. ~Agree(l, g, n)
    <3>1. p + k \in 1 .. n /\ (p + k <= n)
      BY <1>6, <2>3
    <3>2. ~(p + k <= c /\ l[p + k] = g[p + k])
      BY <1>7, <2>2, <2>3
    <3>3. ASSUME Agree(l, g, n) PROVE FALSE
      <4>1. n <= c /\ l[p + k] = g[p + k]
        BY <1>1, <3>1, <3>3 DEF Agree
      <4>2. p + k <= c
        BY <1>6, <2>3, <3>1, <4>1
      <4> QED BY <3>2, <4>1, <4>2
    <3> QED BY <3>3
  <2> QED BY <2>13, <2>14, <2>16, <2>17
<1> QED BY <1>8, <1>9

(* So nothing in which the two agreed is lost. *)
LEMMA MergeKeeps ==
    ASSUME NEW l \in Seq(Nat), NEW g \in Seq(Nat), NEW r, NEW n \in Nat, IsMerged(l, g, n, r),
           NEW i \in Nat, Agree(l, g, i)
    PROVE  Agree(r, g, i)
<1>0. r \in Seq(Nat) /\ Agree(r, g, n) /\ (r = l \/ ~Agree(l, g, n))
  BY DEF IsMerged
<1>1. CASE r = l
  BY <1>1
<1>2. CASE ~Agree(l, g, n)
  <2>1. ~(n <= i)
    BY <1>2, AgreeLess
  <2>2. i <= n
    BY <2>1
  <2> QED BY <1>0, <2>2, AgreeLess
<1> QED BY <1>0, <1>1, <1>2
-----------------------------------------------------------------------------
(* What the invariant says of a G, the elections won (E), the requests and *)
(* answers sent (R) and what was committed (C).  Somebody won term t.      *)
Elected(E, t) == \E s \in Server : <<t, s>> \in E

(* The leader of t appended entry i itself. *)
Own(G, t, i) == i \in 1 .. Len(G[t]) /\ G[t][i] = t

Says(a, q, t, i) ==
    a.type = "answer" /\ a.success /\ a.from = q /\ a.term = t /\ a.index >= i

(* q has held the first i entries of the leader of t while in its term.    *)
AckedBy(E, R, q, t, i) == <<t, q>> \in E \/ \E a \in R : Says(a, q, t, i)

(* A leader after t and before b was elected without entry i of t.         *)
Lost(E, G, t, i, b) == \E u \in Nat : t < u /\ u < b /\ Elected(E, u) /\ ~Agree(G[u], G[t], i)

(* The log L of a candidate of t has all that q had acknowledged by then.  *)
Vouched(E, R, G, q, t, L) ==
    \A u \in Nat : u < t => \A i \in Nat :
        Own(G, u, i) /\ AckedBy(E, R, q, u, i) => Agree(L, G[u], i) \/ Lost(E, G, u, i, t)

HasCommit(C, t, k) == \E c \in C : c.term = t /\ Len(c.log) = k

(* A leader in office has the log G says. *)
GLeads(G) == \A s \in Server : node[s].role = "leader" => G[node[s].term] = log[s]

(* Only who was elected has led. *)
GElected(G) == \A t \in Nat : Len(G[t]) > 0 => Elected(elected, t)

(* Every entry of every log came with all before it from its term's leader. *)
GLogs(G) ==
    \A s \in Server : \A i \in 1 .. Len(log[s]) :
        log[s][i] <= node[s].term /\ Agree(log[s], G[log[s][i]], i)

(* So did those a leader brought along; none is of a later term. *)
GTerms(G) ==
    \A t \in Nat : \A i \in 1 .. Len(G[t]) :
        1 <= G[t][i] /\ G[t][i] <= t /\ Agree(G[t], G[G[t][i]], i)

(* A request is a part of its leader's log and names a commit of that leader. *)
Served(G, m) ==
    /\ <<m.term, m.leader>> \in elected /\ m.to # m.leader
    /\ m.prevIndex + Len(m.entries) <= Len(G[m.term])
    /\ m.prevIndex >= 1 => m.prevTerm = G[m.term][m.prevIndex]
    /\ \A k \in 1 .. Len(m.entries) : m.entries[k] = G[m.term][m.prevIndex + k]
    /\ m.leaderCommit > 0 => HasCommit(committed, m.term, m.leaderCommit)

GReqs(G) == \A m \in rpcs : m.type = "append" => Served(G, m)

(* A success was true of the log when given and is while the term lasts. *)
Held(G, a) ==
    /\ a.index <= Len(G[a.term])
    /\ a.success => /\ a.term <= node[a.from].term /\ Elected(elected, a.term)
                    /\ node[a.from].term = a.term => Agree(log[a.from], G[a.term], a.index)

GAns(G) == \A a \in rpcs : a.type = "answer" => Held(G, a)

(* A winner leads its term until it leaves it. *)
GWon ==
    /\ \A e \in elected : /\ e[1] <= node[e[2]].term
                          /\ e[1] = node[e[2]].term => node[e[2]].role = "leader"
    /\ \A s \in Server : node[s].role # "follower" => node[s].term >= 1

(* The books of a leader rest on answers and stay within its log. *)
Kept(s) ==
    /\ \A p \in Server :
         /\ 1 <= books[s].next[p] /\ books[s].next[p] <= Len(log[s]) + 1
         /\ books[s].match[p] > 0 =>
              \E a \in rpcs : Says(a, p, node[s].term, books[s].match[p])
                                /\ a.index = books[s].match[p]
    /\ books[s].commit > 0 => HasCommit(committed, node[s].term, books[s].commit)

GBooks == \A s \in Server : node[s].role = "leader" => Kept(s)

Majorities == {Q \in SUBSET Server : Cardinality(Q) >= Majority}

(* What is committed is the leader's own entry, which a majority acknowledged. *)
Chose(G, c) ==
    /\ Len(c.log) >= 1 /\ Agree(c.log, G[c.term], Len(c.log)) /\ c.log[Len(c.log)] = c.term
    /\ \E Q \in Majorities : \A q \in Q : AckedBy(elected, rpcs, q, c.term, Len(c.log))

GComm(G) == \A c \in committed : Chose(G, c)

(* What was acknowledged is still held, or a later leader lacks it. *)
GHeld(G) ==
    \A q \in Server, t \in Nat, i \in Nat :
        Own(G, t, i) /\ AckedBy(elected, rpcs, q, t, i)
          => Agree(log[q], G[t], i) \/ Lost(elected, G, t, i, node[q].term + 1)

(* A candidate has what those who voted for it had acknowledged. *)
GCand(G) ==
    \A s \in Server : node[s].role = "candidate" /\ ~Elected(elected, node[s].term) =>
        \A q \in Server : <<node[s].term, q, s>> \in votes
                            => Vouched(elected, rpcs, G, q, node[s].term, log[s])

(* A winner had what a majority of the servers had acknowledged. *)
Backed(E, R, V, G, e) ==
    \E Q \in Majorities : \A q \in Q :
        <<e[1], q, e[2]>> \in V /\ Vouched(E, R, G, q, e[1], G[e[1]])

GChosen(G) == \A e \in elected : Backed(elected, rpcs, votes, G, e)

(* Requests for votes say what the candidate's log is. *)
GAsked ==
    /\ \A m \in msgs : m.type = "request-vote" =>
         /\ m.term <= node[m.candidate].term
         /\ node[m.candidate].role = "candidate" /\ node[m.candidate].term = m.term
              => m.lastIndex = LastIndex(m.candidate) /\ m.lastTerm = LastTerm(m.candidate)
    /\ \A v \in votes : v[1] <= node[v[3]].term

(* A committed prefix of a follower is one of a leader of its term or before. *)
Follows(s, c) ==
    c.term <= node[s].term /\ commitIndex[s] <= Len(c.log) /\ Agree(log[s], c.log, commitIndex[s])

GFollow == \A s \in Server : commitIndex[s] > 0 => \E c \in committed : Follows(s, c)

(* What is committed is in the log of every later leader.                  *)
GLC(G) ==
    \A c \in committed, t \in Nat :
        c.term <= t /\ Elected(elected, t) => Agree(G[t], c.log, Len(c.log))

Typed == TypeOK /\ ReplicationTypeOK

VotesInv == VoteInv /\ LeaderInv

GInv(G) ==
    /\ GLeads(G) /\ GElected(G) /\ GLogs(G) /\ GTerms(G) /\ GReqs(G) /\ GAns(G)
    /\ GWon /\ GBooks /\ GComm(G) /\ GHeld(G) /\ GCand(G) /\ GChosen(G)
    /\ GAsked /\ GFollow

RaftInv ==
    /\ Typed /\ VotesInv
    /\ \E G \in [Nat -> Seq(Nat)] : GInv(G)
-----------------------------------------------------------------------------
(* The types, opened once. *)
LEMMA NodeIs ==
    ASSUME Typed, NEW s \in Server
    PROVE  /\ node[s] \in Election /\ node[s].term \in Nat /\ node[s].role \in Role
           /\ log[s] \in Seq(Nat) /\ Len(log[s]) \in Nat
           /\ commitIndex[s] \in Nat /\ books[s] \in Books
BY LenProperties DEF Typed, TypeOK, ReplicationTypeOK, Election

(* A term is a number. *)
LEMMA TermIs == ASSUME Typed, NEW s \in Server PROVE node[s].term \in Nat
BY DEF Typed, TypeOK, Election

(* A leader's books. *)
LEMMA BooksAre ==
    ASSUME NEW b \in Books
    PROVE  /\ b.commit \in Nat /\ b.match \in [Server -> Nat] /\ b.next \in [Server -> Nat]
BY DEF Books

(* An AppendEntries request. *)
LEMMA RequestIs ==
    ASSUME Typed, NEW m \in rpcs, m.type = "append"
    PROVE  /\ m.term \in Nat /\ m.leader \in Server /\ m.to \in Server /\ m.prevIndex \in Nat
           /\ m.prevTerm \in Nat /\ m.leaderCommit \in Nat /\ m.entries \in Seq(Nat)
           /\ Len(m.entries) \in Nat
<1>1. m \in Request
  BY DEF Typed, ReplicationTypeOK, Request, Answer
<1> QED BY <1>1, LenProperties DEF Request

(* An answer to one. *)
LEMMA AnswerIs ==
    ASSUME Typed, NEW m \in rpcs, m.type = "answer"
    PROVE  /\ m.term \in Nat /\ m.from \in Server /\ m.to \in Server /\ m.success \in BOOLEAN
           /\ m.index \in Nat
<1>1. m \in Answer
  BY DEF Typed, ReplicationTypeOK, Request, Answer
<1> QED BY <1>1 DEF Answer

(* A record of what was committed. *)
LEMMA CommittedIs ==
    ASSUME Typed, NEW c \in committed
    PROVE  c.term \in Nat /\ c.log \in Seq(Nat) /\ Len(c.log) \in Nat
BY LenProperties DEF Typed, ReplicationTypeOK

(* The log of a term's leader. *)
LEMMA GhostIs ==
    ASSUME NEW G \in [Nat -> Seq(Nat)], NEW t \in Nat
    PROVE  G[t] \in Seq(Nat) /\ Len(G[t]) \in Nat /\ \A i \in 1 .. Len(G[t]) : G[t][i] \in Nat
<1>1. G[t] \in Seq(Nat)
  OBVIOUS
<1> QED BY <1>1, LenProperties, ElementOfSeq

(* A server's log. *)
LEMMA LogIs ==
    ASSUME Typed, NEW s \in Server
    PROVE  /\ log[s] \in Seq(Nat) /\ Len(log[s]) \in Nat
           /\ \A i \in 1 .. Len(log[s]) : log[s][i] \in Nat
<1>1. log[s] \in Seq(Nat)
  BY DEF Typed, TypeOK
<1> QED BY <1>1, LenProperties, ElementOfSeq
-----------------------------------------------------------------------------
(* The entry at i is of its term, and what comes later is not older.       *)
LEMMA Sorted ==
    ASSUME NEW G \in [Nat -> Seq(Nat)], GTerms(G), NEW t \in Nat, NEW j \in Nat, NEW i \in Nat,
           1 <= j, j <= i, i <= Len(G[t])
    PROVE  G[t][j] <= G[t][i]
<1>1. j \in 1 .. i /\ i \in 1 .. Len(G[t])
  BY GhostIs
<1>2. PICK v \in Nat : v = G[t][i]
  BY <1>1, GhostIs
<1>3. Agree(G[t], G[v], i)
  BY <1>1, <1>2 DEF GTerms
<1>4. G[t][j] = G[v][j] /\ j \in 1 .. Len(G[v])
  <2>1. G[t][j] = G[v][j]
    BY <1>1, <1>3 DEF Agree
  <2>2. PICK d \in Nat : d = Len(G[v])
    BY GhostIs
  <2>3. i <= d
    BY <1>3, <2>2 DEF Agree
  <2>4. j \in 1 .. d
    BY <1>1, <2>3
  <2> QED BY <2>1, <2>2, <2>4
<1>5. G[v][j] <= v
  BY <1>4 DEF GTerms
<1> QED BY <1>2, <1>4, <1>5

(* What was committed is in the log of every later leader: the first one   *)
(* to lack it was chosen by a majority, which shares a server with those   *)
(* who acknowledged it.                                                    *)
LEMMA Complete ==
    ASSUME Typed, NEW G \in [Nat -> Seq(Nat)], GComm(G), GChosen(G)
    PROVE  GLC(G)
<1> SUFFICES ASSUME NEW c \in committed, NEW t0 \in Nat, c.term <= t0, Elected(elected, t0)
             PROVE  Agree(G[t0], c.log, Len(c.log))
  BY DEF GLC
<1>1. PICK k \in Nat, i \in Nat, L \in Seq(Nat) : k = c.term /\ i = Len(c.log) /\ L = c.log
  BY CommittedIs
<1>2. i >= 1 /\ Agree(L, G[k], i) /\ L[i] = k
  BY <1>1 DEF GComm, Chose
<1>3. Own(G, k, i)
  <2>1. PICK d \in Nat : d = Len(G[k])
    BY GhostIs
  <2>2. i \in 1 .. i
    BY <1>2
  <2>3. L[i] = G[k][i] /\ i <= d
    BY <1>2, <2>1, <2>2 DEF Agree
  <2>4. i \in 1 .. d
    BY <2>2, <2>3
  <2> QED BY <1>2, <2>1, <2>3, <2>4 DEF Own
<1>4. PICK P \in Majorities : \A q \in P : AckedBy(elected, rpcs, q, k, i)
  BY <1>1 DEF GComm, Chose
<1> DEFINE Bad == {t \in Nat : k <= t /\ Elected(elected, t) /\ ~Agree(G[t], L, i)}
<1>5. ASSUME NEW t \in Bad, \A u \in Bad : t <= u PROVE FALSE
  <2>1. t \in Nat /\ k <= t /\ Elected(elected, t) /\ ~Agree(G[t], L, i)
    OBVIOUS
  <2>2. k < t
    <3>1. Agree(G[k], L, i)
      BY <1>2, AgreeBack
    <3> QED BY <2>1, <3>1
  <2>3. PICK x \in Server : <<t, x>> \in elected
    BY <2>1 DEF Elected
  <2>4. PICK Q \in Majorities : \A q \in Q : Vouched(elected, rpcs, G, q, t, G[t])
    <3>1. \E Q \in Majorities : \A q \in Q : <<<<t, x>>[1], q, <<t, x>>[2]>> \in votes
                                               /\ Vouched(elected, rpcs, G, q, <<t, x>>[1], G[<<t, x>>[1]])
      BY <2>3 DEF GChosen, Backed
    <3>2. <<t, x>>[1] = t
      OBVIOUS
    <3> QED BY <3>1, <3>2
  <2>5. PICK q \in P \cap Q : TRUE
    BY <1>4, <2>4, MajoritiesMeet DEF Majorities
  <2>6. Agree(G[t], G[k], i) \/ Lost(elected, G, k, i, t)
    BY <1>3, <1>4, <2>1, <2>2, <2>4, <2>5 DEF Vouched
  <2>7. ~Agree(G[t], G[k], i)
    <3>1. Agree(G[k], L, i)
      BY <1>2, AgreeBack
    <3> QED BY <2>1, <3>1, AgreeOn
  <2>8. PICK u \in Nat : k < u /\ u < t /\ Elected(elected, u) /\ ~Agree(G[u], G[k], i)
    BY <2>6, <2>7 DEF Lost
  <2>9. ~Agree(G[u], L, i)
    <3>1. ASSUME Agree(G[u], L, i) PROVE FALSE
      BY <1>2, <2>8, <3>1, AgreeOn
    <3> QED BY <3>1
  <2>10. u \in Bad
    BY <2>8, <2>9
  <2>11. t <= u
    BY <1>5, <2>10
  <2> QED BY <2>1, <2>8, <2>11
<1>6. Bad \in SUBSET Nat
  OBVIOUS
<1>7. t0 \in Bad \/ Agree(G[t0], L, i)
  BY <1>1
<1> HIDE DEF Bad
<1>8. Bad = {}
  BY <1>5, <1>6, NatMin
<1> QED BY <1>1, <1>7, <1>8
-----------------------------------------------------------------------------
(* The four properties follow from the invariant. *)
LEMMA Matching == Typed /\ (\E G \in [Nat -> Seq(Nat)] : GInv(G)) => LogMatching
<1> SUFFICES ASSUME Typed, NEW G \in [Nat -> Seq(Nat)], GInv(G), NEW s \in Server, NEW u \in Server,
                    NEW i \in DOMAIN log[s] \cap DOMAIN log[u], log[s][i] = log[u][i]
             PROVE  Prefix(log[s], i) = Prefix(log[u], i)
  BY DEF LogMatching
<1>1. log[s] \in Seq(Nat) /\ log[u] \in Seq(Nat)
  BY NodeIs
<1>2. i \in 1 .. Len(log[s]) /\ i \in 1 .. Len(log[u]) /\ i \in Nat
  <2>1. DOMAIN log[s] = 1 .. Len(log[s]) /\ DOMAIN log[u] = 1 .. Len(log[u])
    BY <1>1, LenProperties
  <2>2. i \in DOMAIN log[s] /\ i \in DOMAIN log[u]
    OBVIOUS
  <2>3. i \in 1 .. Len(log[s]) /\ i \in 1 .. Len(log[u])
    BY <2>1, <2>2
  <2> QED BY <2>3
<1>3. PICK v : v = log[s][i]
  OBVIOUS
<1>4. Agree(log[s], G[v], i) /\ Agree(log[u], G[v], i)
  BY <1>2, <1>3 DEF GInv, GLogs
<1>5. Agree(log[s], log[u], i)
  BY <1>4, AgreeBack, AgreeOn
<1> QED BY <1>1, <1>2, <1>5, AgreePrefix

(* A leader has what was committed in its term or an earlier one. *)
LEMMA Completeness ==
    Typed /\ VotesInv /\ (\E G \in [Nat -> Seq(Nat)] : GInv(G)) => LeaderCompleteness
<1> SUFFICES ASSUME Typed, VotesInv, NEW G \in [Nat -> Seq(Nat)], GInv(G), NEW c \in committed,
                    NEW s \in Server, node[s].role = "leader", node[s].term >= c.term
             PROVE  Prefix(log[s], Len(c.log)) = c.log
  BY DEF LeaderCompleteness
<1>1. GLC(G)
  BY Complete DEF GInv
<1>2. node[s].term \in Nat /\ log[s] \in Seq(Nat)
  BY NodeIs
<1>3. c.term \in Nat /\ c.log \in Seq(Nat) /\ Len(c.log) \in Nat
  BY CommittedIs
<1>4. Elected(elected, node[s].term)
  BY DEF Elected, VotesInv, LeaderInv
<1>5. Agree(G[node[s].term], c.log, Len(c.log))
  BY <1>1, <1>2, <1>3, <1>4 DEF GLC
<1>6. G[node[s].term] = log[s]
  BY DEF GInv, GLeads
<1> QED BY <1>2, <1>3, <1>5, <1>6, AgreeWhole

(* Committed prefixes are prefixes of one another, and of what leaders committed. *)
LEMMA Agreement == Typed /\ (\E G \in [Nat -> Seq(Nat)] : GInv(G)) => CommittedAgree
<1> SUFFICES ASSUME Typed, NEW G \in [Nat -> Seq(Nat)], GInv(G) PROVE CommittedAgree
  OBVIOUS
<1>1. GLC(G) /\ GComm(G) /\ GFollow
  BY Complete DEF GInv
<1>2. ASSUME NEW c \in committed, NEW d \in committed, Len(c.log) <= Len(d.log)
      PROVE  Prefix(d.log, Len(c.log)) = c.log
  <2>1. /\ c.term \in Nat /\ c.log \in Seq(Nat) /\ Len(c.log) \in Nat
        /\ d.term \in Nat /\ d.log \in Seq(Nat) /\ Len(d.log) \in Nat
    BY CommittedIs
  <2>2. /\ Agree(c.log, G[c.term], Len(c.log)) /\ Agree(d.log, G[d.term], Len(d.log))
        /\ Elected(elected, c.term) /\ Elected(elected, d.term)
    <3>1. ASSUME NEW x \in committed
          PROVE  Agree(x.log, G[x.term], Len(x.log)) /\ Elected(elected, x.term)
      <4>1. /\ Len(x.log) >= 1 /\ Agree(x.log, G[x.term], Len(x.log))
            /\ x.term \in Nat /\ Len(x.log) \in Nat /\ Len(G[x.term]) \in Nat
        BY <1>1, CommittedIs, GhostIs DEF GComm, Chose
      <4>2. Len(G[x.term]) > 0
        BY <4>1 DEF Agree
      <4> QED BY <4>1, <4>2 DEF GInv, GElected
    <3> QED BY <3>1
  <2>3. G[c.term] \in Seq(Nat) /\ G[d.term] \in Seq(Nat)
    BY <2>1
  <2>4. Agree(d.log, c.log, Len(c.log))
    <3>1. CASE c.term <= d.term
      <4>1. Agree(G[d.term], c.log, Len(c.log))
        BY <1>1, <2>1, <2>2, <3>1 DEF GLC
      <4>2. Agree(d.log, G[d.term], Len(c.log))
        BY <1>2, <2>1, <2>2, <2>3, AgreeLess
      <4> QED BY <4>1, <4>2, AgreeOn
    <3>2. CASE d.term <= c.term
      <4>1. Agree(G[c.term], d.log, Len(d.log))
        BY <1>1, <2>1, <2>2, <3>2 DEF GLC
      <4>2. Agree(G[c.term], d.log, Len(c.log))
        BY <1>2, <2>1, <2>3, <4>1, AgreeLess
      <4> QED BY <2>2, <4>2, AgreeOn, AgreeBack
    <3>3. c.term <= d.term \/ d.term <= c.term
      BY <2>1, Ordered, Zenon
    <3> QED BY <3>1, <3>2, <3>3
  <2> QED BY <2>1, <2>4, AgreeWhole
<1>3. ASSUME NEW s \in Server, commitIndex[s] > 0
      PROVE  /\ commitIndex[s] <= Len(log[s])
             /\ \E c \in committed : Prefix(c.log, commitIndex[s]) = Prefix(log[s], commitIndex[s])
  <2>1. PICK c \in committed : Follows(s, c)
    BY <1>1, <1>3 DEF GFollow
  <2>2. Agree(log[s], c.log, commitIndex[s])
    BY <2>1 DEF Follows
  <2>3. log[s] \in Seq(Nat) /\ c.log \in Seq(Nat) /\ commitIndex[s] \in Nat
    BY NodeIs, CommittedIs
  <2>4. Prefix(log[s], commitIndex[s]) = Prefix(c.log, commitIndex[s])
    BY <2>2, <2>3, AgreePrefix
  <2>5. commitIndex[s] <= Len(log[s])
    BY <2>2 DEF Agree
  <2> QED BY <2>4, <2>5
<1> QED BY <1>2, <1>3 DEF CommittedAgree

(* An answer of this term is still true of the log of who gave it. *)
LEMMA HeldMatch == Typed /\ (\E G \in [Nat -> Seq(Nat)] : GInv(G)) => MatchIsHeld
<1> SUFFICES ASSUME Typed, NEW G \in [Nat -> Seq(Nat)], GInv(G), NEW s \in Server, NEW p \in Server,
                    node[s].role = "leader", node[p].term = node[s].term
             PROVE  Prefix(log[p], books[s].match[p]) = Prefix(log[s], books[s].match[p])
  BY DEF MatchIsHeld
<1>1. /\ log[s] \in Seq(Nat) /\ Len(log[s]) \in Nat /\ log[p] \in Seq(Nat) /\ Len(log[p]) \in Nat
      /\ books[s] \in Books
  BY NodeIs
<1>2. PICK k \in Nat : k = books[s].match[p]
  BY <1>1, BooksAre
<1>3. Agree(log[p], log[s], k)
  <2>1. CASE k = 0
    BY <1>1, <2>1 DEF Agree
  <2>2. CASE k > 0
    <3>1. PICK a \in rpcs : Says(a, p, node[s].term, k) /\ a.index = k
      BY <1>2, <2>2 DEF GInv, GBooks, Kept
    <3>2. Held(G, a)
      BY <3>1 DEF GInv, GAns, Says
    <3>3. Agree(log[p], G[node[s].term], k)
      BY <3>1, <3>2 DEF Held, Says
    <3> QED BY <3>3 DEF GInv, GLeads
  <2> QED BY <2>1, <2>2
<1> QED BY <1>1, <1>2, <1>3, AgreePrefix
-----------------------------------------------------------------------------
(* How a step changes G: logs of leaders grow, those of leaders in office  *)
(* by entries of their own term.                                           *)
Longer(k, l) == Agree(l, k, Len(k))

Extends(E, G, H) ==
    \A u \in Nat :
        /\ Longer(G[u], H[u])
        /\ Elected(E, u) => \A i \in Nat : Len(G[u]) < i /\ i <= Len(H[u]) => H[u][i] = u

(* A log may stay as it is. *)
LEMMA LongerSame == ASSUME NEW k \in Seq(Nat) PROVE Longer(k, k)
BY LenProperties DEF Longer, Agree

(* Logs that grow still agree where they did. *)
LEMMA AgreeLonger ==
    ASSUME NEW k \in Seq(Nat), NEW l \in Seq(Nat), NEW k2 \in Seq(Nat), NEW l2 \in Seq(Nat),
           NEW i \in Nat, Agree(k, l, i), Longer(k, k2), Longer(l, l2)
    PROVE  Agree(k2, l2, i)
<1>1. /\ Len(k) \in Nat /\ Len(l) \in Nat
  BY LenProperties
<1>2. i <= Len(k) /\ i <= Len(l)
  BY DEF Agree
<1>3. Agree(k2, k, i)
  BY <1>1, <1>2, AgreeLess DEF Longer
<1>4. Agree(l2, l, i)
  BY <1>1, <1>2, AgreeLess DEF Longer
<1>5. Agree(k2, l, i)
  BY <1>3, AgreeOn
<1>6. Agree(l, l2, i)
  BY <1>4, AgreeBack
<1> QED BY <1>5, <1>6, AgreeOn

(* A log still agrees with a leader's that grows. *)
LEMMA AgreeGrown ==
    ASSUME NEW G \in [Nat -> Seq(Nat)], NEW H \in [Nat -> Seq(Nat)], NEW E, Extends(E, G, H),
           NEW u \in Nat, NEW i \in Nat, NEW k \in Seq(Nat), Agree(k, G[u], i)
    PROVE  Agree(k, H[u], i)
<1>1. G[u] \in Seq(Nat) /\ H[u] \in Seq(Nat)
  OBVIOUS
<1>2. Longer(G[u], H[u])
  BY DEF Extends
<1> QED BY <1>1, <1>2, LongerSame, AgreeLonger

(* No leader needs to append. *)
LEMMA ExtendsSame == ASSUME NEW G \in [Nat -> Seq(Nat)], NEW E PROVE Extends(E, G, G)
<1> SUFFICES ASSUME NEW u \in Nat
             PROVE  /\ Longer(G[u], G[u])
                    /\ \A i \in Nat : ~(Len(G[u]) < i /\ i <= Len(G[u]))
  BY DEF Extends
<1>1. G[u] \in Seq(Nat) /\ Len(G[u]) \in Nat
  BY GhostIs
<1> QED BY <1>1, LongerSame

(* A leader's own entry stays one. *)
LEMMA OwnStays ==
    ASSUME NEW G \in [Nat -> Seq(Nat)], NEW H \in [Nat -> Seq(Nat)], NEW E, Extends(E, G, H),
           NEW t \in Nat, NEW i \in Nat, Own(G, t, i)
    PROVE  Own(H, t, i)
<1>1. G[t] \in Seq(Nat) /\ H[t] \in Seq(Nat) /\ Len(G[t]) \in Nat
  BY GhostIs
<1>2. 1 <= i /\ i <= Len(G[t]) /\ G[t][i] = t
  BY <1>1 DEF Own
<1>3. Agree(H[t], G[t], Len(G[t]))
  BY DEF Extends, Longer
<1>4. H[t][i] = G[t][i] /\ i \in 1 .. Len(H[t])
  BY <1>1, <1>2, <1>3, AgreeAt
<1> QED BY <1>2, <1>4 DEF Own

(* An entry a later leader lacks stays lost: what that leader appends is   *)
(* of its own term.                                                        *)
LEMMA LostStays ==
    ASSUME NEW G \in [Nat -> Seq(Nat)], NEW H \in [Nat -> Seq(Nat)], NEW E, NEW F, E \subseteq F,
           Extends(E, G, H), NEW t \in Nat, NEW i \in Nat, NEW b \in Nat, NEW d \in Nat, b <= d,
           Own(G, t, i), Lost(E, G, t, i, b)
    PROVE  Lost(F, H, t, i, d)
<1>1. PICK u \in Nat : t < u /\ u < b /\ Elected(E, u) /\ ~Agree(G[u], G[t], i)
  BY DEF Lost
<1>2. u < d /\ Elected(F, u)
  <2>1. u < d
    BY <1>1
  <2>2. Elected(F, u)
    BY <1>1 DEF Elected
  <2> QED BY <2>1, <2>2
<1>3. /\ G[u] \in Seq(Nat) /\ H[u] \in Seq(Nat) /\ Len(G[u]) \in Nat /\ Len(H[u]) \in Nat
      /\ G[t] \in Seq(Nat) /\ H[t] \in Seq(Nat) /\ Len(G[t]) \in Nat
  BY GhostIs
<1>4. 1 <= i /\ i <= Len(G[t]) /\ G[t][i] = t
  BY <1>3 DEF Own
<1>5. Agree(H[t], G[t], Len(G[t])) /\ Agree(H[u], G[u], Len(G[u]))
  BY DEF Extends, Longer
<1>6. Agree(H[t], G[t], i)
  BY <1>3, <1>4, <1>5, AgreeLess
<1>7. ASSUME Agree(H[u], H[t], i) PROVE FALSE
  <2>1. Agree(H[u], G[t], i)
    BY <1>6, <1>7, AgreeOn
  <2>2. CASE i <= Len(G[u])
    <3>1. Agree(G[u], H[u], i)
      BY <1>3, <1>5, <2>2, AgreeLess, AgreeBack
    <3> QED BY <1>1, <2>1, <3>1, AgreeOn
  <2>3. CASE Len(G[u]) < i
    <3>1. i <= Len(H[u])
      BY <1>7 DEF Agree
    <3>2. H[u][i] = u
      BY <1>1, <2>3, <3>1 DEF Extends
    <3>3. i \in 1 .. i
      BY <1>4
    <3>4. H[u][i] = G[t][i]
      BY <2>1, <3>3 DEF Agree
    <3> QED BY <1>1, <1>4, <3>2, <3>4
  <2> QED BY <1>3, <2>2, <2>3
<1> QED BY <1>1, <1>2, <1>7 DEF Lost

(* Nothing q acknowledges of a term before t is new. *)
Settled(E, R, G, F, S, H, q, t) ==
    \A u \in Nat, i \in Nat :
        u < t /\ Own(H, u, i) /\ AckedBy(F, S, q, u, i) => Own(G, u, i) /\ AckedBy(E, R, q, u, i)

(* What a candidate has of what a voter acknowledged, it keeps. *)
LEMMA VouchedStays ==
    ASSUME NEW G \in [Nat -> Seq(Nat)], NEW H \in [Nat -> Seq(Nat)], NEW E, NEW F, NEW R, NEW S,
           E \subseteq F, Extends(E, G, H), NEW q, NEW t \in Nat,
           Settled(E, R, G, F, S, H, q, t),
           NEW k \in Seq(Nat), NEW l \in Seq(Nat), Longer(k, l), Vouched(E, R, G, q, t, k)
    PROVE  Vouched(F, S, H, q, t, l)
<1> SUFFICES ASSUME NEW u \in Nat, u < t, NEW i \in Nat, Own(H, u, i), AckedBy(F, S, q, u, i)
             PROVE  Agree(l, H[u], i) \/ Lost(F, H, u, i, t)
  BY DEF Vouched
<1>1. Own(G, u, i) /\ AckedBy(E, R, q, u, i)
  BY DEF Settled
<1>2. Agree(k, G[u], i) \/ Lost(E, G, u, i, t)
  BY <1>1 DEF Vouched
<1>3. CASE Agree(k, G[u], i)
  <2>1. G[u] \in Seq(Nat) /\ H[u] \in Seq(Nat) /\ Longer(G[u], H[u])
    BY DEF Extends
  <2> QED BY <1>3, <2>1, AgreeLonger
<1>4. CASE Lost(E, G, u, i, t)
  <2>1. t <= t
    OBVIOUS
  <2> QED BY <1>1, <1>4, <2>1, LostStays
<1> QED BY <1>2, <1>3, <1>4
-----------------------------------------------------------------------------
(* What every step does: nothing written is taken back, terms never fall,  *)
(* and what is newly acknowledged is of the server's term or a later one   *)
(* and is in its log.                                                      *)
Grown ==
    /\ elected \subseteq elected' /\ votes \subseteq votes' /\ rpcs \subseteq rpcs'
    /\ committed \subseteq committed'
    /\ \A r \in Server : node[r].term <= node'[r].term

NewAcks(G, H) ==
    \A q \in Server, u \in Nat, i \in Nat :
        Own(H, u, i) /\ AckedBy(elected', rpcs', q, u, i) =>
            \/ Own(G, u, i) /\ AckedBy(elected, rpcs, q, u, i)
            \/ node[q].term <= u /\ Agree(log'[q], H[u], i)

StepOf(G, H) == Grown /\ Extends(elected, G, H) /\ NewAcks(G, H)

LogsMove(G, H) ==
    \A q \in Server, u \in Nat, i \in Nat :
        Own(G, u, i) /\ AckedBy(elected, rpcs, q, u, i) /\ Agree(log[q], G[u], i) =>
            Agree(log'[q], H[u], i) \/ Lost(elected', H, u, i, node'[q].term + 1)

LogsGrow == \A r \in Server : Longer(log[r], log'[r])

(* Acknowledgements of terms before the present one are settled. *)
LEMMA SettledAt ==
    ASSUME Typed, NEW G, NEW H, NewAcks(G, H), NEW q \in Server, NEW t \in Nat, t <= node[q].term
    PROVE  Settled(elected, rpcs, G, elected', rpcs', H, q, t)
<1> SUFFICES ASSUME NEW u \in Nat, NEW i \in Nat, u < t, Own(H, u, i),
                    AckedBy(elected', rpcs', q, u, i)
             PROVE  Own(G, u, i) /\ AckedBy(elected, rpcs, q, u, i)
  BY DEF Settled
<1>1. node[q].term \in Nat
  BY NodeIs
<1>2. ~(node[q].term <= u)
  BY <1>1
<1> QED BY <1>2 DEF NewAcks

(* Logs that only grow lose nothing. *)
LEMMA LogsMoveOn ==
    ASSUME Typed, Typed', NEW G \in [Nat -> Seq(Nat)], NEW H \in [Nat -> Seq(Nat)],
           StepOf(G, H), LogsGrow
    PROVE  LogsMove(G, H)
<1> SUFFICES ASSUME NEW q \in Server, NEW u \in Nat, NEW i \in Nat, Agree(log[q], G[u], i)
             PROVE  Agree(log'[q], H[u], i)
  BY DEF LogsMove
<1>1. log[q] \in Seq(Nat) /\ log'[q] \in Seq(Nat) /\ G[u] \in Seq(Nat) /\ H[u] \in Seq(Nat)
  BY DEF Typed, TypeOK
<1>2. Longer(log[q], log'[q]) /\ Longer(G[u], H[u])
  BY DEF StepOf, Extends, LogsGrow
<1> QED BY <1>1, <1>2, AgreeLonger

(* A step keeps what was acknowledged, or a later leader lacks it. *)
LEMMA HeldStep ==
    ASSUME Typed, Typed', NEW G \in [Nat -> Seq(Nat)], NEW H \in [Nat -> Seq(Nat)],
           StepOf(G, H), LogsMove(G, H), GHeld(G)
    PROVE  GHeld(H)'
<1> SUFFICES ASSUME NEW q \in Server, NEW t \in Nat, NEW i \in Nat, Own(H, t, i),
                    AckedBy(elected', rpcs', q, t, i)
             PROVE  Agree(log'[q], H[t], i) \/ Lost(elected', H, t, i, node'[q].term + 1)
  BY DEF GHeld
<1>1. CASE node[q].term <= t /\ Agree(log'[q], H[t], i)
  BY <1>1
<1>2. CASE Own(G, t, i) /\ AckedBy(elected, rpcs, q, t, i)
  <2>1. Agree(log[q], G[t], i) \/ Lost(elected, G, t, i, node[q].term + 1)
    BY <1>2 DEF GHeld
  <2>2. CASE Agree(log[q], G[t], i)
    BY <1>2, <2>2 DEF LogsMove
  <2>3. CASE Lost(elected, G, t, i, node[q].term + 1)
    <3>1. PICK b \in Nat, d \in Nat : b = node[q].term /\ d = node'[q].term
      BY DEF Typed, TypeOK, Election
    <3>2. b <= d
      BY <3>1 DEF StepOf, Grown
    <3>3. b + 1 \in Nat /\ d + 1 \in Nat /\ b + 1 <= d + 1
      BY <3>2
    <3>4. elected \subseteq elected' /\ Extends(elected, G, H)
      BY DEF StepOf, Grown
    <3>5. Lost(elected, G, t, i, b + 1)
      BY <2>3, <3>1
    <3>6. Lost(elected', H, t, i, d + 1)
      BY <1>2, <3>3, <3>4, <3>5, LostStays
    <3> QED BY <3>1, <3>6
  <2> QED BY <2>1, <2>2, <2>3
<1> QED BY <1>1, <1>2 DEF StepOf, NewAcks

(* Who voted in a term has reached it. *)
LEMMA VoterReached ==
    ASSUME Typed, VotesInv, NEW t \in Nat, NEW q \in Server, NEW c, <<t, q, c>> \in votes
    PROVE  t <= node[q].term
<1>1. \A v \in votes : v[1] <= node[v[2]].term
  BY DEF VotesInv, VoteInv, VoteRecorded
<1>2. <<t, q, c>>[1] = t /\ <<t, q, c>>[2] = q
  OBVIOUS
<1> QED BY <1>1, <1>2

(* A step leaves a vote as good as it was. *)
LEMMA VouchedOn ==
    ASSUME Typed, VotesInv, NEW G \in [Nat -> Seq(Nat)], NEW H \in [Nat -> Seq(Nat)],
           StepOf(G, H), NEW q \in Server, NEW t \in Nat, NEW c, <<t, q, c>> \in votes,
           NEW k \in Seq(Nat), NEW l \in Seq(Nat), Longer(k, l),
           Vouched(elected, rpcs, G, q, t, k)
    PROVE  Vouched(elected', rpcs', H, q, t, l)
<1>1. t <= node[q].term
  BY VoterReached
<1>2. elected \subseteq elected' /\ Extends(elected, G, H) /\ NewAcks(G, H)
  BY DEF StepOf, Grown
<1>3. Settled(elected, rpcs, G, elected', rpcs', H, q, t)
  BY <1>1, <1>2, SettledAt
<1> QED BY <1>2, <1>3, VouchedStays

(* A step leaves a winner's majority as good as it was. *)
LEMMA BackedOn ==
    ASSUME Typed, VotesInv, NEW G \in [Nat -> Seq(Nat)], NEW H \in [Nat -> Seq(Nat)],
           StepOf(G, H), NEW e \in elected, Backed(elected, rpcs, votes, G, e)
    PROVE  Backed(elected', rpcs', votes', H, e)
<1>1. PICK Q \in Majorities : \A q \in Q :
         <<e[1], q, e[2]>> \in votes /\ Vouched(elected, rpcs, G, q, e[1], G[e[1]])
  BY DEF Backed
<1>2. PICK t \in Nat : t = e[1]
  BY DEF Typed, TypeOK
<1>3. votes \subseteq votes'
  BY DEF StepOf, Grown
<1>4. G[t] \in Seq(Nat) /\ H[t] \in Seq(Nat) /\ Longer(G[t], H[t])
  BY DEF StepOf, Extends
<1>5. ASSUME NEW q \in Q
      PROVE  <<e[1], q, e[2]>> \in votes' /\ Vouched(elected', rpcs', H, q, e[1], H[e[1]])
  <2>1. q \in Server
    BY DEF Majorities
  <2>2. <<t, q, e[2]>> \in votes /\ Vouched(elected, rpcs, G, q, t, G[t])
    BY <1>1, <1>2
  <2>3. Vouched(elected', rpcs', H, q, t, H[t])
    BY <1>4, <2>1, <2>2, VouchedOn
  <2> QED BY <1>2, <1>3, <2>2, <2>3
<1> QED BY <1>5 DEF Backed

(* A candidate that stays one keeps the voters it has. *)
LEMMA CandOn ==
    ASSUME Typed, VotesInv, NEW G \in [Nat -> Seq(Nat)], NEW H \in [Nat -> Seq(Nat)],
           StepOf(G, H), GCand(G), NEW r \in Server, node[r].role = "candidate",
           node'[r].term = node[r].term, log'[r] = log[r], ~Elected(elected', node'[r].term),
           NEW q \in Server, <<node[r].term, q, r>> \in votes
    PROVE  Vouched(elected', rpcs', H, q, node'[r].term, log'[r])
<1>1. PICK t \in Nat, l \in Seq(Nat) : t = node[r].term /\ l = log[r]
  BY NodeIs
<1>2. ~Elected(elected, t)
  BY <1>1 DEF Elected, StepOf, Grown
<1>3. Vouched(elected, rpcs, G, q, t, l)
  BY <1>1, <1>2 DEF GCand
<1>4. Vouched(elected', rpcs', H, q, t, l)
  BY <1>1, <1>3, LongerSame, VouchedOn
<1> QED BY <1>1, <1>4
-----------------------------------------------------------------------------
(* What each part of the invariant says of what was there before a step.   *)
LEMMA LogsOn ==
    ASSUME Typed, Typed', NEW G \in [Nat -> Seq(Nat)], NEW H \in [Nat -> Seq(Nat)],
           StepOf(G, H), GLogs(G), NEW r \in Server, Longer(log[r], log'[r]),
           NEW i \in 1 .. Len(log[r])
    PROVE  log'[r][i] <= node'[r].term /\ Agree(log'[r], H[log'[r][i]], i)
<1>1. /\ log[r] \in Seq(Nat) /\ log'[r] \in Seq(Nat) /\ Len(log[r]) \in Nat
      /\ node[r].term \in Nat /\ node'[r].term \in Nat
  BY LenProperties DEF Typed, TypeOK, Election
<1>2. PICK v \in Nat : v = log[r][i]
  BY LogIs
<1>3. log'[r][i] = v
  <2>1. log'[r][i] = log[r][i]
    BY DEF Longer, Agree
  <2> QED BY <1>2, <2>1
<1>4. v <= node[r].term /\ Agree(log[r], G[v], i)
  BY <1>2 DEF GLogs
<1>5. v <= node'[r].term
  <2>1. node[r].term <= node'[r].term
    BY DEF StepOf, Grown
  <2> QED BY <1>1, <1>4, <2>1, Between, Zenon
<1>6. Agree(log'[r], H[v], i)
  <2>1. G[v] \in Seq(Nat) /\ H[v] \in Seq(Nat)
    BY GhostIs
  <2>2. Longer(G[v], H[v])
    BY DEF StepOf, Extends
  <2>3. i \in Nat
    BY <1>1
  <2> QED BY <1>1, <1>4, <2>1, <2>2, <2>3, AgreeLonger
<1> QED BY <1>3, <1>5, <1>6

(* Old entries of leaders' logs stay what they are. *)
LEMMA TermsOn ==
    ASSUME NEW G \in [Nat -> Seq(Nat)], NEW H \in [Nat -> Seq(Nat)], NEW E, Extends(E, G, H),
           GTerms(G), NEW t \in Nat, NEW i \in 1 .. Len(G[t])
    PROVE  1 <= H[t][i] /\ H[t][i] <= t /\ Agree(H[t], H[H[t][i]], i)
<1>1. G[t] \in Seq(Nat) /\ H[t] \in Seq(Nat) /\ Len(G[t]) \in Nat /\ Longer(G[t], H[t])
  BY GhostIs DEF Extends
<1>2. PICK v \in Nat : v = G[t][i]
  BY GhostIs
<1>3. H[t][i] = v
  <2>1. i \in Nat /\ 1 <= i /\ i <= Len(G[t])
    BY <1>1
  <2>2. H[t][i] = G[t][i]
    BY <1>1, <2>1, AgreeAt DEF Longer
  <2> QED BY <1>2, <2>2
<1>4. 1 <= v /\ v <= t /\ Agree(G[t], G[v], i)
  BY <1>2 DEF GTerms
<1>5. G[v] \in Seq(Nat) /\ H[v] \in Seq(Nat) /\ Longer(G[v], H[v]) /\ i \in Nat
  <2>1. G[v] \in Seq(Nat) /\ H[v] \in Seq(Nat)
    BY GhostIs
  <2>2. i \in Nat
    OBVIOUS
  <2> QED BY <2>1, <2>2 DEF Extends
<1>6. Agree(H[t], H[v], i)
  BY <1>1, <1>4, <1>5, AgreeLonger
<1> QED BY <1>3, <1>4, <1>6

(* What is committed stays committed. *)
LEMMA CommitOn ==
    ASSUME NEW C, NEW D, C \subseteq D, NEW t, NEW k, HasCommit(C, t, k)
    PROVE  HasCommit(D, t, k)
BY DEF HasCommit

(* A request stays a part of its leader's log. *)
LEMMA ServedOn ==
    ASSUME Typed, NEW G \in [Nat -> Seq(Nat)], NEW H \in [Nat -> Seq(Nat)],
           StepOf(G, H), NEW m \in rpcs, m.type = "append", Served(G, m)
    PROVE  Served(H, m)'
<1>1. PICK t \in Nat, p \in Nat, e \in Seq(Nat), d \in Nat :
         t = m.term /\ p = m.prevIndex /\ e = m.entries /\ d = Len(e)
  BY RequestIs
<1>2. /\ p + d <= Len(G[t])
      /\ p >= 1 => m.prevTerm = G[t][p]
      /\ \A k \in 1 .. d : e[k] = G[t][p + k]
      /\ <<m.term, m.leader>> \in elected /\ m.to # m.leader
      /\ m.leaderCommit > 0 => HasCommit(committed, m.term, m.leaderCommit)
  BY <1>1 DEF Served
<1>3. /\ G[t] \in Seq(Nat) /\ H[t] \in Seq(Nat) /\ Len(G[t]) \in Nat /\ Len(H[t]) \in Nat
      /\ Agree(H[t], G[t], Len(G[t]))
  BY GhostIs DEF StepOf, Extends, Longer
<1>4. Len(G[t]) <= Len(H[t]) /\ \A j \in 1 .. Len(G[t]) : H[t][j] = G[t][j]
  BY <1>3 DEF Agree
<1>5. p + d <= Len(H[t])
  BY <1>2, <1>3, <1>4
<1>6. p >= 1 => m.prevTerm = H[t][p]
  <2>1. p >= 1 => p \in 1 .. Len(G[t])
    BY <1>2, <1>3
  <2> QED BY <1>2, <1>4, <2>1
<1>7. ASSUME NEW k \in 1 .. d PROVE e[k] = H[t][p + k]
  <2>1. p + k \in 1 .. Len(G[t])
    BY <1>2, <1>3
  <2> QED BY <1>2, <1>4, <2>1
<1>8. <<m.term, m.leader>> \in elected'
  BY <1>2 DEF StepOf, Grown
<1>9. m.leaderCommit > 0 => HasCommit(committed', m.term, m.leaderCommit)
  BY <1>2, CommitOn DEF StepOf, Grown
<1> QED BY <1>1, <1>2, <1>5, <1>6, <1>7, <1>8, <1>9 DEF Served

(* An answer stays true while the log of who gave it grows. *)
LEMMA HeldOn ==
    ASSUME Typed, Typed', NEW G \in [Nat -> Seq(Nat)], NEW H \in [Nat -> Seq(Nat)],
           StepOf(G, H), NEW a \in rpcs, a.type = "answer", Held(G, a),
           Longer(log[a.from], log'[a.from])
    PROVE  Held(H, a)'
<1>1. PICK t \in Nat, q \in Server, i \in Nat : t = a.term /\ q = a.from /\ i = a.index
  BY AnswerIs
<1>2. /\ i <= Len(G[t])
      /\ a.success => /\ t <= node[q].term /\ Elected(elected, t)
                      /\ node[q].term = t => Agree(log[q], G[t], i)
  BY <1>1 DEF Held
<1>3. /\ G[t] \in Seq(Nat) /\ H[t] \in Seq(Nat) /\ Len(G[t]) \in Nat /\ Len(H[t]) \in Nat
      /\ Longer(G[t], H[t])
  BY GhostIs DEF StepOf, Extends
<1>4. i <= Len(H[t])
  <2>1. Len(G[t]) <= Len(H[t])
    BY <1>3 DEF Longer, Agree
  <2> QED BY <1>2, <1>3, <2>1
<1>5. ASSUME a.success
      PROVE  /\ t <= node'[q].term /\ Elected(elected', t)
             /\ node'[q].term = t => Agree(log'[q], H[t], i)
  <2>1. /\ node[q].term \in Nat /\ node'[q].term \in Nat /\ node[q].term <= node'[q].term
        /\ log[q] \in Seq(Nat) /\ log'[q] \in Seq(Nat) /\ Longer(log[q], log'[q])
    BY <1>1 DEF Typed, TypeOK, Election, StepOf, Grown
  <2>2. t <= node[q].term /\ (node'[q].term = t => node[q].term = t) /\ t <= node'[q].term
    <3>1. t <= node[q].term
      BY <1>2, <1>5
    <3>2. node[q].term \in Nat /\ node'[q].term \in Nat /\ node[q].term <= node'[q].term
      BY <2>1
    <3> QED BY <3>1, <3>2, Between, Zenon
  <2>3. Elected(elected', t)
    BY <1>2, <1>5 DEF Elected, StepOf, Grown
  <2>4. ASSUME node'[q].term = t PROVE Agree(log'[q], H[t], i)
    <3>1. Agree(log[q], G[t], i)
      BY <1>2, <1>5, <2>2, <2>4
    <3> QED BY <1>3, <2>1, <3>1, AgreeLonger
  <2> QED BY <2>2, <2>3, <2>4
<1> QED BY <1>1, <1>4, <1>5 DEF Held

(* What is acknowledged stays acknowledged. *)
LEMMA AckedOn ==
    ASSUME NEW E, NEW F, NEW R, NEW S, E \subseteq F, R \subseteq S, NEW q, NEW t, NEW i,
           AckedBy(E, R, q, t, i)
    PROVE  AckedBy(F, S, q, t, i)
BY DEF AckedBy

(* What a majority acknowledged stays so. *)
LEMMA ChoseOn ==
    ASSUME Typed, NEW G \in [Nat -> Seq(Nat)], NEW H \in [Nat -> Seq(Nat)],
           StepOf(G, H), NEW c \in committed, Chose(G, c)
    PROVE  Chose(H, c)'
<1>1. PICK t \in Nat, l \in Seq(Nat), i \in Nat : t = c.term /\ l = c.log /\ i = Len(l)
  BY CommittedIs
<1>2. i >= 1 /\ Agree(l, G[t], i) /\ l[i] = t
  BY <1>1 DEF Chose
<1>3. Agree(l, H[t], i)
  BY <1>2, AgreeGrown DEF StepOf
<1>4. PICK Q \in Majorities : \A q \in Q : AckedBy(elected, rpcs, q, t, i)
  BY <1>1 DEF Chose
<1>5. \A q \in Q : AckedBy(elected', rpcs', q, t, i)
  BY <1>4, AckedOn DEF StepOf, Grown
<1> QED BY <1>1, <1>2, <1>3, <1>4, <1>5 DEF Chose

(* A follower's committed prefix stays one while its log grows. *)
LEMMA FollowsOn ==
    ASSUME Typed, Typed', Grown, NEW s \in Server, Longer(log[s], log'[s]),
           commitIndex'[s] = commitIndex[s], NEW c \in committed, Follows(s, c)
    PROVE  Follows(s, c)'
<1>1. PICK t \in Nat, l \in Seq(Nat), i \in Nat : t = c.term /\ l = c.log /\ i = commitIndex[s]
  BY CommittedIs, NodeIs
<1>2. t <= node[s].term /\ i <= Len(l) /\ Agree(log[s], l, i)
  BY <1>1 DEF Follows
<1>3. /\ node[s].term \in Nat /\ node'[s].term \in Nat /\ node[s].term <= node'[s].term
      /\ log[s] \in Seq(Nat) /\ log'[s] \in Seq(Nat)
  BY DEF Typed, TypeOK, Election, Grown
<1>4. t <= node'[s].term
  BY <1>2, <1>3
<1>5. Agree(log'[s], l, i)
  BY <1>2, <1>3, LongerSame, AgreeLonger
<1> QED BY <1>1, <1>2, <1>4, <1>5 DEF Follows

(* A leader's books stay true while it leads and its log grows. *)
LEMMA KeptOn ==
    ASSUME Typed, Typed', Grown, NEW s \in Server, Longer(log[s], log'[s]),
           books'[s] = books[s], node'[s].term = node[s].term, Kept(s)
    PROVE  Kept(s)'
<1>1. PICK b \in Books, t \in Nat : b = books[s] /\ t = node[s].term
  BY NodeIs
<1>2. b' = b /\ t' = t
  OBVIOUS
<1>3. /\ log[s] \in Seq(Nat) /\ log'[s] \in Seq(Nat)
      /\ Len(log[s]) \in Nat /\ Len(log'[s]) \in Nat
  BY LenProperties DEF Typed, TypeOK
<1>4. Len(log[s]) <= Len(log'[s])
  BY DEF Longer, Agree
<1>5. b.commit > 0 => HasCommit(committed', t, b.commit)
  BY <1>1, CommitOn DEF Kept, Grown
<1>6. ASSUME NEW p \in Server
      PROVE  /\ 1 <= b.next[p] /\ b.next[p] <= Len(log'[s]) + 1
             /\ b.match[p] > 0 => \E a \in rpcs' : Says(a, p, t, b.match[p]) /\ a.index = b.match[p]
  <2>1. /\ 1 <= b.next[p] /\ b.next[p] <= Len(log[s]) + 1
        /\ b.match[p] > 0 => \E a \in rpcs : Says(a, p, t, b.match[p]) /\ a.index = b.match[p]
    BY <1>1 DEF Kept
  <2>2. b.next[p] \in Nat
    BY BooksAre
  <2>3. b.next[p] <= Len(log'[s]) + 1
    BY <1>3, <1>4, <2>1, <2>2
  <2>4. rpcs \subseteq rpcs'
    BY DEF Grown
  <2> QED BY <2>1, <2>3, <2>4
<1> QED BY <1>1, <1>5, <1>6 DEF Kept

(* All of it, when logs only grow and nobody's commit index moves.         *)
Carried(G, H) ==
    /\ GHeld(H)' /\ GFollow'
    /\ \A m \in rpcs : m.type = "append" => Served(H, m)'
    /\ \A a \in rpcs : a.type = "answer" => Held(H, a)'
    /\ \A c \in committed : Chose(H, c)'
    /\ \A e \in elected : Backed(elected', rpcs', votes', H, e)
    /\ \A r \in Server : \A i \in 1 .. Len(log[r]) :
          log'[r][i] <= node'[r].term /\ Agree(log'[r], H[log'[r][i]], i)

(* A step that only lengthens logs carries all of this along. *)
LEMMA CarriedOn ==
    ASSUME Typed, Typed', VotesInv, NEW G \in [Nat -> Seq(Nat)], NEW H \in [Nat -> Seq(Nat)],
           StepOf(G, H), LogsGrow, commitIndex' = commitIndex, GInv(G)
    PROVE  Carried(G, H)
<1>1. GHeld(H)'
  BY LogsMoveOn, HeldStep DEF GInv
<1>2. GFollow'
  <2> SUFFICES ASSUME NEW s \in Server, commitIndex'[s] > 0
               PROVE  \E c \in committed' : Follows(s, c)'
    BY DEF GFollow
  <2>1. PICK c \in committed : Follows(s, c)
    BY DEF GInv, GFollow
  <2>2. Longer(log[s], log'[s]) /\ Grown /\ c \in committed'
    BY DEF LogsGrow, StepOf, Grown
  <2>3. Follows(s, c)'
    BY <2>1, <2>2, FollowsOn
  <2> QED BY <2>2, <2>3
<1>3. \A m \in rpcs : m.type = "append" => Served(H, m)'
  BY ServedOn DEF GInv, GReqs
<1>4. ASSUME NEW a \in rpcs, a.type = "answer" PROVE Held(H, a)'
  <2>1. Longer(log[a.from], log'[a.from])
    BY <1>4, AnswerIs DEF LogsGrow
  <2>2. Held(G, a)
    BY <1>4 DEF GInv, GAns
  <2> QED BY <1>4, <2>1, <2>2, HeldOn
<1>5. \A c \in committed : Chose(H, c)'
  BY ChoseOn DEF GInv, GComm
<1>6. \A e \in elected : Backed(elected', rpcs', votes', H, e)
  BY BackedOn DEF GInv, GChosen
<1>7. \A r \in Server : \A i \in 1 .. Len(log[r]) :
         log'[r][i] <= node'[r].term /\ Agree(log'[r], H[log'[r][i]], i)
  BY LogsOn DEF GInv, LogsGrow
<1> QED BY <1>1, <1>2, <1>3, <1>4, <1>5, <1>6, <1>7 DEF Carried

(* Nobody is elected: leaders stay leaders of their term, or leave it.     *)
Moves ==
    \A r \in Server :
        /\ node'[r].role = "leader" => node[r].role = "leader" /\ node'[r].term = node[r].term
        /\ node[r].role = "leader" /\ node'[r].term = node[r].term => node'[r].role = "leader"
        /\ node'[r].role # "follower" => node'[r].term >= 1

Still(G) ==
    /\ StepOf(G, G)
    /\ GLeads(G)' /\ GElected(G)' /\ GLogs(G)' /\ GTerms(G)' /\ GWon' /\ GHeld(G)' /\ GChosen(G)'
    /\ GFollow'
    /\ \A m \in rpcs : m.type = "append" => Served(G, m)'
    /\ \A a \in rpcs : a.type = "answer" => Held(G, a)'
    /\ \A c \in committed : Chose(G, c)'
    /\ \A s \in Server : node'[s].role = "leader" /\ books'[s] = books[s] => Kept(s)'

(* A step with no election won and no success answered acknowledges nothing. *)
LEMMA SameAcks ==
    ASSUME NEW G \in [Nat -> Seq(Nat)], Grown, elected' = elected,
           \A a \in rpcs' \ rpcs : ~(a.type = "answer" /\ a.success)
    PROVE  StepOf(G, G)
<1>1. NewAcks(G, G)
  <2> SUFFICES ASSUME NEW q \in Server, NEW u \in Nat, NEW i \in Nat,
                      AckedBy(elected', rpcs', q, u, i)
               PROVE  AckedBy(elected, rpcs, q, u, i)
    BY DEF NewAcks
  <2> QED BY DEF AckedBy, Says
<1> QED BY <1>1, ExtendsSame DEF StepOf

(* Who won a term still leads it, or has left it. *)
LEMMA WonOn ==
    ASSUME Typed, Typed', GWon, Grown, Moves, elected' = elected
    PROVE  GWon'
<1>1. ASSUME NEW e \in elected
      PROVE  /\ e[1] <= node'[e[2]].term
             /\ e[1] = node'[e[2]].term => node'[e[2]].role = "leader"
  <2>1. PICK t \in Nat, s \in Server : t = e[1] /\ s = e[2]
    BY DEF Typed, TypeOK
  <2>2. t <= node[s].term /\ (t = node[s].term => node[s].role = "leader")
    BY <2>1 DEF GWon
  <2>3. node[s].term \in Nat /\ node'[s].term \in Nat /\ node[s].term <= node'[s].term
    BY DEF Typed, TypeOK, Election, Grown
  <2>4. t <= node'[s].term /\ (node'[s].term = t => node[s].term = t)
    BY <2>2, <2>3, Between, Zenon
  <2>5. node[s].role = "leader" /\ node'[s].term = node[s].term => node'[s].role = "leader"
    BY DEF Moves
  <2> QED BY <2>1, <2>2, <2>4, <2>5
<1>2. \A s \in Server : node'[s].role # "follower" => node'[s].term >= 1
  BY DEF Moves
<1> QED BY <1>1, <1>2 DEF GWon

(* Such a step, when logs stay too, keeps all but what is new in it. *)
LEMMA StillOn ==
    ASSUME Typed, Typed', VotesInv, NEW G \in [Nat -> Seq(Nat)], GInv(G), Grown, Moves,
           log' = log, elected' = elected, commitIndex' = commitIndex,
           \A a \in rpcs' \ rpcs : ~(a.type = "answer" /\ a.success)
    PROVE  Still(G)
<1>1. StepOf(G, G)
  BY SameAcks
<1>2. LogsGrow
  BY NodeIs, LongerSame DEF LogsGrow
<1>3. Carried(G, G)
  BY <1>1, <1>2, CarriedOn
<1>4. GLeads(G)'
  BY DEF GInv, GLeads, Moves
<1>5. GElected(G)' /\ GTerms(G)'
  BY DEF GInv, GElected, GTerms
<1>6. GLogs(G)'
  BY <1>3 DEF Carried, GLogs
<1>7. GChosen(G)'
  BY <1>3 DEF Carried, GChosen
<1>8. GWon'
  BY WonOn DEF GInv
<1>9. ASSUME NEW s \in Server, node'[s].role = "leader", books'[s] = books[s] PROVE Kept(s)'
  <2>1. node[s].role = "leader" /\ node'[s].term = node[s].term
    BY <1>9 DEF Moves
  <2>2. Kept(s) /\ Longer(log[s], log'[s])
    BY <1>2, <2>1 DEF GInv, GBooks, LogsGrow
  <2> QED BY <1>9, <2>1, <2>2, KeptOn
<1> QED BY <1>1, <1>3, <1>4, <1>5, <1>6, <1>7, <1>8, <1>9 DEF Still, Carried
-----------------------------------------------------------------------------
(* What a step of the election machine keeps, whoever takes it.            *)
LEMMA ElectionStep ==
    ASSUME Typed, VotesInv, [Next]_electionVars
    PROVE  TypeOK' /\ VotesInv'
<1>1. TypeOK'
  BY TypeNext DEF Typed
<1>2. VoteInv'
  BY <1>1, VoteNext DEF Typed, VotesInv
<1>3. LeaderInv'
  BY LeaderNext DEF Typed, VotesInv
<1> QED BY <1>1, <1>2, <1>3 DEF VotesInv

(* A step that sends no request and commits nothing. *)
LEMMA Closing ==
    ASSUME NEW G, Still(G), UNCHANGED <<rpcs, committed, books>>, GCand(G)', GAsked'
    PROVE  GInv(G)'
<1>1. GReqs(G)' /\ GAns(G)' /\ GComm(G)'
  BY DEF Still, GReqs, GAns, GComm
<1>2. GBooks'
  BY DEF Still, GBooks
<1> QED BY <1>1, <1>2 DEF Still, GInv

(* A request for votes still says what its candidate has to offer. *)
Asked(m) ==
    /\ m.term <= node[m.candidate].term
    /\ node[m.candidate].role = "candidate" /\ node[m.candidate].term = m.term
         => m.lastIndex = LastIndex(m.candidate) /\ m.lastTerm = LastTerm(m.candidate)

(* A request for votes. *)
LEMMA VoteRequestIs ==
    ASSUME Typed, NEW m \in msgs, m.type = "request-vote"
    PROVE  m.term \in Nat /\ m.candidate \in Server
BY DEF Typed, TypeOK, Message

(* A request for votes is as true as it was. *)
LEMMA AskedOn ==
    ASSUME Typed, Typed', GAsked, Grown, log' = log, NEW m \in msgs, m.type = "request-vote",
           node'[m.candidate].role = "candidate" /\ node'[m.candidate].term = m.term
             => node[m.candidate].role = "candidate" /\ node[m.candidate].term = m.term
    PROVE  Asked(m)'
<1>1. PICK c \in Server : c = m.candidate
  BY VoteRequestIs
<1>2. /\ m.term \in Nat /\ node[c].term \in Nat /\ node'[c].term \in Nat
      /\ node[c].term <= node'[c].term
  BY VoteRequestIs DEF Typed, TypeOK, Election, Grown
<1>3. m.term <= node[c].term
  BY <1>1 DEF GAsked
<1>4. m.term <= node'[c].term
  BY <1>2, <1>3, Between, Zenon
<1>5. node[c].role = "candidate" /\ node[c].term = m.term
        => m.lastIndex = LastIndex(c) /\ m.lastTerm = LastTerm(c)
  BY <1>1 DEF GAsked
<1>6. LastIndex(c)' = LastIndex(c) /\ LastTerm(c)' = LastTerm(c)
  BY DEF LastIndex, LastTerm
<1>7. LastIndex(m.candidate)' = LastIndex(c)' /\ LastTerm(m.candidate)' = LastTerm(c)'
  BY <1>1
<1> QED BY <1>1, <1>4, <1>5, <1>6, <1>7 DEF Asked

(* Votes are of terms their candidates have reached. *)
LEMMA OldVotesOn ==
    ASSUME Typed, Typed', GAsked, Grown, NEW v \in votes
    PROVE  v[1] <= node'[v[3]].term
<1>1. PICK t \in Nat, c \in Server : t = v[1] /\ c = v[3]
  BY DEF Typed, TypeOK
<1>2. node[c].term \in Nat /\ node'[c].term \in Nat /\ node[c].term <= node'[c].term
  BY DEF Typed, TypeOK, Election, Grown
<1>3. t <= node[c].term
  BY <1>1 DEF GAsked
<1>4. t <= node'[c].term
  BY <1>2, <1>3, Between, Zenon
<1> QED BY <1>1, <1>4

(* A timeout: the new candidate has all that it has acknowledged itself. *)
LEMMA TimeoutStep ==
    ASSUME Typed, VotesInv, NEW G \in [Nat -> Seq(Nat)], GInv(G), NEW s \in Server, StartElection(s)
    PROVE  Typed' /\ VotesInv' /\ GInv(G)'
<1>1. Timeout(s) /\ UNCHANGED <<commitIndex, books, rpcs, committed, log, msgs, elected>>
  BY DEF StartElection, replicationVars, Timeout
<1>2. TypeOK' /\ VotesInv'
  BY <1>1, ElectionStep DEF Next
<1>3. Typed'
  BY <1>1, <1>2 DEF Typed, ReplicationTypeOK
<1>0. PICK b \in Nat : b = node[s].term
  BY TermIs
<1>4. PICK t \in Nat : t = node[s].term + 1
  BY <1>0
<1>5. /\ node'[s].term = t /\ node'[s].role = "candidate"
      /\ \A r \in Server \ {s} : node'[r] = node[r]
      /\ node[s].role # "leader"
      /\ votes' = votes \cup {<<t, s, s>>}
  BY <1>1, <1>4 DEF Timeout, Typed, TypeOK
<1>6. node[s].term <= t /\ ~(t <= node[s].term) /\ t >= 1
  <2>1. t = b + 1
    BY <1>0, <1>4
  <2>2. b <= t /\ ~(t <= b) /\ t >= 1
    BY <2>1
  <2> QED BY <1>0, <2>2
<1>7. Grown
  <2>1. \A r \in Server : node[r].term <= node'[r].term
    <3> SUFFICES ASSUME NEW r \in Server PROVE node[r].term <= node'[r].term
      OBVIOUS
    <3>1. node[r].term <= node[r].term
      BY TermIs
    <3> QED BY <1>5, <1>6, <3>1
  <2> QED BY <1>1, <1>5, <2>1 DEF Grown
<1>8. Moves
  BY <1>5, <1>6 DEF Moves, GInv, GWon
<1>9. Still(G)
  BY <1>1, <1>3, <1>7, <1>8, StillOn
<1>10. GCand(G)'
  <2> SUFFICES ASSUME NEW r \in Server, node'[r].role = "candidate",
                      ~Elected(elected', node'[r].term),
                      NEW q \in Server, <<node'[r].term, q, r>> \in votes'
               PROVE  Vouched(elected', rpcs', G, q, node'[r].term, log'[r])
    BY DEF GCand
  <2>1. CASE r # s
    <3>1. node'[r] = node[r] /\ <<node[r].term, q, r>> \in votes
      BY <1>5, <2>1
    <3>2. StepOf(G, G) /\ GCand(G) /\ log'[r] = log[r]
      BY <1>1, <1>9 DEF Still, GInv
    <3> QED BY <3>1, <3>2, CandOn
  <2>2. CASE r = s
    <3>1. ASSUME <<t, q, s>> \in votes PROVE FALSE
      <4>1. <<t, q, s>>[1] <= node[<<t, q, s>>[3]].term
        BY <3>1 DEF GInv, GAsked
      <4>2. t <= node[s].term
        BY <4>1
      <4> QED BY <1>6, <4>2
    <3>2. q = s
      BY <1>5, <2>2, <3>1
    <3>3. Vouched(elected, rpcs, G, s, t, log[s])
      BY <1>4 DEF Vouched, GInv, GHeld
    <3> QED BY <1>1, <1>5, <2>2, <3>2, <3>3
  <2> QED BY <2>1, <2>2
<1>11. GAsked'
  <2>1. ASSUME NEW m \in msgs, m.type = "request-vote" PROVE Asked(m)'
    <3>1. m.candidate \in Server /\ m.term \in Nat
      BY <2>1, VoteRequestIs
    <3>2. m.term <= node[m.candidate].term
      BY <2>1 DEF GInv, GAsked
    <3>3. node'[m.candidate].role = "candidate" /\ node'[m.candidate].term = m.term
            => node[m.candidate].role = "candidate" /\ node[m.candidate].term = m.term
      <4>1. CASE m.candidate # s
        BY <1>5, <3>1, <4>1
      <4>2. CASE m.candidate = s
        <5>1. m.term # t
          BY <1>6, <3>1, <3>2, <4>2
        <5> QED BY <1>5, <4>2, <5>1
      <4> QED BY <4>1, <4>2
    <3> QED BY <1>1, <1>3, <1>7, <2>1, <3>3, AskedOn DEF GInv
  <2>2. ASSUME NEW v \in votes' PROVE v[1] <= node'[v[3]].term
    <3>1. CASE v \in votes
      BY <1>3, <1>7, <3>1, OldVotesOn DEF GInv
    <3>2. CASE v = <<t, s, s>>
      <4>1. v[1] = t /\ v[3] = s /\ t <= t
        BY <3>2
      <4> QED BY <1>5, <4>1
    <3> QED BY <1>5, <3>1, <3>2
  <2> QED BY <1>1, <2>1, <2>2 DEF GAsked, Asked
<1> QED BY <1>1, <1>2, <1>3, <1>9, <1>10, <1>11, Closing

(* An up-to-date log is not of an older term. *)
LEMMA Newer ==
    \A u, y, v, d, n \in Nat :
        1 <= u /\ u <= y /\ (v > y \/ (v = y /\ d >= n)) => u <= v /\ 1 <= v
OBVIOUS

InTerm(s, t) == node[s].term = t

(* A vote goes to a log that has everything the voter acknowledged, or     *)
(* that is of a later leader which has not.                                *)
LEMMA VoteVouches ==
    ASSUME Typed, NEW G \in [Nat -> Seq(Nat)], GElected(G), GLogs(G), GTerms(G), GHeld(G),
           NEW s \in Server, NEW c \in Server, NEW t \in Nat, NEW b \in Nat, b <= t,
           InTerm(s, b), InTerm(c, t), ~Elected(elected, t), UpToDate(s, LastIndex(c), LastTerm(c))
    PROVE  Vouched(elected, rpcs, G, s, t, log[c])
<1> SUFFICES ASSUME NEW u \in Nat, u < t, NEW i \in Nat, Own(G, u, i),
                    AckedBy(elected, rpcs, s, u, i)
             PROVE  Agree(log[c], G[u], i) \/ Lost(elected, G, u, i, t)
  BY DEF Vouched
<1>2. Agree(log[s], G[u], i) \/ Lost(elected, G, u, i, b + 1)
  BY DEF GHeld, InTerm
<1>3. CASE Lost(elected, G, u, i, b + 1)
  <2>1. PICK w \in Nat : u < w /\ w < b + 1 /\ Elected(elected, w) /\ ~Agree(G[w], G[u], i)
    BY <1>3 DEF Lost
  <2>2. w # t
    BY <2>1
  <2>4. w < t
    BY <2>1, <2>2
  <2> QED BY <2>1, <2>4 DEF Lost
<1>4. CASE Agree(log[s], G[u], i)
  <2>1. PICK l \in Seq(Nat), n \in Nat : l = log[s] /\ n = Len(l)
    BY LogIs
  <2>2. PICK k \in Seq(Nat), d \in Nat : k = log[c] /\ d = Len(k)
    BY LogIs
  <2>3. G[u] \in Seq(Nat) /\ Len(G[u]) \in Nat
    BY GhostIs
  <2>4. 1 <= i /\ i <= Len(G[u]) /\ G[u][i] = u
    BY <2>3 DEF Own
  <2>5. 1 <= u
    <3>1. i \in 1 .. Len(G[u])
      BY DEF Own
    <3>2. 1 <= G[u][i]
      BY <3>1 DEF GTerms
    <3> QED BY <2>4, <3>2
  <2>6. Agree(l, G[u], i)
    BY <1>4, <2>1
  <2>7. i <= n
    BY <2>1, <2>6 DEF Agree
  <2>8. l[i] = u
    <3>1. i \in 1 .. i
      BY <2>4
    <3> QED BY <2>4, <2>6, <3>1 DEF Agree
  <2>9. n \in 1 .. n /\ n # 0
    BY <2>4, <2>7
  <2>10. PICK y \in Nat : y = l[n]
    BY <2>1, <2>9, ElementOfSeq
  <2>11. LastTerm(s) = y /\ LastIndex(s) = n
    <3>1. l # <<>>
      <4>1. Len(l) # 0
        BY <2>1, <2>9
      <4> QED BY <4>1
    <3> QED BY <2>1, <2>10, <3>1 DEF LastTerm, LastIndex
  <2>12. Agree(l, G[y], n)
    BY <2>1, <2>9, <2>10 DEF GLogs
  <2>13. u <= y
    <3>1. G[y] \in Seq(Nat)
      OBVIOUS
    <3>2. l[i] = G[y][i] /\ i \in 1 .. Len(G[y])
      BY <2>4, <2>7, <2>12, <3>1, AgreeAt
    <3>3. G[y][i] <= y
      BY <3>2 DEF GTerms
    <3> QED BY <2>8, <3>2, <3>3
  <2>14. PICK v \in Nat : v = LastTerm(c)
    BY LastFacts DEF Typed
  <2>15. LastIndex(c) = d
    BY <2>2 DEF LastIndex
  <2>16. v > y \/ (v = y /\ d >= n)
    BY <2>11, <2>14, <2>15 DEF UpToDate
  <2>17. u <= v /\ 1 <= v
    BY <2>5, <2>13, <2>16, Newer, Zenon
  <2>18. k # <<>> /\ v = k[d]
    <3>1. v # 0
      BY <2>17
    <3>2. v = IF k = <<>> THEN 0 ELSE k[d]
      BY <2>2, <2>14 DEF LastTerm
    <3> QED BY <3>1, <3>2
  <2>19. d >= 1 /\ d \in 1 .. d
    <3>1. d # 0
      BY <2>2, <2>18, EmptySeq
    <3> QED BY <3>1
  <2>20. v <= t /\ Agree(k, G[v], d)
    <3>1. log[c][d] <= node[c].term /\ Agree(log[c], G[log[c][d]], d)
      BY <2>2, <2>19 DEF GLogs
    <3> QED BY <2>2, <2>18, <3>1 DEF InTerm
  <2>21. G[v] \in Seq(Nat) /\ Len(G[v]) \in Nat
    BY GhostIs
  <2>22. d <= Len(G[v])
    BY <2>20 DEF Agree
  <2>23. Elected(elected, v)
    <3>1. Len(G[v]) > 0
      BY <2>19, <2>21, <2>22
    <3> QED BY <3>1 DEF GElected
  <2>24. v < t
    <3>1. v # t
      BY <2>23
    <3> QED BY <2>20, <3>1
  <2>25. ASSUME i <= d, Agree(G[v], G[u], i) PROVE Agree(k, G[u], i)
    <3>1. Agree(k, G[v], i)
      BY <2>20, <2>21, <2>25, AgreeLess
    <3> QED BY <2>25, <3>1, AgreeOn
  <2>26. CASE v = u
    <3>1. i <= d
      BY <2>7, <2>13, <2>16, <2>26
    <3>2. Agree(k, G[u], i)
      BY <2>20, <2>21, <2>26, <3>1, AgreeLess
    <3> QED BY <2>2, <3>2
  <2>27. CASE v # u /\ Agree(G[v], G[u], i)
    <3>1. i <= d
      <4>1. ASSUME d < i PROVE FALSE
        <5>1. i <= Len(G[v])
          BY <2>27 DEF Agree
        <5>2. G[v][d] <= G[v][i]
          <6>1. 1 <= d /\ d <= i
            BY <2>19, <4>1
          <6> QED BY <5>1, <6>1, Sorted
        <5>3. G[v][d] = v
          BY <2>18, <2>19, <2>20 DEF Agree
        <5>4. i \in 1 .. i
          BY <2>4
        <5>5. G[v][i] = u
          BY <2>4, <2>27, <5>4 DEF Agree
        <5> QED BY <2>17, <2>27, <5>2, <5>3, <5>5
      <4> QED BY <4>1
    <3> QED BY <2>2, <2>25, <2>27, <3>1
  <2>28. CASE v # u /\ ~Agree(G[v], G[u], i)
    <3>1. u < v
      BY <2>17, <2>28
    <3> QED BY <2>23, <2>24, <2>28, <3>1 DEF Lost
  <2> QED BY <2>26, <2>27, <2>28
<1> QED BY <1>2, <1>3, <1>4

(* One server hears of a later term, or follows the leader of its own.     *)
Turned(s) ==
    /\ \A r \in Server \ {s} : node'[r] = node[r]
    /\ node[s].term <= node'[s].term
    /\ \/ node'[s].term = node[s].term /\ node'[s].role = node[s].role
       \/ /\ node'[s].role = "follower"
          /\ node'[s].term # node[s].term \/ node[s].role # "leader"

NoNewCandidate ==
    \A r \in Server : node'[r].role = "candidate" =>
        node[r].role = "candidate" /\ node'[r].term = node[r].term

(* Nobody becomes a leader or a candidate that way. *)
LEMMA TurnedMoves ==
    ASSUME Typed, GWon, NEW s \in Server, Turned(s)
    PROVE  Moves /\ NoNewCandidate /\ \A r \in Server : node[r].term <= node'[r].term
<1>1. ASSUME NEW r \in Server PROVE node[r].term <= node'[r].term
  <2>1. node[r].term <= node[r].term
    BY TermIs
  <2> QED BY <2>1 DEF Turned
<1>2. Moves
  <2> SUFFICES ASSUME NEW r \in Server
               PROVE  /\ node'[r].role = "leader" => node[r].role = "leader" /\ node'[r].term = node[r].term
                      /\ node[r].role = "leader" /\ node'[r].term = node[r].term => node'[r].role = "leader"
                      /\ node'[r].role # "follower" => node'[r].term >= 1
    BY DEF Moves
  <2>1. node[r].role # "follower" => node[r].term >= 1
    BY DEF GWon
  <2>2. CASE r # s
    BY <2>1, <2>2 DEF Turned
  <2>3. CASE r = s
    BY <2>1, <2>3 DEF Turned
  <2> QED BY <2>2, <2>3
<1>3. NoNewCandidate
  <2> SUFFICES ASSUME NEW r \in Server, node'[r].role = "candidate"
               PROVE  node[r].role = "candidate" /\ node'[r].term = node[r].term
    BY DEF NoNewCandidate
  <2>1. CASE r # s
    BY <2>1 DEF Turned
  <2>2. CASE r = s
    BY <2>2 DEF Turned
  <2> QED BY <2>1, <2>2
<1> QED BY <1>1, <1>2, <1>3

(* So no request for votes becomes wrong. *)
LEMMA AskedAll ==
    ASSUME Typed, Typed', GAsked, Grown, log' = log, NoNewCandidate,
           NEW m \in msgs, m.type = "request-vote"
    PROVE  Asked(m)'
<1>1. m.candidate \in Server
  BY VoteRequestIs
<1>2. node'[m.candidate].role = "candidate" /\ node'[m.candidate].term = m.term
        => node[m.candidate].role = "candidate" /\ node[m.candidate].term = m.term
  BY <1>1 DEF NoNewCandidate
<1> QED BY <1>2, AskedOn

(* What answering a request for votes does. *)
LEMMA VoteFx ==
    ASSUME Typed, NEW s \in Server, NEW m \in msgs, RequestVote(s, m)
    PROVE  /\ m.type = "request-vote" /\ m.term \in Nat /\ m.candidate \in Server /\ m.candidate # s
           /\ Turned(s)
           /\ UNCHANGED <<log, elected>>
           /\ msgs \subseteq msgs' /\ \A x \in msgs' \ msgs : x.type = "vote-response"
           /\ \/ votes' = votes
              \/ /\ votes' = votes \cup {<<m.term, s, m.candidate>>}
                 /\ node[s].term <= m.term
                 /\ UpToDate(s, m.lastIndex, m.lastTerm)
<1> DEFINE n == At(s, m.term)
           granted == /\ m.term >= n.term
                      /\ Free(n, m.candidate)
                      /\ UpToDate(s, m.lastIndex, m.lastTerm)
<1>1. m.type = "request-vote" /\ m.candidate # s /\ UNCHANGED <<log, elected>>
  BY DEF RequestVote
<1>2. m.term \in Nat /\ m.candidate \in Server
  BY <1>1, VoteRequestIs
<1>3. PICK b \in Nat, t \in Nat : b = node[s].term /\ t = m.term
  BY <1>2, TermIs
<1>4. /\ n \in Election
      /\ n.term = IF t > b THEN t ELSE b
      /\ t > b => n.role = "follower"
      /\ ~(t > b) => n = node[s]
  BY <1>3, AtFacts DEF Typed
<1>5. /\ node' = [node EXCEPT ![s] = IF granted THEN [n EXCEPT !.votedFor = m.candidate] ELSE n]
      /\ votes' = IF granted THEN votes \cup {<<n.term, s, m.candidate>>} ELSE votes
      /\ Send([type |-> "vote-response", term |-> n.term, voter |-> s,
               candidate |-> m.candidate, granted |-> granted])
  BY DEF RequestVote
<1>6. msgs \subseteq msgs' /\ \A x \in msgs' \ msgs : x.type = "vote-response"
  BY <1>5 DEF Send
<1>7. granted => m.term >= n.term /\ UpToDate(s, m.lastIndex, m.lastTerm)
  OBVIOUS
<1>8. node \in [Server -> Election]
  BY DEF Typed, TypeOK
<1> HIDE DEF n, granted
<1>9. /\ node'[s].term = n.term /\ node'[s].role = n.role
      /\ \A r \in Server \ {s} : node'[r] = node[r]
  BY <1>4, <1>5, <1>8 DEF Election
<1>10. Turned(s)
  <2>1. CASE t > b
    <3>1. node'[s].term = t /\ node'[s].role = "follower" /\ b <= t /\ t # b
      BY <1>4, <1>9, <2>1
    <3> QED BY <1>3, <1>9, <3>1 DEF Turned
  <2>2. CASE ~(t > b)
    <3>1. node'[s].term = b /\ node'[s].role = node[s].role /\ b <= b
      BY <1>3, <1>4, <1>9, <2>2
    <3> QED BY <1>3, <1>9, <3>1 DEF Turned
  <2> QED BY <2>1, <2>2
<1>11. granted => n.term = m.term /\ node[s].term <= m.term
  <2>1. CASE t > b
    <3>1. n.term = t /\ b <= t
      BY <1>4, <2>1
    <3> QED BY <1>3, <3>1
  <2>2. CASE ~(t > b)
    <3>1. n.term = b
      BY <1>4, <2>2
    <3>2. granted => t >= b
      BY <1>3, <1>7, <3>1
    <3>3. granted => t = b /\ b <= t
      BY <2>2, <3>2
    <3> QED BY <1>3, <3>1, <3>3
  <2> QED BY <2>1, <2>2
<1> QED BY <1>1, <1>2, <1>5, <1>6, <1>7, <1>10, <1>11

(* A vote given: VoteVouches says why its candidate deserves it. *)
LEMMA GrantStep ==
    ASSUME Typed, VotesInv, NEW G \in [Nat -> Seq(Nat)], GInv(G), NEW s \in Server,
           NEW m \in msgs, Vote(s, m)
    PROVE  Typed' /\ VotesInv' /\ GInv(G)'
<1>1. RequestVote(s, m) /\ UNCHANGED <<commitIndex, books, rpcs, committed>>
  BY DEF Vote, replicationVars
<1>2. TypeOK' /\ VotesInv'
  BY <1>1, ElectionStep DEF Next
<1>3. Typed'
  BY <1>1, <1>2 DEF Typed, ReplicationTypeOK
<1>4. /\ m.type = "request-vote" /\ m.term \in Nat /\ m.candidate \in Server /\ m.candidate # s
      /\ Turned(s)
      /\ UNCHANGED <<log, elected>>
      /\ msgs \subseteq msgs' /\ \A x \in msgs' \ msgs : x.type = "vote-response"
      /\ \/ votes' = votes
         \/ /\ votes' = votes \cup {<<m.term, s, m.candidate>>}
            /\ node[s].term <= m.term
            /\ UpToDate(s, m.lastIndex, m.lastTerm)
  BY <1>1, VoteFx
<1>5. Moves /\ NoNewCandidate /\ \A r \in Server : node[r].term <= node'[r].term
  BY <1>4, TurnedMoves DEF GInv
<1>6. Grown
  BY <1>1, <1>4, <1>5 DEF Grown
<1>7. Still(G)
  BY <1>1, <1>3, <1>4, <1>5, <1>6, StillOn
<1>8. Asked(m)
  BY <1>4 DEF GInv, GAsked, Asked
<1>9. GCand(G)'
  <2> SUFFICES ASSUME NEW r \in Server, node'[r].role = "candidate",
                      ~Elected(elected', node'[r].term),
                      NEW q \in Server, <<node'[r].term, q, r>> \in votes'
               PROVE  Vouched(elected', rpcs', G, q, node'[r].term, log'[r])
    BY DEF GCand
  <2>1. node[r].role = "candidate" /\ node'[r].term = node[r].term
    BY <1>5 DEF NoNewCandidate
  <2>2. CASE <<node[r].term, q, r>> \in votes
    <3>1. StepOf(G, G) /\ GCand(G) /\ log'[r] = log[r]
      BY <1>4, <1>7 DEF Still, GInv
    <3> QED BY <2>1, <2>2, <3>1, CandOn
  <2>3. CASE <<node[r].term, q, r>> \notin votes
    <3>1. <<node[r].term, q, r>> = <<m.term, s, m.candidate>>
      <4>1. <<node[r].term, q, r>> \in votes'
        BY <2>1
      <4>2. votes' = votes \/ votes' = votes \cup {<<m.term, s, m.candidate>>}
        BY <1>4
      <4> QED BY <2>3, <4>1, <4>2, Zenon
    <3>2. /\ node[r].term = m.term /\ q = s /\ r = m.candidate
          /\ node[s].term <= m.term /\ UpToDate(s, m.lastIndex, m.lastTerm)
      BY <1>4, <2>1, <2>3, <3>1
    <3>3. m.lastIndex = LastIndex(r) /\ m.lastTerm = LastTerm(r)
      BY <1>8, <2>1, <3>2 DEF Asked
    <3>4. PICK t \in Nat, b \in Nat : t = m.term /\ b = node[s].term
      BY <1>4, TermIs
    <3>5. /\ b <= t /\ InTerm(s, b) /\ InTerm(r, t) /\ ~Elected(elected, t)
          /\ UpToDate(s, LastIndex(r), LastTerm(r))
      BY <1>4, <2>1, <3>2, <3>3, <3>4 DEF InTerm
    <3>6. Vouched(elected, rpcs, G, s, t, log[r])
      BY <3>5, VoteVouches DEF GInv
    <3> QED BY <1>1, <1>4, <2>1, <3>2, <3>4, <3>6
  <2> QED BY <2>2, <2>3
<1>10. GAsked'
  <2>1. ASSUME NEW x \in msgs', x.type = "request-vote" PROVE Asked(x)'
    <3>1. x \in msgs
      BY <1>4, <2>1
    <3> QED BY <1>3, <1>4, <1>5, <1>6, <2>1, <3>1, AskedAll DEF GInv
  <2>2. ASSUME NEW v \in votes' PROVE v[1] <= node'[v[3]].term
    <3>1. CASE v \in votes
      BY <1>3, <1>6, <3>1, OldVotesOn DEF GInv
    <3>2. CASE v \notin votes
      <4>1. v = <<m.term, s, m.candidate>>
        BY <1>4, <3>2
      <4>2. m.term <= node[m.candidate].term /\ node'[m.candidate] = node[m.candidate]
        BY <1>4, <1>8 DEF Asked, Turned
      <4> QED BY <4>1, <4>2
    <3> QED BY <3>1, <3>2
  <2> QED BY <2>1, <2>2 DEF GAsked, Asked
<1> QED BY <1>1, <1>2, <1>3, <1>7, <1>9, <1>10, Closing

(* An answer to a candidate: it wins, or at most hears of a later term.    *)
Wins(s) ==
    /\ node[s].role = "candidate" /\ node'[s].role = "leader"
    /\ node'[s].term = node[s].term
    /\ \A r \in Server \ {s} : node'[r] = node[r]
    /\ elected' = elected \cup {<<node[s].term, s>>}

(* What counting a vote does. *)
LEMMA CountFx ==
    ASSUME Typed, NEW s \in Server, NEW m \in msgs, VoteResponse(s, m)
    PROVE  UNCHANGED <<log, msgs, votes>> /\ (Wins(s) \/ (elected' = elected /\ Turned(s)))
<1> DEFINE n == At(s, m.term)
           counts == m.term = node[s].term /\ n.role = "candidate" /\ m.granted
           tally == n.granters \cup {m.voter}
           won == counts /\ Cardinality(tally) >= Majority
<1>1. m.type = "vote-response" /\ UNCHANGED <<log, msgs, votes>>
  BY DEF VoteResponse
<1>2. m.term \in Nat
  BY <1>1 DEF Typed, TypeOK, Message
<1>3. PICK b \in Nat, t \in Nat : b = node[s].term /\ t = m.term
  BY <1>2, TermIs
<1>4. /\ n \in Election
      /\ n.term = IF t > b THEN t ELSE b
      /\ t > b => n.role = "follower"
      /\ ~(t > b) => n = node[s]
  BY <1>3, AtFacts DEF Typed
<1>5. /\ node' = [node EXCEPT ![s] =
                    IF won THEN [n EXCEPT !.granters = tally, !.role = "leader", !.leader = s]
                    ELSE IF counts THEN [n EXCEPT !.granters = tally]
                    ELSE n]
      /\ elected' = IF won THEN elected \cup {<<n.term, s>>} ELSE elected
  BY DEF VoteResponse
<1>6. won => counts
  OBVIOUS
<1>7. counts => t = b /\ n.role = "candidate"
  BY <1>3
<1>8. node \in [Server -> Election]
  BY DEF Typed, TypeOK
<1> HIDE DEF n, counts, tally, won
<1>9. \A r \in Server \ {s} : node'[r] = node[r]
  BY <1>5, <1>8
<1>10. CASE won
  <2>1. t = b /\ n.role = "candidate"
    BY <1>6, <1>7, <1>10
  <2>2. ~(t > b)
    BY <2>1
  <2>3. n = node[s]
    BY <1>4, <2>2
  <2>4. node'[s] = [n EXCEPT !.granters = tally, !.role = "leader", !.leader = s]
    BY <1>5, <1>8, <1>10
  <2>5. node'[s].term = n.term /\ node'[s].role = "leader"
    BY <1>4, <2>4 DEF Election
  <2>6. Wins(s)
    BY <1>5, <1>9, <1>10, <2>1, <2>3, <2>5 DEF Wins
  <2> QED BY <1>1, <2>6
<1>11. CASE ~won
  <2>1. node'[s] = n \/ node'[s] = [n EXCEPT !.granters = tally]
    BY <1>5, <1>8, <1>11
  <2>2. node'[s].term = n.term /\ node'[s].role = n.role
    BY <1>4, <2>1 DEF Election
  <2>3. Turned(s)
    <3>1. CASE t > b
      <4>1. node'[s].term = t /\ node'[s].role = "follower" /\ b <= t /\ t # b
        BY <1>4, <2>2, <3>1
      <4> QED BY <1>3, <1>9, <4>1 DEF Turned
    <3>2. CASE ~(t > b)
      <4>1. node'[s].term = b /\ node'[s].role = node[s].role /\ b <= b
        BY <1>3, <1>4, <2>2, <3>2
      <4> QED BY <1>3, <1>9, <4>1 DEF Turned
    <3> QED BY <3>1, <3>2
  <2>4. elected' = elected
    BY <1>5, <1>11
  <2> QED BY <1>1, <2>3, <2>4
<1> QED BY <1>10, <1>11

(* A vote that decides nothing. *)
LEMMA CountedStep ==
    ASSUME Typed, VotesInv, NEW G \in [Nat -> Seq(Nat)], GInv(G), NEW s \in Server,
           NEW m \in msgs, CountVote(s, m), elected' = elected, Turned(s),
           UNCHANGED <<log, msgs, votes>>
    PROVE  Typed' /\ VotesInv' /\ GInv(G)'
<1>1. VoteResponse(s, m) /\ UNCHANGED <<commitIndex, rpcs, committed>>
  BY DEF CountVote
<1>2. TypeOK' /\ VotesInv'
  BY <1>1, ElectionStep DEF Next
<1>3. books' = books
  <2>1. ~(node[s].role # "leader" /\ node'[s].role = "leader")
    BY DEF Turned
  <2> QED BY <2>1 DEF CountVote
<1>4. Typed'
  BY <1>1, <1>2, <1>3 DEF Typed, ReplicationTypeOK
<1>5. Moves /\ NoNewCandidate /\ \A r \in Server : node[r].term <= node'[r].term
  BY TurnedMoves DEF GInv
<1>6. Grown
  BY <1>1, <1>5 DEF Grown
<1>7. Still(G)
  BY <1>1, <1>4, <1>5, <1>6, StillOn
<1>8. GCand(G)'
  <2> SUFFICES ASSUME NEW r \in Server, node'[r].role = "candidate",
                      ~Elected(elected', node'[r].term),
                      NEW q \in Server, <<node'[r].term, q, r>> \in votes
               PROVE  Vouched(elected', rpcs', G, q, node'[r].term, log'[r])
    BY DEF GCand
  <2>1. node[r].role = "candidate" /\ node'[r].term = node[r].term
    BY <1>5 DEF NoNewCandidate
  <2>2. <<node[r].term, q, r>> \in votes
    BY <2>1
  <2>3. StepOf(G, G) /\ GCand(G) /\ log'[r] = log[r]
    BY <1>7 DEF Still, GInv
  <2> QED BY <2>1, <2>2, <2>3, CandOn
<1>9. GAsked'
  <2>1. \A x \in msgs : x.type = "request-vote" => Asked(x)'
    BY <1>4, <1>5, <1>6, AskedAll DEF GInv
  <2>2. \A v \in votes : v[1] <= node'[v[3]].term
    BY <1>4, <1>6, OldVotesOn DEF GInv
  <2> QED BY <2>1, <2>2 DEF GAsked, Asked
<1> QED BY <1>1, <1>2, <1>3, <1>4, <1>7, <1>8, <1>9, Closing

(* The winner of term t brings its log along, in which nothing is of t.    *)
Brought(G, H, t, l) ==
    /\ H \in [Nat -> Seq(Nat)] /\ H[t] = l /\ \A u \in Nat \ {t} : H[u] = G[u]
    /\ Extends(elected, G, H) /\ GTerms(H)
    /\ \A i \in Nat : ~Own(H, t, i)

(* Its log becomes G's log of that term. *)
LEMMA WinGhost ==
    ASSUME Typed, NEW G \in [Nat -> Seq(Nat)], GElected(G), GLogs(G), GTerms(G), NEW s \in Server,
           NEW t \in Nat, InTerm(s, t), ~Elected(elected, t), NEW l \in Seq(Nat), l = log[s],
           NEW H, H = [G EXCEPT ![t] = l]
    PROVE  Brought(G, H, t, l)
<1>1. H \in [Nat -> Seq(Nat)] /\ H[t] = l /\ \A u \in Nat \ {t} : H[u] = G[u]
  OBVIOUS
<1>2. Len(G[t]) = 0
  <2>1. Len(G[t]) \in Nat /\ ~(Len(G[t]) > 0)
    BY GhostIs DEF GElected
  <2> QED BY <2>1
<1>3. ASSUME NEW i \in 1 .. Len(l)
      PROVE  \E v \in Nat : /\ v = l[i] /\ v # t /\ 1 <= v /\ v <= t /\ Agree(l, H[v], i)
  <2>1. PICK v \in Nat : v = l[i]
    BY LogIs
  <2>2. v <= t /\ Agree(l, G[v], i)
    BY <2>1 DEF GLogs, InTerm
  <2>3. i \in Nat /\ 1 <= i /\ i <= i
    BY LenProperties
  <2>4. l[i] = G[v][i] /\ i \in 1 .. Len(G[v])
    <3>1. PICK d \in Nat : d = Len(G[v])
      BY GhostIs
    <3>2. i \in 1 .. i
      BY <2>3
    <3>3. l[i] = G[v][i] /\ i <= d
      BY <2>2, <3>1, <3>2 DEF Agree
    <3>4. i \in 1 .. d
      BY <3>2, <3>3
    <3> QED BY <3>1, <3>3, <3>4
  <2>5. v # t
    BY <1>2, <2>3, <2>4
  <2>6. 1 <= v
    BY <2>1, <2>4 DEF GTerms
  <2>7. H[v] = G[v]
    BY <1>1, <2>5
  <2> QED BY <2>1, <2>2, <2>5, <2>6, <2>7
<1>4. \A i \in Nat : ~Own(H, t, i)
  <2> SUFFICES ASSUME NEW i \in Nat, Own(H, t, i) PROVE FALSE
    OBVIOUS
  <2>1. i \in 1 .. Len(l) /\ l[i] = t
    BY <1>1 DEF Own
  <2> QED BY <1>3, <2>1
<1>5. Extends(elected, G, H)
  <2> SUFFICES ASSUME NEW u \in Nat
               PROVE  /\ Longer(G[u], H[u])
                      /\ Elected(elected, u) => \A i \in Nat : Len(G[u]) < i /\ i <= Len(H[u]) => H[u][i] = u
    BY DEF Extends
  <2>1. CASE u = t
    <3>1. 0 <= Len(l) /\ 1 .. 0 = {}
      BY LenProperties
    <3>2. Agree(l, G[t], 0)
      BY <1>2, <3>1 DEF Agree
    <3> QED BY <1>1, <1>2, <2>1, <3>2 DEF Longer
  <2>2. CASE u # t
    <3>1. H[u] = G[u]
      BY <1>1, <2>2
    <3>2. Longer(G[u], G[u])
      BY GhostIs, LongerSame
    <3>3. \A i \in Nat : ~(Len(G[u]) < i /\ i <= Len(G[u]))
      BY GhostIs
    <3> QED BY <3>1, <3>2, <3>3
  <2> QED BY <2>1, <2>2
<1>6. GTerms(H)
  <2> SUFFICES ASSUME NEW u \in Nat, NEW i \in 1 .. Len(H[u])
               PROVE  1 <= H[u][i] /\ H[u][i] <= u /\ Agree(H[u], H[H[u][i]], i)
    BY DEF GTerms
  <2>1. CASE u # t
    <3>1. H[u] = G[u]
      BY <1>1, <2>1
    <3>2. i \in 1 .. Len(G[u])
      BY <3>1
    <3> QED BY <1>1, <1>5, <3>2, TermsOn
  <2>2. CASE u = t
    <3>1. i \in 1 .. Len(l)
      BY <1>1, <2>2
    <3>2. PICK v \in Nat : /\ v = l[i] /\ v # t /\ 1 <= v /\ v <= t /\ Agree(l, H[v], i)
      BY <1>3, <3>1
    <3>3. H[u] = l
      BY <1>1, <2>2
    <3>4. H[u][i] = v
      BY <3>2, <3>3
    <3> QED BY <2>2, <3>2, <3>3, <3>4
  <2> QED BY <2>1, <2>2
<1> QED BY <1>1, <1>4, <1>5, <1>6 DEF Brought

(* The vote that completes a majority: the winner starts its log and its books. *)
LEMMA WinStep ==
    ASSUME Typed, VotesInv, NEW G \in [Nat -> Seq(Nat)], GInv(G), NEW s \in Server,
           NEW m \in msgs, CountVote(s, m), Wins(s), UNCHANGED <<log, msgs, votes>>
    PROVE  Typed' /\ VotesInv' /\ \E H \in [Nat -> Seq(Nat)] : GInv(H)'
<1>1. VoteResponse(s, m) /\ UNCHANGED <<commitIndex, rpcs, committed>>
  BY DEF CountVote
<1>2. TypeOK' /\ VotesInv'
  BY <1>1, ElectionStep DEF Next
<1>3. PICK t \in Nat, l \in Seq(Nat), d \in Nat : t = node[s].term /\ l = log[s] /\ d = Len(l)
  BY NodeIs
<1>4. /\ node[s].role = "candidate" /\ node'[s].role = "leader" /\ node'[s].term = t
      /\ \A r \in Server \ {s} : node'[r] = node[r]
      /\ elected' = elected \cup {<<t, s>>}
  BY <1>3 DEF Wins
<1>5. books' = [books EXCEPT ![s] = [commit |-> 0, match |-> [p \in Server |-> 0],
                                     next |-> [p \in Server |-> d + 1]]]
  BY <1>3, <1>4 DEF CountVote, NewBooks
<1>6. Typed'
  <2>1. [commit |-> 0, match |-> [p \in Server |-> 0], next |-> [p \in Server |-> d + 1]] \in Books
    BY DEF Books
  <2>2. books' \in [Server -> Books]
    BY <1>5, <2>1 DEF Typed, ReplicationTypeOK
  <2> QED BY <1>1, <1>2, <2>2 DEF Typed, ReplicationTypeOK
<1>7. ~Elected(elected, t)
  <2> SUFFICES ASSUME NEW x \in Server, <<t, x>> \in elected PROVE FALSE
    BY DEF Elected
  <2>0. <<t, x>>[1] = t /\ <<t, x>>[2] = x /\ <<t, s>>[1] = t /\ <<t, s>>[2] = s
    OBVIOUS
  <2>1. PICK P \in SUBSET Server : Cardinality(P) >= Majority /\ \A v \in P : <<t, v, x>> \in votes
    BY <2>0 DEF VotesInv, VoteInv, ElectedByMajority
  <2>2. PICK Q \in SUBSET Server : Cardinality(Q) >= Majority /\ \A v \in Q : <<t, v, s>> \in votes
    <3>1. ElectedByMajority'
      BY <1>2 DEF VotesInv, VoteInv
    <3>2. <<t, s>> \in elected'
      BY <1>4
    <3> QED BY <2>0, <3>1, <3>2 DEF ElectedByMajority
  <2>3. PICK v \in P \cap Q : TRUE
    BY <2>1, <2>2, MajoritiesMeet
  <2>4. x = s
    <3>1. <<t, v, x>> \in votes /\ <<t, v, s>> \in votes
      BY <2>1, <2>2, <2>3
    <3>2. <<t, v, x>>[3] = <<t, v, s>>[3]
      BY <3>1 DEF VotesInv, VoteInv, VotesUnique
    <3> QED BY <3>2
  <2>5. <<t, s>> \in elected
    BY <2>4
  <2>6. <<t, s>>[1] = node[<<t, s>>[2]].term => node[<<t, s>>[2]].role = "leader"
    BY <2>5 DEF GInv, GWon
  <2> QED BY <1>3, <1>4, <2>6
<1>8. PICK H : H = [G EXCEPT ![t] = l]
  OBVIOUS
<1>9. /\ H \in [Nat -> Seq(Nat)] /\ H[t] = l /\ \A u \in Nat \ {t} : H[u] = G[u]
      /\ Extends(elected, G, H) /\ GTerms(H)
      /\ \A i \in Nat : ~Own(H, t, i)
  <2>1. InTerm(s, t)
    BY <1>3 DEF InTerm
  <2>2. GElected(G) /\ GLogs(G) /\ GTerms(G)
    BY DEF GInv
  <2>3. Brought(G, H, t, l)
    BY <1>3, <1>7, <1>8, <2>1, <2>2, WinGhost
  <2> QED BY <2>3 DEF Brought
<1>10. \A r \in Server : node[r].term <= node'[r].term
  <2> SUFFICES ASSUME NEW r \in Server PROVE node[r].term <= node'[r].term
    OBVIOUS
  <2>1. node[r].term <= node[r].term
    BY TermIs
  <2> QED BY <1>3, <1>4, <2>1
<1>11. Grown
  BY <1>1, <1>4, <1>10 DEF Grown
<1>12. NewAcks(G, H)
  <2> SUFFICES ASSUME NEW q \in Server, NEW u \in Nat, NEW i \in Nat,
                      Own(H, u, i), AckedBy(elected', rpcs', q, u, i)
               PROVE  Own(G, u, i) /\ AckedBy(elected, rpcs, q, u, i)
    BY DEF NewAcks
  <2>1. u # t
    BY <1>9
  <2>2. Own(G, u, i)
    BY <1>9, <2>1 DEF Own
  <2>3. <<u, q>> # <<t, s>>
    BY <2>1
  <2>4. AckedBy(elected, rpcs, q, u, i)
    BY <1>1, <1>4, <2>3 DEF AckedBy
  <2> QED BY <2>2, <2>4
<1>13. StepOf(G, H)
  BY <1>9, <1>11, <1>12 DEF StepOf
<1>14. LogsGrow
  BY NodeIs, LongerSame DEF LogsGrow
<1>15. Carried(G, H)
  BY <1>1, <1>6, <1>9, <1>13, <1>14, CarriedOn
<1>16. GLeads(H)'
  <2> SUFFICES ASSUME NEW r \in Server, node'[r].role = "leader"
               PROVE  H[node'[r].term] = log[r]
    BY DEF GLeads
  <2>1. CASE r = s
    BY <1>3, <1>4, <1>9, <2>1
  <2>2. CASE r # s
    <3>1. node'[r] = node[r]
      BY <1>4, <2>2
    <3>2. <<node[r].term, r>> \in elected
      BY <3>1 DEF VotesInv, LeaderInv
    <3>3. node[r].term # t /\ node[r].term \in Nat
      BY <1>7, <3>2, TermIs DEF Elected
    <3>4. H[node[r].term] = G[node[r].term]
      BY <1>9, <3>3
    <3> QED BY <3>1, <3>4 DEF GInv, GLeads
  <2> QED BY <2>1, <2>2
<1>17. GElected(H)'
  <2> SUFFICES ASSUME NEW u \in Nat, Len(H[u]) > 0 PROVE Elected(elected', u)
    BY DEF GElected
  <2>1. CASE u = t
    BY <1>4, <2>1 DEF Elected
  <2>2. CASE u # t
    <3>1. Len(G[u]) > 0
      BY <1>9, <2>2
    <3>2. Elected(elected, u)
      BY <3>1 DEF GInv, GElected
    <3> QED BY <1>4, <3>2 DEF Elected
  <2> QED BY <2>1, <2>2
<1>18. GLogs(H)' /\ GTerms(H)'
  BY <1>9, <1>15 DEF Carried, GLogs, GTerms
<1>19. GReqs(H)' /\ GAns(H)' /\ GComm(H)'
  BY <1>1, <1>15 DEF Carried, GReqs, GAns, GComm
<1>20. GWon'
  <2>1. ASSUME NEW e \in elected'
        PROVE  /\ e[1] <= node'[e[2]].term
               /\ e[1] = node'[e[2]].term => node'[e[2]].role = "leader"
    <3>1. PICK u \in Nat, x \in Server : e = <<u, x>>
      BY <1>6 DEF Typed, TypeOK
    <3>2. CASE x = s
      <4>1. u <= t
        <5>1. CASE e \in elected
          <6>1. e[1] <= node[e[2]].term
            BY <5>1 DEF GInv, GWon
          <6> QED BY <1>3, <3>1, <3>2, <6>1
        <5>2. CASE e = <<t, s>>
          <6>1. u = t
            BY <3>1, <5>2
          <6> QED BY <6>1
        <5> QED BY <1>4, <5>1, <5>2
      <4> QED BY <1>4, <3>1, <3>2, <4>1
    <3>3. CASE x # s
      <4>1. e \in elected /\ node'[x] = node[x]
        BY <1>4, <3>1, <3>3
      <4> QED BY <3>1, <4>1 DEF GInv, GWon
    <3> QED BY <3>2, <3>3
  <2>2. ASSUME NEW r \in Server, node'[r].role # "follower" PROVE node'[r].term >= 1
    <3>1. node[r].role # "follower" /\ node'[r].term = node[r].term
      BY <1>3, <1>4, <2>2
    <3> QED BY <3>1 DEF GInv, GWon
  <2> QED BY <2>1, <2>2 DEF GWon
<1>21. GBooks'
  <2> SUFFICES ASSUME NEW r \in Server, node'[r].role = "leader" PROVE Kept(r)'
    BY DEF GBooks
  <2>1. CASE r # s
    <3>1. node'[r] = node[r] /\ books'[r] = books[r]
      BY <1>4, <1>5, <2>1 DEF Typed, ReplicationTypeOK
    <3>2. Kept(r) /\ Longer(log[r], log'[r])
      BY <1>14, <3>1 DEF GInv, GBooks, LogsGrow
    <3> QED BY <1>6, <1>11, <3>1, <3>2, KeptOn
  <2>2. CASE r = s
    <3>1. books'[s] = [commit |-> 0, match |-> [p \in Server |-> 0], next |-> [p \in Server |-> d + 1]]
      BY <1>5 DEF Typed, ReplicationTypeOK
    <3>2. /\ books'[s].commit = 0
          /\ \A p \in Server : books'[s].match[p] = 0 /\ books'[s].next[p] = d + 1
      BY <3>1
    <3>3. 1 <= d + 1 /\ d + 1 <= d + 1 /\ ~(0 > 0)
      OBVIOUS
    <3>4. Len(log'[s]) = d
      BY <1>3
    <3> QED BY <2>2, <3>2, <3>3, <3>4 DEF Kept
  <2> QED BY <2>1, <2>2
<1>22. GCand(H)'
  <2> SUFFICES ASSUME NEW r \in Server, node'[r].role = "candidate",
                      ~Elected(elected', node'[r].term),
                      NEW q \in Server, <<node'[r].term, q, r>> \in votes
               PROVE  Vouched(elected', rpcs', H, q, node'[r].term, log'[r])
    BY DEF GCand
  <2>1. node'[r] = node[r]
    BY <1>4
  <2>2. GCand(G) /\ log'[r] = log[r]
    BY DEF GInv
  <2> QED BY <1>9, <1>13, <2>1, <2>2, CandOn
<1>23. GChosen(H)'
  <2> SUFFICES ASSUME NEW e \in elected' PROVE Backed(elected', rpcs', votes', H, e)
    BY DEF GChosen
  <2>1. CASE e \in elected
    BY <1>15, <2>1 DEF Carried
  <2>2. CASE e = <<t, s>>
    <3>1. e[1] = t /\ e[2] = s
      BY <2>2
    <3>2. PICK Q \in SUBSET Server : Cardinality(Q) >= Majority /\ \A v \in Q : <<e[1], v, e[2]>> \in votes'
      BY <1>2 DEF VotesInv, VoteInv, ElectedByMajority
    <3>3. ASSUME NEW q \in Q
          PROVE  <<e[1], q, e[2]>> \in votes' /\ Vouched(elected', rpcs', H, q, e[1], H[e[1]])
      <4>1. <<t, q, s>> \in votes /\ q \in Server
        BY <3>1, <3>2
      <4>2. Vouched(elected, rpcs, G, q, t, l)
        BY <1>3, <1>4, <1>7, <4>1 DEF GInv, GCand
      <4>3. Vouched(elected', rpcs', H, q, t, l)
        BY <1>9, <1>13, <4>1, <4>2, LongerSame, VouchedOn
      <4> QED BY <1>9, <3>1, <3>2, <4>3
    <3> QED BY <3>2, <3>3 DEF Backed, Majorities
  <2> QED BY <1>4, <2>1, <2>2
<1>24. GAsked'
  <2>1. NoNewCandidate
    BY <1>4 DEF NoNewCandidate
  <2>2. \A x \in msgs : x.type = "request-vote" => Asked(x)'
    BY <1>6, <1>11, <2>1, AskedAll DEF GInv
  <2>3. \A v \in votes : v[1] <= node'[v[3]].term
    BY <1>6, <1>11, OldVotesOn DEF GInv
  <2> QED BY <2>2, <2>3 DEF GAsked, Asked
<1>25. GHeld(H)' /\ GFollow'
  BY <1>15 DEF Carried
<1>26. GInv(H)'
  BY <1>16, <1>17, <1>18, <1>19, <1>20, <1>21, <1>22, <1>23, <1>24, <1>25 DEF GInv
<1> QED BY <1>2, <1>6, <1>9, <1>26
-----------------------------------------------------------------------------
(* Steps that leave every server's term, role and log alone.               *)
LEMMA SameNode ==
    ASSUME Typed, GWon, node' = node
    PROVE  Moves /\ NoNewCandidate /\ \A r \in Server : node[r].term <= node'[r].term
<1>1. \A r \in Server : node[r].term <= node'[r].term
  BY TermIs
<1> QED BY <1>1 DEF Moves, NoNewCandidate, GWon

(* With no new candidate and no new vote, nothing is to be shown. *)
LEMMA CandAll ==
    ASSUME Typed, VotesInv, NEW G \in [Nat -> Seq(Nat)], StepOf(G, G), GCand(G), NoNewCandidate,
           log' = log, votes' = votes
    PROVE  GCand(G)'
<1> SUFFICES ASSUME NEW r \in Server, node'[r].role = "candidate",
                    ~Elected(elected', node'[r].term),
                    NEW q \in Server, <<node'[r].term, q, r>> \in votes
             PROVE  Vouched(elected', rpcs', G, q, node'[r].term, log'[r])
  BY DEF GCand
<1>1. node[r].role = "candidate" /\ node'[r].term = node[r].term
  BY DEF NoNewCandidate
<1>2. <<node[r].term, q, r>> \in votes /\ log'[r] = log[r]
  BY <1>1
<1> QED BY <1>1, <1>2, CandOn

(* A candidate asks for votes with what its log says. *)
LEMMA AskStep ==
    ASSUME Typed, VotesInv, NEW G \in [Nat -> Seq(Nat)], GInv(G), NEW s \in Server, Ask(s)
    PROVE  Typed' /\ VotesInv' /\ GInv(G)'
<1>1. /\ AskForVotes(s)
      /\ UNCHANGED <<commitIndex, books, rpcs, committed, node, log, votes, elected>>
  BY DEF Ask, replicationVars, AskForVotes
<1>2. TypeOK' /\ VotesInv'
  BY <1>1, ElectionStep DEF Next
<1>3. Typed'
  BY <1>1, <1>2 DEF Typed, ReplicationTypeOK
<1>4. Moves /\ NoNewCandidate /\ \A r \in Server : node[r].term <= node'[r].term
  BY <1>1, SameNode DEF GInv
<1>5. Grown
  BY <1>1, <1>4 DEF Grown
<1>6. Still(G)
  BY <1>1, <1>3, <1>4, <1>5, StillOn
<1>7. GCand(G)'
  <2>1. StepOf(G, G) /\ GCand(G)
    BY <1>6 DEF Still, GInv
  <2> QED BY <1>1, <1>4, <2>1, CandAll
<1>8. GAsked'
  <2>1. ASSUME NEW x \in msgs', x.type = "request-vote" PROVE Asked(x)'
    <3>1. CASE x \in msgs
      BY <1>1, <1>3, <1>4, <1>5, <2>1, <3>1, AskedAll DEF GInv
    <3>2. CASE x \notin msgs
      <4>1. x = [type |-> "request-vote", term |-> node[s].term, candidate |-> s,
                 lastIndex |-> LastIndex(s), lastTerm |-> LastTerm(s)]
        BY <1>1, <3>2 DEF AskForVotes, Send
      <4>2. /\ x.term = node[s].term /\ x.candidate = s
            /\ x.lastIndex = LastIndex(s) /\ x.lastTerm = LastTerm(s)
        BY <4>1
      <4>3. LastIndex(s)' = LastIndex(s) /\ LastTerm(s)' = LastTerm(s)
        BY <1>1 DEF LastIndex, LastTerm
      <4>4. LastIndex(x.candidate)' = LastIndex(s)' /\ LastTerm(x.candidate)' = LastTerm(s)'
        BY <4>2
      <4>5. node[s].term <= node[s].term
        BY TermIs
      <4> QED BY <1>1, <4>2, <4>3, <4>4, <4>5 DEF Asked
    <3> QED BY <3>1, <3>2
  <2>2. \A v \in votes : v[1] <= node'[v[3]].term
    BY <1>3, <1>5, OldVotesOn DEF GInv
  <2> QED BY <1>1, <2>1, <2>2 DEF GAsked, Asked
<1> QED BY <1>1, <1>2, <1>3, <1>6, <1>7, <1>8, Closing

(* What stays when the servers stand still. *)
LEMMA QuietStep ==
    ASSUME Typed, Typed', VotesInv, NEW G \in [Nat -> Seq(Nat)], GInv(G),
           UNCHANGED electionVars, commitIndex' = commitIndex,
           rpcs \subseteq rpcs', committed \subseteq committed',
           \A a \in rpcs' \ rpcs : ~(a.type = "answer" /\ a.success)
    PROVE  /\ VotesInv' /\ Still(G) /\ GCand(G)' /\ GAsked' /\ Grown
<1>1. UNCHANGED <<node, log, msgs, votes, elected>>
  BY DEF electionVars
<1>2. VotesInv'
  BY ElectionStep
<1>3. Moves /\ NoNewCandidate /\ \A r \in Server : node[r].term <= node'[r].term
  BY <1>1, SameNode DEF GInv
<1>4. Grown
  BY <1>1, <1>3 DEF Grown
<1>5. Still(G)
  BY <1>1, <1>3, <1>4, StillOn
<1>6. GCand(G)'
  <2>1. StepOf(G, G) /\ GCand(G)
    BY <1>5 DEF Still, GInv
  <2> QED BY <1>1, <1>3, <2>1, CandAll
<1>7. GAsked'
  <2>1. \A x \in msgs : x.type = "request-vote" => Asked(x)'
    BY <1>1, <1>3, <1>4, AskedAll DEF GInv
  <2>2. \A v \in votes : v[1] <= node'[v[3]].term
    BY <1>4, OldVotesOn DEF GInv
  <2> QED BY <1>1, <2>1, <2>2 DEF GAsked, Asked
<1> QED BY <1>2, <1>4, <1>5, <1>6, <1>7

(* What a leader asks of a peer is a part of its log. *)
IsSent(e, l, n, d) ==
    /\ n - 1 \in Nat /\ e \in Seq(Nat) /\ (n - 1) + Len(e) <= d
    /\ n - 1 >= 1 => TermAt(l, n - 1) = l[n - 1]
    /\ TermAt(l, n - 1) \in Nat
    /\ \A k \in 1 .. Len(e) : e[k] = l[(n - 1) + k]

(* SubSeq and TermAt of the log give such a part. *)
LEMMA SendFx ==
    ASSUME NEW l \in Seq(Nat), NEW d \in Nat, d = Len(l), NEW n \in Nat, 1 <= n, n <= d + 1,
           NEW last, last \in {n - 1, d}, NEW e, e = SubSeq(l, (n - 1) + 1, last)
    PROVE  IsSent(e, l, n, d)
<1>1. PICK p \in Nat : p = n - 1 /\ n = p + 1 /\ p <= d
  OBVIOUS
<1>2. PICK z \in Nat : z = last /\ z <= d /\ p <= z
  BY <1>1
<1>3. p + 1 \in Nat /\ p + 1 > 0 /\ z <= Len(l) /\ p + 1 <= z + 1
  BY <1>2
<1>4. e = SubSeq(l, p + 1, z)
  BY <1>1, <1>2
<1>5. /\ e \in Seq(Nat) /\ Len(e) = (z + 1) - (p + 1)
      /\ \A j \in 1 .. (z + 1) - (p + 1) : e[j] = l[((p + 1) + j) - 1]
  <2>1. PICK w \in Nat : w = p + 1
    OBVIOUS
  <2>2. w > 0 /\ z <= Len(l) /\ w <= z + 1 /\ e = SubSeq(l, w, z)
    BY <1>3, <1>4, <2>1
  <2>3. IsTail(e, l, w, z)
    BY <2>2, PartIs
  <2> QED BY <2>1, <2>3 DEF IsTail
<1>6. (z + 1) - (p + 1) = z - p /\ p + (z - p) = z
  OBVIOUS
<1>7. p + Len(e) <= d
  BY <1>2, <1>5, <1>6
<1>8. ASSUME NEW k \in 1 .. Len(e) PROVE e[k] = l[p + k]
  <2>1. ((p + 1) + k) - 1 = p + k
    OBVIOUS
  <2> QED BY <1>5, <2>1
<1>9. DOMAIN l = 1 .. d /\ \A i \in 1 .. d : l[i] \in Nat
  BY LenProperties, ElementOfSeq
<1>10. /\ p >= 1 => TermAt(l, p) = l[p]
       /\ TermAt(l, p) \in Nat
  BY <1>1, <1>9 DEF TermAt
<1> QED BY <1>1, <1>5, <1>7, <1>8, <1>10 DEF IsSent

(* A request is a part of the log of the leader of its term. *)
LEMMA SendStep ==
    ASSUME Typed, VotesInv, NEW G \in [Nat -> Seq(Nat)], GInv(G), NEW s \in Server,
           NEW p \in Server, SendAppend(s, p)
    PROVE  Typed' /\ VotesInv' /\ GInv(G)'
<1>1. /\ node[s].role = "leader" /\ p # s
      /\ UNCHANGED <<electionVars, commitIndex, books, committed>>
  BY DEF SendAppend
<1>2. PICK t \in Nat, l \in Seq(Nat), d \in Nat, b \in Books :
         t = node[s].term /\ l = log[s] /\ d = Len(l) /\ b = books[s]
  BY NodeIs
<1>3. PICK n \in Nat, c \in Nat : n = b.next[p] /\ c = b.commit
  BY BooksAre
<1>4. 1 <= n /\ n <= d + 1 /\ (c > 0 => HasCommit(committed, t, c))
  BY <1>1, <1>2, <1>3 DEF GInv, GBooks, Kept
<1>5. PICK last \in {n - 1, d} :
         rpcs' = rpcs \cup
               {[type |-> "append", term |-> t, leader |-> s, to |-> p,
                 prevIndex |-> n - 1, prevTerm |-> TermAt(l, n - 1),
                 leaderCommit |-> c,
                 entries |-> SubSeq(l, n - 1 + 1, last)]}
  BY <1>2, <1>3 DEF SendAppend
<1>6. PICK e : e = SubSeq(l, (n - 1) + 1, last)
  OBVIOUS
<1>7. /\ n - 1 \in Nat /\ e \in Seq(Nat) /\ (n - 1) + Len(e) <= d
      /\ n - 1 >= 1 => TermAt(l, n - 1) = l[n - 1]
      /\ TermAt(l, n - 1) \in Nat
      /\ \A k \in 1 .. Len(e) : e[k] = l[(n - 1) + k]
  <2>1. IsSent(e, l, n, d)
    BY <1>2, <1>4, <1>6, SendFx
  <2> QED BY <2>1 DEF IsSent
<1>8. PICK m : m = [type |-> "append", term |-> t, leader |-> s, to |-> p,
                    prevIndex |-> n - 1, prevTerm |-> TermAt(l, n - 1),
                    leaderCommit |-> c, entries |-> e]
  OBVIOUS
<1>9. rpcs' = rpcs \cup {m}
  BY <1>5, <1>6, <1>8
<1>10. m \in Request /\ m.type = "append"
  BY <1>7, <1>8 DEF Request
<1>11. Typed'
  <2>1. TypeOK'
    BY <1>1, ElectionStep
  <2> QED BY <1>1, <1>9, <1>10, <2>1 DEF Typed, ReplicationTypeOK
<1>12. \A a \in rpcs' \ rpcs : ~(a.type = "answer" /\ a.success)
  BY <1>9, <1>10
<1>13. VotesInv' /\ Still(G) /\ GCand(G)' /\ GAsked' /\ Grown
  BY <1>1, <1>9, <1>11, <1>12, QuietStep
<1>14. Served(G, m)'
  <2>1. /\ m.term = t /\ m.leader = s /\ m.to = p /\ m.prevIndex = n - 1
        /\ m.prevTerm = TermAt(l, n - 1) /\ m.leaderCommit = c /\ m.entries = e
    BY <1>8
  <2>2. G[t] = l
    BY <1>1, <1>2 DEF GInv, GLeads
  <2>3. <<t, s>> \in elected'
    BY <1>1, <1>2 DEF VotesInv, LeaderInv, electionVars
  <2>4. c > 0 => HasCommit(committed', t, c)
    BY <1>1, <1>4
  <2> QED BY <1>1, <1>2, <1>7, <2>1, <2>2, <2>3, <2>4 DEF Served
<1>15. GReqs(G)' /\ GAns(G)' /\ GComm(G)' /\ GBooks'
  <2>1. GReqs(G)'
    BY <1>9, <1>13, <1>14 DEF GReqs, Still
  <2>2. GAns(G)'
    BY <1>9, <1>10, <1>13 DEF GAns, Still
  <2>3. GComm(G)' /\ GBooks'
    BY <1>1, <1>13 DEF GComm, GBooks, Still
  <2> QED BY <2>1, <2>2, <2>3
<1> QED BY <1>11, <1>13, <1>15 DEF GInv, Still

(* What a leader learns from an answer is about its own log. *)
LEMMA AnswerFx ==
    ASSUME Typed, NEW G \in [Nat -> Seq(Nat)], GInv(G), NEW s \in Server, NEW m \in rpcs,
           Answers(s, m)
    PROVE  /\ node[s].role = "leader" /\ m.term = node[s].term /\ m.type = "answer"
           /\ m.from \in Server /\ m.index \in Nat /\ m.index <= Len(log[s])
           /\ G[node[s].term] = log[s]
<1>1. node[s].role = "leader" /\ m.term = node[s].term /\ m.type = "answer"
  BY DEF Answers
<1>2. m.from \in Server /\ m.index \in Nat
  BY <1>1, AnswerIs
<1>3. G[node[s].term] = log[s]
  BY <1>1 DEF GInv, GLeads
<1>4. m.index <= Len(G[m.term])
  BY <1>1 DEF GInv, GAns, Held
<1> QED BY <1>1, <1>2, <1>3, <1>4

(* `reject` leaves next_index within the leader's log. *)
LEMMA RejectStep ==
    ASSUME Typed, VotesInv, NEW G \in [Nat -> Seq(Nat)], GInv(G), NEW s \in Server,
           NEW m \in rpcs, Reject(s, m)
    PROVE  Typed' /\ VotesInv' /\ GInv(G)'
<1>1. /\ Answers(s, m) /\ UNCHANGED <<electionVars, commitIndex, rpcs, committed>>
      /\ books' = [books EXCEPT ![s].next[m.from] = Max({m.index, 1})]
  BY DEF Reject
<1>2. /\ node[s].role = "leader" /\ m.term = node[s].term /\ m.type = "answer"
      /\ m.from \in Server /\ m.index \in Nat /\ m.index <= Len(log[s])
  BY <1>1, AnswerFx
<1>3. PICK z : z = Max({m.index, 1})
  OBVIOUS
<1>4. z \in Nat /\ (z = m.index \/ z = 1) /\ 1 <= z
  <2>1. PICK i \in Nat, o \in Nat : i = m.index /\ o = 1
    BY <1>2
  <2>2. z = Max({i, o})
    BY <1>3, <2>1
  <2>3. z \in Nat /\ (z = i \/ z = o) /\ o <= z
    BY <2>2, MaxOfTwo
  <2> QED BY <2>1, <2>3
<1>5. books \in [Server -> Books]
  BY DEF Typed, ReplicationTypeOK
<1>6. PICK b \in Books : b = books[s]
  BY <1>5
<1>7. b.match \in [Server -> Nat] /\ b.next \in [Server -> Nat] /\ b.commit \in Nat
  BY BooksAre
<1>8. books' = [books EXCEPT ![s] = [b EXCEPT !.next = [b.next EXCEPT ![m.from] = z]]]
  BY <1>1, <1>3, <1>6
<1>9. [b.next EXCEPT ![m.from] = z] \in [Server -> Nat]
  BY <1>4, <1>7
<1>10. [b EXCEPT !.next = [b.next EXCEPT ![m.from] = z]] \in Books
  BY <1>9 DEF Books
<1>11. Typed'
  <2>1. TypeOK'
    BY <1>1, ElectionStep
  <2>2. books' \in [Server -> Books]
    BY <1>5, <1>8, <1>10
  <2> QED BY <1>1, <2>1, <2>2 DEF Typed, ReplicationTypeOK
<1>12. VotesInv' /\ Still(G) /\ GCand(G)' /\ GAsked' /\ Grown
  BY <1>1, <1>11, QuietStep
<1>13. GBooks'
  <2> SUFFICES ASSUME NEW r \in Server, node'[r].role = "leader" PROVE Kept(r)'
    BY DEF GBooks
  <2>1. CASE r # s
    <3>1. books'[r] = books[r]
      BY <1>5, <1>8, <2>1
    <3> QED BY <1>12, <3>1 DEF Still
  <2>2. CASE r = s
    <3>1. books'[s] = [b EXCEPT !.next = [b.next EXCEPT ![m.from] = z]]
      BY <1>5, <1>8
    <3>2. /\ books'[s].match = b.match /\ books'[s].commit = b.commit
          /\ books'[s].next = [b.next EXCEPT ![m.from] = z]
      BY <3>1 DEF Books
    <3>3. Kept(s)
      BY <1>2 DEF GInv, GBooks
    <3>4. UNCHANGED <<node, log, rpcs, committed>>
      BY <1>1 DEF electionVars
    <3>5. PICK d \in Nat : d = Len(log[s])
      BY NodeIs
    <3>6. z <= d + 1
      <4>1. PICK i \in Nat : i = m.index
        BY <1>2
      <4>2. i <= d /\ (z = i \/ z = 1)
        BY <1>2, <1>4, <3>5, <4>1
      <4> QED BY <4>2
    <3>7. ASSUME NEW p \in Server PROVE 1 <= books'[s].next[p] /\ books'[s].next[p] <= d + 1
      <4>1. CASE p = m.from
        BY <1>4, <1>7, <3>2, <3>6, <4>1
      <4>2. CASE p # m.from
        <5>1. books'[s].next[p] = b.next[p]
          BY <1>7, <3>2, <4>2
        <5> QED BY <1>6, <3>3, <3>5, <5>1 DEF Kept
      <4> QED BY <4>1, <4>2
    <3>8. ASSUME NEW p \in Server, books'[s].match[p] > 0
          PROVE  \E a \in rpcs : Says(a, p, node[s].term, books'[s].match[p]) /\ a.index = books'[s].match[p]
      BY <1>6, <3>2, <3>3, <3>8 DEF Kept
    <3>9. books'[s].commit > 0 => HasCommit(committed, node[s].term, books'[s].commit)
      BY <1>6, <3>2, <3>3 DEF Kept
    <3> QED BY <2>2, <3>4, <3>5, <3>7, <3>8, <3>9 DEF Kept
  <2> QED BY <2>1, <2>2
<1>14. GReqs(G)' /\ GAns(G)' /\ GComm(G)'
  BY <1>1, <1>12 DEF GReqs, GAns, GComm, Still
<1> QED BY <1>11, <1>12, <1>13, <1>14 DEF GInv, Still

(* The leader and the peers it counts are so many servers. *)
LEMMA ReplicasAre ==
    ASSUME NEW s \in Server, NEW match \in [Server -> Nat], NEW i \in Nat
    PROVE  Cardinality({s} \cup {p \in Server \ {s} : match[p] >= i}) = Replicas(s, match, i)
<1> DEFINE P == {p \in Server \ {s} : match[p] >= i}
<1>1. IsFiniteSet(P) /\ s \notin P
  BY ServerAssumption, FS_Subset
<1>2. Cardinality(P \cup {s}) = Cardinality(P) + 1 /\ Cardinality(P) \in Nat
  BY <1>1, FS_AddElement, FS_CardinalityType
<1>3. {s} \cup P = P \cup {s}
  OBVIOUS
<1> HIDE DEF P
<1>4. Cardinality({s} \cup P) = 1 + Cardinality(P)
  <2>1. Cardinality({s} \cup P) = Cardinality(P) + 1
    BY <1>2, <1>3, Zenon
  <2>2. \A k \in Nat : k + 1 = 1 + k
    OBVIOUS
  <2> QED BY <1>2, <2>1, <2>2, Zenon
<1> QED BY <1>4 DEF P, Replicas

(* A commit index that moves goes to an entry of the leader's term that a  *)
(* majority has.                                                           *)
IsAdvance(s, match, c, d, z) ==
    /\ z \in Nat
    /\ z # c => /\ 1 <= z /\ z <= d /\ Replicas(s, match, z) >= Majority
                /\ log[s][z] = node[s].term

(* What advance_commit returns. *)
LEMMA AdvanceFx ==
    ASSUME Typed, NEW s \in Server, NEW match \in [Server -> Nat], NEW c \in Nat,
           NEW d \in Nat, d = Len(log[s]), NEW z, z = AdvanceCommit(s, match, c)
    PROVE  IsAdvance(s, match, c, d, z)
<1>1. PICK Safe : Safe = {i \in (c + 1) .. Len(log[s]) :
                    Replicas(s, match, i) >= Majority /\ log[s][i] = node[s].term}
  OBVIOUS
<1>2. z = IF Safe = {} THEN c ELSE Max(Safe)
  BY <1>1 DEF AdvanceCommit
<1>3. CASE Safe = {}
  BY <1>2, <1>3 DEF IsAdvance
<1>4. CASE Safe # {}
  <2>1. Safe \in SUBSET Nat /\ \A x \in Safe : x <= d /\ 1 <= x
    BY <1>1
  <2>2. PICK x \in Safe : \A y \in Safe : y <= x
    BY <1>4, <2>1, NatMax
  <2>3. z = Max(Safe)
    BY <1>2, <1>4
  <2>4. z \in Safe
    BY <2>1, <2>2, <2>3, MaxIs
  <2>5. Replicas(s, match, z) >= Majority /\ log[s][z] = node[s].term
    BY <1>1, <2>4
  <2> QED BY <2>1, <2>4, <2>5 DEF IsAdvance
<1> QED BY <1>3, <1>4

(* The books of a leader once it has read an answer. *)
IsMatch(s, z, match) ==
    /\ z \in Nat /\ z <= Len(log[s]) /\ match \in [Server -> Nat]
    /\ \A p \in Server : match[p] > 0 =>
         \E a \in rpcs : Says(a, p, node[s].term, match[p]) /\ a.index = match[p]

(* The servers counted by `replicas` are a majority that acknowledged z. *)
LEMMA MatchFx ==
    ASSUME Typed, NEW G \in [Nat -> Seq(Nat)], GInv(G), NEW s \in Server, NEW m \in rpcs,
           Answers(s, m), m.success, NEW b \in Books, b = books[s],
           NEW z, z = Max({b.match[m.from], m.index}),
           NEW match, match = [b.match EXCEPT ![m.from] = z]
    PROVE  IsMatch(s, z, match)
<1>1. /\ node[s].role = "leader" /\ m.term = node[s].term /\ m.type = "answer"
      /\ m.from \in Server /\ m.index \in Nat /\ m.index <= Len(log[s])
      /\ G[node[s].term] = log[s]
  BY AnswerFx
<1>2. PICK q \in Server, i \in Nat : q = m.from /\ i = m.index
  BY <1>1
<1>3. b.match \in [Server -> Nat]
  BY BooksAre
<1>4. PICK o \in Nat : o = b.match[q]
  BY <1>3
<1>5. z = Max({o, i})
  BY <1>2, <1>4
<1>6. z \in Nat /\ (z = o \/ z = i)
  BY <1>5, MaxOfTwo
<1>7. match \in [Server -> Nat] /\ match[q] = z /\ \A p \in Server \ {q} : match[p] = b.match[p]
  BY <1>2, <1>3, <1>6
<1>8. \A p \in Server : b.match[p] > 0 =>
        \E a \in rpcs : Says(a, p, node[s].term, b.match[p]) /\ a.index = b.match[p]
  BY <1>1 DEF GInv, GBooks, Kept
<1>9. Says(m, q, node[s].term, i) /\ m.index = i
  <2>1. i >= i
    OBVIOUS
  <2> QED BY <1>1, <1>2, <2>1 DEF Says
<1>10. ASSUME NEW p \in Server, match[p] > 0
       PROVE  \E a \in rpcs : Says(a, p, node[s].term, match[p]) /\ a.index = match[p]
  <2>0. ASSUME match[p] = b.match[p]
        PROVE  \E a \in rpcs : Says(a, p, node[s].term, match[p]) /\ a.index = match[p]
    <3>1. b.match[p] > 0
      BY <1>10, <2>0
    <3>2. PICK a \in rpcs : Says(a, p, node[s].term, b.match[p]) /\ a.index = b.match[p]
      BY <1>8, <3>1
    <3> QED BY <2>0, <3>2
  <2>1. CASE p # q
    BY <1>7, <2>0, <2>1
  <2>2. CASE p = q /\ z = o
    BY <1>4, <1>7, <2>0, <2>2
  <2>3. CASE p = q /\ z = i
    BY <1>7, <1>9, <2>3
  <2> QED BY <1>6, <2>1, <2>2, <2>3
<1>11. z <= Len(log[s])
  <2>1. PICK d \in Nat : d = Len(log[s])
    BY NodeIs
  <2>2. CASE z = 0
    BY <2>1, <2>2
  <2>3. CASE z # 0
    <3>1. match[q] > 0
      BY <1>6, <1>7, <2>3
    <3>2. PICK a \in rpcs : Says(a, q, node[s].term, match[q]) /\ a.index = match[q]
      BY <1>10, <3>1
    <3>3. a.index <= Len(G[a.term]) /\ a.term = node[s].term
      BY <3>2 DEF GInv, GAns, Held, Says
    <3> QED BY <1>1, <1>7, <3>2, <3>3
  <2> QED BY <2>2, <2>3
<1> QED BY <1>6, <1>7, <1>10, <1>11 DEF IsMatch

(* What the leader commits is a prefix of its log a majority acknowledged. *)
IsCommit(G, c, t, k) ==
    c.term = t /\ c.log \in Seq(Nat) /\ Len(c.log) = k /\ Chose(G, c)

(* What a leader commits was chosen by that majority. *)
LEMMA CommitFx ==
    ASSUME Typed, VotesInv, NEW G \in [Nat -> Seq(Nat)], GLeads(G), NEW s \in Server,
           node[s].role = "leader", NEW t \in Nat, InTerm(s, t), NEW l \in Seq(Nat), l = log[s],
           NEW match \in [Server -> Nat],
           \A p \in Server : match[p] > 0 => \E a \in rpcs : Says(a, p, t, match[p]),
           NEW k \in Nat, 1 <= k, k <= Len(l), l[k] = t, Replicas(s, match, k) >= Majority,
           NEW c, c = [term |-> t, log |-> SubSeq(l, 1, k)]
    PROVE  IsCommit(G, c, t, k)
<1>1. PICK w : w = SubSeq(l, 1, k)
  OBVIOUS
<1>2. w \in Seq(Nat) /\ Len(w) = k /\ \A j \in 1 .. k : w[j] = l[j]
  <2>1. PICK o \in Nat : o = 1
    OBVIOUS
  <2>2. o > 0 /\ o <= k + 1 /\ w = SubSeq(l, o, k)
    BY <1>1, <2>1
  <2>3. IsTail(w, l, o, k)
    BY <2>2, PartIs
  <2>4. (k + 1) - 1 = k /\ \A j \in 1 .. k : (1 + j) - 1 = j
    OBVIOUS
  <2> QED BY <2>1, <2>3, <2>4 DEF IsTail
<1>3. c.term = t /\ c.log = w
  BY <1>1
<1>4. G[t] = l
  BY DEF GLeads, InTerm
<1>5. Agree(w, G[t], k)
  <2>1. k <= k
    OBVIOUS
  <2> QED BY <1>2, <1>4, <2>1 DEF Agree
<1>6. w[k] = t
  <2>1. k \in 1 .. k
    OBVIOUS
  <2> QED BY <1>2, <2>1
<1>7. PICK Q : Q = {s} \cup {p \in Server \ {s} : match[p] >= k}
  OBVIOUS
<1>8. Q \in Majorities
  <2>1. Cardinality(Q) >= Majority
    BY <1>7, ReplicasAre
  <2>2. Q \in SUBSET Server
    BY <1>7
  <2> QED BY <2>1, <2>2 DEF Majorities
<1>9. ASSUME NEW q \in Q PROVE AckedBy(elected, rpcs, q, t, k)
  <2>1. CASE q = s
    BY <2>1 DEF AckedBy, InTerm, VotesInv, LeaderInv
  <2>2. CASE q # s
    <3>1. q \in Server /\ match[q] >= k
      BY <1>7, <2>2
    <3>2. PICK n \in Nat : n = match[q]
      BY <3>1
    <3>3. n > 0 /\ n >= k
      BY <3>1, <3>2
    <3>4. PICK a \in rpcs : Says(a, q, t, n)
      BY <3>1, <3>2, <3>3
    <3>5. /\ a.type = "answer" /\ a.success /\ a.from = q /\ a.term = t /\ a.index >= n
      BY <3>4 DEF Says
    <3>6. PICK j \in Nat : j = a.index
      BY <3>5, AnswerIs
    <3>7. a.index >= k
      <4>1. j >= n
        BY <3>5, <3>6
      <4>2. j >= k
        BY <3>3, <4>1
      <4> QED BY <3>6, <4>2
    <3> QED BY <3>5, <3>7 DEF AckedBy, Says
  <2> QED BY <2>1, <2>2
<1>10. Chose(G, c)
  BY <1>2, <1>3, <1>5, <1>6, <1>8, <1>9 DEF Chose
<1> QED BY <1>2, <1>3, <1>10 DEF IsCommit

(* `ack`: match_index is what an answer said, and a majority backs a new commit. *)
LEMMA AckStep ==
    ASSUME Typed, VotesInv, NEW G \in [Nat -> Seq(Nat)], GInv(G), NEW s \in Server,
           NEW m \in rpcs, Ack(s, m)
    PROVE  Typed' /\ VotesInv' /\ GInv(G)'
<1>1. Answers(s, m) /\ m.success /\ UNCHANGED <<electionVars, commitIndex, rpcs>>
  BY DEF Ack
<1>2. /\ node[s].role = "leader" /\ m.term = node[s].term /\ m.type = "answer"
      /\ m.from \in Server /\ m.index \in Nat /\ m.index <= Len(log[s])
      /\ G[node[s].term] = log[s]
  BY <1>1, AnswerFx
<1>3. PICK t \in Nat, l \in Seq(Nat), d \in Nat, b \in Books, q \in Server :
         t = node[s].term /\ l = log[s] /\ d = Len(l) /\ b = books[s] /\ q = m.from
  BY <1>2, NodeIs
<1>4. PICK z : z = Max({b.match[m.from], m.index})
  OBVIOUS
<1>5. PICK match : match = [b.match EXCEPT ![m.from] = z]
  OBVIOUS
<1>6. /\ z \in Nat /\ z <= Len(log[s]) /\ match \in [Server -> Nat]
      /\ \A p \in Server : match[p] > 0 =>
           \E a \in rpcs : Says(a, p, node[s].term, match[p]) /\ a.index = match[p]
  <2>1. IsMatch(s, z, match)
    BY <1>1, <1>3, <1>4, <1>5, MatchFx
  <2> QED BY <2>1 DEF IsMatch
<1>7. b.match \in [Server -> Nat] /\ b.next \in [Server -> Nat] /\ b.commit \in Nat
  BY BooksAre
<1>8. PICK k : k = AdvanceCommit(s, match, b.commit)
  OBVIOUS
<1>9. /\ k \in Nat
      /\ k # b.commit => /\ 1 <= k /\ k <= d /\ Replicas(s, match, k) >= Majority
                         /\ log[s][k] = node[s].term
  <2>1. PICK o \in Nat : o = b.commit
    BY <1>7
  <2>2. d = Len(log[s]) /\ k = AdvanceCommit(s, match, o) /\ match \in [Server -> Nat]
    BY <1>3, <1>6, <1>8, <2>1
  <2>3. IsAdvance(s, match, o, d, k)
    BY <2>2, AdvanceFx
  <2> QED BY <2>1, <2>3 DEF IsAdvance
<1>10. PICK y : y = Max({b.next[q], z + 1})
  OBVIOUS
<1>11. PICK next : next = [b.next EXCEPT ![q] = y]
  OBVIOUS
<1>12. PICK c : c = [term |-> t, log |-> SubSeq(l, 1, k)]
  OBVIOUS
<1>13. /\ books' = [books EXCEPT ![s] = [commit |-> k, match |-> match, next |-> next]]
       /\ committed' = IF k = b.commit THEN committed ELSE committed \cup {c}
  BY <1>3, <1>4, <1>5, <1>8, <1>10, <1>11, <1>12 DEF Ack
<1>14. y \in Nat /\ (y = b.next[q] \/ y = z + 1)
  <2>1. PICK o \in Nat : o = b.next[q]
    BY <1>7
  <2>2. PICK n \in Nat : n = z + 1
    BY <1>6
  <2>3. y = Max({o, n})
    BY <1>10, <2>1, <2>2
  <2>4. y \in Nat /\ (y = o \/ y = n)
    BY <2>3, MaxOfTwo
  <2> QED BY <2>1, <2>2, <2>4
<1>15. next \in [Server -> Nat] /\ next[q] = y /\ \A p \in Server \ {q} : next[p] = b.next[p]
  BY <1>7, <1>11, <1>14
<1>16. k # b.commit => c.term = t /\ c.log \in Seq(Nat) /\ Len(c.log) = k /\ Chose(G, c)
  <2> SUFFICES ASSUME k # b.commit
               PROVE  c.term = t /\ c.log \in Seq(Nat) /\ Len(c.log) = k /\ Chose(G, c)
    OBVIOUS
  <2>1. InTerm(s, t) /\ GLeads(G)
    BY <1>3 DEF InTerm, GInv
  <2>2. 1 <= k /\ k <= Len(l) /\ l[k] = t /\ Replicas(s, match, k) >= Majority
    BY <1>3, <1>9
  <2>3. \A p \in Server : match[p] > 0 => \E a \in rpcs : Says(a, p, t, match[p])
    BY <1>3, <1>6
  <2>4. match \in [Server -> Nat] /\ k \in Nat /\ l = log[s]
    BY <1>3, <1>6, <1>9
  <2>5. IsCommit(G, c, t, k)
    BY <1>2, <1>12, <2>1, <2>2, <2>3, <2>4, CommitFx
  <2> QED BY <2>5 DEF IsCommit
<1>17. committed \subseteq committed' /\ \A x \in committed' \ committed : x = c /\ k # b.commit
  BY <1>13
<1>18. books \in [Server -> Books] /\ [commit |-> k, match |-> match, next |-> next] \in Books
  BY <1>6, <1>9, <1>15 DEF Typed, ReplicationTypeOK, Books
<1>19. Typed'
  <2>1. TypeOK'
    BY <1>1, ElectionStep
  <2>2. books' \in [Server -> Books]
    BY <1>13, <1>18
  <2>3. \A x \in committed' : x.term \in Nat /\ x.log \in Seq(Nat)
    BY <1>16, <1>17 DEF Typed, ReplicationTypeOK
  <2> QED BY <1>1, <2>1, <2>2, <2>3 DEF Typed, ReplicationTypeOK
<1>20. VotesInv' /\ Still(G) /\ GCand(G)' /\ GAsked' /\ Grown
  BY <1>1, <1>17, <1>19, QuietStep
<1>21. GComm(G)'
  <2> SUFFICES ASSUME NEW x \in committed' PROVE Chose(G, x)'
    BY DEF GComm
  <2>1. CASE x \in committed
    BY <1>20, <2>1 DEF Still
  <2>2. CASE x \notin committed
    <3>1. x = c /\ Chose(G, c)
      BY <1>16, <1>17, <2>2
    <3> QED BY <1>1, <3>1 DEF Chose, electionVars
  <2> QED BY <2>1, <2>2
<1>22. GBooks'
  <2> SUFFICES ASSUME NEW r \in Server, node'[r].role = "leader" PROVE Kept(r)'
    BY DEF GBooks
  <2>1. CASE r # s
    <3>1. books'[r] = books[r]
      BY <1>13, <1>18, <2>1
    <3> QED BY <1>20, <3>1 DEF Still
  <2>2. CASE r = s
    <3>1. books'[s].match = match /\ books'[s].commit = k /\ books'[s].next = next
      BY <1>13, <1>18
    <3>2. Kept(s)
      BY <1>2 DEF GInv, GBooks
    <3>3. UNCHANGED <<node, log, rpcs>>
      BY <1>1 DEF electionVars
    <3>4. ASSUME NEW p \in Server PROVE 1 <= next[p] /\ next[p] <= d + 1
      <4>1. 1 <= b.next[p] /\ b.next[p] <= d + 1
        BY <1>3, <3>2 DEF Kept
      <4>2. z <= d
        BY <1>3, <1>6
      <4>3. 1 <= z + 1 /\ z + 1 <= d + 1
        BY <1>6, <4>2
      <4>4. CASE p = q
        BY <1>14, <1>15, <4>1, <4>3, <4>4
      <4>5. CASE p # q
        BY <1>15, <4>1, <4>5
      <4> QED BY <4>4, <4>5
    <3>5. k > 0 => HasCommit(committed', t, k)
      <4>1. CASE k = b.commit
        <5>1. k > 0 => HasCommit(committed, t, k)
          BY <1>3, <3>2, <4>1 DEF Kept
        <5> QED BY <1>17, <5>1, CommitOn
      <4>2. CASE k # b.commit
        <5>1. c \in committed' /\ c.term = t /\ Len(c.log) = k
          BY <1>13, <1>16, <4>2
        <5> QED BY <5>1 DEF HasCommit
      <4> QED BY <4>1, <4>2
    <3> QED BY <1>3, <1>6, <2>2, <3>1, <3>3, <3>4, <3>5 DEF Kept
  <2> QED BY <2>1, <2>2
<1>23. GReqs(G)' /\ GAns(G)'
  BY <1>1, <1>20 DEF GReqs, GAns, Still
<1> QED BY <1>19, <1>20, <1>21, <1>22, <1>23 DEF GInv, Still
-----------------------------------------------------------------------------
(* What is not the last is one of the others. *)
LEMMA ButLast ==
    \A i \in Nat, d \in Nat :
        i \in 1 .. d + 1 => i = d + 1 \/ (1 <= i /\ i <= d /\ i \in 1 .. d)
OBVIOUS

(* A log with one more entry. *)
IsOneMore(l, t, d, r) ==
    r \in Seq(Nat) /\ Len(r) = d + 1 /\ r[d + 1] = t /\ Longer(l, r)

(* Append is such a log. *)
LEMMA OneMore ==
    ASSUME NEW l \in Seq(Nat), NEW t \in Nat, NEW d \in Nat, d = Len(l), NEW r, r = Append(l, t)
    PROVE  IsOneMore(l, t, d, r)
<1>1. r \in Seq(Nat) /\ Len(r) = d + 1 /\ r[d + 1] = t /\ \A j \in 1 .. d : r[j] = l[j]
  BY AppendProperties
<1>2. d <= d + 1 /\ d <= d
  OBVIOUS
<1>3. Agree(r, l, d)
  BY <1>1, <1>2 DEF Agree
<1> QED BY <1>1, <1>3 DEF IsOneMore, Longer

(* The leader of t appends an entry of its own term. *)
Lengthened(G, H, t, d) ==
    /\ Extends(elected, G, H) /\ GTerms(H)
    /\ \A u \in Nat, i \in Nat : Own(H, u, i) => Own(G, u, i) \/ (u = t /\ i = d + 1)

(* G's log of t with that entry. *)
LEMMA AppendGhost ==
    ASSUME NEW G \in [Nat -> Seq(Nat)], GTerms(G), NEW t \in Nat, 1 <= t, NEW l \in Seq(Nat),
           G[t] = l, NEW d \in Nat, d = Len(l), NEW r, IsOneMore(l, t, d, r),
           NEW H, H = [G EXCEPT ![t] = r]
    PROVE  /\ H \in [Nat -> Seq(Nat)] /\ H[t] = r /\ \A u \in Nat \ {t} : H[u] = G[u]
           /\ Lengthened(G, H, t, d)
<1>1. r \in Seq(Nat) /\ Len(r) = d + 1 /\ r[d + 1] = t /\ Longer(l, r)
  BY DEF IsOneMore
<1>2. H \in [Nat -> Seq(Nat)] /\ H[t] = r /\ \A u \in Nat \ {t} : H[u] = G[u]
  BY <1>1
<1>3. ASSUME NEW i \in Nat, d < i, i <= d + 1 PROVE i = d + 1
  BY <1>3
<1>4. Extends(elected, G, H)
  <2> SUFFICES ASSUME NEW u \in Nat
               PROVE  /\ Longer(G[u], H[u])
                      /\ \A i \in Nat : Len(G[u]) < i /\ i <= Len(H[u]) => H[u][i] = u
    BY DEF Extends
  <2>1. CASE u = t
    BY <1>1, <1>2, <1>3, <2>1
  <2>2. CASE u # t
    <3>1. H[u] = G[u]
      BY <1>2, <2>2
    <3>2. Longer(G[u], G[u]) /\ \A i \in Nat : ~(Len(G[u]) < i /\ i <= Len(G[u]))
      BY GhostIs, LongerSame
    <3> QED BY <3>1, <3>2
  <2> QED BY <2>1, <2>2
<1>5. GTerms(H)
  <2> SUFFICES ASSUME NEW u \in Nat, NEW i \in 1 .. Len(H[u])
               PROVE  1 <= H[u][i] /\ H[u][i] <= u /\ Agree(H[u], H[H[u][i]], i)
    BY DEF GTerms
  <2>1. CASE i \in 1 .. Len(G[u])
    BY <1>2, <1>4, <2>1, TermsOn
  <2>2. CASE i \notin 1 .. Len(G[u])
    <3>1. u = t
      BY <1>2, <2>2
    <3>2. i = d + 1
      <4>1. i \in 1 .. d + 1 /\ i \notin 1 .. d
        BY <1>1, <1>2, <2>2, <3>1
      <4>2. i \in Nat
        BY <4>1
      <4> QED BY <4>1, <4>2, ButLast, Zenon
    <3>3. H[u][i] = t /\ H[u] = r
      BY <1>1, <1>2, <3>1, <3>2
    <3>4. Agree(r, r, i)
      <4>1. i \in Nat /\ i <= Len(r)
        BY <1>1, <3>2
      <4> QED BY <1>1, <4>1, AgreeSame
    <3>5. t <= t
      OBVIOUS
    <3> QED BY <1>2, <3>1, <3>3, <3>4, <3>5
  <2> QED BY <2>1, <2>2
<1>6. ASSUME NEW u \in Nat, NEW i \in Nat, Own(H, u, i), ~(u = t /\ i = d + 1)
      PROVE  Own(G, u, i)
  <2>1. CASE u # t
    BY <1>2, <1>6, <2>1 DEF Own
  <2>2. CASE u = t
    <3>1. i \in 1 .. d + 1 /\ i # d + 1 /\ r[i] = t
      BY <1>1, <1>2, <1>6, <2>2 DEF Own
    <3>2. i \in 1 .. d
      BY <3>1, ButLast, Zenon
    <3>3. r[i] = l[i] /\ i \in 1 .. Len(l)
      BY <1>1, <3>2 DEF Longer, Agree
    <3> QED BY <2>2, <3>1, <3>3 DEF Own
  <2> QED BY <2>1, <2>2
<1> QED BY <1>2, <1>4, <1>5, <1>6 DEF Lengthened

(* `append`: only the leader itself has acknowledged its new entry. *)
LEMMA ClientAppendStep ==
    ASSUME Typed, VotesInv, NEW G \in [Nat -> Seq(Nat)], GInv(G), NEW s \in Server, ClientAppend(s)
    PROVE  Typed' /\ VotesInv' /\ \E H \in [Nat -> Seq(Nat)] : GInv(H)'
<1>1. PICK t \in Nat, l \in Seq(Nat), d \in Nat : t = node[s].term /\ l = log[s] /\ d = Len(l)
  BY NodeIs
<1>2. PICK r : r = Append(l, t)
  OBVIOUS
<1>3. /\ node[s].role = "leader" /\ log' = [log EXCEPT ![s] = r]
      /\ UNCHANGED <<node, msgs, votes, elected, commitIndex, books, rpcs, committed>>
  BY <1>1, <1>2 DEF ClientAppend, LogAppend, replicationVars
<1>4. r \in Seq(Nat) /\ Len(r) = d + 1 /\ r[d + 1] = t /\ Longer(l, r) /\ IsOneMore(l, t, d, r)
  <2>1. IsOneMore(l, t, d, r)
    BY <1>1, <1>2, OneMore
  <2> QED BY <2>1 DEF IsOneMore
<1>5. log'[s] = r /\ \A x \in Server \ {s} : log'[x] = log[x]
  BY <1>3 DEF Typed, TypeOK
<1>6. Typed'
  <2>1. log' \in [Server -> Seq(Nat)]
    BY <1>3, <1>4 DEF Typed, TypeOK
  <2> QED BY <1>3, <2>1 DEF Typed, TypeOK, ReplicationTypeOK
<1>7. VotesInv'
  <2>1. VoteInv'
    BY <1>3, QuietVotes DEF VotesInv
  <2>2. LeaderInv'
    BY <1>3 DEF VotesInv, LeaderInv, LeaderWasElected
  <2> QED BY <2>1, <2>2 DEF VotesInv
<1>8. G[t] = l /\ 1 <= t /\ <<t, s>> \in elected
  <2>1. node[s].term >= 1
    BY <1>3 DEF GInv, GWon
  <2> QED BY <1>1, <1>3, <2>1 DEF GInv, GLeads, VotesInv, LeaderInv
<1>9. PICK H : H = [G EXCEPT ![t] = r]
  OBVIOUS
<1>10. /\ H \in [Nat -> Seq(Nat)] /\ H[t] = r /\ \A u \in Nat \ {t} : H[u] = G[u]
       /\ Lengthened(G, H, t, d)
  <2>1. GTerms(G)
    BY DEF GInv
  <2> QED BY <1>1, <1>4, <1>8, <1>9, <2>1, AppendGhost
<1>11. /\ Extends(elected, G, H) /\ GTerms(H)
       /\ \A u \in Nat, i \in Nat : Own(H, u, i) => Own(G, u, i) \/ (u = t /\ i = d + 1)
  BY <1>10 DEF Lengthened
<1>12. \A x \in Server : <<t, x>> \in elected => x = s
  <2>1. OneLeaderPerTerm
    BY WinnersAgree DEF Typed, VotesInv
  <2>2. \A x \in Server : <<t, x>>[1] = t /\ <<t, x>>[2] = x
    OBVIOUS
  <2> QED BY <1>8, <2>1, <2>2 DEF OneLeaderPerTerm
<1>13. Moves /\ NoNewCandidate /\ \A x \in Server : node[x].term <= node'[x].term
  BY <1>3, SameNode DEF GInv
<1>14. Grown
  BY <1>3, <1>13 DEF Grown
<1>15. NewAcks(G, H)
  <2> SUFFICES ASSUME NEW q \in Server, NEW u \in Nat, NEW i \in Nat, Own(H, u, i),
                      AckedBy(elected, rpcs, q, u, i), ~Own(G, u, i)
               PROVE  node[q].term <= u /\ Agree(log'[q], H[u], i)
    BY <1>3 DEF NewAcks
  <2>1. u = t /\ i = d + 1
    BY <1>11
  <2>2. ASSUME NEW a \in rpcs, Says(a, q, t, d + 1) PROVE FALSE
    <3>1. a.type = "answer" /\ a.term = t /\ a.index >= d + 1
      BY <2>2 DEF Says
    <3>2. a.index \in Nat
      BY <3>1, AnswerIs
    <3>3. Held(G, a)
      BY <3>1 DEF GInv, GAns
    <3>4. a.index <= d
      BY <1>1, <1>8, <3>1, <3>3 DEF Held
    <3>5. PICK k \in Nat : k = a.index
      BY <3>2
    <3>6. k >= d + 1 /\ k <= d
      BY <3>1, <3>4, <3>5
    <3> QED BY <3>6
  <2>3. q = s
    BY <1>12, <2>1, <2>2 DEF AckedBy
  <2>4. Agree(r, r, i)
    <3>1. i <= Len(r)
      BY <1>4, <2>1
    <3> QED BY <1>4, <3>1, AgreeSame
  <2>5. node[q].term <= u
    <3>1. t <= t
      OBVIOUS
    <3> QED BY <1>1, <2>1, <2>3, <3>1
  <2> QED BY <1>5, <1>10, <2>1, <2>3, <2>4, <2>5
<1>16. StepOf(G, H)
  BY <1>11, <1>14, <1>15 DEF StepOf
<1>17. LogsGrow
  <2> SUFFICES ASSUME NEW x \in Server PROVE Longer(log[x], log'[x])
    BY DEF LogsGrow
  <2>1. CASE x = s
    BY <1>1, <1>4, <1>5, <2>1
  <2>2. CASE x # s
    <3>1. log'[x] = log[x] /\ log[x] \in Seq(Nat)
      BY <1>5, <2>2, NodeIs
    <3> QED BY <3>1, LongerSame
  <2> QED BY <2>1, <2>2
<1>18. Carried(G, H)
  BY <1>3, <1>6, <1>10, <1>16, <1>17, CarriedOn
<1>19. GLeads(H)'
  <2> SUFFICES ASSUME NEW x \in Server, node[x].role = "leader"
               PROVE  H[node[x].term] = log'[x]
    BY <1>3 DEF GLeads
  <2>1. CASE x = s
    BY <1>1, <1>5, <1>10, <2>1
  <2>2. CASE x # s
    <3>1. <<node[x].term, x>> \in elected
      BY DEF VotesInv, LeaderInv
    <3>2. node[x].term # t /\ node[x].term \in Nat
      BY <1>12, <2>2, <3>1, TermIs
    <3>3. H[node[x].term] = G[node[x].term]
      BY <1>10, <3>2
    <3> QED BY <1>5, <2>2, <3>3 DEF GInv, GLeads
  <2> QED BY <2>1, <2>2
<1>20. GElected(H)'
  <2> SUFFICES ASSUME NEW u \in Nat, Len(H[u]) > 0 PROVE Elected(elected, u)
    BY <1>3 DEF GElected
  <2>1. CASE u = t
    BY <1>8, <2>1 DEF Elected
  <2>2. CASE u # t
    BY <1>10, <2>2 DEF GInv, GElected
  <2> QED BY <2>1, <2>2
<1>21. GLogs(H)'
  <2> SUFFICES ASSUME NEW x \in Server, NEW i \in 1 .. Len(log'[x])
               PROVE  log'[x][i] <= node'[x].term /\ Agree(log'[x], H[log'[x][i]], i)
    BY DEF GLogs
  <2>1. CASE i \in 1 .. Len(log[x])
    BY <1>18, <2>1 DEF Carried
  <2>2. CASE i \notin 1 .. Len(log[x])
    <3>1. x = s
      BY <1>5, <2>2
    <3>2. i = d + 1
      <4>1. i \in 1 .. d + 1 /\ i \notin 1 .. d
        BY <1>1, <1>4, <1>5, <2>2, <3>1
      <4>2. i \in Nat
        BY <4>1
      <4> QED BY <4>1, <4>2, ButLast, Zenon
    <3>3. log'[x][i] = t /\ log'[x] = r
      BY <1>4, <1>5, <3>1, <3>2
    <3>4. Agree(r, r, i)
      <4>1. i \in Nat /\ i <= Len(r)
        BY <1>4, <3>2
      <4> QED BY <1>4, <4>1, AgreeSame
    <3>5. t <= node'[x].term
      <4>1. t <= t
        OBVIOUS
      <4> QED BY <1>1, <1>3, <3>1, <4>1
    <3> QED BY <1>10, <3>3, <3>4, <3>5
  <2> QED BY <2>1, <2>2
<1>22. GReqs(H)' /\ GAns(H)' /\ GComm(H)' /\ GChosen(H)' /\ GHeld(H)' /\ GFollow'
  BY <1>3, <1>18 DEF Carried, GReqs, GAns, GComm, GChosen
<1>23. GWon'
  BY <1>3 DEF GInv, GWon
<1>24. GBooks'
  <2> SUFFICES ASSUME NEW x \in Server, node[x].role = "leader" PROVE Kept(x)'
    BY <1>3 DEF GBooks
  <2>1. Kept(x) /\ Longer(log[x], log'[x])
    BY <1>17 DEF GInv, GBooks, LogsGrow
  <2> QED BY <1>3, <1>6, <1>14, <2>1, KeptOn
<1>25. GCand(H)'
  <2> SUFFICES ASSUME NEW x \in Server, node'[x].role = "candidate",
                      ~Elected(elected', node'[x].term),
                      NEW q \in Server, <<node'[x].term, q, x>> \in votes
               PROVE  Vouched(elected', rpcs', H, q, node'[x].term, log'[x])
    BY <1>3 DEF GCand
  <2>1. node'[x] = node[x] /\ x # s
    BY <1>3
  <2>2. GCand(G) /\ log'[x] = log[x]
    BY <1>5, <2>1 DEF GInv
  <2> QED BY <1>10, <1>16, <2>1, <2>2, CandOn
<1>26. GAsked'
  <2>1. ASSUME NEW m \in msgs, m.type = "request-vote" PROVE Asked(m)'
    <3>1. PICK c \in Server : c = m.candidate
      BY <2>1, VoteRequestIs
    <3>2. /\ m.term <= node[c].term
          /\ node[c].role = "candidate" /\ node[c].term = m.term
               => m.lastIndex = LastIndex(c) /\ m.lastTerm = LastTerm(c)
      BY <2>1, <3>1 DEF GInv, GAsked
    <3>3. ASSUME node[c].role = "candidate"
          PROVE  LastIndex(c)' = LastIndex(c) /\ LastTerm(c)' = LastTerm(c)
      <4>1. log'[c] = log[c]
        BY <1>3, <1>5, <3>3
      <4> QED BY <4>1 DEF LastIndex, LastTerm
    <3>4. LastIndex(m.candidate)' = LastIndex(c)' /\ LastTerm(m.candidate)' = LastTerm(c)'
      BY <3>1
    <3> QED BY <1>3, <3>1, <3>2, <3>3, <3>4 DEF Asked
  <2>2. \A v \in votes : v[1] <= node'[v[3]].term
    BY <1>6, <1>14, OldVotesOn DEF GInv
  <2> QED BY <1>3, <2>1, <2>2 DEF GAsked, Asked
<1>27. GTerms(H)'
  BY <1>11 DEF GTerms
<1>28. GInv(H)'
  BY <1>19, <1>20, <1>21, <1>22, <1>23, <1>24, <1>25, <1>26, <1>27 DEF GInv
<1> QED BY <1>6, <1>7, <1>10, <1>28
-----------------------------------------------------------------------------
(* A server that hears from the leader p of term t follows it.             *)
Followed(s, t) ==
    /\ TypeOK' /\ VotesInv' /\ Turned(s)
    /\ node'[s].term = t /\ node'[s].role = "follower"

(* It casts no vote by that, and was not the leader of t itself. *)
LEMMA FollowFx ==
    ASSUME Typed, VotesInv, NEW s \in Server, NEW t \in Nat, NEW p \in Server, p # s,
           <<t, p>> \in elected, NEW b \in Nat, InTerm(s, b), b <= t,
           node' = [node EXCEPT ![s] = [At(s, t) EXCEPT !.role = "follower", !.leader = p]],
           UNCHANGED <<msgs, votes, elected>>, log' \in [Server -> Seq(Nat)]
    PROVE  Followed(s, t)
<1> DEFINE n == At(s, t)
<1>1. node[s].term = b /\ node[s] \in Election /\ TypeOK /\ VoteInv /\ LeaderInv
  BY NodeIs DEF InTerm, Typed, VotesInv
<1>2. /\ n \in Election
      /\ n.term = IF t > node[s].term THEN t ELSE node[s].term
      /\ t > node[s].term => n.granters = {}
      /\ ~(t > node[s].term) => n = node[s]
  BY <1>1, AtFacts
<1>3. /\ n.term = t
      /\ t # b => t > b /\ n.granters = {}
      /\ t = b => n = node[s]
  <2>1. t > b \/ t = b
    OBVIOUS
  <2>2. t = b => ~(t > b)
    OBVIOUS
  <2> QED BY <1>1, <1>2, <2>1, <2>2
<1> HIDE DEF n
<1>4. node' = [node EXCEPT ![s] = [n EXCEPT !.role = "follower", !.leader = p]]
  BY DEF n
<1>5. [n EXCEPT !.role = "follower", !.leader = p] \in Election
  BY <1>2 DEF Election, Role
<1>6. /\ node'[s] = [n EXCEPT !.role = "follower", !.leader = p]
      /\ \A r \in Server \ {s} : node'[r] = node[r]
  BY <1>4 DEF Typed, TypeOK
<1>7. /\ node'[s].term = t /\ node'[s].role = "follower" /\ node'[s].leader = p
      /\ node'[s].votedFor = n.votedFor /\ node'[s].granters = n.granters
  <2>1. n \in Election
    BY <1>2
  <2>2. PICK f : f = [n EXCEPT !.role = "follower", !.leader = p]
    OBVIOUS
  <2>3. /\ f.term = n.term /\ f.role = "follower" /\ f.leader = p
        /\ f.votedFor = n.votedFor /\ f.granters = n.granters
    BY <2>1, <2>2 DEF Election
  <2>4. node'[s] = f
    BY <1>6, <2>2
  <2> QED BY <1>3, <2>3, <2>4
<1>8. TypeOK'
  BY <1>4, <1>5 DEF Typed, TypeOK
<1>9. Turned(s)
  <2>1. ASSUME t = b, node[s].role = "leader" PROVE FALSE
    <3>1. <<t, s>> \in elected
      BY <1>1, <2>1 DEF LeaderInv
    <3>2. OneLeaderPerTerm
      BY <1>1, WinnersAgree
    <3>3. <<t, s>>[1] = <<t, p>>[1] => <<t, s>>[2] = <<t, p>>[2]
      BY <3>1, <3>2 DEF OneLeaderPerTerm
    <3> QED BY <3>3
  <2> QED BY <1>1, <1>6, <1>7, <2>1 DEF Turned
<1>10. VoteInv'
  <2>1. \A r \in Server : \/ node'[r].term = node[r].term /\ node'[r].votedFor = node[r].votedFor
                          \/ node'[r].term > node[r].term
    <3> SUFFICES ASSUME NEW r \in Server
                 PROVE  \/ node'[r].term = node[r].term /\ node'[r].votedFor = node[r].votedFor
                        \/ node'[r].term > node[r].term
      OBVIOUS
    <3>1. CASE r # s
      BY <1>6, <3>1
    <3>2. CASE r = s
      BY <1>1, <1>3, <1>7, <3>2
    <3> QED BY <3>1, <3>2
  <2>2. VotesUnique' /\ VoteRecorded'
    BY <1>1, <1>8, <2>1, NoVoteCast
  <2>3. GrantIsVote'
    BY <1>1 DEF VoteInv, GrantIsVote
  <2>4. TallyIsVotes'
    <3> SUFFICES ASSUME NEW r \in Server, NEW v \in node'[r].granters
                 PROVE  <<node'[r].term, v, r>> \in votes
      BY DEF TallyIsVotes
    <3>1. node'[r].term = node[r].term /\ v \in node[r].granters
      <4>1. CASE r # s
        BY <1>6, <4>1
      <4>2. CASE r = s
        BY <1>1, <1>3, <1>7, <4>2
      <4> QED BY <4>1, <4>2
    <3> QED BY <1>1, <3>1 DEF VoteInv, TallyIsVotes
  <2>5. ElectedByMajority'
    BY <1>1, MajorityStays DEF VoteInv
  <2> QED BY <2>2, <2>3, <2>4, <2>5 DEF VoteInv
<1>11. LeaderInv'
  <2>1. ASSUME NEW r \in Server
        PROVE  /\ node'[r].leader # None => <<node'[r].term, node'[r].leader>> \in elected
               /\ node'[r].role = "leader" => <<node'[r].term, r>> \in elected
    <3>1. CASE r # s
      BY <1>1, <1>6, <3>1 DEF LeaderInv, LeaderWasElected
    <3>2. CASE r = s
      BY <1>7, <3>2
    <3> QED BY <3>1, <3>2
  <2> QED BY <1>1, <2>1 DEF LeaderInv, LeaderWasElected
<1> QED BY <1>7, <1>8, <1>9, <1>10, <1>11 DEF Followed, VotesInv

(* A request of an older term changes nothing but the answers. *)
LEMMA RefusedStep ==
    ASSUME Typed, VotesInv, NEW G \in [Nat -> Seq(Nat)], GInv(G), NEW s \in Server,
           NEW m \in rpcs, AppendRpc(s, m), ~(m.term >= node[s].term)
    PROVE  Typed' /\ VotesInv' /\ GInv(G)'
<1>1. m.type = "append" /\ m.leader \in Server
  BY RequestIs DEF AppendRpc
<1>2. PICK t \in Nat : t = node[s].term
  BY TermIs
<1>3. PICK a : a = [type |-> "answer", term |-> t, from |-> s, to |-> m.leader,
                    success |-> FALSE, index |-> 0]
  OBVIOUS
<1>4. /\ UNCHANGED <<node, log, commitIndex, msgs, votes, elected, books, committed>>
      /\ rpcs' = rpcs \cup {a}
  BY <1>2, <1>3 DEF AppendRpc
<1>5. a \in Answer /\ a.type = "answer" /\ a.term = t /\ a.index = 0 /\ ~a.success
  BY <1>1, <1>3 DEF Answer
<1>6. Typed'
  BY <1>4, <1>5 DEF Typed, TypeOK, ReplicationTypeOK
<1>7. VotesInv' /\ Still(G) /\ GCand(G)' /\ GAsked'
  <2>1. UNCHANGED electionVars
    BY <1>4 DEF electionVars
  <2>2. \A x \in rpcs' \ rpcs : ~(x.type = "answer" /\ x.success)
    BY <1>4, <1>5
  <2> QED BY <1>4, <1>6, <2>1, <2>2, QuietStep
<1>8. Held(G, a)'
  <2>1. 0 <= Len(G[t])
    BY GhostIs
  <2> QED BY <1>5, <2>1 DEF Held
<1>9. GReqs(G)' /\ GAns(G)' /\ GComm(G)' /\ GBooks'
  <2>1. GReqs(G)'
    BY <1>4, <1>5, <1>7 DEF GReqs, Still
  <2>2. GAns(G)'
    BY <1>4, <1>7, <1>8 DEF GAns, Still
  <2>3. GComm(G)' /\ GBooks'
    BY <1>4, <1>7 DEF GComm, GBooks, Still
  <2> QED BY <2>1, <2>2, <2>3
<1> QED BY <1>6, <1>7, <1>9 DEF GInv, Still

(* A refusal names an index of the leader's log. *)
LEMMA ConflictIs ==
    ASSUME NEW l \in Seq(Nat), NEW p \in Nat, NEW c, NEW v, ~(p <= Len(l) /\ (p >= 1 => l[p] = v)),
           c = IF p > Len(l) THEN Len(l) + 1 ELSE RunStart(l, p)
    PROVE  c \in Nat /\ c <= p
<1>1. PICK d \in Nat : d = Len(l)
  BY LenProperties
<1>2. CASE p > d
  <2>1. c = d + 1
    BY <1>1, <1>2
  <2> QED BY <1>2, <2>1
<1>3. CASE ~(p > d)
  <2>1. p <= d
    BY <1>3
  <2>2. p >= 1
    BY <1>1, <2>1
  <2> DEFINE S == {j \in 1 .. p : \A k \in j .. p : l[k] = l[p]}
  <2>3. S \in SUBSET Nat
    OBVIOUS
  <2>4. c = Min(S)
    BY <1>1, <1>3 DEF RunStart
  <2>5. p \in S
    BY <2>2
  <2> HIDE DEF S
  <2>6. c \in S /\ \A y \in S : c <= y
    BY <2>3, <2>4, <2>5, MinIs
  <2> QED BY <2>3, <2>5, <2>6
<1> QED BY <1>2, <1>3

(* What a request of this term or a newer one finds. *)
LEMMA RequestFx ==
    ASSUME Typed, NEW G \in [Nat -> Seq(Nat)], GInv(G), NEW s \in Server, NEW m \in rpcs,
           AppendRpc(s, m)
    PROVE  /\ m.type = "append" /\ m.term \in Nat /\ m.leader \in Server /\ m.leader # s
           /\ m.prevIndex \in Nat /\ m.entries \in Seq(Nat) /\ Len(m.entries) \in Nat
           /\ m.leaderCommit \in Nat /\ Served(G, m)
<1>1. m.type = "append" /\ m.to = s
  BY DEF AppendRpc
<1>2. Served(G, m)
  BY <1>1 DEF GInv, GReqs
<1>3. m.leader # s
  BY <1>1, <1>2 DEF Served
<1> QED BY <1>1, <1>2, <1>3, RequestIs

(* The previous entry is not there: the log and the commit index stay.     *)
LEMMA MismatchStep ==
    ASSUME Typed, VotesInv, NEW G \in [Nat -> Seq(Nat)], GInv(G), NEW s \in Server,
           NEW m \in rpcs, AppendRpc(s, m), m.term >= node[s].term, ~HoldsPrevious(log[s], m)
    PROVE  Typed' /\ VotesInv' /\ GInv(G)'
<1>1. /\ m.type = "append" /\ m.term \in Nat /\ m.leader \in Server /\ m.leader # s
      /\ m.prevIndex \in Nat /\ Len(m.entries) \in Nat /\ Served(G, m)
  BY RequestFx
<1>2. PICK t \in Nat, l \in Seq(Nat), b \in Nat, p \in Nat :
         t = m.term /\ l = log[s] /\ b = node[s].term /\ p = m.prevIndex
  BY <1>1, NodeIs
<1>3. PICK c : c = IF p > Len(l) THEN Len(l) + 1 ELSE RunStart(l, p)
  OBVIOUS
<1>4. c \in Nat /\ c <= p
  <2>1. PICK v : v = m.prevTerm
    OBVIOUS
  <2>2. ~(p <= Len(l) /\ (p >= 1 => l[p] = v))
    BY <1>2, <2>1 DEF HoldsPrevious
  <2> QED BY <1>3, <2>2, ConflictIs, Zenon
<1>5. PICK a : a = [type |-> "answer", term |-> t, from |-> s, to |-> m.leader,
                    success |-> FALSE, index |-> c]
  OBVIOUS
<1>6. /\ node' = [node EXCEPT ![s] = [At(s, t) EXCEPT !.role = "follower", !.leader = m.leader]]
      /\ UNCHANGED <<log, commitIndex, msgs, votes, elected, books, committed>>
      /\ rpcs' = rpcs \cup {a}
  BY <1>2, <1>3, <1>5 DEF AppendRpc
<1>7. a \in Answer /\ a.type = "answer" /\ a.term = t /\ a.index = c /\ ~a.success
  BY <1>1, <1>4, <1>5 DEF Answer
<1>8. TypeOK' /\ VotesInv' /\ Turned(s)
  <2>1. <<t, m.leader>> \in elected /\ InTerm(s, b) /\ b <= t
    BY <1>1, <1>2 DEF Served, InTerm
  <2>2. log' \in [Server -> Seq(Nat)]
    BY <1>6 DEF Typed, TypeOK
  <2>3. Followed(s, t)
    BY <1>1, <1>6, <2>1, <2>2, FollowFx
  <2> QED BY <2>3 DEF Followed
<1>9. Typed'
  BY <1>6, <1>7, <1>8 DEF Typed, ReplicationTypeOK
<1>10. Moves /\ NoNewCandidate /\ \A r \in Server : node[r].term <= node'[r].term
  BY <1>8, TurnedMoves DEF GInv
<1>11. Grown
  BY <1>6, <1>10 DEF Grown
<1>12. Still(G)
  <2>1. \A x \in rpcs' \ rpcs : ~(x.type = "answer" /\ x.success)
    BY <1>6, <1>7
  <2> QED BY <1>6, <1>9, <1>10, <1>11, <2>1, StillOn
<1>13. GCand(G)'
  <2>1. StepOf(G, G) /\ GCand(G)
    BY <1>12 DEF Still, GInv
  <2> QED BY <1>6, <1>10, <2>1, CandAll
<1>14. GAsked'
  <2>1. \A x \in msgs : x.type = "request-vote" => Asked(x)'
    BY <1>6, <1>9, <1>10, <1>11, AskedAll DEF GInv
  <2>2. \A v \in votes : v[1] <= node'[v[3]].term
    BY <1>9, <1>11, OldVotesOn DEF GInv
  <2> QED BY <1>6, <2>1, <2>2 DEF GAsked, Asked
<1>15. Held(G, a)'
  <2>1. PICK d \in Nat, k \in Nat : d = Len(m.entries) /\ k = Len(G[t])
    BY <1>1, GhostIs
  <2>2. p + d <= k
    BY <1>1, <1>2, <2>1 DEF Served
  <2>3. c <= k
    BY <1>4, <2>2
  <2> QED BY <1>7, <2>1, <2>3 DEF Held
<1>16. GReqs(G)' /\ GAns(G)' /\ GComm(G)' /\ GBooks'
  <2>1. GReqs(G)'
    BY <1>6, <1>7, <1>12 DEF GReqs, Still
  <2>2. GAns(G)'
    BY <1>6, <1>12, <1>15 DEF GAns, Still
  <2>3. GComm(G)' /\ GBooks'
    BY <1>6, <1>12 DEF GComm, GBooks, Still
  <2> QED BY <2>1, <2>2, <2>3
<1> QED BY <1>8, <1>9, <1>12, <1>13, <1>14, <1>16 DEF GInv, Still

(* The previous entry is there: the two logs agree up to it. *)
LEMMA PreviousAgrees ==
    ASSUME NEW G \in [Nat -> Seq(Nat)], GTerms(G), NEW l \in Seq(Nat),
           \A i \in 1 .. Len(l) : Agree(l, G[l[i]], i),
           NEW t \in Nat, NEW p \in Nat, p <= Len(l), p <= Len(G[t]),
           p >= 1 => l[p] = G[t][p]
    PROVE  Agree(l, G[t], p)
<1>1. PICK d \in Nat : d = Len(G[t])
  BY GhostIs
<1>2. PICK y \in Nat : y = Len(l)
  BY LenProperties
<1>3. CASE p = 0
  <2>1. 1 .. 0 = {}
    OBVIOUS
  <2> QED BY <1>3, <2>1 DEF Agree
<1>4. CASE p >= 1
  <2>1. p \in 1 .. d /\ p \in 1 .. y
    BY <1>1, <1>2, <1>4
  <2>2. PICK v \in Nat : v = G[t][p]
    BY <1>1, <2>1, GhostIs
  <2>3. Agree(l, G[v], p)
    BY <1>2, <1>4, <2>1, <2>2
  <2>4. Agree(G[t], G[v], p)
    BY <1>1, <2>1, <2>2 DEF GTerms
  <2>5. Agree(G[v], G[t], p)
    BY <2>4, AgreeBack
  <2> QED BY <2>3, <2>5, AgreeOn
<1> QED BY <1>3, <1>4

Sends(g, m, p, e, n) ==
    /\ n <= Len(g) /\ n = p + Len(e)
    /\ p >= 1 => m.prevTerm = g[p]
    /\ \A k \in 1 .. Len(e) : e[k] = g[p + k]

(* The follower then holds what the request reached. *)
LEMMA MergeFx ==
    ASSUME NEW G \in [Nat -> Seq(Nat)], GTerms(G), NEW l \in Seq(Nat),
           \A i \in 1 .. Len(l) : Agree(l, G[l[i]], i),
           NEW t \in Nat, NEW m, NEW p \in Nat, NEW e \in Seq(Nat), NEW n \in Nat,
           Sends(G[t], m, p, e, n), p <= Len(l), p >= 1 => l[p] = m.prevTerm
    PROVE  IsMerged(l, G[t], n, Merge(l, p, e))
<1>1. PICK g \in Seq(Nat), d \in Nat : g = G[t] /\ d = Len(g)
  BY GhostIs
<1>2. PICK x \in Nat : x = Len(e)
  BY LenProperties
<1>3. /\ n <= d /\ n = p + x
      /\ p >= 1 => m.prevTerm = g[p]
      /\ \A k \in 1 .. Len(e) : e[k] = g[p + k]
  BY <1>1, <1>2 DEF Sends
<1>4. \A j \in 1 .. Len(g) : g[j] >= 1
  BY <1>1 DEF GTerms
<1>5. p <= d
  BY <1>3
<1>6. Agree(l, G[t], p)
  <2>1. p <= Len(G[t]) /\ (p >= 1 => l[p] = G[t][p])
    BY <1>1, <1>3, <1>5
  <2> QED BY <2>1, PreviousAgrees
<1>7. PICK r : r = Merge(l, p, e)
  OBVIOUS
<1>8. IsMerged(l, g, n, r)
  <2>1. Agree(l, g, p) /\ n <= Len(g) /\ n = p + Len(e)
    BY <1>1, <1>2, <1>3, <1>6
  <2>2. \A k \in 1 .. Len(e) : e[k] = g[p + k]
    BY <1>3
  <2> QED BY <1>4, <1>7, <2>1, <2>2, MergeAgrees
<1> QED BY <1>1, <1>7, <1>8

(* A follower's commit index stays, or becomes one its leader has reached  *)
(* and the request has covered.                                            *)
Covers(m, k, n) == k = m.leaderCommit /\ n = m.prevIndex + Len(m.entries)

IsNewCommit(z, c, k, n) == z \in Nat /\ (z = c \/ (k > 0 /\ z <= k /\ z <= n))

(* That is what FollowerCommit returns. *)
LEMMA FollowerCommitIs ==
    ASSUME NEW m, NEW c \in Nat, NEW k \in Nat, NEW n \in Nat, Covers(m, k, n)
    PROVE  IsNewCommit(FollowerCommit(m, c), c, k, n)
<1>1. k = m.leaderCommit /\ n = m.prevIndex + Len(m.entries)
  BY DEF Covers
<1> DEFINE z == FollowerCommit(m, c)
<1> SUFFICES z \in Nat /\ (z = c \/ (k > 0 /\ z <= k /\ z <= n))
  BY DEF IsNewCommit
<1>2. z = Max({c} \cup IF k > c THEN {Min({k, n})} ELSE {})
  BY <1>1 DEF FollowerCommit
<1> HIDE DEF z
<1>3. CASE ~(k > c)
  <2>1. z = Max({c} \cup {})
    BY <1>2, <1>3
  <2>2. {c} \cup {} = {c} /\ c \in {c} /\ {c} \in SUBSET Nat /\ \A y \in {c} : y <= c
    OBVIOUS
  <2>3. z \in {c}
    BY <2>1, <2>2, MaxIs
  <2> QED BY <2>3
<1>4. CASE k > c
  <2>1. PICK w : w = Min({k, n})
    OBVIOUS
  <2>2. w \in Nat /\ w <= k /\ w <= n
    BY <2>1, MinOfTwo
  <2>3. z = Max({c} \cup {w})
    BY <1>2, <1>4, <2>1
  <2>4. {c} \cup {w} = {c, w}
    OBVIOUS
  <2>5. z = c \/ z = w
    BY <2>2, <2>3, <2>4, MaxOfTwo
  <2> QED BY <1>4, <2>2, <2>5
<1> QED BY <1>3, <1>4
-----------------------------------------------------------------------------
(* Server s, in term b, merges the first n entries of the leader of t into *)
(* its log and answers a.                                                  *)
Merged(G, s, b, t, n, a) ==
    /\ Turned(s) /\ InTerm(s, b) /\ b <= t /\ node'[s].term = t /\ node'[s].role = "follower"
    /\ Elected(elected, t) /\ n <= Len(G[t]) /\ IsMerged(log[s], G[t], n, log'[s])
    /\ \A x \in Server \ {s} : log'[x] = log[x] /\ commitIndex'[x] = commitIndex[x]
    /\ UNCHANGED <<msgs, votes, elected, books, committed>>
    /\ rpcs' = rpcs \cup {a}
    /\ a.type = "answer" /\ a.success /\ a.from = s /\ a.term = t /\ a.index = n

(* Nobody acknowledges what is of a term it has not reached. *)
LEMMA AckedReached ==
    ASSUME Typed, NEW G \in [Nat -> Seq(Nat)], GAns(G), GWon, NEW q \in Server, NEW u \in Nat,
           NEW i \in Nat, AckedBy(elected, rpcs, q, u, i)
    PROVE  u <= node[q].term
<1>1. CASE <<u, q>> \in elected
  <2>1. <<u, q>>[1] <= node[<<u, q>>[2]].term
    BY <1>1 DEF GWon
  <2> QED BY <2>1
<1>2. CASE \E a \in rpcs : Says(a, q, u, i)
  <2>1. PICK a \in rpcs : a.type = "answer" /\ a.success /\ a.from = q /\ a.term = u
    BY <1>2 DEF Says
  <2>2. Held(G, a)
    BY <2>1 DEF GAns
  <2> QED BY <2>1, <2>2 DEF Held
<1> QED BY <1>1, <1>2 DEF AckedBy

(* The one new answer is true of the merged log. *)
LEMMA MergedAcks ==
    ASSUME Typed, NEW G \in [Nat -> Seq(Nat)], NEW s \in Server, NEW b \in Nat, NEW t \in Nat,
           NEW n \in Nat, NEW a, Merged(G, s, b, t, n, a)
    PROVE  NewAcks(G, G)
<1> SUFFICES ASSUME NEW q \in Server, NEW u \in Nat, NEW i \in Nat,
                    AckedBy(elected', rpcs', q, u, i), ~AckedBy(elected, rpcs, q, u, i)
             PROVE  node[q].term <= u /\ Agree(log'[q], G[u], i)
  BY DEF NewAcks
<1>1. Says(a, q, u, i)
  BY DEF Merged, AckedBy
<1>2. q = s /\ u = t /\ n >= i
  BY <1>1 DEF Says, Merged
<1>3. node[s].term <= t
  BY DEF Merged, InTerm
<1>4. PICK g \in Seq(Nat), r \in Seq(Nat) : g = G[t] /\ r = log'[s] /\ Agree(r, g, n)
  BY DEF Merged, IsMerged
<1>5. i <= n
  BY <1>2
<1>6. Agree(r, g, i)
  BY <1>4, <1>5, AgreeLess
<1> QED BY <1>2, <1>3, <1>4, <1>6

(* What s had acknowledged stays in its log, or the leader of t lacks it.  *)
LEMMA MergedMoves ==
    ASSUME Typed, NEW G \in [Nat -> Seq(Nat)], GAns(G), GWon, NEW s \in Server, NEW b \in Nat,
           NEW t \in Nat, NEW n \in Nat, NEW a, Merged(G, s, b, t, n, a)
    PROVE  LogsMove(G, G)
<1> SUFFICES ASSUME NEW q \in Server, NEW u \in Nat, NEW i \in Nat, Own(G, u, i),
                    AckedBy(elected, rpcs, q, u, i), Agree(log[q], G[u], i)
             PROVE  Agree(log'[q], G[u], i) \/ Lost(elected', G, u, i, node'[q].term + 1)
  BY DEF LogsMove
<1>1. CASE q # s
  BY <1>1 DEF Merged
<1>2. CASE q = s
  <2>1. PICK l \in Seq(Nat), r \in Seq(Nat), g \in Seq(Nat), h \in Seq(Nat) :
           l = log[s] /\ r = log'[s] /\ g = G[t] /\ h = G[u]
    BY NodeIs DEF Merged, IsMerged
  <2>2. IsMerged(l, g, n, r) /\ Agree(l, h, i)
    BY <1>2, <2>1 DEF Merged
  <2>3. CASE Agree(g, h, i)
    <3>1. Agree(l, g, i)
      BY <2>2, <2>3, AgreeBack, AgreeOn
    <3>2. Agree(r, g, i)
      BY <2>2, <3>1, MergeKeeps
    <3>3. Agree(r, h, i)
      BY <2>3, <3>2, AgreeOn
    <3> QED BY <1>2, <2>1, <3>3
  <2>4. CASE ~Agree(g, h, i)
    <3>1. u <= node[s].term
      BY <1>2, AckedReached
    <3>2. u <= b /\ b <= t
      BY <3>1 DEF Merged, InTerm
    <3>3. u # t
      <4>1. ASSUME u = t PROVE FALSE
        <5>1. g = h /\ i <= Len(h)
          BY <2>1, <2>2, <4>1 DEF Agree
        <5>2. Agree(h, h, i)
          BY <5>1, AgreeSame
        <5> QED BY <2>4, <5>1, <5>2
      <4> QED BY <4>1
    <3>4. u < t /\ t < t + 1
      BY <3>2, <3>3
    <3>5. Elected(elected, t) /\ elected' = elected /\ node'[s].term = t
      BY DEF Merged
    <3>6. ~Agree(G[t], G[u], i)
      BY <2>1, <2>4
    <3>7. Lost(elected, G, u, i, t + 1)
      BY <3>4, <3>5, <3>6 DEF Lost
    <3> QED BY <1>2, <3>5, <3>7
  <2> QED BY <2>3, <2>4
<1> QED BY <1>1, <1>2

(* Every entry of the merged log is in the log of the leader of its term. *)
LEMMA MergedLogs ==
    ASSUME Typed, NEW G \in [Nat -> Seq(Nat)], GLogs(G), GTerms(G), NEW s \in Server, NEW b \in Nat,
           NEW t \in Nat, NEW n \in Nat, NEW a, Merged(G, s, b, t, n, a)
    PROVE  GLogs(G)'
<1> SUFFICES ASSUME NEW x \in Server, NEW j \in 1 .. Len(log'[x])
             PROVE  log'[x][j] <= node'[x].term /\ Agree(log'[x], G[log'[x][j]], j)
  BY DEF GLogs
<1>1. CASE x # s
  <2>1. log'[x] = log[x] /\ node'[x] = node[x]
    BY <1>1 DEF Merged, Turned
  <2> QED BY <2>1 DEF GLogs
<1>2. CASE x = s
  <2>1. PICK l \in Seq(Nat), r \in Seq(Nat), g \in Seq(Nat) :
           l = log[s] /\ r = log'[s] /\ g = G[t]
    BY NodeIs DEF Merged, IsMerged
  <2>2. IsMerged(l, g, n, r) /\ node[s].term = b /\ b <= t /\ node'[s].term = t /\ j \in 1 .. Len(r)
        /\ n <= Len(g)
    BY <1>2, <2>1 DEF Merged, InTerm
  <2>3. r \in Seq(Nat) /\ Agree(r, g, n) /\ (r = l \/ Len(r) = n)
    BY <2>2 DEF IsMerged
  <2>4. CASE r = l
    <3>1. PICK v \in Nat : v = l[j]
      BY <2>1, <2>2, <2>4, LogIs
    <3>2. v <= b /\ Agree(l, G[v], j)
      BY <2>1, <2>2, <2>4, <3>1 DEF GLogs
    <3>3. v <= t
      BY <2>2, <3>2, Between, Zenon
    <3> QED BY <1>2, <2>1, <2>2, <2>4, <3>1, <3>2, <3>3
  <2>5. CASE Len(r) = n
    <3>1. j \in Nat /\ 1 <= j /\ j <= n
      BY <2>2, <2>5
    <3>2. r[j] = g[j] /\ j \in 1 .. Len(g) /\ Agree(r, g, j)
      <4>1. Agree(r, g, n)
        BY <2>3
      <4>2. j \in 1 .. n
        BY <3>1
      <4>3. r[j] = g[j]
        BY <4>1, <4>2 DEF Agree
      <4>4. PICK y \in Nat : y = Len(g)
        BY LenProperties
      <4>5. n <= y
        BY <2>2, <4>4
      <4>6. j \in 1 .. y
        BY <4>2, <4>5
      <4> QED BY <3>1, <4>1, <4>3, <4>4, <4>6, AgreeLess
    <3>3. PICK v \in Nat : v = g[j]
      BY <2>1, <3>2, GhostIs
    <3>4. v <= t /\ Agree(g, G[v], j)
      BY <2>1, <3>2, <3>3 DEF GTerms
    <3>5. Agree(r, G[v], j)
      BY <3>2, <3>4, AgreeOn
    <3> QED BY <1>2, <2>1, <2>2, <3>2, <3>3, <3>4, <3>5
  <2> QED BY <2>3, <2>4, <2>5
<1> QED BY <1>1, <1>2

(* Earlier answers of this term stay true: the merge cuts only where logs differ. *)
LEMMA MergedAns ==
    ASSUME Typed, Typed', NEW G \in [Nat -> Seq(Nat)], StepOf(G, G), GAns(G), NEW s \in Server,
           NEW b \in Nat, NEW t \in Nat, NEW n \in Nat, NEW a, Merged(G, s, b, t, n, a)
    PROVE  GAns(G)'
<1> SUFFICES ASSUME NEW z \in rpcs', z.type = "answer" PROVE Held(G, z)'
  BY DEF GAns
<1>1. PICK l \in Seq(Nat), r \in Seq(Nat), g \in Seq(Nat) : l = log[s] /\ r = log'[s] /\ g = G[t]
  BY NodeIs DEF Merged, IsMerged
<1>2. IsMerged(l, g, n, r) /\ Agree(r, g, n)
  BY <1>1 DEF Merged, IsMerged
<1>3. /\ node[s].term = b /\ b <= t /\ node'[s].term = t /\ Elected(elected, t) /\ elected' = elected
      /\ n <= Len(G[t])
  BY DEF Merged, InTerm
<1>4. CASE z = a
  <2>1. z.from = s /\ z.term = t /\ z.index = n
    BY <1>4 DEF Merged
  <2>2. t <= t
    OBVIOUS
  <2> QED BY <1>1, <1>2, <1>3, <2>1, <2>2 DEF Held
<1>5. CASE z \in rpcs
  <2>1. Held(G, z)
    BY <1>5 DEF GAns
  <2>2. CASE z.from # s
    <3>1. z.from \in Server
      BY <1>5, AnswerIs
    <3>2. log'[z.from] = log[z.from] /\ log[z.from] \in Seq(Nat)
      BY <2>2, <3>1, NodeIs DEF Merged
    <3>3. Longer(log[z.from], log'[z.from])
      BY <3>2, LongerSame
    <3> QED BY <1>5, <2>1, <3>3, HeldOn
  <2>3. CASE z.from = s
    <3>1. PICK u \in Nat, i \in Nat : u = z.term /\ i = z.index
      BY <1>5, AnswerIs
    <3>2. /\ i <= Len(G[u])
          /\ z.success => u <= b /\ Elected(elected, u) /\ (b = u => Agree(log[s], G[u], i))
      BY <1>3, <2>1, <2>3, <3>1 DEF Held
    <3>3. ASSUME z.success
          PROVE  u <= t /\ Elected(elected, u) /\ (t = u => Agree(r, G[u], i))
      <4>1. u <= b /\ Elected(elected, u) /\ (b = u => Agree(log[s], G[u], i))
        BY <3>2, <3>3
      <4>2. u <= t /\ (t = u => b = u)
        BY <1>3, <4>1, Between, Zenon
      <4>3. ASSUME t = u PROVE Agree(r, G[u], i)
        <5>1. Agree(l, g, i)
          BY <1>1, <4>1, <4>2, <4>3
        <5>2. Agree(r, g, i)
          BY <1>2, <5>1, MergeKeeps
        <5> QED BY <1>1, <4>3, <5>2
      <4> QED BY <4>1, <4>2, <4>3
    <3> QED BY <1>1, <1>3, <2>3, <3>1, <3>2, <3>3 DEF Held
  <2> QED BY <2>2, <2>3
<1> QED BY <1>4, <1>5 DEF Merged

(* The commit index of s stays, or is one the leader of t has committed.   *)
Reached(s, t, n) ==
    \/ commitIndex'[s] = commitIndex[s]
    \/ commitIndex'[s] <= n
         /\ \E c \in committed : c.term = t /\ commitIndex'[s] <= Len(c.log)

(* Both the old and the new committed prefix are in the log of the leader of t. *)
LEMMA MergedFollow ==
    ASSUME Typed, Typed', NEW G \in [Nat -> Seq(Nat)], GInv(G), NEW s \in Server,
           NEW b \in Nat, NEW t \in Nat, NEW n \in Nat, NEW a, Merged(G, s, b, t, n, a),
           Reached(s, t, n)
    PROVE  GFollow'
<1> SUFFICES ASSUME NEW x \in Server, commitIndex'[x] > 0
             PROVE  \E c \in committed' : Follows(x, c)'
  BY DEF GFollow
<1>1. committed' = committed
  BY DEF Merged
<1>2. CASE x # s
  <2>1. log'[x] = log[x] /\ commitIndex'[x] = commitIndex[x] /\ node'[x] = node[x]
    BY <1>2 DEF Merged, Turned
  <2>2. PICK c \in committed : Follows(x, c)
    BY <2>1 DEF GInv, GFollow
  <2>3. Follows(x, c)'
    BY <2>1, <2>2 DEF Follows
  <2> QED BY <1>1, <2>3
<1>3. CASE x = s
  <2>1. PICK l \in Seq(Nat), r \in Seq(Nat), g \in Seq(Nat), k \in Nat :
           l = log[s] /\ r = log'[s] /\ g = G[t] /\ k = commitIndex'[s]
    BY NodeIs DEF Merged, IsMerged, Typed, ReplicationTypeOK
  <2>2. IsMerged(l, g, n, r) /\ Agree(r, g, n)
    BY <2>1 DEF Merged, IsMerged
  <2>3. node[s].term = b /\ b <= t /\ node'[s].term = t /\ Elected(elected, t)
    BY DEF Merged, InTerm
  <2>4. \E c \in committed : c.term <= t /\ k <= Len(c.log) /\ Agree(r, c.log, k)
    <3>1. CASE commitIndex'[s] = commitIndex[s]
      <4>1. PICK c \in committed : Follows(s, c)
        BY <1>3, <3>1 DEF GInv, GFollow
      <4>2. PICK u \in Nat, w \in Seq(Nat), d \in Nat : u = c.term /\ w = c.log /\ d = Len(w)
        BY CommittedIs
      <4>3. u <= b /\ k <= d /\ Agree(l, w, k)
        BY <2>1, <2>3, <3>1, <4>1, <4>2 DEF Follows
      <4>4. u <= t
        BY <2>3, <4>3, Between, Zenon
      <4>5. Agree(g, w, d)
        <5>1. GLC(G)
          BY Complete DEF GInv
        <5> QED BY <2>1, <2>3, <4>2, <4>4, <5>1 DEF GLC
      <4>6. Agree(g, w, k)
        BY <4>3, <4>5, AgreeLess
      <4>7. Agree(l, g, k)
        BY <4>3, <4>6, AgreeBack, AgreeOn
      <4>8. Agree(r, g, k)
        BY <2>2, <4>7, MergeKeeps
      <4>9. Agree(r, w, k)
        BY <4>6, <4>8, AgreeOn
      <4> QED BY <4>2, <4>3, <4>4, <4>9
    <3>2. CASE /\ commitIndex'[s] <= n
               /\ \E c \in committed : c.term = t /\ commitIndex'[s] <= Len(c.log)
      <4>1. PICK c \in committed : c.term = t /\ k <= Len(c.log)
        BY <2>1, <3>2
      <4>2. PICK w \in Seq(Nat), d \in Nat : w = c.log /\ d = Len(w)
        BY CommittedIs
      <4>3. Agree(w, g, d)
        BY <2>1, <4>1, <4>2 DEF GInv, GComm, Chose
      <4>4. k <= d /\ k <= n
        BY <2>1, <3>2, <4>1, <4>2
      <4>5. Agree(w, g, k)
        BY <4>3, <4>4, AgreeLess
      <4>6. Agree(r, g, k)
        BY <2>2, <4>4, AgreeLess
      <4>7. Agree(r, w, k)
        BY <4>5, <4>6, AgreeBack, AgreeOn
      <4>8. t <= t
        OBVIOUS
      <4> QED BY <4>1, <4>2, <4>7, <4>8
    <3> QED BY <3>1, <3>2 DEF Reached
  <2>5. PICK c \in committed : c.term <= t /\ k <= Len(c.log) /\ Agree(r, c.log, k)
    BY <2>4
  <2>6. Follows(s, c)'
    BY <2>1, <2>3, <2>5 DEF Follows
  <2> QED BY <1>1, <1>3, <2>6
<1> QED BY <1>2, <1>3

(* A merge keeps the invariant. *)
LEMMA MergedStep ==
    ASSUME Typed, Typed', VotesInv, NEW G \in [Nat -> Seq(Nat)], GInv(G), NEW s \in Server,
           NEW b \in Nat, NEW t \in Nat, NEW n \in Nat, NEW a, Merged(G, s, b, t, n, a),
           Reached(s, t, n)
    PROVE  GInv(G)'
<1>1. /\ UNCHANGED <<msgs, votes, elected, books, committed>>
      /\ \A x \in Server \ {s} : log'[x] = log[x]
      /\ node'[s].role = "follower" /\ Turned(s)
  BY DEF Merged
<1>2. rpcs' = rpcs \cup {a} /\ a.type = "answer"
  BY DEF Merged
<1>3. Moves /\ NoNewCandidate /\ \A r \in Server : node[r].term <= node'[r].term
  BY <1>1, TurnedMoves DEF GInv
<1>4. Grown
  BY <1>1, <1>2, <1>3 DEF Grown
<1>5. StepOf(G, G)
  BY <1>4, MergedAcks, ExtendsSame DEF StepOf
<1>6. GHeld(G)'
  <2>1. LogsMove(G, G)
    BY MergedMoves DEF GInv
  <2> QED BY <1>5, <2>1, HeldStep DEF GInv
<1>7. GLogs(G)' /\ GAns(G)' /\ GFollow'
  BY <1>5, MergedLogs, MergedAns, MergedFollow DEF GInv
<1>8. GLeads(G)'
  <2> SUFFICES ASSUME NEW x \in Server, node'[x].role = "leader" PROVE G[node'[x].term] = log'[x]
    BY DEF GLeads
  <2>1. x # s /\ node[x].role = "leader" /\ node'[x].term = node[x].term
    BY <1>1, <1>3 DEF Moves
  <2> QED BY <1>1, <2>1 DEF GInv, GLeads
<1>9. GElected(G)' /\ GTerms(G)'
  BY <1>1 DEF GInv, GElected, GTerms
<1>10. GReqs(G)'
  <2>1. \A m \in rpcs : m.type = "append" => Served(G, m)'
    BY <1>5, ServedOn DEF GInv, GReqs
  <2> QED BY <1>2, <2>1 DEF GReqs
<1>11. GWon'
  BY <1>1, <1>3, <1>4, WonOn DEF GInv
<1>12. GBooks'
  <2> SUFFICES ASSUME NEW x \in Server, node'[x].role = "leader" PROVE Kept(x)'
    BY DEF GBooks
  <2>1. x # s /\ node[x].role = "leader" /\ node'[x].term = node[x].term
    BY <1>1, <1>3 DEF Moves
  <2>2. log'[x] = log[x] /\ log[x] \in Seq(Nat) /\ books'[x] = books[x]
    BY <1>1, <2>1, NodeIs
  <2>3. Longer(log[x], log'[x])
    BY <2>2, LongerSame
  <2>4. Kept(x)
    BY <2>1 DEF GInv, GBooks
  <2> QED BY <1>4, <2>1, <2>2, <2>3, <2>4, KeptOn
<1>13. GComm(G)'
  BY <1>1, <1>5, ChoseOn DEF GInv, GComm
<1>14. GChosen(G)'
  <2>1. \A e \in elected : Backed(elected', rpcs', votes', G, e)
    BY <1>5, BackedOn DEF GInv, GChosen
  <2> QED BY <1>1, <2>1 DEF GChosen
<1>15. GCand(G)'
  <2> SUFFICES ASSUME NEW x \in Server, node'[x].role = "candidate",
                      ~Elected(elected', node'[x].term),
                      NEW q \in Server, <<node'[x].term, q, x>> \in votes
               PROVE  Vouched(elected', rpcs', G, q, node'[x].term, log'[x])
    BY <1>1 DEF GCand
  <2>1. node[x].role = "candidate" /\ node'[x].term = node[x].term /\ x # s
    BY <1>1, <1>3 DEF NoNewCandidate
  <2>2. GCand(G) /\ log'[x] = log[x] /\ <<node[x].term, q, x>> \in votes
    BY <1>1, <2>1 DEF GInv
  <2> QED BY <1>5, <2>1, <2>2, CandOn
<1>16. GAsked'
  <2>1. ASSUME NEW m \in msgs, m.type = "request-vote" PROVE Asked(m)'
    <3>1. PICK c \in Server, u \in Nat : c = m.candidate /\ u = m.term
      BY <2>1, VoteRequestIs
    <3>2. /\ u <= node[c].term
          /\ node[c].role = "candidate" /\ node[c].term = u
               => m.lastIndex = LastIndex(c) /\ m.lastTerm = LastTerm(c)
      BY <2>1, <3>1 DEF GInv, GAsked
    <3>3. u <= node'[c].term
      <4>1. node[c].term \in Nat /\ node'[c].term \in Nat /\ node[c].term <= node'[c].term
        BY <1>3 DEF Typed, TypeOK, Election
      <4> QED BY <3>2, <4>1, Between, Zenon
    <3>4. ASSUME node'[c].role = "candidate", node'[c].term = u
          PROVE  m.lastIndex = LastIndex(c)' /\ m.lastTerm = LastTerm(c)'
      <4>1. node[c].role = "candidate" /\ node[c].term = u /\ c # s
        BY <1>1, <1>3, <3>4 DEF NoNewCandidate
      <4>2. log'[c] = log[c]
        BY <1>1, <4>1
      <4> QED BY <3>2, <4>1, <4>2 DEF LastIndex, LastTerm
    <3>5. LastIndex(m.candidate)' = LastIndex(c)' /\ LastTerm(m.candidate)' = LastTerm(c)'
      BY <3>1
    <3> QED BY <3>1, <3>3, <3>4, <3>5 DEF Asked
  <2>2. \A v \in votes : v[1] <= node'[v[3]].term
    BY <1>4, OldVotesOn DEF GInv
  <2> QED BY <1>1, <2>1, <2>2 DEF GAsked, Asked
<1> QED BY <1>6, <1>7, <1>8, <1>9, <1>10, <1>11, <1>12, <1>13, <1>14, <1>15, <1>16 DEF GInv

(* The previous entry is there. *)
LEMMA MatchedStep ==
    ASSUME Typed, VotesInv, NEW G \in [Nat -> Seq(Nat)], GInv(G), NEW s \in Server,
           NEW m \in rpcs, AppendRpc(s, m), m.term >= node[s].term, HoldsPrevious(log[s], m)
    PROVE  Typed' /\ VotesInv' /\ GInv(G)'
<1>1. /\ m.type = "append" /\ m.term \in Nat /\ m.leader \in Server /\ m.leader # s
      /\ m.prevIndex \in Nat /\ m.entries \in Seq(Nat) /\ Len(m.entries) \in Nat
      /\ m.leaderCommit \in Nat /\ Served(G, m)
  BY RequestFx
<1>2. PICK t \in Nat, l \in Seq(Nat), b \in Nat, p \in Nat, e \in Seq(Nat), k \in Nat, i \in Nat :
         /\ t = m.term /\ l = log[s] /\ b = node[s].term /\ p = m.prevIndex /\ e = m.entries
         /\ k = m.leaderCommit /\ i = commitIndex[s]
  BY <1>1, NodeIs
<1>3. PICK n \in Nat : n = p + Len(e)
  <2>1. Len(e) \in Nat
    BY LenProperties
  <2> QED BY <2>1
<1>4. PICK r : r = Merge(l, p, e)
  OBVIOUS
<1>5. PICK z : z = FollowerCommit(m, i)
  OBVIOUS
<1>6. PICK a : a = [type |-> "answer", term |-> t, from |-> s, to |-> m.leader,
                    success |-> TRUE, index |-> n]
  OBVIOUS
<1>7. /\ node' = [node EXCEPT ![s] = [At(s, t) EXCEPT !.role = "follower", !.leader = m.leader]]
      /\ log' = [log EXCEPT ![s] = r]
      /\ commitIndex' = [commitIndex EXCEPT ![s] = z]
      /\ rpcs' = rpcs \cup {a}
      /\ UNCHANGED <<msgs, votes, elected, books, committed>>
  BY <1>2, <1>3, <1>4, <1>5, <1>6 DEF AppendRpc
<1>8. a \in Answer /\ a.type = "answer" /\ a.term = t /\ a.from = s /\ a.index = n /\ a.success
  BY <1>1, <1>6 DEF Answer
<1>9. IsMerged(l, G[t], n, r) /\ n <= Len(G[t])
  <2>1. Sends(G[t], m, p, e, n) /\ n <= Len(G[t])
    BY <1>1, <1>2, <1>3 DEF Served, Sends
  <2>2. \A j \in 1 .. Len(l) : Agree(l, G[l[j]], j)
    BY <1>2 DEF GInv, GLogs
  <2>3. p <= Len(l) /\ (p >= 1 => l[p] = m.prevTerm)
    BY <1>2 DEF HoldsPrevious
  <2>4. GTerms(G)
    BY DEF GInv
  <2>5. IsMerged(l, G[t], n, Merge(l, p, e))
    BY <2>1, <2>2, <2>3, <2>4, MergeFx
  <2> QED BY <1>4, <2>1, <2>5
<1>10. r \in Seq(Nat)
  BY <1>9 DEF IsMerged
<1>11. z \in Nat /\ (z = i \/ (k > 0 /\ z <= k /\ z <= n))
  <2>1. Covers(m, k, n)
    BY <1>2, <1>3 DEF Covers
  <2>2. IsNewCommit(FollowerCommit(m, i), i, k, n)
    BY <2>1, FollowerCommitIs
  <2>3. IsNewCommit(z, i, k, n)
    BY <1>5, <2>2
  <2> QED BY <2>3 DEF IsNewCommit
<1>12. log'[s] = r /\ commitIndex'[s] = z
       /\ \A x \in Server \ {s} : log'[x] = log[x] /\ commitIndex'[x] = commitIndex[x]
  BY <1>7 DEF Typed, TypeOK, ReplicationTypeOK
<1>13. log' \in [Server -> Seq(Nat)] /\ commitIndex' \in [Server -> Nat]
  BY <1>7, <1>10, <1>11 DEF Typed, TypeOK, ReplicationTypeOK
<1>14. <<t, m.leader>> \in elected /\ InTerm(s, b) /\ b <= t
  BY <1>1, <1>2 DEF Served, InTerm
<1>15. /\ TypeOK' /\ VotesInv' /\ Turned(s)
       /\ node'[s].term = t /\ node'[s].role = "follower"
  <2>1. Followed(s, t)
    BY <1>1, <1>7, <1>13, <1>14, FollowFx
  <2> QED BY <2>1 DEF Followed
<1>16. Typed'
  BY <1>7, <1>8, <1>13, <1>15 DEF Typed, ReplicationTypeOK
<1>17. Merged(G, s, b, t, n, a)
  <2>1. Elected(elected, t)
    BY <1>1, <1>14 DEF Elected
  <2>2. IsMerged(log[s], G[t], n, log'[s])
    BY <1>2, <1>9, <1>12
  <2> QED BY <1>7, <1>8, <1>9, <1>12, <1>14, <1>15, <2>1, <2>2 DEF Merged
<1>18. Reached(s, t, n)
  <2>1. CASE z = i
    BY <1>2, <1>12, <2>1 DEF Reached
  <2>2. CASE k > 0 /\ z <= k /\ z <= n
    <3>1. HasCommit(committed, t, k)
      BY <1>1, <1>2, <2>2 DEF Served
    <3>2. \E c \in committed : c.term = t /\ z <= Len(c.log)
      BY <2>2, <3>1 DEF HasCommit
    <3> QED BY <1>12, <2>2, <3>2 DEF Reached
  <2> QED BY <1>11, <2>1, <2>2
<1>19. GInv(G)'
  BY <1>16, <1>17, <1>18, MergedStep
<1> QED BY <1>15, <1>16, <1>19

(* `append-entries`, refused, mismatched or merged. *)
LEMMA AppendStep ==
    ASSUME Typed, VotesInv, NEW G \in [Nat -> Seq(Nat)], GInv(G), NEW s \in Server,
           NEW m \in rpcs, AppendRpc(s, m)
    PROVE  Typed' /\ VotesInv' /\ GInv(G)'
BY RefusedStep, MismatchStep, MatchedStep
-----------------------------------------------------------------------------
(* Nobody has led and every log is empty at first. *)
LEMMA RaftInit == Init /\ InitReplication => RaftInv
<1> SUFFICES ASSUME Init, InitReplication PROVE RaftInv
  OBVIOUS
<1>1. Typed
  <2>1. ReplicationTypeOK
    BY DEF InitReplication, ReplicationTypeOK, Books
  <2> QED BY <2>1, TypeInit DEF Typed
<1>2. VotesInv
  BY VoteInit, LeaderInit DEF VotesInv
<1>3. PICK G \in [Nat -> Seq(Nat)] : \A t \in Nat : G[t] = <<>>
  <2>1. [t \in Nat |-> <<>>] \in [Nat -> Seq(Nat)]
    OBVIOUS
  <2> QED BY <2>1
<1>4. \A t \in Nat : Len(G[t]) = 0
  BY <1>3
<1>5. \A t \in Nat, i \in Nat : ~Own(G, t, i)
  BY <1>4 DEF Own
<1>6. \A s \in Server : /\ node[s].role = "follower" /\ Len(log[s]) = 0 /\ commitIndex[s] = 0
  BY DEF Init, InitReplication
<1>7. rpcs = {} /\ committed = {} /\ elected = {} /\ votes = {} /\ msgs = {}
  BY DEF Init, InitReplication
<1>8. GLeads(G) /\ GBooks /\ GWon /\ GCand(G)
  BY <1>6, <1>7 DEF GLeads, GBooks, GWon, GCand
<1>9. GElected(G) /\ GLogs(G) /\ GTerms(G)
  BY <1>4, <1>6 DEF GElected, GLogs, GTerms
<1>10. GReqs(G) /\ GAns(G) /\ GComm(G) /\ GChosen(G) /\ GAsked
  BY <1>7 DEF GReqs, GAns, GComm, GChosen, GAsked
<1>11. GHeld(G)
  BY <1>5, Zenon DEF GHeld
<1>12. GFollow
  <2>1. ~(0 > 0)
    OBVIOUS
  <2> QED BY <1>6, <2>1 DEF GFollow
<1> QED BY <1>1, <1>2, <1>8, <1>9, <1>10, <1>11, <1>12 DEF RaftInv, GInv

(* Every step of every server keeps the invariant. *)
LEMMA RaftStep == RaftInv /\ [RaftNext]_raftVars => RaftInv'
<1> SUFFICES ASSUME Typed, VotesInv, NEW G \in [Nat -> Seq(Nat)], GInv(G), [RaftNext]_raftVars
             PROVE  RaftInv'
  BY DEF RaftInv
<1>0. ASSUME Typed' /\ VotesInv' /\ GInv(G)' PROVE RaftInv'
  BY <1>0 DEF RaftInv
<1>1. ASSUME NEW s \in Server, StartElection(s) PROVE RaftInv'
  BY <1>0, <1>1, TimeoutStep
<1>2. ASSUME NEW s \in Server, Ask(s) PROVE RaftInv'
  BY <1>0, <1>2, AskStep
<1>3. ASSUME NEW s \in Server, ClientAppend(s) PROVE RaftInv'
  <2>1. Typed' /\ VotesInv' /\ \E H \in [Nat -> Seq(Nat)] : GInv(H)'
    BY <1>3, ClientAppendStep
  <2> QED BY <2>1 DEF RaftInv
<1>4. ASSUME NEW s \in Server, NEW m \in msgs, Vote(s, m) PROVE RaftInv'
  BY <1>0, <1>4, GrantStep
<1>5. ASSUME NEW s \in Server, NEW m \in msgs, CountVote(s, m) PROVE RaftInv'
  <2>1. UNCHANGED <<log, msgs, votes>> /\ (Wins(s) \/ (elected' = elected /\ Turned(s)))
    BY <1>5, CountFx DEF CountVote
  <2>2. CASE Wins(s)
    <3>1. Typed' /\ VotesInv' /\ \E H \in [Nat -> Seq(Nat)] : GInv(H)'
      BY <1>5, <2>1, <2>2, WinStep
    <3> QED BY <3>1 DEF RaftInv
  <2>3. CASE elected' = elected /\ Turned(s)
    BY <1>0, <1>5, <2>1, <2>3, CountedStep
  <2> QED BY <2>1, <2>2, <2>3
<1>6. ASSUME NEW s \in Server, NEW p \in Server, SendAppend(s, p) PROVE RaftInv'
  BY <1>0, <1>6, SendStep
<1>7. ASSUME NEW s \in Server, NEW m \in rpcs, AppendRpc(s, m) PROVE RaftInv'
  BY <1>0, <1>7, AppendStep
<1>8. ASSUME NEW s \in Server, NEW m \in rpcs, Ack(s, m) PROVE RaftInv'
  BY <1>0, <1>8, AckStep
<1>9. ASSUME NEW s \in Server, NEW m \in rpcs, Reject(s, m) PROVE RaftInv'
  BY <1>0, <1>9, RejectStep
<1>10. CASE UNCHANGED raftVars
  <2>1. UNCHANGED electionVars /\ UNCHANGED <<commitIndex, books, rpcs, committed>>
    BY <1>10 DEF raftVars, replicationVars
  <2>2. Typed'
    BY <2>1 DEF Typed, TypeOK, ReplicationTypeOK, electionVars
  <2>3. VotesInv' /\ Still(G) /\ GCand(G)' /\ GAsked'
    BY <2>1, <2>2, QuietStep
  <2>4. GInv(G)'
    BY <2>1, <2>3, Closing
  <2> QED BY <1>0, <2>2, <2>3, <2>4
<1> QED BY <1>1, <1>2, <1>3, <1>4, <1>5, <1>6, <1>7, <1>8, <1>9, <1>10 DEF RaftNext

(* Some history of leaders explains every log, request and answer in every *)
(* reachable state.                                                        *)
THEOREM RaftCorrect == RaftSpec => []RaftInv
BY RaftInit, RaftStep, PTL DEF RaftSpec

(* Elections stay safe when logs grow, are cut and are compared between    *)
(* them: no term has two leaders, and a node follows a winner only.        *)
THEOREM ElectionsStaySafe == RaftSpec => [](OneLeaderPerTerm /\ LeaderWasElected)
<1>1. RaftInv => OneLeaderPerTerm
  BY WinnersAgree DEF RaftInv, Typed, VotesInv
<1>2. RaftInv => LeaderWasElected
  BY DEF RaftInv, VotesInv, LeaderInv
<1> QED BY <1>1, <1>2, RaftCorrect, PTL

(* Nor does replication lower a term or change the vote of one.            *)
LEMMA VoteKept ==
    ASSUME Typed, RaftNext, NEW r \in Server
    PROVE  /\ node'[r].term >= node[r].term
           /\ node'[r].term = node[r].term /\ node[r].votedFor # None
                => node'[r].votedFor = node[r].votedFor
<1> DEFINE Final == /\ node'[r].term >= node[r].term
                    /\ node'[r].term = node[r].term /\ node[r].votedFor # None
                         => node'[r].votedFor = node[r].votedFor
<1> SUFFICES Final
  OBVIOUS
<1>0. TypeOK /\ node[r] \in Election /\ node[r].term \in Nat
  BY NodeIs DEF Typed
<1>1. CASE Next
  BY <1>0, <1>1, VoteStep
<1>2. CASE node' = node
  BY <1>0, <1>2
<1>3. ASSUME NEW s \in Server, NEW m \in rpcs, AppendRpc(s, m) PROVE Final
  <2>1. CASE node' = node
    BY <1>2, <2>1
  <2>2. CASE node' # node
    <3> DEFINE n == At(s, m.term)
    <3>1. m \in Request /\ m.term \in Nat
      BY <1>3 DEF Typed, ReplicationTypeOK, AppendRpc, Request, Answer
    <3>2. /\ n \in Election
          /\ n.term >= node[s].term
          /\ n.term = node[s].term => n = node[s]
      <4>1. node[s].term \in Nat
        BY NodeIs
      <4>2. /\ n \in Election
            /\ n.term = IF m.term > node[s].term THEN m.term ELSE node[s].term
            /\ ~(m.term > node[s].term) => n = node[s]
        BY <1>0, <3>1, AtFacts
      <4> HIDE DEF n
      <4> QED BY <3>1, <4>1, <4>2
    <3>3. node' = [node EXCEPT ![s] = [n EXCEPT !.role = "follower", !.leader = m.leader]]
      BY <1>3, <2>2 DEF AppendRpc
    <3> HIDE DEF n
    <3>4. CASE r # s
      <4>1. node'[r] = node[r]
        BY <1>0, <3>3, <3>4 DEF TypeOK
      <4> QED BY <1>0, <4>1
    <3>5. CASE r = s
      <4>1. node'[s] = [n EXCEPT !.role = "follower", !.leader = m.leader]
        BY <1>0, <3>3 DEF TypeOK
      <4>2. node'[s].term = n.term /\ node'[s].votedFor = n.votedFor
        BY <3>2, <4>1 DEF Election
      <4> QED BY <3>2, <3>5, <4>2
    <3> QED BY <3>4, <3>5
  <2> QED BY <2>1, <2>2
<1>4. ASSUME NEW s \in Server, StartElection(s) \/ Ask(s) PROVE Final
  BY <1>1, <1>4 DEF StartElection, Ask, Next
<1>5. ASSUME NEW s \in Server, NEW m \in msgs, Vote(s, m) \/ CountVote(s, m) PROVE Final
  BY <1>1, <1>5 DEF Vote, CountVote, Next
<1>6. ASSUME NEW s \in Server, ClientAppend(s) PROVE Final
  BY <1>2, <1>6 DEF ClientAppend, LogAppend
<1>7. ASSUME NEW s \in Server, NEW p \in Server, SendAppend(s, p) PROVE Final
  BY <1>2, <1>7 DEF SendAppend, electionVars
<1>8. ASSUME NEW s \in Server, NEW m \in rpcs, Ack(s, m) \/ Reject(s, m) PROVE Final
  BY <1>2, <1>8 DEF Ack, Reject, electionVars
<1> QED BY <1>3, <1>4, <1>5, <1>6, <1>7, <1>8 DEF RaftNext

(* A node's term never falls and its vote in a term is final, whoever's    *)
(* entries it takes in between.                                            *)
THEOREM VotesStayFinal == RaftSpec => VoteIsFinal
<1>1. RaftInv /\ [RaftNext]_raftVars
        => [\A s \in Server :
               /\ node'[s].term >= node[s].term
               /\ node'[s].term = node[s].term /\ node[s].votedFor # None
                    => node'[s].votedFor = node[s].votedFor]_electionVars
  <2>1. RaftInv => Typed
    BY DEF RaftInv
  <2>2. UNCHANGED raftVars => UNCHANGED electionVars
    BY DEF raftVars
  <2> QED BY <2>1, <2>2, VoteKept
<1> QED BY <1>1, RaftCorrect, PTL DEF RaftSpec, VoteIsFinal

(* Log Matching: two logs with the same term at an index are the same up   *)
(* to there, however append_entries requests overlap, repeat and arrive    *)
(* late.                                                                   *)
THEOREM LogsMatch == RaftSpec => []LogMatching
<1>1. RaftInv => LogMatching
  BY Matching DEF RaftInv
<1> QED BY <1>1, RaftCorrect, PTL

(* Leader Completeness: what advance_commit has committed is in the log of *)
(* every server that leads then or later.                                  *)
THEOREM LeadersComplete == RaftSpec => []LeaderCompleteness
<1>1. RaftInv => LeaderCompleteness
  BY Completeness DEF RaftInv
<1> QED BY <1>1, RaftCorrect, PTL

(* No two leaders, and no leader and follower, commit different entries.   *)
THEOREM CommitsAgree == RaftSpec => []CommittedAgree
<1>1. RaftInv => CommittedAgree
  BY Agreement DEF RaftInv
<1> QED BY <1>1, RaftCorrect, PTL

(* match_index never claims of a peer in the leader's term what that peer  *)
(* does not hold.                                                          *)
THEOREM MatchHeld == RaftSpec => []MatchIsHeld
<1>1. RaftInv => MatchIsHeld
  BY HeldMatch DEF RaftInv
<1> QED BY <1>1, RaftCorrect, PTL
=============================================================================
