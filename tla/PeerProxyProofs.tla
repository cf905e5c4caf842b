--------------------------- MODULE PeerProxyProofs ---------------------------
(***************************************************************************)
(* What the fault injector guarantees for any cluster, any number of       *)
(* connections and any streams: a cut and a partition stop what arrives    *)
(* after them, whoever the proxy took the dialer for, and the mangling of  *)
(* a framed stream loses, repeats and tears nothing and moves a message by *)
(* at most one place.                                                      *)
(***************************************************************************)
EXTENDS PeerProxy, FiniteSetTheorems, TLAPS

(* How many messages of a stream have begun by its unit u. *)
MessageIn(st, u) == Cardinality({v \in 1 .. u : st[v] # "rest"})

(* A unit further on belongs to the same message or a later one. *)
LEMMA MessageGrows ==
    ASSUME NEW st, NEW u \in Nat, NEW v \in Nat, u <= v
    PROVE  /\ MessageIn(st, u) \in Nat /\ MessageIn(st, v) \in Nat
           /\ MessageIn(st, u) <= MessageIn(st, v)
<1>1. IsFiniteSet(1 .. v)
  BY FS_Interval
<1>2. /\ {w \in 1 .. v : st[w] # "rest"} \subseteq 1 .. v
      /\ {w \in 1 .. u : st[w] # "rest"} \subseteq {w \in 1 .. v : st[w] # "rest"}
  OBVIOUS
<1>3. IsFiniteSet({w \in 1 .. v : st[w] # "rest"})
  BY <1>1, <1>2, FS_Subset
<1>4. IsFiniteSet({w \in 1 .. u : st[w] # "rest"})
  BY <1>2, <1>3, FS_Subset
<1>5. Cardinality({w \in 1 .. u : st[w] # "rest"}) <= Cardinality({w \in 1 .. v : st[w] # "rest"})
  BY <1>2, <1>3, FS_Subset
<1> QED BY <1>3, <1>4, <1>5, FS_CardinalityType DEF MessageIn

(* The rest of a message belongs to it. *)
LEMMA MessageGoesOn ==
    ASSUME NEW st, NEW u \in Nat, NEW v \in Nat, u <= v,
           \A w \in (u + 1) .. v : st[w] = "rest"
    PROVE  MessageIn(st, u) = MessageIn(st, v)
<1>1. {w \in 1 .. u : st[w] # "rest"} = {w \in 1 .. v : st[w] # "rest"}
  OBVIOUS
<1> QED BY <1>1 DEF MessageIn

(* The next unit begins at most one more. *)
LEMMA MessageNext ==
    ASSUME NEW st, NEW u \in Nat
    PROVE  MessageIn(st, u + 1) <= MessageIn(st, u) + 1
<1> DEFINE S == {w \in 1 .. u : st[w] # "rest"}
           T == {w \in 1 .. u + 1 : st[w] # "rest"}
<1>1. IsFiniteSet(1 .. u)
  BY FS_Interval
<1>2. IsFiniteSet(S)
  BY <1>1, FS_Subset
<1>3. IsFiniteSet(S \cup {u + 1}) /\ Cardinality(S \cup {u + 1}) <= Cardinality(S) + 1
  <2>1. u + 1 \notin S
    OBVIOUS
  <2>2. Cardinality(S) \in Nat
    BY <1>2, FS_CardinalityType
  <2> HIDE DEF S
  <2> QED BY <1>2, <2>1, <2>2, FS_AddElement
<1>4. T \subseteq S \cup {u + 1}
  OBVIOUS
<1>5. Cardinality(T) <= Cardinality(S \cup {u + 1})
  BY <1>3, <1>4, FS_Subset
<1>6. IsFiniteSet(T)
  BY <1>3, <1>4, FS_Subset
<1>7. Cardinality(T) \in Nat /\ Cardinality(S) \in Nat /\ Cardinality(S \cup {u + 1}) \in Nat
  BY <1>2, <1>3, <1>6, FS_CardinalityType
<1>8. Cardinality(T) <= Cardinality(S) + 1
  <2> HIDE DEF S, T
  <2> QED BY <1>3, <1>5, <1>7
<1> QED BY <1>8 DEF MessageIn

(* A stream as StreamAssumption describes it. *)
Grammar(st) ==
    /\ st \in Seq(UnitKind)
    /\ \A i \in 1 .. Len(st) : st[i] = "rest" <=> i > 1 /\ st[i - 1] = "head"

(* What went out so far, read against the stream: the first units of it,   *)
(* each once, no message more than one place late, every rest right behind *)
(* its head.                                                               *)
Ordered(st, o) ==
    /\ Len(o) <= Len(st)
    /\ \A i \in DOMAIN o : o[i] \in 1 .. Len(o)
    /\ \A i, j \in DOMAIN o : o[i] = o[j] => i = j
    /\ \A i, j \in DOMAIN o : i < j => MessageIn(st, o[j]) >= MessageIn(st, o[i]) - 1
    /\ \A i \in DOMAIN o : st[o[i]] = "rest" => i > 1 /\ o[i - 1] = o[i] - 1

(* The units of s are the ones behind unit n of the stream. *)
RunFrom(n, s) == \A i \in DOMAIN s : s[i] = n + i

(* The next unit of the stream may go out after o. *)
Joins(st, o) ==
    Len(o) < Len(st) /\ st[Len(o) + 1] = "rest" => Len(o) > 0 /\ o[Len(o)] = Len(o)

(* Unit i, if there is one, begins a message. *)
Starts(st, i) == i <= Len(st) => st[i] # "rest"

(* The h units behind unit n are one message. *)
OneMessage(st, n, h) == Starts(st, n + 1) /\ \A j \in n + 2 .. n + h : st[j] = "rest"

(* The entries of a concatenation. *)
LEMMA Concatenated ==
    ASSUME NEW s \in Seq(Nat), NEW t \in Seq(Nat)
    PROVE  /\ s \o t \in Seq(Nat) /\ Len(s) \in Nat /\ Len(t) \in Nat
           /\ Len(s \o t) = Len(s) + Len(t)
           /\ DOMAIN (s \o t) = 1 .. Len(s) + Len(t)
           /\ DOMAIN s = 1 .. Len(s) /\ DOMAIN t = 1 .. Len(t)
           /\ \A i \in 1 .. Len(s) : (s \o t)[i] = s[i]
           /\ \A i \in Len(s) + 1 .. Len(s) + Len(t) :
                 i - Len(s) \in 1 .. Len(t) /\ (s \o t)[i] = t[i - Len(s)]
OBVIOUS

(* The next units go out in order. *)
LEMMA AppendRun ==
    ASSUME NEW st, Grammar(st), NEW o \in Seq(Nat), NEW s \in Seq(Nat),
           Ordered(st, o), Joins(st, o), RunFrom(Len(o), s), Len(o) + Len(s) <= Len(st)
    PROVE  Ordered(st, o \o s) /\ Joins(st, o \o s)
<1>n. PICK n \in Nat : n = Len(o)
  OBVIOUS
<1>k. PICK k \in Nat : k = Len(s)
  OBVIOUS
<1>r. PICK r : r = o \o s
  OBVIOUS
<1>0. n = Len(o) /\ k = Len(s) /\ r = o \o s
  BY <1>n, <1>k, <1>r
<1>1. /\ Len(r) = n + k /\ DOMAIN r = 1 .. n + k /\ DOMAIN o = 1 .. n /\ DOMAIN s = 1 .. k
  BY <1>0, Concatenated
<1>2. \A i \in 1 .. n : r[i] = o[i] /\ o[i] \in 1 .. n
  BY <1>0, <1>1, Concatenated DEF Ordered
<1>3. ASSUME NEW i \in n + 1 .. n + k PROVE r[i] = i
  <2>1. i - n \in DOMAIN s /\ r[i] = s[i - n]
    BY <1>0, <1>1, Concatenated
  <2>2. s[i - n] = n + (i - n)
    BY <1>0, <2>1 DEF RunFrom
  <2> QED BY <1>1, <2>1, <2>2
<1>4. n + k <= Len(st) /\ Len(st) \in Nat
  BY <1>0 DEF Grammar
<1>5. /\ \A i, j \in 1 .. n : o[i] = o[j] => i = j
      /\ \A i, j \in 1 .. n : i < j => MessageIn(st, o[j]) >= MessageIn(st, o[i]) - 1
      /\ \A i \in 1 .. n : st[o[i]] = "rest" => i > 1 /\ o[i - 1] = o[i] - 1
      /\ n < Len(st) /\ st[n + 1] = "rest" => n > 0 /\ o[n] = n
  BY <1>0, <1>1 DEF Ordered, Joins
<1>6. ASSUME NEW i \in 1 .. n + k PROVE r[i] \in 1 .. n + k /\ (i <= n <=> r[i] <= n)
  <2>1. CASE i <= n
    BY <1>1, <1>2, <2>1
  <2>2. CASE ~(i <= n)
    BY <1>1, <1>3, <2>2
  <2> QED BY <2>1, <2>2
<1>7. ASSUME NEW i \in 1 .. n + k, NEW j \in 1 .. n + k, r[i] = r[j] PROVE i = j
  <2>1. CASE i <= n /\ j <= n
    BY <1>1, <1>2, <1>5, <1>7, <2>1
  <2>2. CASE ~(i <= n) /\ ~(j <= n)
    BY <1>1, <1>3, <1>7, <2>2
  <2> QED BY <1>6, <1>7, <2>1, <2>2
<1>8. ASSUME NEW i \in 1 .. n + k, NEW j \in 1 .. n + k, i < j
      PROVE  MessageIn(st, r[j]) >= MessageIn(st, r[i]) - 1
  <2>1. CASE j <= n
    <3>1. i \in 1 .. n /\ j \in 1 .. n /\ r[i] = o[i] /\ r[j] = o[j]
      BY <1>2, <1>8, <2>1
    <3> QED BY <1>5, <1>8, <3>1
  <2>2. CASE ~(j <= n)
    <3>1. r[j] = j /\ j \in Nat
      BY <1>3, <2>2
    <3>2. r[i] \in Nat /\ r[i] <= j
      BY <1>2, <1>3, <1>8, <2>2, SMTT(40)
    <3>3. /\ MessageIn(st, r[i]) \in Nat /\ MessageIn(st, j) \in Nat
          /\ MessageIn(st, r[i]) <= MessageIn(st, j)
      BY <3>1, <3>2, MessageGrows
    <3> QED BY <3>1, <3>3
  <2> QED BY <2>1, <2>2
<1>9. ASSUME NEW i \in 1 .. n + k, st[r[i]] = "rest"
      PROVE  i > 1 /\ r[i - 1] = r[i] - 1
  <2>1. CASE i <= n
    <3>1. i \in 1 .. n /\ i - 1 \in Int /\ (i > 1 => i - 1 \in 1 .. n)
      BY <2>1
    <3>2. i > 1 /\ o[i - 1] = o[i] - 1
      BY <1>2, <1>5, <1>9, <3>1
    <3> QED BY <1>2, <3>1, <3>2
  <2>2. CASE i = n + 1
    <3>1. r[i] = n + 1 /\ n < Len(st)
      BY <1>3, <1>4, <2>2
    <3>2. n > 0 /\ o[n] = n
      BY <1>5, <1>9, <3>1
    <3> QED BY <1>2, <2>2, <3>1, <3>2
  <2>3. CASE i > n + 1
    <3>1. i \in n + 1 .. n + k /\ i - 1 \in n + 1 .. n + k
      BY <2>3
    <3> QED BY <1>3, <2>3, <3>1
  <2> QED BY <2>1, <2>2, <2>3
<1>10. Joins(st, r)
  <2>1. CASE k = 0
    BY <1>1, <1>2, <1>5, <2>1 DEF Joins
  <2>2. CASE k > 0
    BY <1>1, <1>3, <2>2 DEF Joins
  <2> QED BY <2>1, <2>2
<1>11. Ordered(st, r)
  BY <1>1, <1>4, <1>6, <1>7, <1>8, <1>9 DEF Ordered
<1> QED BY <1>0, <1>10, <1>11

(* The held message goes out behind the next one. *)
LEMMA AppendSwap ==
    ASSUME NEW st, Grammar(st), NEW o \in Seq(Nat), NEW held \in Seq(Nat), NEW msg \in Seq(Nat),
           Ordered(st, o), RunFrom(Len(o), held), RunFrom(Len(o) + Len(held), msg),
           Len(o) + Len(held) + Len(msg) <= Len(st), held # <<>>, msg # <<>>,
           OneMessage(st, Len(o), Len(held)), OneMessage(st, Len(o) + Len(held), Len(msg)),
           Starts(st, Len(o) + Len(held) + Len(msg) + 1)
    PROVE  Ordered(st, o \o (msg \o held)) /\ Joins(st, o \o (msg \o held))
<1>n. PICK n \in Nat : n = Len(o)
  OBVIOUS
<1>h. PICK h \in Nat : h = Len(held)
  OBVIOUS
<1>m. PICK m \in Nat : m = Len(msg)
  OBVIOUS
<1>s. PICK s, r : s = msg \o held /\ r = o \o s
  OBVIOUS
<1>0. n = Len(o) /\ h = Len(held) /\ m = Len(msg) /\ s = msg \o held /\ r = o \o s
  BY <1>n, <1>h, <1>m, <1>s
<1>b. h > 0 /\ m > 0
  BY <1>0
<1>c. DOMAIN o = 1 .. n /\ DOMAIN held = 1 .. h /\ DOMAIN msg = 1 .. m
  BY <1>0
<1>d. /\ s \in Seq(Nat) /\ Len(s) = m + h /\ DOMAIN s = 1 .. m + h
      /\ \A i \in 1 .. m : s[i] = msg[i]
      /\ \A i \in m + 1 .. m + h : i - m \in 1 .. h /\ s[i] = held[i - m]
  BY <1>0, Concatenated
<1>1. /\ Len(r) = n + h + m /\ DOMAIN r = 1 .. n + h + m
      /\ \A i \in 1 .. n : r[i] = o[i]
      /\ \A i \in n + 1 .. n + h + m : i - n \in 1 .. m + h /\ r[i] = s[i - n]
  BY <1>0, <1>d, Concatenated, SMTT(40)
<1>2. \A i \in 1 .. n : r[i] = o[i] /\ o[i] \in 1 .. n
  BY <1>0, <1>c, <1>1 DEF Ordered
<1>3. ASSUME NEW i \in n + 1 .. n + m PROVE r[i] = i + h
  <2>1. r[i] = s[i - n] /\ i - n \in 1 .. m
    BY <1>1
  <2>2. s[i - n] = msg[i - n]
    BY <1>d, <2>1
  <2>3. msg[i - n] = n + h + (i - n)
    BY <1>0, <1>c, <2>1 DEF RunFrom
  <2> QED BY <1>b, <2>1, <2>2, <2>3
<1>4. ASSUME NEW i \in n + m + 1 .. n + m + h PROVE r[i] = i - m
  <2>1. r[i] = s[i - n] /\ i - n \in m + 1 .. m + h
    BY <1>1
  <2>2. s[i - n] = held[i - n - m] /\ i - n - m \in 1 .. h
    BY <1>d, <2>1
  <2>3. held[i - n - m] = n + (i - n - m)
    BY <1>0, <1>c, <2>2 DEF RunFrom
  <2> QED BY <1>b, <2>1, <2>2, <2>3
<1>5. n + h + m <= Len(st) /\ Len(st) \in Nat
  BY <1>0 DEF Grammar
<1>6. /\ \A i, j \in 1 .. n : o[i] = o[j] => i = j
      /\ \A i, j \in 1 .. n : i < j => MessageIn(st, o[j]) >= MessageIn(st, o[i]) - 1
      /\ \A i \in 1 .. n : st[o[i]] = "rest" => i > 1 /\ o[i - 1] = o[i] - 1
      /\ st[n + 1] # "rest" /\ \A j \in n + 2 .. n + h : st[j] = "rest"
      /\ st[n + h + 1] # "rest" /\ \A j \in n + h + 2 .. n + h + m : st[j] = "rest"
      /\ n + h + m + 1 <= Len(st) => st[n + h + m + 1] # "rest"
  <2>1. /\ \A i, j \in 1 .. n : o[i] = o[j] => i = j
        /\ \A i, j \in 1 .. n : i < j => MessageIn(st, o[j]) >= MessageIn(st, o[i]) - 1
        /\ \A i \in 1 .. n : st[o[i]] = "rest" => i > 1 /\ o[i - 1] = o[i] - 1
    BY <1>0, <1>c DEF Ordered
  <2>2. st[n + 1] # "rest" /\ \A j \in n + 2 .. n + h : st[j] = "rest"
    BY <1>0, <1>b, <1>5 DEF OneMessage, Starts
  <2>3. st[n + h + 1] # "rest" /\ \A j \in n + h + 2 .. n + h + m : st[j] = "rest"
    BY <1>0, <1>b, <1>5 DEF OneMessage, Starts
  <2>4. n + h + m + 1 <= Len(st) => st[n + h + m + 1] # "rest"
    BY <1>0, <1>b, <1>5 DEF Starts
  <2> QED BY <1>b, <2>1, <2>2, <2>3, <2>4
<1>7. ASSUME NEW i \in 1 .. n + h + m
      PROVE  /\ i <= n => r[i] \in 1 .. n
             /\ i \in n + 1 .. n + m => r[i] \in n + h + 1 .. n + h + m
             /\ i \in n + m + 1 .. n + m + h => r[i] \in n + 1 .. n + h
             /\ r[i] \in 1 .. n + h + m
             /\ \/ i <= n \/ i \in n + 1 .. n + m \/ i \in n + m + 1 .. n + m + h
  <2>1. CASE i <= n
    <3>1. i \in 1 .. n
      BY <2>1
    <3>2. r[i] \in 1 .. n
      BY <1>2, <3>1
    <3> QED BY <2>1, <3>2
  <2>2. CASE i \in n + 1 .. n + m
    BY <1>b, <1>3, <2>2
  <2>3. CASE i \in n + m + 1 .. n + m + h
    BY <1>b, <1>4, <2>3, SMTT(40)
  <2> QED BY <1>b, <2>1, <2>2, <2>3
<1>8. ASSUME NEW i \in 1 .. n + h + m, NEW j \in 1 .. n + h + m, r[i] = r[j] PROVE i = j
  <2>1. CASE i <= n /\ j <= n
    BY <1>b, <1>2, <1>6, <1>8, <2>1
  <2>2. CASE i \in n + 1 .. n + m /\ j \in n + 1 .. n + m
    BY <1>b, <1>3, <1>8, <2>2
  <2>3. CASE i \in n + m + 1 .. n + m + h /\ j \in n + m + 1 .. n + m + h
    BY <1>b, <1>4, <1>8, <2>3
  <2>4. \/ i <= n /\ j <= n
        \/ i \in n + 1 .. n + m /\ j \in n + 1 .. n + m
        \/ i \in n + m + 1 .. n + m + h /\ j \in n + m + 1 .. n + m + h
    <3>0. PICK x \in Int : x = r[i] /\ x = r[j]
      BY <1>7, <1>8
    <3>1. \/ i <= n /\ x \in 1 .. n
          \/ i \in n + 1 .. n + m /\ x \in n + h + 1 .. n + h + m
          \/ i \in n + m + 1 .. n + m + h /\ x \in n + 1 .. n + h
      BY <1>7, <3>0
    <3>2. \/ j <= n /\ x \in 1 .. n
          \/ j \in n + 1 .. n + m /\ x \in n + h + 1 .. n + h + m
          \/ j \in n + m + 1 .. n + m + h /\ x \in n + 1 .. n + h
      BY <1>7, <3>0
    <3> QED BY <3>1, <3>2
  <2> QED BY <2>1, <2>2, <2>3, <2>4
<1>9. ASSUME NEW i \in 1 .. n + h + m, NEW j \in 1 .. n + h + m, i < j
      PROVE  MessageIn(st, r[j]) >= MessageIn(st, r[i]) - 1
  <2>1. CASE j <= n
    <3>1. i \in 1 .. n /\ j \in 1 .. n /\ r[i] = o[i] /\ r[j] = o[j]
      BY <1>b, <1>2, <1>9, <2>1
    <3> QED BY <1>6, <1>9, <3>1
  <2>2. CASE r[i] <= r[j]
    <3>1. r[i] \in Nat /\ r[j] \in Nat
      BY <1>b, <1>7, SMTT(40)
    <3>2. /\ MessageIn(st, r[i]) \in Nat /\ MessageIn(st, r[j]) \in Nat
          /\ MessageIn(st, r[i]) <= MessageIn(st, r[j])
      BY <2>2, <3>1, MessageGrows
    <3> QED BY <3>2
  <2>3. CASE i \in n + 1 .. n + m /\ j \in n + m + 1 .. n + m + h
    <3>1. r[i] = i + h /\ r[j] = j - m /\ i + h \in Nat /\ j - m \in Nat
          /\ n + h \in Nat /\ n + h + 1 \in Nat
      BY <1>b, <1>3, <1>4, <2>3
    <3>2. MessageIn(st, i + h) = MessageIn(st, n + h + 1)
      <4>1. \A w \in (n + h + 1) + 1 .. i + h : st[w] = "rest"
        BY <1>b, <1>6, <2>3
      <4> QED BY <1>b, <2>3, <3>1, <4>1, MessageGoesOn
    <3>3. MessageIn(st, j - m) = MessageIn(st, n + h)
      <4>1. \A w \in (j - m) + 1 .. n + h : st[w] = "rest"
        BY <1>b, <1>6, <2>3
      <4> QED BY <1>b, <2>3, <3>1, <4>1, MessageGoesOn
    <3>4. MessageIn(st, n + h + 1) <= MessageIn(st, n + h) + 1
      BY <3>1, MessageNext
    <3>5. MessageIn(st, n + h + 1) \in Nat /\ MessageIn(st, n + h) \in Nat
      BY <3>1, MessageGrows, SMTT(40)
    <3> QED BY <3>1, <3>2, <3>3, <3>4, <3>5
  <2>4. r[i] <= r[j] \/ j <= n \/ (i \in n + 1 .. n + m /\ j \in n + m + 1 .. n + m + h)
    <3>1. CASE i <= n /\ j > n
      <4>1. r[i] \in 1 .. n
        BY <1>7, <3>1
      <4>2. r[j] \in n + 1 .. n + h + m
        BY <1>7, <3>1
      <4> QED BY <4>1, <4>2, SMTT(40)
    <3>2. CASE i > n /\ j <= n + m
      BY <1>b, <1>3, <1>9, <3>2
    <3>3. CASE i > n + m
      BY <1>b, <1>4, <1>9, <3>3
    <3> QED BY <1>b, <1>9, <3>1, <3>2, <3>3
  <2> QED BY <1>b, <2>1, <2>2, <2>3, <2>4
<1>10. ASSUME NEW i \in 1 .. n + h + m, st[r[i]] = "rest"
       PROVE  i > 1 /\ r[i - 1] = r[i] - 1
  <2>1. CASE i <= n
    <3>1. i \in 1 .. n /\ i - 1 \in Int /\ (i > 1 => i - 1 \in 1 .. n)
      BY <1>b, <2>1
    <3>2. i > 1 /\ o[i - 1] = o[i] - 1
      BY <1>b, <1>2, <1>6, <1>10, <3>1
    <3> QED BY <1>b, <1>2, <3>1, <3>2
  <2>2. CASE i = n + 1 \/ i = n + m + 1
    <3>1. i = n + 1 => r[i] = n + h + 1
      BY <1>b, <1>1, <1>3
    <3>2. i = n + m + 1 => r[i] = n + 1
      BY <1>b, <1>1, <1>4
    <3> QED BY <1>6, <1>10, <2>2, <3>1, <3>2
  <2>3. CASE i \in n + 2 .. n + m
    <3>1. i \in n + 1 .. n + m /\ i - 1 \in n + 1 .. n + m
      BY <1>b, <2>3
    <3> QED BY <1>b, <1>3, <2>3, <3>1
  <2>4. CASE i \in n + m + 2 .. n + m + h
    <3>1. i \in n + m + 1 .. n + m + h /\ i - 1 \in n + m + 1 .. n + m + h
      BY <1>b, <2>4
    <3> QED BY <1>b, <1>4, <2>4, <3>1
  <2> QED BY <1>b, <2>1, <2>2, <2>3, <2>4
<1>11. Joins(st, r)
  BY <1>b, <1>1, <1>6 DEF Joins
<1>12. Ordered(st, r)
  BY <1>b, <1>1, <1>5, <1>7, <1>8, <1>9, <1>10 DEF Ordered
<1> QED BY <1>0, <1>11, <1>12

(* One run after another is one run. *)
LEMMA RunConcat ==
    ASSUME NEW n \in Nat, NEW s \in Seq(Nat), NEW t \in Seq(Nat),
           RunFrom(n, s), RunFrom(n + Len(s), t)
    PROVE  RunFrom(n, s \o t) /\ s \o t \in Seq(Nat) /\ Len(s \o t) = Len(s) + Len(t)
<1>k. PICK k \in Nat : k = Len(s)
  OBVIOUS
<1>l. PICK l \in Nat : l = Len(t)
  OBVIOUS
<1>1. DOMAIN (s \o t) = 1 .. k + l /\ DOMAIN s = 1 .. k /\ DOMAIN t = 1 .. l
      /\ s \o t \in Seq(Nat) /\ Len(s \o t) = k + l
  BY <1>k, <1>l, Concatenated
<1>2. ASSUME NEW i \in 1 .. k + l PROVE (s \o t)[i] = n + i
  <2>1. CASE i <= k
    <3>1. i \in 1 .. k
      BY <2>1
    <3>2. (s \o t)[i] = s[i]
      BY <1>k, <3>1, Concatenated
    <3> QED BY <1>1, <3>1, <3>2 DEF RunFrom
  <2>2. CASE ~(i <= k)
    <3>1. i - k \in 1 .. l /\ i \in k + 1 .. k + l
      BY <2>2
    <3>2. (s \o t)[i] = t[i - k]
      BY <1>k, <1>l, <3>1, Concatenated
    <3>3. t[i - k] = n + k + (i - k)
      BY <1>k, <1>1, <3>1 DEF RunFrom
    <3> QED BY <3>2, <3>3
  <2> QED BY <2>1, <2>2
<1> QED BY <1>k, <1>l, <1>1, <1>2 DEF RunFrom

(* How many units the first message of `pending` has: MessageLen, of a     *)
(* stream instead of a pump.                                               *)
FirstLen(st, pending) ==
    IF pending = <<>> THEN 0
    ELSE IF st[pending[1]] \in {"body", "nobody"} THEN 1
    ELSE IF st[pending[1]] = "head" /\ Len(pending) > 1 THEN 2 ELSE 0

(* Both halves of a run are runs. *)
LEMMA SplitRun ==
    ASSUME NEW s \in Seq(Nat), NEW k \in Nat, k <= Len(s), NEW a \in Nat, RunFrom(a, s)
    PROVE  /\ SubSeq(s, 1, k) \in Seq(Nat) /\ Len(SubSeq(s, 1, k)) = k
           /\ RunFrom(a, SubSeq(s, 1, k))
           /\ SubSeq(s, k + 1, Len(s)) \in Seq(Nat)
           /\ Len(SubSeq(s, k + 1, Len(s))) = Len(s) - k
           /\ RunFrom(a + k, SubSeq(s, k + 1, Len(s)))
<1>l. PICK l \in Nat : l = Len(s)
  OBVIOUS
<1>1. SubSeq(s, 1, k) = [i \in 1 .. k |-> s[i]]
  BY <1>l
<1>2. SubSeq(s, k + 1, l) = [i \in 1 .. l - k |-> s[i + k]]
  BY <1>l
<1>3. \A i \in 1 .. l : s[i] \in Nat /\ s[i] = a + i
  BY <1>l, SMTT(40) DEF RunFrom
<1>4. k <= l
  BY <1>l
<1>5. \A i \in 1 .. k : s[i] \in Nat /\ s[i] = a + i
  BY <1>3, <1>4
<1>6. ASSUME NEW i \in 1 .. l - k PROVE s[i + k] \in Nat /\ s[i + k] = a + k + i
  <2>1. i + k \in 1 .. l /\ i \in Int
    BY <1>4
  <2>2. s[i + k] \in Nat /\ s[i + k] = a + (i + k)
    BY <1>3, <2>1
  <2> QED BY <2>1, <2>2
<1>7. /\ SubSeq(s, 1, k) \in Seq(Nat) /\ Len(SubSeq(s, 1, k)) = k
      /\ RunFrom(a, SubSeq(s, 1, k))
  BY <1>1, <1>5 DEF RunFrom
<1>8. /\ SubSeq(s, k + 1, l) \in Seq(Nat) /\ Len(SubSeq(s, k + 1, l)) = l - k
      /\ RunFrom(a + k, SubSeq(s, k + 1, l))
  <2>1. PICK m \in Nat : m = l - k
    BY <1>4
  <2>2. PICK t : t = [i \in 1 .. m |-> s[i + k]]
    OBVIOUS
  <2>3. \A i \in 1 .. m : s[i + k] \in Nat /\ s[i + k] = a + k + i
    BY <1>6, <2>1
  <2>4. t \in Seq(Nat) /\ Len(t) = m /\ DOMAIN t = 1 .. m
    <3>1. t \in [1 .. m -> Nat]
      BY <2>2, <2>3
    <3> QED BY <3>1
  <2>5. RunFrom(a + k, t)
    BY <2>2, <2>3, <2>4 DEF RunFrom
  <2> QED BY <1>2, <2>1, <2>2, <2>4, <2>5
<1> QED BY <1>l, <1>7, <1>8

(* http_message_len finds one whole message, and behind it the beginning   *)
(* of another.                                                             *)
LEMMA FirstMessage ==
    ASSUME NEW st, Grammar(st), NEW a \in Nat, NEW pending \in Seq(Nat), RunFrom(a, pending),
           a + Len(pending) <= Len(st), Starts(st, a + 1),
           NEW k \in Nat, k = FirstLen(st, pending), k > 0
    PROVE  k <= Len(pending) /\ OneMessage(st, a, k) /\ Starts(st, a + k + 1)
<1>l. PICK l \in Nat : l = Len(pending)
  OBVIOUS
<1>0. pending # <<>>
  BY DEF FirstLen
<1>1. l > 0 /\ pending[1] = a + 1
  BY <1>l, <1>0 DEF RunFrom
<1>2. a + l <= Len(st) /\ Len(st) \in Nat
  BY <1>l DEF Grammar
<1>3. \/ k = 1 /\ st[a + 1] \in {"body", "nobody"}
      \/ k = 2 /\ st[a + 1] = "head" /\ l > 1
  BY <1>l, <1>0, <1>1 DEF FirstLen
<1>4. k <= l
  BY <1>1, <1>3
<1>5. \A i \in 1 .. Len(st) : st[i] = "rest" <=> i > 1 /\ st[i - 1] = "head"
  BY DEF Grammar
<1>6. CASE k = 1 /\ st[a + 1] \in {"body", "nobody"}
  <2>1. a + 2 <= Len(st) => st[a + 2] # "rest"
    BY <1>2, <1>5, <1>6
  <2> QED BY <1>l, <1>4, <1>6, <2>1 DEF OneMessage, Starts
<1>7. CASE k = 2 /\ st[a + 1] = "head" /\ l > 1
  <2>1. a + 2 \in 1 .. Len(st)
    BY <1>2, <1>7
  <2>2. st[a + 2] = "rest"
    BY <1>5, <1>7, <2>1
  <2>3. a + 3 <= Len(st) => st[a + 3] # "rest"
    BY <1>2, <1>5, <2>2
  <2> QED BY <1>l, <1>4, <1>7, <2>2, <2>3 DEF OneMessage, Starts
<1> QED BY <1>3, <1>6, <1>7
-----------------------------------------------------------------------------
WireState == [stream : Requests \cup Answers \cup {<<>>}, sent : Nat, read : Nat,
              eof : BOOLEAN]

(* What pump q has read and not written yet: the held message, then what   *)
(* is not framed yet, then the chunk it just read, up to the last unit it  *)
(* read, next to what it wrote.                                            *)
Carries(w, o, q) ==
    /\ Joins(w.stream, o)
    /\ RunFrom(Len(o), q.held)
    /\ RunFrom(Len(o) + Len(q.held), q.pending)
    /\ RunFrom(Len(o) + Len(q.held) + Len(q.pending), q.chunk)
    /\ w.read = Len(o) + Len(q.held) + Len(q.pending) + Len(q.chunk)
    /\ q.framed /\ q.pc # "flushed" =>
          /\ OneMessage(w.stream, Len(o), Len(q.held))
          /\ Starts(w.stream, Len(o) + Len(q.held) + 1)
    /\ ~q.framed => q.held = <<>> /\ q.pending = <<>>
    /\ q.pc \notin {"got", "delay", "write"} => q.chunk = <<>>
    /\ q.pc = "frame" => q.framed
    /\ q.pc \in {"flush", "flushed"} => w.eof /\ w.read = w.sent
    /\ q.pc = "flushed" => q.held = <<>> /\ q.pending = <<>>

(* A pump that runs, or returned because its sender was gone. *)
Running(q) == q.pc \notin {"none", "ended"}

FlowOK(w, o, q) ==
    /\ w.read <= w.sent /\ w.sent <= Len(w.stream)
    /\ Ordered(w.stream, o)
    /\ q.pc = "none" => w.sent = 0 /\ w.read = 0 /\ o = <<>>
    /\ Running(q) => Carries(w, o, q)

(* The streams of the model are as StreamAssumption says. *)
LEMMA StreamGrammar ==
    ASSUME NEW w \in WireState
    PROVE  Grammar(w.stream) /\ w.read \in Nat /\ w.sent \in Nat /\ Len(w.stream) \in Nat
<1>1. w.stream \in Requests \cup Answers \cup {<<>>} /\ w.read \in Nat /\ w.sent \in Nat
  BY DEF WireState
<1>2. CASE w.stream \in Requests \cup Answers
  BY <1>1, <1>2, StreamAssumption DEF Grammar
<1>3. CASE w.stream = <<>>
  BY <1>1, <1>3 DEF Grammar
<1> QED BY <1>1, <1>2, <1>3

(* The types of a pump's fields. *)
LEMMA PumpFields ==
    ASSUME NEW q \in PumpState
    PROVE  /\ q.chunk \in Seq(Nat) /\ q.pending \in Seq(Nat) /\ q.held \in Seq(Nat)
           /\ q.framed \in BOOLEAN /\ q.pc # "none"
           /\ Len(q.chunk) \in Nat /\ Len(q.pending) \in Nat /\ Len(q.held) \in Nat
BY DEF PumpState, Returned

(* A pump that looks, waits or is told, and carries what it carried. *)
LEMMA FlowMoves ==
    ASSUME NEW w, NEW o, NEW q, NEW r, FlowOK(w, o, q), Running(q), q.pc # "flushed",
           r.held = q.held, r.pending = q.pending, r.chunk = q.chunk, r.framed = q.framed,
           r.pc \in {"top", "checked", "wait", "delay", "write", "flush"},
           r.pc \notin {"delay", "write"} => q.chunk = <<>>,
           r.pc = "flush" => w.eof /\ w.read = w.sent
    PROVE  FlowOK(w, o, r)
BY DEF FlowOK, Carries, Running

(* A pump that gives up leaves what it wrote as it is. *)
LEMMA FlowEnds ==
    ASSUME NEW w, NEW o, NEW q, NEW r, FlowOK(w, o, q), r.pc = "ended"
    PROVE  FlowOK(w, o, r)
BY DEF FlowOK, Running

(* A read takes the next units of the stream. *)
LEMMA FlowReads ==
    ASSUME NEW w \in WireState, NEW v \in WireState, NEW o \in Seq(Nat),
           NEW q \in PumpState, NEW r, NEW n \in Nat,
           FlowOK(w, o, q), q.pc = "wait", w.read + n <= w.sent,
           v.stream = w.stream, v.sent = w.sent, v.read = w.read + n, v.eof = w.eof,
           r.held = q.held, r.pending = q.pending, r.framed = q.framed, r.pc = "got",
           r.chunk = [i \in 1 .. n |-> w.read + i]
    PROVE  FlowOK(v, o, r)
<1>1. Carries(w, o, q) /\ q.chunk = <<>>
  BY DEF FlowOK, Running, Carries
<1>2. w.read = Len(o) + Len(q.held) + Len(q.pending) /\ Len(o) \in Nat
      /\ Len(q.held) \in Nat /\ Len(q.pending) \in Nat
  BY <1>1, PumpFields DEF Carries
<1>3. r.chunk \in Seq(Nat) /\ Len(r.chunk) = n
      /\ RunFrom(Len(o) + Len(q.held) + Len(q.pending), r.chunk)
  <2>1. r.chunk \in [1 .. n -> Nat]
    BY StreamGrammar
  <2>2. r.chunk \in Seq(Nat) /\ Len(r.chunk) = n /\ DOMAIN r.chunk = 1 .. n
    BY <2>1
  <2>3. PICK a \in Nat : a = w.read
    BY StreamGrammar
  <2>4. \A i \in 1 .. n : r.chunk[i] = a + i
    BY <2>3
  <2>5. RunFrom(a, r.chunk)
    BY <2>2, <2>4 DEF RunFrom
  <2> QED BY <1>2, <2>2, <2>3, <2>5
<1>4. Carries(v, o, r)
  <2>1. v.read = Len(o) + Len(r.held) + Len(r.pending) + Len(r.chunk)
    BY <1>2, <1>3
  <2> QED BY <1>1, <1>3, <2>1 DEF Carries
<1> QED BY <1>4, StreamGrammar DEF FlowOK

(* What is not framed yet and what was just read are one run. *)
LEMMA CarriedRuns ==
    ASSUME NEW w, NEW o \in Seq(Nat), NEW q \in PumpState, Carries(w, o, q)
    PROVE  /\ RunFrom(Len(o) + Len(q.held), q.pending \o q.chunk)
           /\ Len(q.pending \o q.chunk) = Len(q.pending) + Len(q.chunk)
           /\ RunFrom(Len(o), q.held \o q.pending)
           /\ Len(q.held \o q.pending) = Len(q.held) + Len(q.pending)
           /\ q.pending \o q.chunk \in Seq(Nat) /\ q.held \o q.pending \in Seq(Nat)
<1>1. Len(o) \in Nat /\ Len(q.held) \in Nat
      /\ q.held \in Seq(Nat) /\ q.pending \in Seq(Nat) /\ q.chunk \in Seq(Nat)
  BY PumpFields
<1>2. PICK n \in Nat, a \in Nat : n = Len(o) /\ a = Len(o) + Len(q.held)
  BY <1>1
<1>3. /\ RunFrom(n, q.held) /\ RunFrom(n + Len(q.held), q.pending)
      /\ RunFrom(a, q.pending) /\ RunFrom(a + Len(q.pending), q.chunk)
  BY <1>2 DEF Carries
<1>4. RunFrom(a, q.pending \o q.chunk) /\ q.pending \o q.chunk \in Seq(Nat)
      /\ Len(q.pending \o q.chunk) = Len(q.pending) + Len(q.chunk)
  BY <1>1, <1>3, RunConcat
<1>5. RunFrom(n, q.held \o q.pending) /\ q.held \o q.pending \in Seq(Nat)
      /\ Len(q.held \o q.pending) = Len(q.held) + Len(q.pending)
  BY <1>1, <1>3, RunConcat
<1> QED BY <1>2, <1>4, <1>5

(* A framed pump puts what it read behind what it has not framed yet. *)
LEMMA FlowFrames ==
    ASSUME NEW w, NEW o \in Seq(Nat), NEW q \in PumpState, NEW r, NEW t \in Seq(Nat),
           FlowOK(w, o, q), q.pc = "write", q.framed,
           r.pc = "frame", r.held = q.held, r.framed = q.framed, r.chunk = <<>>, r.pending = t,
           RunFrom(Len(o) + Len(q.held), t), Len(t) = Len(q.pending) + Len(q.chunk)
    PROVE  FlowOK(w, o, r)
<1>1. Carries(w, o, q)
  BY DEF FlowOK, Running
<1>2. Len(o) \in Nat /\ Len(q.held) \in Nat /\ Len(q.pending) \in Nat /\ Len(q.chunk) \in Nat
  BY PumpFields
<1>3. Carries(w, o, r)
  <2>1. RunFrom(Len(o) + Len(r.held) + Len(r.pending), r.chunk) /\ Len(r.chunk) = 0
    BY DEF RunFrom
  <2>2. w.read = Len(o) + Len(r.held) + Len(r.pending) + Len(r.chunk)
    <3>1. PICK n \in Nat, h \in Nat, k \in Nat, c \in Nat :
              n = Len(o) /\ h = Len(q.held) /\ k = Len(q.pending) /\ c = Len(q.chunk)
      BY <1>2
    <3>2. w.read = n + h + k + c
      BY <1>1, <3>1 DEF Carries
    <3>3. Len(o) = n /\ Len(r.held) = h /\ Len(r.pending) = k + c /\ Len(r.chunk) = 0
      BY <2>1, <3>1
    <3>4. n + h + k + c = n + h + (k + c) + 0
      OBVIOUS
    <3> QED BY <3>2, <3>3, <3>4, Zenon
  <2> QED BY <1>1, <2>1, <2>2 DEF Carries
<1> QED BY <1>3 DEF FlowOK

(* A pump that writes everything it has, in order, has nothing left. *)
LEMMA FlowEmpties ==
    ASSUME NEW w \in WireState, NEW o \in Seq(Nat), NEW q \in PumpState, NEW r,
           NEW s \in Seq(Nat), FlowOK(w, o, q), Running(q),
           RunFrom(Len(o), s), w.read = Len(o) + Len(s),
           r.held = <<>>, r.pending = <<>>, r.chunk = <<>>,
           r.pc \in {"top", "flushed"}, r.pc = "top" => ~r.framed,
           r.pc = "flushed" => w.eof /\ w.read = w.sent
    PROVE  FlowOK(w, o \o s, r)
<1>1. Carries(w, o, q) /\ Ordered(w.stream, o) /\ w.read <= w.sent /\ w.sent <= Len(w.stream)
  BY DEF FlowOK
<1>2. Len(o) \in Nat /\ Len(s) \in Nat /\ Len(o \o s) = Len(o) + Len(s)
  BY Concatenated
<1>3. Len(o) + Len(s) <= Len(w.stream)
  BY <1>1, <1>2, StreamGrammar
<1>4. Ordered(w.stream, o \o s) /\ Joins(w.stream, o \o s)
  BY <1>1, <1>3, StreamGrammar, AppendRun DEF Carries
<1>5. Carries(w, o \o s, r)
  BY <1>2, <1>4 DEF Carries, RunFrom
<1> QED BY <1>1, <1>4, <1>5 DEF FlowOK

(* The held message goes out because nothing overtook it. *)
LEMMA FlowReleases ==
    ASSUME NEW w \in WireState, NEW o \in Seq(Nat), NEW q \in PumpState, NEW r,
           FlowOK(w, o, q), q.pc = "wait", q.held # <<>>,
           r.pc = "top", r.held = <<>>, r.framed = q.framed, r.chunk = q.chunk,
           r.pending = q.pending
    PROVE  FlowOK(w, o \o q.held, r)
<1>1. Carries(w, o, q) /\ Ordered(w.stream, o) /\ w.read <= w.sent /\ w.sent <= Len(w.stream)
  BY DEF FlowOK, Running
<1>2. PICK s \in Seq(Nat), t \in Seq(Nat) : s = q.held /\ t = o \o q.held
  BY PumpFields, Concatenated
<1>3. Len(o) \in Nat /\ Len(s) \in Nat /\ Len(t) = Len(o) + Len(s) /\ Len(q.pending) \in Nat
      /\ Len(q.chunk) \in Nat
  BY <1>2, PumpFields, Concatenated
<1>4. q.framed /\ RunFrom(Len(o), s)
  BY <1>1, <1>2, PumpFields DEF Carries
<1>5. w.read = Len(t) + Len(q.pending) + Len(q.chunk)
  BY <1>1, <1>2, <1>3 DEF Carries
<1>6. Len(o) + Len(s) <= Len(w.stream)
  <2>1. Len(t) <= w.read
    <3>1. PICK n \in Nat, k \in Nat, c \in Nat :
              n = Len(t) /\ k = Len(q.pending) /\ c = Len(q.chunk)
      BY <1>3, SMTT(40)
    <3>2. w.read = n + k + c
      BY <1>5, <3>1
    <3>3. n <= n + k + c
      OBVIOUS
    <3> QED BY <3>1, <3>2, <3>3, Zenon
  <2> QED BY <1>1, <1>3, <2>1, StreamGrammar
<1>7. Ordered(w.stream, t) /\ Joins(w.stream, t)
  BY <1>1, <1>2, <1>4, <1>6, StreamGrammar, AppendRun DEF Carries
<1>8. Carries(w, t, r)
  <2>1. RunFrom(Len(t), r.held) /\ Len(r.held) = 0
    BY DEF RunFrom
  <2>2. /\ RunFrom(Len(t) + Len(r.held), r.pending)
        /\ RunFrom(Len(t) + Len(r.held) + Len(r.pending), r.chunk)
    <3>1. RunFrom(Len(t), r.pending) /\ RunFrom(Len(t) + Len(r.pending), r.chunk)
      BY <1>1, <1>2, <1>3 DEF Carries
    <3>2. Len(t) \in Nat /\ Len(t) + Len(r.held) = Len(t)
      BY <1>3, <2>1
    <3> QED BY <3>1, <3>2
  <2>3. OneMessage(w.stream, Len(t), Len(r.held)) /\ Starts(w.stream, Len(t) + Len(r.held) + 1)
    <3>1. Starts(w.stream, Len(t) + 1)
      BY <1>1, <1>2, <1>3, <1>4 DEF Carries
    <3> QED BY <1>3, <2>1, <3>1 DEF OneMessage
  <2>4. w.read = Len(t) + Len(r.held) + Len(r.pending) + Len(r.chunk)
    BY <1>3, <1>5, <2>1
  <2> QED BY <1>1, <1>4, <1>7, <2>1, <2>2, <2>3, <2>4 DEF Carries
<1>9. FlowOK(w, t, r)
  BY <1>1, <1>7, <1>8 DEF FlowOK
<1> QED BY <1>2, <1>9

(* The lengths of what a framing pump has, once its first message is off. *)
Framed(w, o, q, n, h, k, l, msg, rest) ==
    /\ n = Len(o) /\ h = Len(q.held) /\ q.chunk = <<>> /\ q.framed
    /\ RunFrom(n, q.held) /\ OneMessage(w.stream, n, h) /\ Joins(w.stream, o)
    /\ Starts(w.stream, n + 1)
    /\ msg \in Seq(Nat) /\ Len(msg) = k /\ msg # <<>> /\ RunFrom(n + h, msg)
    /\ rest \in Seq(Nat) /\ Len(rest) = l /\ RunFrom(n + h + k, rest)
    /\ OneMessage(w.stream, n + h, k) /\ Starts(w.stream, n + h + k + 1)
    /\ w.read = n + h + k + l
    /\ n + h + k <= Len(w.stream)

(* Taking the first message off what is pending. *)
LEMMA FrameTakes ==
    ASSUME NEW w \in WireState, NEW o \in Seq(Nat), NEW q \in PumpState,
           FlowOK(w, o, q), q.pc = "frame", FirstLen(w.stream, q.pending) > 0
    PROVE  \E n \in Nat, h \in Nat, k \in Nat, l \in Nat :
              /\ k = FirstLen(w.stream, q.pending)
              /\ Framed(w, o, q, n, h, k, l, SubSeq(q.pending, 1, k),
                        SubSeq(q.pending, k + 1, Len(q.pending)))
<1>1. Carries(w, o, q) /\ w.read <= w.sent /\ w.sent <= Len(w.stream) /\ q.framed
      /\ q.chunk = <<>>
  BY DEF FlowOK, Running, Carries
<1>2. Grammar(w.stream) /\ w.read \in Nat /\ w.sent \in Nat /\ Len(w.stream) \in Nat
  BY StreamGrammar
<1>3. q.pending \in Seq(Nat) /\ Len(q.pending) \in Nat /\ Len(q.held) \in Nat /\ Len(o) \in Nat
  BY PumpFields
<1>4. PICK n \in Nat, h \in Nat, p \in Nat :
          n = Len(o) /\ h = Len(q.held) /\ p = Len(q.pending)
  BY <1>3
<1>5. PICK k \in Nat : k = FirstLen(w.stream, q.pending) /\ k > 0
  BY DEF FirstLen
<1>6. PICK a \in Nat : a = n + h
  OBVIOUS
<1>7. /\ RunFrom(n, q.held) /\ RunFrom(a, q.pending) /\ w.read = a + p
      /\ OneMessage(w.stream, n, h) /\ Starts(w.stream, a + 1) /\ Joins(w.stream, o)
  <2>1. w.read = n + h + p + Len(q.chunk) /\ Len(q.chunk) = 0
    BY <1>1, <1>4 DEF Carries
  <2>2. w.read = a + p
    BY <1>6, <2>1
  <2> QED BY <1>1, <1>4, <1>6, <2>2 DEF Carries
<1>8. a + Len(q.pending) <= Len(w.stream)
  <2>1. a + p <= Len(w.stream)
    BY <1>1, <1>2, <1>7
  <2> QED BY <1>4, <2>1
<1>9. k <= Len(q.pending) /\ OneMessage(w.stream, a, k) /\ Starts(w.stream, a + k + 1)
  BY <1>2, <1>3, <1>5, <1>7, <1>8, FirstMessage, SMTT(40)
<1>10. PICK l \in Nat : l = p - k
  BY <1>4, <1>9
<1>11. PICK msg, rest : msg = SubSeq(q.pending, 1, k)
                        /\ rest = SubSeq(q.pending, k + 1, Len(q.pending))
  OBVIOUS
<1>12. /\ msg \in Seq(Nat) /\ Len(msg) = k /\ RunFrom(a, msg)
       /\ rest \in Seq(Nat) /\ Len(rest) = l /\ RunFrom(a + k, rest)
  BY <1>3, <1>4, <1>7, <1>9, <1>10, <1>11, SplitRun
<1>13. msg # <<>>
  BY <1>5, <1>12
<1>14. w.read = n + h + k + l /\ n + h + k <= Len(w.stream)
  <2>1. PICK x \in Nat, y \in Nat : x = w.read /\ y = Len(w.stream)
    BY <1>2
  <2>2. x = a + p /\ x <= y
    BY <1>1, <1>2, <1>7, <2>1
  <2>3. x = n + h + k + l /\ n + h + k <= y
    BY <1>6, <1>10, <2>2
  <2> QED BY <2>1, <2>3
<1>15. Starts(w.stream, n + 1)
  BY <1>7 DEF OneMessage
<1>16. Framed(w, o, q, n, h, k, l, msg, rest)
  BY <1>1, <1>4, <1>6, <1>7, <1>9, <1>12, <1>13, <1>14, <1>15 DEF Framed
<1> QED BY <1>5, <1>11, <1>16

(* What a framing pump carries after it. *)
LEMMA StillFramed ==
    ASSUME NEW w \in WireState, NEW o \in Seq(Nat), NEW q \in PumpState, NEW t \in Seq(Nat),
           NEW r, NEW a \in Nat, NEW h \in Nat, NEW l \in Nat,
           FlowOK(w, o, q), Ordered(w.stream, t), Joins(w.stream, t), Len(t) = a,
           r.pc = "frame", r.framed, r.chunk = <<>>,
           RunFrom(a, r.held), Len(r.held) = h, RunFrom(a + h, r.pending), Len(r.pending) = l,
           OneMessage(w.stream, a, h), Starts(w.stream, a + h + 1), w.read = a + h + l
    PROVE  FlowOK(w, t, r)
<1>1. RunFrom(a + h + l, r.chunk) /\ Len(r.chunk) = 0
  BY DEF RunFrom
<1>2. a + h + l + 0 = a + h + l
  OBVIOUS
<1>3. w.read = Len(t) + Len(r.held) + Len(r.pending) + Len(r.chunk)
  BY <1>1, <1>2, Zenon
<1>4. Carries(w, t, r)
  BY <1>1, <1>3 DEF Carries
<1> QED BY <1>4 DEF FlowOK

(* The held message goes out behind the one that overtook it. *)
LEMMA FlowSwaps ==
    ASSUME NEW w \in WireState, NEW o \in Seq(Nat), NEW q \in PumpState, NEW r,
           NEW n \in Nat, NEW h \in Nat, NEW k \in Nat, NEW l \in Nat, NEW msg, NEW rest,
           FlowOK(w, o, q), Framed(w, o, q, n, h, k, l, msg, rest), q.held # <<>>,
           r.pc = "frame", r.framed = q.framed, r.chunk = <<>>, r.held = <<>>, r.pending = rest
    PROVE  FlowOK(w, o \o (msg \o q.held), r)
<1>1. PICK held \in Seq(Nat) : held = q.held
  BY PumpFields
<1>2. PICK t : t = o \o (msg \o held)
  OBVIOUS
<1>3. Grammar(w.stream) /\ Ordered(w.stream, o)
  BY StreamGrammar DEF FlowOK
<1>4. /\ n = Len(o) /\ h = Len(held) /\ k = Len(msg) /\ msg \in Seq(Nat) /\ msg # <<>>
      /\ RunFrom(n, held) /\ RunFrom(n + h, msg) /\ n + h + k <= Len(w.stream)
      /\ OneMessage(w.stream, n, h) /\ OneMessage(w.stream, n + h, k)
      /\ Starts(w.stream, n + h + k + 1)
  BY <1>1 DEF Framed
<1>5. Ordered(w.stream, t) /\ Joins(w.stream, t)
  BY <1>1, <1>2, <1>3, <1>4, AppendSwap
<1>6. t \in Seq(Nat) /\ Len(t) = n + (k + h)
  <2>1. msg \o held \in Seq(Nat) /\ Len(msg \o held) = k + h
    BY <1>4, Concatenated
  <2> QED BY <1>2, <1>4, <2>1, Concatenated
<1>7. PICK a \in Nat : a = n + h + k
  OBVIOUS
<1>8. Len(t) = a /\ w.read = a + 0 + l
  <2>1. n + (k + h) = a /\ n + h + k + l = a + 0 + l
    BY <1>7
  <2>2. w.read = n + h + k + l
    BY DEF Framed
  <2> QED BY <1>6, <2>1, <2>2, Zenon
<1>9. RunFrom(a, r.held) /\ Len(r.held) = 0
  BY DEF RunFrom
<1>10. RunFrom(a + 0, r.pending) /\ Len(r.pending) = l
  BY <1>7 DEF Framed
<1>11. OneMessage(w.stream, a, 0) /\ Starts(w.stream, a + 0 + 1)
  BY <1>4, <1>7 DEF OneMessage
<1>12. FlowOK(w, t, r)
  BY <1>5, <1>6, <1>8, <1>9, <1>10, <1>11, StillFramed DEF Framed
<1> QED BY <1>1, <1>2, <1>12

(* The first message is held back. *)
LEMMA FlowHolds ==
    ASSUME NEW w \in WireState, NEW o \in Seq(Nat), NEW q \in PumpState, NEW r,
           NEW n \in Nat, NEW h \in Nat, NEW k \in Nat, NEW l \in Nat, NEW msg, NEW rest,
           FlowOK(w, o, q), Framed(w, o, q, n, h, k, l, msg, rest), q.held = <<>>,
           r.pc = "frame", r.framed = q.framed, r.chunk = <<>>, r.held = msg, r.pending = rest
    PROVE  FlowOK(w, o, r)
<1>1. h = 0
  BY DEF Framed
<1>2. /\ RunFrom(n, r.held) /\ Len(r.held) = k /\ RunFrom(n + k, r.pending)
      /\ Len(r.pending) = l /\ OneMessage(w.stream, n, k) /\ Starts(w.stream, n + k + 1)
      /\ w.read = n + k + l
  BY <1>1 DEF Framed
<1>3. Ordered(w.stream, o) /\ Joins(w.stream, o) /\ Len(o) = n
  BY DEF Framed, FlowOK
<1> QED BY <1>2, <1>3, StillFramed DEF Framed

(* The first message is passed on. *)
LEMMA FlowForwards ==
    ASSUME NEW w \in WireState, NEW o \in Seq(Nat), NEW q \in PumpState, NEW r,
           NEW n \in Nat, NEW h \in Nat, NEW k \in Nat, NEW l \in Nat, NEW msg, NEW rest,
           FlowOK(w, o, q), Framed(w, o, q, n, h, k, l, msg, rest), q.held = <<>>,
           r.pc = "frame", r.framed = q.framed, r.chunk = <<>>, r.held = q.held,
           r.pending = rest
    PROVE  FlowOK(w, o \o msg, r)
<1>1. PICK t : t = o \o msg
  OBVIOUS
<1>2. h = 0
  BY DEF Framed
<1>3. /\ n = Len(o) /\ k = Len(msg) /\ msg \in Seq(Nat) /\ RunFrom(n, msg)
      /\ n + k <= Len(w.stream) /\ Joins(w.stream, o)
  BY <1>2 DEF Framed
<1>4. Grammar(w.stream) /\ Ordered(w.stream, o)
  BY StreamGrammar DEF FlowOK
<1>5. Ordered(w.stream, t) /\ Joins(w.stream, t)
  BY <1>1, <1>3, <1>4, AppendRun
<1>6. PICK a \in Nat : a = n + k
  OBVIOUS
<1>7. t \in Seq(Nat) /\ Len(t) = a
  BY <1>1, <1>3, <1>6, Concatenated
<1>8. RunFrom(a, r.held) /\ Len(r.held) = 0
  BY DEF RunFrom
<1>9. RunFrom(a + 0, r.pending) /\ Len(r.pending) = l /\ w.read = a + 0 + l
  BY <1>2, <1>6 DEF Framed
<1>10. OneMessage(w.stream, a, 0) /\ Starts(w.stream, a + 0 + 1)
  BY <1>2, <1>6 DEF OneMessage, Framed
<1>11. FlowOK(w, t, r)
  BY <1>5, <1>7, <1>8, <1>9, <1>10, StillFramed DEF Framed
<1> QED BY <1>1, <1>11
-----------------------------------------------------------------------------
(* partition and isolate cut what they promise to: each link is cut or     *)
(* still to be set, and once they have returned all are cut, the links of  *)
(* dialers nobody could identify included.                                 *)
CutInv ==
    /\ op # NoOp => apart = {}
    /\ op.keep => /\ \A l \in op.apart : l \in op.between \/ fault[l].cut
                  /\ \A m \in Member : link(m, m) \in op.own \/ fault[link(m, m)].cut
    /\ ~op.keep => op.apart = {}
    /\ \A l \in apart : fault[l].cut
    /\ apart # {} => \A m \in Member : fault[link(m, m)].cut

(* The proxy takes a dialer for who it is or for nobody, and an open       *)
(* connection has its two pumps.                                           *)
ConnInv ==
    \A c \in Conn :
        /\ conn[c].pc # "none" => conn[c].source \in {conn[c].dialer, Unknown}
        /\ \A d \in Dir : conn[c].pc \in {"open", "closed"} <=> pump[<<c, d>>].pc # "none"

(* A pump writes only what it looked at while nothing was against it. *)
SaidInv ==
    \A p \in Pump : pump[p].pc \in {"delay", "write", "frame"} => pump[p].said = {}

FlowInv == \A p \in Pump : FlowOK(wire[p], out[p], pump[p])

CrossedInv == \A x \in crossed : x.how = "chunk" => x.said = {}

ProxyInv == CutInv /\ ConnInv /\ SaidInv /\ FlowInv /\ CrossedInv

(* A pump belongs to a connection and has a stream. *)
LEMMA PumpTypes ==
    ASSUME TypeOK, NEW p \in Pump
    PROVE  /\ p[1] \in Conn /\ p[2] \in Dir /\ p = <<p[1], p[2]>>
           /\ wire[p] \in WireState /\ out[p] \in Seq(Nat)
           /\ pump[p] \in PumpState \cup {NoPump}
           /\ pump[p].pc # "none" => pump[p] \in PumpState
<1>1. p[1] \in Conn /\ p[2] \in Dir /\ p = <<p[1], p[2]>>
  BY DEF Pump
<1>2. wire[p] \in WireState /\ out[p] \in Seq(Nat) /\ pump[p] \in PumpState \cup {NoPump}
  BY DEF TypeOK, WireState
<1>3. NoPump.pc = "none"
  BY DEF NoPump
<1> QED BY <1>1, <1>2, <1>3

(* While the link of a connection is not cut, its members are not apart:   *)
(* neither when the dialer is known nor when it is not.                    *)
LEMMA TableClean ==
    ASSUME TypeOK, ProxyInv, NEW c \in Conn, conn[c].pc # "none", ~Current(c).cut
    PROVE  TableSays(c) = {}
<1>1. conn[c] \in ConnState /\ conn[c].member \in Member
      /\ conn[c].source \in {conn[c].dialer, Unknown}
  <2>1. NoConn.pc = "none" /\ conn[c] \in ConnState \cup {NoConn}
    BY DEF NoConn, TypeOK
  <2>2. conn[c] \in ConnState
    BY <2>1
  <2> QED BY <2>2 DEF ConnState, ProxyInv, ConnInv
<1>2. link(conn[c].dialer, conn[c].member) \notin apart
  <2> SUFFICES ASSUME link(conn[c].dialer, conn[c].member) \in apart PROVE FALSE
    OBVIOUS
  <2>1. fault[link(conn[c].dialer, conn[c].member)].cut
        /\ fault[link(conn[c].member, conn[c].member)].cut
    BY <1>1 DEF ProxyInv, CutInv
  <2>2. \/ LinkOf(c) = link(conn[c].dialer, conn[c].member)
        \/ LinkOf(c) = link(conn[c].member, conn[c].member)
    BY <1>1 DEF LinkOf
  <2> QED BY <2>1, <2>2 DEF Current
<1> QED BY <1>2 DEF TableSays

(* What one pump does is settled by what it reads, writes and keeps. *)
LEMMA PumpResult ==
    ASSUME TypeOK, ProxyInv, NEW p \in Pump, pump[p].pc # "none",
           NEW r \in PumpState, NEW v \in WireState, NEW o \in Seq(Nat),
           pump' = [pump EXCEPT ![p] = r], wire' = [wire EXCEPT ![p] = v],
           out' = [out EXCEPT ![p] = o], FlowOK(v, o, r),
           r.pc \in {"delay", "write", "frame"} => r.said = {},
           side' \subseteq Pump \X Seq(Nat),
           crossed' \subseteq [how : {"chunk", "held", "duplicate"}, said : Said],
           \A x \in crossed' : x \in crossed \/ (x.how = "chunk" => x.said = {}),
           UNCHANGED <<fault, op, ops, conn, apart>>
    PROVE  TypeOK' /\ ProxyInv'
<1>1. TypeOK'
  BY DEF TypeOK, WireState
<1>2. /\ pump'[p] = r /\ wire'[p] = v /\ out'[p] = o
      /\ \A q \in Pump : q # p =>
            pump'[q] = pump[q] /\ wire'[q] = wire[q] /\ out'[q] = out[q]
  BY DEF TypeOK
<1>3. CutInv'
  BY DEF ProxyInv, CutInv
<1>4. ConnInv'
  <2>1. \A q \in Pump : pump'[q].pc # "none" <=> pump[q].pc # "none"
    BY <1>2, PumpFields
  <2>2. \A c \in Conn, d \in Dir : <<c, d>> \in Pump
    BY DEF Pump
  <2> QED BY <2>1, <2>2 DEF ProxyInv, ConnInv
<1>5. SaidInv'
  BY <1>2 DEF ProxyInv, SaidInv
<1>6. FlowInv'
  BY <1>2 DEF ProxyInv, FlowInv
<1>7. CrossedInv'
  BY DEF ProxyInv, CrossedInv
<1> QED BY <1>1, <1>3, <1>4, <1>5, <1>6, <1>7 DEF ProxyInv

(* A pump at another point of its loop. *)
LEMMA PcMoved ==
    ASSUME NEW q \in PumpState,
           NEW pc \in {"top", "checked", "wait", "got", "delay", "write", "frame", "flush"}
                      \cup Returned
    PROVE  /\ [q EXCEPT !.pc = pc] \in PumpState
           /\ [q EXCEPT !.pc = pc].pc = pc /\ [q EXCEPT !.pc = pc].held = q.held
           /\ [q EXCEPT !.pc = pc].pending = q.pending /\ [q EXCEPT !.pc = pc].chunk = q.chunk
           /\ [q EXCEPT !.pc = pc].framed = q.framed /\ [q EXCEPT !.pc = pc].said = q.said
BY DEF PumpState

(* A step of pump p that reads and writes nothing. *)
LEMMA QuietStep ==
    ASSUME TypeOK, ProxyInv, NEW p \in Pump, pump[p].pc # "none", NEW r \in PumpState,
           pump' = [pump EXCEPT ![p] = r], FlowOK(wire[p], out[p], r),
           r.pc \in {"delay", "write", "frame"} => r.said = {},
           UNCHANGED <<fault, op, ops, conn, wire, out, side, apart, crossed>>
    PROVE  TypeOK' /\ ProxyInv'
<1>1. wire' = [wire EXCEPT ![p] = wire[p]] /\ out' = [out EXCEPT ![p] = out[p]]
  BY DEF TypeOK
<1>2. side' \subseteq Pump \X Seq(Nat)
      /\ crossed' \subseteq [how : {"chunk", "held", "duplicate"}, said : Said]
      /\ \A x \in crossed' : x \in crossed
  BY DEF TypeOK
<1>3. wire[p] \in WireState /\ out[p] \in Seq(Nat)
  BY PumpTypes
<1> QED BY <1>1, <1>2, <1>3, PumpResult

(* A pump that gives up. *)
LEMMA EndsStep ==
    ASSUME TypeOK, ProxyInv, NEW p \in Pump, pump[p].pc # "none", PumpEnds(p),
           UNCHANGED <<fault, op, ops, conn, wire, out, side, apart, crossed>>
    PROVE  TypeOK' /\ ProxyInv'
<1>1. PICK r : r = [pump[p] EXCEPT !.pc = "ended"]
  OBVIOUS
<1>2. r \in PumpState /\ r.pc = "ended"
  <2>1. pump[p] \in PumpState
    BY PumpTypes
  <2>2. "ended" \in {"top", "checked", "wait", "got", "delay", "write", "frame", "flush"}
                    \cup Returned
    BY DEF Returned
  <2> QED BY <1>1, <2>1, <2>2, PcMoved
<1>3. pump' = [pump EXCEPT ![p] = r]
  BY <1>1 DEF PumpEnds
<1>4. FlowOK(wire[p], out[p], r)
  BY <1>2, FlowEnds DEF ProxyInv, FlowInv
<1> QED BY <1>2, <1>3, <1>4, QuietStep

(* A pump that writes, or finds its receiver gone. *)
LEMMA WriteStep ==
    ASSUME TypeOK, ProxyInv, NEW p \in Pump, pump[p].pc # "none", NEW r \in PumpState,
           NEW units \in Seq(Nat), NEW how \in {"chunk", "held"}, NEW said \in Said,
           WriteAll(p, units, how, said, r), FlowOK(wire[p], out[p] \o units, r),
           r.pc \in {"delay", "write", "frame"} => r.said = {},
           how = "chunk" => said = {},
           side' \subseteq Pump \X Seq(Nat),
           ReceiverGone(p) /\ PumpEnds(p) => side' = side,
           UNCHANGED <<fault, op, ops, conn, wire, apart>>
    PROVE  TypeOK' /\ ProxyInv'
<1>0. out[p] \in Seq(Nat) /\ wire[p] \in WireState
  BY PumpTypes
<1>1. CASE SetPump(p, r) /\ out' = [out EXCEPT ![p] = @ \o units]
           /\ crossed' = crossed \cup {[how |-> how, said |-> said]}
  <2>1. PICK o : o = out[p] \o units
    OBVIOUS
  <2>2. o \in Seq(Nat) /\ out' = [out EXCEPT ![p] = o]
    BY <1>0, <1>1, <2>1
  <2>3. wire' = [wire EXCEPT ![p] = wire[p]]
    BY DEF TypeOK
  <2>4. crossed' \subseteq [how : {"chunk", "held", "duplicate"}, said : Said]
        /\ \A x \in crossed' : x \in crossed \/ (x.how = "chunk" => x.said = {})
    BY <1>1 DEF TypeOK
  <2>5. pump' = [pump EXCEPT ![p] = r]
    BY <1>1 DEF SetPump
  <2>6. FlowOK(wire[p], o, r)
    BY <2>1
  <2> QED BY <1>0, <2>2, <2>3, <2>4, <2>5, <2>6, PumpResult
<1>2. CASE ReceiverGone(p) /\ PumpEnds(p) /\ UNCHANGED <<out, crossed>>
  BY <1>2, EndsStep
<1> QED BY <1>1, <1>2 DEF WriteAll

(* The steps around a read: look at the table, wait, be told. *)
LEMMA LoopStep ==
    ASSUME TypeOK, ProxyInv, NEW p \in Pump,
           Top(p) \/ Select(p) \/ Changed(p) \/ ReadEnds(p),
           UNCHANGED <<fault, op, ops, conn, apart>>
    PROVE  TypeOK' /\ ProxyInv'
<1>0. pump[p].pc \in {"top", "checked", "wait"}
  BY DEF Top, Select, Changed, ReadEnds
<1>1. pump[p] \in PumpState /\ FlowOK(wire[p], out[p], pump[p]) /\ Running(pump[p])
      /\ pump[p].chunk = <<>>
  BY <1>0, PumpTypes DEF ProxyInv, FlowInv, FlowOK, Running, Carries
<1>2. CASE PumpEnds(p) /\ UNCHANGED <<out, side, crossed, wire>>
  BY <1>0, <1>2, EndsStep
<1>3. ASSUME NEW pc \in {"checked", "top", "flush"},
             pump' = [pump EXCEPT ![p].pc = pc],
             pc = "flush" => wire[p].eof /\ wire[p].read = wire[p].sent,
             UNCHANGED <<out, side, crossed, wire>>
      PROVE  TypeOK' /\ ProxyInv'
  <2>1. PICK r : r = [pump[p] EXCEPT !.pc = pc]
    OBVIOUS
  <2>2. /\ r \in PumpState /\ r.pc = pc /\ r.held = pump[p].held
        /\ r.pending = pump[p].pending /\ r.chunk = pump[p].chunk
        /\ r.framed = pump[p].framed
    BY <1>1, <2>1, PcMoved
  <2>3. pump' = [pump EXCEPT ![p] = r]
    BY <1>3, <2>1
  <2>4. FlowOK(wire[p], out[p], r)
    BY <1>0, <1>1, <1>3, <2>2, FlowMoves
  <2> QED BY <1>0, <1>3, <2>2, <2>3, <2>4, QuietStep
<1>4. CASE Select(p)
  <2>1. PICK r : r = [pump[p] EXCEPT !.pc = "wait", !.woken = FALSE]
    OBVIOUS
  <2>2. /\ r \in PumpState /\ r.pc = "wait" /\ r.held = pump[p].held
        /\ r.pending = pump[p].pending /\ r.chunk = pump[p].chunk
        /\ r.framed = pump[p].framed
    BY <1>1, <2>1 DEF PumpState
  <2>3. pump' = [pump EXCEPT ![p] = r]
    BY <1>4, <2>1 DEF Select, TypeOK
  <2>4. FlowOK(wire[p], out[p], r)
    BY <1>0, <1>1, <2>2, FlowMoves
  <2>5. UNCHANGED <<out, side, crossed, wire>>
    BY <1>4 DEF Select
  <2> QED BY <1>0, <2>2, <2>3, <2>4, <2>5, QuietStep
<1> QED BY <1>2, <1>3, <1>4 DEF Top, Changed, ReadEnds, PumpEnds

(* A read takes any number of units that have arrived. *)
LEMMA ReadStep ==
    ASSUME TypeOK, ProxyInv, NEW p \in Pump, NEW n \in Nat, Read(p, n),
           UNCHANGED <<fault, op, ops, conn, apart>>
    PROVE  TypeOK' /\ ProxyInv'
<1>1. /\ pump[p] \in PumpState /\ FlowOK(wire[p], out[p], pump[p]) /\ wire[p] \in WireState
      /\ out[p] \in Seq(Nat) /\ pump[p].pc = "wait"
  BY PumpTypes DEF ProxyInv, FlowInv, Read
<1>2. PICK r, v, c : /\ c = [i \in 1 .. n |-> wire[p].read + i]
                     /\ r = [pump[p] EXCEPT !.pc = "got", !.chunk = c]
                     /\ v = [wire[p] EXCEPT !.read = @ + n]
  OBVIOUS
<1>3. c \in Seq(Nat)
  <2>1. wire[p].read \in Nat
    BY <1>1, StreamGrammar
  <2>2. c \in [1 .. n -> Nat]
    BY <1>2, <2>1
  <2> QED BY <2>2
<1>4. /\ r \in PumpState /\ r.pc = "got" /\ r.held = pump[p].held
      /\ r.pending = pump[p].pending /\ r.chunk = c /\ r.framed = pump[p].framed
  BY <1>1, <1>2, <1>3 DEF PumpState
<1>5. /\ v \in WireState /\ v.stream = wire[p].stream /\ v.sent = wire[p].sent
      /\ v.read = wire[p].read + n /\ v.eof = wire[p].eof
  BY <1>1, <1>2 DEF WireState
<1>6. FlowOK(v, out[p], r)
  <2>1. wire[p].read + n <= wire[p].sent
    BY DEF Read
  <2>2. r.chunk = [i \in 1 .. n |-> wire[p].read + i]
    BY <1>2, <1>4
  <2>3. PICK w \in WireState, q \in PumpState, o \in Seq(Nat) :
            w = wire[p] /\ q = pump[p] /\ o = out[p]
    BY <1>1
  <2>4. FlowOK(w, o, q) /\ q.pc = "wait"
    BY <1>1, <2>3
  <2>5. w.read + n <= w.sent /\ r.chunk = [i \in 1 .. n |-> w.read + i]
    BY <2>1, <2>2, <2>3
  <2>6. /\ v.stream = w.stream /\ v.sent = w.sent /\ v.read = w.read + n /\ v.eof = w.eof
        /\ r.held = q.held /\ r.pending = q.pending /\ r.framed = q.framed /\ r.pc = "got"
    BY <1>4, <1>5, <2>3
  <2>7. FlowOK(v, o, r)
    BY <1>5, <2>4, <2>5, <2>6, FlowReads
  <2> QED BY <2>3, <2>7
<1>7. pump' = [pump EXCEPT ![p] = r] /\ wire' = [wire EXCEPT ![p] = v]
  BY <1>2 DEF Read, TypeOK
<1>8. out' = [out EXCEPT ![p] = out[p]] /\ side' \subseteq Pump \X Seq(Nat)
      /\ crossed' \subseteq [how : {"chunk", "held", "duplicate"}, said : Said]
      /\ \A x \in crossed' : x \in crossed
  BY DEF TypeOK, Read
<1> QED BY <1>1, <1>4, <1>5, <1>6, <1>7, <1>8, PumpResult

(* The looks at the table after the read and after the delay: a cut ends   *)
(* the pump, and what goes on was looked at while there was none.          *)
LEMMA LookStep ==
    ASSUME TypeOK, ProxyInv, NEW p \in Pump, Look(p) \/ DelayEnds(p),
           UNCHANGED <<fault, op, ops, conn, apart>>
    PROVE  TypeOK' /\ ProxyInv'
<1>0. pump[p].pc \in {"got", "delay"} /\ UNCHANGED <<out, side, crossed, wire>>
  BY DEF Look, DelayEnds
<1>1. pump[p] \in PumpState /\ FlowOK(wire[p], out[p], pump[p]) /\ Running(pump[p])
      /\ p[1] \in Conn
  BY <1>0, PumpTypes DEF ProxyInv, FlowInv, Running
<1>2. conn[p[1]].pc # "none"
  <2>1. p = <<p[1], p[2]>> /\ p[2] \in Dir
    BY PumpTypes
  <2>2. pump[<<p[1], p[2]>>].pc # "none"
    BY <1>0, <2>1
  <2> QED BY <1>1, <2>1, <2>2 DEF ProxyInv, ConnInv
<1>3. CASE Current(p[1]).cut
  BY <1>0, <1>3, EndsStep DEF Look, DelayEnds
<1>4. CASE ~Current(p[1]).cut
  <2>1. TableSays(p[1]) = {}
    BY <1>1, <1>2, <1>4, TableClean
  <2>2. \E r \in PumpState :
            /\ pump' = [pump EXCEPT ![p] = r] /\ r.pc \in {"delay", "write"} /\ r.said = {}
            /\ r.held = pump[p].held /\ r.pending = pump[p].pending
            /\ r.chunk = pump[p].chunk /\ r.framed = pump[p].framed
    <3>1. CASE Look(p)
      <4>1. PICK f, pc : f = Current(p[1]) /\ pc = IF f.delay THEN "delay" ELSE "write"
        OBVIOUS
      <4>2. f \in LinkFault
        <5>1. conn[p[1]] \in ConnState
          BY <1>1, <1>2 DEF TypeOK, NoConn
        <5>2. LinkOf(p[1]) \in Link
          BY <5>1 DEF ConnState, LinkOf, Link
        <5> QED BY <4>1, <5>2 DEF Current, TypeOK
      <4>3. PICK r : r = [pump[p] EXCEPT !.pc = pc, !.fault = f, !.said = {}]
        OBVIOUS
      <4>4. pump' = [pump EXCEPT ![p] = r]
        BY <1>4, <2>1, <3>1, <4>1, <4>3 DEF Look, SetPump
      <4>5. pc \in {"delay", "write"}
        BY <4>1
      <4>6. r \in PumpState /\ r.pc = pc /\ r.said = {}
            /\ r.held = pump[p].held /\ r.pending = pump[p].pending
            /\ r.chunk = pump[p].chunk /\ r.framed = pump[p].framed
        BY <1>1, <4>2, <4>3, <4>5 DEF PumpState, Said
      <4> QED BY <4>4, <4>5, <4>6
    <3>2. CASE DelayEnds(p)
      <4>1. PICK r : r = [pump[p] EXCEPT !.pc = "write", !.said = {}]
        OBVIOUS
      <4>2. pump' = [pump EXCEPT ![p] = r]
        BY <1>4, <2>1, <3>2, <4>1 DEF DelayEnds, SetPump
      <4>3. r \in PumpState /\ r.pc = "write" /\ r.said = {}
            /\ r.held = pump[p].held /\ r.pending = pump[p].pending
            /\ r.chunk = pump[p].chunk /\ r.framed = pump[p].framed
        BY <1>1, <4>1 DEF PumpState, Said
      <4> QED BY <4>2, <4>3
    <3> QED BY <3>1, <3>2
  <2>3. PICK r \in PumpState :
            /\ pump' = [pump EXCEPT ![p] = r] /\ r.pc \in {"delay", "write"} /\ r.said = {}
            /\ r.held = pump[p].held /\ r.pending = pump[p].pending
            /\ r.chunk = pump[p].chunk /\ r.framed = pump[p].framed
    BY <2>2
  <2>4. FlowOK(wire[p], out[p], r)
    BY <1>0, <1>1, <2>3, FlowMoves
  <2> QED BY <1>0, <2>3, <2>4, QuietStep
<1> QED BY <1>3, <1>4

(* http_message_len, of the stream of pump p. *)
LEMMA MessageLenIs ==
    ASSUME NEW p, NEW s
    PROVE  MessageLen(p, s) = FirstLen(wire[p].stream, s)
<1>1. CASE s = <<>>
  BY <1>1 DEF MessageLen, FirstLen, Kind
<1>2. CASE s # <<>>
  BY <1>2 DEF MessageLen, FirstLen, Kind
<1> QED BY <1>1, <1>2

(* The state of a pump that is about to write, as constants. *)
LEMMA PumpNow ==
    ASSUME TypeOK, ProxyInv, NEW p \in Pump, pump[p].pc \notin {"none", "ended", "flushed"}
    PROVE  \E w \in WireState, o \in Seq(Nat), q \in PumpState :
              /\ w = wire[p] /\ o = out[p] /\ q = pump[p] /\ FlowOK(w, o, q) /\ Running(q)
              /\ Carries(w, o, q)
<1>1. /\ wire[p] \in WireState /\ out[p] \in Seq(Nat) /\ pump[p] \in PumpState
      /\ FlowOK(wire[p], out[p], pump[p])
  BY PumpTypes DEF ProxyInv, FlowInv
<1>2. Running(pump[p]) /\ Carries(wire[p], out[p], pump[p])
  BY <1>1 DEF FlowOK, Running
<1> QED BY <1>1, <1>2

(* What the table says is a set of its two words. *)
LEMMA TableSaysSaid ==
    ASSUME NEW c
    PROVE  TableSays(c) \in Said
BY DEF TableSays, Said

(* HOLD_AT_MOST passed. *)
LEMMA HoldExpiresStep ==
    ASSUME TypeOK, ProxyInv, NEW p \in Pump, HoldExpires(p),
           UNCHANGED <<fault, op, ops, conn, apart>>
    PROVE  TypeOK' /\ ProxyInv'
<1>0. pump[p].pc = "wait" /\ pump[p].held # <<>> /\ UNCHANGED <<side, wire>>
  BY DEF HoldExpires
<1>1. PICK w \in WireState, o \in Seq(Nat), q \in PumpState :
          /\ w = wire[p] /\ o = out[p] /\ q = pump[p] /\ FlowOK(w, o, q) /\ Running(q)
          /\ Carries(w, o, q)
  BY <1>0, PumpNow
<1>2. PICK r : r = [q EXCEPT !.held = <<>>, !.pc = "top"]
  OBVIOUS
<1>3. /\ r \in PumpState /\ r.pc = "top" /\ r.held = <<>> /\ r.framed = q.framed
      /\ r.chunk = q.chunk /\ r.pending = q.pending
  <2>1. <<>> \in Seq(Nat)
    OBVIOUS
  <2> QED BY <1>2, <2>1 DEF PumpState
<1>4. FlowOK(w, o \o q.held, r)
  BY <1>0, <1>1, <1>3, FlowReleases
<1>5. WriteAll(p, q.held, "held", TableSays(p[1]), r)
  BY <1>1, <1>2 DEF HoldExpires
<1>6. q.held \in Seq(Nat) /\ side' \subseteq Pump \X Seq(Nat)
  BY <1>0, PumpFields DEF TypeOK
<1> QED BY <1>0, <1>1, <1>3, <1>4, <1>5, <1>6, TableSaysSaid, WriteStep

(* A chunk goes out as it is, or behind what is not framed yet. *)
LEMMA WritesStep ==
    ASSUME TypeOK, ProxyInv, NEW p \in Pump, Write(p),
           UNCHANGED <<fault, op, ops, conn, apart>>
    PROVE  TypeOK' /\ ProxyInv'
<1>0. pump[p].pc = "write" /\ UNCHANGED <<side, wire>>
  BY DEF Write
<1>1. PICK w \in WireState, o \in Seq(Nat), q \in PumpState :
          /\ w = wire[p] /\ o = out[p] /\ q = pump[p] /\ FlowOK(w, o, q) /\ Running(q)
          /\ Carries(w, o, q)
  BY <1>0, PumpNow
<1>2. q.said = {} /\ q.pc = "write"
  BY <1>0, <1>1 DEF ProxyInv, SaidInv
<1>3. CASE q.framed
  <2>1. PICK t \in Seq(Nat) :
            /\ t = q.pending \o q.chunk /\ RunFrom(Len(o) + Len(q.held), t)
            /\ Len(t) = Len(q.pending) + Len(q.chunk)
    BY <1>1, CarriedRuns
  <2>2. PICK r : r = [q EXCEPT !.pc = "frame", !.chunk = <<>>, !.pending = t]
    OBVIOUS
  <2>3. /\ r \in PumpState /\ r.pc = "frame" /\ r.held = q.held /\ r.framed = q.framed
        /\ r.chunk = <<>> /\ r.pending = t /\ r.said = q.said
    <3>1. <<>> \in Seq(Nat)
      OBVIOUS
    <3> QED BY <2>2, <3>1 DEF PumpState
  <2>4. FlowOK(w, o, r)
    BY <1>1, <1>2, <1>3, <2>1, <2>3, FlowFrames
  <2>5. pump' = [pump EXCEPT ![p] = r] /\ UNCHANGED <<out, crossed>>
    BY <1>1, <1>3, <2>1, <2>2 DEF Write, SetPump
  <2> QED BY <1>0, <1>1, <1>2, <2>3, <2>4, <2>5, QuietStep
<1>4. CASE ~q.framed
  <2>1. PICK s \in Seq(Nat) : s = q.chunk
    BY PumpFields
  <2>2. RunFrom(Len(o), s) /\ w.read = Len(o) + Len(s)
    <3>1. Len(q.held) = 0 /\ Len(q.pending) = 0 /\ Len(o) \in Nat /\ Len(s) \in Nat
      BY <1>1, <1>4 DEF Carries
    <3> QED BY <1>1, <2>1, <3>1 DEF Carries
  <2>3. PICK r : r = [[q EXCEPT !.chunk = <<>>, !.said = {}, !.fault = Clean] EXCEPT !.pc = "top"]
    OBVIOUS
  <2>4. q.held = <<>> /\ q.pending = <<>>
    BY <1>1, <1>4 DEF Carries
  <2>5. /\ r \in PumpState /\ r.pc = "top" /\ r.held = <<>> /\ r.pending = <<>>
        /\ r.chunk = <<>> /\ ~r.framed
    <3>1. Clean \in LinkFault /\ {} \in Said
      BY DEF Clean, LinkFault, Said
    <3> QED BY <1>4, <2>3, <2>4, <3>1 DEF PumpState
  <2>6. FlowOK(w, o \o s, r)
    BY <1>1, <2>2, <2>5, FlowEmpties
  <2>7. WriteAll(p, s, "chunk", q.said, r)
    BY <1>1, <1>4, <2>1, <2>3 DEF Write
  <2>8. side' \subseteq Pump \X Seq(Nat) /\ {} \in Said
    BY <1>0 DEF TypeOK, Said
  <2> QED BY <1>0, <1>1, <1>2, <2>5, <2>6, <2>7, <2>8, WriteStep
<1> QED BY <1>3, <1>4

(* No whole message is left. *)
LEMMA FrameEndsStep ==
    ASSUME TypeOK, ProxyInv, NEW p \in Pump, FrameEnds(p),
           UNCHANGED <<fault, op, ops, conn, apart>>
    PROVE  TypeOK' /\ ProxyInv'
<1>0. pump[p].pc = "frame" /\ UNCHANGED <<side, wire>>
  BY DEF FrameEnds, Framing
<1>1. PICK w \in WireState, o \in Seq(Nat), q \in PumpState :
          /\ w = wire[p] /\ o = out[p] /\ q = pump[p] /\ FlowOK(w, o, q) /\ Running(q)
          /\ Carries(w, o, q)
  BY <1>0, PumpNow
<1>2. q.said = {} /\ q.pc = "frame" /\ q.chunk = <<>>
  BY <1>0, <1>1 DEF ProxyInv, SaidInv, Carries
<1>3. PICK z : z = [q EXCEPT !.pc = "top", !.said = {}, !.fault = Clean]
  OBVIOUS
<1>4. /\ z \in PumpState /\ z.pc = "top" /\ z.held = q.held /\ z.pending = q.pending
      /\ z.chunk = <<>> /\ z.framed = q.framed
  <2>1. Clean \in LinkFault /\ {} \in Said
    BY DEF Clean, LinkFault, Said
  <2> QED BY <1>2, <1>3, <2>1 DEF PumpState
<1>5. CASE Unframeable(p, pump[p].pending)
  <2>1. PICK s \in Seq(Nat) : /\ s = q.held \o q.pending /\ RunFrom(Len(o), s)
                              /\ Len(s) = Len(q.held) + Len(q.pending)
    BY <1>1, CarriedRuns
  <2>2. w.read = Len(o) + Len(s)
    <3>1. PICK n \in Nat, h \in Nat, k \in Nat :
              n = Len(o) /\ h = Len(q.held) /\ k = Len(q.pending)
      BY PumpFields
    <3>2. w.read = n + h + k + 0
      BY <1>1, <1>2, <3>1 DEF Carries
    <3>3. n + h + k + 0 = n + (h + k)
      OBVIOUS
    <3>4. Len(s) = h + k
      BY <2>1, <3>1
    <3> QED BY <3>1, <3>2, <3>3, <3>4, Zenon
  <2>3. PICK r : r = [z EXCEPT !.framed = FALSE, !.held = <<>>, !.pending = <<>>]
    OBVIOUS
  <2>4. /\ r \in PumpState /\ r.pc = "top" /\ r.held = <<>> /\ r.pending = <<>>
        /\ r.chunk = <<>> /\ ~r.framed
    BY <1>4, <2>3 DEF PumpState
  <2>5. FlowOK(w, o \o s, r)
    BY <1>1, <2>1, <2>2, <2>4, FlowEmpties
  <2>6. WriteAll(p, s, "chunk", q.said, r)
    BY <1>1, <1>3, <1>5, <2>1, <2>3 DEF FrameEnds
  <2>7. side' \subseteq Pump \X Seq(Nat) /\ {} \in Said
    BY <1>0 DEF TypeOK, Said
  <2> QED BY <1>0, <1>1, <1>2, <2>4, <2>5, <2>6, <2>7, WriteStep
<1>6. CASE ~Unframeable(p, pump[p].pending)
  <2>1. pump' = [pump EXCEPT ![p] = z] /\ UNCHANGED <<out, crossed>>
    BY <1>1, <1>3, <1>6 DEF FrameEnds, SetPump
  <2>2. FlowOK(w, o, z)
    BY <1>1, <1>2, <1>4, FlowMoves
  <2> QED BY <1>0, <1>1, <1>4, <2>1, <2>2, QuietStep
<1> QED BY <1>5, <1>6

(* What a framing pump takes off its pending bytes. *)
LEMMA Takes ==
    ASSUME TypeOK, ProxyInv, NEW p \in Pump, Framing(p), MessageLen(p, pump[p].pending) > 0
    PROVE  \E w \in WireState, o \in Seq(Nat), q \in PumpState, z \in PumpState,
             n \in Nat, h \in Nat, k \in Nat, l \in Nat, msg \in Seq(Nat), rest \in Seq(Nat) :
              /\ w = wire[p] /\ o = out[p] /\ q = pump[p] /\ FlowOK(w, o, q)
              /\ q.said = {} /\ Framed(w, o, q, n, h, k, l, msg, rest)
              /\ msg = Message(p) /\ z = After(p)
              /\ z.pc = "frame" /\ z.held = q.held /\ z.pending = rest /\ z.chunk = <<>>
              /\ z.framed = q.framed /\ z.said = {}
<1>0. pump[p].pc = "frame"
  BY DEF Framing
<1>1. PICK w \in WireState, o \in Seq(Nat), q \in PumpState :
          /\ w = wire[p] /\ o = out[p] /\ q = pump[p] /\ FlowOK(w, o, q) /\ Running(q)
          /\ Carries(w, o, q)
  BY <1>0, PumpNow
<1>2. q.said = {} /\ q.pc = "frame" /\ q.chunk = <<>>
  BY <1>0, <1>1 DEF ProxyInv, SaidInv, Carries
<1>3. FirstLen(w.stream, q.pending) = MessageLen(p, q.pending)
  BY <1>1, MessageLenIs
<1>4. PICK n \in Nat, h \in Nat, k \in Nat, l \in Nat :
          /\ k = FirstLen(w.stream, q.pending)
          /\ Framed(w, o, q, n, h, k, l, SubSeq(q.pending, 1, k),
                    SubSeq(q.pending, k + 1, Len(q.pending)))
  <2>1. FirstLen(w.stream, q.pending) > 0 /\ FlowOK(w, o, q) /\ q.pc = "frame"
    BY <1>1, <1>2, <1>3
  <2> QED BY <2>1, FrameTakes
<1>5. PICK msg, rest : /\ msg = SubSeq(q.pending, 1, k)
                       /\ rest = SubSeq(q.pending, k + 1, Len(q.pending))
  OBVIOUS
<1>6. Framed(w, o, q, n, h, k, l, msg, rest)
  BY <1>4, <1>5
<1>7. msg \in Seq(Nat) /\ rest \in Seq(Nat)
  BY <1>6 DEF Framed
<1>8. msg = Message(p)
  BY <1>1, <1>3, <1>4, <1>5 DEF Message
<1>9. PICK z : z = After(p)
  OBVIOUS
<1>10. z = [q EXCEPT !.pending = rest]
  BY <1>1, <1>3, <1>4, <1>5, <1>9 DEF After
<1>11. /\ z \in PumpState /\ z.pc = "frame" /\ z.held = q.held /\ z.pending = rest
       /\ z.chunk = <<>> /\ z.framed = q.framed /\ z.said = {}
  BY <1>2, <1>7, <1>10 DEF PumpState
<1> QED BY <1>1, <1>2, <1>6, <1>7, <1>8, <1>9, <1>11

(* The held message goes out behind the next one. *)
LEMMA SwapStep ==
    ASSUME TypeOK, ProxyInv, NEW p \in Pump, Swap(p),
           UNCHANGED <<fault, op, ops, conn, apart>>
    PROVE  TypeOK' /\ ProxyInv'
<1>0. /\ Framing(p) /\ MessageLen(p, pump[p].pending) > 0 /\ pump[p].held # <<>>
      /\ UNCHANGED <<side, wire>>
      /\ WriteAll(p, Message(p) \o pump[p].held, "chunk", pump[p].said,
                  [After(p) EXCEPT !.held = <<>>])
  BY DEF Swap
<1>1. PICK w \in WireState, o \in Seq(Nat), q \in PumpState, z \in PumpState,
           n \in Nat, h \in Nat, k \in Nat, l \in Nat, msg \in Seq(Nat), rest \in Seq(Nat) :
          /\ w = wire[p] /\ o = out[p] /\ q = pump[p] /\ FlowOK(w, o, q)
          /\ q.said = {} /\ Framed(w, o, q, n, h, k, l, msg, rest)
          /\ msg = Message(p) /\ z = After(p)
          /\ z.pc = "frame" /\ z.held = q.held /\ z.pending = rest /\ z.chunk = <<>>
          /\ z.framed = q.framed /\ z.said = {}
  BY <1>0, Takes
<1>2. PICK r : r = [z EXCEPT !.held = <<>>]
  OBVIOUS
<1>3. /\ r \in PumpState /\ r.pc = "frame" /\ r.held = <<>> /\ r.pending = rest
      /\ r.chunk = <<>> /\ r.framed = q.framed /\ r.said = {}
  BY <1>1, <1>2 DEF PumpState
<1>4. q.held # <<>>
  BY <1>0, <1>1
<1>5. FlowOK(w, o \o (msg \o q.held), r)
  BY <1>1, <1>3, <1>4, FlowSwaps
<1>6. PICK s : s = msg \o q.held
  OBVIOUS
<1>7. s \in Seq(Nat) /\ FlowOK(wire[p], out[p] \o s, r)
  BY <1>1, <1>5, <1>6, PumpFields, Concatenated
<1>8. WriteAll(p, s, "chunk", {}, r)
  BY <1>0, <1>1, <1>2, <1>6
<1>9. side' \subseteq Pump \X Seq(Nat) /\ {} \in Said /\ pump[p].pc # "none"
  BY <1>0 DEF TypeOK, Said, Framing
<1> QED BY <1>0, <1>3, <1>7, <1>8, <1>9, WriteStep

(* A message is held back. *)
LEMMA HoldStep ==
    ASSUME TypeOK, ProxyInv, NEW p \in Pump, Hold(p),
           UNCHANGED <<fault, op, ops, conn, apart>>
    PROVE  TypeOK' /\ ProxyInv'
<1>0. /\ Framing(p) /\ MessageLen(p, pump[p].pending) > 0 /\ pump[p].held = <<>>
      /\ SetPump(p, [After(p) EXCEPT !.held = Message(p)])
      /\ UNCHANGED <<out, side, crossed, wire>>
  BY DEF Hold
<1>1. PICK w \in WireState, o \in Seq(Nat), q \in PumpState, z \in PumpState,
           n \in Nat, h \in Nat, k \in Nat, l \in Nat, msg \in Seq(Nat), rest \in Seq(Nat) :
          /\ w = wire[p] /\ o = out[p] /\ q = pump[p] /\ FlowOK(w, o, q)
          /\ q.said = {} /\ Framed(w, o, q, n, h, k, l, msg, rest)
          /\ msg = Message(p) /\ z = After(p)
          /\ z.pc = "frame" /\ z.held = q.held /\ z.pending = rest /\ z.chunk = <<>>
          /\ z.framed = q.framed /\ z.said = {}
  BY <1>0, Takes
<1>2. PICK r : r = [z EXCEPT !.held = msg]
  OBVIOUS
<1>3. /\ r \in PumpState /\ r.pc = "frame" /\ r.held = msg /\ r.pending = rest
      /\ r.chunk = <<>> /\ r.framed = q.framed /\ r.said = {}
  BY <1>1, <1>2 DEF PumpState
<1>4. FlowOK(w, o, r)
  BY <1>0, <1>1, <1>3, FlowHolds
<1>5. pump' = [pump EXCEPT ![p] = r] /\ pump[p].pc # "none"
  BY <1>0, <1>1, <1>2 DEF SetPump, Framing
<1> QED BY <1>0, <1>1, <1>3, <1>4, <1>5, QuietStep

(* A message goes on, once on its own connection. *)
LEMMA ForwardStep ==
    ASSUME TypeOK, ProxyInv, NEW p \in Pump, NEW twice \in BOOLEAN, Forward(p, twice),
           UNCHANGED <<fault, op, ops, conn, apart>>
    PROVE  TypeOK' /\ ProxyInv'
<1>0. /\ Framing(p) /\ MessageLen(p, pump[p].pending) > 0 /\ pump[p].held = <<>>
      /\ WriteAll(p, Message(p), "chunk", pump[p].said, After(p))
      /\ side' = IF twice /\ pump'[p].pc # "ended" THEN side \cup {<<p, Message(p)>>} ELSE side
      /\ UNCHANGED wire
  BY DEF Forward
<1>1. PICK w \in WireState, o \in Seq(Nat), q \in PumpState, z \in PumpState,
           n \in Nat, h \in Nat, k \in Nat, l \in Nat, msg \in Seq(Nat), rest \in Seq(Nat) :
          /\ w = wire[p] /\ o = out[p] /\ q = pump[p] /\ FlowOK(w, o, q)
          /\ q.said = {} /\ Framed(w, o, q, n, h, k, l, msg, rest)
          /\ msg = Message(p) /\ z = After(p)
          /\ z.pc = "frame" /\ z.held = q.held /\ z.pending = rest /\ z.chunk = <<>>
          /\ z.framed = q.framed /\ z.said = {}
  BY <1>0, Takes
<1>2. FlowOK(w, o \o msg, z)
  BY <1>0, <1>1, FlowForwards
<1>3. WriteAll(p, msg, "chunk", {}, z)
  BY <1>0, <1>1
<1>4. side' \subseteq Pump \X Seq(Nat)
  BY <1>0, <1>1 DEF TypeOK
<1>5. PumpEnds(p) => side' = side
  <2>1. ASSUME PumpEnds(p) PROVE pump'[p].pc = "ended"
    <3>1. pump'[p] = [pump[p] EXCEPT !.pc = "ended"]
      BY <2>1 DEF PumpEnds, TypeOK
    <3>2. q \in PumpState /\ pump'[p] = [q EXCEPT !.pc = "ended"]
      BY <1>1, <3>1
    <3> QED BY <3>2 DEF PumpState
  <2> QED BY <1>0, <2>1
<1>6. {} \in Said /\ pump[p].pc # "none"
  BY <1>0 DEF Said, Framing
<1> QED BY <1>0, <1>1, <1>2, <1>3, <1>4, <1>5, <1>6, WriteStep

(* The sender is gone. *)
LEMMA FlushStep ==
    ASSUME TypeOK, ProxyInv, NEW p \in Pump, Flush(p),
           UNCHANGED <<fault, op, ops, conn, apart>>
    PROVE  TypeOK' /\ ProxyInv'
<1>0. pump[p].pc = "flush" /\ UNCHANGED <<side, wire>>
  BY DEF Flush
<1>1. PICK w \in WireState, o \in Seq(Nat), q \in PumpState :
          /\ w = wire[p] /\ o = out[p] /\ q = pump[p] /\ FlowOK(w, o, q) /\ Running(q)
          /\ Carries(w, o, q)
  BY <1>0, PumpNow
<1>2. q.pc = "flush" /\ q.chunk = <<>> /\ w.eof /\ w.read = w.sent
  BY <1>0, <1>1 DEF Carries
<1>3. PICK s \in Seq(Nat) : /\ s = q.held \o q.pending /\ RunFrom(Len(o), s)
                            /\ Len(s) = Len(q.held) + Len(q.pending)
  BY <1>1, CarriedRuns
<1>4. w.read = Len(o) + Len(s)
  <2>1. PICK n \in Nat, h \in Nat, k \in Nat :
            n = Len(o) /\ h = Len(q.held) /\ k = Len(q.pending)
    BY PumpFields
  <2>2. w.read = n + h + k + 0
    BY <1>1, <1>2, <2>1 DEF Carries
  <2>3. n + h + k + 0 = n + (h + k)
    OBVIOUS
  <2>4. Len(s) = h + k
    BY <1>3, <2>1
  <2> QED BY <2>1, <2>2, <2>3, <2>4, Zenon
<1>5. PICK r : r = [q EXCEPT !.pc = "flushed", !.held = <<>>, !.pending = <<>>]
  OBVIOUS
<1>6. /\ r \in PumpState /\ r.pc = "flushed" /\ r.held = <<>> /\ r.pending = <<>>
      /\ r.chunk = <<>>
  BY <1>2, <1>5 DEF PumpState, Returned
<1>7. FlowOK(w, o \o s, r)
  BY <1>1, <1>2, <1>3, <1>4, <1>6, FlowEmpties
<1>8. CASE s = <<>>
  <2>1. pump' = [pump EXCEPT ![p] = r] /\ UNCHANGED <<out, crossed>>
    BY <1>1, <1>3, <1>5, <1>8 DEF Flush, SetPump
  <2>2. o \o s = o
    BY <1>8
  <2> QED BY <1>0, <1>1, <1>6, <1>7, <2>1, <2>2, QuietStep
<1>9. CASE s # <<>>
  <2>1. WriteAll(p, s, "held", TableSays(p[1]), r)
    BY <1>1, <1>3, <1>5, <1>9 DEF Flush
  <2>2. side' \subseteq Pump \X Seq(Nat)
    BY <1>0 DEF TypeOK
  <2> QED BY <1>0, <1>1, <1>6, <1>7, <2>1, <2>2, TableSaysSaid, WriteStep
<1> QED BY <1>8, <1>9

(* Every step of a pump. *)
LEMMA PumpStepSafe ==
    ASSUME TypeOK, ProxyInv, NEW p \in Pump, PumpStep(p)
    PROVE  TypeOK' /\ ProxyInv'
<1>0. UNCHANGED <<fault, op, ops, conn, apart>>
  BY DEF PumpStep
<1>1. CASE \E n \in 1 .. Len(wire[p].stream) : Read(p, n)
  <2>1. PICK n \in 1 .. Len(wire[p].stream) : Read(p, n)
    BY <1>1
  <2>2. n \in Nat
    <3>1. Len(wire[p].stream) \in Nat
      BY PumpTypes, StreamGrammar
    <3> QED BY <3>1
  <2> QED BY <1>0, <2>1, <2>2, ReadStep
<1> QED BY <1>0, <1>1, LoopStep, HoldExpiresStep, LookStep, WritesStep, FrameEndsStep, SwapStep,
           HoldStep, ForwardStep, FlushStep DEF PumpStep
-----------------------------------------------------------------------------
(* What a step that leaves the pumps and their streams alone must settle. *)
LEMMA TableStep ==
    ASSUME TypeOK, ProxyInv, CutInv', fault' \in [Link -> LinkFault], op' \in Operation,
           NotifyWaiters \/ UNCHANGED pump,
           UNCHANGED <<conn, wire, out, side, crossed>>
    PROVE  TypeOK' /\ ProxyInv'
<1>1. ASSUME NEW p \in Pump
      PROVE  /\ pump'[p] \in PumpState \cup {NoPump}
             /\ pump'[p].pc = pump[p].pc /\ pump'[p].held = pump[p].held
             /\ pump'[p].pending = pump[p].pending /\ pump'[p].chunk = pump[p].chunk
             /\ pump'[p].framed = pump[p].framed /\ pump'[p].said = pump[p].said
  <2>1. pump[p] \in PumpState \cup {NoPump}
    BY PumpTypes
  <2>2. CASE pump'[p] = pump[p]
    BY <2>1, <2>2
  <2>3. CASE pump[p].pc = "wait" /\ pump'[p] = [pump[p] EXCEPT !.woken = TRUE]
    <3>1. pump[p] \in PumpState
      BY <2>3, PumpTypes
    <3> QED BY <2>3, <3>1 DEF PumpState
  <2> QED BY <2>2, <2>3 DEF NotifyWaiters
<1>2. pump' \in [Pump -> PumpState \cup {NoPump}]
  <2>1. CASE UNCHANGED pump
    BY <2>1 DEF TypeOK
  <2>2. CASE NotifyWaiters
    <3>1. pump' = [p \in Pump |-> pump'[p]]
      BY <2>2 DEF NotifyWaiters
    <3> QED BY <1>1, <3>1
  <2> QED BY <2>1, <2>2
<1>3. TypeOK'
  BY <1>2 DEF TypeOK
<1>4. ConnInv' /\ SaidInv' /\ CrossedInv'
  <2>1. \A c \in Conn, d \in Dir : <<c, d>> \in Pump
    BY DEF Pump
  <2>2. ConnInv'
    BY <1>1, <2>1 DEF ProxyInv, ConnInv
  <2>3. SaidInv'
    BY <1>1 DEF ProxyInv, SaidInv
  <2> QED BY <2>2, <2>3 DEF ProxyInv, CrossedInv
<1>5. FlowInv'
  <2> SUFFICES ASSUME NEW p \in Pump PROVE FlowOK(wire[p], out[p], pump'[p])
    BY DEF FlowInv
  <2>1. FlowOK(wire[p], out[p], pump[p])
    BY DEF ProxyInv, FlowInv
  <2> QED BY <1>1, <2>1 DEF FlowOK, Carries, Running
<1> QED BY <1>3, <1>4, <1>5 DEF ProxyInv

(* The links of two members are links. *)
LEMMA OwnLink ==
    ASSUME NEW a \in Member, NEW b \in Member
    PROVE  link(a, b) \in Link
BY DEF Link

(* A cluster operation begins. *)
LEMMA OpBeginsSafe ==
    ASSUME TypeOK, ProxyInv, NEW o \in Operation, OpBegins(o),
           o.keep => o.apart \subseteq o.between /\ \A m \in Member : link(m, m) \in o.own,
           ~o.keep => o.apart = {}
    PROVE  TypeOK' /\ ProxyInv'
<1>1. CutInv'
  BY DEF OpBegins, CutInv
<1> QED BY <1>1, TableStep DEF OpBegins, TypeOK

(* An operation that cuts links, and then every member's own. *)
LEMMA CutLinksSafe ==
    ASSUME TypeOK, ProxyInv, NEW links \in SUBSET Link, OpBegins(CutLinks(links))
    PROVE  TypeOK' /\ ProxyInv'
<1>1. PICK o : o = CutLinks(links)
  OBVIOUS
<1>2. {link(m, m) : m \in Member} \subseteq Link
  BY OwnLink
<1>3. Clean \in LinkFault
  BY DEF Clean, LinkFault
<1>4. /\ o \in Operation /\ o.keep = TRUE /\ o.apart = links /\ o.between = links
      /\ \A m \in Member : link(m, m) \in o.own
  BY <1>1, <1>2, <1>3 DEF CutLinks, Operation
<1> QED BY <1>1, <1>4, OpBeginsSafe

(* An operation that puts a fault on links. *)
LEMMA FaultLinksSafe ==
    ASSUME TypeOK, ProxyInv, NEW links \in SUBSET Link, NEW f \in Faults,
           OpBegins([between |-> links, own |-> {}, fault |-> f, keep |-> FALSE, apart |-> {}])
    PROVE  TypeOK' /\ ProxyInv'
<1>1. PICK o : o = [between |-> links, own |-> {}, fault |-> f, keep |-> FALSE, apart |-> {}]
  OBVIOUS
<1>2. o \in Operation /\ ~o.keep /\ o.apart = {}
  BY <1>1, FaultAssumption DEF Operation
<1> QED BY <1>1, <1>2, OpBeginsSafe

(* One link of an operation is set. *)
LEMMA OpSetsSafe ==
    ASSUME TypeOK, ProxyInv, NEW l \in Link, OpSets(l)
    PROVE  TypeOK' /\ ProxyInv'
<1>1. PICK o \in Operation : o = op
  BY DEF TypeOK
<1>2. PICK left : left = [o EXCEPT !.between = @ \ {l},
                                   !.own = IF o.between = {} THEN @ \ {l} ELSE @]
  OBVIOUS
<1>3. /\ left \in Operation /\ left.between = o.between \ {l} /\ left.keep = o.keep
      /\ left.own = (IF o.between = {} THEN o.own \ {l} ELSE o.own)
      /\ left.apart = o.apart
  BY <1>2 DEF Operation
<1>4. PICK done \in BOOLEAN : done = (left.between \cup left.own = {})
  OBVIOUS
<1>5. /\ op # NoOp /\ l \in (IF o.between # {} THEN o.between ELSE o.own)
      /\ op' = (IF done THEN NoOp ELSE left) /\ apart' = (IF done THEN o.apart ELSE apart)
      /\ fault' = [fault EXCEPT ![l] = IF o.keep THEN [@ EXCEPT !.cut = TRUE] ELSE o.fault]
      /\ NotifyWaiters /\ UNCHANGED <<conn, wire, out, side, crossed>>
  BY <1>1, <1>2, <1>4 DEF OpSets, SetFaults
<1>6. fault' \in [Link -> LinkFault]
  <2>1. fault[l] \in LinkFault /\ o.fault \in LinkFault
    BY DEF TypeOK, Operation
  <2>2. [fault[l] EXCEPT !.cut = TRUE] \in LinkFault
    BY <2>1 DEF LinkFault
  <2> QED BY <1>5, <2>1, <2>2 DEF TypeOK
<1>7. NoOp \in Operation /\ NoOp.keep = FALSE /\ NoOp.apart = {}
  BY DEF NoOp, Operation, Clean, LinkFault
<1>8. op' \in Operation
  BY <1>3, <1>5, <1>7
<1>9. apart = {}
  BY <1>5 DEF ProxyInv, CutInv
<1>10. o.keep => /\ fault'[l].cut
                 /\ \A k \in Link : fault[k].cut => fault'[k].cut
  <2>1. fault[l] \in LinkFault
    BY DEF TypeOK
  <2>2. [fault[l] EXCEPT !.cut = TRUE].cut
    BY <2>1 DEF LinkFault
  <2> QED BY <1>5, <2>2 DEF TypeOK
<1>11. o.keep => /\ \A k \in o.apart : k \in left.between \/ fault'[k].cut
                 /\ \A m \in Member : link(m, m) \in left.own \/ fault'[link(m, m)].cut
  <2> SUFFICES ASSUME o.keep PROVE /\ \A k \in o.apart : k \in left.between \/ fault'[k].cut
                 /\ \A m \in Member : link(m, m) \in left.own \/ fault'[link(m, m)].cut
    OBVIOUS
  <2>1. /\ \A k \in o.apart : k \in o.between \/ fault[k].cut
        /\ \A m \in Member : link(m, m) \in o.own \/ fault[link(m, m)].cut
    BY <1>1 DEF ProxyInv, CutInv
  <2>2. o.apart \subseteq Link /\ \A m \in Member : link(m, m) \in Link
    BY OwnLink DEF Operation
  <2> QED BY <1>3, <1>10, <2>1, <2>2
<1>12. ~o.keep => o.apart = {}
  BY <1>1 DEF ProxyInv, CutInv
<1>13. CutInv'
  <2>1. CASE done
    <3>1. op' = NoOp /\ apart' = o.apart /\ left.between = {} /\ left.own = {}
      BY <1>4, <1>5, <2>1
    <3>2. \A k \in apart' : fault'[k].cut
      BY <1>11, <1>12, <3>1
    <3>3. apart' # {} => \A m \in Member : fault'[link(m, m)].cut
      BY <1>11, <1>12, <3>1
    <3> QED BY <1>7, <3>1, <3>2, <3>3 DEF CutInv
  <2>2. CASE ~done
    <3>1. op' = left /\ apart' = {}
      BY <1>5, <1>9, <2>2
    <3> QED BY <1>3, <1>11, <1>12, <3>1 DEF CutInv
  <2> QED BY <2>1, <2>2
<1> QED BY <1>5, <1>6, <1>8, <1>13, TableStep

(* Healing a link keeps the invariant. *)
LEMMA HealSafe ==
    ASSUME TypeOK, ProxyInv, Heal
    PROVE  TypeOK' /\ ProxyInv'
<1>1. fault' \in [Link -> LinkFault]
  BY DEF Heal, SetFaults, Clean, LinkFault
<1>2. CutInv'
  BY DEF Heal, ProxyInv, CutInv, NoOp
<1> QED BY <1>1, <1>2, TableStep DEF Heal, SetFaults, TypeOK
-----------------------------------------------------------------------------
(* Neither the table nor what crossed changes. *)
LEMMA SameTable ==
    ASSUME ProxyInv, UNCHANGED <<fault, op, apart, crossed>>
    PROVE  CutInv' /\ CrossedInv'
BY DEF ProxyInv, CutInv, CrossedInv

(* A new connection keeps the invariant. *)
LEMMA AcceptSafe ==
    ASSUME TypeOK, ProxyInv, NEW c \in Conn, NEW r \in Route, NEW q \in Requests,
           NEW a \in Answers, NEW s \in {r[1], Unknown}, NEW d \in BOOLEAN,
           Accept(c, r, s, d, q, a)
    PROVE  TypeOK' /\ ProxyInv'
<1>1. PICK f : f = fault[IF s = Unknown THEN link(r[2], r[2]) ELSE link(s, r[2])]
  OBVIOUS
<1>2. PICK k : k = [pc |-> IF f.cut \/ d THEN "refused" ELSE "connecting",
                    dialer |-> r[1], source |-> s, member |-> r[2],
                    framed |-> MessageMode(f)]
  OBVIOUS
<1>3. /\ conn[c].pc = "none" /\ conn' = [conn EXCEPT ![c] = k]
      /\ wire' = [wire EXCEPT ![<<c, "out">>].stream = q, ![<<c, "back">>].stream = a]
      /\ UNCHANGED <<fault, op, ops, pump, out, side, apart, crossed>>
  BY <1>1, <1>2 DEF Accept
<1>4. r[1] \in Member /\ r[2] \in Member
  BY RouteAssumption
<1>5. /\ k \in ConnState /\ k.pc \in {"refused", "connecting"}
      /\ k.source \in {k.dialer, Unknown}
  BY <1>2, <1>4 DEF ConnState, MessageMode
<1>6. \A p \in Pump : /\ wire'[p] \in WireState
                      /\ wire'[p] = wire[p] \/ p = <<c, "out">> \/ p = <<c, "back">>
                      /\ wire'[p].sent = wire[p].sent /\ wire'[p].read = wire[p].read
  <2> TAKE p \in Pump
  <2>1. wire[p] \in WireState
    BY PumpTypes
  <2>2. \/ wire'[p] = wire[p]
        \/ p = <<c, "out">> /\ wire'[p] = [wire[p] EXCEPT !.stream = q]
        \/ p = <<c, "back">> /\ wire'[p] = [wire[p] EXCEPT !.stream = a]
    BY <1>3 DEF TypeOK
  <2> QED BY <2>1, <2>2 DEF WireState
<1>7. wire' \in [Pump -> WireState]
  BY <1>3, <1>6 DEF TypeOK
<1>8. TypeOK'
  BY <1>3, <1>5, <1>7 DEF TypeOK, WireState
<1>9. ConnInv'
  BY <1>3, <1>5 DEF ProxyInv, ConnInv, TypeOK
<1>10. SaidInv'
  BY <1>3 DEF ProxyInv, SaidInv
<1>11. ASSUME NEW p \in Pump PROVE FlowOK(wire'[p], out[p], pump[p])
  <2>0. FlowOK(wire[p], out[p], pump[p])
    BY DEF ProxyInv, FlowInv
  <2>1. CASE wire'[p] = wire[p]
    BY <2>0, <2>1
  <2>2. CASE p = <<c, "out">> \/ p = <<c, "back">>
    <3>1. pump[p].pc = "none"
      BY <1>3, <2>2 DEF ProxyInv, ConnInv, Dir
    <3>2. wire[p].sent = 0 /\ wire[p].read = 0 /\ out[p] = <<>>
      BY <2>0, <3>1 DEF FlowOK
    <3>3. Len(wire'[p].stream) \in Nat
      BY <1>6, StreamGrammar
    <3> QED BY <1>6, <3>1, <3>2, <3>3 DEF FlowOK, Running, Ordered
  <2> QED BY <1>6, <2>1, <2>2
<1>12. FlowInv'
  BY <1>3, <1>11 DEF FlowInv
<1> QED BY <1>3, <1>8, <1>9, <1>10, <1>12, SameTable DEF ProxyInv

(* The `handle` task of a connection. *)
LEMMA ConnStepSafe ==
    ASSUME TypeOK, ProxyInv, NEW c \in Conn, ConnStep(c)
    PROVE  TypeOK' /\ ProxyInv'
<1>0. CutInv' /\ CrossedInv'
  BY SameTable DEF ConnStep, ConnectFails, Connected, HandleEnds
<1>1. conn[c] \in ConnState \cup {NoConn} /\ NoConn.pc = "none"
  BY DEF TypeOK, NoConn
<1>2. CASE ConnectFails(c)
  <2>1. PICK k : k = [conn[c] EXCEPT !.pc = "refused"]
    OBVIOUS
  <2>2. conn[c] \in ConnState
    BY <1>1, <1>2 DEF ConnectFails
  <2>3. /\ k \in ConnState /\ k.pc = "refused" /\ k.source = conn[c].source
        /\ k.dialer = conn[c].dialer
    BY <2>1, <2>2 DEF ConnState
  <2>4. conn' = [conn EXCEPT ![c] = k] /\ UNCHANGED <<pump, wire, out, side>>
    BY <1>2, <2>1 DEF ConnectFails
  <2>5. TypeOK'
    BY <1>2, <2>3, <2>4 DEF TypeOK, ConnectFails
  <2>6. ConnInv'
    BY <1>2, <2>3, <2>4 DEF ProxyInv, ConnInv, TypeOK, ConnectFails
  <2>7. SaidInv' /\ FlowInv'
    BY <2>4 DEF ProxyInv, SaidInv, FlowInv
  <2> QED BY <1>0, <2>5, <2>6, <2>7 DEF ProxyInv
<1>3. CASE Connected(c)
  <2>1. PICK k, x, y : /\ k = [conn[c] EXCEPT !.pc = "open"]
                       /\ x = Started(conn[c].framed) /\ y = Started(FALSE)
    OBVIOUS
  <2>2. conn[c] \in ConnState
    BY <1>1, <1>3 DEF Connected
  <2>3. /\ k \in ConnState /\ k.pc = "open" /\ k.source = conn[c].source
        /\ k.dialer = conn[c].dialer
    BY <2>1, <2>2 DEF ConnState
  <2>4. /\ conn' = [conn EXCEPT ![c] = k] /\ UNCHANGED <<wire, out, side>>
        /\ pump' = [pump EXCEPT ![<<c, "out">>] = x, ![<<c, "back">>] = y]
    BY <1>3, <2>1 DEF Connected
  <2>5. x \in PumpState /\ y \in PumpState
    <3>1. Clean \in LinkFault /\ {} \in Said /\ conn[c].framed \in BOOLEAN
      BY <2>2 DEF Clean, LinkFault, Said, ConnState
    <3> QED BY <2>1, <3>1 DEF Started, PumpState
  <2>6. \A z \in {x, y} : /\ z.pc = "top" /\ z.held = <<>> /\ z.pending = <<>>
                          /\ z.chunk = <<>>
    BY <2>1 DEF Started
  <2>7. \A p \in Pump : \/ pump'[p] = pump[p] /\ p[1] # c
                        \/ p \in {<<c, "out">>, <<c, "back">>} /\ pump'[p] \in {x, y}
    <3> TAKE p \in Pump
    <3>1. p[1] = c => p \in {<<c, "out">>, <<c, "back">>}
      BY DEF Pump, Dir
    <3>2. CASE p \in {<<c, "out">>, <<c, "back">>}
      BY <2>4, <3>2 DEF TypeOK
    <3>3. CASE p \notin {<<c, "out">>, <<c, "back">>}
      BY <2>4, <3>1, <3>3 DEF TypeOK
    <3> QED BY <3>2, <3>3
  <2>8. TypeOK'
    <3>1. pump' \in [Pump -> PumpState \cup {NoPump}]
      BY <2>4, <2>5 DEF TypeOK
    <3>2. conn' \in [Conn -> ConnState \cup {NoConn}]
      BY <2>3, <2>4 DEF TypeOK
    <3> QED BY <1>3, <3>1, <3>2 DEF TypeOK, Connected
  <2>9. ConnInv'
    <3>1. ASSUME NEW b \in Conn, NEW d \in Dir
          PROVE  conn'[b].pc \in {"open", "closed"} <=> pump'[<<b, d>>].pc # "none"
      <4>1. <<b, d>> \in Pump /\ <<b, d>>[1] = b
        BY DEF Pump
      <4>2. CASE b = c
        <5>1. pump'[<<b, d>>] \in {x, y}
          BY <2>7, <4>1, <4>2
        <5> QED BY <2>3, <2>4, <2>6, <4>2, <5>1 DEF TypeOK
      <4>3. CASE b # c
        BY <2>4, <2>7, <4>1, <4>3 DEF ProxyInv, ConnInv, TypeOK
      <4> QED BY <4>2, <4>3
    <3>2. ASSUME NEW b \in Conn, conn'[b].pc # "none"
          PROVE  conn'[b].source \in {conn'[b].dialer, Unknown}
      BY <1>3, <2>3, <2>4, <3>2 DEF ProxyInv, ConnInv, TypeOK, Connected
    <3> QED BY <3>1, <3>2 DEF ConnInv
  <2>10. SaidInv'
    BY <2>6, <2>7 DEF ProxyInv, SaidInv
  <2>11. ASSUME NEW p \in Pump PROVE FlowOK(wire[p], out[p], pump'[p])
    <3>0. FlowOK(wire[p], out[p], pump[p]) /\ wire[p] \in WireState
      BY PumpTypes DEF ProxyInv, FlowInv
    <3>1. CASE p \in {<<c, "out">>, <<c, "back">>} /\ pump'[p] \in {x, y}
      <4>1. pump[p].pc = "none"
        BY <1>3, <3>1 DEF ProxyInv, ConnInv, Dir, Connected
      <4>2. wire[p].sent = 0 /\ wire[p].read = 0 /\ out[p] = <<>>
        BY <3>0, <4>1 DEF FlowOK
      <4>3. Grammar(wire[p].stream) /\ Len(wire[p].stream) \in Nat
        BY <3>0, StreamGrammar
      <4>4. Starts(wire[p].stream, 1)
        BY <4>3 DEF Starts, Grammar
      <4>5. PICK z, w, o : z = pump'[p] /\ w = wire[p] /\ o = out[p]
        OBVIOUS
      <4>6. /\ z.pc = "top" /\ z.held = <<>> /\ z.pending = <<>> /\ z.chunk = <<>>
            /\ w.read = 0 /\ o = <<>> /\ Starts(w.stream, 1)
        BY <2>6, <3>1, <4>2, <4>4, <4>5
      <4>7. Carries(w, o, z)
        <5>1. Len(o) = 0 /\ Len(z.held) = 0 /\ Len(z.pending) = 0 /\ Len(z.chunk) = 0
          BY <4>6
        <5>2. Joins(w.stream, o)
          BY <4>6, <5>1 DEF Joins, Starts
        <5>3. OneMessage(w.stream, Len(o), Len(z.held))
              /\ Starts(w.stream, Len(o) + Len(z.held) + 1)
          BY <4>6, <5>1 DEF OneMessage
        <5> QED BY <4>6, <5>1, <5>2, <5>3 DEF Carries, RunFrom
      <4> QED BY <3>0, <4>5, <4>6, <4>7 DEF FlowOK
    <3> QED BY <2>7, <3>0, <3>1
  <2>12. FlowInv'
    BY <2>4, <2>11 DEF FlowInv
  <2> QED BY <1>0, <2>8, <2>9, <2>10, <2>12 DEF ProxyInv
<1>4. CASE HandleEnds(c)
  <2>1. PICK b : b = <<c, "back">>
    OBVIOUS
  <2>2. b \in Pump /\ b[1] = c /\ b[2] = "back"
    BY <2>1 DEF Pump, Dir
  <2>3. pump[b].pc # "none"
    BY <1>4, <2>1 DEF ProxyInv, ConnInv, HandleEnds, Dir
  <2>4. pump[b] \in PumpState
    BY <2>2, <2>3, PumpTypes
  <2>5. PICK k, x : /\ k = [conn[c] EXCEPT !.pc = "closed"]
                    /\ x = [pump[b] EXCEPT !.pc = "ended"]
    OBVIOUS
  <2>6. conn[c] \in ConnState
    BY <1>1, <1>4 DEF HandleEnds
  <2>7. /\ k \in ConnState /\ k.pc = "closed" /\ k.source = conn[c].source
        /\ k.dialer = conn[c].dialer
    BY <2>5, <2>6 DEF ConnState
  <2>8. x \in PumpState /\ x.pc = "ended"
    BY <2>4, <2>5 DEF PumpState, Returned
  <2>9. /\ conn' = [conn EXCEPT ![c] = k] /\ UNCHANGED <<wire, out, side>>
        /\ pump' = [pump EXCEPT ![b] = x]
    BY <1>4, <2>1, <2>5 DEF HandleEnds
  <2>10. TypeOK'
    <3>1. pump' \in [Pump -> PumpState \cup {NoPump}]
      BY <2>8, <2>9 DEF TypeOK
    <3>2. conn' \in [Conn -> ConnState \cup {NoConn}]
      BY <2>7, <2>9 DEF TypeOK
    <3> QED BY <1>4, <3>1, <3>2 DEF TypeOK, HandleEnds
  <2>11. \A p \in Pump : pump'[p] = (IF p = b THEN x ELSE pump[p])
    BY <2>9 DEF TypeOK
  <2>12. ConnInv'
    <3>1. \A d \in Dir, e \in Conn : <<e, d>> \in Pump
      BY DEF Pump
    <3>2. \A p \in Pump : pump'[p].pc # "none" <=> pump[p].pc # "none"
      BY <2>3, <2>8, <2>11
    <3> QED BY <1>4, <2>7, <2>9, <3>1, <3>2 DEF ProxyInv, ConnInv, TypeOK, HandleEnds
  <2>13. SaidInv'
    BY <2>8, <2>11 DEF ProxyInv, SaidInv
  <2>14. FlowOK(wire[b], out[b], x)
    BY <2>2, <2>8, FlowEnds DEF ProxyInv, FlowInv
  <2>15. FlowInv'
    BY <2>9, <2>11, <2>14 DEF ProxyInv, FlowInv
  <2> QED BY <1>0, <2>10, <2>12, <2>13, <2>15 DEF ProxyInv
<1> QED BY <1>2, <1>3, <1>4 DEF ConnStep

(* A sender sends a unit, or closes. *)
LEMMA SenderSafe ==
    ASSUME TypeOK, ProxyInv, NEW p \in Pump, SendUnit(p) \/ SenderCloses(p)
    PROVE  TypeOK' /\ ProxyInv'
<1>0. /\ conn[p[1]].pc = "open" /\ ~wire[p].eof
      /\ UNCHANGED <<fault, op, ops, conn, pump, out, side, apart, crossed>>
  BY DEF SendUnit, SenderCloses
<1>1. wire[p] \in WireState /\ p[1] \in Conn /\ p[2] \in Dir /\ p = <<p[1], p[2]>>
      /\ FlowOK(wire[p], out[p], pump[p])
  BY PumpTypes DEF ProxyInv, FlowInv
<1>2. pump[p].pc # "none"
  BY <1>0, <1>1 DEF ProxyInv, ConnInv
<1>3. PICK w, v : w = wire[p] /\ v = IF SendUnit(p) THEN [w EXCEPT !.sent = @ + 1]
                                                    ELSE [w EXCEPT !.eof = TRUE]
  OBVIOUS
<1>4. wire' = [wire EXCEPT ![p] = v] /\ (SendUnit(p) => w.sent < Len(w.stream))
  BY <1>3 DEF SendUnit, SenderCloses
<1>5. /\ v \in WireState /\ v.stream = w.stream /\ v.read = w.read
      /\ (SendUnit(p) => v.sent = w.sent + 1) /\ (~SendUnit(p) => v.sent = w.sent)
  <2>1. w \in WireState
    BY <1>1, <1>3
  <2>2. CASE SendUnit(p)
    BY <1>3, <2>1, <2>2 DEF WireState
  <2>3. CASE ~SendUnit(p)
    BY <1>3, <2>1, <2>3 DEF WireState
  <2> QED BY <2>2, <2>3
<1>6. FlowOK(v, out[p], pump[p])
  <2>1. w.read \in Nat /\ w.sent \in Nat /\ Len(w.stream) \in Nat /\ ~w.eof
    BY <1>0, <1>1, <1>3, StreamGrammar
  <2>2. FlowOK(w, out[p], pump[p])
    BY <1>1, <1>3
  <2>3. v.read <= v.sent /\ v.sent <= Len(v.stream)
    BY <1>4, <1>5, <2>1, <2>2 DEF FlowOK
  <2>4. Running(pump[p]) => Carries(v, out[p], pump[p])
    BY <1>5, <2>1, <2>2 DEF FlowOK, Carries
  <2> QED BY <1>2, <1>5, <2>2, <2>3, <2>4 DEF FlowOK
<1>7. TypeOK'
  BY <1>0, <1>4, <1>5 DEF TypeOK, WireState
<1>8. ConnInv' /\ SaidInv'
  BY <1>0 DEF ProxyInv, ConnInv, SaidInv
<1>9. FlowInv'
  <2>1. \A q \in Pump : wire'[q] = (IF q = p THEN v ELSE wire[q])
    BY <1>4 DEF TypeOK
  <2> QED BY <1>0, <1>6, <2>1 DEF ProxyInv, FlowInv
<1> QED BY <1>0, <1>7, <1>8, <1>9, SameTable DEF ProxyInv

(* A duplicate is delivered past the table, or is not. *)
LEMMA DuplicateSafe ==
    ASSUME TypeOK, ProxyInv, NEW d \in side, DeliverDuplicate(d) \/ DuplicateFails(d)
    PROVE  TypeOK' /\ ProxyInv'
<1>0. /\ side' \subseteq side /\ UNCHANGED <<fault, op, ops, conn, pump, wire, out, apart>>
      /\ \/ crossed' = crossed
         \/ crossed' = crossed \cup {[how |-> "duplicate", said |-> TableSays(d[1][1])]}
  BY DEF DeliverDuplicate, DuplicateFails
<1>1. TypeOK'
  BY <1>0, TableSaysSaid DEF TypeOK
<1>2. CutInv' /\ ConnInv' /\ SaidInv' /\ FlowInv'
  BY <1>0 DEF ProxyInv, CutInv, ConnInv, SaidInv, FlowInv
<1>3. CrossedInv'
  BY <1>0 DEF ProxyInv, CrossedInv
<1> QED BY <1>1, <1>2, <1>3 DEF ProxyInv
-----------------------------------------------------------------------------
(* A proxy starts with no connection and no cut. *)
LEMMA InitSafe ==
    ASSUME Init
    PROVE  TypeOK /\ ProxyInv
<1>0. Clean \in LinkFault /\ NoOp \in Operation /\ NoOp.keep = FALSE /\ NoOp.apart = {}
  BY DEF Clean, LinkFault, NoOp, Operation
<1>1. TypeOK
  BY <1>0 DEF Init, TypeOK
<1>2. CutInv
  BY <1>0 DEF Init, CutInv
<1>3. ConnInv /\ SaidInv /\ CrossedInv
  BY DEF Init, ConnInv, SaidInv, CrossedInv, NoConn, NoPump, Pump
<1>4. FlowInv
  BY DEF Init, FlowInv, FlowOK, Ordered, Running, NoPump
<1> QED BY <1>1, <1>2, <1>3, <1>4 DEF ProxyInv

(* Every step of the proxy keeps the invariant. *)
LEMMA NextSafe ==
    ASSUME TypeOK, ProxyInv, [Next]_vars
    PROVE  TypeOK' /\ ProxyInv'
<1>1. CASE UNCHANGED vars
  BY <1>1 DEF vars, TypeOK, ProxyInv, CutInv, ConnInv, SaidInv, FlowInv, CrossedInv
<1>2. CASE \E group \in SUBSET Member \ {{}, Member} : Partition(group)
  <2>1. PICK group \in SUBSET Member : Partition(group)
    BY <1>2
  <2>2. PartitionLinks(group) \in SUBSET Link
    BY OwnLink DEF PartitionLinks
  <2> QED BY <2>1, <2>2, CutLinksSafe DEF Partition
<1>3. CASE \E m \in Member : Isolate(m)
  <2>1. PICK m \in Member : Isolate(m)
    BY <1>3
  <2>2. {link(m, n) : n \in Member \ {m}} \in SUBSET Link
    BY OwnLink
  <2> QED BY <2>1, <2>2, CutLinksSafe DEF Isolate
<1>4. CASE \E l \in Link, f \in Faults : LinkFaultOp(l, f)
  <2>1. PICK l \in Link, f \in Faults : LinkFaultOp(l, f)
    BY <1>4
  <2>2. {l} \in SUBSET Link
    OBVIOUS
  <2> QED BY <2>1, <2>2, FaultLinksSafe DEF LinkFaultOp
<1>5. CASE \E f \in Faults : EveryLink(f)
  <2>1. PICK f \in Faults : EveryLink(f)
    BY <1>5
  <2>2. {l \in Link : Cardinality(l) = 2} \in SUBSET Link
    OBVIOUS
  <2> QED BY <2>1, <2>2, FaultLinksSafe DEF EveryLink
<1>6. CASE \E c \in Conn : \E r \in Route, q \in Requests, a \in Answers :
                 \E s \in {r[1], Unknown}, d \in BOOLEAN : Accept(c, r, s, d, q, a)
  BY <1>6, AcceptSafe
<1>7. CASE \E c \in Conn : ConnStep(c)
  BY <1>7, ConnStepSafe
<1>8. CASE \E p \in Pump : SendUnit(p) \/ SenderCloses(p) \/ PumpStep(p)
  BY <1>8, SenderSafe, PumpStepSafe
<1>9. CASE \E d \in side : DeliverDuplicate(d) \/ DuplicateFails(d)
  BY <1>9, DuplicateSafe
<1>10. CASE \E l \in Link : OpSets(l)
  BY <1>10, OpSetsSafe
<1>11. CASE Heal
  BY <1>11, HealSafe
<1> QED BY <1>1, <1>2, <1>3, <1>4, <1>5, <1>6, <1>7, <1>8, <1>9, <1>10, <1>11 DEF Next

(* The state of the proxies is well formed, and what their pumps carry is  *)
(* always the stretch of the stream between what they wrote and what they  *)
(* read.                                                                   *)
THEOREM ProxyCorrect == Spec => [](TypeOK /\ ProxyInv)
<1>1. Init => TypeOK /\ ProxyInv
  BY InitSafe
<1>2. TypeOK /\ ProxyInv /\ [Next]_vars => (TypeOK /\ ProxyInv)'
  BY NextSafe
<1> QED BY <1>1, <1>2, PTL DEF Spec

(* CutStopsChunks, for any cluster: no pump passes on a chunk it looked at *)
(* while its link was cut, however the operations interleave with its      *)
(* reads and delays.                                                       *)
THEOREM CutStopsChunksCorrect == Spec => []CutStopsChunks
<1>1. ProxyInv => CutStopsChunks
  BY DEF ProxyInv, CrossedInv, CutStopsChunks
<1> QED BY <1>1, ProxyCorrect, PTL

(* PartitionHolds, for any cluster: once partition or isolate has returned *)
(* no chunk crosses between the members they separated, even when the      *)
(* proxy could not tell who dials.                                         *)
THEOREM PartitionHoldsCorrect == Spec => []PartitionHolds
<1>1. ProxyInv => PartitionHolds
  BY DEF ProxyInv, CrossedInv, PartitionHolds
<1> QED BY <1>1, ProxyCorrect, PTL

(* AtMostOneSlotLate, for any stream: reordering moves a message behind at *)
(* most one later message.                                                 *)
THEOREM AtMostOneSlotLateCorrect == Spec => []AtMostOneSlotLate
<1>1. ProxyInv => AtMostOneSlotLate
  <2> SUFFICES ASSUME ProxyInv, NEW p \in Pump, NEW i \in DOMAIN out[p],
                      NEW j \in DOMAIN out[p], i < j
               PROVE  MessageOf(p, out[p][j]) >= MessageOf(p, out[p][i]) - 1
    BY DEF AtMostOneSlotLate
  <2>1. Ordered(wire[p].stream, out[p])
    BY DEF ProxyInv, FlowInv, FlowOK
  <2>2. \A u : MessageOf(p, u) = MessageIn(wire[p].stream, u)
    BY DEF MessageOf, MessageIn, Kind
  <2>3. MessageIn(wire[p].stream, out[p][j]) >= MessageIn(wire[p].stream, out[p][i]) - 1
    BY <2>1 DEF Ordered
  <2> QED BY <2>2, <2>3
<1> QED BY <1>1, ProxyCorrect, PTL

(* NothingLostOrTorn, for any stream: what a pump wrote is a permutation   *)
(* of the first units of its stream with every rest behind its head, and a *)
(* pump that flushed has written all that was sent.                        *)
THEOREM NothingLostOrTornCorrect == Spec => []NothingLostOrTorn
<1>1. TypeOK /\ ProxyInv => NothingLostOrTorn
  <2> SUFFICES ASSUME TypeOK, ProxyInv, NEW p \in Pump
               PROVE  /\ \A i, j \in DOMAIN out[p] : out[p][i] = out[p][j] => i = j
                      /\ \A i \in DOMAIN out[p] :
                            Kind(p, out[p][i]) = "rest" => i > 1 /\ out[p][i - 1] = out[p][i] - 1
                      /\ pump[p].pc = "flushed" => Len(out[p]) = wire[p].sent
    BY DEF NothingLostOrTorn
  <2>1. FlowOK(wire[p], out[p], pump[p]) /\ Ordered(wire[p].stream, out[p])
        /\ out[p] \in Seq(Nat) /\ wire[p] \in WireState
    BY PumpTypes DEF ProxyInv, FlowInv, FlowOK
  <2>2. ASSUME pump[p].pc = "flushed" PROVE Len(out[p]) = wire[p].sent
    <3>1. Carries(wire[p], out[p], pump[p])
      BY <2>1, <2>2 DEF FlowOK, Running
    <3>2. /\ pump[p].held = <<>> /\ pump[p].pending = <<>> /\ pump[p].chunk = <<>>
          /\ wire[p].read = wire[p].sent
      BY <2>2, <3>1 DEF Carries
    <3>3. Len(out[p]) \in Nat
      BY <2>1
    <3> QED BY <3>1, <3>2, <3>3 DEF Carries
  <2> QED BY <2>1, <2>2 DEF Ordered, Kind
<1> QED BY <1>1, ProxyCorrect, PTL
=============================================================================
