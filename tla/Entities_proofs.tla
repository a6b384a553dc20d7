---------------------------- MODULE Entities_proofs ----------------------------
(***************************************************************************)
(* That the ends of a set, a map, a property and a list agree when nothing *)
(* is on its way.                                                          *)
(*                                                                         *)
(* What one end knows of a value, or of a key, is what the last message    *)
(* about it says: LastIn.  A change adds such a message at the end of a    *)
(* channel, and a message received is the last one when none about the     *)
(* same is left behind it.                                                 *)
(***************************************************************************)
EXTENDS Integers, Sequences, FiniteSetTheorems, SequenceTheorems, WellFoundedInduction, TLAPS

CONSTANTS Values, Keys, NoValue, MaxChanges, MaxLength

VARIABLES channel, changes, careless, map, next_version, pendingForAck, dangling,
          set, told, untold,
          value, master_version,
          list, list_version, list_bound, conflict, crossed

Map == INSTANCE RdMap
SetOf == INSTANCE RdSet
Property == INSTANCE RdProperty
List == INSTANCE RdList WITH next_version <- list_version, bound <- list_bound

\* Of a channel q: whether a message of M is in it, whether only one is, and
\* whether the last one is good.
Some(q, M) == \E i \in 1 .. Len(q) : q[i] \in M
One(q, M) == \E i \in 1 .. Len(q) : q[i] \in M /\ \A j \in 1 .. Len(q) : q[j] \in M => j = i
LastIn(q, M, G) ==
    \A i \in 1 .. Len(q) :
        q[i] \in M /\ (\A j \in 1 .. Len(q) : i < j => q[j] \notin M) => q[i] \in G
All(q, M, G) == \A i \in 1 .. Len(q) : q[i] \in M => q[i] \in G

-----------------------------------------------------------------------------
(* Sequences.                                                              *)

LEMMA Joined ==
    ASSUME NEW T, NEW p \in Seq(T), NEW q \in Seq(T)
    PROVE  /\ p \o q \in Seq(T)
           /\ Len(p) \in Nat /\ Len(q) \in Nat
           /\ Len(p \o q) = Len(p) + Len(q)
           /\ \A i \in 1 .. Len(p) : (p \o q)[i] = p[i]
           /\ \A i \in 1 .. Len(q) : (p \o q)[Len(p) + i] = q[i]
           /\ \A i \in 1 .. Len(p \o q) : i \in 1 .. Len(p) \/
                 (i - Len(p) \in 1 .. Len(q) /\ (p \o q)[i] = q[i - Len(p)] /\ i > Len(p))
<1>1. p \o q \in Seq(T) /\ Len(p \o q) = Len(p) + Len(q) /\ Len(p) \in Nat /\ Len(q) \in Nat
  OBVIOUS
<1>2. \A i \in 1 .. Len(p) + Len(q) :
        (p \o q)[i] = IF i =< Len(p) THEN p[i] ELSE q[i - Len(p)]
  BY <1>1
<1>3. \A i \in 1 .. Len(p) : (p \o q)[i] = p[i]
  BY <1>1, <1>2
<1>4. ASSUME NEW i \in 1 .. Len(q) PROVE (p \o q)[Len(p) + i] = q[i]
  <2> DEFINE k == Len(p) + i
  <2>1. k \in 1 .. Len(p) + Len(q) /\ ~(k =< Len(p)) /\ k - Len(p) = i
    BY <1>1
  <2> HIDE DEF k
  <2>2. (p \o q)[k] = q[i]
    BY <2>1, <1>2
  <2>3. QED
    BY <2>2 DEF k
<1>5. ASSUME NEW i \in 1 .. Len(p \o q), i \notin 1 .. Len(p)
      PROVE  i - Len(p) \in 1 .. Len(q) /\ (p \o q)[i] = q[i - Len(p)] /\ i > Len(p)
  BY <1>1, <1>2, <1>5
<1>6. QED
  BY <1>1, <1>3, <1>4, <1>5

LEMMA First ==
    ASSUME NEW T, NEW q \in Seq(T), q # <<>>
    PROVE  /\ Head(q) = q[1] /\ Head(q) \in T
           /\ Tail(q) \in Seq(T)
           /\ Len(q) \in Nat /\ Len(q) >= 1
           /\ Len(Tail(q)) = Len(q) - 1
           /\ \A i \in 1 .. Len(q) - 1 : Tail(q)[i] = q[i + 1]
<1>1. Len(q) \in Nat /\ Len(q) >= 1
  OBVIOUS
<1>2. Head(q) = q[1] /\ Head(q) \in T /\ Tail(q) \in Seq(T) /\ Len(Tail(q)) = Len(q) - 1
  BY <1>1
<1>3. \A i \in 1 .. Len(q) - 1 : Tail(q)[i] = q[i + 1]
  BY <1>1
<1>4. QED
  BY <1>1, <1>2, <1>3

LEMMA NoMessages ==
    ASSUME NEW M, NEW G
    PROVE  /\ ~Some(<<>>, M) /\ ~One(<<>>, M) /\ LastIn(<<>>, M, G) /\ All(<<>>, M, G)
<1>1. Len(<<>>) = 0
  BY EmptySeq
<1>2. QED
  BY <1>1 DEF Some, One, LastIn, All

\* Where there is no message, all are what one likes.
LEMMA NoneIsLast ==
    ASSUME NEW q, NEW M, NEW G, ~Some(q, M)
    PROVE  LastIn(q, M, G) /\ All(q, M, G)
  BY DEF Some, LastIn, All

LEMMA OneIsSome ==
    ASSUME NEW q, NEW M, One(q, M)
    PROVE  Some(q, M)
  BY DEF Some, One

-----------------------------------------------------------------------------
(* A message received.                                                     *)

LEMMA TakenFirst ==
    ASSUME NEW T, NEW q \in Seq(T), q # <<>>, NEW M, NEW G
    PROVE  /\ Some(Tail(q), M) => Some(q, M)
           /\ Some(q, M) => Some(Tail(q), M) \/ Head(q) \in M
           /\ Head(q) \in M => Some(q, M)
           /\ All(q, M, G) => All(Tail(q), M, G)
           /\ All(q, M, G) /\ Head(q) \in M => Head(q) \in G
           /\ LastIn(q, M, G) => LastIn(Tail(q), M, G)
           /\ LastIn(q, M, G) /\ Head(q) \in M /\ ~Some(Tail(q), M) => Head(q) \in G
           /\ One(q, M) /\ Head(q) \in M => ~Some(Tail(q), M)
           /\ One(q, M) /\ Head(q) \notin M => One(Tail(q), M)
<1> DEFINE n == Len(q)  t == Tail(q)
<1>1. /\ Head(q) = q[1] /\ n \in Nat /\ n >= 1 /\ Len(t) = n - 1
      /\ \A i \in 1 .. n - 1 : t[i] = q[i + 1]
  BY First
<1>2. \A i \in 1 .. n : i = 1 \/ (i - 1 \in 1 .. n - 1 /\ q[i] = t[i - 1])
  BY <1>1
<1>3. \A i \in 1 .. n - 1 : i + 1 \in 1 .. n /\ t[i] = q[i + 1]
  BY <1>1
<1>4. 1 \in 1 .. n
  BY <1>1
<1> HIDE DEF n, t
<1>5. Some(t, M) => Some(q, M)
  BY <1>1, <1>3 DEF Some, n
<1>6. Some(q, M) => Some(t, M) \/ Head(q) \in M
  BY <1>1, <1>2 DEF Some, n
<1>7. Head(q) \in M => Some(q, M)
  BY <1>1, <1>4 DEF Some, n
<1>8. All(q, M, G) => All(t, M, G)
  BY <1>1, <1>3 DEF All, n
<1>9. All(q, M, G) /\ Head(q) \in M => Head(q) \in G
  BY <1>1, <1>4 DEF All, n
<1>10. ASSUME LastIn(q, M, G) PROVE LastIn(t, M, G)
  <2> SUFFICES ASSUME NEW i \in 1 .. n - 1, t[i] \in M,
                      \A j \in 1 .. n - 1 : i < j => t[j] \notin M
               PROVE  t[i] \in G
    BY <1>1 DEF LastIn
  <2>1. i + 1 \in 1 .. n /\ q[i + 1] \in M
    BY <1>3
  <2>2. ASSUME NEW j \in 1 .. n, i + 1 < j PROVE q[j] \notin M
    <3>1. j - 1 \in 1 .. n - 1 /\ q[j] = t[j - 1] /\ i < j - 1
      BY <2>2, <1>2, <1>1
    <3>2. QED
      BY <3>1
  <2>3. q[i + 1] \in G
    BY <1>10, <2>1, <2>2 DEF LastIn, n
  <2>4. QED
    BY <2>3, <1>3
<1>11. ASSUME LastIn(q, M, G), Head(q) \in M, ~Some(t, M) PROVE Head(q) \in G
  <2>1. \A j \in 1 .. n : 1 < j => q[j] \notin M
    BY <1>1, <1>2, <1>11 DEF Some
  <2>2. QED
    BY <2>1, <1>1, <1>4, <1>11 DEF LastIn, n
<1>12. ASSUME One(q, M), Head(q) \in M PROVE ~Some(t, M)
  <2>1. \A j \in 1 .. n : q[j] \in M => j = 1
    BY <1>1, <1>4, <1>12 DEF One, n
  <2>2. \A i \in 1 .. n - 1 : i + 1 # 1
    BY <1>1
  <2>3. QED
    BY <2>1, <2>2, <1>1, <1>3 DEF Some
<1>13. ASSUME One(q, M), Head(q) \notin M PROVE One(t, M)
  <2>1. PICK i \in 1 .. n : q[i] \in M /\ \A j \in 1 .. n : q[j] \in M => j = i
    BY <1>13 DEF One, n
  <2>2. i - 1 \in 1 .. n - 1 /\ t[i - 1] \in M
    BY <2>1, <1>1, <1>2, <1>13
  <2>3. ASSUME NEW j \in 1 .. n - 1, t[j] \in M PROVE j = i - 1
    <3>1. j + 1 \in 1 .. n /\ q[j + 1] \in M
      BY <2>3, <1>3
    <3>2. j + 1 = i
      BY <3>1, <2>1
    <3>3. QED
      BY <3>2, <1>1
  <2>4. QED
    BY <2>2, <2>3, <1>1 DEF One
<1>14. QED
  BY <1>5, <1>6, <1>7, <1>8, <1>9, <1>10, <1>11, <1>12, <1>13 DEF t

-----------------------------------------------------------------------------
(* Messages sent.                                                          *)

LEMMA SentLast ==
    ASSUME NEW T, NEW p \in Seq(T), NEW q \in Seq(T), NEW M, NEW G
    PROVE  /\ Some(p \o q, M) <=> Some(p, M) \/ Some(q, M)
           /\ All(p, M, G) /\ All(q, M, G) => All(p \o q, M, G)
           /\ Some(q, M) /\ LastIn(q, M, G) => LastIn(p \o q, M, G)
           /\ LastIn(p, M, G) /\ ~Some(q, M) => LastIn(p \o q, M, G)
           /\ One(p, M) /\ ~Some(q, M) => One(p \o q, M)
           /\ ~Some(p, M) /\ One(q, M) => One(p \o q, M)
<1> DEFINE r == p \o q  n == Len(p)  k == Len(q)
<1>1. /\ n \in Nat /\ k \in Nat /\ Len(r) = n + k
      /\ \A i \in 1 .. n : i \in 1 .. n + k /\ r[i] = p[i]
      /\ \A i \in 1 .. k : n + i \in 1 .. n + k /\ r[n + i] = q[i]
      /\ \A i \in 1 .. n + k : i \in 1 .. n \/ (i - n \in 1 .. k /\ r[i] = q[i - n] /\ i > n)
  <2>1. Len(p) \in Nat /\ Len(q) \in Nat
    OBVIOUS
  <2>2. QED
    BY <2>1, Joined
<1> HIDE DEF r, n, k
<1>2. Some(r, M) <=> Some(p, M) \/ Some(q, M)
  <2>1. Some(r, M) => Some(p, M) \/ Some(q, M)
    BY <1>1 DEF Some, n, k
  <2>2. Some(p, M) => Some(r, M)
    BY <1>1 DEF Some, n, k
  <2>3. ASSUME NEW i \in 1 .. k, q[i] \in M PROVE Some(r, M)
    <3>1. n + i \in 1 .. Len(r) /\ r[n + i] \in M
      BY <1>1, <2>3
    <3>2. QED
      BY <3>1 DEF Some
  <2>4. QED
    BY <2>1, <2>2, <2>3 DEF Some, k
<1>3. ASSUME All(p, M, G), All(q, M, G) PROVE All(r, M, G)
  BY <1>1, <1>3 DEF All, n, k
<1>4. ASSUME Some(q, M), LastIn(q, M, G) PROVE LastIn(r, M, G)
  <2> SUFFICES ASSUME NEW i \in 1 .. n + k, r[i] \in M,
                      \A j \in 1 .. n + k : i < j => r[j] \notin M
               PROVE  r[i] \in G
    BY <1>1 DEF LastIn
  <2>1. PICK j \in 1 .. k : q[j] \in M
    BY <1>4 DEF Some, k
  <2>2. n + j \in 1 .. n + k /\ r[n + j] \in M /\ n < n + j
    BY <2>1, <1>1
  <2>3. ~(i < n + j)
    BY <2>2
  <2>4. i \notin 1 .. n
    BY <2>2, <2>3, <1>1
  <2>5. i - n \in 1 .. k /\ r[i] = q[i - n]
    BY <2>4, <1>1
  <2>6. ASSUME NEW h \in 1 .. k, i - n < h PROVE q[h] \notin M
    <3>1. n + h \in 1 .. n + k /\ r[n + h] = q[h] /\ i < n + h
      BY <2>6, <1>1
    <3>2. QED
      BY <3>1
  <2>7. QED
    BY <2>5, <2>6, <1>4 DEF LastIn, k
<1>5. ASSUME LastIn(p, M, G), ~Some(q, M) PROVE LastIn(r, M, G)
  <2> SUFFICES ASSUME NEW i \in 1 .. n + k, r[i] \in M,
                      \A j \in 1 .. n + k : i < j => r[j] \notin M
               PROVE  r[i] \in G
    BY <1>1 DEF LastIn
  <2>1. i \in 1 .. n
    BY <1>1, <1>5 DEF Some, k
  <2>2. \A j \in 1 .. n : i < j => p[j] \notin M
    BY <1>1
  <2>3. QED
    BY <2>1, <2>2, <1>1, <1>5 DEF LastIn, n
<1>6. ASSUME One(p, M), ~Some(q, M) PROVE One(r, M)
  <2>1. PICK i \in 1 .. n : p[i] \in M /\ \A j \in 1 .. n : p[j] \in M => j = i
    BY <1>6 DEF One, n
  <2>2. ASSUME NEW j \in 1 .. n + k, r[j] \in M PROVE j = i
    BY <2>1, <2>2, <1>1, <1>6 DEF Some, k
  <2>3. QED
    BY <2>1, <2>2, <1>1 DEF One
<1>7. ASSUME ~Some(p, M), One(q, M) PROVE One(r, M)
  <2>1. PICK i \in 1 .. k : q[i] \in M /\ \A j \in 1 .. k : q[j] \in M => j = i
    BY <1>7 DEF One, k
  <2>2. n + i \in 1 .. n + k /\ r[n + i] \in M
    BY <2>1, <1>1
  <2>3. ASSUME NEW j \in 1 .. n + k, r[j] \in M PROVE j = n + i
    <3>1. j - n \in 1 .. k /\ r[j] = q[j - n]
      BY <2>3, <1>1, <1>7 DEF Some, n
    <3>2. j - n = i
      BY <3>1, <2>1, <2>3
    <3>3. QED
      BY <3>2, <1>1
  <2>4. QED
    BY <2>2, <2>3, <1>1 DEF One
<1>8. QED
  BY <1>2, <1>3, <1>4, <1>5, <1>6, <1>7 DEF r

-----------------------------------------------------------------------------
(* Each element of a finite set is once in the sequence that SetToSeq      *)
(* chooses for the set.                                                    *)

OnceEach(f, S) ==
    /\ f \in Seq(S)
    /\ \A i, j \in 1 .. Len(f) : f[i] = f[j] => i = j
    /\ \A x \in S : \E i \in 1 .. Len(f) : f[i] = x

LEMMA Injective ==
    ASSUME NEW S, IsFiniteSet(S), NEW n, n = Cardinality(S), NEW f \in [1 .. n -> S],
           \A a, b \in 1 .. n : f[a] = f[b] => a = b
    PROVE  OnceEach(f, S)
<1>1. n \in Nat
  BY FS_CardinalityType
<1>2. f \in Seq(S)
  BY <1>1, SeqDef
<1>3. Len(f) \in Nat /\ DOMAIN f = 1 .. Len(f)
  BY <1>2, LenProperties
<1>4. 1 .. n = 1 .. Len(f)
  BY <1>3
<1>5. f \in Injection(1 .. n, S)
  BY DEF Injection, IsInjective
<1>6. IsFiniteSet(1 .. n) /\ Cardinality(1 .. n) = n
  BY <1>1, FS_Interval
<1>7. f \in Surjection(1 .. n, S)
  BY <1>5, <1>6, FS_Injection
<1>8. \A x \in S : \E i \in 1 .. n : f[i] = x
  BY <1>7 DEF Surjection
<1>9. QED
  BY <1>2, <1>4, <1>8 DEF OnceEach

LEMMA Listed ==
    ASSUME NEW S, IsFiniteSet(S)
    PROVE  OnceEach(CHOOSE f \in [1 .. Cardinality(S) -> S] :
                        \A a, b \in DOMAIN f : f[a] = f[b] => a = b, S)
<1> DEFINE n == Cardinality(S)
           P(f) == f \in [1 .. n -> S] /\ \A a, b \in DOMAIN f : f[a] = f[b] => a = b
<1>1. n \in Nat /\ ExistsBijection(1 .. n, S)
  BY FS_CardinalityType
<1>2. \E h : P(h)
  BY <1>1 DEF ExistsBijection, Bijection, Injection, IsInjective
<1>3. P(CHOOSE f : P(f))
  BY <1>2
<1>4. (CHOOSE f : P(f)) = CHOOSE f \in [1 .. n -> S] : \A a, b \in DOMAIN f : f[a] = f[b] => a = b
  OBVIOUS
<1> HIDE DEF n
<1>5. \A f : P(f) => OnceEach(f, S)
  BY Injective DEF n
<1>6. QED
  BY <1>3, <1>4, <1>5 DEF n

-----------------------------------------------------------------------------
(* The set.  The messages about a value are on their way to one end at     *)
(* most, and the last says what was told last.  An end they are on their   *)
(* way to has removed nothing without telling that they leave removed.     *)

SetMessages == [kind : {"add", "remove"}, value : Values]
About(v) == {m \in SetMessages : m.value = v}
Says(v, here) == {m \in About(v) : m.kind = "add" <=> here}

SetTypeOK ==
    /\ set \in [SetOf!Ends -> SUBSET Values]
    /\ \A s \in SetOf!Ends : IsFiniteSet(set[s])
    /\ channel \in [SetOf!Ends -> Seq(SetMessages)]
    /\ untold \in [SetOf!Ends -> SUBSET Values]

OneWay(v) == \E s \in SetOf!Ends : ~Some(channel[s], About(v))
Told(v) == \A s \in SetOf!Ends : LastIn(channel[s], About(v), Says(v, v \in told))
Settled(v) == \A s \in SetOf!Ends :
    IF Some(channel[s], About(v)) THEN v \notin untold[s]
    ELSE v \in set[s] <=> v \in told /\ v \notin untold[s]

SetInv == SetTypeOK /\ \A v \in Values \ careless : OneWay(v) /\ Told(v) /\ Settled(v)

LEMMA SetListed ==
    ASSUME NEW S, IsFiniteSet(S)
    PROVE  OnceEach(SetOf!SetToSeq(S), S)
<1>1. SetOf!Cardinality(S) = Cardinality(S)
  BY DEF SetOf!Cardinality, Cardinality
<1>2. QED
  BY <1>1, Listed DEF SetOf!SetToSeq, SetOf!IsInjective

\* The messages of a change: of a value there is one exactly if it is told.
LEMMA SetMessagesSent ==
    ASSUME NEW kind \in {"add", "remove"}, NEW values \in SUBSET Values, IsFiniteSet(values)
    PROVE  LET q == SetOf!SetToSeq({[kind |-> kind, value |-> v] : v \in values}) IN
           /\ q \in Seq(SetMessages)
           /\ \A v \in Values : Some(q, About(v)) <=> v \in values
           /\ \A v \in Values : LastIn(q, About(v), Says(v, kind = "add"))
<1> DEFINE m(v) == [kind |-> kind, value |-> v]
           S == {m(v) : v \in values}
           q == SetOf!SetToSeq(S)
<1>1. IsFiniteSet(S)
  <2> DEFINE f == [v \in values |-> m(v)]
  <2>1. f \in Surjection(values, S)
    BY DEF Surjection
  <2>2. QED
    BY <2>1, FS_Surjection
<1>2. OnceEach(q, S)
  BY <1>1, SetListed
<1>3. S \subseteq SetMessages
  BY DEF SetMessages
<1>4. q \in Seq(S)
  BY <1>2 DEF OnceEach
<1>5. \A i \in 1 .. Len(q) : q[i] \in S
  BY <1>4, ElementOfSeq
<1>6. \A v \in values : \E i \in 1 .. Len(q) : q[i] = m(v)
  BY <1>2 DEF OnceEach
<1>7. q \in Seq(SetMessages)
  BY <1>3, <1>4
<1> HIDE DEF q
<1>8. \A i \in 1 .. Len(q) : q[i] \in SetMessages /\ q[i].kind = kind /\ q[i].value \in values
  BY <1>3, <1>5
<1>9. ASSUME NEW v \in Values PROVE Some(q, About(v)) <=> v \in values
  <2>1. Some(q, About(v)) => v \in values
    BY <1>8 DEF Some, About
  <2>2. ASSUME v \in values PROVE Some(q, About(v))
    <3>1. PICK i \in 1 .. Len(q) : q[i] = m(v)
      BY <1>6, <2>2
    <3>2. q[i] \in About(v)
      BY <3>1, <1>8 DEF About
    <3>3. QED
      BY <3>2 DEF Some
  <2>3. QED
    BY <2>1, <2>2
<1>10. \A v \in Values : LastIn(q, About(v), Says(v, kind = "add"))
  BY <1>8 DEF LastIn, About, Says
<1>11. QED
  BY <1>7, <1>9, <1>10 DEF q

\* The values that are on their way to an end.
LEMMA ComingIsSome ==
    ASSUME NEW s \in SetOf!Ends, channel[s] \in Seq(SetMessages), NEW v \in Values
    PROVE  v \in SetOf!Coming(s) <=> Some(channel[s], About(v))
<1>1. \A i \in 1 .. Len(channel[s]) : channel[s][i] \in SetMessages
  OBVIOUS
<1>2. SetOf!ToSet(channel[s]) = {channel[s][i] : i \in 1 .. Len(channel[s])}
  BY DEF SetOf!ToSet
<1>3. v \in SetOf!Coming(s) <=> \E i \in 1 .. Len(channel[s]) : channel[s][i].value = v
  BY <1>2 DEF SetOf!Coming
<1>4. QED
  BY <1>1, <1>3 DEF Some, About

\* A change that is told of some values, and perhaps a removal that is not
\* told of others: quiet are those without a message to the end.
LEMMA SetSends ==
    ASSUME SetInv, NEW s \in SetOf!Ends, NEW kind \in {"add", "remove"},
           NEW values \in SUBSET Values, IsFiniteSet(values), NEW silent \in SUBSET Values,
           SetOf!send(s, kind, values), silent \cap values = {},
           untold' = [e \in SetOf!Ends |-> (untold[e] \ values) \cup
                         (IF e = s THEN silent \ SetOf!Coming(s) ELSE {})],
           set' \in [SetOf!Ends -> SUBSET Values], IsFiniteSet(set'[s]),
           set'[SetOf!Other(s)] = set[SetOf!Other(s)],
           \A v \in Values :
              v \in set'[s] <=> IF v \in values THEN kind = "add" ELSE v \in set[s] /\ v \notin silent
    PROVE  SetInv'
<1> DEFINE o == SetOf!Other(s)
           q == SetOf!SetToSeq({[kind |-> kind, value |-> v] : v \in values})
<1>1. o \in SetOf!Ends /\ o # s /\ SetOf!Other(o) = s /\ SetOf!Ends = {s, o}
  BY DEF SetOf!Ends, SetOf!Other
<1>2. SetTypeOK /\ channel[s] \in Seq(SetMessages) /\ channel[o] \in Seq(SetMessages)
  BY <1>1 DEF SetInv, SetTypeOK
<1>3. /\ q \in Seq(SetMessages)
      /\ \A v \in Values : Some(q, About(v)) <=> v \in values
      /\ \A v \in Values : LastIn(q, About(v), Says(v, kind = "add"))
  BY SetMessagesSent
<1>4. /\ channel' = [channel EXCEPT ![o] = @ \o q]
      /\ \A v \in Values : v \in told' <=> IF v \in values THEN kind = "add" ELSE v \in told
      /\ \A v \in values : v \in careless' <=> v \in SetOf!Coming(s)
      /\ \A v \in Values \ values : v \in careless' <=> v \in careless
  BY DEF SetOf!send, SetOf!Sent, q
<1> HIDE DEF q
<1>5. /\ channel' \in [SetOf!Ends -> Seq(SetMessages)]
      /\ channel'[s] = channel[s] /\ channel'[o] = channel[o] \o q
  <2>1. channel[o] \o q \in Seq(SetMessages)
    BY <1>2, <1>3
  <2>2. QED
    BY <2>1, <1>1, <1>2, <1>4 DEF SetTypeOK
<1>6. /\ untold' \in [SetOf!Ends -> SUBSET Values]
      /\ untold'[o] = untold[o] \ values
      /\ untold'[s] = (untold[s] \ values) \cup (silent \ SetOf!Coming(s))
  BY <1>1, <1>2 DEF SetTypeOK
<1>7. SetTypeOK'
  BY <1>1, <1>2, <1>5, <1>6 DEF SetTypeOK
<1>8. ASSUME NEW v \in Values \ careless' PROVE (OneWay(v) /\ Told(v) /\ Settled(v))'
  <2>1. v \in SetOf!Coming(s) <=> Some(channel[s], About(v))
    BY <1>2, ComingIsSome
  <2>2. Some(channel'[o], About(v)) <=> Some(channel[o], About(v)) \/ v \in values
    <3>1. Some(channel[o] \o q, About(v)) <=> Some(channel[o], About(v)) \/ Some(q, About(v))
      BY <1>2, <1>3, SentLast
    <3>2. QED
      BY <3>1, <1>3, <1>5
  <2>3. Some(channel'[s], About(v)) <=> Some(channel[s], About(v))
    BY <1>5
  <2>4. CASE v \in values
    <3>1. ~Some(channel[s], About(v))
      BY <2>1, <2>4, <1>4, <1>8
    <3>2. LastIn(channel'[o], About(v), Says(v, v \in told'))
      <4> DEFINE G == Says(v, kind = "add")
      <4>1. LastIn(q, About(v), G) /\ Some(q, About(v))
        BY <2>4, <1>3
      <4>2. Says(v, v \in told') = G
        BY <2>4, <1>4 DEF Says
      <4> HIDE DEF G
      <4>3. LastIn(channel[o] \o q, About(v), G)
        BY <4>1, <1>2, <1>3, SentLast
      <4>4. QED
        BY <4>2, <4>3, <1>5
    <3>3. LastIn(channel'[s], About(v), Says(v, v \in told'))
      BY <3>1, <2>3, NoneIsLast
    <3>4. v \notin untold'[o] /\ v \notin untold'[s]
      BY <2>4, <1>6
    <3>5. v \in set'[s] <=> v \in told'
      BY <2>4, <1>4
    <3>6. ~Some(channel'[s], About(v)) /\ Some(channel'[o], About(v))
      BY <3>1, <2>2, <2>3, <2>4
    <3>7. OneWay(v)' /\ Told(v)'
      BY <3>2, <3>3, <3>6, <1>1 DEF OneWay, Told
    <3>8. Settled(v)'
      BY <3>4, <3>5, <3>6, <1>1 DEF Settled
    <3>9. QED
      BY <3>7, <3>8
  <2>5. CASE v \notin values
    <3>1. OneWay(v) /\ Told(v) /\ Settled(v) /\ (v \in told' <=> v \in told)
      BY <2>5, <1>4, <1>8 DEF SetInv
    <3>2. Says(v, v \in told') = Says(v, v \in told)
      BY <3>1 DEF Says
    <3>3. LastIn(channel'[o], About(v), Says(v, v \in told'))
      <4> DEFINE G == Says(v, v \in told)
      <4>1. LastIn(channel[o], About(v), G) /\ ~Some(q, About(v))
        BY <2>5, <3>1, <1>1, <1>3 DEF Told
      <4> HIDE DEF G
      <4>2. LastIn(channel[o] \o q, About(v), G)
        BY <4>1, <1>2, <1>3, SentLast
      <4>3. QED
        BY <4>2, <3>2, <1>5 DEF G
    <3>4. LastIn(channel'[s], About(v), Says(v, v \in told'))
      BY <3>1, <3>2, <1>1, <1>5 DEF Told
    <3>5. Some(channel'[o], About(v)) <=> Some(channel[o], About(v))
      BY <2>2, <2>5
    <3>6. OneWay(v)' /\ Told(v)'
      BY <3>1, <3>3, <3>4, <3>5, <2>3, <1>1 DEF OneWay, Told
    <3>7. v \in untold'[o] <=> v \in untold[o]
      BY <2>5, <1>6
    <3>8. v \in untold'[s] <=> v \in untold[s] \/ (v \in silent /\ ~Some(channel[s], About(v)))
      BY <2>1, <2>5, <1>6
    <3>9. v \in set'[s] <=> v \in set[s] /\ v \notin silent
      BY <2>5
    <3>10. Settled(v)'
      BY <3>1, <3>5, <3>7, <3>8, <3>9, <2>3, <1>1 DEF Settled
    <3>11. QED
      BY <3>6, <3>10
  <2>6. QED
    BY <2>4, <2>5
<1>9. QED
  BY <1>7, <1>8 DEF SetInv

LEMMA SetChange ==
    ASSUME SetInv, NEW s \in SetOf!Ends, NEW kind \in {"add", "remove"}, NEW v \in Values,
           SetOf!Change(s, kind, v)
    PROVE  SetInv'
<1>1. SetOf!Other(s) \in SetOf!Ends /\ SetOf!Other(s) # s
  BY DEF SetOf!Ends, SetOf!Other
<1>2. SetTypeOK /\ set[s] \in SUBSET Values /\ IsFiniteSet(set[s])
  BY DEF SetInv, SetTypeOK
<1>3. IsFiniteSet({v})
  BY FS_Singleton
<1>4. set'[s] = IF kind = "add" THEN set[s] \cup {v} ELSE set[s] \ {v}
  BY <1>2 DEF SetOf!Change, SetTypeOK
<1>5. IsFiniteSet(set'[s])
  BY <1>2, <1>3, <1>4, FS_AddElement, FS_RemoveElement
<1>6. set' \in [SetOf!Ends -> SUBSET Values] /\ set'[SetOf!Other(s)] = set[SetOf!Other(s)]
  BY <1>1, <1>2 DEF SetOf!Change, SetTypeOK
<1>7. PICK values \in SUBSET Values, silent \in SUBSET Values : values = {v} /\ silent = {}
  OBVIOUS
<1>8. \A w \in Values :
         w \in set'[s] <=> IF w \in values THEN kind = "add" ELSE w \in set[s] /\ w \notin silent
  BY <1>4, <1>7
<1>9. SetOf!send(s, kind, values) /\ IsFiniteSet(values) /\ silent \cap values = {}
  BY <1>3, <1>7 DEF SetOf!Change
<1>10. untold' = [e \in SetOf!Ends |-> (untold[e] \ values) \cup
                     (IF e = s THEN silent \ SetOf!Coming(s) ELSE {})]
  <2>1. untold' = [e \in SetOf!Ends |-> untold[e] \ values]
    BY <1>7 DEF SetOf!Change
  <2>2. QED
    BY <2>1, <1>7
<1>11. QED
  BY <1>5, <1>6, <1>8, <1>9, <1>10, SetSends

LEMMA SetClear ==
    ASSUME SetInv, NEW s \in SetOf!Ends, SetOf!Clear(s)
    PROVE  SetInv'
<1>1. SetOf!Other(s) \in SetOf!Ends /\ SetOf!Other(s) # s
  BY DEF SetOf!Ends, SetOf!Other
<1>2. SetTypeOK /\ set[s] \in SUBSET Values /\ IsFiniteSet(set[s])
  BY DEF SetInv, SetTypeOK
<1>3. PICK heard \in SUBSET set[s] :
        /\ SetOf!send(s, "remove", heard)
        /\ untold' = [e \in SetOf!Ends |-> (untold[e] \ heard) \cup
                         (IF e = s THEN set[s] \ (heard \cup SetOf!Coming(s)) ELSE {})]
  BY DEF SetOf!Clear
<1>4. heard \in SUBSET Values /\ IsFiniteSet(heard)
  BY <1>2, FS_Subset
<1>5. set'[s] = {} /\ IsFiniteSet(set'[s])
  BY <1>2, FS_EmptySet DEF SetOf!Clear, SetTypeOK
<1>6. set' \in [SetOf!Ends -> SUBSET Values] /\ set'[SetOf!Other(s)] = set[SetOf!Other(s)]
  BY <1>1, <1>2 DEF SetOf!Clear, SetTypeOK
<1>7. PICK silent \in SUBSET Values : silent = set[s] \ heard
  BY <1>2
<1>8. \A v \in Values :
        v \in set'[s] <=> IF v \in heard THEN "remove" = "add" ELSE v \in set[s] /\ v \notin silent
  BY <1>5, <1>7
<1>9. untold' = [e \in SetOf!Ends |-> (untold[e] \ heard) \cup
                    (IF e = s THEN silent \ SetOf!Coming(s) ELSE {})]
  <2>1. set[s] \ (heard \cup SetOf!Coming(s)) = silent \ SetOf!Coming(s)
    BY <1>7
  <2>2. QED
    BY <1>3, <2>1
<1>10. silent \cap heard = {}
  BY <1>7
<1>11. QED
  BY <1>3, <1>4, <1>5, <1>6, <1>8, <1>9, <1>10, SetSends

LEMMA SetReceives ==
    ASSUME SetInv, NEW s \in SetOf!Ends, SetOf!on_wire_received(s)
    PROVE  SetInv'
<1> DEFINE o == SetOf!Other(s)
           q == channel[s]
           m == Head(q)
<1>1. o \in SetOf!Ends /\ o # s /\ SetOf!Other(o) = s /\ SetOf!Ends = {s, o}
  BY DEF SetOf!Ends, SetOf!Other
<1>2. SetTypeOK /\ q \in Seq(SetMessages) /\ q # <<>>
  BY DEF SetInv, SetTypeOK, SetOf!on_wire_received
<1>3. m \in SetMessages /\ Tail(q) \in Seq(SetMessages)
  BY <1>2, First
<1>4. /\ set'[s] = SetOf!applied(set[s], m) /\ set'[o] = set[o]
      /\ set' \in [SetOf!Ends -> SUBSET Values]
      /\ careless' = careless /\ told' = told /\ untold' = untold /\ untold' \in [SetOf!Ends -> SUBSET Values]
  BY <1>1, <1>2, <1>3 DEF SetOf!on_wire_received, SetOf!applied, SetTypeOK, SetMessages
<1>5. /\ channel'[s] = Tail(q) /\ channel'[o] = channel[o]
      /\ channel' \in [SetOf!Ends -> Seq(SetMessages)]
  BY <1>1, <1>2, <1>3 DEF SetOf!on_wire_received, SetOf!Taken, SetTypeOK
<1>6. IsFiniteSet(set[s]) /\ IsFiniteSet(set[o])
  BY <1>1, <1>2 DEF SetTypeOK
<1>7. IsFiniteSet(set'[s])
  <2>1. IsFiniteSet(set[s] \cup {m.value})
    BY <1>6, FS_AddElement
  <2>2. IsFiniteSet(set[s] \ {m.value})
    BY <1>6, FS_RemoveElement
  <2>3. QED
    BY <2>1, <2>2, <1>4 DEF SetOf!applied
<1>8. SetTypeOK'
  BY <1>1, <1>4, <1>5, <1>6, <1>7 DEF SetTypeOK
<1>9. ASSUME NEW v \in Values \ careless' PROVE (OneWay(v) /\ Told(v) /\ Settled(v))'
  <2> DEFINE G == Says(v, v \in told)
  <2>1. OneWay(v) /\ Told(v) /\ Settled(v) /\ Says(v, v \in told') = G
    BY <1>4, <1>9 DEF SetInv
  <2>2. LastIn(q, About(v), G) /\ LastIn(channel[o], About(v), G)
    BY <2>1, <1>1 DEF Told
  <2>3. \A w : w \in G => (w.kind = "add" <=> v \in told)
    BY DEF Says
  <2> HIDE DEF G
  <2>4. /\ Some(Tail(q), About(v)) => Some(q, About(v))
        /\ Some(q, About(v)) => Some(Tail(q), About(v)) \/ m \in About(v)
        /\ m \in About(v) => Some(q, About(v))
        /\ LastIn(Tail(q), About(v), G)
        /\ m \in About(v) /\ ~Some(Tail(q), About(v)) => m \in G
    BY <1>2, <2>2, TakenFirst
  <2>5. Told(v)'
    BY <2>1, <2>2, <2>4, <1>1, <1>5 DEF Told
  <2>6. OneWay(v)'
    BY <2>1, <2>4, <1>1, <1>5 DEF OneWay
  <2>7. CASE m \in About(v)
    <3>1. v \notin untold[s] /\ Some(q, About(v))
      BY <2>1, <2>4, <2>7 DEF Settled
    <3>2. v \in set'[s] <=> m.kind = "add"
      BY <2>7, <1>4 DEF About, SetMessages, SetOf!applied
    <3>3. ~Some(Tail(q), About(v)) => (v \in set'[s] <=> v \in told)
      BY <3>2, <2>3, <2>4, <2>7
    <3>4. QED
      BY <2>1, <2>5, <2>6, <3>1, <3>3, <1>1, <1>4, <1>5 DEF Settled
  <2>8. CASE m \notin About(v)
    <3>1. v \in set'[s] <=> v \in set[s]
      BY <2>8, <1>3, <1>4 DEF About, SetOf!applied
    <3>2. Some(Tail(q), About(v)) <=> Some(q, About(v))
      BY <2>4, <2>8
    <3>3. QED
      BY <2>1, <2>5, <2>6, <3>1, <3>2, <1>1, <1>4, <1>5 DEF Settled
  <2>9. QED
    BY <2>7, <2>8
<1>10. QED
  BY <1>8, <1>9 DEF SetInv

LEMMA SetInit == SetOf!Init => SetInv
<1> SUFFICES ASSUME SetOf!Init PROVE SetInv
  OBVIOUS
<1>1. /\ set = [s \in SetOf!Ends |-> {}] /\ channel = [s \in SetOf!Ends |-> <<>>]
      /\ told = {} /\ untold = [s \in SetOf!Ends |-> {}]
  BY DEF SetOf!Init
<1>2. <<>> \in Seq(SetMessages) /\ IsFiniteSet({})
  BY FS_EmptySet
<1>3. SetTypeOK
  BY <1>1, <1>2 DEF SetTypeOK
<1>4. \A M, G : ~Some(<<>>, M) /\ LastIn(<<>>, M, G)
  BY NoMessages
<1>5. \A v \in Values : OneWay(v) /\ Told(v) /\ Settled(v)
  BY <1>1, <1>4 DEF OneWay, Told, Settled, SetOf!Ends
<1>6. QED
  BY <1>3, <1>5 DEF SetInv

LEMMA SetSteps == SetInv /\ (SetOf!Next \/ UNCHANGED SetOf!vars) => SetInv'
<1>1. ASSUME SetInv, SetOf!Next PROVE SetInv'
  BY <1>1, SetChange, SetClear, SetReceives DEF SetOf!Next
<1>2. ASSUME SetInv, UNCHANGED SetOf!vars PROVE SetInv'
  BY <1>2 DEF SetOf!vars, SetInv, SetTypeOK, OneWay, Told, Settled
<1>3. QED
  BY <1>1, <1>2

LEMMA SetAgrees == SetInv => SetOf!SetConverges
<1> SUFFICES ASSUME SetInv, NEW s \in SetOf!Ends, NEW v \in Values \ (careless \cup SetOf!Coming(s))
             PROVE  v \in set[s] <=> v \in told /\ v \notin untold[s]
  BY DEF SetOf!SetConverges
<1>1. channel[s] \in Seq(SetMessages)
  BY DEF SetInv, SetTypeOK
<1>2. ~Some(channel[s], About(v))
  BY <1>1, ComingIsSome
<1>3. QED
  BY <1>2 DEF SetInv, Settled

-----------------------------------------------------------------------------
(* The map.  A key that is pending has one change on its way to the slave, *)
(* or one acknowledgement on its way back; the master changes the key in   *)
(* no other way meanwhile.  Unless its change is still to come to the      *)
(* slave, the last message to the master says what the slave holds.        *)

MapMessages == [op : {"put", "remove", "ack"}, version : Nat, key : Keys, value : Values \cup {NoValue}]
ToSlave == {m \in MapMessages : m.op # "ack" /\ m.version # 0}
ToMaster == {m \in MapMessages : m.op = "ack" <=> m.version # 0}

Of(k) == {m \in MapMessages : m.key = k}
AcksOf(k) == {m \in Of(k) : m.op = "ack"}
Versioned(n) == {m \in MapMessages : m.version = n}
Holding(v) == {m \in MapMessages : m.value = v}
Tells(a, b) == {m \in MapMessages : IF m.op = "ack" THEN a = b ELSE m.value = b}

Present(f) == {k \in Keys : f[k] # NoValue}

MapTypeOK ==
    /\ Map!TypeOK
    /\ dangling \subseteq careless
    /\ \A s \in Map!Ends : IsFiniteSet(Present(map[s]))
    /\ channel \in [Map!Ends -> Seq(MapMessages)]
    /\ channel["slave"] \in Seq(ToSlave) /\ channel["master"] \in Seq(ToMaster)

\* Of a key: the messages to the slave and to the master, the version that is
\* pending, and what the master and the slave hold.
ChangeComes(k, cs, cm, n, a) == Some(cs, Of(k)) =>
    /\ One(cs, Of(k)) /\ ~Some(cm, AcksOf(k)) /\ n # 0
    /\ All(cs, Of(k), Versioned(n)) /\ All(cs, Of(k), Holding(a))
AckComes(k, cm, n) == Some(cm, AcksOf(k)) =>
    One(cm, AcksOf(k)) /\ n # 0 /\ All(cm, AcksOf(k), Versioned(n))
OneComes(k, cs, cm, n) == n # 0 => Some(cs, Of(k)) \/ Some(cm, AcksOf(k))
LastTells(k, cs, cm, a, b) == ~Some(cs, Of(k)) => LastIn(cm, Of(k), Tells(a, b))
KeySettled(k, cs, cm, a, b) == ~Some(cs, Of(k)) /\ ~Some(cm, Of(k)) => a = b

KeyInv(k, cs, cm, n, a, b) ==
    /\ ChangeComes(k, cs, cm, n, a) /\ AckComes(k, cm, n) /\ OneComes(k, cs, cm, n)
    /\ LastTells(k, cs, cm, a, b) /\ KeySettled(k, cs, cm, a, b)

MapInv == MapTypeOK /\ \A k \in Keys \ careless :
    KeyInv(k, channel["slave"], channel["master"], pendingForAck[k], map["master"][k], map["slave"][k])

\* Messages of other keys change nothing.
LEMMA OtherKeySent ==
    ASSUME NEW k, NEW cs \in Seq(MapMessages), NEW cm \in Seq(MapMessages), NEW n, NEW a, NEW b,
           NEW q \in Seq(MapMessages), ~Some(q, Of(k)), KeyInv(k, cs, cm, n, a, b)
    PROVE  KeyInv(k, cs \o q, cm, n, a, b) /\ KeyInv(k, cs, cm \o q, n, a, b)
<1>1. ~Some(q, AcksOf(k))
  BY DEF Some, AcksOf
<1>2. \A M : ~Some(q, M) =>
        /\ \A p \in Seq(MapMessages) : Some(p \o q, M) <=> Some(p, M)
        /\ \A p \in Seq(MapMessages) : One(p, M) => One(p \o q, M)
        /\ \A p \in Seq(MapMessages) : \A G : All(p, M, G) => All(p \o q, M, G)
        /\ \A p \in Seq(MapMessages) : \A G : LastIn(p, M, G) => LastIn(p \o q, M, G)
  BY SentLast, NoneIsLast
<1>3. KeyInv(k, cs \o q, cm, n, a, b)
  BY <1>1, <1>2 DEF KeyInv, ChangeComes, AckComes, OneComes, LastTells, KeySettled
<1>4. KeyInv(k, cs, cm \o q, n, a, b)
  BY <1>1, <1>2 DEF KeyInv, ChangeComes, AckComes, OneComes, LastTells, KeySettled
<1>5. QED
  BY <1>3, <1>4

LEMMA OtherKeyTaken ==
    ASSUME NEW k, NEW cs \in Seq(MapMessages), NEW cm \in Seq(MapMessages), NEW n, NEW a, NEW b,
           KeyInv(k, cs, cm, n, a, b)
    PROVE  /\ cs # <<>> /\ Head(cs) \notin Of(k) => KeyInv(k, Tail(cs), cm, n, a, b)
           /\ cm # <<>> /\ Head(cm) \notin Of(k) => KeyInv(k, cs, Tail(cm), n, a, b)
<1>1. \A M : \A p \in Seq(MapMessages) : p # <<>> /\ Head(p) \notin M =>
        /\ Some(Tail(p), M) <=> Some(p, M)
        /\ One(p, M) => One(Tail(p), M)
        /\ \A G : All(p, M, G) => All(Tail(p), M, G)
        /\ \A G : LastIn(p, M, G) => LastIn(Tail(p), M, G)
  BY TakenFirst
<1>2. ASSUME cs # <<>>, Head(cs) \notin Of(k) PROVE KeyInv(k, Tail(cs), cm, n, a, b)
  BY <1>1, <1>2 DEF KeyInv, ChangeComes, AckComes, OneComes, LastTells, KeySettled
<1>3. ASSUME cm # <<>>, Head(cm) \notin Of(k) PROVE KeyInv(k, cs, Tail(cm), n, a, b)
  <2>1. Head(cm) \notin AcksOf(k)
    BY <1>3 DEF AcksOf
  <2>2. QED
    BY <1>1, <1>3, <2>1 DEF KeyInv, ChangeComes, AckComes, OneComes, LastTells, KeySettled
<1>4. QED
  BY <1>2, <1>3

\* The master changes a key that is not pending.
LEMMA MasterChanges ==
    ASSUME NEW k, NEW cs \in Seq(MapMessages), NEW cm \in Seq(MapMessages), NEW n, NEW a, NEW b,
           NEW q \in Seq(MapMessages), NEW h, NEW v, KeyInv(k, cs, cm, n, a, b), n = 0, h # 0,
           One(q, Of(k)), All(q, Of(k), Versioned(h)), All(q, Of(k), Holding(v))
    PROVE  KeyInv(k, cs \o q, cm, h, v, b)
<1>1. ~Some(cs, Of(k)) /\ ~Some(cm, AcksOf(k))
  BY DEF KeyInv, ChangeComes, AckComes
<1>2. \A G : All(cs, Of(k), G)
  BY <1>1, NoneIsLast
<1>3. Some(q, Of(k))
  BY OneIsSome
<1>4. Some(cs \o q, Of(k)) /\ One(cs \o q, Of(k))
  BY <1>1, <1>3, SentLast
<1>5. All(cs \o q, Of(k), Versioned(h)) /\ All(cs \o q, Of(k), Holding(v))
  BY <1>2, SentLast
<1>6. QED
  BY <1>1, <1>4, <1>5 DEF KeyInv, ChangeComes, AckComes, OneComes, LastTells, KeySettled

\* The slave changes a key.
LEMMA SlaveChanges ==
    ASSUME NEW k, NEW cs \in Seq(MapMessages), NEW cm \in Seq(MapMessages), NEW n, NEW a, NEW b,
           NEW q \in Seq(MapMessages), NEW v, KeyInv(k, cs, cm, n, a, b),
           Some(q, Of(k)), ~Some(q, AcksOf(k)), All(q, Of(k), Holding(v))
    PROVE  KeyInv(k, cs, cm \o q, n, a, v)
<1>1. /\ Some(cm \o q, AcksOf(k)) <=> Some(cm, AcksOf(k))
      /\ One(cm, AcksOf(k)) => One(cm \o q, AcksOf(k))
      /\ Some(cm \o q, Of(k))
  BY SentLast
<1>2. All(q, AcksOf(k), Versioned(n))
  BY NoneIsLast
<1>3. All(cm, AcksOf(k), Versioned(n)) => All(cm \o q, AcksOf(k), Versioned(n))
  BY <1>2, SentLast
<1>4. LastIn(q, Of(k), Tells(a, v))
  BY DEF LastIn, All, Some, Of, AcksOf, Holding, Tells
<1>5. LastIn(cm \o q, Of(k), Tells(a, v))
  BY <1>4, SentLast
<1>6. QED
  BY <1>1, <1>3, <1>5 DEF KeyInv, ChangeComes, AckComes, OneComes, LastTells, KeySettled

\* The master receives the acknowledgement of a key.
LEMMA MasterHearsAck ==
    ASSUME NEW k, NEW cs \in Seq(MapMessages), NEW cm \in Seq(MapMessages), NEW n, NEW a, NEW b,
           cm # <<>>, Head(cm) \in AcksOf(k), KeyInv(k, cs, cm, n, a, b)
    PROVE  n # 0 /\ Head(cm).version = n /\ KeyInv(k, cs, Tail(cm), 0, a, b)
<1>1. Some(cm, AcksOf(k)) /\ Some(cm, Of(k)) /\ Head(cm) \in Of(k)
  BY TakenFirst DEF AcksOf
<1>2. ~Some(cs, Of(k)) /\ n # 0 /\ One(cm, AcksOf(k)) /\ All(cm, AcksOf(k), Versioned(n))
  BY <1>1 DEF KeyInv, ChangeComes, AckComes
<1>3. ~Some(Tail(cm), AcksOf(k)) /\ Head(cm) \in Versioned(n)
  BY <1>2, TakenFirst
<1>4. LastIn(cm, Of(k), Tells(a, b))
  BY <1>2 DEF KeyInv, LastTells
<1>5. /\ LastIn(Tail(cm), Of(k), Tells(a, b))
      /\ ~Some(Tail(cm), Of(k)) => Head(cm) \in Tells(a, b)
  BY <1>1, <1>4, TakenFirst
<1>6. ~Some(Tail(cm), Of(k)) => a = b
  BY <1>5 DEF Tells, AcksOf
<1>7. QED
  BY <1>2, <1>3, <1>5, <1>6
  DEF KeyInv, ChangeComes, AckComes, OneComes, LastTells, KeySettled, Versioned

\* The master receives a change of a key, and rejects it when the key is pending.
LEMMA MasterHearsChange ==
    ASSUME NEW k, NEW cs \in Seq(MapMessages), NEW cm \in Seq(MapMessages), NEW n, NEW a, NEW b,
           cm # <<>>, Head(cm) \in Of(k), Head(cm) \notin AcksOf(k), KeyInv(k, cs, cm, n, a, b)
    PROVE  KeyInv(k, cs, Tail(cm), n, IF n = 0 THEN Head(cm).value ELSE a, b)
<1> DEFINE v == IF n = 0 THEN Head(cm).value ELSE a
<1>1. /\ Some(Tail(cm), AcksOf(k)) <=> Some(cm, AcksOf(k))
      /\ One(cm, AcksOf(k)) => One(Tail(cm), AcksOf(k))
      /\ All(cm, AcksOf(k), Versioned(n)) => All(Tail(cm), AcksOf(k), Versioned(n))
  BY TakenFirst
<1>2. n = 0 => ~Some(cs, Of(k)) /\ ~Some(cm, AcksOf(k))
  BY DEF KeyInv, ChangeComes, AckComes
<1>3. ~Some(cs, Of(k)) => LastIn(cm, Of(k), Tells(a, b))
  BY DEF KeyInv, LastTells
<1>4. LastIn(cm, Of(k), Tells(a, b)) =>
        /\ LastIn(Tail(cm), Of(k), Tells(a, b))
        /\ ~Some(Tail(cm), Of(k)) => Head(cm) \in Tells(a, b)
  BY TakenFirst
<1>5. Head(cm) \in Tells(a, b) => Head(cm).value = b
  BY DEF Tells, AcksOf
<1>6. CASE n = 0
  <2>1. ~Some(cs, Of(k)) /\ ~Some(Tail(cm), AcksOf(k)) /\ LastIn(Tail(cm), Of(k), Tells(a, b))
    BY <1>1, <1>2, <1>3, <1>4, <1>6
  <2>2. LastIn(Tail(cm), Of(k), Tells(v, b))
    BY <2>1 DEF LastIn, Some, Tells, Of, AcksOf
  <2>3. ~Some(Tail(cm), Of(k)) => v = b
    BY <1>2, <1>3, <1>4, <1>5, <1>6
  <2>4. QED
    BY <2>1, <2>2, <2>3, <1>6
    DEF KeyInv, ChangeComes, AckComes, OneComes, LastTells, KeySettled
<1>7. CASE n # 0
  <2>1. Some(cs, Of(k)) \/ Some(cm, AcksOf(k))
    BY <1>7 DEF KeyInv, OneComes
  <2>2. \A M : AcksOf(k) \subseteq M /\ Some(Tail(cm), AcksOf(k)) => Some(Tail(cm), M)
    BY DEF Some
  <2>3. Some(Tail(cm), AcksOf(k)) => Some(Tail(cm), Of(k))
    BY <2>2 DEF AcksOf
  <2>4. QED
    BY <2>1, <2>3, <1>1, <1>3, <1>4, <1>7
    DEF KeyInv, ChangeComes, AckComes, OneComes, LastTells, KeySettled
<1>8. QED
  BY <1>6, <1>7

\* The slave receives the change of a key, and acknowledges it.
LEMMA SlaveHears ==
    ASSUME NEW k, NEW cs \in Seq(MapMessages), NEW cm \in Seq(MapMessages), NEW n, NEW a, NEW b,
           NEW q \in Seq(MapMessages), cs # <<>>, Head(cs) \in Of(k), KeyInv(k, cs, cm, n, a, b),
           One(q, Of(k)), All(q, Of(k), AcksOf(k)), All(q, Of(k), Versioned(Head(cs).version))
    PROVE  KeyInv(k, Tail(cs), cm \o q, n, a, Head(cs).value)
<1>1. Some(cs, Of(k))
  BY TakenFirst
<1>2. /\ One(cs, Of(k)) /\ ~Some(cm, AcksOf(k)) /\ n # 0
      /\ All(cs, Of(k), Versioned(n)) /\ All(cs, Of(k), Holding(a))
  BY <1>1 DEF KeyInv, ChangeComes
<1>3. ~Some(Tail(cs), Of(k)) /\ Head(cs) \in Versioned(n) /\ Head(cs) \in Holding(a)
  BY <1>2, TakenFirst
<1>4. Head(cs).version = n /\ Head(cs).value = a
  BY <1>3 DEF Versioned, Holding
<1>5. One(q, AcksOf(k)) /\ All(q, AcksOf(k), Versioned(n)) /\ Some(q, Of(k))
  BY <1>4 DEF One, All, Some, AcksOf
<1>6. \A G : All(cm, AcksOf(k), G)
  BY <1>2, NoneIsLast
<1>7. Some(q, AcksOf(k))
  BY <1>5, OneIsSome
<1>8. One(cm \o q, AcksOf(k)) /\ Some(cm \o q, AcksOf(k)) /\ Some(cm \o q, Of(k))
  BY <1>2, <1>5, <1>7, SentLast
<1>9. All(cm \o q, AcksOf(k), Versioned(n))
  BY <1>5, <1>6, SentLast
<1>10. LastIn(q, Of(k), Tells(a, a))
  BY DEF LastIn, All, Tells, Of, AcksOf
<1>11. LastIn(cm \o q, Of(k), Tells(a, a))
  BY <1>5, <1>10, SentLast
<1>12. QED
  BY <1>2, <1>3, <1>4, <1>8, <1>9, <1>11
  DEF KeyInv, ChangeComes, AckComes, OneComes, LastTells, KeySettled

-----------------------------------------------------------------------------
(* The steps of the map.                                                   *)

LEMMA MapListed ==
    ASSUME NEW S, IsFiniteSet(S)
    PROVE  OnceEach(Map!SetToSeq(S), S)
<1>1. Map!Cardinality(S) = Cardinality(S)
  BY DEF Map!Cardinality, Cardinality
<1>2. QED
  BY <1>1, Listed DEF Map!SetToSeq, Map!IsInjective

LEMMA OneListed ==
    ASSUME NEW k
    PROVE  OnceEach(<<k>>, {k})
  BY DEF OnceEach

LEMMA TwoEnds ==
    /\ Map!Ends = {"master", "slave"}
    /\ Map!Other("master") = "slave" /\ Map!Other("slave") = "master"
  BY DEF Map!Ends, Map!Other

\* The messages of a change: one of each key, with what is held of it now.
MapSent(s, keys, f) == [i \in 1 .. Len(keys) |->
    Map!Message(Map!OpOf(f[keys[i]]),
        IF s = "master" THEN next_version + i ELSE Map!None, keys[i], f[keys[i]])]

LEMMA MapMessagesSent ==
    ASSUME NEW s \in Map!Ends, NEW S \in SUBSET Keys, NEW keys, OnceEach(keys, S),
           next_version \in Nat, NEW f \in [Keys -> Values \cup {NoValue}]
    PROVE  LET q == MapSent(s, keys, f)
           IN /\ q \in Seq(MapMessages)
              /\ q \in Seq(IF s = "master" THEN ToSlave ELSE ToMaster)
              /\ \A k \in Keys : ~Some(q, AcksOf(k)) /\ All(q, Of(k), Holding(f[k]))
              /\ \A k \in Keys \ S : ~Some(q, Of(k))
              /\ \A k \in S :
                    /\ Map!Position(keys, k) \in 1 .. Len(keys)
                    /\ One(q, Of(k))
                    /\ s = "master" => All(q, Of(k), Versioned(next_version + Map!Position(keys, k)))
<1> DEFINE n == Len(keys)
           m(i) == Map!Message(Map!OpOf(f[keys[i]]),
                       IF s = "master" THEN next_version + i ELSE Map!None, keys[i], f[keys[i]])
           q == [i \in 1 .. n |-> m(i)]
           T == IF s = "master" THEN ToSlave ELSE ToMaster
<1>1. /\ n \in Nat /\ \A i \in 1 .. n : keys[i] \in S /\ keys[i] \in Keys
      /\ \A i, j \in 1 .. n : keys[i] = keys[j] => i = j
      /\ \A k \in S : \E i \in 1 .. n : keys[i] = k
  <2>1. keys \in Seq(S)
    BY DEF OnceEach
  <2>2. n \in Nat /\ \A i \in 1 .. n : keys[i] \in S
    BY <2>1, LenProperties, ElementOfSeq
  <2>3. QED
    BY <2>2 DEF OnceEach
<1> HIDE DEF n
<1>2. ASSUME NEW i \in 1 .. n
      PROVE  /\ m(i) \in MapMessages /\ m(i) \in T /\ m(i).op # "ack" /\ m(i).key = keys[i]
             /\ m(i).value = f[keys[i]]
             /\ s = "master" => m(i).version = next_version + i
  <2>1. /\ f[keys[i]] \in Values \cup {NoValue} /\ Map!OpOf(f[keys[i]]) \in {"put", "remove"}
        /\ next_version + i \in Nat /\ next_version + i # 0 /\ keys[i] \in Keys
    BY <1>1 DEF Map!OpOf
  <2>2. QED
    BY <2>1 DEF Map!Message, Map!None, MapMessages, ToSlave, ToMaster
<1> HIDE DEF m
<1>3. q \in Seq(MapMessages) /\ q \in Seq(T)
  <2>1. q \in [1 .. n -> MapMessages] /\ q \in [1 .. n -> T]
    BY <1>2
  <2> HIDE DEF q, T
  <2>2. QED
    BY <2>1, <1>1, SeqDef
<1>4. Len(q) = n /\ \A i \in 1 .. n : q[i] = m(i)
  <2>1. DOMAIN q = 1 .. n /\ \A i \in 1 .. n : q[i] = m(i)
    OBVIOUS
  <2>2. DOMAIN q = 1 .. Len(q) /\ Len(q) \in Nat
    BY <1>3, LenProperties
  <2> HIDE DEF q
  <2>3. \A i \in Nat : i \in 1 .. n <=> i \in 1 .. Len(q)
    BY <2>1, <2>2
  <2>4. Len(q) = n
    <3>1. n \in 1 .. n <=> n \in 1 .. Len(q)
      BY <2>3, <1>1
    <3>2. Len(q) \in 1 .. n <=> Len(q) \in 1 .. Len(q)
      BY <2>3, <2>2
    <3>3. n \in Nat /\ Len(q) \in Nat
      BY <2>2, <1>1
    <3> HIDE DEF T
    <3>4. QED
      BY <3>1, <3>2, <3>3
  <2>5. QED
    BY <2>1, <2>4
<1> HIDE DEF q, T
<1>5. ASSUME NEW k \in Keys PROVE ~Some(q, AcksOf(k)) /\ All(q, Of(k), Holding(f[k]))
  <2>1. \A i \in 1 .. n : q[i] \notin AcksOf(k)
    BY <1>2, <1>4 DEF AcksOf
  <2>2. \A i \in 1 .. n : q[i] \in Of(k) => q[i] \in Holding(f[k])
    BY <1>2, <1>4 DEF Of, Holding
  <2>3. QED
    BY <2>1, <2>2, <1>4 DEF Some, All
<1>6. \A k \in Keys \ S : ~Some(q, Of(k))
  BY <1>1, <1>2, <1>4 DEF Some, Of
<1>7. ASSUME NEW k \in S
      PROVE  /\ Map!Position(keys, k) \in 1 .. n
             /\ One(q, Of(k))
             /\ s = "master" => All(q, Of(k), Versioned(next_version + Map!Position(keys, k)))
  <2> DEFINE p == Map!Position(keys, k)
  <2>1. p \in 1 .. n /\ keys[p] = k
    BY <1>1 DEF Map!Position, n
  <2> HIDE DEF p
  <2>2. \A i \in 1 .. n : q[i] \in Of(k) <=> i = p
    BY <2>1, <1>1, <1>2, <1>4 DEF Of
  <2>3. One(q, Of(k))
    BY <2>1, <2>2, <1>4 DEF One
  <2>4. ASSUME s = "master" PROVE All(q, Of(k), Versioned(next_version + p))
    <3>1. q[p] \in Versioned(next_version + p)
      BY <2>1, <2>4, <1>2, <1>4 DEF Versioned
    <3>2. QED
      BY <3>1, <2>2, <1>4 DEF All
  <2>5. QED
    BY <2>1, <2>3, <2>4 DEF p
<1>8. q = MapSent(s, keys, f)
  BY DEF MapSent, q, m, n
<1>9. QED
  BY <1>3, <1>5, <1>6, <1>7, <1>8 DEF n, T

\* What a change of any end leaves of the types.
MapChanged(s) ==
    /\ map' \in [Map!Ends -> [Keys -> Values \cup {NoValue}]]
    /\ IsFiniteSet(Present(map'[s]))
    /\ map'[Map!Other(s)] = map[Map!Other(s)]
    /\ careless \subseteq careless' /\ careless' \subseteq Keys
    /\ dangling' \subseteq careless'

LEMMA MasterSends ==
    ASSUME MapInv, NEW S \in SUBSET Keys, NEW keys, OnceEach(keys, S),
           Map!send("master", keys), MapChanged("master"),
           \A k \in Keys \ careless' :
              IF k \in S THEN ~Map!Pending(k) ELSE map'["master"][k] = map["master"][k]
    PROVE  MapInv'
<1> DEFINE q == MapSent("master", keys, map'["master"])
           cs == channel["slave"]
           cm == channel["master"]
<1>1. /\ MapTypeOK /\ next_version \in Nat /\ pendingForAck \in [Keys -> Nat]
      /\ cs \in Seq(MapMessages) /\ cm \in Seq(MapMessages)
      /\ cs \in Seq(ToSlave) /\ cm \in Seq(ToMaster)
  BY TwoEnds DEF MapInv, MapTypeOK, Map!TypeOK
<1>2. map'["master"] \in [Keys -> Values \cup {NoValue}]
  BY TwoEnds DEF MapChanged
<1>3. /\ q \in Seq(MapMessages) /\ q \in Seq(ToSlave)
      /\ \A k \in Keys : ~Some(q, AcksOf(k)) /\ All(q, Of(k), Holding(map'["master"][k]))
      /\ \A k \in Keys \ S : ~Some(q, Of(k))
      /\ \A k \in S :
            /\ Map!Position(keys, k) \in 1 .. Len(keys)
            /\ One(q, Of(k))
            /\ All(q, Of(k), Versioned(next_version + Map!Position(keys, k)))
  BY <1>1, <1>2, MapMessagesSent, TwoEnds
<1>4. channel' = [channel EXCEPT !["slave"] = @ \o q]
  BY TwoEnds DEF Map!send, Map!Sent, MapSent
<1> HIDE DEF q
<1>5. Map!ToSet(keys) = S /\ Len(keys) \in Nat
  <2>1. keys \in Seq(S)
    BY DEF OnceEach
  <2>2. Len(keys) \in Nat /\ DOMAIN keys = 1 .. Len(keys) /\ \A i \in 1 .. Len(keys) : keys[i] \in S
    BY <2>1, LenProperties, ElementOfSeq
  <2>3. QED
    BY <2>2 DEF Map!ToSet, OnceEach
<1>6. PICK found \in SUBSET S :
        /\ \A k \in S : (k \in found) \in Map!MayFind(k)
        /\ pendingForAck' = [k \in Keys |->
              IF k \in S \ found THEN next_version + Map!Position(keys, k) ELSE pendingForAck[k]]
        /\ next_version' = next_version + Len(keys)
  BY <1>5 DEF Map!send, Map!pend
<1>7. /\ channel'["slave"] = cs \o q /\ channel'["master"] = cm
      /\ channel' \in [Map!Ends -> Seq(MapMessages)]
      /\ channel'["slave"] \in Seq(ToSlave) /\ channel'["master"] \in Seq(ToMaster)
  <2>1. cs \o q \in Seq(MapMessages) /\ cs \o q \in Seq(ToSlave)
    BY <1>1, <1>3, Joined
  <2>2. QED
    BY <2>1, <1>1, <1>4, TwoEnds DEF MapTypeOK
<1>8. next_version' \in Nat /\ pendingForAck' \in [Keys -> Nat]
  <2>1. \A k \in S : next_version + Map!Position(keys, k) \in Nat
    BY <1>1, <1>3, <1>5
  <2>2. QED
    BY <2>1, <1>1, <1>5, <1>6
<1>9. MapTypeOK'
  <2>1. \A s \in Map!Ends : IsFiniteSet(Present(map'[s]))
    BY <1>1, TwoEnds DEF MapTypeOK, MapChanged
  <2>2. Map!TypeOK'
    BY <1>1, <1>7, <1>8, TwoEnds DEF MapTypeOK, Map!TypeOK, MapChanged
  <2>3. QED
    BY <2>1, <2>2, <1>1, <1>7, <1>8 DEF MapTypeOK, MapChanged
<1>10. ASSUME NEW k \in Keys \ careless'
       PROVE  KeyInv(k, cs \o q, cm, pendingForAck'[k], map'["master"][k], map'["slave"][k])
  <2>1. /\ KeyInv(k, cs, cm, pendingForAck[k], map["master"][k], map["slave"][k])
        /\ map'["slave"][k] = map["slave"][k] /\ k \notin dangling
    BY <1>1, <1>10, TwoEnds DEF MapInv, MapTypeOK, MapChanged
  <2>2. CASE k \in S
    <3> DEFINE h == next_version + Map!Position(keys, k)
    <3>1. pendingForAck[k] = 0 /\ k \notin dangling
      BY <2>2, <1>10 DEF Map!Pending, Map!None
    <3>2. k \notin found
      BY <3>1, <2>2, <1>6 DEF Map!MayFind, Map!None
    <3>3. pendingForAck'[k] = h /\ h # 0
      BY <3>2, <2>2, <1>1, <1>3, <1>5, <1>6
    <3>4. One(q, Of(k)) /\ All(q, Of(k), Versioned(h)) /\ All(q, Of(k), Holding(map'["master"][k]))
      BY <2>2, <1>3
    <3> HIDE DEF h
    <3>5. KeyInv(k, cs \o q, cm, h, map'["master"][k], map["slave"][k])
      BY <3>1, <3>3, <3>4, <2>1, <1>1, <1>3, MasterChanges
    <3>6. QED
      BY <3>3, <3>5, <2>1
  <2>3. CASE k \notin S
    <3>1. pendingForAck'[k] = pendingForAck[k] /\ map'["master"][k] = map["master"][k]
      BY <2>3, <1>6, <1>10
    <3>2. KeyInv(k, cs \o q, cm, pendingForAck[k], map["master"][k], map["slave"][k])
      BY <2>1, <2>3, <1>1, <1>3, OtherKeySent
    <3>3. QED
      BY <2>1, <3>1, <3>2
  <2>4. QED
    BY <2>2, <2>3
<1>11. QED
  BY <1>7, <1>9, <1>10 DEF MapInv

LEMMA SlaveSends ==
    ASSUME MapInv, NEW S \in SUBSET Keys, NEW keys, OnceEach(keys, S),
           Map!send("slave", keys), MapChanged("slave"),
           \A k \in Keys \ careless' : k \notin S => map'["slave"][k] = map["slave"][k]
    PROVE  MapInv'
<1> DEFINE q == MapSent("slave", keys, map'["slave"])
           cs == channel["slave"]
           cm == channel["master"]
<1>1. /\ MapTypeOK /\ next_version \in Nat /\ pendingForAck \in [Keys -> Nat]
      /\ cs \in Seq(MapMessages) /\ cm \in Seq(MapMessages)
      /\ cs \in Seq(ToSlave) /\ cm \in Seq(ToMaster)
  BY TwoEnds DEF MapInv, MapTypeOK, Map!TypeOK
<1>2. map'["slave"] \in [Keys -> Values \cup {NoValue}]
  BY TwoEnds DEF MapChanged
<1>3. /\ q \in Seq(MapMessages) /\ q \in Seq(ToMaster)
      /\ \A k \in Keys : ~Some(q, AcksOf(k)) /\ All(q, Of(k), Holding(map'["slave"][k]))
      /\ \A k \in Keys \ S : ~Some(q, Of(k))
      /\ \A k \in S : One(q, Of(k))
  BY <1>1, <1>2, MapMessagesSent, TwoEnds
<1>4. channel' = [channel EXCEPT !["master"] = @ \o q]
  BY TwoEnds DEF Map!send, Map!Sent, MapSent
<1> HIDE DEF q
<1>5. next_version' = next_version /\ pendingForAck' = pendingForAck
  BY DEF Map!send, Map!pend
<1>6. /\ channel'["slave"] = cs /\ channel'["master"] = cm \o q
      /\ channel' \in [Map!Ends -> Seq(MapMessages)]
      /\ channel'["slave"] \in Seq(ToSlave) /\ channel'["master"] \in Seq(ToMaster)
  <2>1. cm \o q \in Seq(MapMessages) /\ cm \o q \in Seq(ToMaster)
    BY <1>1, <1>3, Joined
  <2>2. QED
    BY <2>1, <1>1, <1>4, TwoEnds DEF MapTypeOK
<1>7. MapTypeOK'
  <2>1. \A s \in Map!Ends : IsFiniteSet(Present(map'[s]))
    BY <1>1, TwoEnds DEF MapTypeOK, MapChanged
  <2>2. Map!TypeOK'
    BY <1>1, <1>5, <1>6, TwoEnds DEF MapTypeOK, Map!TypeOK, MapChanged
  <2>3. QED
    BY <2>1, <2>2, <1>1, <1>5, <1>6 DEF MapTypeOK, MapChanged
<1>8. ASSUME NEW k \in Keys \ careless'
      PROVE  KeyInv(k, cs, cm \o q, pendingForAck[k], map'["master"][k], map'["slave"][k])
  <2>1. /\ KeyInv(k, cs, cm, pendingForAck[k], map["master"][k], map["slave"][k])
        /\ map'["master"][k] = map["master"][k]
    BY <1>1, <1>8, TwoEnds DEF MapInv, MapTypeOK, MapChanged
  <2>2. CASE k \in S
    <3>1. Some(q, Of(k)) /\ ~Some(q, AcksOf(k)) /\ All(q, Of(k), Holding(map'["slave"][k]))
      BY <2>2, <1>3, OneIsSome
    <3>2. QED
      BY <2>1, <3>1, <1>1, <1>3, SlaveChanges
  <2>3. CASE k \notin S
    <3>1. map'["slave"][k] = map["slave"][k]
      BY <2>3, <1>8
    <3>2. KeyInv(k, cs, cm \o q, pendingForAck[k], map["master"][k], map["slave"][k])
      BY <2>1, <2>3, <1>1, <1>3, OtherKeySent
    <3>3. QED
      BY <2>1, <3>1, <3>2
  <2>4. QED
    BY <2>2, <2>3
<1>9. QED
  BY <1>5, <1>6, <1>7, <1>8 DEF MapInv

LEMMA MapSets ==
    ASSUME MapInv, NEW s \in Map!Ends, NEW k \in Keys, NEW v \in Values, Map!Set(s, k, v)
    PROVE  MapInv'
<1>1. MapTypeOK /\ Map!TypeOK
  BY DEF MapInv, MapTypeOK
<1>2. Map!Other(s) \in Map!Ends /\ Map!Other(s) # s
  BY TwoEnds
<1>3. /\ map' \in [Map!Ends -> [Keys -> Values \cup {NoValue}]]
      /\ map'[s] = [map[s] EXCEPT ![k] = v] /\ map'[Map!Other(s)] = map[Map!Other(s)]
  BY <1>1, <1>2 DEF Map!Set, Map!TypeOK
<1>4. IsFiniteSet(Present(map'[s]))
  <2>1. IsFiniteSet(Present(map[s]) \cup {k})
    BY <1>1, FS_AddElement DEF MapTypeOK
  <2>2. Present(map'[s]) \subseteq Present(map[s]) \cup {k}
    BY <1>1, <1>3 DEF Present, Map!TypeOK
  <2>3. QED
    BY <2>1, <2>2, FS_Subset
<1>5. MapChanged(s)
  BY <1>1, <1>2, <1>3, <1>4 DEF MapChanged, Map!Set, MapTypeOK, Map!TypeOK
<1>6. OnceEach(<<k>>, {k}) /\ {k} \in SUBSET Keys /\ Map!send(s, <<k>>)
  BY OneListed DEF Map!Set
<1>7. \A j \in Keys \ {k} : map'[s][j] = map[s][j]
  BY <1>1, <1>3 DEF Map!TypeOK
<1>8. CASE s = "master"
  <2>1. \A j \in Keys \ careless' :
          IF j \in {k} THEN ~Map!Pending(j) ELSE map'["master"][j] = map["master"][j]
    BY <1>7, <1>8 DEF Map!Set
  <2>2. QED
    BY <2>1, <1>5, <1>6, <1>8, MasterSends
<1>9. CASE s = "slave"
  <2>1. \A j \in Keys \ careless' : j \notin {k} => map'["slave"][j] = map["slave"][j]
    BY <1>7, <1>9
  <2>2. QED
    BY <2>1, <1>5, <1>6, <1>9, SlaveSends
<1>10. QED
  BY <1>8, <1>9, TwoEnds

LEMMA MapRemoves ==
    ASSUME MapInv, NEW s \in Map!Ends, NEW k \in Keys, Map!RemoveKey(s, k)
    PROVE  MapInv'
<1>1. MapTypeOK /\ Map!TypeOK
  BY DEF MapInv, MapTypeOK
<1>2. Map!Other(s) \in Map!Ends /\ Map!Other(s) # s
  BY TwoEnds
<1>3. /\ map' \in [Map!Ends -> [Keys -> Values \cup {NoValue}]]
      /\ map'[s] = [map[s] EXCEPT ![k] = NoValue] /\ map'[Map!Other(s)] = map[Map!Other(s)]
  BY <1>1, <1>2 DEF Map!RemoveKey, Map!TypeOK
<1>4. IsFiniteSet(Present(map'[s]))
  <2>1. IsFiniteSet(Present(map[s]))
    BY <1>1 DEF MapTypeOK
  <2>2. Present(map'[s]) \subseteq Present(map[s])
    BY <1>1, <1>3 DEF Present, Map!TypeOK
  <2>3. QED
    BY <2>1, <2>2, FS_Subset
<1>5. MapChanged(s)
  BY <1>1, <1>2, <1>3, <1>4 DEF MapChanged, Map!RemoveKey, Map!removes, MapTypeOK, Map!TypeOK
<1>6. OnceEach(<<k>>, {k}) /\ {k} \in SUBSET Keys /\ Map!send(s, <<k>>)
  BY OneListed DEF Map!RemoveKey
<1>7. \A j \in Keys \ {k} : map'[s][j] = map[s][j]
  BY <1>1, <1>3 DEF Map!TypeOK
<1>8. CASE s = "master"
  <2>1. \A j \in Keys \ careless' :
          IF j \in {k} THEN ~Map!Pending(j) ELSE map'["master"][j] = map["master"][j]
    BY <1>7, <1>8 DEF Map!RemoveKey
  <2>2. QED
    BY <2>1, <1>5, <1>6, <1>8, MasterSends
<1>9. CASE s = "slave"
  <2>1. \A j \in Keys \ careless' : j \notin {k} => map'["slave"][j] = map["slave"][j]
    BY <1>7, <1>9
  <2>2. QED
    BY <2>1, <1>5, <1>6, <1>9, SlaveSends
<1>10. QED
  BY <1>8, <1>9, TwoEnds

LEMMA MapClears ==
    ASSUME MapInv, NEW s \in Map!Ends, Map!Clear(s)
    PROVE  MapInv'
<1>1. MapTypeOK /\ Map!TypeOK
  BY DEF MapInv, MapTypeOK
<1>2. Map!Other(s) \in Map!Ends /\ Map!Other(s) # s
  BY TwoEnds
<1>3. /\ map' \in [Map!Ends -> [Keys -> Values \cup {NoValue}]]
      /\ map'[s] = [k \in Keys |-> NoValue] /\ map'[Map!Other(s)] = map[Map!Other(s)]
  BY <1>1, <1>2 DEF Map!Clear, Map!TypeOK
<1>4. PICK heard \in SUBSET Present(map[s]) :
        /\ Map!send(s, Map!SetToSeq(heard))
        /\ careless' = careless \cup
              (IF s = "master" THEN Present(map[s]) ELSE Present(map[s]) \ heard)
  BY DEF Map!Clear, Present
<1>5. /\ heard \in SUBSET Keys /\ IsFiniteSet(heard)
      /\ OnceEach(Map!SetToSeq(heard), heard)
  BY <1>1, FS_Subset, MapListed DEF MapTypeOK, Present
<1>6. IsFiniteSet(Present(map'[s]))
  <2>1. Present(map'[s]) = {}
    BY <1>3 DEF Present
  <2>2. QED
    BY <2>1, FS_EmptySet
<1>7. MapChanged(s)
  <2>1. careless \subseteq careless' /\ careless' \subseteq Keys
    BY <1>1, <1>4 DEF Map!TypeOK, Present
  <2>2. dangling' \subseteq careless'
    BY <1>1, <1>4 DEF Map!Clear, Map!removes, MapTypeOK, Present
  <2>3. QED
    BY <2>1, <2>2, <1>3, <1>6 DEF MapChanged
<1>8. \A k \in Keys : k \notin Present(map[s]) => map'[s][k] = map[s][k]
  BY <1>3 DEF Present
<1>9. CASE s = "master"
  <2>1. \A k \in Keys \ careless' :
          IF k \in heard THEN ~Map!Pending(k) ELSE map'["master"][k] = map["master"][k]
    BY <1>4, <1>8, <1>9
  <2>2. QED
    BY <2>1, <1>4, <1>5, <1>7, <1>9, MasterSends
<1>10. CASE s = "slave"
  <2>1. \A k \in Keys \ careless' : k \notin heard => map'["slave"][k] = map["slave"][k]
    BY <1>4, <1>8, <1>10, TwoEnds
  <2>2. QED
    BY <2>1, <1>4, <1>5, <1>7, <1>10, SlaveSends
<1>11. QED
  BY <1>9, <1>10, TwoEnds

LEMMA MapAcknowledges ==
    ASSUME MapInv, NEW s \in Map!Ends, Map!ReceiveAck(s)
    PROVE  MapInv'
<1> DEFINE cs == channel["slave"]
           cm == channel["master"]
           m == Head(cm)
<1>1. /\ MapTypeOK /\ Map!TypeOK
      /\ cs \in Seq(MapMessages) /\ cm \in Seq(MapMessages) /\ cm \in Seq(ToMaster)
  BY TwoEnds DEF MapInv, MapTypeOK
<1>2. cm # <<>> /\ m.op = "ack" /\ Map!Acknowledged(m.key, m.version)
  BY DEF Map!ReceiveAck
<1>3. m \in MapMessages /\ Tail(cm) \in Seq(MapMessages) /\ Tail(cm) \in Seq(ToMaster)
  BY <1>1, <1>2, First
<1>4. /\ channel'["slave"] = cs /\ channel'["master"] = Tail(cm)
      /\ channel' \in [Map!Ends -> Seq(MapMessages)]
  BY <1>1, <1>3, TwoEnds DEF Map!ReceiveAck, Map!Taken, MapTypeOK
<1>5. map' = map /\ next_version' = next_version /\ careless' = careless
  BY DEF Map!ReceiveAck
<1>6. PICK found \in Map!MayFind(m.key) :
        IF found /\ pendingForAck[m.key] = m.version
        THEN /\ pendingForAck' = [pendingForAck EXCEPT ![m.key] = 0]
             /\ dangling' = dangling \ {m.key}
        ELSE UNCHANGED <<pendingForAck, dangling>>
  BY <1>2 DEF Map!Acknowledged, Map!None
<1>7. m.key \in Keys
  BY <1>3 DEF MapMessages
<1>8. /\ pendingForAck' \in [Keys -> Nat] /\ dangling' \subseteq dangling
      /\ \A k \in Keys \ {m.key} : pendingForAck'[k] = pendingForAck[k]
  BY <1>1, <1>6, <1>7 DEF Map!TypeOK
<1>9. MapTypeOK'
  BY <1>1, <1>3, <1>4, <1>5, <1>8 DEF MapTypeOK, Map!TypeOK, Present
<1>10. ASSUME NEW k \in Keys \ careless
       PROVE  KeyInv(k, cs, Tail(cm), pendingForAck'[k], map["master"][k], map["slave"][k])
  <2>1. KeyInv(k, cs, cm, pendingForAck[k], map["master"][k], map["slave"][k]) /\ k \notin dangling
    BY <1>1 DEF MapInv, MapTypeOK
  <2>2. CASE m.key = k
    <3>1. m \in AcksOf(k)
      BY <2>2, <1>2, <1>3 DEF AcksOf, Of
    <3>2. /\ pendingForAck[k] # 0 /\ m.version = pendingForAck[k]
          /\ KeyInv(k, cs, Tail(cm), 0, map["master"][k], map["slave"][k])
      BY <3>1, <2>1, <1>1, <1>2, MasterHearsAck
    <3>3. found = TRUE
      BY <3>2, <2>1, <2>2, <1>6 DEF Map!MayFind, Map!None
    <3>4. pendingForAck'[k] = 0
      BY <3>2, <3>3, <2>2, <1>1, <1>6, <1>7 DEF Map!TypeOK
    <3>5. QED
      BY <3>2, <3>4
  <2>3. CASE m.key # k
    <3>1. m \notin Of(k)
      BY <2>3 DEF Of
    <3>2. QED
      BY <3>1, <2>1, <2>3, <1>1, <1>2, <1>8, OtherKeyTaken
  <2>4. QED
    BY <2>2, <2>3
<1>11. QED
  BY <1>4, <1>5, <1>9, <1>10 DEF MapInv

LEMMA SlaveReceives ==
    ASSUME MapInv, Map!ReceiveChange("slave")
    PROVE  MapInv'
<1> DEFINE cs == channel["slave"]
           cm == channel["master"]
           m == Head(cs)
           ack == Map!Message("ack", m.version, m.key, NoValue)
           q == <<ack>>
<1>1. /\ MapTypeOK /\ Map!TypeOK
      /\ cs \in Seq(MapMessages) /\ cm \in Seq(MapMessages)
      /\ cs \in Seq(ToSlave) /\ cm \in Seq(ToMaster)
  BY TwoEnds DEF MapInv, MapTypeOK
<1>2. cs # <<>>
  BY DEF Map!ReceiveChange
<1>3. /\ m \in ToSlave /\ m \in MapMessages
      /\ Tail(cs) \in Seq(MapMessages) /\ Tail(cs) \in Seq(ToSlave)
  BY <1>1, <1>2, First
<1>4. /\ m.key \in Keys /\ m.version \in Nat /\ m.version # 0
      /\ m.value \in Values \cup {NoValue}
  BY <1>3 DEF ToSlave, MapMessages
<1>5. ack \in ToMaster /\ ack \in MapMessages /\ q \in Seq(ToMaster) /\ q \in Seq(MapMessages)
  BY <1>4 DEF Map!Message, ToMaster, MapMessages
<1>6. cm \o q \in Seq(MapMessages) /\ cm \o q \in Seq(ToMaster)
  BY <1>1, <1>5, Joined
<1>7. Map!acks("slave", m) = q
  BY <1>4 DEF Map!acks, Map!None
<1>8. channel' = [[channel EXCEPT !["slave"] = Tail(cs)] EXCEPT !["master"] = @ \o q]
  BY <1>7, TwoEnds DEF Map!ReceiveChange, Map!Sent, Map!Taken
<1> HIDE DEF q
<1>9. /\ channel'["slave"] = Tail(cs) /\ channel'["master"] = cm \o q
      /\ channel' \in [Map!Ends -> Seq(MapMessages)]
  BY <1>1, <1>3, <1>6, <1>8, TwoEnds DEF MapTypeOK
<1>10. map' = [map EXCEPT !["slave"][m.key] = m.value]
  BY DEF Map!ReceiveChange, Map!accepts
<1>11. UNCHANGED <<next_version, pendingForAck, dangling, careless>>
  BY DEF Map!ReceiveChange
<1>12. /\ map' \in [Map!Ends -> [Keys -> Values \cup {NoValue}]]
       /\ map'["master"] = map["master"]
       /\ map'["slave"] = [map["slave"] EXCEPT ![m.key] = m.value]
  BY <1>1, <1>4, <1>10, TwoEnds DEF Map!TypeOK
<1>13. \A s \in Map!Ends : IsFiniteSet(Present(map'[s]))
  <2>1. IsFiniteSet(Present(map["slave"]) \cup {m.key}) /\ IsFiniteSet(Present(map["master"]))
    BY <1>1, FS_AddElement, TwoEnds DEF MapTypeOK
  <2>2. Present(map'["slave"]) \subseteq Present(map["slave"]) \cup {m.key}
    BY <1>1, <1>12, TwoEnds DEF Present, Map!TypeOK
  <2>3. QED
    BY <2>1, <2>2, <1>12, FS_Subset, TwoEnds
<1>14. MapTypeOK'
  BY <1>1, <1>3, <1>6, <1>9, <1>11, <1>12, <1>13 DEF MapTypeOK, Map!TypeOK
<1>15. ASSUME NEW k \in Keys \ careless
       PROVE  KeyInv(k, Tail(cs), cm \o q, pendingForAck[k], map["master"][k], map'["slave"][k])
  <2>1. KeyInv(k, cs, cm, pendingForAck[k], map["master"][k], map["slave"][k])
    BY DEF MapInv
  <2>2. CASE m.key = k
    <3>1. m \in Of(k) /\ map'["slave"][k] = m.value
      BY <2>2, <1>1, <1>3, <1>12, TwoEnds DEF Of, Map!TypeOK
    <3>2. /\ ack \in Of(k) /\ ack \in AcksOf(k) /\ ack \in Versioned(m.version)
          /\ Len(q) = 1 /\ q[1] = ack
      BY <2>2, <1>5 DEF Of, AcksOf, Versioned, Map!Message, q
    <3>3. One(q, Of(k)) /\ All(q, Of(k), AcksOf(k)) /\ All(q, Of(k), Versioned(m.version))
      BY <3>2 DEF One, All
    <3>4. KeyInv(k, Tail(cs), cm \o q, pendingForAck[k], map["master"][k], m.value)
      BY <2>1, <3>1, <3>3, <1>1, <1>2, <1>5, SlaveHears
    <3>5. QED
      BY <3>1, <3>4
  <2>3. CASE m.key # k
    <3>1. m \notin Of(k) /\ map'["slave"][k] = map["slave"][k]
      BY <2>3, <1>1, <1>12, TwoEnds DEF Of, Map!TypeOK
    <3>2. ~Some(q, Of(k))
      BY <2>3 DEF Some, Of, Map!Message, q
    <3>3. KeyInv(k, Tail(cs), cm, pendingForAck[k], map["master"][k], map["slave"][k])
      BY <2>1, <3>1, <1>1, <1>2, OtherKeyTaken
    <3>4. KeyInv(k, Tail(cs), cm \o q, pendingForAck[k], map["master"][k], map["slave"][k])
      BY <3>2, <3>3, <1>1, <1>3, <1>5, OtherKeySent
    <3>5. QED
      BY <3>1, <3>4
  <2>4. QED
    BY <2>2, <2>3
<1>16. QED
  BY <1>9, <1>11, <1>12, <1>14, <1>15 DEF MapInv

LEMMA MasterReceives ==
    ASSUME MapInv, Map!ReceiveChange("master")
    PROVE  MapInv'
<1> DEFINE cs == channel["slave"]
           cm == channel["master"]
           m == Head(cm)
<1>1. /\ MapTypeOK /\ Map!TypeOK
      /\ cs \in Seq(MapMessages) /\ cm \in Seq(MapMessages)
      /\ cs \in Seq(ToSlave) /\ cm \in Seq(ToMaster)
  BY TwoEnds DEF MapInv, MapTypeOK
<1>2. cm # <<>> /\ m.op # "ack"
  BY DEF Map!ReceiveChange
<1>3. /\ m \in ToMaster /\ m \in MapMessages
      /\ Tail(cm) \in Seq(MapMessages) /\ Tail(cm) \in Seq(ToMaster)
  BY <1>1, <1>2, First
<1>4. m.key \in Keys /\ m.version = 0 /\ m.value \in Values \cup {NoValue}
  BY <1>2, <1>3 DEF ToMaster, MapMessages
<1>5. Map!acks("master", m) = <<>>
  BY <1>4 DEF Map!acks, Map!None
<1>6. channel' = [[channel EXCEPT !["master"] = Tail(cm)] EXCEPT !["slave"] = @ \o <<>>]
  BY <1>5, TwoEnds DEF Map!ReceiveChange, Map!Sent, Map!Taken
<1>7. cs \o <<>> = cs
  BY <1>1
<1>8. /\ channel'["slave"] = cs /\ channel'["master"] = Tail(cm)
      /\ channel' \in [Map!Ends -> Seq(MapMessages)]
  BY <1>1, <1>3, <1>6, <1>7, TwoEnds DEF MapTypeOK
<1>9. PICK found \in Map!MayFind(m.key) :
        map' = IF found THEN map ELSE [map EXCEPT !["master"][m.key] = m.value]
  BY <1>4 DEF Map!ReceiveChange, Map!accepts, Map!None, Map!MayFind
<1>10. UNCHANGED <<next_version, pendingForAck, dangling, careless>>
  BY DEF Map!ReceiveChange
<1>11. /\ map' \in [Map!Ends -> [Keys -> Values \cup {NoValue}]]
       /\ map'["slave"] = map["slave"]
       /\ map'["master"] = IF found THEN map["master"] ELSE [map["master"] EXCEPT ![m.key] = m.value]
  BY <1>1, <1>4, <1>9, TwoEnds DEF Map!TypeOK
<1>12. \A s \in Map!Ends : IsFiniteSet(Present(map'[s]))
  <2>1. IsFiniteSet(Present(map["master"]) \cup {m.key}) /\ IsFiniteSet(Present(map["slave"]))
    BY <1>1, FS_AddElement, TwoEnds DEF MapTypeOK
  <2>2. Present(map'["master"]) \subseteq Present(map["master"]) \cup {m.key}
    BY <1>1, <1>11, TwoEnds DEF Present, Map!TypeOK
  <2>3. QED
    BY <2>1, <2>2, <1>11, FS_Subset, TwoEnds
<1>13. MapTypeOK'
  BY <1>1, <1>3, <1>8, <1>10, <1>11, <1>12 DEF MapTypeOK, Map!TypeOK
<1>14. ASSUME NEW k \in Keys \ careless
       PROVE  KeyInv(k, cs, Tail(cm), pendingForAck[k], map'["master"][k], map["slave"][k])
  <2>1. KeyInv(k, cs, cm, pendingForAck[k], map["master"][k], map["slave"][k]) /\ k \notin dangling
    BY <1>1 DEF MapInv, MapTypeOK
  <2>2. CASE m.key = k
    <3>1. m \in Of(k) /\ m \notin AcksOf(k)
      BY <2>2, <1>2, <1>3 DEF Of, AcksOf
    <3>2. found = (pendingForAck[k] # 0)
      BY <2>1, <2>2, <1>9 DEF Map!MayFind, Map!None
    <3>3. map'["master"][k] = IF pendingForAck[k] = 0 THEN m.value ELSE map["master"][k]
      BY <3>2, <2>2, <1>1, <1>11, TwoEnds DEF Map!TypeOK
    <3>4. QED
      BY <3>1, <3>3, <2>1, <1>1, <1>2, MasterHearsChange
  <2>3. CASE m.key # k
    <3>1. m \notin Of(k) /\ map'["master"][k] = map["master"][k]
      BY <2>3, <1>1, <1>11, TwoEnds DEF Of, Map!TypeOK
    <3>2. QED
      BY <3>1, <2>1, <1>1, <1>2, OtherKeyTaken
  <2>4. QED
    BY <2>2, <2>3
<1>15. QED
  BY <1>8, <1>10, <1>11, <1>13, <1>14 DEF MapInv

LEMMA MapInit == Map!Init => MapInv
<1> SUFFICES ASSUME Map!Init PROVE MapInv
  OBVIOUS
<1>1. /\ map = [s \in Map!Ends |-> [k \in Keys |-> NoValue]] /\ next_version = 0
      /\ pendingForAck = [k \in Keys |-> 0] /\ dangling = {}
      /\ channel = [s \in Map!Ends |-> <<>>] /\ careless = {}
  BY DEF Map!Init, Map!None
<1>2. /\ <<>> \in Seq(MapMessages) /\ <<>> \in Seq(ToSlave) /\ <<>> \in Seq(ToMaster)
      /\ IsFiniteSet({})
  BY FS_EmptySet
<1>3. \A s \in Map!Ends : Present(map[s]) = {}
  BY <1>1 DEF Present
<1>4. MapTypeOK
  BY <1>1, <1>2, <1>3, TwoEnds DEF MapTypeOK, Map!TypeOK
<1>5. \A M, G : ~Some(<<>>, M) /\ LastIn(<<>>, M, G)
  BY NoMessages
<1>6. \A k \in Keys : KeyInv(k, <<>>, <<>>, 0, NoValue, NoValue)
  BY <1>5 DEF KeyInv, ChangeComes, AckComes, OneComes, LastTells, KeySettled
<1>7. QED
  BY <1>1, <1>4, <1>6, TwoEnds DEF MapInv

LEMMA MapSteps == MapInv /\ (Map!Next \/ UNCHANGED Map!vars) => MapInv'
<1>1. ASSUME MapInv, Map!Next PROVE MapInv'
  <2>1. PICK s \in Map!Ends :
          \/ \E k \in Keys : Map!RemoveKey(s, k) \/ \E v \in Values : Map!Set(s, k, v)
          \/ Map!Clear(s) \/ Map!ReceiveAck(s) \/ Map!ReceiveChange(s)
    BY <1>1 DEF Map!Next
  <2>2. QED
    BY <2>1, <1>1, TwoEnds, MapSets, MapRemoves, MapClears, MapAcknowledges, SlaveReceives,
       MasterReceives
<1>2. ASSUME MapInv, UNCHANGED Map!vars PROVE MapInv'
  BY <1>2 DEF Map!vars, MapInv, MapTypeOK, Map!TypeOK, Present
<1>3. QED
  BY <1>1, <1>2

LEMMA MapAgrees == MapInv => Map!MapConverges
<1> SUFFICES ASSUME MapInv, Map!Quiet(channel), NEW k \in Keys \ careless
             PROVE  map["master"][k] = map["slave"][k]
  BY DEF Map!MapConverges
<1>1. ~Some(channel["slave"], Of(k)) /\ ~Some(channel["master"], Of(k))
  BY NoMessages, TwoEnds DEF Map!Quiet
<1>2. QED
  BY <1>1 DEF MapInv, KeyInv, KeySettled

\* A pending key has exactly one place among the messages.
LEMMA MapPending == MapInv => Map!PendingIsOnItsWay
<1> SUFFICES ASSUME MapInv, NEW k \in Keys \ careless
             PROVE  Map!Cardinality(Map!OnItsWay(k)) = IF pendingForAck[k] = 0 THEN 0 ELSE 1
  BY DEF Map!PendingIsOnItsWay, Map!None
<1> DEFINE cs == channel["slave"]
           cm == channel["master"]
           changes_of == {i \in 1 .. Len(cs) : cs[i].key = k /\ cs[i].version # 0}
           acks_of == {j \in 1 .. Len(cm) : cm[j].op = "ack" /\ cm[j].key = k}
<1>1. /\ cs \in Seq(MapMessages) /\ cs \in Seq(ToSlave) /\ cm \in Seq(MapMessages)
      /\ KeyInv(k, cs, cm, pendingForAck[k], map["master"][k], map["slave"][k])
  BY TwoEnds DEF MapInv, MapTypeOK
<1>2. Map!OnItsWay(k) = changes_of \cup {-i : i \in acks_of}
  BY DEF Map!OnItsWay, Map!None
<1>3. \A i \in 1 .. Len(cs) : cs[i] \in Of(k) <=> i \in changes_of
  <2>1. \A i \in 1 .. Len(cs) : cs[i] \in MapMessages /\ cs[i] \in ToSlave
    BY <1>1, ElementOfSeq
  <2>2. QED
    BY <2>1 DEF Of, ToSlave
<1>4. \A i \in 1 .. Len(cm) : cm[i] \in AcksOf(k) <=> i \in acks_of
  <2>1. \A i \in 1 .. Len(cm) : cm[i] \in MapMessages
    BY <1>1, ElementOfSeq
  <2>2. QED
    BY <2>1 DEF Of, AcksOf
<1>5. changes_of \subseteq 1 .. Len(cs) /\ acks_of \subseteq 1 .. Len(cm)
  OBVIOUS
<1> HIDE DEF changes_of, acks_of
<1>6. \A S : Map!Cardinality(S) = Cardinality(S)
  BY DEF Map!Cardinality, Cardinality
<1>7. CASE pendingForAck[k] = 0
  <2>1. ~Some(cs, Of(k)) /\ ~Some(cm, AcksOf(k))
    BY <1>1, <1>7 DEF KeyInv, ChangeComes, AckComes
  <2>2. changes_of = {} /\ acks_of = {}
    BY <2>1, <1>3, <1>4, <1>5 DEF Some
  <2>3. Map!OnItsWay(k) = {}
    BY <2>2, <1>2
  <2>4. QED
    BY <2>3, <1>6, <1>7, FS_EmptySet
<1>8. CASE pendingForAck[k] # 0 /\ Some(cs, Of(k))
  <2>1. One(cs, Of(k)) /\ ~Some(cm, AcksOf(k))
    BY <1>1, <1>8 DEF KeyInv, ChangeComes
  <2>2. PICK i \in 1 .. Len(cs) : changes_of = {i}
    BY <2>1, <1>3, <1>5 DEF One
  <2>3. acks_of = {}
    BY <2>1, <1>4, <1>5 DEF Some
  <2>4. Map!OnItsWay(k) = {i}
    BY <2>2, <2>3, <1>2
  <2>5. QED
    BY <2>4, <1>6, <1>8, FS_Singleton
<1>9. CASE pendingForAck[k] # 0 /\ ~Some(cs, Of(k))
  <2>1. Some(cm, AcksOf(k)) /\ One(cm, AcksOf(k))
    BY <1>1, <1>9 DEF KeyInv, AckComes, OneComes
  <2>2. PICK i \in 1 .. Len(cm) : acks_of = {i}
    BY <2>1, <1>4, <1>5 DEF One
  <2>3. changes_of = {}
    BY <1>3, <1>5, <1>9 DEF Some
  <2>4. Map!OnItsWay(k) = {-i}
    BY <2>2, <2>3, <1>2
  <2>5. QED
    BY <2>4, <1>6, <1>9, FS_Singleton
<1>10. QED
  BY <1>7, <1>8, <1>9

-----------------------------------------------------------------------------
(* A property.                                                             *)
(*                                                                         *)
(* The messages to the slave are the master's last changes, numbered up to *)
(* its version; so as long as one is on its way, whatever comes from the   *)
(* slave is older and is rejected.  When none is, the slave's last message *)
(* prevails if it was sent since, and otherwise the ends agree already.    *)

PropertyMessages == [version : Nat, value : Values]

\* To the slave: the changes it has not seen, by their numbers.
Behind ==
    /\ master_version["master"] = master_version["slave"] + Len(channel["slave"])
    /\ \A i \in 1 .. Len(channel["slave"]) : channel["slave"][i].version = master_version["slave"] + i

\* The last of them is what the master has.
LastIsMasters ==
    channel["slave"] # <<>> => channel["slave"][Len(channel["slave"])].value = value["master"]

\* To the master: the slave's version never decreases.
InOrder ==
    /\ \A i \in 1 .. Len(channel["master"]) : channel["master"][i].version =< master_version["slave"]
    /\ \A i, j \in 1 .. Len(channel["master"]) :
          i =< j => channel["master"][i].version =< channel["master"][j].version

\* The master will accept the last message of the slave.
WillAccept ==
    /\ channel["master"] # <<>>
    /\ channel["master"][Len(channel["master"])].version = master_version["master"]

\* When the slave has seen everything, its last message to be accepted holds
\* its value, or there is none and the ends agree.
Settling ==
    channel["slave"] = <<>> =>
        value["slave"] = IF WillAccept THEN channel["master"][Len(channel["master"])].value
                         ELSE value["master"]

PropertyInv == Property!TypeOK /\ Behind /\ LastIsMasters /\ InOrder /\ Settling

-----------------------------------------------------------------------------
(* Its messages.                                                           *)

LEMMA Appended ==
    ASSUME NEW S, NEW q \in Seq(S), NEW e \in S
    PROVE  /\ q \o <<e>> \in Seq(S)
           /\ Len(q \o <<e>>) = Len(q) + 1
           /\ \A i \in 1 .. Len(q) : (q \o <<e>>)[i] = q[i]
           /\ (q \o <<e>>)[Len(q) + 1] = e
           /\ q \o <<e>> # <<>>
<1>1. Len(q) \in Nat /\ <<e>> \in Seq(S) /\ Len(<<e>>) = 1
    OBVIOUS
<1>2. q \o <<e>> \in Seq(S) /\ Len(q \o <<e>>) = Len(q) + 1
    BY <1>1
<1>3. \A i \in 1 .. Len(q) : (q \o <<e>>)[i] = q[i]
    BY <1>1
<1>4. (q \o <<e>>)[Len(q) + 1] = e
    BY <1>1
<1>5. q \o <<e>> # <<>>
    BY <1>1, <1>2
<1> QED
    BY <1>2, <1>3, <1>4, <1>5

LEMMA FirstMessage ==
    ASSUME NEW S, NEW q \in Seq(S), q # <<>>
    PROVE  /\ Head(q) = q[1] /\ Head(q) \in S
           /\ Tail(q) \in Seq(S)
           /\ Len(q) \in Nat /\ Len(q) >= 1
           /\ Len(Tail(q)) = Len(q) - 1
           /\ \A i \in 1 .. Len(q) - 1 : Tail(q)[i] = q[i + 1]
           /\ (Tail(q) = <<>>) <=> (Len(q) = 1)
<1>1. Len(q) \in Nat /\ Len(q) >= 1
    OBVIOUS
<1>2. Head(q) = q[1] /\ Head(q) \in S
    BY <1>1
<1>3. Tail(q) \in Seq(S) /\ Len(Tail(q)) = Len(q) - 1
    BY <1>1
<1>4. \A i \in 1 .. Len(q) - 1 : Tail(q)[i] = q[i + 1]
    BY <1>1
<1>5. (Tail(q) = <<>>) <=> (Len(q) = 1)
    <2>1. Len(<<>>) = 0
        BY EmptySeq
    <2>2. Tail(q) # <<>> => Len(Tail(q)) # 0
        BY <1>3, EmptySeq
    <2>3. ASSUME Tail(q) = <<>> PROVE Len(q) = 1
        <3> DEFINE n == Len(q)  t == Len(Tail(q))
        <3>1. n \in Nat /\ t = n - 1 /\ t = 0
            BY <1>1, <1>3, <2>1, <2>3
        <3> HIDE DEF n, t
        <3>2. n = 1
            BY <3>1
        <3> QED
            BY <3>2 DEF n
    <2>4. ASSUME Len(q) = 1 PROVE Tail(q) = <<>>
        BY <1>3, <2>2, <2>4
    <2> QED
        BY <2>3, <2>4
<1> QED
    BY <1>1, <1>2, <1>3, <1>4, <1>5

-----------------------------------------------------------------------------
LEMMA PropertyInit == Property!Init => PropertyInv
<1> SUFFICES ASSUME Property!Init
             PROVE  PropertyInv
    OBVIOUS
<1>1. PICK v \in Values : value = [s \in Property!Ends |-> v]
    BY DEF Property!Init
<1>2. /\ value["master"] = v /\ value["slave"] = v
      /\ master_version["master"] = 0 /\ master_version["slave"] = 0
      /\ channel["master"] = <<>> /\ channel["slave"] = <<>>
    BY <1>1 DEF Property!Init, Property!Ends
<1>3. changes \in Nat
    BY DEF Property!Init
<1>4. channel \in [Property!Ends -> Seq(PropertyMessages)]
    <2>1. <<>> \in Seq(PropertyMessages)
        OBVIOUS
    <2> QED
        BY <2>1 DEF Property!Init
<1>5. Property!TypeOK
    BY <1>1, <1>3, <1>4 DEF Property!Init, Property!TypeOK, PropertyMessages
<1> QED
    BY <1>2, <1>5 DEF PropertyInv, Behind, LastIsMasters, InOrder, Settling, WillAccept

-----------------------------------------------------------------------------
(* A change of the master.                                                 *)

LEMMA MasterSetsProperty ==
    ASSUME PropertyInv, NEW v \in Values, Property!Set("master", v)
    PROVE  PropertyInv'
<1> DEFINE S == channel["slave"]
           n == Len(S)
           vm == master_version["master"]
           vs == master_version["slave"]
           e == Property!Message(vm + 1, v)
<1>1. /\ S \in Seq(PropertyMessages) /\ channel["master"] \in Seq(PropertyMessages) /\ n \in Nat
      /\ vm \in Nat /\ vs \in Nat /\ value["slave"] \in Values /\ e \in PropertyMessages
    BY DEF PropertyInv, Property!TypeOK, Property!Ends, PropertyMessages, Property!Message
<1>2. /\ value' = [value EXCEPT !["master"] = v]
      /\ master_version' = [master_version EXCEPT !["master"] = vm + 1]
      /\ channel' = [channel EXCEPT !["slave"] = S \o <<e>>]
      /\ changes' = changes + 1
    BY DEF Property!Set, Property!version_of_change, Property!Sent, Property!Other
<1>3. /\ value["master"]' = v /\ value["slave"]' = value["slave"]
      /\ master_version["master"]' = vm + 1 /\ master_version["slave"]' = vs
      /\ channel["slave"]' = S \o <<e>> /\ channel["master"]' = channel["master"]
    BY <1>2 DEF PropertyInv, Property!TypeOK, Property!Ends
<1>4. /\ S \o <<e>> \in Seq(PropertyMessages) /\ Len(S \o <<e>>) = n + 1
      /\ \A i \in 1 .. n : (S \o <<e>>)[i] = S[i]
      /\ (S \o <<e>>)[n + 1] = e
      /\ S \o <<e>> # <<>>
    BY <1>1, Appended
<1>5. e.version = vm + 1 /\ e.value = v
    BY DEF Property!Message
<1>6. Property!TypeOK'
    <2>1. value' \in [Property!Ends -> Values]
        BY <1>2 DEF PropertyInv, Property!TypeOK
    <2>2. master_version' \in [Property!Ends -> Nat]
        <3>1. vm + 1 \in Nat
            BY <1>1
        <3> QED
            BY <1>2, <3>1 DEF PropertyInv, Property!TypeOK
    <2>3. channel' \in [Property!Ends -> Seq(PropertyMessages)]
        BY <1>2, <1>4 DEF PropertyInv, Property!TypeOK, PropertyMessages
    <2>4. changes' \in Nat
        BY <1>2 DEF PropertyInv, Property!TypeOK
    <2> QED
        BY <2>1, <2>2, <2>3, <2>4 DEF Property!TypeOK, PropertyMessages
<1>7. Behind'
    <2>1. vm = vs + n /\ \A i \in 1 .. n : S[i].version = vs + i
        BY DEF PropertyInv, Behind
    <2>2. ASSUME NEW i \in 1 .. n + 1
          PROVE  (S \o <<e>>)[i].version = vs + i
        <3>1. CASE i \in 1 .. n
            BY <1>4, <2>1, <3>1
        <3>2. CASE i = n + 1
            <4>1. (S \o <<e>>)[i] = e
                BY <1>4, <3>2
            <4>2. vm + 1 = vs + i
                <5> HIDE DEF S, n, vm, vs
                <5> QED
                    BY <1>1, <2>1, <3>2
            <4> QED
                BY <1>5, <4>1, <4>2
        <3>3. i \in 1 .. n \/ i = n + 1
            <4> HIDE DEF n
            <4> QED
                BY <1>1, <2>2
        <3> QED
            BY <3>1, <3>2, <3>3
    <2>3. vm + 1 = vs + (n + 1)
        BY <1>1, <2>1
    <2> QED
        BY <1>3, <1>4, <2>2, <2>3 DEF Behind
<1>8. LastIsMasters'
    BY <1>3, <1>4, <1>5 DEF LastIsMasters
<1>9. InOrder'
    BY <1>3 DEF PropertyInv, InOrder
<1>10. Settling'
    BY <1>3, <1>4 DEF Settling
<1> QED
    BY <1>6, <1>7, <1>8, <1>9, <1>10 DEF PropertyInv

-----------------------------------------------------------------------------
(* A change of the slave.                                                  *)

LEMMA SlaveSetsProperty ==
    ASSUME PropertyInv, NEW v \in Values, Property!Set("slave", v)
    PROVE  PropertyInv'
<1> DEFINE M == channel["master"]
           n == Len(M)
           vm == master_version["master"]
           vs == master_version["slave"]
           e == Property!Message(vs, v)
           q == M \o <<e>>
<1>1. /\ M \in Seq(PropertyMessages) /\ channel["slave"] \in Seq(PropertyMessages) /\ n \in Nat
      /\ vm \in Nat /\ vs \in Nat /\ e \in PropertyMessages
    BY DEF PropertyInv, Property!TypeOK, Property!Ends, PropertyMessages, Property!Message
<1>2. /\ value' = [value EXCEPT !["slave"] = v]
      /\ master_version' = [master_version EXCEPT !["slave"] = vs]
      /\ channel' = [channel EXCEPT !["master"] = q]
      /\ changes' = changes + 1
    BY DEF Property!Set, Property!version_of_change, Property!Sent, Property!Other
<1>3. /\ value["slave"]' = v /\ value["master"]' = value["master"]
      /\ master_version' = master_version
      /\ channel["master"]' = q /\ channel["slave"]' = channel["slave"]
    BY <1>2 DEF PropertyInv, Property!TypeOK, Property!Ends
<1>4. /\ q \in Seq(PropertyMessages) /\ Len(q) = n + 1
      /\ \A i \in 1 .. n : q[i] = M[i]
      /\ q[n + 1] = e
      /\ q # <<>>
    BY <1>1, Appended
<1>5. e.version = vs /\ e.value = v
    BY DEF Property!Message
<1>6. Property!TypeOK'
    <2>1. value' \in [Property!Ends -> Values]
        BY <1>2 DEF PropertyInv, Property!TypeOK
    <2>2. master_version' \in [Property!Ends -> Nat]
        BY <1>3 DEF PropertyInv, Property!TypeOK
    <2>3. channel' \in [Property!Ends -> Seq(PropertyMessages)]
        BY <1>2, <1>4 DEF PropertyInv, Property!TypeOK, PropertyMessages
    <2>4. changes' \in Nat
        BY <1>2 DEF PropertyInv, Property!TypeOK
    <2> QED
        BY <2>1, <2>2, <2>3, <2>4 DEF Property!TypeOK, PropertyMessages
<1>7. Behind' /\ LastIsMasters'
    BY <1>3 DEF PropertyInv, Behind, LastIsMasters
<1>8. ASSUME NEW i \in 1 .. n + 1
      PROVE  i \in 1 .. n \/ i = n + 1
    <2> HIDE DEF n
    <2> QED
        BY <1>1, <1>8
<1>9. ASSUME NEW i \in 1 .. n
      PROVE  q[i].version \in Nat /\ q[i].version =< vs
    <2>1. M[i] \in PropertyMessages
        BY <1>1, <1>9
    <2>2. M[i].version \in Nat /\ M[i].version =< vs
        BY <1>9, <2>1 DEF PropertyInv, InOrder, PropertyMessages
    <2> QED
        BY <1>4, <1>9, <2>2
<1>10. InOrder'
    <2>1. \A i \in 1 .. n + 1 : q[i].version =< vs
        BY <1>1, <1>4, <1>5, <1>8, <1>9
    <2>2. ASSUME NEW i \in 1 .. n + 1, NEW j \in 1 .. n + 1, i =< j
          PROVE  q[i].version =< q[j].version
        <3>1. CASE j = n + 1
            BY <1>4, <1>5, <2>1, <3>1
        <3>2. CASE j \in 1 .. n
            <4>1. i \in 1 .. n
                <5> HIDE DEF n
                <5> QED
                    BY <1>1, <2>2, <3>2
            <4> QED
                BY <1>4, <2>2, <3>2, <4>1 DEF PropertyInv, InOrder
        <3> QED
            BY <1>8, <3>1, <3>2
    <2> QED
        BY <1>3, <1>4, <2>1, <2>2 DEF InOrder
<1>11. Settling'
    <2> SUFFICES ASSUME channel["slave"] = <<>>
                 PROVE  v = IF WillAccept' THEN e.value ELSE value["master"]
        BY <1>3, <1>4 DEF Settling
    <2>1. vs = vm
        BY <1>1, EmptySeq DEF PropertyInv, Behind
    <2>2. WillAccept'
        BY <1>3, <1>4, <1>5, <2>1 DEF WillAccept
    <2> QED
        BY <1>5, <2>2
<1> QED
    BY <1>6, <1>7, <1>10, <1>11 DEF PropertyInv

-----------------------------------------------------------------------------
(* A message to the slave.                                                 *)

LEMMA SlaveReceivesProperty ==
    ASSUME PropertyInv, Property!on_wire_received("slave")
    PROVE  PropertyInv'
<1> DEFINE S == channel["slave"]
           n == Len(S)
           vm == master_version["master"]
           vs == master_version["slave"]
           e == Head(S)
           q == Tail(S)
<1>1. /\ S \in Seq(PropertyMessages) /\ S # <<>> /\ channel["master"] \in Seq(PropertyMessages)
      /\ vm \in Nat /\ vs \in Nat /\ value["master"] \in Values
    BY DEF PropertyInv, Property!TypeOK, Property!Ends, PropertyMessages, Property!on_wire_received
<1>2. /\ e = S[1] /\ e \in PropertyMessages /\ q \in Seq(PropertyMessages)
      /\ n \in Nat /\ n >= 1 /\ Len(q) = n - 1
      /\ \A i \in 1 .. n - 1 : q[i] = S[i + 1]
      /\ (q = <<>>) <=> (n = 1)
    BY <1>1, FirstMessage
<1>3. e.version = vs + 1 /\ vm = vs + n
    <2>1. 1 \in 1 .. n
        <3> HIDE DEF n
        <3> QED
            BY <1>2
    <2> QED
        BY <1>2, <2>1 DEF PropertyInv, Behind
<1>4. /\ value' = [value EXCEPT !["slave"] = e.value]
      /\ master_version' = [master_version EXCEPT !["slave"] = e.version]
      /\ channel' = [channel EXCEPT !["slave"] = q]
      /\ changes' = changes
    BY DEF Property!on_wire_received, Property!rejected, Property!Taken
<1>5. /\ value["slave"]' = e.value /\ value["master"]' = value["master"]
      /\ master_version["slave"]' = vs + 1 /\ master_version["master"]' = vm
      /\ channel["slave"]' = q /\ channel["master"]' = channel["master"]
    BY <1>3, <1>4 DEF PropertyInv, Property!TypeOK, Property!Ends
<1>6. Property!TypeOK'
    <2>1. value' \in [Property!Ends -> Values]
        BY <1>2, <1>4 DEF PropertyInv, Property!TypeOK, PropertyMessages
    <2>2. master_version' \in [Property!Ends -> Nat]
        BY <1>2, <1>4 DEF PropertyInv, Property!TypeOK, PropertyMessages
    <2>3. channel' \in [Property!Ends -> Seq(PropertyMessages)]
        BY <1>2, <1>4 DEF PropertyInv, Property!TypeOK, PropertyMessages
    <2> QED
        BY <1>4, <2>1, <2>2, <2>3 DEF PropertyInv, Property!TypeOK, PropertyMessages
<1>7. Behind'
    <2>1. vm = (vs + 1) + (n - 1)
        <3> HIDE DEF n, vm, vs
        <3> QED
            BY <1>1, <1>2, <1>3
    <2>2. ASSUME NEW i \in 1 .. n - 1
          PROVE  q[i].version = (vs + 1) + i
        <3>1. i \in Nat /\ i + 1 \in 1 .. n
            <4> HIDE DEF n
            <4> QED
                BY <1>2, <2>2
        <3>2. S[i + 1].version = vs + (i + 1)
            BY <3>1 DEF PropertyInv, Behind
        <3>3. vs + (i + 1) = (vs + 1) + i
            <4> HIDE DEF vs
            <4> QED
                BY <1>1, <3>1
        <3> QED
            BY <1>2, <2>2, <3>2, <3>3
    <2> QED
        BY <1>2, <1>5, <2>1, <2>2 DEF Behind
<1>8. LastIsMasters'
    <2> SUFFICES ASSUME q # <<>>
                 PROVE  q[n - 1].value = value["master"]
        BY <1>2, <1>5 DEF LastIsMasters
    <2>1. n - 1 \in 1 .. n - 1 /\ (n - 1) + 1 = n
        <3>1. n # 1
            BY <1>2
        <3> HIDE DEF n
        <3> QED
            BY <1>2, <3>1
    <2>2. q[n - 1] = S[n]
        BY <1>2, <2>1
    <2> QED
        BY <1>1, <2>2 DEF PropertyInv, LastIsMasters
<1>9. InOrder'
    <2>1. ASSUME NEW i \in 1 .. Len(channel["master"])
          PROVE  channel["master"][i].version =< vs + 1
        <3>1. channel["master"][i] \in PropertyMessages
            BY <1>1, <2>1
        <3>2. channel["master"][i].version \in Nat /\ channel["master"][i].version =< vs
            BY <2>1, <3>1 DEF PropertyInv, InOrder, PropertyMessages
        <3> QED
            BY <1>1, <3>2
    <2> QED
        BY <1>5, <2>1 DEF PropertyInv, InOrder
<1>10. Settling'
    <2> SUFFICES ASSUME q = <<>>
                 PROVE  ~WillAccept' /\ e.value = value["master"]
        BY <1>5 DEF Settling
    <2>1. n = 1
        BY <1>2
    <2>2. e.value = value["master"]
        BY <1>1, <1>2, <2>1 DEF PropertyInv, LastIsMasters
    <2>3. ASSUME channel["master"] # <<>>
          PROVE  channel["master"][Len(channel["master"])].version # vm
        <3> DEFINE k == Len(channel["master"])  u == channel["master"][k].version
        <3>1. k \in 1 .. k /\ channel["master"][k] \in PropertyMessages
            BY <1>1, <2>3
        <3>2. u \in Nat /\ u =< vs
            BY <3>1 DEF PropertyInv, InOrder, PropertyMessages
        <3>3. vm = vs + 1
            BY <1>3, <2>1
        <3> HIDE DEF u, vs, vm
        <3>4. u # vm
            BY <1>1, <3>2, <3>3
        <3> QED
            BY <3>4 DEF u, vm
    <2> QED
        BY <1>5, <2>2, <2>3 DEF WillAccept
<1> QED
    BY <1>6, <1>7, <1>8, <1>9, <1>10 DEF PropertyInv

-----------------------------------------------------------------------------
(* A message to the master.                                                *)

LEMMA MasterReceivesProperty ==
    ASSUME PropertyInv, Property!on_wire_received("master")
    PROVE  PropertyInv'
<1> DEFINE M == channel["master"]
           n == Len(M)
           vm == master_version["master"]
           vs == master_version["slave"]
           e == Head(M)
           q == Tail(M)
<1>1. /\ M \in Seq(PropertyMessages) /\ M # <<>> /\ channel["slave"] \in Seq(PropertyMessages)
      /\ vm \in Nat /\ vs \in Nat /\ value["master"] \in Values
      /\ Len(channel["slave"]) \in Nat
    BY DEF PropertyInv, Property!TypeOK, Property!Ends, PropertyMessages, Property!on_wire_received
<1>2. /\ e = M[1] /\ e \in PropertyMessages /\ q \in Seq(PropertyMessages)
      /\ n \in Nat /\ n >= 1 /\ Len(q) = n - 1
      /\ \A i \in 1 .. n - 1 : q[i] = M[i + 1]
      /\ (q = <<>>) <=> (n = 1)
    BY <1>1, FirstMessage
<1>3. 1 \in 1 .. n /\ n \in 1 .. n /\ 1 =< n
    <2> HIDE DEF n
    <2> QED
        BY <1>2
<1>4. /\ e.version \in Nat /\ e.version =< vs
      /\ e.version =< M[n].version /\ M[n].version \in Nat /\ M[n].version =< vs
    <2>1. M[n] \in PropertyMessages
        BY <1>1, <1>3
    <2> QED
        BY <1>2, <1>3, <2>1 DEF PropertyInv, InOrder, PropertyMessages
<1>5. channel' = [channel EXCEPT !["master"] = q] /\ changes' = changes
    BY DEF Property!on_wire_received, Property!Taken
<1>6. channel["master"]' = q /\ channel["slave"]' = channel["slave"]
    BY <1>5 DEF PropertyInv, Property!TypeOK, Property!Ends
<1>7. channel' \in [Property!Ends -> Seq(PropertyMessages)]
    BY <1>2, <1>5 DEF PropertyInv, Property!TypeOK, PropertyMessages
<1>8. q # <<>> => q[Len(q)] = M[n]
    <2> SUFFICES ASSUME q # <<>> PROVE q[n - 1] = M[n]
        BY <1>2
    <2>1. n - 1 \in 1 .. n - 1 /\ (n - 1) + 1 = n
        <3>1. n # 1
            BY <1>2
        <3> HIDE DEF n
        <3> QED
            BY <1>2, <3>1
    <2> QED
        BY <1>2, <2>1
\* What is left is still in order.
<1>9. /\ \A i \in 1 .. n - 1 : q[i].version =< vs
      /\ \A i, j \in 1 .. n - 1 : i =< j => q[i].version =< q[j].version
    <2>1. ASSUME NEW i \in 1 .. n - 1
          PROVE  i \in Nat /\ i + 1 \in 1 .. n
        <3> HIDE DEF n
        <3> QED
            BY <1>2, <2>1
    <2>2. ASSUME NEW i \in 1 .. n - 1
          PROVE  q[i].version =< vs
        BY <1>2, <2>1 DEF PropertyInv, InOrder
    <2>3. ASSUME NEW i \in 1 .. n - 1, NEW j \in 1 .. n - 1, i =< j
          PROVE  q[i].version =< q[j].version
        <3>1. /\ i + 1 \in 1 .. n /\ j + 1 \in 1 .. n
              /\ i + 1 =< j + 1
            BY <2>1, <2>3
        <3>2. M[i + 1].version =< M[j + 1].version
            BY <3>1 DEF PropertyInv, InOrder
        <3> QED
            BY <1>2, <3>2
    <2> QED
        BY <2>2, <2>3
<1>10. CASE e.version < vm
    <2>1. value' = value /\ master_version' = master_version
        BY <1>10 DEF Property!on_wire_received, Property!rejected
    <2>2. Property!TypeOK'
        BY <1>5, <1>7, <2>1 DEF PropertyInv, Property!TypeOK, PropertyMessages
    <2>3. Behind' /\ LastIsMasters'
        BY <1>6, <2>1 DEF PropertyInv, Behind, LastIsMasters
    <2>4. InOrder'
        BY <1>2, <1>6, <1>9, <2>1 DEF InOrder
    <2>5. Settling'
        <3>1. CASE q = <<>>
            <4>1. n = 1 /\ M[n].version # vm
                BY <1>1, <1>2, <1>4, <1>10, <3>1
            <4>2. ~WillAccept /\ ~WillAccept'
                BY <1>6, <2>1, <3>1, <4>1 DEF WillAccept
            <4> QED
                BY <1>6, <2>1, <4>2 DEF PropertyInv, Settling
        <3>2. CASE q # <<>>
            <4>1. WillAccept' <=> WillAccept
                BY <1>1, <1>6, <1>8, <2>1, <3>2 DEF WillAccept
            <4> QED
                BY <1>6, <1>8, <2>1, <3>2, <4>1 DEF PropertyInv, Settling
        <3> QED
            BY <3>1, <3>2
    <2> QED
        BY <2>2, <2>3, <2>4, <2>5 DEF PropertyInv
\* It is accepted only when the slave has seen everything.
<1>11. CASE ~(e.version < vm)
    <2>1. /\ value' = [value EXCEPT !["master"] = e.value]
          /\ master_version' = [master_version EXCEPT !["master"] = e.version]
        BY <1>11 DEF Property!on_wire_received, Property!rejected
    <2>2. vm = vs + Len(channel["slave"])
        BY DEF PropertyInv, Behind
    <2>3. Len(channel["slave"]) = 0 /\ e.version = vm /\ vs = vm /\ M[n].version = vm
        <3> DEFINE k == Len(channel["slave"])  v == e.version  w == M[n].version
        <3>1. v \in Nat /\ v =< vs /\ k \in Nat /\ vm = vs + k /\ ~(v < vm) /\ w \in Nat /\ v =< w /\ w =< vs
            BY <1>1, <1>4, <1>11, <2>2
        <3> HIDE DEF k, v, vs, vm, w
        <3>2. k = 0 /\ v = vm /\ vs = vm /\ w = vm
            BY <1>1, <3>1
        <3> QED
            BY <3>2 DEF k, v, w
    <2>4. channel["slave"] = <<>>
        BY <1>1, <2>3, EmptySeq
    <2>5. /\ value["master"]' = e.value /\ value["slave"]' = value["slave"]
          /\ master_version["master"]' = vm /\ master_version["slave"]' = vs
        BY <2>1, <2>3 DEF PropertyInv, Property!TypeOK, Property!Ends
    <2>6. Property!TypeOK'
        <3>1. value' \in [Property!Ends -> Values]
            BY <1>2, <2>1 DEF PropertyInv, Property!TypeOK, PropertyMessages
        <3>2. master_version' \in [Property!Ends -> Nat]
            BY <1>4, <2>1 DEF PropertyInv, Property!TypeOK
        <3> QED
            BY <1>5, <1>7, <3>1, <3>2 DEF PropertyInv, Property!TypeOK, PropertyMessages
    <2>7. Behind'
        BY <1>6, <2>5 DEF PropertyInv, Behind
    <2>8. LastIsMasters'
        BY <1>6, <2>4 DEF LastIsMasters
    <2>9. InOrder'
        BY <1>2, <1>6, <1>9, <2>5 DEF InOrder
    <2>10. WillAccept /\ value["slave"] = M[n].value
        BY <1>1, <2>3, <2>4 DEF PropertyInv, Settling, WillAccept
    <2>11. Settling'
        <3>1. CASE q = <<>>
            <4>1. ~WillAccept' /\ e = M[n]
                BY <1>2, <1>6, <3>1 DEF WillAccept
            <4> QED
                BY <2>5, <2>10, <4>1 DEF Settling
        <3>2. CASE q # <<>>
            <4>1. WillAccept'
                BY <1>6, <1>8, <2>3, <2>5, <3>2 DEF WillAccept
            <4> QED
                BY <1>6, <1>8, <2>5, <2>10, <3>2, <4>1 DEF Settling
        <3> QED
            BY <3>1, <3>2
    <2> QED
        BY <2>6, <2>7, <2>8, <2>9, <2>11 DEF PropertyInv
<1> QED
    BY <1>10, <1>11

-----------------------------------------------------------------------------
LEMMA PropertySteps == PropertyInv /\ (Property!Next \/ UNCHANGED Property!vars) => PropertyInv'
<1> SUFFICES ASSUME PropertyInv, Property!Next \/ UNCHANGED Property!vars
             PROVE  PropertyInv'
    OBVIOUS
<1>1. CASE UNCHANGED Property!vars
    BY <1>1 DEF Property!vars, PropertyInv, Property!TypeOK, Behind, LastIsMasters, InOrder, Settling, WillAccept
<1>2. CASE Property!Next
    <2>1. PICK s \in Property!Ends : Property!on_wire_received(s) \/ \E v \in Values : Property!Set(s, v)
        BY <1>2 DEF Property!Next
    <2>2. s = "master" \/ s = "slave"
        BY DEF Property!Ends
    <2> QED
        BY <2>1, <2>2, MasterSetsProperty, SlaveSetsProperty, SlaveReceivesProperty, MasterReceivesProperty
<1> QED
    BY <1>1, <1>2

LEMMA PropertyInductive == Property!Spec => []PropertyInv
<1> QED
    BY PropertyInit, PropertySteps, PTL DEF Property!Spec

-----------------------------------------------------------------------------
\* Values are values, versions are natural numbers, and the channels hold
\* messages (RdPropertyBase).
THEOREM PropertyTypeCorrect == Property!Spec => []Property!TypeOK
<1>1. PropertyInv => Property!TypeOK
    BY DEF PropertyInv
<1> QED
    BY <1>1, PropertyInductive, PTL

LEMMA PropertyAgrees == PropertyInv => Property!PropertyConverges
<1> SUFFICES ASSUME PropertyInv, channel["master"] = <<>>, channel["slave"] = <<>>
             PROVE  value["master"] = value["slave"] /\ master_version["master"] = master_version["slave"]
    BY DEF Property!PropertyConverges, Property!Quiet, Property!Ends
<1>1. ~WillAccept
    BY DEF WillAccept
<1>2. value["master"] = value["slave"]
    BY <1>1 DEF PropertyInv, Settling
<1>3. master_version["master"] = master_version["slave"] + 0
    BY EmptySeq DEF PropertyInv, Behind
<1>4. master_version["slave"] \in Nat
    BY DEF PropertyInv, Property!TypeOK, Property!Ends
<1> QED
    BY <1>2, <1>3, <1>4

\* When nothing is on its way, the ends of a property have the same value and
\* the same version, whatever changes have crossed (RdPropertyBase: the
\* rejection in on_wire_received and the count in the handler of init).
THEOREM EndsAgree == Property!Spec => []Property!PropertyConverges
<1> QED
    BY PropertyAgrees, PropertyInductive, PTL

-----------------------------------------------------------------------------
(* A list.                                                                 *)
(*                                                                         *)
(* While the ends change it in turns, messages are on their way to one of  *)
(* them at most, numbered from the version it expects to the other's; and  *)
(* what it has becomes, message after message, what the other has.         *)

LEMMA Least ==
    ASSUME NEW S \in SUBSET Nat, S # {}
    PROVE  \E m \in S : \A n \in S : m =< n
<1>1. PICK m \in S : \A n \in S : ~(<<n, m>> \in OpToRel(<, Nat))
  BY NatLessThanWellFounded, WFMin
<1>2. ASSUME NEW n \in S PROVE m =< n
  <2>1. m \in Nat /\ n \in Nat
    OBVIOUS
  <2>2. n < m => <<n, m>> \in OpToRel(<, Nat)
    BY <2>1 DEF OpToRel
  <2>3. ~(n < m)
    BY <2>2, <1>1
  <2>4. QED
    BY <2>1, <2>3
<1>3. QED
  BY <1>2

\* Whatever its elements; and an event, wherever its index is.
IsSeq(l) == \E S : l \in Seq(S)
IsEvent(e) == e.op \in {"add", "update", "remove"} /\ e.index \in Int

LEMMA Between ==
    ASSUME NEW l, NEW m \in Int, NEW n \in Int
    PROVE  IsSeq(SubSeq(l, m, n))
<1> DEFINE S == {l[i] : i \in m .. n}
<1>1. SubSeq(l, m, n) \in Seq(S)
  BY SubSeqProperties
<1>2. QED
  BY <1>1 DEF IsSeq

LEMMA FunctionIsSeq ==
    ASSUME NEW T, NEW n \in Nat, NEW f \in [1 .. n -> T]
    PROVE  f \in Seq(T) /\ Len(f) = n
<1>1. f \in Seq(T)
  BY SeqDef
<1>2. 1 .. Len(f) = 1 .. n /\ Len(f) \in Nat
  BY <1>1, LenProperties
<1>3. QED
  BY <1>2

LEMMA JoinedSeq ==
    ASSUME NEW l, NEW r, IsSeq(l), IsSeq(r)
    PROVE  IsSeq(l \o r)
<1>1. PICK S : l \in Seq(S)
  BY DEF IsSeq
<1>2. PICK T : r \in Seq(T)
  BY DEF IsSeq
<1>3. PICK U : U = S \cup T
  OBVIOUS
<1>4. l \in Seq(U) /\ r \in Seq(U)
  <2>1. Len(l) \in Nat /\ l \in [1 .. Len(l) -> U] /\ Len(r) \in Nat /\ r \in [1 .. Len(r) -> U]
    BY <1>1, <1>2, <1>3, LenProperties
  <2>2. QED
    BY <2>1, FunctionIsSeq
<1>5. l \o r \in Seq(U)
  BY <1>4
<1>6. QED
  BY <1>5 DEF IsSeq

\* An event leaves a list, also one whose index is none of it.
LEMMA AppliedSeq ==
    ASSUME NEW l, IsSeq(l), NEW e, IsEvent(e)
    PROVE  IsSeq(List!Applied(l, e))
<1>1. PICK i, v : i = e.index /\ v = e.value /\ i \in Int /\ i - 1 \in Int /\ i + 1 \in Int
  BY DEF IsEvent
<1>2. Len(l) \in Nat
  BY DEF IsSeq
<1>3. CASE e.op = "add"
  <2>1. PICK p, q : p = SubSeq(l, 1, i - 1) /\ q = SubSeq(l, i, Len(l))
    OBVIOUS
  <2>2. IsSeq(p) /\ IsSeq(q)
    <3>1. IsSeq(SubSeq(l, 1, i - 1))
      BY <1>1, Between
    <3>2. IsSeq(SubSeq(l, i, Len(l)))
      BY <1>1, <1>2, Between
    <3>3. QED
      BY <2>1, <3>1, <3>2
  <2>3. IsSeq(<<v>>)
    <3>1. <<v>> \in Seq({v})
      OBVIOUS
    <3>2. QED
      BY <3>1 DEF IsSeq
  <2>4. IsSeq(p \o <<v>>)
    BY <2>2, <2>3, JoinedSeq
  <2>5. IsSeq(p \o <<v>> \o q)
    BY <2>2, <2>4, JoinedSeq
  <2>6. List!Applied(l, e) = p \o <<v>> \o q
    BY <1>1, <1>3, <2>1 DEF List!Applied, List!InsertAt
  <2>7. QED
    BY <2>5, <2>6
<1>4. CASE e.op = "update"
  <2>1. PICK S : l \in Seq(S)
    BY DEF IsSeq
  <2>2. PICK U : U = S \cup {v}
    OBVIOUS
  <2>3. PICK m : m = [l EXCEPT ![i] = v]
    OBVIOUS
  <2>4. m \in [1 .. Len(l) -> U]
    <3>1. l \in [1 .. Len(l) -> S]
      BY <2>1, LenProperties
    <3>2. QED
      BY <2>2, <2>3, <3>1
  <2>5. m \in Seq(U)
    BY <1>2, <2>4, FunctionIsSeq
  <2>6. List!Applied(l, e) = m
    BY <1>1, <1>4, <2>3 DEF List!Applied, List!ReplaceAt
  <2>7. QED
    BY <2>5, <2>6 DEF IsSeq
<1>5. CASE e.op = "remove"
  <2>1. PICK p, q : p = SubSeq(l, 1, i - 1) /\ q = SubSeq(l, i + 1, Len(l))
    OBVIOUS
  <2>2. IsSeq(p) /\ IsSeq(q)
    <3>1. IsSeq(SubSeq(l, 1, i - 1))
      BY <1>1, Between
    <3>2. IsSeq(SubSeq(l, i + 1, Len(l)))
      BY <1>1, <1>2, Between
    <3>3. QED
      BY <2>1, <3>1, <3>2
  <2>3. IsSeq(p \o q)
    BY <2>2, JoinedSeq
  <2>4. List!Applied(l, e) = p \o q
    BY <1>1, <1>5, <2>1 DEF List!Applied, List!RemoveAt
  <2>5. QED
    BY <2>3, <2>4
<1>6. QED
  BY <1>3, <1>4, <1>5 DEF IsEvent

\* Of a list with its events, and of the messages that carry them.
Events(q) == \E T : q \in Seq(T) /\ \A e \in T : IsEvent(e)
Messages(q) == \E T : q \in Seq(T) /\ \A m \in T : m.version \in Int /\ IsEvent(m.event)

\* A list l to which the messages q come is m in the end.
Replays(l, q, m) ==
    \E f : /\ f[0] = l /\ f[Len(q)] = m
           /\ \A k \in 1 .. Len(q) : f[k] = List!Applied(f[k - 1], q[k].event)

\* What AllApplied and Removals define by recursion exists: otherwise there
\* would be a least length for which it does not.
Step(f, l, q, k) == IF k = 0 THEN l ELSE List!Applied(f[k - 1], q[k])
Rec(f, l, q, n) == f = [k \in 0 .. n |-> Step(f, l, q, k)]

LEMMA RunExists ==
    ASSUME NEW l, NEW q, NEW N \in Nat
    PROVE  \E f : Rec(f, l, q, N)
<1> DEFINE Bad == {n \in Nat : n =< N /\ ~\E f : Rec(f, l, q, n)}
<1>1. ASSUME Bad # {} PROVE FALSE
  <2>1. PICK n \in Bad : \A j \in Bad : n =< j
    <3>1. Bad \in SUBSET Nat
      OBVIOUS
    <3> HIDE DEF Bad
    <3>2. QED
      BY <1>1, <3>1, Least
  <2>2. n \in Nat /\ n =< N /\ ~\E f : Rec(f, l, q, n)
    BY <2>1
  <2>3. CASE n = 0
    <3> DEFINE f == [k \in 0 .. 0 |-> l]
    <3>1. \A k \in 0 .. 0 : k = 0
      OBVIOUS
    <3>2. f = [k \in 0 .. 0 |-> Step(f, l, q, k)]
      BY <3>1 DEF Step
    <3>3. QED
      BY <2>2, <2>3, <3>2 DEF Rec
  <2>4. CASE n # 0
    <3> PICK m : m = n - 1
      OBVIOUS
    <3>1. m \in Nat /\ n = m + 1 /\ m =< N /\ ~(n =< m)
      BY <2>2, <2>4
    <3>2. m \notin Bad
      BY <2>1, <3>1
    <3>3. PICK g : Rec(g, l, q, m)
      BY <3>1, <3>2
    <3>4. PICK e : e = Step(g, l, q, n)
      OBVIOUS
    <3> DEFINE f == [k \in 0 .. n |-> IF k = n THEN e ELSE g[k]]
    <3>5. f[n] = e /\ \A k \in 0 .. m : f[k] = g[k] /\ k \in 0 .. n
      BY <3>1
    <3>6. \A k \in 0 .. m : g[k] = Step(g, l, q, k)
      BY <3>3 DEF Rec
    <3>7. DOMAIN f = 0 .. n /\ f = [k \in 0 .. n |-> f[k]]
      OBVIOUS
    <3> HIDE DEF f
    <3>8. ASSUME NEW k \in 0 .. n PROVE f[k] = Step(f, l, q, k)
      <4>1. k = 0 \/ (k # 0 /\ k - 1 \in 0 .. m)
        BY <3>1
      <4>2. k # 0 => f[k - 1] = g[k - 1]
        BY <3>5, <4>1
      <4>3. Step(f, l, q, k) = Step(g, l, q, k)
        BY <4>2 DEF Step
      <4>4. k = n \/ k \in 0 .. m
        BY <3>1
      <4>5. QED
        BY <3>4, <3>5, <3>6, <4>3, <4>4
    <3>9. f = [k \in 0 .. n |-> Step(f, l, q, k)]
      BY <3>7, <3>8
    <3>10. QED
      BY <2>2, <3>9 DEF Rec
  <2>5. QED
    BY <2>3, <2>4
<1>2. QED
  BY <1>1

\* So AllApplied is the end of a run that applies one event after the other.
LEMMA RunOfAll ==
    ASSUME NEW l, NEW q, Len(q) \in Nat
    PROVE  \E f : /\ f[0] = l /\ f[Len(q)] = List!AllApplied(l, q)
                  /\ \A k \in 1 .. Len(q) : f[k] = List!Applied(f[k - 1], q[k])
<1> DEFINE rec(g) == g = [k \in 0 .. Len(q) |-> IF k = 0 THEN l ELSE List!Applied(g[k - 1], q[k])]
           after == CHOOSE g : rec(g)
<1>1. \E g : rec(g)
  <2>1. PICK g : Rec(g, l, q, Len(q))
    BY RunExists
  <2>2. rec(g)
    BY <2>1 DEF Rec, Step
  <2>3. QED
    BY <2>2
<1>2. rec(after)
  <2> HIDE DEF rec
  <2>1. QED
    BY <1>1
<1>3. List!AllApplied(l, q) = after[Len(q)]
  BY DEF List!AllApplied
<1> HIDE DEF after
<1>4. 0 \in 0 .. Len(q) /\ \A k \in 1 .. Len(q) : k \in 0 .. Len(q) /\ k # 0
  OBVIOUS
<1>5. after[0] = l /\ \A k \in 1 .. Len(q) : after[k] = List!Applied(after[k - 1], q[k])
  BY <1>2, <1>4
<1>6. QED
  BY <1>3, <1>5

LEMMA AllAppliedSeq ==
    ASSUME NEW l, IsSeq(l), NEW q, Events(q)
    PROVE  IsSeq(List!AllApplied(l, q))
<1>1. PICK T : q \in Seq(T) /\ \A e \in T : IsEvent(e)
  BY DEF Events
<1>2. Len(q) \in Nat /\ \A k \in 1 .. Len(q) : IsEvent(q[k])
  BY <1>1, ElementOfSeq
<1>3. PICK f : /\ f[0] = l /\ f[Len(q)] = List!AllApplied(l, q)
               /\ \A k \in 1 .. Len(q) : f[k] = List!Applied(f[k - 1], q[k])
  BY <1>2, RunOfAll
<1> DEFINE Bad == {k \in Nat : k =< Len(q) /\ ~IsSeq(f[k])}
<1>4. ASSUME Bad # {} PROVE FALSE
  <2>1. PICK k \in Bad : \A j \in Bad : k =< j
    <3>1. Bad \in SUBSET Nat
      OBVIOUS
    <3> HIDE DEF Bad
    <3>2. QED
      BY <1>4, <3>1, Least
  <2>2. k # 0
    BY <1>3, <2>1
  <2>3. k \in 1 .. Len(q) /\ k - 1 \in Nat /\ k - 1 =< Len(q) /\ ~(k =< k - 1)
    BY <1>2, <2>1, <2>2
  <2>4. IsSeq(f[k - 1])
    BY <2>1, <2>3
  <2>5. IsSeq(f[k])
    BY <1>2, <1>3, <2>3, <2>4, AppliedSeq
  <2>6. QED
    BY <2>1, <2>5
<1>5. QED
  BY <1>2, <1>3, <1>4

-----------------------------------------------------------------------------
\* The messages that carry events.
LEMMA Numbered ==
    ASSUME NEW s, NEW q, Events(q), list_version[s] \in Int,
           NEW m, m = List!numbered(s, q)
    PROVE  /\ Messages(m) /\ Len(m) \in Nat /\ Len(m) = Len(q)
           /\ \A k \in 1 .. Len(m) : m[k].version = list_version[s] + k - 1 /\ m[k].event = q[k]
           /\ m = <<>> <=> q = <<>>
<1>1. PICK T : q \in Seq(T) /\ \A e \in T : IsEvent(e)
  BY DEF Events
<1>2. Len(q) \in Nat /\ \A k \in 1 .. Len(q) : q[k] \in T
  BY <1>1, ElementOfSeq
<1> DEFINE M == [version : Int, event : T]
<1>3. \A k \in 1 .. Len(q) : [version |-> list_version[s] + k - 1, event |-> q[k]] \in M
  BY <1>2
<1>4. m \in [1 .. Len(q) -> M] /\ \A k \in 1 .. Len(q) : m[k] = [version |-> list_version[s] + k - 1, event |-> q[k]]
  BY <1>3 DEF List!numbered
<1> HIDE DEF M
<1>5. m \in Seq(M)
  BY <1>2, <1>4, FunctionIsSeq
<1>6. Len(m) = Len(q)
  BY <1>2, <1>4, FunctionIsSeq
<1>7. Messages(m)
  <2>1. \A e \in M : e.version \in Int /\ IsEvent(e.event)
    BY <1>1 DEF M
  <2>2. QED
    BY <1>5, <2>1 DEF Messages
<1>8. m = <<>> <=> q = <<>>
  <2>1. (Len(m) = 0 <=> m = <<>>) /\ (Len(q) = 0 <=> q = <<>>)
    BY <1>1, <1>5, EmptySeq
  <2>2. QED
    BY <1>6, <2>1
<1>9. QED
  BY <1>2, <1>4, <1>6, <1>7, <1>8

\* What an end sends of a local change replays it,
LEMMA NumberedReplays ==
    ASSUME NEW s, NEW q, Events(q), list_version[s] \in Int, NEW l
    PROVE  Replays(l, List!numbered(s, q), List!AllApplied(l, q))
<1>1. PICK m : m = List!numbered(s, q)
  OBVIOUS
<1>2. Len(m) \in Nat /\ Len(m) = Len(q) /\ \A k \in 1 .. Len(m) : m[k].event = q[k]
  BY <1>1, Numbered
<1>3. PICK f : /\ f[0] = l /\ f[Len(q)] = List!AllApplied(l, q)
               /\ \A k \in 1 .. Len(q) : f[k] = List!Applied(f[k - 1], q[k])
  BY <1>2, RunOfAll
<1>4. \A k \in 1 .. Len(m) : f[k] = List!Applied(f[k - 1], m[k].event)
  BY <1>2, <1>3
<1>5. QED
  BY <1>1, <1>2, <1>3, <1>4 DEF Replays

LEMMA ReplaysNothing ==
    ASSUME NEW l, NEW m
    PROVE  Replays(l, <<>>, m) <=> l = m
<1>1. Len(<<>>) = 0 /\ 1 .. 0 = {}
  BY EmptySeq
<1>2. ASSUME l = m PROVE Replays(l, <<>>, m)
  <2> DEFINE f == [k \in {0} |-> l]
  <2>1. f[0] = l
    OBVIOUS
  <2>2. QED
    BY <1>1, <1>2, <2>1 DEF Replays
<1>3. QED
  BY <1>1, <1>2 DEF Replays

\* after what is on its way already;
LEMMA ReplaysJoined ==
    ASSUME NEW T, NEW p \in Seq(T), NEW q \in Seq(T), NEW l, NEW m, NEW r,
           Replays(l, p, m), Replays(m, q, r)
    PROVE  Replays(l, p \o q, r)
<1>1. PICK f : /\ f[0] = l /\ f[Len(p)] = m
               /\ \A k \in 1 .. Len(p) : f[k] = List!Applied(f[k - 1], p[k].event)
  BY DEF Replays
<1>2. PICK g : /\ g[0] = m /\ g[Len(q)] = r
               /\ \A k \in 1 .. Len(q) : g[k] = List!Applied(g[k - 1], q[k].event)
  BY DEF Replays
<1>3. PICK c, a, b : c = p \o q /\ a = Len(p) /\ b = Len(q)
  OBVIOUS
<1>4. /\ a \in Nat /\ b \in Nat /\ Len(c) = a + b
      /\ \A k \in 1 .. a : c[k] = p[k]
      /\ \A k \in 1 .. a + b : k \in 1 .. a \/ (k - a \in 1 .. b /\ c[k] = q[k - a] /\ k > a)
  <2>1. /\ Len(p) \in Nat /\ Len(q) \in Nat
        /\ Len(p \o q) = Len(p) + Len(q)
        /\ \A i \in 1 .. Len(p) : (p \o q)[i] = p[i]
        /\ \A i \in 1 .. Len(p \o q) : i \in 1 .. Len(p) \/
               (i - Len(p) \in 1 .. Len(q) /\ (p \o q)[i] = q[i - Len(p)] /\ i > Len(p))
    BY Joined
  <2>2. QED
    BY <1>3, <2>1
<1> DEFINE h == [k \in 0 .. a + b |-> IF k =< a THEN f[k] ELSE g[k - a]]
<1>5. \A k \in 0 .. a + b : h[k] = IF k =< a THEN f[k] ELSE g[k - a]
  OBVIOUS
<1> HIDE DEF h
<1>6. h[0] = l /\ h[a + b] = r
  <2>1. 0 \in 0 .. a + b /\ 0 =< a /\ a + b \in 0 .. a + b /\ (a + b) - a = b /\ (a + b =< a => b = 0 /\ a + b = a)
    BY <1>4
  <2>2. h[a + b] = r
    BY <1>1, <1>2, <1>3, <1>5, <2>1
  <2>3. QED
    BY <1>1, <1>5, <2>1, <2>2
<1>7. ASSUME NEW k \in 1 .. a + b PROVE h[k] = List!Applied(h[k - 1], c[k].event)
  <2>1. k \in 0 .. a + b /\ k - 1 \in 0 .. a + b
    BY <1>4
  <2>2. CASE k \in 1 .. a
    <3>1. k =< a /\ k - 1 =< a
      BY <1>4, <2>2
    <3>2. h[k] = f[k] /\ h[k - 1] = f[k - 1]
      BY <1>5, <2>1, <3>1
    <3>3. QED
      BY <1>1, <1>3, <1>4, <2>2, <3>2
  <2>3. CASE k - a \in 1 .. b /\ c[k] = q[k - a] /\ k > a
    <3>1. ~(k =< a) /\ (k - a) - 1 = (k - 1) - a /\ (k - 1 =< a => k - 1 = a /\ (k - a) - 1 = 0)
      BY <1>4, <2>3
    <3>2. h[k] = g[k - a]
      BY <1>5, <2>1, <3>1
    <3>3. h[k - 1] = g[(k - a) - 1]
      BY <1>1, <1>2, <1>3, <1>5, <2>1, <3>1
    <3>4. QED
      BY <1>2, <1>3, <2>3, <3>2, <3>3
  <2>4. QED
    BY <1>4, <2>2, <2>3
<1>8. QED
  BY <1>3, <1>4, <1>6, <1>7 DEF Replays

\* and a message received begins to.
LEMMA ReplaysFirst ==
    ASSUME NEW T, NEW q \in Seq(T), q # <<>>, NEW l, NEW m, Replays(l, q, m)
    PROVE  Replays(List!Applied(l, Head(q).event), Tail(q), m)
<1>1. PICK f : /\ f[0] = l /\ f[Len(q)] = m
               /\ \A k \in 1 .. Len(q) : f[k] = List!Applied(f[k - 1], q[k].event)
  BY DEF Replays
<1>2. PICK n, t : n = Len(q) /\ t = Tail(q)
  OBVIOUS
<1>3. /\ Head(q) = q[1] /\ n \in Nat /\ n >= 1 /\ Len(t) = n - 1
      /\ \A i \in 1 .. n - 1 : t[i] = q[i + 1]
  BY <1>2, First
<1> DEFINE h == [k \in 0 .. n - 1 |-> f[k + 1]]
<1>4. \A k \in 0 .. n - 1 : h[k] = f[k + 1]
  OBVIOUS
<1> HIDE DEF h
<1>5. /\ 0 \in 0 .. n - 1 /\ n - 1 \in 0 .. n - 1 /\ (n - 1) + 1 = n /\ 1 \in 1 .. n /\ 0 + 1 = 1 /\ 1 - 1 = 0
      /\ \A k \in 1 .. n - 1 : /\ k \in 0 .. n - 1 /\ k - 1 \in 0 .. n - 1 /\ (k - 1) + 1 = k
                               /\ k + 1 \in 1 .. n /\ (k + 1) - 1 = k
  BY <1>3
<1>6. h[0] = List!Applied(l, Head(q).event) /\ h[n - 1] = m
  <2>1. h[0] = f[1] /\ h[n - 1] = f[n]
    BY <1>4, <1>5
  <2>2. f[1] = List!Applied(f[0], q[1].event)
    BY <1>1, <1>2, <1>5
  <2>3. QED
    BY <1>1, <1>2, <1>3, <2>1, <2>2
<1>7. ASSUME NEW k \in 1 .. n - 1 PROVE h[k] = List!Applied(h[k - 1], t[k].event)
  <2>1. h[k] = f[k + 1] /\ h[k - 1] = f[k] /\ t[k] = q[k + 1]
    BY <1>3, <1>4, <1>5
  <2>2. f[k + 1] = List!Applied(f[k], q[k + 1].event)
    BY <1>1, <1>2, <1>5
  <2>3. QED
    BY <2>1, <2>2
<1>8. QED
  BY <1>2, <1>3, <1>6, <1>7 DEF Replays

-----------------------------------------------------------------------------
\* What a list that is bound sends of what it holds.
Additions(l) == [i \in 1 .. Len(l) |-> List!Add(i, l[i])]

LEMMA AddedLast ==
    ASSUME NEW S, NEW p \in Seq(S), NEW v, NEW k, k = Len(p) + 1
    PROVE  List!Applied(p, List!Add(k, v)) = p \o <<v>>
<1>1. Len(p) \in Nat /\ k \in Int /\ k - 1 = Len(p) /\ Len(p) < k
  OBVIOUS
<1>2. SubSeq(p, 1, k - 1) = p /\ SubSeq(p, k, Len(p)) = <<>>
  <2>1. SubSeq(p, 1, Len(p)) = p
    BY SubSeqFull
  <2>2. QED
    BY <1>1, <2>1, SubSeqEmpty
<1>3. List!Applied(p, List!Add(k, v)) = (SubSeq(p, 1, k - 1) \o <<v>>) \o SubSeq(p, k, Len(p))
  BY DEF List!Applied, List!Add, List!Event, List!InsertAt
<1>4. PICK U : U = S \cup {v}
  OBVIOUS
<1>5. p \in Seq(U) /\ <<v>> \in Seq(U)
  BY <1>4, SeqMonotonic
<1>6. (p \o <<v>>) \o <<>> = p \o <<v>>
  <2>1. p \o <<v>> \in Seq(U)
    BY <1>5, ConcatProperties
  <2>2. QED
    BY <2>1, ConcatEmptySeq
<1>7. QED
  BY <1>2, <1>3, <1>6

LEMMA AdditionsType ==
    ASSUME NEW l, IsSeq(l)
    PROVE  /\ Events(Additions(l))
           /\ Len(Additions(l)) = Len(l) /\ (Additions(l) = <<>> <=> l = <<>>)
           /\ \A k \in 1 .. Len(l) : Additions(l)[k] = List!Add(k, l[k])
<1>1. PICK S : l \in Seq(S)
  BY DEF IsSeq
<1>2. PICK q : q = Additions(l)
  OBVIOUS
<1> DEFINE T == [op : {"add"}, index : Int, value : S]
<1>3. Len(l) \in Nat /\ \A k \in 1 .. Len(l) : l[k] \in S /\ k \in Int
  BY <1>1, ElementOfSeq
<1>4. \A k \in 1 .. Len(l) : List!Add(k, l[k]) \in T
  BY <1>3 DEF List!Add, List!Event
<1>5. q \in [1 .. Len(l) -> T] /\ \A k \in 1 .. Len(l) : q[k] = List!Add(k, l[k])
  BY <1>2, <1>4 DEF Additions
<1> HIDE DEF T
<1>6. q \in Seq(T)
  BY <1>3, <1>5, FunctionIsSeq
<1>7. Len(q) = Len(l)
  BY <1>3, <1>5, FunctionIsSeq
<1>8. Events(q)
  <2>1. \A e \in T : IsEvent(e)
    BY DEF IsEvent, T
  <2>2. QED
    BY <1>6, <2>1 DEF Events
<1>9. q = <<>> <=> l = <<>>
  BY <1>1, <1>6, <1>7, EmptySeq
<1>10. QED
  BY <1>2, <1>5, <1>7, <1>8, <1>9

LEMMA AdditionsReplay ==
    ASSUME NEW s, list_version[s] \in Int, NEW l, IsSeq(l)
    PROVE  Replays(<<>>, List!numbered(s, Additions(l)), l)
<1>1. PICK S : l \in Seq(S)
  BY DEF IsSeq
<1>2. PICK q, n : q = List!numbered(s, Additions(l)) /\ n = Len(l)
  OBVIOUS
<1>3. n \in Nat /\ Len(q) = n /\ \A k \in 1 .. n : q[k].event = List!Add(k, l[k])
  <2>1. PICK a : a = Additions(l)
    OBVIOUS
  <2>2. Events(a) /\ Len(a) = n /\ \A k \in 1 .. n : a[k] = List!Add(k, l[k])
    BY <1>2, <2>1, AdditionsType
  <2>3. Len(q) = Len(a) /\ \A k \in 1 .. Len(q) : q[k].event = a[k]
    BY <1>2, <2>1, <2>2, Numbered
  <2>4. n \in Nat
    BY <1>1, <1>2
  <2>5. QED
    BY <2>2, <2>3, <2>4
<1> DEFINE f == [k \in 0 .. n |-> SubSeq(l, 1, k)]
<1>4. \A k \in 0 .. n : f[k] = SubSeq(l, 1, k)
  OBVIOUS
<1> HIDE DEF f
<1>5. f[0] = <<>> /\ f[n] = l
  <2>1. 0 \in 0 .. n /\ n \in 0 .. n
    BY <1>3
  <2>2. SubSeq(l, 1, 0) = <<>>
    BY SubSeqEmpty
  <2>3. SubSeq(l, 1, n) = l
    BY <1>1, <1>2, SubSeqFull
  <2>4. QED
    BY <1>4, <2>1, <2>2, <2>3
<1>6. ASSUME NEW k \in 1 .. n PROVE f[k] = List!Applied(f[k - 1], q[k].event)
  <2>1. k \in 0 .. n /\ k - 1 \in 0 .. n /\ k - 1 \in Int /\ (k - 1) + 1 = k /\ 1 \in 1 .. Len(l) /\ k \in 1 .. Len(l)
    BY <1>2, <1>3
  <2>2. SubSeq(l, 1, k) = SubSeq(l, 1, k - 1) \o <<l[k]>>
    BY <1>1, <2>1, SubSeqRecursiveSecond
  <2>3. SubSeq(l, 1, k - 1) \in Seq(S) /\ Len(SubSeq(l, 1, k - 1)) = k - 1
    <3>1. \A i \in 1 .. k - 1 : l[i] \in S
      BY <1>1, <1>2, <1>3, ElementOfSeq
    <3>2. Len(SubSeq(l, 1, k - 1)) = IF 1 <= k - 1 THEN (k - 1) - 1 + 1 ELSE 0
      BY <2>1, <3>1, SubSeqProperties
    <3>3. (IF 1 <= k - 1 THEN (k - 1) - 1 + 1 ELSE 0) = k - 1
      BY <1>3
    <3>4. QED
      BY <2>1, <3>1, <3>2, <3>3, SubSeqProperties
  <2>4. PICK p : p = SubSeq(l, 1, k - 1)
    OBVIOUS
  <2>5. List!Applied(p, List!Add(k, l[k])) = p \o <<l[k]>>
    BY <2>1, <2>3, <2>4, AddedLast
  <2>6. QED
    BY <1>3, <1>4, <2>1, <2>2, <2>4, <2>5
<1>7. QED
  BY <1>2, <1>3, <1>5, <1>6 DEF Replays

-----------------------------------------------------------------------------
\* The removals of a local change.
OneRemoval(l, I, k) == IF k \in I THEN <<List!Removal(l, k)>> ELSE <<>>
Down(g, l, I, n) == g = [k \in 0 .. n |-> IF k = 0 THEN <<>> ELSE OneRemoval(l, I, k) \o g[k - 1]]
RemovalOf(l) == [op : {"remove"}, index : Int, value : {l[i] : i \in 1 .. Len(l)}]

LEMMA DownExists ==
    ASSUME NEW l, NEW I, Len(l) \in Nat
    PROVE  \E g : Down(g, l, I, Len(l)) /\ g[Len(l)] \in Seq(RemovalOf(l))
<1> DEFINE N == Len(l)
           T == RemovalOf(l)
           Good(g, n) == Down(g, l, I, n) /\ g[n] \in Seq(T)
           Bad == {n \in Nat : n =< N /\ ~\E g : Good(g, n)}
<1>1. N \in Nat
  OBVIOUS
<1>2. ASSUME NEW k \in 1 .. N PROVE OneRemoval(l, I, k) \in Seq(T)
  <2>1. List!Removal(l, k) \in T
    BY <1>2 DEF List!Removal, List!Event, RemovalOf
  <2>2. <<List!Removal(l, k)>> \in Seq(T) /\ <<>> \in Seq(T)
    BY <2>1
  <2>3. QED
    BY <2>2 DEF OneRemoval
<1> HIDE DEF N, T
<1>3. ASSUME Bad # {} PROVE FALSE
  <2>1. PICK n \in Bad : \A j \in Bad : n =< j
    <3>1. Bad \in SUBSET Nat
      OBVIOUS
    <3> HIDE DEF Bad
    <3>2. QED
      BY <1>3, <3>1, Least
  <2>2. n \in Nat /\ n =< N /\ ~\E g : Good(g, n)
    BY <2>1
  <2>3. CASE n = 0
    <3> DEFINE g == [k \in 0 .. 0 |-> <<>>]
    <3>1. (\A k \in 0 .. 0 : k = 0) /\ 0 \in 0 .. 0
      OBVIOUS
    <3>2. g = [k \in 0 .. 0 |-> IF k = 0 THEN <<>> ELSE OneRemoval(l, I, k) \o g[k - 1]]
      BY <3>1
    <3>3. g[0] \in Seq(T)
      BY <3>1
    <3>4. QED
      BY <2>2, <2>3, <3>2, <3>3 DEF Down
  <2>4. CASE n # 0
    <3> PICK m : m = n - 1
      OBVIOUS
    <3>1. m \in Nat /\ n = m + 1 /\ m =< N /\ ~(n =< m) /\ n \in 1 .. N
      BY <1>1, <2>2, <2>4
    <3>2. m \notin Bad
      BY <2>1, <3>1
    <3>3. PICK h : Good(h, m)
      BY <3>1, <3>2
    <3>4. PICK e : e = OneRemoval(l, I, n) \o h[m]
      OBVIOUS
    <3>5. e \in Seq(T)
      BY <1>2, <3>1, <3>3, <3>4
    <3> DEFINE g == [k \in 0 .. n |-> IF k = n THEN e ELSE h[k]]
    <3>6. g[n] = e /\ \A k \in 0 .. m : g[k] = h[k] /\ k \in 0 .. n
      BY <3>1
    <3>7. \A k \in 0 .. m : h[k] = IF k = 0 THEN <<>> ELSE OneRemoval(l, I, k) \o h[k - 1]
      BY <3>3 DEF Down
    <3>8. g = [k \in 0 .. n |-> g[k]]
      OBVIOUS
    <3> HIDE DEF g
    <3>9. ASSUME NEW k \in 0 .. n
          PROVE  g[k] = IF k = 0 THEN <<>> ELSE OneRemoval(l, I, k) \o g[k - 1]
      <4>1. CASE k = n
        <5>1. k # 0 /\ k - 1 = m /\ m \in 0 .. m
          BY <2>4, <3>1, <4>1
        <5>2. QED
          BY <3>4, <3>6, <4>1, <5>1
      <4>2. CASE k # n
        <5>1. k \in 0 .. m /\ (k # 0 => k - 1 \in 0 .. m)
          BY <3>1, <4>2
        <5>2. QED
          BY <3>6, <3>7, <5>1
      <4>3. QED
        BY <4>1, <4>2
    <3>10. Down(g, l, I, n)
      BY <3>8, <3>9 DEF Down
    <3>11. QED
      BY <2>2, <3>5, <3>6, <3>10
  <2>5. QED
    BY <2>3, <2>4
<1>4. QED
  BY <1>1, <1>3 DEF N, T

\* Two that go down the same list agree.
LEMMA DownUnique ==
    ASSUME NEW l, NEW I, Len(l) \in Nat, NEW g, NEW h,
           Down(g, l, I, Len(l)), Down(h, l, I, Len(l))
    PROVE  g[Len(l)] = h[Len(l)]
<1> DEFINE N == Len(l)
           Bad == {k \in Nat : k =< N /\ g[k] # h[k]}
<1>1. N \in Nat
  OBVIOUS
<1>2. /\ g[0] = <<>> /\ h[0] = <<>>
      /\ \A k \in 1 .. N : g[k] = OneRemoval(l, I, k) \o g[k - 1] /\ h[k] = OneRemoval(l, I, k) \o h[k - 1]
  <2>1. 0 \in 0 .. N /\ \A k \in 1 .. N : k \in 0 .. N /\ k # 0
    BY <1>1
  <2>2. QED
    BY <2>1 DEF Down
<1> HIDE DEF N
<1>3. ASSUME Bad # {} PROVE FALSE
  <2>1. PICK k \in Bad : \A j \in Bad : k =< j
    <3>1. Bad \in SUBSET Nat
      OBVIOUS
    <3> HIDE DEF Bad
    <3>2. QED
      BY <1>3, <3>1, Least
  <2>2. k # 0
    BY <1>2, <2>1
  <2>3. k \in 1 .. N /\ k - 1 \in Nat /\ k - 1 =< N /\ ~(k =< k - 1)
    BY <1>1, <2>1, <2>2
  <2>4. g[k - 1] = h[k - 1]
    BY <2>1, <2>3
  <2>5. g[k] = h[k]
    BY <1>2, <2>3, <2>4
  <2>6. QED
    BY <2>1, <2>5
<1>4. QED
  BY <1>1, <1>3 DEF N

LEMMA RemovalsType ==
    ASSUME NEW l, NEW I, Len(l) \in Nat
    PROVE  Events(List!Removals(l, I))
<1> DEFINE rec(g) == g = [k \in 0 .. Len(l) |->
                            IF k = 0 THEN <<>>
                            ELSE (IF k \in I THEN <<List!Removal(l, k)>> ELSE <<>>) \o g[k - 1]]
           from == CHOOSE g : rec(g)
<1>1. PICK h : Down(h, l, I, Len(l)) /\ h[Len(l)] \in Seq(RemovalOf(l))
  BY DownExists
<1>2. rec(from)
  <2>1. rec(h)
    BY <1>1 DEF Down, OneRemoval
  <2> HIDE DEF rec
  <2>2. QED
    BY <2>1
<1>3. List!Removals(l, I) = from[Len(l)]
  BY DEF List!Removals
<1> HIDE DEF from
<1>4. Down(from, l, I, Len(l))
  BY <1>2 DEF Down, OneRemoval
<1>5. from[Len(l)] = h[Len(l)]
  BY <1>1, <1>4, DownUnique
<1>6. \A e \in RemovalOf(l) : IsEvent(e)
  BY DEF RemovalOf, IsEvent
<1>7. QED
  BY <1>1, <1>3, <1>5, <1>6 DEF Events

LEMMA OneEvent ==
    ASSUME NEW e, IsEvent(e)
    PROVE  Events(<<e>>)
<1>1. PICK T : T = {e}
  OBVIOUS
<1>2. <<e>> \in Seq(T) /\ \A x \in T : IsEvent(x)
  BY <1>1
<1>3. QED
  BY <1>2 DEF Events

-----------------------------------------------------------------------------
\* While none have crossed, messages are on their way to one end at most.
TakesTurns(s) == channel[s] = <<>> \/ channel[List!Other(s)] = <<>>
Consecutive(s) == \A k \in 1 .. Len(channel[s]) : channel[s][k].version = list_version[s] + k - 1
CountsAll(s) ==
    channel[List!Other(s)] = <<>> => list_version[List!Other(s)] = list_version[s] + Len(channel[s])
\* An end that is not bound has sent nothing.
NotHeard(s) == ~list_bound[s] => channel[List!Other(s)] = <<>>
\* What an end has, or will begin with, becomes with the messages on their way
\* what the other has.
CatchesUp(s) ==
    list_bound[List!Other(s)] /\ channel[List!Other(s)] = <<>> =>
        \A l, q, m : /\ l = IF list_bound[s] THEN list[s] ELSE <<>>
                     /\ q = channel[s] /\ m = list[List!Other(s)]
                     => Replays(l, q, m)

ListTypes ==
    /\ DOMAIN list = List!Ends /\ list = [s \in List!Ends |-> list[s]]
    /\ \A s \in List!Ends : IsSeq(list[s])
    /\ list_version \in [List!Ends -> Int]
    /\ list_bound \in [List!Ends -> BOOLEAN]
    /\ DOMAIN channel = List!Ends /\ channel = [s \in List!Ends |-> channel[s]]
    /\ \A s \in List!Ends : Messages(channel[s])

InTurns == \A s \in List!Ends :
    TakesTurns(s) /\ Consecutive(s) /\ CountsAll(s) /\ NotHeard(s) /\ CatchesUp(s)

ListInv == (conflict => crossed) /\ (~crossed => ListTypes /\ InTurns)

LEMMA TwoSides ==
    ASSUME NEW s \in List!Ends
    PROVE  /\ List!Other(s) \in List!Ends /\ List!Other(s) # s /\ List!Other(List!Other(s)) = s
           /\ \A t \in List!Ends : t = s \/ t = List!Other(s)
  BY DEF List!Ends, List!Other

\* Replaying is the same before and after a step.
LEMMA SameReplays == \A l, q, m : Replays(l, q, m) <=> Replays(l, q, m)'
  BY DEF Replays, List!Applied, List!InsertAt, List!RemoveAt, List!ReplaceAt

LEMMA NoListMessages == Messages(<<>>) /\ Len(<<>>) = 0
<1>1. <<>> \in Seq({}) /\ Len(<<>>) = 0
  BY EmptySeq
<1>2. PICK T : T = {}
  OBVIOUS
<1>3. QED
  BY <1>1, <1>2 DEF Messages

LEMMA MessagesJoined ==
    ASSUME NEW p, NEW q, Messages(p), Messages(q)
    PROVE  /\ Messages(p \o q) /\ Len(p) \in Nat /\ Len(q) \in Nat
           /\ Len(p \o q) = Len(p) + Len(q)
           /\ \A i \in 1 .. Len(p) : (p \o q)[i] = p[i]
           /\ \A i \in 1 .. Len(p \o q) : i \in 1 .. Len(p) \/
                 (i - Len(p) \in 1 .. Len(q) /\ (p \o q)[i] = q[i - Len(p)] /\ i > Len(p))
           /\ q # <<>> => p \o q # <<>>
           /\ <<>> \o q = q /\ p \o <<>> = p
           /\ \A l, m, r : Replays(l, p, m) /\ Replays(m, q, r) => Replays(l, p \o q, r)
<1>1. PICK S : p \in Seq(S) /\ \A m \in S : m.version \in Int /\ IsEvent(m.event)
  BY DEF Messages
<1>2. PICK T : q \in Seq(T) /\ \A m \in T : m.version \in Int /\ IsEvent(m.event)
  BY DEF Messages
<1>3. PICK U : U = S \cup T
  OBVIOUS
<1>4. p \in Seq(U) /\ q \in Seq(U) /\ \A m \in U : m.version \in Int /\ IsEvent(m.event)
  <2>1. S \subseteq U /\ T \subseteq U
    BY <1>3
  <2>2. p \in Seq(U) /\ q \in Seq(U)
    BY <1>1, <1>2, <2>1, SeqMonotonic
  <2>3. QED
    BY <1>1, <1>2, <1>3, <2>2
<1>5. PICK c : c = p \o q
  OBVIOUS
<1>6. /\ c \in Seq(U) /\ Len(p) \in Nat /\ Len(q) \in Nat
      /\ Len(c) = Len(p) + Len(q)
      /\ \A i \in 1 .. Len(p) : c[i] = p[i]
      /\ \A i \in 1 .. Len(c) : i \in 1 .. Len(p) \/
             (i - Len(p) \in 1 .. Len(q) /\ c[i] = q[i - Len(p)] /\ i > Len(p))
  BY <1>4, <1>5, Joined
<1>7. Messages(c)
  BY <1>4, <1>6 DEF Messages
<1>8. q # <<>> => c # <<>>
  BY <1>4, <1>5, ConcatEqualIffEmpty
<1>9. <<>> \o q = q /\ p \o <<>> = p
  BY <1>4, ConcatEmptySeq
<1>10. \A l, m, r : Replays(l, p, m) /\ Replays(m, q, r) => Replays(l, c, r)
  BY <1>4, <1>5, ReplaysJoined
<1>11. QED
  BY <1>5, <1>6, <1>7, <1>8, <1>9, <1>10

\* An end sends while nothing is on its way to it.
LEMMA SendsInTurn ==
    ASSUME ListTypes, InTurns, NEW s \in List!Ends, NEW o, o = List!Other(s),
           NEW q, Events(q), q # <<>>, List!send(s, q), ~crossed, ~crossed',
           list_bound' \in [List!Ends -> BOOLEAN], list_bound'[s], list_bound'[o] = list_bound[o],
           DOMAIN list' = List!Ends, list' = [t \in List!Ends |-> list'[t]],
           list'[o] = list[o], IsSeq(list'[s]),
           Replays(IF list_bound[o] THEN list[o] ELSE <<>>, channel[o] \o List!numbered(s, q), list'[s])
    PROVE  ListTypes' /\ InTurns'
<1>1. /\ o \in List!Ends /\ o # s /\ List!Other(o) = s /\ List!Other(s) = o
      /\ \A t \in List!Ends : t = s \/ t = o
  BY TwoSides
<1>2. channel[s] = <<>>
  BY DEF List!send
<1>3. PICK m : m = List!numbered(s, q)
  OBVIOUS
<1>4. list_version[s] \in Int /\ list_version[o] \in Int
  BY <1>1 DEF ListTypes
<1>5. /\ Messages(m) /\ Len(m) \in Nat /\ Len(m) = Len(q) /\ m # <<>>
      /\ \A k \in 1 .. Len(m) : m[k].version = list_version[s] + k - 1
  BY <1>3, <1>4, Numbered
<1>6. PICK p : p = channel[o]
  OBVIOUS
<1>7. Messages(p) /\ (\A k \in 1 .. Len(p) : p[k].version = list_version[o] + k - 1)
      /\ list_version[s] = list_version[o] + Len(p)
  BY <1>1, <1>2, <1>6 DEF ListTypes, InTurns, Consecutive, CountsAll
<1>8. PICK c : c = p \o m
  OBVIOUS
<1>9. /\ Messages(c) /\ Len(p) \in Nat /\ Len(c) = Len(p) + Len(m) /\ c # <<>>
      /\ \A i \in 1 .. Len(p) : c[i] = p[i]
      /\ \A i \in 1 .. Len(c) : i \in 1 .. Len(p) \/
            (i - Len(p) \in 1 .. Len(m) /\ c[i] = m[i - Len(p)] /\ i > Len(p))
  <2>1. /\ Messages(p \o m) /\ Len(p) \in Nat /\ Len(p \o m) = Len(p) + Len(m) /\ p \o m # <<>>
        /\ \A i \in 1 .. Len(p) : (p \o m)[i] = p[i]
        /\ \A i \in 1 .. Len(p \o m) : i \in 1 .. Len(p) \/
              (i - Len(p) \in 1 .. Len(m) /\ (p \o m)[i] = m[i - Len(p)] /\ i > Len(p))
    BY <1>5, <1>7, MessagesJoined
  <2>2. QED
    BY <1>8, <2>1
<1>10. channel' = [channel EXCEPT ![o] = c]
  BY <1>3, <1>6, <1>8 DEF List!send, List!Sent
<1>11. /\ DOMAIN channel' = List!Ends /\ channel' = [t \in List!Ends |-> channel'[t]]
       /\ channel'[o] = c /\ channel'[s] = <<>>
  BY <1>1, <1>2, <1>10 DEF ListTypes
<1>12. list_version' = [list_version EXCEPT ![s] = list_version[s] + Len(m)]
  BY <1>5 DEF List!send
<1>13. /\ list_version' \in [List!Ends -> Int]
       /\ list_version'[s] = list_version[s] + Len(m) /\ list_version'[o] = list_version[o]
  BY <1>1, <1>4, <1>5, <1>12 DEF ListTypes
<1>14. ListTypes'
  <2>1. \A t \in List!Ends : Messages(channel'[t])
    BY <1>1, <1>9, <1>11, NoListMessages
  <2>2. \A t \in List!Ends : IsSeq(list'[t])
    BY <1>1 DEF ListTypes
  <2>3. QED
    BY <1>11, <1>13, <2>1, <2>2 DEF ListTypes, Messages, IsSeq
<1>15. ASSUME NEW k \in 1 .. Len(c) PROVE c[k].version = list_version[o] + k - 1
  <2>1. PICK v, w, a : v = list_version[o] /\ w = list_version[s] /\ a = Len(p)
    OBVIOUS
  <2>2. CASE k \in 1 .. Len(p)
    BY <1>7, <1>9, <2>2
  <2>3. CASE k - a \in 1 .. Len(m) /\ c[k] = m[k - a]
    <3>1. c[k].version = w + (k - a) - 1
      BY <1>5, <2>1, <2>3
    <3>2. w = v + a /\ v \in Int /\ a \in Nat /\ k \in Int
      BY <1>4, <1>7, <1>9, <2>1
    <3>3. QED
      BY <2>1, <3>1, <3>2
  <2>4. QED
    BY <1>9, <2>1, <2>2, <2>3
<1>16. Consecutive(s)' /\ Consecutive(o)'
  <2>1. 1 .. Len(<<>>) = {}
    BY NoListMessages
  <2>2. QED
    BY <1>1, <1>11, <1>13, <1>15, <2>1 DEF Consecutive
<1>17. list_version'[s] = list_version'[o] + Len(c)
  <2>1. PICK v, w, a, b : v = list_version[o] /\ w = list_version[s] /\ a = Len(p) /\ b = Len(m)
    OBVIOUS
  <2>2. w = v + a /\ Len(c) = a + b /\ v \in Int /\ a \in Nat /\ b \in Nat
    BY <1>4, <1>5, <1>7, <1>9, <2>1
  <2>3. w + b = v + (a + b)
    BY <2>2
  <2>4. QED
    BY <1>13, <2>1, <2>2, <2>3
<1>18. CatchesUp(o)'
  <2>1. PICK b, z : b = (IF list_bound'[o] THEN list'[o] ELSE <<>>) /\ z = list'[s]
    OBVIOUS
  <2>2. Replays(b, c, z)
    BY <1>3, <1>6, <1>8, <2>1
  <2>3. Replays(b, c, z)'
    BY <2>2, SameReplays
  <2>4. QED
    BY <1>1, <1>11, <2>1, <2>3 DEF CatchesUp
<1>19. QED
  <2>1. TakesTurns(s)' /\ TakesTurns(o)'
    BY <1>1, <1>11 DEF TakesTurns
  <2>2. CountsAll(s)' /\ CountsAll(o)'
    BY <1>1, <1>9, <1>11, <1>17 DEF CountsAll
  <2>3. NotHeard(s)' /\ NotHeard(o)'
    BY <1>1, <1>11 DEF NotHeard
  <2>4. CatchesUp(s)'
    BY <1>1, <1>9, <1>11 DEF CatchesUp
  <2>5. InTurns'
    BY <1>1, <1>16, <1>18, <2>1, <2>2, <2>3, <2>4 DEF InTurns
  <2>6. QED
    BY <1>14, <2>5

-----------------------------------------------------------------------------
(* The steps of a list.                                                    *)

LEMMA LocalChangeKeeps ==
    ASSUME ListInv, NEW s \in List!Ends, NEW q, Events(q), List!local_change(s, q)
    PROVE  ListInv'
<1>1. q # <<>> /\ conflict' = conflict /\ list_bound' = list_bound
      /\ list' = [list EXCEPT ![s] = List!AllApplied(list[s], q)]
  BY DEF List!local_change
<1>2. crossed => crossed'
  BY DEF List!local_change, List!send
<1>3. SUFFICES ASSUME ~crossed, ~crossed' PROVE ListTypes' /\ InTurns'
  BY <1>1, <1>2 DEF ListInv
<1>4. ListTypes /\ InTurns
  BY <1>3 DEF ListInv
<1>5. PICK o : o = List!Other(s)
  OBVIOUS
<1>6. /\ o \in List!Ends /\ o # s /\ List!Other(o) = s /\ List!Other(s) = o
      /\ \A t \in List!Ends : t = s \/ t = o
  BY <1>5, TwoSides
<1>7. PICK l, z : l = list[s] /\ z = List!AllApplied(l, q)
  OBVIOUS
<1>8. IsSeq(l) /\ IsSeq(z)
  <2>1. IsSeq(l)
    BY <1>4, <1>7 DEF ListTypes
  <2>2. QED
    BY <1>7, <2>1, AllAppliedSeq
<1>9. /\ DOMAIN list' = List!Ends /\ list' = [t \in List!Ends |-> list'[t]]
      /\ list'[s] = z /\ list'[o] = list[o]
  BY <1>1, <1>4, <1>6, <1>7 DEF ListTypes
<1>10. CASE list_bound[s]
  <2>1. List!send(s, q)
    BY <1>10 DEF List!local_change
  <2>2. channel[s] = <<>>
    BY <1>1, <1>3, <2>1 DEF List!send
  <2>3. PICK b, p, m : /\ b = (IF list_bound[o] THEN list[o] ELSE <<>>)
                       /\ p = channel[o] /\ m = List!numbered(s, q)
    OBVIOUS
  <2>4. Replays(b, p, l)
    BY <1>4, <1>6, <1>7, <1>10, <2>2, <2>3 DEF InTurns, CatchesUp
  <2>5. list_version[s] \in Int
    BY <1>4 DEF ListTypes
  <2>6. Replays(l, m, z) /\ Messages(m)
    BY <1>7, <2>3, <2>5, Numbered, NumberedReplays
  <2>7. Messages(p)
    BY <1>4, <1>6, <2>3 DEF ListTypes
  <2>8. Replays(b, p \o m, z)
    BY <2>4, <2>6, <2>7, MessagesJoined
  <2>9. list_bound' \in [List!Ends -> BOOLEAN] /\ list_bound'[s] /\ list_bound'[o] = list_bound[o]
    BY <1>1, <1>4, <1>10 DEF ListTypes
  <2>10. IsSeq(list'[s]) /\ Replays(IF list_bound[o] THEN list[o] ELSE <<>>, channel[o] \o List!numbered(s, q), list'[s])
    BY <1>8, <1>9, <2>3, <2>8
  <2>11. QED
    BY <1>1, <1>3, <1>4, <1>5, <1>9, <2>1, <2>9, <2>10, SendsInTurn
<1>11. CASE ~list_bound[s]
  <2>1. channel' = channel /\ list_version' = list_version
    BY <1>11 DEF List!local_change
  <2>2. ListTypes'
    <3>1. \A t \in List!Ends : IsSeq(list'[t])
      BY <1>4, <1>6, <1>8, <1>9 DEF ListTypes
    <3>2. QED
      BY <1>1, <1>4, <1>9, <2>1, <3>1 DEF ListTypes, IsSeq, Messages
  <2>3. ASSUME NEW t \in List!Ends PROVE CatchesUp(t)'
    <3>1. CASE t = o
      BY <1>1, <1>6, <1>11, <3>1 DEF CatchesUp
    <3>2. CASE t = s
      <4>1. CatchesUp(s)
        BY <1>4 DEF InTurns
      <4>2. \A x, y, w : Replays(x, y, w) => Replays(x, y, w)'
        BY SameReplays
      <4>3. QED
        BY <1>1, <1>6, <1>9, <1>11, <2>1, <3>2, <4>1, <4>2 DEF CatchesUp
    <3>3. QED
      BY <1>6, <3>1, <3>2
  <2>4. InTurns'
    BY <1>1, <1>4, <2>1, <2>3 DEF InTurns, TakesTurns, Consecutive, CountsAll, NotHeard
  <2>5. QED
    BY <2>2, <2>4
<1>12. QED
  BY <1>10, <1>11

LEMMA ListBindKeeps ==
    ASSUME ListInv, NEW s \in List!Ends, List!Bind(s)
    PROVE  ListInv'
<1>1. /\ conflict' = conflict /\ ~list_bound[s] /\ list' = list
      /\ list_bound' = [list_bound EXCEPT ![s] = TRUE]
  BY DEF List!Bind
<1>2. crossed => crossed'
  BY DEF List!Bind, List!send
<1>3. SUFFICES ASSUME ~crossed, ~crossed' PROVE ListTypes' /\ InTurns'
  BY <1>1, <1>2 DEF ListInv
<1>4. ListTypes /\ InTurns
  BY <1>3 DEF ListInv
<1>5. PICK o : o = List!Other(s)
  OBVIOUS
<1>6. /\ o \in List!Ends /\ o # s /\ List!Other(o) = s /\ List!Other(s) = o
      /\ \A t \in List!Ends : t = s \/ t = o
  BY <1>5, TwoSides
<1>7. PICK l, q : l = list[s] /\ q = Additions(l)
  OBVIOUS
<1>8. IsSeq(l) /\ list_version[s] \in Int
  BY <1>4, <1>7 DEF ListTypes
<1>9. Events(q) /\ (q = <<>> <=> l = <<>>)
  BY <1>7, <1>8, AdditionsType
<1>10. List!send(s, q)
  BY <1>7 DEF List!Bind, Additions
<1>11. /\ list_bound' \in [List!Ends -> BOOLEAN] /\ list_bound'[s] /\ list_bound'[o] = list_bound[o]
  BY <1>1, <1>4, <1>6 DEF ListTypes
\* Nothing is on its way to the other end, and what that has is nothing.
<1>12. channel[o] = <<>>
  BY <1>1, <1>4, <1>6 DEF InTurns, NotHeard
<1>13. channel[s] = <<>> => (IF list_bound[o] THEN list[o] ELSE <<>>) = <<>>
  <2>1. CASE list_bound[o] /\ channel[s] = <<>>
    <3>1. PICK z : z = list[o]
      OBVIOUS
    <3>2. CatchesUp(s)
      BY <1>4 DEF InTurns
    <3>3. Replays(<<>>, <<>>, z)
      BY <1>1, <1>6, <1>12, <2>1, <3>1, <3>2 DEF CatchesUp
    <3>4. <<>> = z
      BY <3>3, ReplaysNothing
    <3>5. QED
      BY <3>1, <3>4
  <2>2. QED
    BY <2>1
<1>14. PICK m : m = List!numbered(s, q)
  OBVIOUS
<1>15. Messages(m) /\ Replays(<<>>, m, l) /\ (m = <<>> <=> q = <<>>)
  BY <1>7, <1>8, <1>9, <1>14, Numbered, AdditionsReplay
<1>16. CASE q # <<>>
  <2>1. channel[s] = <<>>
    BY <1>3, <1>10, <1>16 DEF List!send
  <2>2. <<>> \o m = m
    BY <1>15, MessagesJoined, NoListMessages
  <2>3. Replays(IF list_bound[o] THEN list[o] ELSE <<>>, channel[o] \o List!numbered(s, q), list'[s])
    BY <1>1, <1>7, <1>12, <1>13, <1>14, <1>15, <2>1, <2>2
  <2>4. /\ DOMAIN list' = List!Ends /\ list' = [t \in List!Ends |-> list'[t]]
        /\ list'[o] = list[o] /\ IsSeq(list'[s])
    BY <1>1, <1>4, <1>7, <1>8 DEF ListTypes
  <2>5. QED
    BY <1>3, <1>4, <1>5, <1>9, <1>10, <1>11, <1>16, <2>3, <2>4, SendsInTurn
<1>17. CASE q = <<>>
  <2>1. m = <<>> /\ l = <<>> /\ Len(q) = 0
    BY <1>9, <1>15, <1>17, EmptySeq
  <2>2. channel' = channel
    <3>1. channel[o] \o m = channel[o]
      BY <1>12, <2>1, <1>15, MessagesJoined
    <3>2. channel' = [channel EXCEPT ![o] = channel[o] \o m]
      BY <1>5, <1>10, <1>14 DEF List!send, List!Sent
    <3>3. QED
      BY <1>4, <1>6, <3>1, <3>2 DEF ListTypes
  <2>3. list_version' = list_version
    <3>1. list_version' = [list_version EXCEPT ![s] = list_version[s] + 0]
      BY <1>10, <2>1 DEF List!send
    <3>2. list_version[s] + 0 = list_version[s]
      BY <1>8
    <3>3. QED
      BY <1>4, <3>1, <3>2 DEF ListTypes
  <2>4. ListTypes'
    BY <1>1, <1>4, <1>11, <2>2, <2>3 DEF ListTypes, IsSeq, Messages
  <2>5. CatchesUp(s)'
    <3>1. CatchesUp(s)
      BY <1>4 DEF InTurns
    <3>2. \A x, y, w : Replays(x, y, w) => Replays(x, y, w)'
      BY SameReplays
    <3>3. (IF list_bound'[s] THEN list'[s] ELSE <<>>) = IF list_bound[s] THEN list[s] ELSE <<>>
      BY <1>1, <1>7, <1>11, <2>1
    <3>4. list'[o] = list[o] /\ list_bound'[o] = list_bound[o] /\ channel' = channel
      BY <1>1, <1>11, <2>2
    <3>5. QED
      BY <1>6, <3>1, <3>2, <3>3, <3>4 DEF CatchesUp
  <2>6. CatchesUp(o)'
    <3>1. Replays(<<>>, <<>>, <<>>)'
      BY ReplaysNothing, SameReplays
    <3>2. (IF list_bound'[o] THEN list'[o] ELSE <<>>) = IF list_bound[o] THEN list[o] ELSE <<>>
      BY <1>1, <1>11
    <3>3. channel'[s] = <<>> => (IF list_bound'[o] THEN list'[o] ELSE <<>>) = <<>>
      BY <1>13, <2>2, <3>2
    <3>4. channel'[o] = <<>> /\ list'[s] = <<>>
      BY <1>1, <1>7, <1>12, <2>1, <2>2
    <3>5. QED
      BY <1>6, <3>1, <3>3, <3>4 DEF CatchesUp
  <2>7. \A t \in List!Ends : TakesTurns(t)' /\ Consecutive(t)' /\ CountsAll(t)' /\ NotHeard(t)'
    <3>1. NotHeard(s)' /\ NotHeard(o)'
      BY <1>4, <1>6, <1>11, <2>2 DEF InTurns, NotHeard
    <3>2. QED
      BY <1>4, <1>6, <2>2, <2>3, <3>1 DEF InTurns, TakesTurns, Consecutive, CountsAll
  <2>8. QED
    BY <1>6, <2>4, <2>5, <2>6, <2>7 DEF InTurns
<1>18. QED
  BY <1>16, <1>17

LEMMA ListReceivesKeeps ==
    ASSUME ListInv, NEW s \in List!Ends, List!on_wire_received(s)
    PROVE  ListInv'
<1>1. /\ list_bound[s] /\ ~conflict /\ channel[s] # <<>> /\ crossed' = crossed
      /\ list_bound' = list_bound /\ channel' = [channel EXCEPT ![s] = Tail(channel[s])]
  BY DEF List!on_wire_received, List!Taken
<1>2. SUFFICES ASSUME ~crossed PROVE ~conflict' /\ ListTypes' /\ InTurns'
  BY <1>1 DEF ListInv
<1>3. ListTypes /\ InTurns
  BY <1>2 DEF ListInv
<1>4. PICK o : o = List!Other(s)
  OBVIOUS
<1>5. /\ o \in List!Ends /\ o # s /\ List!Other(o) = s /\ List!Other(s) = o
      /\ \A t \in List!Ends : t = s \/ t = o
  BY <1>4, TwoSides
<1>6. PICK q, e, r : q = channel[s] /\ e = Head(q) /\ r = Tail(q)
  OBVIOUS
<1>7. PICK T : q \in Seq(T) /\ \A m \in T : m.version \in Int /\ IsEvent(m.event)
  BY <1>3, <1>6 DEF ListTypes, Messages
<1>8. /\ q # <<>> /\ e = q[1] /\ e \in T /\ r \in Seq(T) /\ Len(q) \in Nat /\ Len(q) >= 1
      /\ Len(r) = Len(q) - 1 /\ \A i \in 1 .. Len(q) - 1 : r[i] = q[i + 1]
  BY <1>1, <1>6, <1>7, First
<1>9. PICK v : v = list_version[s]
  OBVIOUS
<1>10. v \in Int /\ \A k \in 1 .. Len(q) : q[k].version = v + k - 1
  BY <1>3, <1>6, <1>9 DEF ListTypes, InTurns, Consecutive
<1>11. e.version = v
  <2>1. 1 \in 1 .. Len(q) /\ v + 1 - 1 = v
    BY <1>8, <1>10
  <2>2. QED
    BY <1>8, <1>10, <2>1
<1>12. channel[o] = <<>> /\ list_bound[o]
  BY <1>1, <1>3, <1>5 DEF InTurns, TakesTurns, NotHeard
<1>13. PICK l, z, w : l = list[s] /\ z = List!Applied(l, e.event) /\ w = list[o]
  OBVIOUS
<1>14. ~conflict' /\ list_version' = [list_version EXCEPT ![s] = v + 1] /\ list' = [list EXCEPT ![s] = z]
  <2>1. e.version = list_version[s]
    BY <1>9, <1>11
  <2>2. QED
    BY <1>1, <1>6, <1>9, <1>13, <2>1 DEF List!on_wire_received
<1>15. IsSeq(l) /\ IsSeq(z)
  <2>1. IsSeq(l)
    BY <1>3, <1>13 DEF ListTypes
  <2>2. IsEvent(e.event)
    BY <1>7, <1>8
  <2>3. QED
    BY <1>13, <2>1, <2>2, AppliedSeq
<1>16. /\ DOMAIN list' = List!Ends /\ list' = [t \in List!Ends |-> list'[t]]
       /\ list'[s] = z /\ list'[o] = w
  BY <1>3, <1>5, <1>13, <1>14 DEF ListTypes
<1>17. /\ DOMAIN channel' = List!Ends /\ channel' = [t \in List!Ends |-> channel'[t]]
       /\ channel'[s] = r /\ channel'[o] = <<>>
  BY <1>1, <1>3, <1>5, <1>6, <1>12 DEF ListTypes
<1>18. /\ list_version' \in [List!Ends -> Int]
       /\ list_version'[s] = v + 1 /\ list_version'[o] = list_version[o]
  <2>1. v + 1 \in Int
    BY <1>10
  <2>2. QED
    BY <1>3, <1>5, <1>14, <2>1 DEF ListTypes
<1>19. ListTypes'
  <2>1. \A t \in List!Ends : IsSeq(list'[t])
    BY <1>3, <1>5, <1>13, <1>15, <1>16 DEF ListTypes
  <2>2. Messages(r)
    BY <1>7, <1>8 DEF Messages
  <2>3. \A t \in List!Ends : Messages(channel'[t])
    BY <1>5, <1>17, <2>2, NoListMessages
  <2>4. QED
    BY <1>1, <1>3, <1>16, <1>17, <1>18, <2>1, <2>3 DEF ListTypes, IsSeq, Messages
<1>20. ASSUME NEW k \in 1 .. Len(r) PROVE r[k].version = (v + 1) + k - 1
  <2>1. k \in 1 .. Len(q) - 1 /\ k + 1 \in 1 .. Len(q) /\ v + (k + 1) - 1 = (v + 1) + k - 1
    BY <1>8, <1>10
  <2>2. QED
    BY <1>8, <1>10, <2>1
<1>21. Consecutive(s)' /\ Consecutive(o)'
  <2>1. 1 .. Len(<<>>) = {}
    BY NoListMessages
  <2>2. QED
    BY <1>17, <1>18, <1>20, <2>1 DEF Consecutive
<1>22. list_version'[o] = (v + 1) + Len(r)
  <2>1. list_version[o] = v + Len(q)
    BY <1>3, <1>5, <1>6, <1>9, <1>12 DEF InTurns, CountsAll
  <2>2. v + Len(q) = (v + 1) + Len(r)
    BY <1>8, <1>10
  <2>3. QED
    BY <1>18, <2>1, <2>2
<1>23. CountsAll(s)' /\ CountsAll(o)'
  <2>1. CountsAll(s)'
    BY <1>5, <1>17, <1>18, <1>22 DEF CountsAll
  <2>2. r = <<>> => list_version'[s] = list_version'[o] + 0
    <3>1. r = <<>> => Len(r) = 0
      BY EmptySeq
    <3>2. r = <<>> => v + 1 = ((v + 1) + Len(r)) + 0
      BY <1>10, <3>1
    <3>3. QED
      BY <1>18, <1>22, <3>2
  <2>3. QED
    BY <1>5, <1>17, <2>1, <2>2, NoListMessages DEF CountsAll
<1>24. Replays(z, r, w)
  <2>1. Replays(l, q, w)
    BY <1>1, <1>3, <1>5, <1>6, <1>12, <1>13 DEF InTurns, CatchesUp
  <2>2. QED
    BY <1>6, <1>7, <1>8, <1>13, <2>1, ReplaysFirst
<1>25. CatchesUp(s)'
  <2>1. Replays(z, r, w)'
    BY <1>24, SameReplays
  <2>2. QED
    BY <1>1, <1>5, <1>16, <1>17, <2>1 DEF CatchesUp
<1>26. CatchesUp(o)'
  <2>1. r = <<>> => z = w
    BY <1>24, ReplaysNothing
  <2>2. Replays(w, <<>>, w)'
    BY ReplaysNothing, SameReplays
  <2>3. QED
    BY <1>1, <1>5, <1>12, <1>16, <1>17, <2>1, <2>2 DEF CatchesUp
<1>27. InTurns'
  <2>1. TakesTurns(s)' /\ TakesTurns(o)'
    BY <1>5, <1>17 DEF TakesTurns
  <2>2. NotHeard(s)' /\ NotHeard(o)'
    BY <1>1, <1>12 DEF NotHeard
  <2>3. QED
    BY <1>5, <1>21, <1>23, <1>25, <1>26, <2>1, <2>2 DEF InTurns
<1>28. QED
  BY <1>14, <1>19, <1>27

LEMMA ListNextKeeps == ListInv /\ (List!Next \/ UNCHANGED List!vars) => ListInv'
<1>1. ASSUME ListInv, UNCHANGED List!vars PROVE ListInv'
  <2>1. /\ list' = list /\ list_version' = list_version /\ list_bound' = list_bound
        /\ channel' = channel /\ conflict' = conflict /\ crossed' = crossed
    BY <1>1 DEF List!vars
  <2>2. ListTypes => ListTypes'
    BY <2>1 DEF ListTypes, IsSeq, Messages
  <2>3. InTurns => InTurns'
    <3>1. \A x, y, w : Replays(x, y, w) => Replays(x, y, w)'
      BY SameReplays
    <3>2. QED
      BY <2>1, <3>1 DEF InTurns, TakesTurns, Consecutive, CountsAll, NotHeard, CatchesUp
  <2>4. QED
    BY <1>1, <2>1, <2>2, <2>3 DEF ListInv
<1>2. ASSUME ListInv, NEW s \in List!Ends, NEW q, List!local_change(s, q),
             IsSeq(list[s]) => Events(q)
      PROVE  ListInv'
  <2>1. CASE ~crossed
    <3>1. Events(q)
      BY <1>2, <2>1 DEF ListInv, ListTypes
    <3>2. QED
      BY <1>2, <3>1, LocalChangeKeeps
  <2>2. CASE crossed
    <3>1. crossed'
      BY <1>2, <2>2 DEF List!local_change, List!send
    <3>2. QED
      BY <3>1 DEF ListInv
  <2>3. QED
    BY <2>1, <2>2
<1>3. ASSUME ListInv, NEW s \in List!Ends, NEW i \in Int, NEW v,
             \/ List!local_change(s, <<List!Add(i, v)>>)
             \/ List!local_change(s, <<List!Update(i, v)>>)
             \/ List!local_change(s, <<List!Removal(list[s], i)>>)
      PROVE  ListInv'
  <2>1. /\ IsEvent(List!Add(i, v)) /\ IsEvent(List!Update(i, v))
        /\ IsEvent(List!Removal(list[s], i))
    BY DEF IsEvent, List!Add, List!Update, List!Removal, List!Event
  <2>2. QED
    BY <1>2, <1>3, <2>1, OneEvent
<1>4. ASSUME ListInv, NEW s \in List!Ends, NEW I, List!local_change(s, List!Removals(list[s], I))
      PROVE  ListInv'
  <2>1. ASSUME IsSeq(list[s]) PROVE Events(List!Removals(list[s], I))
    <3>1. Len(list[s]) \in Nat
      BY <2>1 DEF IsSeq
    <3>2. QED
      BY <3>1, RemovalsType
  <2>2. QED
    BY <1>2, <1>4, <2>1
<1>5. ASSUME ListInv, List!Next PROVE ListInv'
  <2>1. PICK s \in List!Ends :
           \/ \E i \in 1 .. MaxLength : List!removeAt(s, i) \/ \E v \in Values : List!add(s, i, v) \/ List!set(s, i, v)
           \/ \E v \in Values : List!remove(s, v)
           \/ \E elements \in SUBSET Values : List!removeAll(s, elements)
           \/ List!clear(s) \/ List!Bind(s) \/ List!on_wire_received(s)
    BY <1>5 DEF List!Next
  <2>2. ASSUME NEW i \in 1 .. MaxLength,
               List!removeAt(s, i) \/ \E v \in Values : List!add(s, i, v) \/ List!set(s, i, v)
        PROVE  ListInv'
    <3>1. i \in Int
      OBVIOUS
    <3>2. CASE List!removeAt(s, i)
      BY <1>3, <1>5, <3>1, <3>2 DEF List!removeAt
    <3>3. ASSUME NEW v \in Values, List!add(s, i, v) \/ List!set(s, i, v) PROVE ListInv'
      BY <1>3, <1>5, <3>1, <3>3 DEF List!add, List!set
    <3>4. QED
      BY <2>2, <3>2, <3>3
  <2>3. ASSUME NEW v \in Values, List!remove(s, v) PROVE ListInv'
    <3>1. PICK i \in 1 .. Len(list[s]) : List!local_change(s, <<List!Removal(list[s], i)>>)
      BY <2>3 DEF List!remove
    <3>2. i \in Int
      OBVIOUS
    <3>3. QED
      BY <1>3, <1>5, <3>1, <3>2
  <2>4. ASSUME NEW elements \in SUBSET Values, List!removeAll(s, elements) PROVE ListInv'
    BY <1>4, <1>5, <2>4 DEF List!removeAll
  <2>5. CASE List!clear(s)
    BY <1>4, <1>5, <2>5 DEF List!clear
  <2>6. CASE List!Bind(s)
    BY <1>5, <2>6, ListBindKeeps
  <2>7. CASE List!on_wire_received(s)
    BY <1>5, <2>7, ListReceivesKeeps
  <2>8. QED
    BY <2>1, <2>2, <2>3, <2>4, <2>5, <2>6, <2>7
<1>6. QED
  BY <1>1, <1>5

LEMMA ListInit == List!Init => ListInv
<1> SUFFICES ASSUME List!Init PROVE ListInv
  OBVIOUS
<1>1. ~conflict /\ \A s \in List!Ends :
        /\ list[s] = <<>> /\ list_version[s] = 1 /\ ~list_bound[s] /\ channel[s] = <<>>
  BY DEF List!Init
<1>2. \A s \in List!Ends : IsSeq(list[s]) /\ Messages(channel[s])
  <2>1. PICK T : T = {}
    OBVIOUS
  <2>2. <<>> \in Seq(T)
    OBVIOUS
  <2>3. QED
    BY <1>1, <2>2, NoListMessages DEF IsSeq
<1>3. ListTypes
  BY <1>2 DEF ListTypes, List!Init
<1>4. \A s \in List!Ends : List!Other(s) \in List!Ends
  BY TwoSides
<1>5. 1 .. Len(<<>>) = {} /\ Len(<<>>) = 0
  BY NoListMessages
<1>6. InTurns
  BY <1>1, <1>4, <1>5 DEF InTurns, TakesTurns, Consecutive, CountsAll, NotHeard, CatchesUp
<1>7. QED
  BY <1>1, <1>3, <1>6 DEF ListInv

LEMMA ListAgrees == ListInv => List!ListReplicates
<1> SUFFICES ASSUME ListInv, ~crossed, List!Quiet(channel),
                    list_bound["master"], list_bound["slave"]
             PROVE  list["master"] = list["slave"] /\ list_version["master"] = list_version["slave"]
  BY DEF ListInv, List!ListReplicates
<1>1. "master" \in List!Ends /\ "slave" \in List!Ends /\ List!Other("master") = "slave"
  BY DEF List!Ends, List!Other
<1>2. channel["master"] = <<>> /\ channel["slave"] = <<>>
  BY <1>1 DEF List!Quiet
<1>3. CountsAll("master") /\ CatchesUp("master") /\ list_version["master"] \in Int
  BY <1>1 DEF ListInv, InTurns, ListTypes
<1>4. list_version["slave"] = list_version["master"]
  <2>1. list_version["slave"] = list_version["master"] + 0
    BY <1>1, <1>2, <1>3, NoListMessages DEF CountsAll
  <2>2. QED
    BY <1>3, <2>1
<1>5. PICK l, m : l = list["master"] /\ m = list["slave"]
  OBVIOUS
<1>6. Replays(l, <<>>, m)
  BY <1>1, <1>2, <1>3, <1>5 DEF CatchesUp
<1>7. QED
  BY <1>4, <1>5, <1>6, ReplaysNothing

\* The ends of a list that change it in turns agree when nothing is on its way,
\* whatever was in it before it was bound, and only changes that cross are
\* taken for a conflict (RdList, next_version).
THEOREM ListsAgree == List!Spec => []List!ListReplicates
<1>1. QED
  BY ListInit, ListNextKeeps, ListAgrees, PTL DEF List!Spec
=============================================================================
