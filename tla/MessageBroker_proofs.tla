------------------------- MODULE MessageBroker_proofs -------------------------
(***************************************************************************)
(* Proof that the broker keeps the order of the messages of an entity, for *)
(* any number of messages and each of the three schedulers.                *)
(*                                                                         *)
(* A message goes through up to five queues.  While there is a             *)
(* subscription their concatenation, what was delivered in front, changes  *)
(* by a new message at its end, and else the steps only move the seams.    *)
(* But a message that meets a closure between its last look at the queue   *)
(* and its end may enter the line before its end, or fall out of it.       *)
(***************************************************************************)
EXTENDS MessageBroker, SequenceTheorems, TLAPS

Messages == Seq(Nat)

\* In the order in which they came, but for the racers, and no message twice.
Steady(R, s) == \A i, j \in 1 .. Len(s) :
    i < j => s[i] # s[j] /\ (s[i] < s[j] \/ s[i] \in R \/ s[j] \in R)

Closures(s) == \A i \in 1 .. Len(s) : s[i] = Closure

Types ==
    /\ scheduler \in {"default", "own", "synchronous"}
    /\ subscription \in {"none", "yes", "over"}
    /\ mq \in [exists : BOOLEAN, default : Messages, custom : Messages]
    /\ tasks \in Messages /\ custom \in Messages /\ delivered \in Messages
    /\ closure \in [step : {"none", "taken", "emptied", "moved", "erased"},
                    subscribed : BOOLEAN, rest : Messages]
    /\ arrived \in Nat
    /\ crashed \in BOOLEAN /\ stale \in BOOLEAN

\* No message but a racer is lost without a trace, and none is invented.
Kept ==
    /\ (1 .. arrived) \ racers \subseteq ToSet(delivered) \cup Waiting \cup dropped
    /\ ToSet(delivered) \cup Waiting \cup dropped \subseteq 1 .. arrived

\* The subscription a closure has read is that of its start: it cannot come
\* meanwhile, for that is the same thread's, but it can end.  What is in the
\* entry when the closure leaves it are racers.
Places ==
    /\ closure.step = "none" => closure = NotRunning
    /\ closure.step = "emptied" => closure.rest = <<>>
    /\ closure.step \in {"emptied", "moved"} /\ mq.default # <<>> =>
          subscription # "yes" /\ ToSet(mq.default) \subseteq racers
    /\ closure.step = "moved" => ToSet(mq.custom) \subseteq racers
    /\ closure.step = "moved" /\ closure.rest # <<>> =>
          scheduler # "default" /\ subscription # "none"
    /\ closure.step = "erased" => scheduler # "default" /\ closure.rest # <<>>
    /\ closure.step # "none" => subscription # (IF closure.subscribed THEN "none" ELSE "yes")
    /\ ~mq.exists => /\ mq.default = <<>> /\ mq.custom = <<>>
                     /\ closure.step # "erased" => closure.rest = <<>>
    /\ stale => subscription # "yes"
    /\ crashed => subscription = "over"

\* Which queues a scheduler uses.
Queues ==
    /\ scheduler = "default" => custom = <<>> /\ mq.custom = <<>>
    /\ scheduler = "synchronous" => custom = <<>>
    /\ scheduler # "default" => Closures(tasks)
    /\ subscription = "none" =>
          /\ custom = <<>> /\ mq.custom = <<>> /\ delivered = <<>>
          /\ closure.step # "erased" /\ Closures(tasks)
          /\ ~stale => Len(tasks) = Len(mq.default)

\* One closure for each message that waits, and all of them before what was
\* queued under the subscription.
InFront == subscription # "over" /\ ~stale =>
    /\ Len(mq.default) =< Len(tasks)
    /\ \A i \in 1 .. Len(tasks) : tasks[i] = Closure <=> i =< Len(mq.default)

Behind == SubSeq(tasks, Len(mq.default) + 1, Len(tasks))

LineOf(a, b, c, d, e, f) == a \o (b \o (c \o (d \o (e \o f))))
Line == LineOf(delivered, custom, closure.rest, mq.default, mq.custom, Behind)

InLine ==
    /\ Steady(racers, delivered)
    /\ subscription = "none" => Steady(racers, mq.default)
    /\ subscription = "yes" => Steady(racers, Line)
    /\ closure.step = "taken" /\ closure.subscribed /\ scheduler = "default" =>
          Steady(racers, delivered \o closure.rest)

BInv == Types /\ Kept /\ Places /\ Queues /\ InFront /\ InLine

-----------------------------------------------------------------------------
(* Sequences.                                                              *)

LEMMA Elements ==
    ASSUME NEW S, NEW s \in Seq(S)
    PROVE  ToSet(s) = {s[i] : i \in 1 .. Len(s)}
  BY DEF ToSet

LEMMA Joined ==
    ASSUME NEW s \in Messages, NEW t \in Messages
    PROVE  /\ s \o t \in Messages
           /\ ToSet(s \o t) = ToSet(s) \cup ToSet(t)
           /\ s \o <<>> = s /\ <<>> \o s = s
<1>1. /\ s \o t \in Seq(Nat) /\ Len(s \o t) = Len(s) + Len(t)
      /\ Len(s) \in Nat /\ Len(t) \in Nat
      /\ \A i \in 1 .. Len(s) + Len(t) :
            (s \o t)[i] = IF i <= Len(s) THEN s[i] ELSE t[i - Len(s)]
  BY ConcatProperties DEF Messages
<1>2. /\ ToSet(s) = {s[i] : i \in 1 .. Len(s)} /\ ToSet(t) = {t[i] : i \in 1 .. Len(t)}
      /\ ToSet(s \o t) = {(s \o t)[i] : i \in 1 .. Len(s \o t)}
  BY <1>1, Elements DEF Messages
<1>3. ASSUME NEW i \in 1 .. Len(s) PROVE s[i] \in ToSet(s \o t)
  <2>1. i \in 1 .. Len(s \o t) /\ (s \o t)[i] = s[i]
    BY <1>1
  <2>2. QED
    BY <2>1, <1>2
<1>4. ASSUME NEW i \in 1 .. Len(t) PROVE t[i] \in ToSet(s \o t)
  <2>1. Len(s) + i \in 1 .. Len(s \o t) /\ (s \o t)[Len(s) + i] = t[i]
    BY <1>1
  <2>2. QED
    BY <2>1, <1>2
<1>5. ASSUME NEW i \in 1 .. Len(s \o t) PROVE (s \o t)[i] \in ToSet(s) \cup ToSet(t)
  <2>1. CASE i <= Len(s)
    BY <2>1, <1>1, <1>2
  <2>2. CASE i > Len(s)
    <3>1. i - Len(s) \in 1 .. Len(t) /\ (s \o t)[i] = t[i - Len(s)]
      BY <2>2, <1>1
    <3>2. QED
      BY <3>1, <1>2
  <2>3. QED
    BY <2>1, <2>2, <1>1
<1>6. ToSet(s \o t) = ToSet(s) \cup ToSet(t)
  BY <1>2, <1>3, <1>4, <1>5
<1>7. QED
  BY <1>1, <1>6, ConcatEmptySeq DEF Messages

LEMMA Single ==
    ASSUME NEW e \in Nat
    PROVE  <<e>> \in Messages /\ ToSet(<<e>>) = {e} /\ Len(<<e>>) = 1 /\ <<e>>[1] = e
<1>1. <<e>> \in Seq(Nat) /\ Len(<<e>>) = 1 /\ <<e>>[1] = e
  OBVIOUS
<1>2. ToSet(<<e>>) = {<<e>>[i] : i \in 1 .. 1}
  BY <1>1, Elements
<1>3. 1 .. 1 = {1}
  OBVIOUS
<1>4. QED
  BY <1>1, <1>2, <1>3 DEF Messages

LEMMA Nothing == <<>> \in Messages /\ ToSet(<<>>) = {} /\ Len(<<>>) = 0 /\ \A R : Steady(R, <<>>)
<1>1. <<>> \in Seq(Nat) /\ Len(<<>>) = 0
  OBVIOUS
<1>2. ToSet(<<>>) = {}
  BY <1>1, Elements, 1 .. 0 = {}
<1>3. \A R : Steady(R, <<>>)
  BY <1>1, 1 .. 0 = {} DEF Steady
<1>4. QED
  BY <1>1, <1>2, <1>3 DEF Messages

\* A sequence is its first element and the rest.
LEMMA Divided ==
    ASSUME NEW s \in Messages, s # <<>>
    PROVE  /\ Head(s) \in Nat /\ Head(s) = s[1] /\ Tail(s) \in Messages
           /\ Len(s) >= 1 /\ Len(Tail(s)) = Len(s) - 1
           /\ \A i \in 1 .. Len(Tail(s)) : Tail(s)[i] = s[i + 1]
           /\ s = <<Head(s)>> \o Tail(s)
           /\ ToSet(s) = {Head(s)} \cup ToSet(Tail(s))
           /\ SubSeq(s, 1, 1) = <<Head(s)>> /\ SubSeq(s, 2, Len(s)) = Tail(s)
<1>1. /\ Head(s) \in Nat /\ Head(s) = s[1] /\ Tail(s) \in Seq(Nat)
      /\ Len(s) \in Nat /\ Len(s) >= 1 /\ Len(Tail(s)) = Len(s) - 1
      /\ \A i \in 1 .. Len(Tail(s)) : Tail(s)[i] = s[i + 1]
  BY HeadTailProperties, EmptySeq DEF Messages
<1>2. SubSeq(s, 2, Len(s)) = Tail(s)
  BY TailIsSubSeq DEF Messages
<1>3. SubSeq(s, 1, Len(s)) = s
  BY SubSeqFull DEF Messages
<1>4. 1 \in 1 .. Len(s) /\ Len(s) \in 1 .. Len(s)
  BY <1>1
<1>5. SubSeq(s, 1, Len(s)) = <<s[1]>> \o SubSeq(s, 1 + 1, Len(s))
  BY <1>4, SubSeqRecursiveFirst DEF Messages
<1>6. s = <<Head(s)>> \o Tail(s)
  BY <1>1, <1>2, <1>3, <1>5
<1>7. SubSeq(s, 1, 1) = <<s[1]>> \o SubSeq(s, 1 + 1, 1)
  BY <1>4, SubSeqRecursiveFirst DEF Messages
<1>8. SubSeq(s, 1 + 1, 1) = <<>>
  BY SubSeqEmpty
<1>9. <<s[1]>> \in Messages
  BY <1>1, Single
<1>10. SubSeq(s, 1, 1) = <<Head(s)>>
  BY <1>7, <1>8, <1>9, <1>1, Joined
<1>11. ToSet(s) = {Head(s)} \cup ToSet(Tail(s))
  <2>1. <<Head(s)>> \in Messages /\ ToSet(<<Head(s)>>) = {Head(s)} /\ Tail(s) \in Messages
    BY <1>1, Single DEF Messages
  <2>2. ToSet(<<Head(s)>> \o Tail(s)) = {Head(s)} \cup ToSet(Tail(s))
    BY <2>1, Joined
  <2>3. QED
    BY <2>2, <1>6
<1>12. QED
  BY <1>1, <1>2, <1>6, <1>10, <1>11 DEF Messages

LEMMA Appended ==
    ASSUME NEW s \in Messages, NEW e \in Nat
    PROVE  /\ Append(s, e) = s \o <<e>> /\ Append(s, e) \in Messages
           /\ Len(Append(s, e)) = Len(s) + 1
           /\ ToSet(Append(s, e)) = ToSet(s) \cup {e}
           /\ \A i \in 1 .. Len(s) : Append(s, e)[i] = s[i]
           /\ Append(s, e)[Len(s) + 1] = e
<1>1. Append(s, e) = s \o <<e>>
  BY AppendIsConcat DEF Messages
<1>2. ToSet(s \o <<e>>) = ToSet(s) \cup {e}
  BY Single, Joined
<1>3. QED
  BY <1>1, <1>2, AppendProperties DEF Messages

LEMMA Associative ==
    ASSUME NEW s \in Messages, NEW t \in Messages, NEW u \in Messages
    PROVE  (s \o t) \o u = s \o (t \o u)
  BY ConcatAssociative, SMTT(30) DEF Messages

\* The parts of a steady sequence are steady.
LEMMA Parts ==
    ASSUME NEW R, NEW s \in Messages, NEW t \in Messages, Steady(R, s \o t)
    PROVE  Steady(R, s) /\ Steady(R, t)
<1>1. /\ Len(s \o t) = Len(s) + Len(t) /\ Len(s) \in Nat /\ Len(t) \in Nat
      /\ \A i \in 1 .. Len(s) + Len(t) :
            (s \o t)[i] = IF i <= Len(s) THEN s[i] ELSE t[i - Len(s)]
  BY ConcatProperties DEF Messages
<1>2. ASSUME NEW i \in 1 .. Len(s), NEW j \in 1 .. Len(s), i < j
      PROVE  s[i] # s[j] /\ (s[i] < s[j] \/ s[i] \in R \/ s[j] \in R)
  <2>1. i \in 1 .. Len(s \o t) /\ j \in 1 .. Len(s \o t)
    BY <1>1
  <2>2. (s \o t)[i] = s[i] /\ (s \o t)[j] = s[j]
    BY <1>1
  <2>3. QED
    BY <2>1, <2>2, <1>2 DEF Steady
<1>3. ASSUME NEW i \in 1 .. Len(t), NEW j \in 1 .. Len(t), i < j
      PROVE  t[i] # t[j] /\ (t[i] < t[j] \/ t[i] \in R \/ t[j] \in R)
  <2> DEFINE a == Len(s) + i
             b == Len(s) + j
  <2>1. a \in 1 .. Len(s \o t) /\ b \in 1 .. Len(s \o t) /\ a < b
    BY <1>1, <1>3
  <2>2. (s \o t)[a] = t[i] /\ (s \o t)[b] = t[j]
    BY <1>1
  <2>3. /\ (s \o t)[a] # (s \o t)[b]
        /\ (s \o t)[a] < (s \o t)[b] \/ (s \o t)[a] \in R \/ (s \o t)[b] \in R
    BY <2>1 DEF Steady
  <2>4. QED
    BY <2>2, <2>3
<1>4. QED
  BY <1>2, <1>3 DEF Steady

\* A message greater than all the others may be appended.
LEMMA Greatest ==
    ASSUME NEW R, NEW s \in Messages, NEW e \in Nat, Steady(R, s), \A x \in ToSet(s) : x < e
    PROVE  Steady(R, s \o <<e>>)
<1>1. /\ Len(s \o <<e>>) = Len(s) + 1 /\ Len(s) \in Nat
      /\ \A i \in 1 .. Len(s) : (s \o <<e>>)[i] = s[i] /\ s[i] < e
      /\ (s \o <<e>>)[Len(s) + 1] = e
  BY Appended, Elements DEF Messages
<1>2. QED
  BY <1>1 DEF Steady

\* With more racers it is as steady as before.
LEMMA MoreRacers ==
    ASSUME NEW R, NEW Q, R \subseteq Q, NEW s, Steady(R, s)
    PROVE  Steady(Q, s)
  BY DEF Steady

\* A racer that is not yet there may enter anywhere.
LEMMA Enters ==
    ASSUME NEW R, NEW s \in Messages, NEW t \in Messages, NEW e \in R, e \in Nat,
           Steady(R, s \o t), e \notin ToSet(s \o t)
    PROVE  Steady(R, s \o (<<e>> \o t))
<1> DEFINE l == s \o t
           k == Len(s)
           r == <<e>> \o t
           q == s \o r
<1>1. /\ Len(l) = k + Len(t) /\ k \in Nat /\ Len(t) \in Nat /\ l \in Messages
      /\ \A i \in 1 .. k + Len(t) : l[i] = IF i <= k THEN s[i] ELSE t[i - k]
  BY ConcatProperties DEF Messages
<1>2. /\ <<e>> \in Seq(Nat) /\ Len(<<e>>) = 1 /\ <<e>>[1] = e
  BY Single DEF Messages
<1>3. /\ Len(r) = 1 + Len(t) /\ r \in Messages
      /\ \A i \in 1 .. 1 + Len(t) : r[i] = IF i <= 1 THEN e ELSE t[i - 1]
  BY <1>1, <1>2, ConcatProperties DEF Messages
<1>4. /\ Len(q) = k + Len(r)
      /\ \A i \in 1 .. k + Len(r) : q[i] = IF i <= k THEN s[i] ELSE r[i - k]
  BY <1>3, ConcatProperties DEF Messages
<1>5. \A i \in 1 .. Len(l) : l[i] # e
  BY <1>1, Elements DEF Messages
<1> HIDE DEF l, r, q, k
<1>6. ASSUME NEW i \in 1 .. Len(q), i # k + 1
      PROVE  LET j == IF i <= k THEN i ELSE i - 1 IN j \in 1 .. Len(l) /\ q[i] = l[j]
  <2>1. CASE i <= k
    <3>1. i \in 1 .. k + Len(r) /\ i \in 1 .. k + Len(t)
      BY <2>1, <1>1, <1>3, <1>4, <1>6
    <3>2. q[i] = s[i] /\ l[i] = s[i]
      BY <2>1, <3>1, <1>1, <1>4
    <3>3. QED
      BY <2>1, <3>1, <3>2, <1>1
  <2>2. CASE i > k
    <3>1. /\ i \in 1 .. k + Len(r) /\ i - 1 \in 1 .. k + Len(t) /\ i - 1 > k
          /\ i - k \in 1 .. 1 + Len(t) /\ i - k > 1 /\ i - k - 1 = i - 1 - k
      BY <2>2, <1>1, <1>3, <1>4, <1>6
    <3>2. q[i] = r[i - k] /\ r[i - k] = t[i - k - 1] /\ l[i - 1] = t[i - 1 - k]
      BY <3>1, <2>2, <1>1, <1>3, <1>4
    <3>3. QED
      BY <2>2, <3>1, <3>2, <1>1
  <2>3. QED
    BY <2>1, <2>2, <1>1, <1>4, <1>3, <1>6
<1>7. k + 1 \in 1 .. Len(q) /\ q[k + 1] = e
  BY <1>1, <1>3, <1>4
<1>8. ASSUME NEW i \in 1 .. Len(q), NEW j \in 1 .. Len(q), i < j
      PROVE  q[i] # q[j] /\ (q[i] < q[j] \/ q[i] \in R \/ q[j] \in R)
  <2> DEFINE a == IF i <= k THEN i ELSE i - 1
             b == IF j <= k THEN j ELSE j - 1
  <2>1. CASE i = k + 1
    <3>1. b \in 1 .. Len(l) /\ q[j] = l[b]
      BY <2>1, <1>6, <1>8, <1>1
    <3>2. QED
      BY <2>1, <3>1, <1>5, <1>7
  <2>2. CASE j = k + 1
    <3>1. a \in 1 .. Len(l) /\ q[i] = l[a]
      BY <2>2, <1>6, <1>8, <1>1
    <3>2. QED
      BY <2>2, <3>1, <1>5, <1>7
  <2>3. CASE i # k + 1 /\ j # k + 1
    <3>1. a \in 1 .. Len(l) /\ q[i] = l[a]
      BY <2>3, <1>6
    <3>2. b \in 1 .. Len(l) /\ q[j] = l[b]
      BY <2>3, <1>6
    <3>3. a < b
      BY <2>3, <1>1, <1>8
    <3>4. Steady(R, l)
      BY DEF l
    <3>5. l[a] # l[b] /\ (l[a] < l[b] \/ l[a] \in R \/ l[b] \in R)
      <4> HIDE DEF a, b
      <4>1. QED
        BY <3>1, <3>2, <3>3, <3>4 DEF Steady
    <3>6. QED
      BY <3>1, <3>2, <3>5
  <2>4. QED
    BY <2>1, <2>2, <2>3
<1>9. Steady(R, q)
  BY <1>8 DEF Steady
<1>10. QED
  BY <1>9 DEF q, r

\* Six queues behind one another.
AreMessages(a, b, c, d, e, f) ==
    /\ a \in Messages /\ b \in Messages /\ c \in Messages
    /\ d \in Messages /\ e \in Messages /\ f \in Messages

LEMMA LineType ==
    ASSUME NEW a, NEW b, NEW c, NEW d, NEW e, NEW f, AreMessages(a, b, c, d, e, f)
    PROVE  /\ LineOf(a, b, c, d, e, f) \in Messages
           /\ ToSet(LineOf(a, b, c, d, e, f)) =
                ToSet(a) \cup ToSet(b) \cup ToSet(c) \cup ToSet(d) \cup ToSet(e) \cup ToSet(f)
           /\ \A R : Steady(R, LineOf(a, b, c, d, e, f)) => Steady(R, a)
<1> DEFINE t1 == e \o f
           t2 == d \o t1
           t3 == c \o t2
           t4 == b \o t3
           t5 == a \o t4
<1>1. /\ a \in Messages /\ b \in Messages /\ c \in Messages
      /\ d \in Messages /\ e \in Messages /\ f \in Messages
  BY DEF AreMessages
<1>2. LineOf(a, b, c, d, e, f) = t5
  BY DEF LineOf
<1>3. t1 \in Messages /\ ToSet(t1) = ToSet(e) \cup ToSet(f)
  BY <1>1, Joined
<1> HIDE DEF t1
<1>4. t2 \in Messages /\ ToSet(t2) = ToSet(d) \cup ToSet(t1)
  BY <1>1, <1>3, Joined
<1> HIDE DEF t2
<1>5. t3 \in Messages /\ ToSet(t3) = ToSet(c) \cup ToSet(t2)
  BY <1>1, <1>4, Joined
<1> HIDE DEF t3
<1>6. t4 \in Messages /\ ToSet(t4) = ToSet(b) \cup ToSet(t3)
  BY <1>1, <1>5, Joined
<1> HIDE DEF t4
<1>7. t5 \in Messages /\ ToSet(t5) = ToSet(a) \cup ToSet(t4)
  BY <1>1, <1>6, Joined
<1>10. \A R : Steady(R, t5) => Steady(R, a)
  BY <1>1, <1>6, Parts
<1> HIDE DEF t5
<1>8. ToSet(t5) = ToSet(a) \cup ToSet(b) \cup ToSet(c) \cup ToSet(d) \cup ToSet(e) \cup ToSet(f)
  BY <1>3, <1>4, <1>5, <1>6, <1>7
<1>9. QED
  BY <1>2, <1>7, <1>8, <1>10

\* A message at a seam of the line may belong to the queue on either side.
LEMMA Seams ==
    ASSUME NEW a, NEW b, NEW c, NEW d, NEW e, NEW f, AreMessages(a, b, c, d, e, f),
           NEW x \in Messages
    PROVE  /\ LineOf(a \o x, b, c, d, e, f) = LineOf(a, x \o b, c, d, e, f)
           /\ LineOf(a, b \o x, c, d, e, f) = LineOf(a, b, x \o c, d, e, f)
           /\ LineOf(a, b, c \o x, d, e, f) = LineOf(a, b, c, x \o d, e, f)
           /\ LineOf(a, b, c, d \o x, e, f) = LineOf(a, b, c, d, x \o e, f)
           /\ LineOf(a, b, c, d, e \o x, f) = LineOf(a, b, c, d, e, x \o f)
           /\ LineOf(a, b, c, d, e, f) \o x = LineOf(a, b, c, d, e, f \o x)
<1> DEFINE t1 == e \o f
           t2 == d \o t1
           t3 == c \o t2
           t4 == b \o t3
<1>1. t1 \in Messages
  BY Joined DEF AreMessages
<1>2. t2 \in Messages
  <2>1. d \in Messages
    BY DEF AreMessages
  <2> HIDE DEF t1
  <2>2. QED
    BY <2>1, <1>1, Joined
<1>3. t3 \in Messages
  <2>1. c \in Messages
    BY DEF AreMessages
  <2> HIDE DEF t2
  <2>2. QED
    BY <2>1, <1>2, Joined
<1>4. t4 \in Messages
  <2>1. b \in Messages
    BY DEF AreMessages
  <2> HIDE DEF t3
  <2>2. QED
    BY <2>1, <1>3, Joined
<1>5. (e \o x) \o f = e \o (x \o f) /\ (e \o f) \o x = e \o (f \o x)
  <2>1. e \in Messages /\ f \in Messages
    BY DEF AreMessages
  <2>2. QED
    BY <2>1, Associative
<1>6. (d \o x) \o t1 = d \o (x \o t1) /\ (d \o t1) \o x = d \o (t1 \o x)
      /\ x \o t1 = (x \o e) \o f
  <2>1. d \in Messages /\ e \in Messages /\ f \in Messages
    BY DEF AreMessages
  <2>2. x \o t1 = (x \o e) \o f
    BY <2>1, Associative
  <2> HIDE DEF t1
  <2>3. d \in Messages
    BY <2>1
  <2>4. (d \o x) \o t1 = d \o (x \o t1)
    BY <2>3, <1>1, Associative, SMTT(30)
  <2>5. (d \o t1) \o x = d \o (t1 \o x)
    BY <2>3, <1>1, Associative, SMTT(30)
  <2>6. QED
    BY <2>2, <2>4, <2>5
<1>7. (c \o x) \o t2 = c \o (x \o t2) /\ (c \o t2) \o x = c \o (t2 \o x)
      /\ x \o t2 = (x \o d) \o t1
  <2>1. c \in Messages /\ d \in Messages
    BY DEF AreMessages
  <2> HIDE DEF t1
  <2>2. x \o t2 = (x \o d) \o t1
    BY <2>1, <1>1, Associative
  <2> HIDE DEF t2
  <2>3. c \in Messages
    BY <2>1
  <2>4. (c \o x) \o t2 = c \o (x \o t2)
    BY <2>3, <1>2, Associative, SMTT(30)
  <2>5. (c \o t2) \o x = c \o (t2 \o x)
    BY <2>3, <1>2, Associative, SMTT(30)
  <2>6. QED
    BY <2>2, <2>4, <2>5
<1>8. (b \o x) \o t3 = b \o (x \o t3) /\ (b \o t3) \o x = b \o (t3 \o x)
      /\ x \o t3 = (x \o c) \o t2
  <2>1. b \in Messages /\ c \in Messages
    BY DEF AreMessages
  <2> HIDE DEF t2
  <2>2. x \o t3 = (x \o c) \o t2
    BY <2>1, <1>2, Associative
  <2> HIDE DEF t3
  <2>3. b \in Messages
    BY <2>1
  <2>4. (b \o x) \o t3 = b \o (x \o t3)
    BY <2>3, <1>3, Associative, SMTT(30)
  <2>5. (b \o t3) \o x = b \o (t3 \o x)
    BY <2>3, <1>3, Associative, SMTT(30)
  <2>6. QED
    BY <2>2, <2>4, <2>5
<1>9. (a \o x) \o t4 = a \o (x \o t4) /\ (a \o t4) \o x = a \o (t4 \o x)
      /\ x \o t4 = (x \o b) \o t3
  <2>1. a \in Messages /\ b \in Messages
    BY DEF AreMessages
  <2> HIDE DEF t3
  <2>2. x \o t4 = (x \o b) \o t3
    BY <2>1, <1>3, Associative
  <2> HIDE DEF t4
  <2>3. a \in Messages
    BY <2>1
  <2>4. (a \o x) \o t4 = a \o (x \o t4)
    BY <2>3, <1>4, Associative, SMTT(30)
  <2>5. (a \o t4) \o x = a \o (t4 \o x)
    BY <2>3, <1>4, Associative, SMTT(30)
  <2>6. QED
    BY <2>2, <2>4, <2>5
<1>10. LineOf(a \o x, b, c, d, e, f) = LineOf(a, x \o b, c, d, e, f)
  BY <1>9, Zenon DEF LineOf
<1>11. LineOf(a, b \o x, c, d, e, f) = LineOf(a, b, x \o c, d, e, f)
  BY <1>8, Zenon DEF LineOf
<1>12. LineOf(a, b, c \o x, d, e, f) = LineOf(a, b, c, x \o d, e, f)
  BY <1>7, Zenon DEF LineOf
<1>13. LineOf(a, b, c, d \o x, e, f) = LineOf(a, b, c, d, x \o e, f)
  BY <1>6, Zenon DEF LineOf
<1>14. LineOf(a, b, c, d, e \o x, f) = LineOf(a, b, c, d, e, x \o f)
  BY <1>5, Zenon DEF LineOf
<1>15. LineOf(a, b, c, d, e, f) \o x = LineOf(a, b, c, d, e, f \o x)
  BY <1>5, <1>6, <1>7, <1>8, <1>9, Zenon DEF LineOf
<1>16. QED
  BY <1>10, <1>11, <1>12, <1>13, <1>14, <1>15

\* The seams of a message x that moves over the queues o between.
LEMMA SeamsOver ==
    ASSUME NEW a, NEW b, NEW c, NEW d, NEW e, NEW f, AreMessages(a, b, c, d, e, f),
           NEW x \in Messages, NEW o \in Messages
    PROVE  /\ LineOf(a, b \o x, o, d, e, f) = LineOf(a, b, x \o o, d, e, f)
           /\ LineOf(a \o x, o, c, d, e, f) = LineOf(a, x \o o, c, d, e, f)
           /\ LineOf(a, o \o x, c, d, e, f) = LineOf(a, o, x \o c, d, e, f)
           /\ LineOf(a, b, o \o x, d, e, f) = LineOf(a, b, o, x \o d, e, f)
           /\ LineOf(a, b, o \o x, o, o, f) = LineOf(a, b, o, x \o o, o, f)
           /\ LineOf(a, b, o, o \o x, o, f) = LineOf(a, b, o, o, x \o o, f)
           /\ LineOf(a \o x, o, o, o, o, f) = LineOf(a, x \o o, o, o, o, f)
           /\ LineOf(a, o \o x, o, o, o, f) = LineOf(a, o, x \o o, o, o, f)
           /\ LineOf(a, o, o \o x, o, o, f) = LineOf(a, o, o, x \o o, o, f)
           /\ LineOf(a, o, o, o \o x, o, f) = LineOf(a, o, o, o, x \o o, f)
           /\ LineOf(a, o, o, o, o \o x, f) = LineOf(a, o, o, o, o, x \o f)
           /\ LineOf(a \o x, o, o, d, e, f) = LineOf(a, x \o o, o, d, e, f)
           /\ LineOf(a, o \o x, o, d, e, f) = LineOf(a, o, x \o o, d, e, f)
<1>2. /\ AreMessages(a, b, o, d, e, f) /\ AreMessages(a, o, c, d, e, f)
      /\ AreMessages(a, o, o, d, e, f)
      /\ AreMessages(a, b, o, o, o, f) /\ AreMessages(a, o, o, o, o, f)
  BY DEF AreMessages
<1>3. LineOf(a, b \o x, o, d, e, f) = LineOf(a, b, x \o o, d, e, f)
  BY <1>2, Seams
<1>4. /\ LineOf(a \o x, o, c, d, e, f) = LineOf(a, x \o o, c, d, e, f)
      /\ LineOf(a, o \o x, c, d, e, f) = LineOf(a, o, x \o c, d, e, f)
  BY <1>2, Seams
<1>5. LineOf(a, b, o \o x, d, e, f) = LineOf(a, b, o, x \o d, e, f)
  BY <1>2, Seams
<1>6. /\ LineOf(a, b, o \o x, o, o, f) = LineOf(a, b, o, x \o o, o, f)
      /\ LineOf(a, b, o, o \o x, o, f) = LineOf(a, b, o, o, x \o o, f)
  BY <1>2, Seams
<1>7. /\ LineOf(a \o x, o, o, o, o, f) = LineOf(a, x \o o, o, o, o, f)
      /\ LineOf(a, o \o x, o, o, o, f) = LineOf(a, o, x \o o, o, o, f)
      /\ LineOf(a, o, o \o x, o, o, f) = LineOf(a, o, o, x \o o, o, f)
      /\ LineOf(a, o, o, o \o x, o, f) = LineOf(a, o, o, o, x \o o, f)
      /\ LineOf(a, o, o, o, o \o x, f) = LineOf(a, o, o, o, o, x \o f)
  BY <1>2, Seams
<1>8. /\ LineOf(a \o x, o, o, d, e, f) = LineOf(a, x \o o, o, d, e, f)
      /\ LineOf(a, o \o x, o, d, e, f) = LineOf(a, o, x \o o, d, e, f)
  BY <1>2, Seams
<1>9. QED
  BY <1>3, <1>4, <1>5, <1>6, <1>7, <1>8

\* What leaves a queue joins another one over those between that add nothing.
LEMMA OverNeutral ==
    ASSUME NEW a, NEW b, NEW c, NEW d, NEW e, NEW f, AreMessages(a, b, c, d, e, f),
           NEW x \in Messages, NEW o \in Messages
    PROVE  x \o o = x /\ o \o x = x =>
           /\ LineOf(a, b \o x, o, d, e, f) = LineOf(a, b, x, d, e, f)
           /\ LineOf(a \o x, o, c, d, e, f) = LineOf(a, o, x \o c, d, e, f)
           /\ LineOf(a \o x, o, o, d, e, f) = LineOf(a, o, x, d, e, f)
           /\ LineOf(a, b, x, d, e, f) = LineOf(a, b, o, x \o d, e, f)
           /\ LineOf(a, b, x, o, o, f) = LineOf(a, b, o, o, x, f)
           /\ LineOf(a \o x, o, o, o, o, f) = LineOf(a, o, o, o, o, x \o f)
<1>1. /\ LineOf(a, b \o x, o, d, e, f) = LineOf(a, b, x \o o, d, e, f)
      /\ LineOf(a \o x, o, c, d, e, f) = LineOf(a, x \o o, c, d, e, f)
      /\ LineOf(a, o \o x, c, d, e, f) = LineOf(a, o, x \o c, d, e, f)
      /\ LineOf(a, b, o \o x, d, e, f) = LineOf(a, b, o, x \o d, e, f)
      /\ LineOf(a, b, o \o x, o, o, f) = LineOf(a, b, o, x \o o, o, f)
      /\ LineOf(a, b, o, o \o x, o, f) = LineOf(a, b, o, o, x \o o, f)
      /\ LineOf(a \o x, o, o, o, o, f) = LineOf(a, x \o o, o, o, o, f)
      /\ LineOf(a, o \o x, o, o, o, f) = LineOf(a, o, x \o o, o, o, f)
      /\ LineOf(a, o, o \o x, o, o, f) = LineOf(a, o, o, x \o o, o, f)
      /\ LineOf(a, o, o, o \o x, o, f) = LineOf(a, o, o, o, x \o o, f)
      /\ LineOf(a, o, o, o, o \o x, f) = LineOf(a, o, o, o, o, x \o f)
      /\ LineOf(a \o x, o, o, d, e, f) = LineOf(a, x \o o, o, d, e, f)
      /\ LineOf(a, o \o x, o, d, e, f) = LineOf(a, o, x \o o, d, e, f)
  BY SeamsOver
<1>2. QED
  BY <1>1, Zenon

\* An empty queue is one of those.
LEMMA OverEmpty ==
    ASSUME NEW a, NEW b, NEW c, NEW d, NEW e, NEW f, AreMessages(a, b, c, d, e, f),
           NEW x \in Messages, NEW o
    PROVE  o = <<>> =>
           /\ LineOf(a, b \o x, o, d, e, f) = LineOf(a, b, x, d, e, f)
           /\ LineOf(a \o x, o, c, d, e, f) = LineOf(a, o, x \o c, d, e, f)
           /\ LineOf(a \o x, o, o, d, e, f) = LineOf(a, o, x, d, e, f)
           /\ LineOf(a, b, x, d, e, f) = LineOf(a, b, o, x \o d, e, f)
           /\ LineOf(a, b, x, o, o, f) = LineOf(a, b, o, o, x, f)
           /\ LineOf(a \o x, o, o, o, o, f) = LineOf(a, o, o, o, o, x \o f)
<1>1. o = <<>> => o \in Messages /\ x \o o = x /\ o \o x = x
  BY Nothing, Joined
<1>2. CASE o \in Messages
  <2>1. x \o o = x /\ o \o x = x =>
        /\ LineOf(a, b \o x, o, d, e, f) = LineOf(a, b, x, d, e, f)
        /\ LineOf(a \o x, o, c, d, e, f) = LineOf(a, o, x \o c, d, e, f)
        /\ LineOf(a \o x, o, o, d, e, f) = LineOf(a, o, x, d, e, f)
        /\ LineOf(a, b, x, d, e, f) = LineOf(a, b, o, x \o d, e, f)
        /\ LineOf(a, b, x, o, o, f) = LineOf(a, b, o, o, x, f)
        /\ LineOf(a \o x, o, o, o, o, f) = LineOf(a, o, o, o, o, x \o f)
    BY <1>2, OverNeutral
  <2>2. QED
    BY <1>1, <2>1, Zenon
<1>3. QED
  BY <1>1, <1>2, Zenon

-----------------------------------------------------------------------------
(* The steps.                                                              *)

LEMMA InitHolds == Init => BInv
<1> SUFFICES ASSUME Init PROVE BInv
  BY DEF BInv
<1> USE Nothing
<1>1. Types
  BY DEF Init, Types, NoMq, NotRunning, At
<1>2. Kept
  <2>1. Waiting = {} /\ 1 .. arrived = {} /\ ToSet(delivered) = {} /\ dropped = {}
    BY DEF Init, Waiting, NoMq, NotRunning, At
  <2>2. QED
    BY <2>1 DEF Kept
<1>3. Places /\ Queues /\ InFront
  BY DEF Init, Places, Queues, InFront, NoMq, NotRunning, At, Closures
<1>4. InLine
  BY DEF Init, InLine, NoMq, NotRunning, At
<1>5. QED
  BY <1>1, <1>2, <1>3, <1>4 DEF BInv

LEMMA Subscribes == ASSUME BInv, advise_on PROVE BInv'
<1> USE DEF advise_on
<1>1. Types'
  BY DEF BInv, Types
<1>2. Kept'
  BY DEF BInv, Kept, Waiting
<1>3. Places' /\ Queues' /\ InFront'
  BY DEF BInv, Places, Queues, InFront, NotRunning, At, Closures
<1>4. InLine'
  <2>1. /\ Line' = Line
        /\ delivered = <<>> /\ custom = <<>> /\ closure.rest = <<>> /\ mq.custom = <<>>
        /\ mq.default \in Messages /\ Len(tasks) = Len(mq.default) /\ tasks \in Messages
    BY DEF BInv, Queues, Types, Line, Behind, NotRunning, At
  <2>2. Len(tasks) \in Nat
    BY <2>1 DEF Messages
  <2>3. Behind = <<>>
    BY <2>1, <2>2, SubSeqEmpty DEF Behind
  <2>4. Line' = mq.default
    BY <2>1, <2>3, Joined, Nothing DEF Line, LineOf
  <2>5. QED
    BY <2>4 DEF InLine, BInv, NotRunning, At
<1>5. QED
  BY <1>1, <1>2, <1>3, <1>4 DEF BInv

LEMMA Unsubscribes == ASSUME BInv, Unsubscribe PROVE BInv'
<1> USE DEF Unsubscribe, Subscribed
<1>1. Types'
  BY DEF BInv, Types
<1>2. Kept'
  BY DEF BInv, Kept, Waiting
<1>3. Places' /\ Queues' /\ InFront'
  BY DEF BInv, Places, Queues, InFront, Closures
<1>4. InLine'
  BY DEF BInv, InLine
<1>5. QED
  BY <1>1, <1>2, <1>3, <1>4 DEF BInv

\* A new message is greater than all that came before.
LEMMA Newest ==
    ASSUME BInv
    PROVE  /\ m \in Nat /\ m # Closure /\ m > arrived
           /\ 1 .. m = (1 .. arrived) \cup {m}
           /\ \A x \in ToSet(delivered) \cup Waiting : x \in Nat /\ x < m
<1>1. arrived \in Nat /\ m = arrived + 1
  BY DEF BInv, Types, m
<1>2. \A x \in 1 .. arrived : x \in Nat /\ x < m
  BY <1>1
<1>3. QED
  BY <1>1, <1>2 DEF BInv, Kept, Closure

LEMMA DispatchesUnknown ==
    ASSUME BInv, dispatch, DispatchUnknown
    PROVE  BInv'
<1> USE DEF dispatch, DispatchUnknown, Subscribed
<1>1. /\ m \in Nat /\ m # Closure /\ arrived' = m
      /\ 1 .. m = (1 .. arrived) \cup {m}
  BY Newest DEF m
<1>2. /\ mq \in [exists : BOOLEAN, default : Messages, custom : Messages]
      /\ mq.default \in Messages /\ tasks \in Messages /\ arrived \in Nat
      /\ Closure \in Nat
  BY DEF BInv, Types, Closure
<1>3. /\ mq'.default = Append(mq.default, m) /\ mq'.custom = mq.custom /\ mq'.exists
      /\ mq' = [exists |-> TRUE, default |-> Append(mq.default, m), custom |-> mq.custom]
  BY <1>2
<1>4. /\ mq'.default \in Messages /\ tasks' \in Messages
      /\ ToSet(mq'.default) = ToSet(mq.default) \cup {m}
      /\ ToSet(tasks') = ToSet(tasks) \cup {Closure}
  <2>1. tasks' = Append(tasks, Closure)
    OBVIOUS
  <2> HIDE DEF dispatch, DispatchUnknown
  <2>2. /\ Append(mq.default, m) \in Messages /\ Append(tasks, Closure) \in Messages
        /\ ToSet(Append(mq.default, m)) = ToSet(mq.default) \cup {m}
        /\ ToSet(Append(tasks, Closure)) = ToSet(tasks) \cup {Closure}
    BY <1>1, <1>2, Appended
  <2>3. QED
    BY <2>1, <2>2, <1>3
<1>5. Types'
  BY <1>1, <1>2, <1>3, <1>4 DEF BInv, Types
<1>14. racers \subseteq racers' /\ (closure.step \in {"emptied", "moved"} => m \in racers')
  BY DEF Meets
<1>6. Kept'
  <2>1. Waiting' = Waiting \cup {m}
    BY <1>1, <1>3, <1>4 DEF Waiting
  <2>2. (1 .. m) \ racers' \subseteq ((1 .. arrived) \ racers) \cup {m}
    BY <1>1, <1>14
  <2>3. QED
    BY <2>1, <2>2, <1>1 DEF BInv, Kept
<1>7. Places'
  <2>1. closure.step \in {"emptied", "moved"} =>
          /\ subscription # "yes"
          /\ ToSet(mq'.default) \subseteq racers'
    <3>1. mq.default # <<>> \/ ToSet(mq.default) = {}
      BY Nothing
    <3>2. QED
      BY <3>1, <1>4, <1>14 DEF BInv, Places
  <2>2. closure.step = "moved" => ToSet(mq'.custom) \subseteq racers'
    BY <1>3, <1>14 DEF BInv, Places
  <2>3. /\ UNCHANGED <<scheduler, subscription, closure, crashed, stale>>
        /\ mq'.exists
    BY <1>3
  <2> HIDE DEF dispatch, DispatchUnknown
  <2>4. QED
    BY <2>1, <2>2, <2>3 DEF BInv, Places
<1>8. Len(mq'.default) = Len(mq.default) + 1 /\ Len(tasks') = Len(tasks) + 1
  BY <1>1, <1>2, <1>3, Appended
<1>9. /\ Len(tasks) \in Nat /\ Len(mq.default) \in Nat
      /\ \A i \in 1 .. Len(tasks) : tasks'[i] = tasks[i]
      /\ tasks'[Len(tasks) + 1] = Closure
  BY <1>2, Appended DEF Messages
<1>10. Queues'
  <2>1. Closures(tasks) => Closures(tasks')
    BY <1>8, <1>9 DEF Closures
  <2>2. QED
    BY <2>1, <1>3, <1>8 DEF BInv, Queues
<1>11. InFront'
  <2>1. CASE subscription = "none" /\ ~stale
    <3>1. Len(tasks) = Len(mq.default)
      BY <2>1 DEF BInv, Queues
    <3>2. \A i \in 1 .. Len(tasks) : tasks[i] = Closure
      BY <3>1, <1>9, <2>1 DEF BInv, InFront
    <3>3. QED
      BY <3>1, <3>2, <1>8, <1>9 DEF InFront
  <2>2. CASE subscription = "over" \/ stale
    BY <2>2 DEF InFront
  <2>3. QED
    BY <2>1, <2>2 DEF BInv, Types
<1>12. InLine'
  <2>1. subscription = "none" => Steady(racers', mq'.default)
    <3>1. \A x \in ToSet(mq.default) : x < m
      BY Newest DEF Waiting
    <3>2. Steady(racers, mq.default) => Steady(racers, mq.default \o <<m>>)
      BY <3>1, <1>1, <1>2, Greatest
    <3>3. mq'.default = mq.default \o <<m>>
      BY <1>1, <1>2, <1>3, Appended
    <3>4. QED
      BY <3>2, <3>3, <1>14, MoreRacers DEF BInv, InLine
  <2>2. Steady(racers', delivered)
    BY <1>14, MoreRacers DEF BInv, InLine
  <2>3. Steady(racers, delivered \o closure.rest) => Steady(racers', delivered \o closure.rest)
    BY <1>14, MoreRacers
  <2>4. QED
    BY <2>1, <2>2, <2>3 DEF BInv, InLine
<1>13. QED
  BY <1>5, <1>6, <1>7, <1>10, <1>11, <1>12 DEF BInv

\* What was queued under the subscription.
LEMMA BehindType ==
    ASSUME BInv
    PROVE  Behind \in Messages /\ ToSet(Behind) \subseteq ToSet(tasks)
<1>1. tasks \in Seq(Nat) /\ mq.default \in Seq(Nat)
  BY DEF BInv, Types, Messages
<1>2. Len(tasks) \in Nat /\ Len(mq.default) \in Nat /\ \A i \in 1 .. Len(tasks) : tasks[i] \in Nat
  BY <1>1
<1> DEFINE a == Len(mq.default) + 1
           n == Len(tasks)
<1>3. a \in Int /\ n \in Int /\ \A i \in a .. n : tasks[i] \in Nat
  BY <1>2
<1>4. /\ Behind \in Seq(Nat) /\ Len(Behind) = (IF a <= n THEN n - a + 1 ELSE 0)
      /\ \A i \in 1 .. n - a + 1 : Behind[i] = tasks[a + i - 1]
  <2> HIDE DEF a, n
  <2>1. /\ SubSeq(tasks, a, n) \in Seq(Nat)
        /\ Len(SubSeq(tasks, a, n)) = (IF a <= n THEN n - a + 1 ELSE 0)
        /\ \A i \in 1 .. n - a + 1 : SubSeq(tasks, a, n)[i] = tasks[a + i - 1]
    BY <1>3, SubSeqProperties
  <2>2. QED
    BY <2>1 DEF Behind, a, n
<1>5. ASSUME NEW i \in 1 .. Len(Behind) PROVE Behind[i] \in ToSet(tasks)
  <2>1. a <= n /\ i \in 1 .. n - a + 1 /\ a + i - 1 \in 1 .. n
    BY <1>2, <1>4
  <2>2. Behind[i] = tasks[a + i - 1]
    BY <2>1, <1>4
  <2>3. QED
    BY <2>1, <2>2, <1>1, Elements
<1>6. ToSet(Behind) = {Behind[i] : i \in 1 .. Len(Behind)}
  BY <1>4, Elements
<1>7. QED
  BY <1>4, <1>5, <1>6 DEF Messages

LEMMA QueueTypes ==
    ASSUME BInv
    PROVE  /\ delivered \in Messages /\ custom \in Messages /\ closure.rest \in Messages
           /\ mq.default \in Messages /\ mq.custom \in Messages /\ tasks \in Messages
           /\ Behind \in Messages /\ <<>> \in Messages /\ Line \in Messages
           /\ AreMessages(delivered, custom, closure.rest, mq.default, mq.custom, Behind)
<1>1. /\ delivered \in Messages /\ custom \in Messages /\ closure.rest \in Messages
      /\ mq.default \in Messages /\ mq.custom \in Messages /\ tasks \in Messages
  BY DEF BInv, Types
<1>2. Behind \in Messages /\ <<>> \in Messages
  BY BehindType, Nothing
<1>3. AreMessages(delivered, custom, closure.rest, mq.default, mq.custom, Behind)
  BY <1>1, <1>2 DEF AreMessages
<1>4. QED
  BY <1>1, <1>2, <1>3, LineType DEF Line

\* What is in the line came before the new message, ...
LEMMA LineBefore ==
    ASSUME BInv
    PROVE  \A x \in ToSet(Line) : x < m
<1>1. ToSet(Line) = ToSet(delivered) \cup ToSet(custom) \cup ToSet(closure.rest) \cup
         ToSet(mq.default) \cup ToSet(mq.custom) \cup ToSet(Behind)
  BY QueueTypes, LineType DEF Line
<1>2. ToSet(Behind) \subseteq ToSet(tasks)
  BY BehindType
<1>3. Closure < m
  BY DEF BInv, Types, m, Closure
<1>4. ASSUME NEW x \in ToSet(Line) PROVE x < m
  <2>1. x \in ToSet(delivered) \cup Waiting \/ x = Closure
    BY <1>1, <1>2 DEF Waiting
  <2>2. QED
    BY <2>1, <1>3, Newest
<1>5. QED
  BY <1>4

\* ... which may stand at its end.
LEMMA LineGrows ==
    ASSUME BInv, Steady(racers, Line)
    PROVE  Steady(racers, Line \o <<m>>)
<1>1. m \in Nat
  BY Newest
<1>2. QED
  BY <1>1, LineBefore, QueueTypes, Greatest

LEMMA DispatchesDefault ==
    ASSUME BInv, dispatch, DispatchDefault
    PROVE  BInv'
<1>1. /\ m \in Nat /\ m # Closure /\ arrived' = m
      /\ 1 .. m = (1 .. arrived) \cup {m}
  BY Newest DEF m, dispatch
<1>2. /\ subscription = "yes" /\ scheduler = "default" /\ tasks' = Append(tasks, m)
      /\ UNCHANGED <<scheduler, subscription, mq, custom, closure, delivered, dropped, crashed, racers, stale>>
  BY DEF dispatch, DispatchDefault, Subscribed
<1>3. /\ tasks \in Messages /\ tasks' \in Messages /\ ToSet(tasks') = ToSet(tasks) \cup {m}
      /\ Len(tasks') = Len(tasks) + 1 /\ tasks'[Len(tasks) + 1] = m
      /\ \A i \in 1 .. Len(tasks) : tasks'[i] = tasks[i]
      /\ tasks' = tasks \o <<m>>
  BY <1>1, <1>2, QueueTypes, Appended
<1>4. Types'
  BY <1>1, <1>2, <1>3 DEF BInv, Types
<1>5. Kept'
  <2>1. Waiting' = Waiting \cup {m}
    BY <1>1, <1>2, <1>3 DEF Waiting
  <2>2. QED
    BY <2>1, <1>1, <1>2 DEF BInv, Kept
<1>6. Places' /\ Queues'
  BY <1>2 DEF BInv, Places, Queues
<1>7. /\ Len(tasks) \in Nat /\ Len(mq.default) \in Nat /\ Len(mq.default) =< Len(tasks)
      /\ \A i \in 1 .. Len(tasks) : tasks[i] = Closure <=> i =< Len(mq.default)
  <2>1. Len(tasks) \in Nat /\ Len(mq.default) \in Nat
    BY QueueTypes DEF Messages
  <2>2. subscription # "over" /\ ~stale
    BY <1>2 DEF BInv, Places
  <2>3. QED
    BY <2>1, <2>2 DEF BInv, InFront
<1>8. InFront'
  BY <1>7, <1>1, <1>2, <1>3 DEF InFront
<1>9. Behind' = Behind \o <<m>>
  <2> DEFINE a == Len(mq.default) + 1
             n == Len(tasks)
             k == n + 1
  <2>1. /\ a \in 1 .. k /\ k \in a .. k /\ k = Len(tasks') /\ a \in 1 .. Len(tasks')
        /\ k \in a .. Len(tasks') /\ k - 1 = n /\ n \in Nat /\ tasks'[k] = m
    BY <1>7, <1>3
  <2>2. tasks' \in Seq(Nat)
    BY <1>3 DEF Messages
  <2>3. SubSeq(tasks', a, k) = SubSeq(tasks', a, k - 1) \o <<tasks'[k]>>
    <3> HIDE DEF a, k
    <3>1. QED
      BY <2>1, <2>2, SubSeqRecursiveSecond
  <2>4. SubSeq(tasks', a, n) = SubSeq(tasks, a, n)
    <3>1. CASE a <= n
      <4>1. a \in 1 .. n /\ n \in 1 .. n
        BY <3>1, <1>7
      <4>2. <<m>> \in Seq(Nat)
        BY <1>1, Single DEF Messages
      <4>3. QED
        BY <4>1, <4>2, <1>3, SubSeqOfConcat1 DEF Messages
    <3>2. CASE a > n
      BY <3>2, <1>7, SubSeqEmpty
    <3>3. QED
      BY <3>1, <3>2, <1>7
  <2>5. Behind' = SubSeq(tasks', a, k) /\ Behind = SubSeq(tasks, a, n)
    BY <2>1, <1>2 DEF Behind
  <2>6. QED
    BY <2>1, <2>3, <2>4, <2>5
<1>10. InLine'
  <2>1. Line' = LineOf(delivered, custom, closure.rest, mq.default, mq.custom, Behind \o <<m>>)
    BY <1>2, <1>9 DEF Line
  <2>2. Line' = Line \o <<m>>
    <3>1. AreMessages(delivered, custom, closure.rest, mq.default, mq.custom, Behind)
      BY QueueTypes
    <3>2. <<m>> \in Messages
      BY <1>1, Single
    <3>3. QED
      BY <2>1, <3>1, <3>2, Seams, SMTT(30) DEF Line
  <2>3. QED
    BY <2>2, <1>2, LineGrows DEF BInv, InLine
<1>11. QED
  BY <1>4, <1>5, <1>6, <1>8, <1>10 DEF BInv

\* The default scheduler holds nothing but closures, and no more than messages wait.
LEMMA NothingBehind ==
    ASSUME BInv, scheduler # "default", subscription # "over", ~stale
    PROVE  Behind = <<>>
<1>1. /\ Len(tasks) \in Nat /\ Len(mq.default) \in Nat /\ Len(mq.default) =< Len(tasks)
      /\ \A i \in 1 .. Len(tasks) : tasks[i] = Closure <=> i =< Len(mq.default)
  BY QueueTypes DEF Messages, BInv, InFront
<1>2. \A i \in 1 .. Len(tasks) : tasks[i] = Closure
  BY DEF BInv, Queues, Closures
<1>3. Len(tasks) = Len(mq.default)
  BY <1>1, <1>2
<1>4. QED
  BY <1>1, <1>3, SubSeqEmpty DEF Behind

LEMMA DispatchesWaiting ==
    ASSUME BInv, dispatch, DispatchCustom, mq.exists
    PROVE  BInv'
<1>1. /\ m \in Nat /\ m # Closure /\ arrived' = m
      /\ 1 .. m = (1 .. arrived) \cup {m}
  BY Newest DEF m, dispatch
<1>2. /\ subscription = "yes" /\ scheduler # "default"
      /\ mq' = [mq EXCEPT !.custom = Append(@, m)] /\ ~stale
      /\ racers \subseteq racers' /\ (closure.step \in {"emptied", "moved"} => m \in racers')
      /\ UNCHANGED <<scheduler, subscription, tasks, custom, closure, delivered, dropped, crashed, stale>>
  BY DEF dispatch, DispatchCustom, Subscribed, Meets, BInv, Places
<1>3. mq \in [exists : BOOLEAN, default : Messages, custom : Messages]
  BY DEF BInv, Types
<1>4. mq' = [exists |-> mq.exists, default |-> mq.default, custom |-> Append(mq.custom, m)]
  BY <1>2, <1>3
<1>5. /\ mq'.custom \in Messages /\ ToSet(mq'.custom) = ToSet(mq.custom) \cup {m}
      /\ mq'.custom = mq.custom \o <<m>>
      /\ mq'.default = mq.default /\ mq'.exists = mq.exists
  BY <1>1, <1>4, QueueTypes, Appended
<1>6. Types'
  BY <1>1, <1>2, <1>3, <1>4, <1>5 DEF BInv, Types
<1>7. Kept'
  <2>1. Waiting' = Waiting \cup {m}
    BY <1>1, <1>2, <1>5 DEF Waiting
  <2>2. QED
    BY <2>1, <1>1, <1>2 DEF BInv, Kept
<1>8. Places' /\ Queues' /\ InFront'
  BY <1>2, <1>5 DEF BInv, Places, Queues, InFront, NotRunning, Closures
<1>9. InLine'
  <2>1. Behind = <<>> /\ Behind' = Behind
    BY <1>2, <1>5, NothingBehind DEF Behind
  <2>2. Line' = LineOf(delivered, custom, closure.rest, mq.default, mq.custom \o <<m>>, Behind)
    BY <2>1, <1>2, <1>5 DEF Line
  <2>3. <<m>> \in Messages /\ <<m>> \o Behind = Behind \o <<m>>
    BY <2>1, <1>1, Single, Joined
  <2>4. Line' = Line \o <<m>>
    <3>1. AreMessages(delivered, custom, closure.rest, mq.default, mq.custom, Behind)
      BY QueueTypes
    <3>2. <<m>> \in Messages
      BY <2>3
    <3>3. LineOf(delivered, custom, closure.rest, mq.default, mq.custom \o <<m>>, Behind) =
             LineOf(delivered, custom, closure.rest, mq.default, mq.custom, <<m>> \o Behind)
      BY <3>1, <3>2, Seams
    <3>4. LineOf(delivered, custom, closure.rest, mq.default, mq.custom, Behind) \o <<m>> =
             LineOf(delivered, custom, closure.rest, mq.default, mq.custom, Behind \o <<m>>)
      BY <3>1, <3>2, Seams, SMTT(30)
    <3>5. QED
      BY <2>2, <2>3, <3>3, <3>4 DEF Line
  <2>5. Steady(racers', Line') /\ Steady(racers', delivered)
    BY <2>4, <1>2, LineGrows, MoreRacers DEF BInv, InLine
  <2>6. Steady(racers, delivered \o closure.rest) => Steady(racers', delivered \o closure.rest)
    BY <1>2, MoreRacers
  <2>7. QED
    BY <2>5, <2>6, <1>2 DEF BInv, InLine
<1>10. QED
  BY <1>6, <1>7, <1>8, <1>9 DEF BInv

LEMMA DispatchesAtOnce ==
    ASSUME BInv, dispatch, DispatchCustom, ~mq.exists
    PROVE  BInv'
<1>1. /\ m \in Nat /\ m # Closure /\ arrived' = m
      /\ 1 .. m = (1 .. arrived) \cup {m}
  BY Newest DEF m, dispatch
<1>2. /\ subscription = "yes" /\ scheduler # "default" /\ ~stale
      /\ racers \subseteq racers' /\ (closure.step = "erased" => m \in racers')
      /\ UNCHANGED <<scheduler, subscription, mq, tasks, closure, crashed, stale>>
      /\ invoke(<<m>>)
  BY DEF dispatch, DispatchCustom, Subscribed, Meets, BInv, Places
<1>3. \/ scheduler = "own" /\ custom' = custom \o <<m>> /\ UNCHANGED <<delivered, dropped>>
      \/ /\ scheduler = "synchronous" /\ delivered' = delivered \o <<m>>
         /\ UNCHANGED <<custom, dropped>>
  BY <1>2 DEF invoke, Execute, Subscribed, BInv, Types
<1>4. <<m>> \in Messages /\ ToSet(<<m>>) = {m}
  BY <1>1, Single
<1>5. /\ delivered' \in Messages /\ custom' \in Messages
      /\ ToSet(delivered') \cup ToSet(custom') = ToSet(delivered) \cup ToSet(custom) \cup {m}
  <2>1. /\ delivered \o <<m>> \in Messages /\ ToSet(delivered \o <<m>>) = ToSet(delivered) \cup {m}
        /\ custom \o <<m>> \in Messages /\ ToSet(custom \o <<m>>) = ToSet(custom) \cup {m}
    BY <1>4, QueueTypes, Joined
  <2>2. QED
    BY <2>1, <1>3, QueueTypes
<1>6. Types'
  BY <1>1, <1>2, <1>5 DEF BInv, Types
<1>7. Kept'
  <2>1. ToSet(delivered') \cup Waiting' = ToSet(delivered) \cup Waiting \cup {m}
    BY <1>2, <1>5 DEF Waiting
  <2>2. (1 .. m) \ racers' \subseteq ((1 .. arrived) \ racers) \cup {m}
    BY <1>1, <1>2
  <2>3. QED
    BY <2>1, <2>2, <1>1, <1>3 DEF BInv, Kept
<1>8. Places' /\ Queues' /\ InFront'
  BY <1>2, <1>3 DEF BInv, Places, Queues, InFront, NotRunning, Closures
<1>9. mq.default = <<>> /\ mq.custom = <<>> /\ Behind = <<>> /\ Behind' = Behind
  BY <1>2, NothingBehind DEF BInv, Places, Behind
<1>10. /\ Line = delivered \o (custom \o closure.rest)
       /\ Line' = delivered' \o (custom' \o closure.rest)
  <2> DEFINE r == closure.rest
  <2>1. <<>> \o <<>> = <<>> /\ r \o <<>> = r
    BY QueueTypes, Joined
  <2> HIDE DEF r
  <2>2. r \o (<<>> \o (<<>> \o <<>>)) = r
    BY <2>1
  <2>3. Line = delivered \o (custom \o (r \o (<<>> \o (<<>> \o <<>>))))
    BY <1>9 DEF Line, LineOf, r
  <2>4. Line' = delivered' \o (custom' \o (r \o (<<>> \o (<<>> \o <<>>))))
    BY <1>2, <1>9 DEF Line, LineOf, r
  <2>5. QED
    BY <2>2, <2>3, <2>4 DEF r
<1> DEFINE front == delivered \o custom
           rest == closure.rest
<1>11. /\ front \in Messages /\ rest \in Messages
       /\ Line = front \o rest /\ Line' = front \o (<<m>> \o rest)
  <2>1. /\ delivered \in Messages /\ custom \in Messages /\ rest \in Messages
        /\ <<m>> \in Messages
    BY <1>4, QueueTypes
  <2>2. <<m>> \o rest \in Messages /\ front \in Messages
    BY <2>1, Joined
  <2> DEFINE newRest == <<m>> \o rest
  <2> HIDE DEF rest
  <2>3. (delivered \o custom) \o rest = delivered \o (custom \o rest)
    BY <2>1, Associative
  <2>4. (delivered \o custom) \o (<<m>> \o rest) = delivered \o (custom \o (<<m>> \o rest))
    <3>1. newRest \in Messages
      BY <2>2
    <3> HIDE DEF newRest
    <3>2. (delivered \o custom) \o newRest = delivered \o (custom \o newRest)
      BY <2>1, <3>1, Associative
    <3>3. QED
      BY <3>2 DEF newRest
  <2>5. custom \o (<<m>> \o rest) = (custom \o <<m>>) \o rest
    BY <2>1, Associative
  <2>6. CASE scheduler = "own"
    <3>1. custom' = custom \o <<m>> /\ delivered' = delivered
      BY <2>6, <1>3
    <3>2. Line' = delivered \o (custom \o (<<m>> \o rest)) /\ Line = delivered \o (custom \o rest)
      BY <3>1, <2>5, <1>10 DEF rest
    <3>3. QED
      BY <3>2, <2>1, <2>2, <2>3, <2>4
  <2>7. CASE scheduler = "synchronous"
    <3>1. custom = <<>> /\ custom' = <<>> /\ delivered' = delivered \o <<m>>
      BY <2>7, <1>3 DEF BInv, Queues
    <3>2. /\ <<>> \o rest = rest /\ <<>> \o (<<m>> \o rest) = <<m>> \o rest
          /\ (delivered \o <<m>>) \o rest = delivered \o (<<m>> \o rest)
      BY <2>1, <2>2, Joined, Associative
    <3>3. Line' = delivered \o (<<m>> \o rest)
      BY <3>1, <3>2, <1>10 DEF rest
    <3>4. delivered \o (custom \o (<<m>> \o rest)) = delivered \o (<<m>> \o rest)
      BY <3>1, <3>2
    <3>5. Line = delivered \o (custom \o rest)
      BY <1>10 DEF rest
    <3>6. QED
      BY <2>1, <2>2, <2>3, <2>4, <3>3, <3>4, <3>5
  <2>8. QED
    BY <2>6, <2>7, <1>3
<1> HIDE DEF front
<1>12. InLine'
  <2>1. Steady(racers', Line')
    <3>1. CASE rest = <<>>
      <4>1. Line' = Line \o <<m>>
        <5> HIDE DEF rest
        <5>1. front \o rest = front /\ <<m>> \o rest = <<m>>
          BY <3>1, <1>4, <1>11, Joined
        <5>2. QED
          BY <5>1, <1>11
      <4>2. Steady(racers, Line')
        BY <4>1, <1>2, LineGrows DEF BInv, InLine
      <4>3. QED
        BY <4>2, <1>2, MoreRacers
    <3>2. CASE rest # <<>>
      <4>1. m \in racers'
        <5>1. closure.step = "erased"
          BY <3>2 DEF BInv, Places
        <5>2. QED
          BY <5>1, <1>2
      <4>2. Steady(racers', Line)
        BY <1>2, MoreRacers DEF BInv, InLine
      <4>3. m \notin ToSet(Line)
        BY <1>1, LineBefore
      <4> HIDE DEF rest
      <4>4. QED
        BY <4>1, <4>2, <4>3, <1>1, <1>11, Enters
    <3>3. QED
      BY <3>1, <3>2
  <2>2. Steady(racers', delivered')
    <3>1. custom' \o closure.rest \in Messages
      BY <1>5, <1>11, Joined
    <3>2. QED
      BY <2>1, <3>1, <1>5, <1>10, Parts
  <2>3. closure.step = "taken" => closure.rest = <<>>
    BY DEF BInv, Places
  <2>4. QED
    BY <2>1, <2>2, <2>3, <1>2 DEF InLine
<1>13. QED
  BY <1>6, <1>7, <1>8, <1>12 DEF BInv

LEMMA RunsInvoke == ASSUME BInv, RunInvoke PROVE BInv'
<1> DEFINE h == Head(tasks)
<1>1. /\ closure = NotRunning /\ tasks # <<>> /\ h # Closure /\ tasks' = Tail(tasks)
      /\ Execute(<<h>>)
      /\ UNCHANGED <<scheduler, subscription, mq, custom, closure, arrived, crashed, racers, stale>>
  BY DEF RunInvoke
<1>2. /\ tasks \in Messages /\ h \in Nat /\ h = tasks[1] /\ tasks' \in Messages
      /\ Len(tasks) >= 1 /\ Len(tasks') = Len(tasks) - 1 /\ Len(tasks) \in Nat
      /\ \A i \in 1 .. Len(tasks') : tasks'[i] = tasks[i + 1]
      /\ tasks = <<h>> \o tasks' /\ ToSet(tasks) = {h} \cup ToSet(tasks')
      /\ <<h>> \in Messages /\ ToSet(<<h>>) = {h}
  <2>1. tasks \in Messages /\ tasks # <<>>
    BY <1>1, QueueTypes
  <2>2. Len(tasks) \in Nat
    BY <2>1 DEF Messages
  <2>3. QED
    BY <2>1, <2>2, <1>1, Divided, Single
<1>3. 1 \in 1 .. Len(tasks)
  BY <1>2
<1>4. scheduler = "default"
  BY <1>1, <1>2, <1>3 DEF BInv, Queues, Closures
<1>5. subscription # "over" =>
         mq.default = <<>> /\ Len(mq.default) = 0 /\ subscription = "yes" /\ ~stale
  <2> SUFFICES ASSUME subscription # "over"
               PROVE  mq.default = <<>> /\ Len(mq.default) = 0 /\ subscription = "yes" /\ ~stale
    OBVIOUS
  <2>0. subscription = "yes" /\ ~stale
    BY <1>1, <1>2, <1>3 DEF BInv, Queues, Closures, Types, Places
  <2>1. ~ 1 =< Len(mq.default)
    BY <2>0, <1>1, <1>2, <1>3 DEF BInv, InFront
  <2>2. Len(mq.default) \in Nat /\ (Len(mq.default) = 0 => mq.default = <<>>)
    BY QueueTypes DEF Messages
  <2>3. QED
    BY <2>0, <2>1, <2>2
<1>6. \/ /\ subscription = "yes" /\ delivered' = delivered \o <<h>> /\ dropped' = dropped
      \/ /\ subscription = "over" /\ dropped' = dropped \cup {h} /\ delivered' = delivered
  BY <1>1, <1>2, <1>5 DEF Execute, Subscribed, BInv, Types
<1>7. delivered \o <<h>> \in Messages /\ ToSet(delivered \o <<h>>) = ToSet(delivered) \cup {h}
  BY <1>2, QueueTypes, Joined
<1>8. Types'
  BY <1>1, <1>2, <1>6, <1>7 DEF BInv, Types
<1>9. Kept'
  <2>1. Waiting = Waiting' \cup {h}
    BY <1>1, <1>2 DEF Waiting
  <2>2. ToSet(delivered') \cup dropped' = ToSet(delivered) \cup dropped \cup {h}
    BY <1>6, <1>7
  <2>3. QED
    BY <2>1, <2>2, <1>1 DEF BInv, Kept
<1>10. Places' /\ Queues'
  BY <1>1, <1>4, <1>6 DEF BInv, Places, Queues
<1>11. InFront'
  <2>1. CASE subscription = "yes"
    <3>1. \A i \in 1 .. Len(tasks) : tasks[i] # Closure
      BY <2>1, <1>5, <1>2 DEF BInv, InFront
    <3>2. \A i \in 1 .. Len(tasks') : tasks'[i] # Closure
      BY <3>1, <1>2
    <3>3. QED
      BY <3>2, <2>1, <1>1, <1>2, <1>5 DEF InFront
  <2>2. CASE subscription = "over"
    BY <2>2, <1>1 DEF InFront
  <2>3. QED
    BY <2>1, <2>2, <1>6
<1>12. InLine'
  <2>1. CASE subscription = "yes"
    <3>1. Behind = tasks /\ Behind' = tasks'
      <4>1. 0 + 1 = 1
        OBVIOUS
      <4>2. SubSeq(tasks, 1, Len(tasks)) = tasks /\ SubSeq(tasks', 1, Len(tasks')) = tasks'
        BY <1>2, SubSeqFull DEF Messages
      <4>3. QED
        BY <4>1, <4>2, <2>1, <1>1, <1>5 DEF Behind
    <3>2. custom = <<>> /\ closure.rest = <<>> /\ mq.custom = <<>>
      BY <1>1, <1>4 DEF BInv, Queues, NotRunning, At
    <3>3. /\ Line = LineOf(delivered, custom, custom, custom, custom, <<h>> \o tasks')
          /\ Line' = LineOf(delivered \o <<h>>, custom, custom, custom, custom, tasks')
      BY <3>1, <3>2, <2>1, <1>1, <1>2, <1>5, <1>6 DEF Line
    <3>4. AreMessages(delivered, custom, custom, custom, custom, tasks')
      BY <1>2, QueueTypes DEF AreMessages
    <3>5. Line' = Line
      <4>1. <<h>> \in Messages /\ custom = <<>>
        BY <1>2, <3>2
      <4>2. LineOf(delivered \o <<h>>, custom, custom, custom, custom, tasks') =
              LineOf(delivered, custom, custom, custom, custom, <<h>> \o tasks')
        BY <4>1, <3>4, OverEmpty
      <4>3. QED
        BY <4>2, <3>3
    <3>6. Steady(racers, Line')
      BY <3>5, <2>1 DEF BInv, InLine
    <3>7. Line' = delivered' \o tasks'
      <4>1. <<>> \o tasks' = tasks'
        BY <1>2, Joined
      <4>2. QED
        BY <4>1, <3>2, <3>3, <2>1, <1>6 DEF LineOf
    <3>8. Steady(racers, delivered')
      BY <3>6, <3>7, <1>2, <1>6, <1>7, <2>1, Parts
    <3>9. QED
      BY <3>6, <3>8, <2>1, <1>1 DEF InLine, NotRunning, At
  <2>2. CASE subscription = "over"
    BY <2>2, <1>1, <1>6 DEF BInv, InLine
  <2>3. QED
    BY <2>1, <2>2, <1>6
<1>13. QED
  BY <1>8, <1>9, <1>10, <1>11, <1>12 DEF BInv

LEMMA RunsCustom == ASSUME BInv, RunCustom PROVE BInv'
<1> DEFINE h == Head(custom)
<1>1. /\ custom # <<>> /\ custom' = Tail(custom) /\ Execute(<<h>>)
      /\ UNCHANGED <<scheduler, subscription, mq, tasks, closure, arrived, crashed, racers, stale>>
  BY DEF RunCustom
<1>2. /\ custom \in Messages /\ h \in Nat /\ custom' \in Messages
      /\ custom = <<h>> \o custom' /\ ToSet(custom) = {h} \cup ToSet(custom')
      /\ <<h>> \in Messages /\ ToSet(<<h>>) = {h}
  <2>1. custom \in Messages /\ custom # <<>>
    BY <1>1, QueueTypes
  <2>2. QED
    BY <2>1, <1>1, Divided, Single
<1>3. scheduler = "own" /\ subscription # "none"
  BY <1>1 DEF BInv, Queues, Types
<1>4. \/ /\ subscription = "yes" /\ delivered' = delivered \o <<h>> /\ dropped' = dropped
      \/ /\ subscription = "over" /\ dropped' = dropped \cup {h} /\ delivered' = delivered
  BY <1>1, <1>2, <1>3 DEF Execute, Subscribed, BInv, Types
<1>5. delivered \o <<h>> \in Messages /\ ToSet(delivered \o <<h>>) = ToSet(delivered) \cup {h}
  BY <1>2, QueueTypes, Joined
<1>6. Types'
  BY <1>1, <1>2, <1>4, <1>5 DEF BInv, Types
<1>7. Kept'
  <2>1. Waiting \cup {h} = Waiting' \cup {h}
    BY <1>1, <1>2 DEF Waiting
  <2>2. ToSet(delivered') \cup dropped' = ToSet(delivered) \cup dropped \cup {h}
    BY <1>4, <1>5
  <2>3. h \in Waiting
    BY <1>2 DEF Waiting
  <2>4. QED
    BY <2>1, <2>2, <2>3, <1>1 DEF BInv, Kept
<1>8. Places' /\ Queues' /\ InFront'
  BY <1>1, <1>3, <1>4 DEF BInv, Places, Queues, InFront, Closures
<1>9. InLine'
  <2>1. CASE subscription = "yes"
    <3>1. /\ Line' = LineOf(delivered \o <<h>>, custom', closure.rest, mq.default, mq.custom, Behind)
          /\ Line = LineOf(delivered, <<h>> \o custom', closure.rest, mq.default, mq.custom, Behind)
      BY <2>1, <1>1, <1>2, <1>4 DEF Line, Behind
    <3>2. AreMessages(delivered, custom', closure.rest, mq.default, mq.custom, Behind)
      BY <1>2, QueueTypes DEF AreMessages
    <3>3. <<h>> \in Messages
      BY <1>2
    <3>4. Line' = Line
      BY <3>1, <3>2, <3>3, Seams
    <3>5. Steady(racers, Line')
      BY <3>4, <2>1 DEF BInv, InLine
    <3>6. Steady(racers, delivered')
      <4>1. /\ AreMessages(delivered', custom', closure.rest, mq.default, mq.custom, Behind)
            /\ Line' = LineOf(delivered', custom', closure.rest, mq.default, mq.custom, Behind)
        BY <3>1, <3>2, <2>1, <1>4, <1>5 DEF AreMessages
      <4>2. QED
        BY <4>1, <3>5, LineType
    <3>7. QED
      BY <3>5, <3>6, <2>1, <1>1, <1>3 DEF InLine
  <2>2. CASE subscription = "over"
    BY <2>2, <1>1, <1>4 DEF BInv, InLine
  <2>3. QED
    BY <2>1, <2>2, <1>4
<1>10. QED
  BY <1>6, <1>7, <1>8, <1>9 DEF BInv

LEMMA Takes == ASSUME BInv, ClosureTakes PROVE BInv'
<1> DEFINE n == IF mq.default = <<>> THEN 0 ELSE 1
           first == SubSeq(mq.default, 1, n)
           left == SubSeq(mq.default, n + 1, Len(mq.default))
<1>1. /\ closure = NotRunning /\ tasks # <<>> /\ Head(tasks) = Closure /\ tasks' = Tail(tasks) /\ ~stale
      /\ closure' = [step |-> "taken", subscribed |-> Subscribed, rest |-> first]
      /\ mq' = [mq EXCEPT !.default = left]
      /\ UNCHANGED <<scheduler, subscription, custom, arrived, delivered, dropped, crashed, racers, stale>>
  BY DEF ClosureTakes, At
<1>2. mq' = [exists |-> mq.exists, default |-> left, custom |-> mq.custom]
  BY <1>1 DEF BInv, Types
<1>3. /\ first \in Messages /\ left \in Messages /\ mq.default = first \o left
      /\ ToSet(mq.default) = ToSet(first) \cup ToSet(left)
      /\ mq.default # <<>> => Len(mq.default) >= 1 /\ Len(left) = Len(mq.default) - 1
      /\ mq.default = <<>> => first = <<>> /\ left = <<>>
  <2>1. CASE mq.default = <<>>
    <3>1. n = 0 /\ Len(mq.default) = 0
      BY <2>1, Nothing
    <3>2. SubSeq(mq.default, 1, 0) = <<>> /\ SubSeq(mq.default, 0 + 1, 0) = <<>>
      BY SubSeqEmpty
    <3>3. first = <<>> /\ left = <<>>
      BY <3>1, <3>2
    <3> HIDE DEF first, left
    <3>4. QED
      BY <3>3, <2>1, Nothing, Joined
  <2>2. CASE mq.default # <<>>
    <3>1. n = 1 /\ n + 1 = 2
      BY <2>2
    <3>2. first = <<Head(mq.default)>> /\ left = Tail(mq.default)
      BY <3>1, <2>2, QueueTypes, Divided
    <3> HIDE DEF first, left
    <3>3. /\ Head(mq.default) \in Nat /\ left \in Messages /\ mq.default = first \o left
          /\ ToSet(mq.default) = {Head(mq.default)} \cup ToSet(left)
          /\ Len(mq.default) >= 1 /\ Len(left) = Len(mq.default) - 1
      BY <3>2, <2>2, QueueTypes, Divided
    <3>4. QED
      BY <3>2, <3>3, <2>2, Single
  <2>3. QED
    BY <2>1, <2>2
<1> HIDE DEF first, left
<1>4. /\ tasks \in Messages /\ tasks[1] = Closure /\ tasks' \in Messages
      /\ Len(tasks) >= 1 /\ Len(tasks') = Len(tasks) - 1 /\ Len(tasks) \in Nat
      /\ \A i \in 1 .. Len(tasks') : tasks'[i] = tasks[i + 1]
      /\ ToSet(tasks) = {Closure} \cup ToSet(tasks')
  <2>1. tasks \in Messages /\ tasks # <<>>
    BY <1>1, QueueTypes
  <2>2. Len(tasks) \in Nat
    BY <2>1 DEF Messages
  <2>3. QED
    BY <2>1, <2>2, <1>1, Divided
<1>5. Types'
  BY <1>1, <1>2, <1>3, <1>4 DEF BInv, Types, Subscribed
<1>6. closure.rest = <<>> /\ ToSet(closure.rest) = {} /\ ~closure.subscribed /\ closure.step = "none"
  BY <1>1, Nothing DEF NotRunning, At
<1>7. Kept'
  <2>1. Waiting = Waiting'
    BY <1>1, <1>2, <1>3, <1>4, <1>6 DEF Waiting
  <2>2. QED
    BY <2>1, <1>1 DEF BInv, Kept
<1>8. Places'
  BY <1>1, <1>2, <1>3 DEF BInv, Places, Subscribed
<1>9. Len(mq.default) \in Nat
  BY QueueTypes DEF Messages
<1>10. subscription # "over" => mq.default # <<>> /\ Len(left) = Len(mq.default) - 1
  <2>1. subscription # "over" => 1 =< Len(mq.default)
    BY <1>1, <1>4 DEF BInv, InFront
  <2>2. QED
    BY <2>1, <1>3, Nothing
<1>11. Queues'
  <2>1. Closures(tasks) => Closures(tasks')
    BY <1>4 DEF Closures
  <2>2. QED
    BY <2>1, <1>1, <1>2, <1>4, <1>9, <1>10 DEF BInv, Queues
<1>12. InFront'
  <2>1. SUFFICES ASSUME subscription # "over"
                 PROVE  /\ Len(left) =< Len(tasks')
                        /\ \A i \in 1 .. Len(tasks') : tasks'[i] = Closure <=> i =< Len(left)
    BY <1>1, <1>2 DEF InFront
  <2>2. /\ Len(mq.default) =< Len(tasks)
        /\ \A i \in 1 .. Len(tasks) : tasks[i] = Closure <=> i =< Len(mq.default)
    BY <2>1, <1>1 DEF BInv, InFront
  <2>3. QED
    BY <2>1, <2>2, <1>4, <1>9, <1>10
<1>13. InLine'
  <2>1. Steady(racers, delivered')
    BY <1>1 DEF BInv, InLine
  <2>2. subscription = "none" => Steady(racers, mq'.default)
    <3>1. subscription = "none" => Steady(racers, mq.default)
      BY DEF BInv, InLine
    <3>2. first \in Messages /\ left \in Messages /\ mq.default = first \o left /\ mq'.default = left
      BY <1>2, <1>3
    <3>3. Steady(racers, first \o left) => Steady(racers, left)
      BY <3>2, Parts
    <3>4. QED
      BY <3>1, <3>2, <3>3
  <2>7. LineOf(delivered, custom, first, left, mq.custom, Behind) = Line
    <3>1. AreMessages(delivered, custom, first, left, mq.custom, Behind)
      BY <1>3, QueueTypes DEF AreMessages
    <3>2. first \in Messages /\ closure.rest = <<>>
      BY <1>3, <1>6
    <3>3. LineOf(delivered, custom, first, left, mq.custom, Behind) =
            LineOf(delivered, custom, closure.rest, first \o left, mq.custom, Behind)
      BY <3>1, <3>2, OverEmpty
    <3>4. QED
      BY <3>3, <1>3 DEF Line
  <2>3. ASSUME subscription = "yes" PROVE Line' = Line
    <3>1. Behind' = Behind
      <4> DEFINE k == Len(mq.default)
      <4>1. /\ Behind' = SubSeq(Tail(tasks), Len(left) + 1, Len(tasks'))
            /\ Behind = SubSeq(tasks, k + 1, Len(tasks))
            /\ Len(left) + 1 = k /\ k >= 1 /\ k =< Len(tasks)
        BY <2>3, <1>1, <1>2, <1>3, <1>9, <1>10 DEF Behind, BInv, InFront
      <4>2. /\ Len(tasks') = Len(tasks) - 1 /\ k \in Nat /\ Len(tasks) \in Nat
            /\ tasks \in Seq(Nat) /\ tasks' \in Seq(Nat)
            /\ \A i \in 1 .. Len(tasks') : tasks'[i] \in Nat /\ tasks'[i] = tasks[i + 1]
            /\ \A i \in 1 .. Len(tasks) : tasks[i] \in Nat
        BY <1>4, <1>9, ElementOfSeq DEF Messages
      <4> HIDE DEF k
      <4>3. /\ SubSeq(tasks', k, Len(tasks')) \in Seq(Nat)
            /\ Len(SubSeq(tasks', k, Len(tasks'))) =
                 IF k <= Len(tasks') THEN Len(tasks') - k + 1 ELSE 0
            /\ \A i \in 1 .. Len(tasks') - k + 1 :
                 SubSeq(tasks', k, Len(tasks'))[i] = tasks'[k + i - 1]
        <5>1. k \in Int /\ Len(tasks') \in Int /\ \A i \in k .. Len(tasks') : tasks'[i] \in Nat
          BY <4>1, <4>2
        <5>2. QED
          BY <5>1, SubSeqProperties
      <4>4. /\ SubSeq(tasks, k + 1, Len(tasks)) \in Seq(Nat)
            /\ Len(SubSeq(tasks, k + 1, Len(tasks))) =
                 IF k + 1 <= Len(tasks) THEN Len(tasks) - (k + 1) + 1 ELSE 0
            /\ \A i \in 1 .. Len(tasks) - (k + 1) + 1 :
                 SubSeq(tasks, k + 1, Len(tasks))[i] = tasks[k + 1 + i - 1]
        <5>1. /\ k + 1 \in Int /\ Len(tasks) \in Int
              /\ \A i \in k + 1 .. Len(tasks) : tasks[i] \in Nat
          BY <4>1, <4>2
        <5>2. QED
          BY <5>1, SubSeqProperties
      <4> DEFINE s == SubSeq(tasks', k, Len(tasks'))
                 t == SubSeq(tasks, k + 1, Len(tasks))
      <4>5. s \in Seq(Nat) /\ t \in Seq(Nat) /\ Len(s) = Len(t)
        BY <4>2, <4>3, <4>4
      <4>6. ASSUME NEW i \in 1 .. Len(s) PROVE s[i] = t[i]
        <5>1. /\ i \in 1 .. Len(tasks') - k + 1 /\ i \in 1 .. Len(tasks) - (k + 1) + 1
              /\ k + i - 1 \in 1 .. Len(tasks') /\ k + i - 1 + 1 = k + 1 + i - 1
          BY <4>1, <4>2, <4>3
        <5>2. QED
          BY <5>1, <4>2, <4>3, <4>4
      <4>7. s = t
        <5> HIDE DEF s, t
        <5>1. QED
          BY <4>5, <4>6, SeqEqual
      <4>8. QED
        BY <4>1, <4>7, <1>1
    <3>2. Line' = LineOf(delivered, custom, first, left, mq.custom, Behind)
      BY <3>1, <1>1, <1>2 DEF Line
    <3>3. QED
      BY <3>2, <2>7
  <2>4. ASSUME subscription = "yes", scheduler = "default" PROVE Steady(racers, delivered \o first)
    <3> DEFINE t == left \o (mq.custom \o Behind)
    <3>1. mq.custom \o Behind \in Messages
      BY QueueTypes, Joined
    <3>2. t \in Messages
      BY <3>1, <1>3, Joined
    <3>3. custom = <<>>
      BY <2>4 DEF BInv, Queues
    <3>4. Line = delivered \o (custom \o (first \o t))
      BY <2>7 DEF LineOf
    <3> HIDE DEF t
    <3>6. first \o t \in Messages /\ <<>> \o (first \o t) = first \o t
      BY <3>2, <1>3, Joined
    <3>7. delivered \o first \in Messages /\ (delivered \o first) \o t = delivered \o (first \o t)
      <4>1. delivered \in Messages
        BY QueueTypes
      <4>2. QED
        BY <4>1, <3>2, <1>3, Joined, Associative, SMTT(20)
    <3>8. Line = (delivered \o first) \o t
      BY <3>3, <3>4, <3>6, <3>7
    <3>9. Steady(racers, (delivered \o first) \o t)
      BY <3>8, <2>4 DEF BInv, InLine
    <3>10. QED
      BY <3>2, <3>7, <3>9, Parts
  <2>5. subscription = "yes" => Steady(racers, Line')
    BY <2>3 DEF BInv, InLine
  <2>6. QED
    BY <2>1, <2>2, <2>4, <2>5, <1>1 DEF InLine, Subscribed
<1>14. QED
  BY <1>5, <1>7, <1>8, <1>11, <1>12, <1>13 DEF BInv

\* What is delivered, or joins the queue of the scheduler, leaves the closure.
LEMMA Invokes == ASSUME BInv, ClosureInvokes PROVE BInv'
<1> DEFINE r == closure.rest
<1>1. /\ closure.step = "taken"
      /\ closure' = IF mq.default = <<>>
                    THEN [step |-> "emptied", subscribed |-> closure.subscribed, rest |-> <<>>]
                    ELSE NotRunning
      /\ UNCHANGED <<scheduler, subscription, mq, tasks, arrived, crashed, racers, stale>>
  BY DEF ClosureInvokes, At
<1>2. /\ closure'.step = (IF mq.default = <<>> THEN "emptied" ELSE "none")
      /\ closure'.rest = <<>> /\ closure'.subscribed \in BOOLEAN
      /\ closure'.step = "emptied" => closure'.subscribed = closure.subscribed
      /\ closure'.step = "none" => closure' = NotRunning
  BY <1>1 DEF NotRunning, At, BInv, Types
<1>3. /\ delivered \in Messages /\ custom \in Messages /\ r \in Messages
      /\ delivered \o r \in Messages /\ ToSet(delivered \o r) = ToSet(delivered) \cup ToSet(r)
      /\ custom \o r \in Messages /\ ToSet(custom \o r) = ToSet(custom) \cup ToSet(r)
  BY QueueTypes, Joined
<1>4. /\ closure.subscribed \in BOOLEAN
      /\ ~closure.subscribed => subscription # "yes"
      /\ closure.subscribed => subscription # "none"
      /\ scheduler = "default" => custom = <<>>
      /\ scheduler = "synchronous" => custom = <<>>
  BY <1>1 DEF BInv, Types, Places, Queues
<1>5. \/ /\ subscription # "yes" /\ dropped' = dropped \cup ToSet(r)
         /\ UNCHANGED <<delivered, custom>>
      \/ /\ scheduler = "default" /\ closure.subscribed /\ delivered' = delivered \o r
         /\ UNCHANGED <<dropped, custom>>
      \/ /\ scheduler = "own" /\ closure.subscribed /\ custom' = custom \o r
         /\ UNCHANGED <<delivered, dropped>>
      \/ /\ scheduler = "synchronous" /\ subscription = "yes" /\ delivered' = delivered \o r
         /\ UNCHANGED <<dropped, custom>>
  <2>1. CASE ~closure.subscribed
    <3>1. dropped' = dropped \cup ToSet(r) /\ UNCHANGED <<delivered, custom>>
      BY <2>1 DEF ClosureInvokes
    <3>2. subscription # "yes"
      BY <2>1, <1>4
    <3>3. QED
      BY <3>1, <3>2
  <2>2. CASE closure.subscribed /\ scheduler = "default"
    BY <2>2 DEF ClosureInvokes
  <2>3. CASE closure.subscribed /\ scheduler # "default"
    <3>1. invoke(r)
      BY <2>3 DEF ClosureInvokes
    <3>2. CASE scheduler = "own"
      BY <3>1, <3>2, <2>3 DEF invoke
    <3>3. CASE scheduler = "synchronous"
      <4>1. Execute(r) /\ UNCHANGED custom
        BY <3>1, <3>3 DEF invoke
      <4>2. QED
        BY <4>1, <3>3 DEF Execute, Subscribed
    <3>4. QED
      BY <2>3, <3>2, <3>3 DEF BInv, Types
  <2>4. QED
    BY <2>1, <2>2, <2>3, <1>4
<1>6. /\ delivered' \in Messages /\ custom' \in Messages
      /\ ToSet(delivered') \cup ToSet(custom') \cup dropped' =
           ToSet(delivered) \cup ToSet(custom) \cup dropped \cup ToSet(r)
  BY <1>3, <1>5
<1>7. Types'
  <2>1. closure' \in [step : {"none", "taken", "emptied", "moved", "erased"},
                      subscribed : BOOLEAN, rest : Messages]
    <3>1. [step |-> "emptied", subscribed |-> closure.subscribed, rest |-> <<>>] \in
            [step : {"none", "taken", "emptied", "moved", "erased"}, subscribed : BOOLEAN, rest : Messages]
      <4>1. closure.subscribed \in BOOLEAN
        BY <1>4
      <4>2. QED
        BY <4>1, Nothing
    <3>2. NotRunning \in
            [step : {"none", "taken", "emptied", "moved", "erased"}, subscribed : BOOLEAN, rest : Messages]
      BY Nothing DEF NotRunning, At
    <3>3. QED
      BY <3>1, <3>2, <1>1
  <2>2. QED
    BY <2>1, <1>1, <1>6 DEF BInv, Types
<1>8. Kept'
  <2>1. ToSet(closure'.rest) = {}
    BY <1>2, Nothing
  <2>2. ToSet(delivered') \cup Waiting' \cup dropped' = ToSet(delivered) \cup Waiting \cup dropped
    BY <2>1, <1>1, <1>6 DEF Waiting
  <2>3. QED
    BY <2>2, <1>1 DEF BInv, Kept
<1>9. Places'
  BY <1>1, <1>2, <1>4 DEF BInv, Places
<1>10. Queues' /\ InFront'
  <2>1. subscription = "none" => UNCHANGED <<delivered, custom>>
    BY <1>4, <1>5
  <2>2. QED
    BY <2>1, <1>1, <1>2, <1>4, <1>5 DEF BInv, Queues, InFront, Closures
<1>11. ASSUME subscription = "yes" PROVE Line' = Line
  <2> DEFINE o == closure'.rest
  <2>1. /\ Line = LineOf(delivered, custom, r, mq.default, mq.custom, Behind)
        /\ Line' = LineOf(delivered', custom', o, mq.default, mq.custom, Behind)
    BY <1>1 DEF Line, Behind
  <2>2. o = <<>> /\ r \in Messages /\ AreMessages(delivered, custom, r, mq.default, mq.custom, Behind)
    BY <1>2, QueueTypes
  <2>3. AreMessages(delivered, custom, o, mq.default, mq.custom, Behind)
    BY <2>2, Nothing DEF AreMessages
  <2> HIDE DEF o, r
  <2>4. CASE scheduler = "own"
    <3>1. custom' = custom \o r /\ delivered' = delivered
      BY <2>4, <1>5, <1>11
    <3>2. LineOf(delivered, custom \o r, o, mq.default, mq.custom, Behind) =
            LineOf(delivered, custom, r, mq.default, mq.custom, Behind)
      BY <2>2, OverEmpty
    <3>3. QED
      BY <3>1, <3>2, <2>1
  <2>5. CASE scheduler # "own"
    <3>1. custom' = custom /\ delivered' = delivered \o r
      BY <2>5, <1>5, <1>11
    <3>2. custom = o
      BY <2>5, <2>2, <1>4 DEF BInv, Types
    <3>3. AreMessages(delivered, custom, custom, mq.default, mq.custom, Behind)
      BY <2>3, <3>2
    <3>4. r \in Messages /\ custom = <<>>
      BY <2>2, <3>2
    <3>5. LineOf(delivered \o r, custom, custom, mq.default, mq.custom, Behind) =
            LineOf(delivered, custom, r, mq.default, mq.custom, Behind)
      BY <3>3, <3>4, OverEmpty
    <3>6. QED
      BY <3>1, <3>2, <3>5, <2>1, <2>3
  <2>6. QED
    BY <2>4, <2>5
<1>12. InLine'
  <2>1. subscription = "yes" => Steady(racers, Line')
    BY <1>11 DEF BInv, InLine
  <2>2. subscription = "none" => Steady(racers, mq'.default)
    BY <1>1 DEF BInv, InLine
  <2>3. Steady(racers, delivered')
    <3>1. CASE delivered' = delivered
      BY <3>1 DEF BInv, InLine
    <3>2. CASE scheduler = "default" /\ closure.subscribed /\ delivered' = delivered \o r
      BY <3>2, <1>1 DEF BInv, InLine
    <3>3. CASE subscription = "yes"
      <4>1. Line' = LineOf(delivered', custom', closure'.rest, mq.default, mq.custom, Behind)
        BY <1>1 DEF Line, Behind
      <4>2. AreMessages(delivered', custom', closure'.rest, mq.default, mq.custom, Behind)
        BY <1>2, <1>6, QueueTypes, Nothing DEF AreMessages
      <4>3. QED
        BY <4>1, <4>2, <2>1, <3>3, LineType
    <3>4. QED
      BY <3>1, <3>2, <3>3, <1>5
  <2>4. QED
    BY <2>1, <2>2, <2>3, <1>1, <1>2 DEF InLine
<1>13. QED
  BY <1>7, <1>8, <1>9, <1>10, <1>12 DEF BInv

LEMMA Moves == ASSUME BInv, ClosureMoves PROVE BInv'
<1>1. /\ closure.step = "emptied"
      /\ closure' = [step |-> "moved", subscribed |-> closure.subscribed, rest |-> mq.custom]
      /\ mq' = [exists |-> mq.exists, default |-> <<>>, custom |-> <<>>]
      /\ stale' = (stale \/ mq.default # <<>>)
      /\ UNCHANGED <<scheduler, subscription, tasks, custom, arrived, delivered, dropped, crashed, racers>>
  BY DEF ClosureMoves, At, BInv, Types
<1>2. /\ closure.rest = <<>> /\ mq.custom \in Messages /\ mq.default \in Messages
      /\ closure.subscribed \in BOOLEAN /\ mq.exists \in BOOLEAN /\ stale \in BOOLEAN
      /\ mq.default # <<>> => subscription # "yes" /\ ToSet(mq.default) \subseteq racers
      /\ mq.custom # <<>> => scheduler # "default" /\ subscription # "none" /\ mq.exists
      /\ ToSet(<<>>) = {}
  BY <1>1, Nothing DEF BInv, Places, Types, Queues
<1>3. Types'
  <2>1. closure' \in [step : {"none", "taken", "emptied", "moved", "erased"},
                      subscribed : BOOLEAN, rest : Messages]
    BY <1>1, <1>2
  <2>2. mq' \in [exists : BOOLEAN, default : Messages, custom : Messages]
    BY <1>1, <1>2, Nothing
  <2>3. QED
    BY <2>1, <2>2, <1>1 DEF BInv, Types
<1>4. Kept'
  <2>1. Waiting' \subseteq Waiting /\ Waiting \subseteq Waiting' \cup racers
    BY <1>1, <1>2 DEF Waiting
  <2>2. QED
    BY <2>1, <1>1 DEF BInv, Kept
<1>5. Places'
  BY <1>1, <1>2 DEF BInv, Places
<1>6. Queues' /\ InFront'
  BY <1>1, <1>2, Nothing DEF BInv, Queues, InFront, Closures
<1>7. ASSUME subscription = "yes" PROVE Line' = Line
  <2> DEFINE o == closure.rest
  <2>1. /\ Line = LineOf(delivered, custom, o, o, mq.custom, Behind)
        /\ Line' = LineOf(delivered, custom, mq.custom, o, o, Behind)
    <3>1. mq'.default = mq.default /\ mq'.default = o /\ mq'.custom = o /\ mq.default = o
      BY <1>1, <1>2, <1>7
    <3>2. Behind' = Behind
      BY <3>1, <1>1 DEF Behind
    <3>3. closure'.rest = mq.custom
      BY <1>1
    <3> HIDE DEF o
    <3>4. QED
      BY <3>1, <3>2, <3>3, <1>1 DEF Line, o
  <2>2. AreMessages(delivered, custom, o, o, o, Behind) /\ mq.custom \in Messages /\ o = <<>>
    BY <1>2, QueueTypes, Nothing DEF AreMessages
  <2> HIDE DEF o
  <2>3. LineOf(delivered, custom, mq.custom, o, o, Behind) =
          LineOf(delivered, custom, o, o, mq.custom, Behind)
    BY <2>2, OverEmpty
  <2>4. QED
    BY <2>1, <2>3
<1>8. InLine'
  <2>1. subscription = "none" => Steady(racers, mq'.default)
    BY <1>1, Nothing
  <2>2. QED
    BY <2>1, <1>1, <1>7 DEF BInv, InLine
<1>9. QED
  BY <1>3, <1>4, <1>5, <1>6, <1>8 DEF BInv

\* What is erased was at the end of the line.
LEMMA FallsOut ==
    ASSUME NEW R, NEW a, NEW b, NEW c, NEW o, AreMessages(a, b, c, o, o, o), NEW x \in Messages
    PROVE  x \o o = x /\ o \o x = x /\ Steady(R, LineOf(a, b, c, o, x, o)) =>
               Steady(R, LineOf(a, b, c, o, o, o))
<1>1. /\ LineOf(a, b, c, o, o \o x, o) = LineOf(a, b, c, o, o, x \o o)
      /\ LineOf(a, b, c, o, o, o) \o x = LineOf(a, b, c, o, o, o \o x)
  BY Seams
<1>2. LineOf(a, b, c, o, o, o) \in Messages
  BY LineType
<1>3. Steady(R, LineOf(a, b, c, o, o, o) \o x) => Steady(R, LineOf(a, b, c, o, o, o))
  BY <1>2, Parts
<1>4. QED
  BY <1>1, <1>3, Zenon

LEMMA Replaced ==
    ASSUME NEW S, NEW B, NEW c \in [step : S, subscribed : B, rest : Messages], NEW r
    PROVE  [c EXCEPT !.rest = r] = [step |-> c.step, subscribed |-> c.subscribed, rest |-> r]
  OBVIOUS

LEMMA Erases == ASSUME BInv, ClosureErases PROVE BInv'
<1> DEFINE r == closure.rest
<1>1. /\ closure.step = "moved"
      /\ closure' = IF r = <<>> THEN NotRunning
                    ELSE [step |-> "erased", subscribed |-> closure.subscribed, rest |-> r]
      /\ mq' = [exists |-> FALSE, default |-> <<>>, custom |-> <<>>]
      /\ stale' = (stale \/ mq.default # <<>>)
      /\ crashed' = (r # <<>> /\ ~closure.subscribed)
      /\ UNCHANGED <<scheduler, subscription, tasks, custom, arrived, delivered, dropped, racers>>
  <2>1. closure \in [step : {"none", "taken", "emptied", "moved", "erased"},
                     subscribed : BOOLEAN, rest : Messages]
    BY DEF BInv, Types
  <2>2. [closure EXCEPT !.step = "erased"] =
          [step |-> "erased", subscribed |-> closure.subscribed, rest |-> r]
    BY <2>1
  <2>3. QED
    BY <2>2 DEF ClosureErases, NoMq
<1>2. /\ r \in Messages /\ mq.custom \in Messages /\ mq.default \in Messages
      /\ closure.subscribed \in BOOLEAN /\ stale \in BOOLEAN
      /\ subscription # (IF closure.subscribed THEN "none" ELSE "yes")
      /\ subscription \in {"none", "yes", "over"}
      /\ mq.default # <<>> => subscription # "yes" /\ ToSet(mq.default) \subseteq racers
      /\ ToSet(mq.custom) \subseteq racers
      /\ mq.custom # <<>> => scheduler # "default"
      /\ r # <<>> => scheduler # "default" /\ subscription # "none"
      /\ ToSet(<<>>) = {}
  BY <1>1, Nothing DEF BInv, Places, Types, Queues
<1>3. /\ closure'.rest = r
      /\ closure'.step = (IF r = <<>> THEN "none" ELSE "erased")
      /\ closure'.step = "none" => closure' = NotRunning
      /\ closure'.step = "erased" => closure'.subscribed = closure.subscribed
  BY <1>1 DEF NotRunning, At
<1>4. Types'
  <2>1. closure' \in [step : {"none", "taken", "emptied", "moved", "erased"},
                      subscribed : BOOLEAN, rest : Messages]
    BY <1>1, <1>2, Nothing DEF NotRunning, At
  <2>2. mq' \in [exists : BOOLEAN, default : Messages, custom : Messages]
    BY <1>1, Nothing
  <2>3. QED
    BY <2>1, <2>2, <1>1, <1>2 DEF BInv, Types
<1>5. Kept'
  <2>1. Waiting' \subseteq Waiting /\ Waiting \subseteq Waiting' \cup racers
    BY <1>1, <1>2, <1>3 DEF Waiting
  <2>2. QED
    BY <2>1, <1>1 DEF BInv, Kept
<1> HIDE DEF r
<1>6. Places'
  BY <1>1, <1>2, <1>3 DEF BInv, Places
<1>7. Queues' /\ InFront'
  <2>1. subscription = "none" => closure'.step = "none"
    BY <1>2, <1>3
  <2>2. QED
    BY <2>1, <1>1, <1>2, Nothing DEF BInv, Queues, InFront, Closures
<1>8. ASSUME subscription = "yes" PROVE Steady(racers, Line')
  <2> DEFINE o == mq'.default
  <2>1. mq.default = o /\ mq'.custom = o /\ o = <<>>
    BY <1>1, <1>2, <1>8
  <2>2. Behind' = Behind /\ ~stale
    BY <2>1, <1>1, <1>8 DEF Behind, BInv, Places
  <2> HIDE DEF o
  <2>3. /\ Line = LineOf(delivered, custom, r, o, mq.custom, Behind)
        /\ Line' = LineOf(delivered, custom, r, o, o, Behind)
    BY <2>1, <2>2, <1>1, <1>3 DEF Line, r, o
  <2>4. Steady(racers, Line)
    BY <1>8 DEF BInv, InLine
  <2>5. CASE mq.custom = <<>>
    BY <2>1, <2>3, <2>4, <2>5
  <2>6. CASE mq.custom # <<>>
    <3>1. Behind = o
      BY <2>1, <2>2, <2>6, <1>2, <1>8, NothingBehind
    <3>2. AreMessages(delivered, custom, r, o, o, o) /\ mq.custom \in Messages
      BY <2>1, <1>2, QueueTypes DEF AreMessages
    <3>3. /\ Line = LineOf(delivered, custom, r, o, mq.custom, o)
          /\ Line' = LineOf(delivered, custom, r, o, o, o)
      BY <2>3, <3>1
    <3>4. mq.custom \o o = mq.custom /\ o \o mq.custom = mq.custom
      BY <2>1, <1>2, Joined
    <3>5. QED
      BY <2>4, <3>2, <3>3, <3>4, FallsOut
  <2>7. QED
    BY <2>5, <2>6
<1>9. InLine'
  <2>1. subscription = "none" => Steady(racers, mq'.default)
    BY <1>1, Nothing
  <2>2. QED
    BY <2>1, <1>1, <1>3, <1>8 DEF BInv, InLine
<1>10. QED
  BY <1>4, <1>5, <1>6, <1>7, <1>9 DEF BInv

LEMMA Forwards == ASSUME BInv, ClosureForwards PROVE BInv'
<1> DEFINE h == Head(closure.rest)
           left == Tail(closure.rest)
<1>1. /\ closure.step = "erased" /\ invoke(<<h>>)
      /\ closure' = IF Len(closure.rest) = 1 THEN NotRunning
                    ELSE [step |-> "erased", subscribed |-> closure.subscribed, rest |-> left]
      /\ UNCHANGED <<scheduler, subscription, mq, tasks, arrived, crashed, racers, stale>>
  <2>1. closure \in [step : {"none", "taken", "emptied", "moved", "erased"},
                     subscribed : BOOLEAN, rest : Messages]
    BY DEF BInv, Types
  <2>2. closure.step = "erased"
    BY DEF ClosureForwards
  <2>3. [closure EXCEPT !.rest = Tail(@)] =
          [step |-> "erased", subscribed |-> closure.subscribed, rest |-> left]
    <3>1. [closure EXCEPT !.rest = Tail(@)] =
            [step |-> closure.step, subscribed |-> closure.subscribed, rest |-> left]
      BY <2>1, Replaced
    <3>2. QED
      BY <3>1, <2>2, Zenon
  <2>4. QED
    BY <2>2, <2>3, Zenon DEF ClosureForwards
<1>2. /\ scheduler \in {"own", "synchronous"} /\ subscription \in {"yes", "over"}
      /\ closure.rest \in Messages /\ closure.rest # <<>>
      /\ closure.subscribed \in BOOLEAN
      /\ subscription # (IF closure.subscribed THEN "none" ELSE "yes")
      /\ scheduler = "synchronous" => custom = <<>>
  BY <1>1 DEF BInv, Types, Places, Queues
<1>3. /\ h \in Nat /\ left \in Messages /\ closure.rest = <<h>> \o left
      /\ ToSet(closure.rest) = {h} \cup ToSet(left)
      /\ Len(closure.rest) = 1 <=> left = <<>>
      /\ <<h>> \in Messages /\ ToSet(<<h>>) = {h}
  <2>1. /\ h \in Nat /\ left \in Messages /\ closure.rest = <<h>> \o left
        /\ ToSet(closure.rest) = {h} \cup ToSet(left)
        /\ Len(left) = Len(closure.rest) - 1
    BY <1>2, Divided
  <2> HIDE DEF left
  <2>2. Len(closure.rest) \in Nat /\ (Len(left) = 0 <=> left = <<>>)
    BY <1>2, <2>1 DEF Messages
  <2>3. QED
    BY <2>1, <2>2, Single
<1>4. /\ closure'.rest = left
      /\ closure'.step \in {"none", "erased"}
      /\ closure'.step = "none" => closure' = NotRunning
      /\ closure'.step = "erased" => closure'.subscribed = closure.subscribed /\ left # <<>>
  BY <1>1, <1>3 DEF NotRunning, At
<1>5. \/ scheduler = "own" /\ custom' = custom \o <<h>> /\ UNCHANGED <<delivered, dropped>>
      \/ /\ scheduler = "synchronous" /\ subscription = "yes"
         /\ delivered' = delivered \o <<h>> /\ UNCHANGED <<dropped, custom>>
      \/ /\ scheduler = "synchronous" /\ subscription = "over"
         /\ dropped' = dropped \cup {h} /\ UNCHANGED <<delivered, custom>>
  BY <1>1, <1>2, <1>3 DEF invoke, Execute, Subscribed
<1> HIDE DEF h, left
<1>6. /\ delivered \in Messages /\ custom \in Messages
      /\ delivered \o <<h>> \in Messages /\ ToSet(delivered \o <<h>>) = ToSet(delivered) \cup {h}
      /\ custom \o <<h>> \in Messages /\ ToSet(custom \o <<h>>) = ToSet(custom) \cup {h}
  BY <1>3, QueueTypes, Joined
<1>7. /\ delivered' \in Messages /\ custom' \in Messages
      /\ ToSet(delivered') \cup ToSet(custom') \cup dropped' =
           ToSet(delivered) \cup ToSet(custom) \cup dropped \cup {h}
  BY <1>5, <1>6
<1>8. Types'
  <2>1. closure' \in [step : {"none", "taken", "emptied", "moved", "erased"},
                      subscribed : BOOLEAN, rest : Messages]
    BY <1>1, <1>2, <1>3, Nothing DEF NotRunning, At
  <2>2. QED
    BY <2>1, <1>1, <1>7 DEF BInv, Types
<1>9. Kept'
  <2>1. ToSet(delivered') \cup Waiting' \cup dropped' = ToSet(delivered) \cup Waiting \cup dropped
    BY <1>1, <1>3, <1>4, <1>7 DEF Waiting
  <2>2. QED
    BY <2>1, <1>1 DEF BInv, Kept
<1>10. Places' /\ Queues' /\ InFront'
  <2>1. Places'
    BY <1>1, <1>2, <1>4 DEF BInv, Places, NotRunning, At
  <2>2. Queues' /\ InFront'
    BY <1>1, <1>2, <1>4, <1>5 DEF BInv, Queues, InFront, Closures
  <2>3. QED
    BY <2>1, <2>2
<1>11. ASSUME subscription = "yes" PROVE Line' = Line
  <2>1. /\ Line = LineOf(delivered, custom, <<h>> \o left, mq.default, mq.custom, Behind)
        /\ Line' = LineOf(delivered', custom', left, mq.default, mq.custom, Behind)
    BY <1>1, <1>3, <1>4 DEF Line, Behind
  <2>2. AreMessages(delivered, custom, left, mq.default, mq.custom, Behind) /\ <<h>> \in Messages
    BY <1>3, QueueTypes DEF AreMessages
  <2>3. CASE scheduler = "own"
    <3>1. LineOf(delivered, custom \o <<h>>, left, mq.default, mq.custom, Behind) =
            LineOf(delivered, custom, <<h>> \o left, mq.default, mq.custom, Behind)
      BY <2>2, Seams
    <3>2. QED
      BY <3>1, <2>1, <2>3, <1>5
  <2>4. CASE scheduler = "synchronous"
    <3>1. custom = <<>>
      BY <2>4, <1>2
    <3>2. LineOf(delivered \o <<h>>, custom, left, mq.default, mq.custom, Behind) =
            LineOf(delivered, custom, <<h>> \o left, mq.default, mq.custom, Behind)
      BY <3>1, <2>2, OverEmpty
    <3>3. QED
      BY <3>2, <2>1, <2>4, <1>5, <1>11
  <2>5. QED
    BY <2>3, <2>4, <1>2
<1>12. InLine'
  <2>1. subscription = "yes" => Steady(racers, Line')
    BY <1>11 DEF BInv, InLine
  <2>2. Steady(racers, delivered')
    <3>1. CASE delivered' = delivered
      BY <3>1 DEF BInv, InLine
    <3>2. CASE subscription = "yes"
      <4>1. Line' = LineOf(delivered', custom', left, mq.default, mq.custom, Behind)
        BY <1>1, <1>4 DEF Line, Behind
      <4>2. AreMessages(delivered', custom', left, mq.default, mq.custom, Behind)
        BY <1>3, <1>7, QueueTypes DEF AreMessages
      <4>3. QED
        BY <4>1, <4>2, <2>1, <3>2, LineType
    <3>3. QED
      BY <3>1, <3>2, <1>5
  <2>3. QED
    BY <2>1, <2>2, <1>1, <1>2, <1>4 DEF InLine
<1>13. QED
  BY <1>8, <1>9, <1>10, <1>12 DEF BInv

-----------------------------------------------------------------------------
LEMMA StepHolds == BInv /\ [Next]_vars => BInv'
<1> SUFFICES ASSUME BInv, [Next]_vars PROVE BInv'
  OBVIOUS
<1>1. CASE dispatch
  <2>1. DispatchUnknown \/ DispatchDefault \/ DispatchCustom
    BY <1>1 DEF dispatch
  <2>2. QED
    BY <2>1, <1>1, DispatchesUnknown, DispatchesDefault, DispatchesWaiting, DispatchesAtOnce
<1>2. CASE advise_on \/ Unsubscribe
  BY <1>2, Subscribes, Unsubscribes
<1>3. CASE RunInvoke \/ RunCustom
  BY <1>3, RunsInvoke, RunsCustom
<1>4. CASE ClosureTakes \/ ClosureInvokes
  BY <1>4, Takes, Invokes
<1>5. CASE ClosureMoves \/ ClosureErases \/ ClosureForwards
  BY <1>5, Moves, Erases, Forwards
<1>6. CASE UNCHANGED vars
  BY <1>6 DEF vars, BInv, Types, Kept, Waiting, Places, Queues, InFront, InLine,
              Line, Behind, Closures
<1>7. QED
  BY <1>1, <1>2, <1>3, <1>4, <1>5, <1>6 DEF Next

LEMMA Inductive == Spec => []BInv
  BY InitHolds, StepHolds, PTL DEF Spec

LEMMA InOrderAndAll == BInv => BrokerKeepsOrder
  BY DEF BInv, InLine, Steady, Kept, Places, BrokerKeepsOrder

\* Messages that arrive while an entity is being bound reach it in order, each once,
\* and none is lost, on each scheduler and however many there are.  Only one that is
\* dispatched between a closure's last look at the queue and its end may be lost, or
\* overtake what the closure forwards: the others keep their order.  And the broker
\* uses a null subscription for no entity but one that is gone again (dispatch,
\* advise_on).
THEOREM BrokerCorrect == Spec => []BrokerKeepsOrder
  BY InOrderAndAll, Inductive, PTL
=============================================================================
