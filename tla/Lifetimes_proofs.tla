--------------------------- MODULE Lifetimes_proofs ---------------------------
(***************************************************************************)
(* That every action of a lifetime runs once or is removed, in reverse     *)
(* order; that nested lifetimes end with their parent; and that of the     *)
(* values of a property that is viewed one is alive: for any number of     *)
(* threads, lifetimes and actions.                                         *)
(*                                                                         *)
(* A lifetime is terminated before its map is taken, and accepts nothing   *)
(* from then on: so its map is taken with something in it only once, and   *)
(* the thread that has taken it stays in the termination until all has run.*)
(***************************************************************************)
EXTENDS Lifetimes, SequenceTheorems, WellFoundedInduction, TLAPS

Numbers == 0 .. MaxLifetimes
Action == [do : {"user", "terminate", "unlink", "reset"}, of : Numbers, id : Nat]
Places == {"opened", "terminating", "running", "erasing", "attaching", "setting", "assigning",
           "firing", "making", "handing"}
Frame == [at : Places, of : Numbers, with : Numbers, id : Nat]

Typed ==
    /\ made \in 1 .. MaxLifetimes
    /\ terminated \in [Lifetimes -> BOOLEAN]
    /\ action_id_in_map \in [Lifetimes -> Nat]
    /\ actions \in [Lifetimes -> SUBSET Nat]
    /\ what \in [Lifetimes -> Seq(Action)]
    /\ left \in [Lifetimes -> SUBSET Nat]
    /\ ran \in [Lifetimes -> Seq(Nat)]
    /\ removed \in [Lifetimes -> SUBSET Nat]
    /\ current_def \in Numbers /\ handed \in SUBSET Numbers
    /\ stack \in [Threads -> Seq(Frame)]

-----------------------------------------------------------------------------
(* The actions of a lifetime.                                              *)

\* Only the lifetime of the view resets, and a nested lifetime unlinks the
\* action that terminates it.
Meant(l, a) ==
    /\ a.do = "reset" => l = Viewed
    /\ a.do = "terminate" => a.of \in Lifetimes
    /\ a.do = "unlink" =>
          /\ a.of \in Lifetimes /\ a.id < action_id_in_map[a.of]
          /\ what[a.of][a.id + 1] = Do("terminate", l, 0)

What(l) ==
    /\ Len(what[l]) = action_id_in_map[l]
    /\ \A i \in 1 .. Len(what[l]) : Meant(l, what[l][i])

Accounts(l) ==
    /\ actions[l] \subseteq Ids(l) /\ left[l] \subseteq Ids(l)
    /\ RanIds(l) \subseteq Ids(l) /\ removed[l] \subseteq Ids(l)
    /\ removed[l] \cap (actions[l] \cup left[l] \cup RanIds(l)) = {}
    /\ l \notin torn => Ids(l) \subseteq actions[l] \cup left[l] \cup RanIds(l) \cup removed[l]

Once(l) == actions[l] # {} \/ ~terminated[l] => left[l] = {} /\ ran[l] = <<>>

Reverse(l) ==
    /\ \A i, j \in 1 .. Len(ran[l]) : i < j => ran[l][i] > ran[l][j]
    /\ \A i \in left[l], j \in 1 .. Len(ran[l]) : i < ran[l][j]

\* A thread is in the place, with the lifetime.
Has(q, place, l) == \E k \in 1 .. Len(q) : q[k].at = place /\ q[k].of = l
In(place, l) == \E t \in Threads : Has(stack[t], place, l)

OnItsWay(l) ==
    /\ terminated[l] /\ actions[l] # {} => In("terminating", l)
    /\ left[l] # {} => In("running", l)

NestedOver(l) == \A i \in RanIds(l) \cup removed[l] :
    what[l][i + 1].do = "terminate" => terminated[what[l][i + 1].of]

Kept(l) == What(l) /\ Accounts(l) /\ Once(l) /\ Reverse(l) /\ OnItsWay(l) /\ NestedOver(l)

-----------------------------------------------------------------------------
(* The stacks.                                                             *)

\* At the bottom of the stack of the thread that fires the property.
Ground == {"firing", "making", "handing"}

Shaped(t, q) ==
    /\ \A k \in 1 .. Len(q) :
        /\ q[k].at \in Places \ {"setting", "assigning", "firing"} => q[k].of \in Lifetimes
        /\ q[k].at \in Ground => k = Len(q) /\ t = Firer
        /\ k # 1 => q[k].at \in Ground \cup {"running"}
    /\ q # <<>> /\ Head(q).at = "attaching" => \A k \in 2 .. Len(q) : q[k].at = "making"

\* The current definition is set for a value, or to none: before a change, or
\* by the end of the view.
Sets(q, f) ==
    \/ Len(q) = 2 /\ q[2].at = "firing" /\ f.of = Eternal
    \/ Len(q) = 2 /\ q[2].at = "handing" /\ q[2].of = f.of
    \/ f.of = Eternal /\ terminated[Viewed]

TopMeant(q) == q # <<>> => LET f == Head(q) IN
    /\ f.at = "attaching" =>
          /\ f.with \in Lifetimes /\ f.id < action_id_in_map[f.with]
          /\ what[f.with][f.id + 1] = Do("terminate", f.of, 0)
    /\ f.at = "terminating" => terminated[f.of]
    /\ f.at = "erasing" =>
          /\ f.id < action_id_in_map[f.of]
          /\ what[f.of][f.id + 1].do = "terminate" => terminated[what[f.of][f.id + 1].of]
    /\ f.at \in {"setting", "assigning"} => Sets(q, f)

Stacks == \A t \in Threads : Shaped(t, stack[t]) /\ TopMeant(stack[t])

-----------------------------------------------------------------------------
(* The values of the property.                                             *)

Alive == {h \in handed : h # Eternal /\ ~terminated[h]}

Bottom(q) == IF q = <<>> THEN "none" ELSE q[Len(q)].at
Setting(q, place) == Len(q) = 2 /\ q[1].at = place

\* Before a change the value that is alive is the current one, or the one read
\* to be terminated; after it none is, until the next is handed over.
Values ==
    LET q == stack[Firer] IN
    /\ \A h, k \in Alive : h = k
    /\ Eternal \in handed => terminated[Viewed]
    /\ Bottom(q) \notin Ground /\ ~terminated[Viewed] => Alive \subseteq {current_def}
    /\ Bottom(q) = "firing" /\ Setting(q, "setting") =>
          /\ Alive \subseteq {current_def}
          /\ \A t \in Threads : Is(t, "assigning") => Alive \subseteq {Top(t).with}
    /\ Bottom(q) = "firing" /\ Setting(q, "assigning") => Alive \subseteq {q[1].with}
    /\ Bottom(q) = "firing" /\ ~Setting(q, "setting") /\ ~Setting(q, "assigning") => Alive = {}
    /\ Bottom(q) \in {"making", "handing"} => Alive = {}
    /\ Bottom(q) = "handing" /\ ~Setting(q, "setting") /\ ~Setting(q, "assigning") =>
          current_def = q[Len(q)].of \/ (current_def = Eternal /\ terminated[Viewed])

LInv == Typed /\ (\A l \in Lifetimes : Kept(l)) /\ Stacks /\ Values

-----------------------------------------------------------------------------
(* Stacks in general.                                                      *)

LEMMA OneLess ==
    ASSUME NEW n, NEW m, n = m + 1, m \in Nat
    PROVE  /\ n = 2 <=> m = 1
           /\ n = 1 <=> m = 0
OBVIOUS

LEMMA Push ==
    ASSUME NEW T, NEW q \in Seq(T), NEW f \in T
    PROVE  /\ <<f>> \o q \in Seq(T) /\ <<f>> \o q # <<>>
           /\ Len(q) \in Nat /\ Len(<<f>> \o q) = Len(q) + 1
           /\ Head(<<f>> \o q) = f /\ (<<f>> \o q)[1] = f
           /\ \A k \in 1 .. Len(q) : k + 1 \in 2 .. Len(<<f>> \o q) /\ (<<f>> \o q)[k + 1] = q[k]
           /\ \A k \in 1 .. Len(<<f>> \o q) :
                 k = 1 \/ (k - 1 \in 1 .. Len(q) /\ (<<f>> \o q)[k] = q[k - 1])
<1> DEFINE r == <<f>> \o q
<1>1. <<f>> \in Seq(T) /\ Len(<<f>>) = 1 /\ <<f>>[1] = f /\ Len(q) \in Nat
  OBVIOUS
<1>2. r \in Seq(T) /\ Len(r) = Len(q) + 1
  BY <1>1
<1>3. \A k \in 1 .. Len(q) + 1 : r[k] = IF k =< 1 THEN <<f>>[k] ELSE q[k - 1]
  BY <1>1
<1>4. r[1] = f /\ \A k \in 2 .. Len(q) + 1 : r[k] = q[k - 1]
  BY <1>1, <1>3
<1>5. r # <<>> /\ Head(r) = r[1]
  BY <1>1, <1>2
<1> HIDE DEF r
<1>6. ASSUME NEW k \in 1 .. Len(q) PROVE k + 1 \in 2 .. Len(r) /\ r[k + 1] = q[k]
  <2>1. k + 1 \in 2 .. Len(q) + 1 /\ (k + 1) - 1 = k
    BY <1>1
  <2>2. QED
    BY <2>1, <1>2, <1>4
<1>7. \A k \in 1 .. Len(r) : k = 1 \/ (k - 1 \in 1 .. Len(q) /\ r[k] = q[k - 1])
  BY <1>1, <1>2, <1>4
<1>8. QED
  BY <1>1, <1>2, <1>4, <1>5, <1>6, <1>7 DEF r

LEMMA Pop ==
    ASSUME NEW T, NEW q \in Seq(T), q # <<>>
    PROVE  /\ Tail(q) \in Seq(T) /\ Head(q) = q[1] /\ Head(q) \in T
           /\ Len(q) \in Nat /\ Len(q) >= 1 /\ Len(Tail(q)) = Len(q) - 1
           /\ \A k \in 1 .. Len(Tail(q)) : k + 1 \in 2 .. Len(q) /\ Tail(q)[k] = q[k + 1]
           /\ \A k \in 2 .. Len(q) : k - 1 \in 1 .. Len(Tail(q)) /\ q[k] = Tail(q)[k - 1]
           /\ Tail(q) # <<>> => Head(Tail(q)) = q[2] /\ Len(q) >= 2
<1>1. /\ Len(q) \in Nat /\ Len(q) >= 1 /\ Head(q) = q[1] /\ Head(q) \in T
      /\ Tail(q) \in Seq(T) /\ Len(Tail(q)) = Len(q) - 1
  OBVIOUS
<1>2. \A k \in 1 .. Len(q) - 1 : Tail(q)[k] = q[k + 1]
  OBVIOUS
<1>3. \A k \in 2 .. Len(q) : q[k] = Tail(q)[k - 1]
  <2> SUFFICES ASSUME NEW k \in 2 .. Len(q) PROVE q[k] = Tail(q)[k - 1]
    OBVIOUS
  <2>1. k - 1 \in 1 .. Len(q) - 1 /\ (k - 1) + 1 = k
    BY <1>1
  <2>2. QED
    BY <2>1, <1>2
<1>4. Tail(q) # <<>> => Head(Tail(q)) = q[2] /\ Len(q) >= 2
  <2> SUFFICES ASSUME Tail(q) # <<>> PROVE Head(Tail(q)) = q[2] /\ Len(q) >= 2
    OBVIOUS
  <2>1. Len(Tail(q)) >= 1 /\ Head(Tail(q)) = Tail(q)[1]
    BY <1>1
  <2>2. QED
    BY <2>1, <1>1, <1>2
<1>5. QED
  BY <1>1, <1>2, <1>3, <1>4

\* A stack without its top, and with another instead.
LEMMA HasPopped ==
    ASSUME NEW q \in Seq(Frame), q # <<>>, NEW place, NEW l
    PROVE  Has(q, place, l) <=> Has(Tail(q), place, l) \/ (Head(q).at = place /\ Head(q).of = l)
<1>1. /\ Len(q) \in Nat /\ Len(q) >= 1 /\ Head(q) = q[1]
      /\ \A k \in 1 .. Len(Tail(q)) : k + 1 \in 2 .. Len(q) /\ Tail(q)[k] = q[k + 1]
      /\ \A k \in 2 .. Len(q) : k - 1 \in 1 .. Len(Tail(q)) /\ q[k] = Tail(q)[k - 1]
  BY Pop
<1>2. 1 \in 1 .. Len(q) /\ \A k \in 1 .. Len(q) : k = 1 \/ k \in 2 .. Len(q)
  BY <1>1
<1>3. \A k \in 2 .. Len(q) : k \in 1 .. Len(q)
  BY <1>1
<1>4. Has(Tail(q), place, l) => Has(q, place, l)
  BY <1>1, <1>3 DEF Has
<1>5. Has(q, place, l) => Has(Tail(q), place, l) \/ (Head(q).at = place /\ Head(q).of = l)
  BY <1>1, <1>2 DEF Has
<1>6. QED
  BY <1>1, <1>2, <1>4, <1>5 DEF Has

LEMMA HasPushed ==
    ASSUME NEW q \in Seq(Frame), NEW f \in Frame, NEW place, NEW l
    PROVE  Has(<<f>> \o q, place, l) <=> Has(q, place, l) \/ (f.at = place /\ f.of = l)
<1> DEFINE r == <<f>> \o q
<1>1. /\ Len(r) = Len(q) + 1 /\ Len(q) \in Nat /\ r[1] = f
      /\ \A k \in 1 .. Len(q) : k + 1 \in 2 .. Len(r) /\ r[k + 1] = q[k]
      /\ \A k \in 1 .. Len(r) : k = 1 \/ (k - 1 \in 1 .. Len(q) /\ r[k] = q[k - 1])
  BY Push
<1> HIDE DEF r
<1>2. 1 \in 1 .. Len(r) /\ \A k \in 2 .. Len(r) : k \in 1 .. Len(r)
  BY <1>1
<1>3. Has(q, place, l) => Has(r, place, l)
  BY <1>1, <1>2 DEF Has
<1>4. Has(r, place, l) => Has(q, place, l) \/ (f.at = place /\ f.of = l)
  BY <1>1 DEF Has
<1>5. QED
  BY <1>1, <1>2, <1>3, <1>4 DEF Has, r

LEMMA BottomPushed ==
    ASSUME NEW q \in Seq(Frame), NEW f \in Frame
    PROVE  /\ Bottom(<<f>> \o q) = IF q = <<>> THEN f.at ELSE Bottom(q)
           /\ q # <<>> => (<<f>> \o q)[Len(<<f>> \o q)] = q[Len(q)]
           /\ \A x : Setting(<<f>> \o q, x) <=> Len(q) = 1 /\ f.at = x
<1> DEFINE r == <<f>> \o q
<1>1. /\ Len(r) = Len(q) + 1 /\ Len(q) \in Nat /\ r[1] = f /\ r # <<>>
      /\ \A k \in 1 .. Len(q) : k + 1 \in 2 .. Len(r) /\ r[k + 1] = q[k]
  BY Push
<1> HIDE DEF r
<1>2. q = <<>> => Len(q) = 0
  OBVIOUS
<1>3. q # <<>> => Len(q) \in 1 .. Len(q)
  OBVIOUS
<1>4. q # <<>> => r[Len(r)] = q[Len(q)]
  BY <1>1, <1>3
<1>5. Bottom(r) = IF q = <<>> THEN f.at ELSE Bottom(q)
  BY <1>1, <1>2, <1>4 DEF Bottom
<1>6. ASSUME NEW x PROVE Setting(r, x) <=> Len(q) = 1 /\ f.at = x
  <2>0. Len(r) = Len(q) + 1 /\ Len(q) \in Nat
    BY <1>1
  <2>1. Len(r) = 2 <=> Len(q) = 1
    BY <2>0, OneLess
  <2>2. r[1].at = f.at
    BY <1>1
  <2>3. QED
    BY <2>1, <2>2 DEF Setting
<1>7. QED
  BY <1>4, <1>5, <1>6 DEF r

LEMMA BottomPopped ==
    ASSUME NEW q \in Seq(Frame), q # <<>>
    PROVE  /\ Bottom(Tail(q)) = IF Tail(q) = <<>> THEN "none" ELSE Bottom(q)
           /\ Tail(q) # <<>> => Tail(q)[Len(Tail(q))] = q[Len(q)]
           /\ Tail(q) = <<>> => Bottom(q) = Head(q).at
<1>1. /\ Len(q) \in Nat /\ Len(q) >= 1 /\ Len(Tail(q)) = Len(q) - 1 /\ Head(q) = q[1]
      /\ \A k \in 1 .. Len(Tail(q)) : k + 1 \in 2 .. Len(q) /\ Tail(q)[k] = q[k + 1]
      /\ Tail(q) \in Seq(Frame)
  BY Pop
<1>2. Tail(q) = <<>> => Len(Tail(q)) = 0
  BY EmptySeq
<1>3. Tail(q) # <<>> => Len(Tail(q)) \in 1 .. Len(Tail(q))
  BY <1>1
<1>4. Tail(q) # <<>> => Tail(q)[Len(Tail(q))] = q[Len(q)]
  BY <1>1, <1>3
<1>5. QED
  BY <1>1, <1>2, <1>4 DEF Bottom

-----------------------------------------------------------------------------
(* The shape of a stack.                                                   *)

\* What f may be put on.
Fits(q, f) ==
    /\ f \in Frame /\ f.at \notin Ground
    /\ f.at \notin {"setting", "assigning"} => f.of \in Lifetimes
    /\ f.at = "attaching" => q = <<>>

LEMMA ShapedPush ==
    ASSUME NEW t, NEW q \in Seq(Frame), NEW f, Fits(q, f), Shaped(t, q),
           q = <<>> \/ Head(q).at \in Ground \cup {"running"}
    PROVE  Shaped(t, <<f>> \o q)
<1> DEFINE r == <<f>> \o q
<1>1. f \in Frame
  BY DEF Fits
<1>2. /\ r # <<>> /\ Head(r) = f /\ r[1] = f /\ Len(r) = Len(q) + 1 /\ Len(q) \in Nat
      /\ \A k \in 1 .. Len(r) : k = 1 \/ (k - 1 \in 1 .. Len(q) /\ r[k] = q[k - 1])
  BY <1>1, Push
<1>3. q # <<>> => Head(q) = q[1]
  BY Pop
<1> HIDE DEF r
<1>4. ASSUME NEW k \in 1 .. Len(r)
      PROVE  /\ r[k].at \in Places \ {"setting", "assigning", "firing"} => r[k].of \in Lifetimes
             /\ r[k].at \in Ground => k = Len(r) /\ t = Firer
             /\ k # 1 => r[k].at \in Ground \cup {"running"}
  <2>1. CASE k = 1
    BY <2>1, <1>2 DEF Fits, Ground
  <2>2. CASE k # 1
    <3> DEFINE j == k - 1
    <3>1. j \in 1 .. Len(q) /\ r[k] = q[j] /\ (j = Len(q) => k = Len(r))
      BY <2>2, <1>2
    <3>2. j = 1 => q # <<>>
      BY <3>1
    <3>3. r[k].at \in Ground \cup {"running"}
      BY <3>1, <3>2, <1>3 DEF Shaped
    <3> HIDE DEF j
    <3>4. QED
      BY <3>1, <3>3 DEF Shaped
  <2>3. QED
    BY <2>1, <2>2
<1>5. Head(r).at = "attaching" => \A k \in 2 .. Len(r) : r[k].at = "making"
  <2>1. q = <<>> => Len(q) = 0
    OBVIOUS
  <2>2. QED
    BY <2>1, <1>2 DEF Fits
<1>6. QED
  BY <1>4, <1>5 DEF Shaped, r

LEMMA ShapedPop ==
    ASSUME NEW t, NEW q \in Seq(Frame), q # <<>>, Shaped(t, q)
    PROVE  /\ Shaped(t, Tail(q))
           /\ Tail(q) # <<>> => Head(Tail(q)).at \in Ground \cup {"running"}
           /\ Head(q).at \in Ground => Tail(q) = <<>>
<1>1. /\ Len(q) \in Nat /\ Len(q) >= 1 /\ Len(Tail(q)) = Len(q) - 1 /\ Head(q) = q[1]
      /\ \A k \in 1 .. Len(Tail(q)) : k + 1 \in 2 .. Len(q) /\ Tail(q)[k] = q[k + 1]
      /\ Tail(q) # <<>> => Head(Tail(q)) = q[2] /\ Len(q) >= 2
  BY Pop
<1>0. /\ Len(q) \in Nat /\ Len(q) >= 1 /\ Len(Tail(q)) = Len(q) - 1
      /\ 1 \in 1 .. Len(q) /\ (Len(q) >= 2 => 2 \in 1 .. Len(q))
  <2>1. Len(q) \in Nat /\ Len(q) >= 1 /\ Len(Tail(q)) = Len(q) - 1
    BY <1>1
  <2>2. QED
    BY <2>1
<1>2. Tail(q) # <<>> => Head(Tail(q)).at \in Ground \cup {"running"}
  <2> SUFFICES ASSUME Tail(q) # <<>> PROVE Head(Tail(q)).at \in Ground \cup {"running"}
    OBVIOUS
  <2>1. Head(Tail(q)) = q[2] /\ 2 \in 1 .. Len(q)
    BY <1>1, <1>0
  <2>2. QED
    BY <2>1 DEF Shaped
<1>3. Head(q).at \in Ground => Tail(q) = <<>>
  <2>1. Head(q).at \in Ground => 1 = Len(q)
    <3>1. q[1].at \in Ground => 1 = Len(q)
      BY <1>0 DEF Shaped
    <3>2. QED
      BY <3>1, <1>1
  <2>2. 1 = Len(q) => Len(Tail(q)) = 0
    <3>1. Len(q) = Len(Tail(q)) + 1 /\ Len(Tail(q)) \in Nat
      BY <1>0
    <3>2. QED
      BY <3>1, OneLess
  <2>3. Len(Tail(q)) = 0 => Tail(q) = <<>>
    <3>1. Tail(q) \in Seq(Frame)
      BY Pop
    <3>2. QED
      BY <3>1, EmptySeq
  <2>4. QED
    BY <2>1, <2>2, <2>3
<1>4. ASSUME NEW k \in 1 .. Len(Tail(q))
      PROVE  /\ Tail(q)[k].at \in Places \ {"setting", "assigning", "firing"} => Tail(q)[k].of \in Lifetimes
             /\ Tail(q)[k].at \in Ground => k = Len(Tail(q)) /\ t = Firer
             /\ k # 1 => Tail(q)[k].at \in Ground \cup {"running"}
  <2> DEFINE j == k + 1
  <2>1. j \in 2 .. Len(q) /\ Tail(q)[k] = q[j]
    BY <1>1
  <2>2. j \in 1 .. Len(q) /\ j # 1
    BY <2>1, <1>0
  <2>3. j = Len(q) => k = Len(Tail(q))
    <3>1. Len(q) = Len(Tail(q)) + 1 /\ Len(Tail(q)) \in Nat
      BY <1>0
    <3> DEFINE n == Len(q)  m == Len(Tail(q))
    <3> HIDE DEF n, m
    <3>2. n = m + 1 /\ m \in Nat /\ k \in 1 .. m
      BY <3>1 DEF n, m
    <3>3. j = n => k = m
      BY <3>2
    <3>4. QED
      BY <3>3 DEF n, m
  <2> HIDE DEF j
  <2>4. QED
    BY <2>1, <2>2, <2>3 DEF Shaped
<1>5. Tail(q) # <<>> => Head(Tail(q)).at # "attaching"
  BY <1>2 DEF Ground
<1>6. QED
  BY <1>2, <1>3, <1>4, <1>5 DEF Shaped

\* A stack that moves by one frame.
Moved(q, r) ==
    \/ r = q
    \/ \E f : /\ r = <<f>> \o q /\ Fits(q, f) /\ f.at # "assigning"
              /\ q = <<>> \/ Head(q).at = "running"
              /\ f.at = "setting" => q # <<>>
    \/ q # <<>> /\ Head(q).at \notin Ground \cup {"setting", "assigning"} /\ r = Tail(q)
    \/ \E f : /\ q # <<>> /\ Head(q).at \notin Ground \cup {"setting", "assigning"}
              /\ r = <<f>> \o Tail(q) /\ Fits(Tail(q), f)
              /\ f.at \notin {"setting", "assigning", "attaching"}

LEMMA MovedShape ==
    ASSUME NEW t, NEW q \in Seq(Frame), NEW r, Shaped(t, q), Moved(q, r)
    PROVE  r \in Seq(Frame) /\ Shaped(t, r)
<1>1. CASE r = q
  BY <1>1
<1>2. ASSUME NEW f, r = <<f>> \o q, Fits(q, f), q = <<>> \/ Head(q).at = "running"
      PROVE  r \in Seq(Frame) /\ Shaped(t, r)
  <2>1. <<f>> \o q \in Seq(Frame)
    BY <1>2, Push DEF Fits
  <2>2. Shaped(t, <<f>> \o q)
    BY <1>2, ShapedPush
  <2>3. QED
    BY <2>1, <2>2, <1>2
<1>3. CASE q # <<>> /\ r = Tail(q)
  BY <1>3, Pop, ShapedPop
<1>4. ASSUME NEW f, q # <<>>, r = <<f>> \o Tail(q), Fits(Tail(q), f)
      PROVE  r \in Seq(Frame) /\ Shaped(t, r)
  <2>1. Tail(q) \in Seq(Frame)
    BY <1>4, Pop
  <2>2. Shaped(t, Tail(q)) /\ (Tail(q) = <<>> \/ Head(Tail(q)).at \in Ground \cup {"running"})
    BY <1>4, ShapedPop
  <2>3. <<f>> \o Tail(q) \in Seq(Frame)
    BY <2>1, <1>4, Push DEF Fits
  <2>4. Shaped(t, <<f>> \o Tail(q))
    BY <2>1, <2>2, <1>4, ShapedPush
  <2>5. QED
    BY <2>3, <2>4, <1>4
<1>5. QED
  BY <1>1, <1>2, <1>3, <1>4 DEF Moved

-----------------------------------------------------------------------------
(* What a step leaves of the places where threads are.                     *)

LEMMA Changed ==
    ASSUME NEW t \in Threads, NEW r \in Seq(Frame), stack \in [Threads -> Seq(Frame)],
           stack' = [stack EXCEPT ![t] = r]
    PROVE  /\ stack' \in [Threads -> Seq(Frame)] /\ stack'[t] = r
           /\ \A u \in Threads \ {t} : stack'[u] = stack[u]
           /\ \A place, l : Has(r, place, l) => In(place, l)'
           /\ \A place, l : In(place, l) => In(place, l)' \/ Has(stack[t], place, l)
<1>1. /\ stack' \in [Threads -> Seq(Frame)] /\ stack'[t] = r
      /\ \A u \in Threads \ {t} : stack'[u] = stack[u]
  OBVIOUS
<1>2. ASSUME NEW place, NEW l, Has(r, place, l) PROVE In(place, l)'
  BY <1>1, <1>2 DEF In, Has
<1>3. ASSUME NEW place, NEW l, In(place, l) PROVE In(place, l)' \/ Has(stack[t], place, l)
  <2>1. PICK u \in Threads : Has(stack[u], place, l)
    BY <1>3 DEF In
  <2>2. CASE u = t
    BY <2>1, <2>2
  <2>3. CASE u # t
    BY <2>1, <2>3, <1>1 DEF In, Has
  <2>4. QED
    BY <2>2, <2>3
<1>4. QED
  BY <1>1, <1>2, <1>3

LEMMA Called ==
    ASSUME NEW t \in Threads, NEW f \in Frame, stack \in [Threads -> Seq(Frame)], Call(t, f)
    PROVE  /\ stack' = [stack EXCEPT ![t] = <<f>> \o stack[t]] /\ <<f>> \o stack[t] \in Seq(Frame)
           /\ \A place, l : In(place, l) => In(place, l)'
           /\ In(f.at, f.of)'
<1> DEFINE r == <<f>> \o stack[t]
<1>1. stack[t] \in Seq(Frame) /\ stack' = [stack EXCEPT ![t] = r]
  BY DEF Call
<1>2. r \in Seq(Frame)
  BY <1>1, Push
<1>3. \A place, l : Has(r, place, l) <=> Has(stack[t], place, l) \/ (f.at = place /\ f.of = l)
  BY <1>1, HasPushed
<1> HIDE DEF r
<1>4. /\ \A place, l : Has(r, place, l) => In(place, l)'
      /\ \A place, l : In(place, l) => In(place, l)' \/ Has(stack[t], place, l)
  BY <1>1, <1>2, Changed
<1>5. QED
  BY <1>1, <1>2, <1>3, <1>4 DEF r

LEMMA Returned ==
    ASSUME NEW t \in Threads, stack \in [Threads -> Seq(Frame)], ~Idle(t), Return(t)
    PROVE  /\ stack' = [stack EXCEPT ![t] = Tail(stack[t])] /\ Tail(stack[t]) \in Seq(Frame)
           /\ \A place, l : In(place, l) => In(place, l)' \/ (Top(t).at = place /\ Top(t).of = l)
<1> DEFINE r == Tail(stack[t])
<1>1. stack[t] \in Seq(Frame) /\ stack[t] # <<>> /\ stack' = [stack EXCEPT ![t] = r]
  BY DEF Return, Idle
<1>2. r \in Seq(Frame)
  BY <1>1, Pop
<1>3. \A place, l : Has(stack[t], place, l) <=> Has(r, place, l) \/ (Top(t).at = place /\ Top(t).of = l)
  BY <1>1, HasPopped DEF Top
<1> HIDE DEF r
<1>4. /\ \A place, l : Has(r, place, l) => In(place, l)'
      /\ \A place, l : In(place, l) => In(place, l)' \/ Has(stack[t], place, l)
  BY <1>1, <1>2, Changed
<1>5. QED
  BY <1>1, <1>2, <1>3, <1>4 DEF r

LEMMA Went ==
    ASSUME NEW t \in Threads, NEW f \in Frame, stack \in [Threads -> Seq(Frame)], ~Idle(t), Goto(t, f)
    PROVE  /\ stack' = [stack EXCEPT ![t] = <<f>> \o Tail(stack[t])]
           /\ <<f>> \o Tail(stack[t]) \in Seq(Frame)
           /\ \A place, l : In(place, l) => In(place, l)' \/ (Top(t).at = place /\ Top(t).of = l)
           /\ In(f.at, f.of)'
<1> DEFINE q == Tail(stack[t])  r == <<f>> \o q
<1>1. stack[t] \in Seq(Frame) /\ stack[t] # <<>> /\ stack' = [stack EXCEPT ![t] = r]
  BY DEF Goto, Idle
<1>2. q \in Seq(Frame)
  BY <1>1, Pop
<1>3. \A place, l : Has(stack[t], place, l) <=> Has(q, place, l) \/ (Top(t).at = place /\ Top(t).of = l)
  BY <1>1, HasPopped DEF Top
<1>4. \A place, l : Has(r, place, l) <=> Has(q, place, l) \/ (f.at = place /\ f.of = l)
  BY <1>2, HasPushed
<1>5. r \in Seq(Frame)
  BY <1>2, Push
<1> HIDE DEF r, q
<1>6. /\ \A place, l : Has(r, place, l) => In(place, l)'
      /\ \A place, l : In(place, l) => In(place, l)' \/ Has(stack[t], place, l)
  BY <1>1, <1>5, Changed
<1>7. QED
  BY <1>1, <1>3, <1>4, <1>5, <1>6 DEF r, q

-----------------------------------------------------------------------------
(* What a step leaves of a lifetime's actions.                             *)

\* Whoever terminates goes on until nothing is left.
Stay ==
    \A l \in Lifetimes :
        /\ In("terminating", l) => In("terminating", l)'
        /\ In("running", l) /\ left[l] # {} => In("running", l)'

\* A lifetime is terminated by a thread that then takes its actions.
Ends ==
    \A l \in Lifetimes :
        /\ terminated[l] => terminated'[l]
        /\ terminated'[l] /\ ~terminated[l] => In("terminating", l)'

\* Actions are added, and stay what they are.
Grows ==
    \A l \in Lifetimes :
        /\ terminated[l] => terminated'[l]
        /\ action_id_in_map[l] =< action_id_in_map'[l]
        /\ \A i \in Ids(l) : what'[l][i + 1] = what[l][i + 1]

LEMMA Index ==
    ASSUME Typed, NEW l \in Lifetimes, What(l), NEW i \in Ids(l)
    PROVE  /\ action_id_in_map[l] \in Nat /\ i \in Nat /\ i < action_id_in_map[l]
           /\ i + 1 \in 1 .. Len(what[l]) /\ what[l][i + 1] \in Action
           /\ Meant(l, what[l][i + 1])
<1>1. action_id_in_map[l] \in Nat /\ what[l] \in Seq(Action)
  BY DEF Typed
<1>2. i \in Nat /\ i < action_id_in_map[l] /\ i + 1 \in 1 .. action_id_in_map[l]
  BY <1>1 DEF Ids
<1>3. i + 1 \in 1 .. Len(what[l])
  BY <1>2 DEF What
<1>4. QED
  BY <1>1, <1>2, <1>3 DEF What

LEMMA MeantStays ==
    ASSUME Typed, Typed', Grows, NEW l, NEW a \in Action, Meant(l, a)
    PROVE  Meant(l, a)'
<1>1. ASSUME a.do = "unlink" PROVE /\ a.id < action_id_in_map'[a.of]
                                   /\ what'[a.of][a.id + 1] = Do("terminate", l, 0)
  <2>1. a.of \in Lifetimes /\ a.id \in Nat /\ a.id < action_id_in_map[a.of]
    BY <1>1 DEF Meant, Action
  <2>2. action_id_in_map[a.of] \in Nat /\ action_id_in_map'[a.of] \in Nat
    BY <2>1 DEF Typed
  <2>3. a.id \in Ids(a.of)
    BY <2>1, <2>2 DEF Ids
  <2>4. action_id_in_map[a.of] =< action_id_in_map'[a.of]
    BY <2>1 DEF Grows
  <2>5. what'[a.of][a.id + 1] = what[a.of][a.id + 1]
    BY <2>1, <2>3 DEF Grows
  <2>6. a.id < action_id_in_map'[a.of]
    BY <2>1, <2>2, <2>4
  <2>7. QED
    BY <1>1, <2>5, <2>6 DEF Meant
<1>2. QED
  BY <1>1 DEF Meant

\* The actions themselves are let alone.
LEMMA Untouched ==
    ASSUME Typed, \A l \in Lifetimes : Kept(l), UNCHANGED <<maps, left, ran>>, Stay, Ends
    PROVE  \A l \in Lifetimes : Kept(l)'
<1> USE DEF maps
<1> SUFFICES ASSUME NEW l \in Lifetimes PROVE Kept(l)'
  OBVIOUS
<1>1. Kept(l)
  OBVIOUS
<1>2. What(l)'
  <2>1. What(l)
    BY <1>1 DEF Kept
  <2>2. QED
    BY <2>1 DEF What, Meant
<1>3. Accounts(l)' /\ Reverse(l)'
  BY <1>1 DEF Kept, Accounts, Reverse, Ids, RanIds
<1>4. Once(l)'
  BY <1>1 DEF Kept, Once, Ends
<1>5. OnItsWay(l)'
  BY <1>1 DEF Kept, OnItsWay, Ends, Stay
<1>6. NestedOver(l)'
  <2> SUFFICES ASSUME NEW i \in RanIds(l) \cup removed[l], what[l][i + 1].do = "terminate"
               PROVE  terminated'[what[l][i + 1].of]
    BY DEF NestedOver, RanIds
  <2>1. i \in Ids(l)
    BY <1>1 DEF Kept, Accounts
  <2>2. what[l][i + 1].of \in Lifetimes
    BY <1>1, <2>1, Index DEF Kept, Meant
  <2>3. terminated[what[l][i + 1].of]
    BY <1>1 DEF Kept, NestedOver
  <2>4. QED
    BY <2>2, <2>3 DEF Ends
<1>7. QED
  BY <1>2, <1>3, <1>4, <1>5, <1>6 DEF Kept

\* An action that is added is the last.
LEMMA AddedLast ==
    ASSUME Typed, NEW p \in Lifetimes, What(p), NEW a \in Action, NEW t, add_action(t, p, a)
    PROVE  /\ what' = [what EXCEPT ![p] = Append(what[p], a)]
           /\ what'[p] \in Seq(Action) /\ Len(what'[p]) = action_id_in_map'[p]
           /\ action_id_in_map[p] \in Nat /\ action_id_in_map'[p] = action_id_in_map[p] + 1
           /\ \A i \in Ids(p) : what'[p][i + 1] = what[p][i + 1]
           /\ what'[p][action_id_in_map[p] + 1] = a
           /\ \A i \in 1 .. Len(what'[p]) : i \in 1 .. Len(what[p]) \/ i = action_id_in_map[p] + 1
           /\ \A i \in 1 .. Len(what[p]) : what'[p][i] = what[p][i]
           /\ Ids(p)' = Ids(p) \cup {action_id_in_map[p]}
<1> DEFINE n == action_id_in_map[p]  w == what[p]
<1>1. /\ what \in [Lifetimes -> Seq(Action)] /\ action_id_in_map \in [Lifetimes -> Nat]
      /\ w \in Seq(Action) /\ n \in Nat /\ Len(w) = n
  BY DEF Typed, What
<1>2. what' = [what EXCEPT ![p] = Append(w, a)] /\ what'[p] = Append(w, a)
  BY <1>1 DEF add_action
<1>3. action_id_in_map'[p] = n + 1
  BY <1>1 DEF add_action
<1>4. Append(w, a) \in Seq(Action) /\ Len(Append(w, a)) = Len(w) + 1 /\ Append(w, a)[Len(w) + 1] = a
  BY <1>1
<1>5. \A i \in 1 .. Len(w) : Append(w, a)[i] = w[i]
  BY <1>1
<1>6. Ids(p)' = 0 .. n /\ Ids(p) = 0 .. n - 1
  BY <1>1, <1>3 DEF Ids
<1> HIDE DEF n, w
<1>7. \A i \in Ids(p) : i + 1 \in 1 .. Len(w)
  BY <1>1, <1>6
<1>8. \A i \in 1 .. n + 1 : i \in 1 .. n \/ i = n + 1
  BY <1>1
<1>9. 0 .. n = (0 .. n - 1) \cup {n}
  BY <1>1
<1>10. /\ \A i \in Ids(p) : what'[p][i + 1] = w[i + 1]
       /\ what'[p][n + 1] = a
       /\ Len(what'[p]) = n + 1 /\ what'[p] \in Seq(Action)
       /\ \A i \in 1 .. Len(w) : what'[p][i] = w[i]
  BY <1>1, <1>2, <1>4, <1>5, <1>7
<1>11. /\ \A i \in 1 .. Len(what'[p]) : i \in 1 .. Len(w) \/ i = n + 1
       /\ Ids(p)' = Ids(p) \cup {n}
  BY <1>1, <1>6, <1>8, <1>9, <1>10
<1>12. QED
  BY <1>1, <1>2, <1>3, <1>10, <1>11 DEF n, w

LEMMA AddGrows ==
    ASSUME Typed, NEW p \in Lifetimes, What(p), NEW a \in Action, NEW t, add_action(t, p, a),
           UNCHANGED terminated
    PROVE  Grows
<1> SUFFICES ASSUME NEW l \in Lifetimes
             PROVE  /\ action_id_in_map[l] =< action_id_in_map'[l]
                    /\ \A i \in Ids(l) : what'[l][i + 1] = what[l][i + 1]
  BY DEF Grows
<1>1. action_id_in_map \in [Lifetimes -> Nat] /\ what \in [Lifetimes -> Seq(Action)]
  BY DEF Typed
<1>2. CASE l = p
  BY <1>1, <1>2, AddedLast
<1>3. CASE l # p
  BY <1>1, <1>3 DEF add_action
<1>4. QED
  BY <1>2, <1>3

LEMMA Added ==
    ASSUME Typed, Typed', \A l \in Lifetimes : Kept(l), NEW t, NEW p \in Lifetimes, NEW a \in Action,
           Meant(p, a)', ~terminated[p], add_action(t, p, a), UNCHANGED <<terminated, left, ran>>, Stay
    PROVE  \A l \in Lifetimes : Kept(l)'
<1> SUFFICES ASSUME NEW l \in Lifetimes PROVE Kept(l)'
  OBVIOUS
<1>1. Kept(l) /\ Kept(p) /\ What(p)
  BY DEF Kept
<1> DEFINE n == action_id_in_map[p]
<1>2. /\ what' = [what EXCEPT ![p] = Append(what[p], a)]
      /\ what'[p] \in Seq(Action) /\ Len(what'[p]) = action_id_in_map'[p]
      /\ n \in Nat /\ action_id_in_map'[p] = n + 1
      /\ \A i \in Ids(p) : what'[p][i + 1] = what[p][i + 1]
      /\ what'[p][n + 1] = a
      /\ \A i \in 1 .. Len(what'[p]) : i \in 1 .. Len(what[p]) \/ i = n + 1
      /\ \A i \in 1 .. Len(what[p]) : what'[p][i] = what[p][i]
      /\ Ids(p)' = Ids(p) \cup {n}
  BY <1>1, AddedLast
<1>3. /\ what \in [Lifetimes -> Seq(Action)] /\ action_id_in_map \in [Lifetimes -> Nat]
      /\ actions \in [Lifetimes -> SUBSET Nat]
  BY DEF Typed
<1>4. /\ actions'[p] = actions[p] \cup {n} /\ removed' = removed
      /\ l # p => /\ actions'[l] = actions[l] /\ what'[l] = what[l]
                  /\ action_id_in_map'[l] = action_id_in_map[l]
      /\ torn \subseteq torn'
  BY <1>2, <1>3 DEF add_action, Touch
<1>5. Grows
  BY <1>1, AddGrows
<1>6. What(l)'
  <2>1. ASSUME NEW i \in 1 .. Len(what[l]) PROVE Meant(l, what[l][i])'
    <3>1. what[l][i] \in Action /\ Meant(l, what[l][i])
      BY <1>1, <1>3 DEF Kept, What
    <3>2. what'[l][i] = what[l][i]
      BY <1>2, <1>4
    <3>3. QED
      BY <3>1, <3>2, <1>5, MeantStays
  <2>2. CASE l = p
    BY <2>1, <2>2, <1>2 DEF What
  <2>3. CASE l # p
    BY <2>1, <2>3, <1>1, <1>4 DEF What, Kept
  <2>4. QED
    BY <2>2, <2>3
<1>7. Accounts(l)'
  <2>1. CASE l = p
    <3>1. n \notin Ids(p)
      BY <1>2 DEF Ids
    <3>2. Accounts(p)
      BY <1>1 DEF Kept
    <3> HIDE DEF n
    <3>3. QED
      BY <2>1, <3>1, <3>2, <1>2, <1>4 DEF Accounts, RanIds
  <2>2. CASE l # p
    <3>1. Accounts(l) /\ Ids(l)' = Ids(l)
      BY <2>2, <1>1, <1>4 DEF Kept, Ids
    <3>2. QED
      BY <2>2, <3>1, <1>4 DEF Accounts, RanIds
  <2>3. QED
    BY <2>1, <2>2
<1>8. Once(l)' /\ Reverse(l)'
  BY <1>1, <1>4 DEF Kept, Once, Reverse
<1>9. OnItsWay(l)'
  BY <1>1, <1>4 DEF Kept, OnItsWay, Stay
<1>10. NestedOver(l)'
  <2> SUFFICES ASSUME NEW i \in RanIds(l) \cup removed[l], what'[l][i + 1].do = "terminate"
               PROVE  terminated[what'[l][i + 1].of]
    BY <1>4 DEF NestedOver, RanIds
  <2>1. i \in Ids(l)
    BY <1>1 DEF Kept, Accounts
  <2>2. what'[l][i + 1] = what[l][i + 1]
    BY <2>1, <1>5 DEF Grows
  <2>3. QED
    BY <2>2, <1>1 DEF Kept, NestedOver
<1>11. QED
  BY <1>6, <1>7, <1>8, <1>9, <1>10 DEF Kept

\* An action is taken out of the map, and more when the map is torn.
LEMMA Removed ==
    ASSUME Typed, \A l \in Lifetimes : Kept(l), NEW p \in Lifetimes, NEW id, NEW rest \in SUBSET Nat,
           rest \subseteq actions[p] \ {id}, p \notin torn => rest = actions[p] \ {id},
           id \in Ids(p) /\ what[p][id + 1].do = "terminate" => terminated[what[p][id + 1].of],
           actions' = [actions EXCEPT ![p] = rest],
           removed' = [removed EXCEPT ![p] = @ \cup ({id} \cap actions[p])],
           torn \subseteq torn', UNCHANGED <<terminated, action_id_in_map, what, left, ran>>, Stay
    PROVE  \A l \in Lifetimes : Kept(l)'
<1> SUFFICES ASSUME NEW l \in Lifetimes PROVE Kept(l)'
  OBVIOUS
<1>1. Kept(l) /\ Kept(p)
  OBVIOUS
<1>2. actions \in [Lifetimes -> SUBSET Nat] /\ removed \in [Lifetimes -> SUBSET Nat]
  BY DEF Typed
<1>3. /\ actions'[p] = rest /\ removed'[p] = removed[p] \cup ({id} \cap actions[p])
      /\ l # p => actions'[l] = actions[l] /\ removed'[l] = removed[l]
      /\ actions'[l] \subseteq actions[l]
  BY <1>2
<1>4. What(l)'
  <2>1. What(l)
    BY <1>1 DEF Kept
  <2>2. QED
    BY <2>1 DEF What, Meant
<1>5. Accounts(l)'
  <2>1. CASE l = p
    <3>1. Accounts(p) /\ Once(p)
      BY <1>1 DEF Kept
    <3>2. Ids(p)' = Ids(p) /\ RanIds(p)' = RanIds(p)
      BY DEF Ids, RanIds
    <3>3. actions[p] # {} => left[p] = {} /\ RanIds(p) = {}
      BY <3>1 DEF Once, RanIds
    <3>4. removed'[p] \cap (actions'[p] \cup left[p] \cup RanIds(p)) = {}
      BY <3>1, <3>3, <1>3 DEF Accounts
    <3>5. p \notin torn' => Ids(p) \subseteq actions'[p] \cup left[p] \cup RanIds(p) \cup removed'[p]
      BY <3>1, <1>3 DEF Accounts
    <3>6. actions'[p] \subseteq Ids(p) /\ removed'[p] \subseteq Ids(p)
      BY <3>1, <1>3 DEF Accounts
    <3>7. QED
      BY <2>1, <3>1, <3>2, <3>4, <3>5, <3>6 DEF Accounts
  <2>2. CASE l # p
    BY <2>2, <1>1, <1>3 DEF Kept, Accounts, Ids, RanIds
  <2>3. QED
    BY <2>1, <2>2
<1>6. Once(l)' /\ Reverse(l)'
  BY <1>1, <1>3 DEF Kept, Once, Reverse
<1>7. OnItsWay(l)'
  BY <1>1, <1>3 DEF Kept, OnItsWay, Stay
<1>8. NestedOver(l)'
  <2>1. NestedOver(l)
    BY <1>1 DEF Kept
  <2>2. CASE l = p
    <3>1. actions[p] \subseteq Ids(p)
      BY <1>1 DEF Kept, Accounts
    <3>2. QED
      BY <2>1, <2>2, <3>1, <1>3 DEF NestedOver, RanIds
  <2>3. CASE l # p
    BY <2>1, <2>3, <1>3 DEF NestedOver, RanIds
  <2>4. QED
    BY <2>2, <2>3
<1>9. QED
  BY <1>4, <1>5, <1>6, <1>7, <1>8 DEF Kept

\* A thread takes the map, and will run what was in it.
LEMMA Taken ==
    ASSUME Typed, \A l \in Lifetimes : Kept(l), NEW t, NEW p \in Lifetimes, terminated[p],
           take_actions(t, p), UNCHANGED <<terminated, ran>>,
           \A l \in Lifetimes : In("running", l) => In("running", l)',
           \A l \in Lifetimes \ {p} : In("terminating", l) => In("terminating", l)',
           actions[p] # {} => In("running", p)'
    PROVE  \A l \in Lifetimes : Kept(l)'
<1> SUFFICES ASSUME NEW l \in Lifetimes PROVE Kept(l)'
  OBVIOUS
<1>1. Kept(l) /\ Kept(p)
  OBVIOUS
<1>2. actions \in [Lifetimes -> SUBSET Nat] /\ left \in [Lifetimes -> SUBSET Nat]
  BY DEF Typed
<1>3. /\ actions'[p] = {} /\ left'[p] = left[p] \cup actions[p] /\ torn \subseteq torn'
      /\ l # p => actions'[l] = actions[l] /\ left'[l] = left[l]
      /\ action_id_in_map' = action_id_in_map /\ what' = what /\ removed' = removed
  BY <1>2 DEF take_actions, Touch
<1>4. actions[p] # {} => left[p] = {} /\ ran[p] = <<>>
  BY <1>1 DEF Kept, Once
<1>5. What(l)'
  <2>1. What(l)
    BY <1>1 DEF Kept
  <2>2. QED
    BY <2>1, <1>3 DEF What, Meant
<1>6. Accounts(l)'
  <2>1. Accounts(l) /\ Ids(l)' = Ids(l) /\ RanIds(l)' = RanIds(l)
    BY <1>1, <1>3 DEF Kept, Ids, RanIds
  <2>2. QED
    BY <2>1, <1>3 DEF Accounts
<1>7. Once(l)' /\ Reverse(l)'
  <2>1. CASE l = p
    <3>1. actions[p] # {} => Len(ran[p]) = 0
      BY <1>4
    <3>2. CASE actions[p] # {}
      BY <2>1, <3>1, <3>2, <1>3 DEF Once, Reverse
    <3>3. CASE actions[p] = {}
      BY <2>1, <3>3, <1>1, <1>3 DEF Kept, Once, Reverse
    <3>4. QED
      BY <3>2, <3>3
  <2>2. CASE l # p
    BY <2>2, <1>1, <1>3 DEF Kept, Once, Reverse
  <2>3. QED
    BY <2>1, <2>2
<1>8. OnItsWay(l)'
  BY <1>1, <1>3 DEF Kept, OnItsWay
<1>9. NestedOver(l)'
  BY <1>1, <1>3 DEF Kept, NestedOver, RanIds
<1>10. QED
  BY <1>5, <1>6, <1>7, <1>8, <1>9 DEF Kept

-----------------------------------------------------------------------------
(* The actions run from the last to the first.                             *)

LEMMA Least ==
    ASSUME NEW S \in SUBSET Nat, S # {}
    PROVE  \E m \in S : \A n \in S : m =< n
<1>1. PICK m \in S : \A n \in S : ~(<<n, m>> \in OpToRel(<, Nat))
  BY NatLessThanWellFounded, WFMin
<1>2. ASSUME NEW n \in S PROVE m =< n
  <2>1. m \in Nat /\ n \in Nat
    OBVIOUS
  <2>2. n < m => <<n, m>> \in OpToRel(<, Nat)
    BY <2>1 DEF OpToRel
  <2>3. ~(n < m)
    BY <2>2, <1>1
  <2>4. QED
    BY <2>1, <2>3
<1>3. QED
  BY <1>2

LEMMA LastLeft ==
    ASSUME Typed, NEW l \in Lifetimes, left[l] \subseteq Ids(l), left[l] # {}
    PROVE  next_to_run(l) \in left[l] /\ \A j \in left[l] : next_to_run(l) >= j
<1> DEFINE n == action_id_in_map[l]
           S == {b \in Nat : \E i \in left[l] : b = n - i}
<1>1. n \in Nat /\ \A i \in left[l] : i \in Nat /\ n - i \in Nat
  BY DEF Typed, Ids
<1>2. S # {}
  BY <1>1
<1>3. PICK m \in S : \A b \in S : m =< b
  BY <1>2, Least
<1>4. PICK i \in left[l] : m = n - i
  BY <1>3
<1>5. ASSUME NEW j \in left[l] PROVE i >= j
  <2>1. n - j \in S
    BY <1>1
  <2>2. m =< n - j
    BY <2>1, <1>3
  <2>3. QED
    BY <2>2, <1>1, <1>4
<1>6. QED
  BY <1>4, <1>5 DEF next_to_run

LEMMA RanIdsAdded ==
    ASSUME NEW p, ran[p] \in Seq(Nat), NEW i \in Nat, ran'[p] = Append(ran[p], i)
    PROVE  /\ RanIds(p)' = RanIds(p) \cup {i}
           /\ Len(ran[p]) \in Nat /\ Len(ran'[p]) = Len(ran[p]) + 1 /\ ran'[p][Len(ran[p]) + 1] = i
           /\ \A k \in 1 .. Len(ran[p]) : ran'[p][k] = ran[p][k] /\ ran[p][k] \in Nat
<1>1. /\ Len(ran[p]) \in Nat /\ Len(ran'[p]) = Len(ran[p]) + 1 /\ ran'[p][Len(ran[p]) + 1] = i
      /\ \A k \in 1 .. Len(ran[p]) : ran'[p][k] = ran[p][k] /\ ran[p][k] \in Nat
  OBVIOUS
<1> DEFINE n == Len(ran[p])  m == Len(ran'[p])
<1>2. n \in Nat /\ m = n + 1
  BY <1>1
<1>3. ran'[p][n + 1] = i /\ \A k \in 1 .. n : ran'[p][k] = ran[p][k]
  BY <1>1
<1>4. RanIds(p) = {ran[p][k] : k \in 1 .. n} /\ RanIds(p)' = {ran'[p][k] : k \in 1 .. m}
  BY DEF RanIds
<1> HIDE DEF n, m
<1>5. n + 1 \in 1 .. m /\ \A k \in 1 .. n : k \in 1 .. m
  BY <1>2
<1>6. \A k \in 1 .. m : k \in 1 .. n \/ k = n + 1
  BY <1>2
<1>7. RanIds(p)' = RanIds(p) \cup {i}
  BY <1>3, <1>4, <1>5, <1>6
<1>8. QED
  BY <1>1, <1>7

\* The last of what is left runs.
LEMMA Ran ==
    ASSUME Typed, \A l \in Lifetimes : Kept(l), NEW p \in Lifetimes, left[p] # {}, NEW i,
           i = next_to_run(p), left' = [left EXCEPT ![p] = @ \ {i}],
           ran' = [ran EXCEPT ![p] = Append(@, i)],
           what[p][i + 1].do = "terminate" => terminated'[what[p][i + 1].of],
           UNCHANGED maps, Stay, Ends
    PROVE  \A l \in Lifetimes : Kept(l)'
<1> USE DEF maps
<1> SUFFICES ASSUME NEW l \in Lifetimes PROVE Kept(l)'
  OBVIOUS
<1>1. Kept(l) /\ Kept(p)
  OBVIOUS
<1>2. left \in [Lifetimes -> SUBSET Nat] /\ ran \in [Lifetimes -> Seq(Nat)]
  BY DEF Typed
<1>3. /\ left'[p] = left[p] \ {i} /\ ran'[p] = Append(ran[p], i)
      /\ l # p => left'[l] = left[l] /\ ran'[l] = ran[l]
      /\ left'[l] \subseteq left[l]
  BY <1>2
<1>4. i \in left[p] /\ (\A j \in left[p] : i >= j) /\ i \in Nat
  BY <1>1, <1>2, LastLeft DEF Kept, Accounts
<1>5. /\ RanIds(p)' = RanIds(p) \cup {i}
      /\ Len(ran[p]) \in Nat /\ Len(ran'[p]) = Len(ran[p]) + 1 /\ ran'[p][Len(ran[p]) + 1] = i
      /\ \A k \in 1 .. Len(ran[p]) : ran'[p][k] = ran[p][k] /\ ran[p][k] \in Nat
  BY <1>2, <1>3, <1>4, RanIdsAdded
<1>6. What(l)'
  <2>1. What(l)
    BY <1>1 DEF Kept
  <2>2. QED
    BY <2>1 DEF What, Meant
<1>7. Accounts(l)'
  <2>1. Accounts(l) /\ Accounts(p) /\ Ids(l)' = Ids(l)
    BY <1>1 DEF Kept, Ids
  <2>2. CASE l = p
    BY <2>1, <2>2, <1>3, <1>4, <1>5 DEF Accounts
  <2>3. CASE l # p
    BY <2>1, <2>3, <1>3 DEF Accounts, RanIds
  <2>4. QED
    BY <2>2, <2>3
<1>8. Once(l)'
  <2>1. CASE l = p
    BY <2>1, <1>1 DEF Kept, Once, Ends
  <2>2. CASE l # p
    BY <2>2, <1>1, <1>3 DEF Kept, Once, Ends
  <2>3. QED
    BY <2>1, <2>2
<1>9. Reverse(l)'
  <2>1. CASE l = p
    <3>1. Reverse(p)
      BY <1>1 DEF Kept
    <3> DEFINE n == Len(ran[p])  m == Len(ran'[p])
    <3>2. n \in Nat /\ m = n + 1
      BY <1>5
    <3>3. /\ ran'[p][n + 1] = i
          /\ \A k \in 1 .. n : ran'[p][k] = ran[p][k] /\ ran[p][k] \in Nat
      BY <1>5
    <3>4. /\ \A a, b \in 1 .. n : a < b => ran[p][a] > ran[p][b]
          /\ \A j \in left[p], k \in 1 .. n : j < ran[p][k]
      BY <3>1 DEF Reverse
    <3> HIDE DEF n, m
    <3>5. \A k \in 1 .. m : k \in 1 .. n \/ k = n + 1
      BY <3>2
    <3>6. ASSUME NEW a \in 1 .. m, NEW b \in 1 .. m, a < b PROVE ran'[p][a] > ran'[p][b]
      <4>1. a \in 1 .. n
        BY <3>2, <3>6
      <4>2. CASE b \in 1 .. n
        BY <4>1, <4>2, <3>3, <3>4, <3>6
      <4>3. CASE b = n + 1
        <5>1. ran'[p][b] = i /\ ran'[p][a] = ran[p][a] /\ ran[p][a] \in Nat /\ i < ran[p][a]
          BY <4>1, <4>3, <3>3, <3>4, <1>4
        <5>2. QED
          BY <5>1, <1>4
      <4>4. QED
        BY <4>2, <4>3, <3>5
    <3>7. ASSUME NEW j \in left'[p], NEW k \in 1 .. m PROVE j < ran'[p][k]
      <4>1. j \in left[p] /\ j # i /\ j \in Nat /\ i >= j
        BY <1>2, <1>3, <1>4
      <4>2. CASE k \in 1 .. n
        BY <4>1, <4>2, <3>3, <3>4
      <4>3. CASE k = n + 1
        <5>1. ran'[p][k] = i /\ i \in Nat
          BY <4>3, <3>3, <1>4
        <5>2. j < i
          BY <4>1, <5>1
        <5>3. QED
          BY <5>1, <5>2
      <4>4. QED
        BY <4>2, <4>3, <3>5
    <3>8. QED
      BY <2>1, <3>6, <3>7 DEF Reverse, m
  <2>2. CASE l # p
    BY <2>2, <1>1, <1>3 DEF Kept, Reverse
  <2>3. QED
    BY <2>1, <2>2
<1>10. OnItsWay(l)'
  BY <1>1, <1>3 DEF Kept, OnItsWay, Stay, Ends
<1>11. NestedOver(l)'
  <2> SUFFICES ASSUME NEW j \in RanIds(l)' \cup removed[l], what[l][j + 1].do = "terminate"
               PROVE  terminated'[what[l][j + 1].of]
    BY DEF NestedOver
  <2>1. CASE l = p /\ j = i
    BY <2>1
  <2>2. CASE ~(l = p /\ j = i)
    <3>1. j \in RanIds(l) \cup removed[l]
      BY <2>2, <1>3, <1>5 DEF RanIds
    <3>2. j \in Ids(l) /\ terminated[what[l][j + 1].of]
      BY <3>1, <1>1 DEF Kept, Accounts, NestedOver
    <3>3. what[l][j + 1].of \in Lifetimes
      BY <1>1, <3>2, Index DEF Kept, Meant
    <3>4. QED
      BY <3>2, <3>3 DEF Ends
  <2>3. QED
    BY <2>1, <2>2
<1>12. QED
  BY <1>6, <1>7, <1>8, <1>9, <1>10, <1>11 DEF Kept

-----------------------------------------------------------------------------
(* What a step leaves of the stacks.                                       *)

LEMMA IdStays ==
    ASSUME Typed, Typed', Grows, NEW l \in Lifetimes, NEW id \in Nat, id < action_id_in_map[l]
    PROVE  id \in Ids(l) /\ id < action_id_in_map'[l] /\ what'[l][id + 1] = what[l][id + 1]
<1>1. action_id_in_map[l] \in Nat /\ action_id_in_map'[l] \in Nat
  BY DEF Typed
<1>2. id \in Ids(l)
  BY <1>1 DEF Ids
<1>3. action_id_in_map[l] =< action_id_in_map'[l] /\ what'[l][id + 1] = what[l][id + 1]
  BY <1>2 DEF Grows
<1>4. QED
  BY <1>1, <1>2, <1>3

\* What the top of a stack relies on goes on to hold.
LEMMA TopStays ==
    ASSUME Typed, Typed', \A l \in Lifetimes : Kept(l), Grows, NEW t, NEW q \in Seq(Frame),
           Shaped(t, q), TopMeant(q)
    PROVE  TopMeant(q)'
<1> SUFFICES ASSUME q # <<>> PROVE TopMeant(q)'
  BY DEF TopMeant
<1> DEFINE f == Head(q)
<1>1. f \in Frame /\ f = q[1] /\ 1 \in 1 .. Len(q)
  BY Pop
<1>2. f.id \in Nat
  BY <1>1 DEF Frame
<1>3. f.at \in {"terminating", "erasing"} => f.of \in Lifetimes
  BY <1>1 DEF Shaped, Places
<1>4. /\ f.at = "attaching" =>
            /\ f.with \in Lifetimes /\ f.id < action_id_in_map[f.with]
            /\ what[f.with][f.id + 1] = Do("terminate", f.of, 0)
      /\ f.at = "terminating" => terminated[f.of]
      /\ f.at = "erasing" =>
            /\ f.id < action_id_in_map[f.of]
            /\ what[f.of][f.id + 1].do = "terminate" => terminated[what[f.of][f.id + 1].of]
      /\ f.at \in {"setting", "assigning"} => Sets(q, f)
  BY DEF TopMeant
<1> HIDE DEF f
<1>5. f.at = "attaching" =>
        /\ f.with \in Lifetimes /\ f.id < action_id_in_map'[f.with]
        /\ what'[f.with][f.id + 1] = Do("terminate", f.of, 0)
  BY <1>2, <1>4, IdStays
<1>6. f.at = "terminating" => terminated'[f.of]
  BY <1>3, <1>4 DEF Grows
<1>7. ASSUME f.at = "erasing"
      PROVE  /\ f.id < action_id_in_map'[f.of]
             /\ what'[f.of][f.id + 1].do = "terminate" => terminated'[what'[f.of][f.id + 1].of]
  <2>1. f.of \in Lifetimes
    BY <1>3, <1>7
  <2>2. /\ f.id \in Ids(f.of) /\ f.id < action_id_in_map'[f.of]
        /\ what'[f.of][f.id + 1] = what[f.of][f.id + 1]
    BY <1>2, <1>4, <1>7, <2>1, IdStays
  <2>3. what[f.of][f.id + 1].do = "terminate" => what[f.of][f.id + 1].of \in Lifetimes
    BY <2>1, <2>2, Index DEF Kept, Meant
  <2>4. QED
    BY <2>2, <2>3, <1>4, <1>7 DEF Grows
<1>8. f.at \in {"setting", "assigning"} => Sets(q, f)'
  <2>1. Viewed \in Lifetimes
    BY LifetimesAssumption DEF Viewed, Lifetimes
  <2>2. QED
    BY <2>1, <1>4 DEF Grows, Sets
<1>9. QED
  BY <1>5, <1>6, <1>7, <1>8 DEF TopMeant, f

LEMMA StacksStay ==
    ASSUME Typed, Typed', \A l \in Lifetimes : Kept(l), Grows, Stacks, NEW t \in Threads,
           NEW r \in Seq(Frame), stack' = [stack EXCEPT ![t] = r], Shaped(t, r), TopMeant(r)'
    PROVE  Stacks'
<1> SUFFICES ASSUME NEW u \in Threads PROVE Shaped(u, stack[u])' /\ TopMeant(stack[u])'
  BY DEF Stacks
<1>1. stack \in [Threads -> Seq(Frame)]
  BY DEF Typed
<1>2. CASE u = t
  <2>1. stack'[u] = r
    BY <1>1, <1>2
  <2>2. Shaped(u, stack[u])'
    BY <2>1, <1>2 DEF Shaped, Sets
  <2>3. QED
    BY <2>1, <2>2, <1>2 DEF TopMeant
<1>3. CASE u # t
  <2>1. stack'[u] = stack[u] /\ stack[u] \in Seq(Frame) /\ Shaped(u, stack[u]) /\ TopMeant(stack[u])
    BY <1>1, <1>3 DEF Stacks
  <2>2. PICK q \in Seq(Frame) : Shaped(u, q) /\ TopMeant(q) /\ stack'[u] = q
    BY <2>1
  <2>3. TopMeant(q)'
    BY <2>2, TopStays
  <2>4. Shaped(u, stack[u])'
    BY <2>2 DEF Shaped, Sets
  <2>5. QED
    BY <2>2, <2>3, <2>4 DEF TopMeant
<1>4. QED
  BY <1>2, <1>3

-----------------------------------------------------------------------------
(* What a step leaves of the values.                                       *)

LEMMA MovedBottom ==
    ASSUME NEW t, NEW q \in Seq(Frame), NEW r, Shaped(t, q), Moved(q, r)
    PROVE  /\ Bottom(q) \in Ground <=> Bottom(r) \in Ground
           /\ Bottom(r) \in Ground => Bottom(q) = Bottom(r) /\ r[Len(r)] = q[Len(q)]
           /\ \A x \in {"setting", "assigning"} :
                 Bottom(r) \in Ground => (Setting(q, x) <=> Setting(r, x))
           /\ \A x \in {"setting", "assigning"} :
                 Bottom(r) \in Ground /\ Setting(r, x) => r = q
           /\ r # <<>> /\ Head(r).at = "assigning" => r = q
<1>1. CASE r = q
  BY <1>1
<1>2. ASSUME NEW f, r = <<f>> \o q, Fits(q, f), f.at # "assigning",
             q = <<>> \/ Head(q).at = "running", f.at = "setting" => q # <<>>
      PROVE  /\ Bottom(q) \in Ground <=> Bottom(r) \in Ground
             /\ Bottom(r) \in Ground => Bottom(q) = Bottom(r) /\ r[Len(r)] = q[Len(q)]
             /\ Bottom(r) \in Ground => \A x \in {"setting", "assigning"} : ~Setting(q, x) /\ ~Setting(r, x)
             /\ Head(r).at # "assigning"
  <2>1. f \in Frame /\ f.at \notin Ground
    BY <1>2 DEF Fits
  <2>2. /\ Bottom(r) = IF q = <<>> THEN f.at ELSE Bottom(q)
        /\ q # <<>> => r[Len(r)] = q[Len(q)]
        /\ \A x : Setting(r, x) <=> Len(q) = 1 /\ f.at = x
        /\ Head(r) = f
    BY <1>2, <2>1, BottomPushed, Push
  <2>3. "none" \notin Ground /\ "running" \notin Ground
    BY DEF Ground
  <2>4. q = <<>> => Bottom(q) = "none" /\ Len(q) = 0
    BY DEF Bottom
  <2>5. q # <<>> => Head(q) = q[1] /\ q[1].at = "running"
    BY <1>2, Pop
  <2>6. q # <<>> /\ Len(q) = 1 => Bottom(q) = "running"
    BY <2>5 DEF Bottom
  <2>7. ASSUME NEW x \in {"setting", "assigning"} PROVE ~Setting(q, x)
    BY <2>4, <2>5 DEF Setting
  <2>8. ASSUME Bottom(r) \in Ground, NEW x \in {"setting", "assigning"} PROVE ~Setting(r, x)
    BY <2>1, <2>2, <2>3, <2>6, <2>8
  <2>9. QED
    BY <1>2, <2>1, <2>2, <2>3, <2>4, <2>7, <2>8
<1>3. ASSUME q # <<>>, Head(q).at \notin Ground \cup {"setting", "assigning"}, r = Tail(q)
      PROVE  /\ Bottom(q) \in Ground <=> Bottom(r) \in Ground
             /\ Bottom(r) \in Ground => Bottom(q) = Bottom(r) /\ r[Len(r)] = q[Len(q)]
             /\ \A x \in {"setting", "assigning"} : ~Setting(q, x) /\ ~Setting(r, x)
             /\ r # <<>> => Head(r).at # "assigning"
  <2>1. /\ Bottom(r) = IF r = <<>> THEN "none" ELSE Bottom(q)
        /\ r # <<>> => r[Len(r)] = q[Len(q)]
        /\ r = <<>> => Bottom(q) = Head(q).at
    BY <1>3, BottomPopped
  <2>2. r # <<>> => Head(r).at \in Ground \cup {"running"}
    BY <1>3, ShapedPop
  <2>3. Head(q) = q[1] /\ r \in Seq(Frame)
    BY <1>3, Pop
  <2>4. r # <<>> => Head(r) = r[1]
    BY <2>3, Pop
  <2>5. r = <<>> => Len(r) = 0
    OBVIOUS
  <2>6. ASSUME NEW x \in {"setting", "assigning"} PROVE ~Setting(q, x) /\ ~Setting(r, x)
    <3>1. ~Setting(q, x)
      BY <1>3, <2>3 DEF Setting
    <3>2. Len(r) = 2 => r[1].at \in Ground \cup {"running"}
      BY <2>2, <2>4, <2>5
    <3>3. x \notin Ground \cup {"running"}
      BY DEF Ground
    <3>4. QED
      BY <3>1, <3>2, <3>3 DEF Setting
  <2>7. "none" \notin Ground /\ "assigning" \notin Ground \cup {"running"}
    BY DEF Ground
  <2>8. QED
    BY <1>3, <2>1, <2>2, <2>6, <2>7
<1>4. ASSUME NEW f, q # <<>>, Head(q).at \notin Ground \cup {"setting", "assigning"},
             r = <<f>> \o Tail(q), Fits(Tail(q), f), f.at \notin {"setting", "assigning", "attaching"}
      PROVE  /\ Bottom(q) \in Ground <=> Bottom(r) \in Ground
             /\ Bottom(r) \in Ground => Bottom(q) = Bottom(r) /\ r[Len(r)] = q[Len(q)]
             /\ \A x \in {"setting", "assigning"} : ~Setting(q, x) /\ ~Setting(r, x)
             /\ Head(r).at # "assigning"
  <2> DEFINE s == Tail(q)
  <2>1. f \in Frame /\ f.at \notin Ground /\ s \in Seq(Frame) /\ Head(q) = q[1]
    BY <1>4, Pop DEF Fits
  <2>2. /\ Bottom(s) = IF s = <<>> THEN "none" ELSE Bottom(q)
        /\ s # <<>> => s[Len(s)] = q[Len(q)]
        /\ s = <<>> => Bottom(q) = Head(q).at
    BY <1>4, BottomPopped
  <2> HIDE DEF s
  <2>3. /\ Bottom(<<f>> \o s) = IF s = <<>> THEN f.at ELSE Bottom(s)
        /\ s # <<>> => (<<f>> \o s)[Len(<<f>> \o s)] = s[Len(s)]
        /\ \A x : Setting(<<f>> \o s, x) <=> Len(s) = 1 /\ f.at = x
        /\ Head(<<f>> \o s) = f
    BY <2>1, BottomPushed, Push
  <2>4. r = <<f>> \o s
    BY <1>4 DEF s
  <2>5. ASSUME NEW x \in {"setting", "assigning"} PROVE ~Setting(q, x) /\ ~Setting(r, x)
    BY <1>4, <2>1, <2>3, <2>4 DEF Setting
  <2>6. "none" \notin Ground
    BY DEF Ground
  <2>7. QED
    BY <1>4, <2>1, <2>2, <2>3, <2>4, <2>5, <2>6
<1>5. QED
  BY <1>1, <1>2, <1>3, <1>4 DEF Moved

LEMMA AliveShrinks ==
    ASSUME Typed, handed' = handed, \A l \in Lifetimes : terminated[l] => terminated'[l]
    PROVE  Alive' \subseteq Alive
<1>1. handed \in SUBSET Numbers /\ Numbers \ {Eternal} = Lifetimes
  BY LifetimesAssumption DEF Typed, Numbers, Eternal, Lifetimes
<1>2. QED
  BY <1>1 DEF Alive

LEMMA ValuesStay ==
    ASSUME Typed, Stacks, Values, NEW t \in Threads, NEW r, Moved(stack[t], r),
           stack' = [stack EXCEPT ![t] = r], UNCHANGED view,
           \A l \in Lifetimes : terminated[l] => terminated'[l]
    PROVE  Values'
<1> DEFINE q == stack[Firer]
<1>1. /\ stack \in [Threads -> Seq(Frame)] /\ Firer \in Threads
      /\ Viewed \in Lifetimes
  BY LifetimesAssumption DEF Typed, Viewed, Lifetimes
<1>2. q \in Seq(Frame) /\ Shaped(Firer, q)
  BY <1>1 DEF Stacks
<1>3. handed' = handed /\ current_def' = current_def
  BY DEF view
<1>4. Alive' \subseteq Alive
  BY <1>3, AliveShrinks
<1>5. \A u \in Threads : Is(u, "assigning")' => Is(u, "assigning") /\ stack'[u] = stack[u]
  <2> SUFFICES ASSUME NEW u \in Threads, Is(u, "assigning")' PROVE stack'[u] = stack[u]
    BY DEF Is, Idle, Top
  <2>1. stack'[u] # <<>> /\ Head(stack'[u]).at = "assigning"
    BY DEF Is, Idle, Top
  <2>2. CASE u = t
    <3>1. stack[t] \in Seq(Frame) /\ Shaped(t, stack[t]) /\ stack'[t] = r
      BY <1>1 DEF Stacks
    <3>2. QED
      BY <2>1, <2>2, <3>1, MovedBottom
  <2>3. CASE u # t
    BY <2>3, <1>1
  <2>4. QED
    BY <2>2, <2>3
<1>6. PICK s : s = stack'[Firer] /\ Moved(q, s)
  <2>1. CASE t = Firer
    BY <2>1, <1>1
  <2>2. CASE t # Firer
    BY <2>2, <1>1 DEF Moved
  <2>3. QED
    BY <2>1, <2>2
<1>7. /\ Bottom(q) \in Ground <=> Bottom(s) \in Ground
      /\ Bottom(s) \in Ground => Bottom(q) = Bottom(s) /\ s[Len(s)] = q[Len(q)]
      /\ \A x \in {"setting", "assigning"} :
            Bottom(s) \in Ground => (Setting(q, x) <=> Setting(s, x))
      /\ \A x \in {"setting", "assigning"} :
            Bottom(s) \in Ground /\ Setting(s, x) => s = q
  BY <1>2, <1>6, MovedBottom
<1>8. /\ \A h, k \in Alive : h = k
      /\ Eternal \in handed => terminated[Viewed]
      /\ Bottom(q) \notin Ground /\ ~terminated[Viewed] => Alive \subseteq {current_def}
      /\ Bottom(q) = "firing" /\ Setting(q, "setting") => Alive \subseteq {current_def}
      /\ Bottom(q) = "firing" /\ Setting(q, "setting") =>
            \A u \in Threads : Is(u, "assigning") => Alive \subseteq {Top(u).with}
      /\ Bottom(q) = "firing" /\ Setting(q, "assigning") => Alive \subseteq {q[1].with}
      /\ Bottom(q) = "firing" /\ ~Setting(q, "setting") /\ ~Setting(q, "assigning") => Alive = {}
      /\ Bottom(q) \in {"making", "handing"} => Alive = {}
      /\ Bottom(q) = "handing" /\ ~Setting(q, "setting") /\ ~Setting(q, "assigning") =>
            current_def = q[Len(q)].of \/ (current_def = Eternal /\ terminated[Viewed])
  BY DEF Values
<1> HIDE DEF q
<1>9. {"firing", "making", "handing"} = Ground
  BY DEF Ground
<1>10. /\ \A h, k \in Alive' : h = k
       /\ Eternal \in handed' => terminated'[Viewed]
  BY <1>1, <1>3, <1>4, <1>8
<1>11. Bottom(s) \notin Ground /\ ~terminated'[Viewed] => Alive' \subseteq {current_def'}
  BY <1>1, <1>3, <1>4, <1>7, <1>8
<1>12. Bottom(s) = "firing" /\ Setting(s, "setting") =>
          /\ Alive' \subseteq {current_def'}
          /\ \A u \in Threads : Is(u, "assigning")' => Alive' \subseteq {Head(stack'[u]).with}
  BY <1>3, <1>4, <1>5, <1>7, <1>8, <1>9 DEF Top
<1>13. Bottom(s) = "firing" /\ Setting(s, "assigning") => Alive' \subseteq {s[1].with}
  BY <1>4, <1>7, <1>8, <1>9
<1>14. Bottom(s) = "firing" /\ ~Setting(s, "setting") /\ ~Setting(s, "assigning") => Alive' = {}
  BY <1>4, <1>7, <1>8, <1>9
<1>15. Bottom(s) \in {"making", "handing"} => Alive' = {}
  BY <1>4, <1>7, <1>8, <1>9
<1>16. Bottom(s) = "handing" /\ ~Setting(s, "setting") /\ ~Setting(s, "assigning") =>
            current_def' = s[Len(s)].of \/ (current_def' = Eternal /\ terminated'[Viewed])
  BY <1>1, <1>3, <1>7, <1>8, <1>9
<1>17. QED
  BY <1>6, <1>10, <1>11, <1>12, <1>13, <1>14, <1>15, <1>16 DEF Values, Top, Bottom, Setting

-----------------------------------------------------------------------------
(* The parts of a step.                                                    *)

LEMMA Known ==
    ASSUME Typed
    PROVE  /\ Firer \in Threads /\ Viewed \in Lifetimes /\ Eternal \in Numbers /\ Eternal \notin Lifetimes
           /\ Lifetimes \subseteq Numbers /\ Numbers \ {Eternal} = Lifetimes
           /\ Made \subseteq Lifetimes /\ MaxLifetimes \in Nat /\ Numbers \subseteq Nat
           /\ made < MaxLifetimes => made + 1 \in Lifetimes /\ made + 1 \in 1 .. MaxLifetimes
BY LifetimesAssumption DEF Typed, Viewed, Eternal, Numbers, Lifetimes, Made

LEMMA Framed ==
    ASSUME NEW where \in Places, NEW of \in Numbers, NEW with \in Numbers, NEW id \in Nat
    PROVE  /\ At(where, of, with, id) \in Frame
           /\ At(where, of, with, id).at = where /\ At(where, of, with, id).of = of
           /\ At(where, of, with, id).with = with /\ At(where, of, with, id).id = id
BY DEF At, Frame

LEMMA Placed ==
    ASSUME Typed, NEW where \in Places, NEW l \in Lifetimes, NEW id \in Nat
    PROVE  /\ At(where, l, 0, id) \in Frame
           /\ At(where, l, 0, id).at = where /\ At(where, l, 0, id).of = l
           /\ At(where, l, 0, id).with = 0 /\ At(where, l, 0, id).id = id
<1>1. l \in Numbers /\ 0 \in Numbers /\ 0 \in Nat
  BY Known DEF Eternal
<1>2. QED
  BY <1>1, Framed

LEMMA OnTop ==
    ASSUME Typed, Stacks, NEW t \in Threads, NEW where \in Places, Is(t, where)
    PROVE  /\ stack[t] \in Seq(Frame) /\ stack[t] # <<>> /\ Shaped(t, stack[t]) /\ TopMeant(stack[t])
           /\ ~Idle(t) /\ Top(t) = Head(stack[t]) /\ Top(t) \in Frame /\ Top(t).at = where
           /\ where \notin {"setting", "assigning", "firing"} => Top(t).of \in Lifetimes
           /\ where \in Ground => t = Firer /\ Tail(stack[t]) = <<>>
           /\ Tail(stack[t]) \in Seq(Frame) /\ Shaped(t, Tail(stack[t]))
           /\ Tail(stack[t]) # <<>> => Head(Tail(stack[t])).at \in Ground \cup {"running"}
<1>1. stack[t] \in Seq(Frame) /\ Shaped(t, stack[t]) /\ TopMeant(stack[t])
  BY DEF Typed, Stacks
<1>2. stack[t] # <<>> /\ ~Idle(t) /\ Top(t) = Head(stack[t]) /\ Top(t).at = where
  BY DEF Is, Idle, Top
<1>3. Head(stack[t]) = stack[t][1] /\ Head(stack[t]) \in Frame /\ 1 \in 1 .. Len(stack[t])
      /\ Tail(stack[t]) \in Seq(Frame)
  BY <1>1, <1>2, Pop
<1>4. /\ stack[t][1].at \in Places \ {"setting", "assigning", "firing"} => stack[t][1].of \in Lifetimes
      /\ stack[t][1].at \in Ground => t = Firer
  BY <1>1, <1>3 DEF Shaped
<1>5. /\ Shaped(t, Tail(stack[t]))
      /\ Tail(stack[t]) # <<>> => Head(Tail(stack[t])).at \in Ground \cup {"running"}
      /\ Head(stack[t]).at \in Ground => Tail(stack[t]) = <<>>
  BY <1>1, <1>2, ShapedPop
<1>6. QED
  BY <1>1, <1>2, <1>3, <1>4, <1>5

\* Nothing is meant by a thread that waits, or that goes on when called back.
LEMMA PlainTop ==
    ASSUME NEW q, q = <<>> \/ Head(q).at \in Ground \cup {"running", "opened"}
    PROVE  TopMeant(q)'
BY DEF TopMeant, Ground

LEMMA SameGrows ==
    ASSUME Typed, UNCHANGED <<action_id_in_map, what>>, \A l \in Lifetimes : terminated[l] => terminated'[l]
    PROVE  Grows
<1>1. action_id_in_map \in [Lifetimes -> Nat]
  BY DEF Typed
<1>2. QED
  BY <1>1 DEF Grows

LEMMA Moves ==
    ASSUME LInv, Typed', NEW t \in Threads, NEW r, stack' = [stack EXCEPT ![t] = r],
           Moved(stack[t], r), TopMeant(r)', Grows, UNCHANGED view
    PROVE  Stacks' /\ Values'
<1>1. stack[t] \in Seq(Frame) /\ Shaped(t, stack[t])
  BY DEF LInv, Typed, Stacks
<1>2. r \in Seq(Frame) /\ Shaped(t, r)
  BY <1>1, MovedShape
<1>3. Stacks'
  BY <1>2, StacksStay DEF LInv
<1>4. \A l \in Lifetimes : terminated[l] => terminated'[l]
  BY DEF Grows
<1>5. Values'
  BY <1>4, ValuesStay DEF LInv
<1>6. QED
  BY <1>3, <1>5

LEMMA Stands ==
    ASSUME LInv, Typed', Grows, UNCHANGED <<stack, view>>
    PROVE  Stacks' /\ Values'
<1>1. Firer \in Threads /\ stack \in [Threads -> Seq(Frame)]
  BY Known DEF LInv, Typed
<1>2. PICK r : r = stack[Firer]
  OBVIOUS
<1>3. r \in Seq(Frame) /\ stack' = [stack EXCEPT ![Firer] = r] /\ Moved(stack[Firer], r)
      /\ Shaped(Firer, r) /\ TopMeant(r)
  BY <1>1, <1>2 DEF Moved, LInv, Stacks
<1>4. TopMeant(r)'
  BY <1>3, TopStays DEF LInv
<1>5. QED
  BY <1>1, <1>3, <1>4, Moves

LEMMA StayInPlace ==
    ASSUME UNCHANGED stack
    PROVE  Stay
BY DEF Stay, In, Has

-----------------------------------------------------------------------------
(* Each step.                                                              *)

LEMMA AddTyped ==
    ASSUME Typed, NEW t, NEW p \in Lifetimes, NEW a \in Action, add_action(t, p, a)
    PROVE  /\ action_id_in_map' \in [Lifetimes -> Nat] /\ actions' \in [Lifetimes -> SUBSET Nat]
           /\ what' \in [Lifetimes -> Seq(Action)] /\ removed' \in [Lifetimes -> SUBSET Nat]
<1>1. /\ action_id_in_map \in [Lifetimes -> Nat] /\ actions \in [Lifetimes -> SUBSET Nat]
      /\ what \in [Lifetimes -> Seq(Action)] /\ removed \in [Lifetimes -> SUBSET Nat]
  BY DEF Typed
<1>2. /\ Append(what[p], a) \in Seq(Action) /\ action_id_in_map[p] + 1 \in Nat
      /\ actions[p] \cup {action_id_in_map[p]} \in SUBSET Nat
  BY <1>1
<1>3. QED
  BY <1>1, <1>2 DEF add_action

LEMMA Users == User \in Action /\ \A l : Meant(l, User)'
BY LifetimesAssumption DEF User, Do, Action, Numbers, Meant

LEMMA AddActionStep ==
    ASSUME LInv, NEW t \in Threads, NEW l \in Lifetimes, AddAction(t, l)
    PROVE  LInv'
<1>1. /\ ~terminated[l] /\ add_action(t, l, User) /\ UNCHANGED <<made, runs, view, stack>>
      /\ UNCHANGED terminated
  BY DEF AddAction, accepts, runs
<1>2. Typed /\ (\A p \in Lifetimes : Kept(p)) /\ What(l)
  BY DEF LInv, Kept
<1>3. Typed'
  BY <1>1, <1>2, AddTyped, Users DEF Typed, runs, view
<1>4. Grows
  BY <1>1, <1>2, AddGrows, Users
<1>5. \A p \in Lifetimes : Kept(p)'
  BY <1>1, <1>2, <1>3, Added, Users, StayInPlace DEF runs
<1>6. Stacks' /\ Values'
  BY <1>1, <1>3, <1>4, Stands
<1>7. QED
  BY <1>3, <1>5, <1>6 DEF LInv

LEMMA RemoveActionStep ==
    ASSUME LInv, NEW t \in Threads, NEW l \in Lifetimes, NEW id, RemoveAction(t, l, id)
    PROVE  LInv'
<1>1. /\ what[l][id + 1] = User
      /\ actions' = [actions EXCEPT ![l] = @ \ {id}]
      /\ removed' = [removed EXCEPT ![l] = @ \cup ({id} \cap actions[l])]
      /\ torn \subseteq torn'
      /\ UNCHANGED <<made, action_id_in_map, what, runs, view, stack>>
  BY DEF RemoveAction, Touch
<1>2. Typed /\ \A p \in Lifetimes : Kept(p)
  BY DEF LInv
<1>3. actions \in [Lifetimes -> SUBSET Nat] /\ removed \in [Lifetimes -> SUBSET Nat]
  BY <1>2 DEF Typed
<1>4. actions' \in [Lifetimes -> SUBSET Nat] /\ removed' \in [Lifetimes -> SUBSET Nat]
  BY <1>1, <1>3
<1>5. Typed'
  BY <1>1, <1>2, <1>4 DEF Typed, runs, view
<1>6. Grows
  BY <1>1, <1>2, SameGrows DEF runs
<1>7. \A p \in Lifetimes : Kept(p)'
  <2> DEFINE rest == actions[l] \ {id}
  <2>1. /\ rest \in SUBSET Nat /\ rest \subseteq actions[l] \ {id}
        /\ actions' = [actions EXCEPT ![l] = rest]
    BY <1>1, <1>3
  <2>2. what[l][id + 1].do # "terminate"
    BY <1>1 DEF User, Do
  <2>3. UNCHANGED <<terminated, action_id_in_map, what, left, ran>> /\ Stay
    BY <1>1, StayInPlace DEF runs
  <2>4. l \notin torn => rest = actions[l] \ {id}
    OBVIOUS
  <2> HIDE DEF rest
  <2>5. QED
    BY <1>1, <1>2, <2>1, <2>2, <2>3, <2>4, Removed
<1>8. Stacks' /\ Values'
  BY <1>1, <1>5, <1>6, Stands
<1>9. QED
  BY <1>5, <1>7, <1>8 DEF LInv

\* A call that lets the actions alone.
LEMMA CallStep ==
    ASSUME LInv, NEW t \in Threads, NEW f \in Frame, Call(t, f), Fits(stack[t], f),
           f.at \notin {"setting", "assigning", "attaching", "erasing"},
           stack[t] = <<>> \/ Head(stack[t]).at = "running",
           UNCHANGED <<made, maps, left, ran, view>>,
           terminated' = IF f.at = "terminating" THEN [terminated EXCEPT ![f.of] = TRUE] ELSE terminated
    PROVE  LInv'
<1>1. /\ Typed /\ (\A p \in Lifetimes : Kept(p))
      /\ stack \in [Threads -> Seq(Frame)] /\ terminated \in [Lifetimes -> BOOLEAN]
  BY DEF LInv, Typed
<1>2. PICK r : /\ r = <<f>> \o stack[t]
               /\ stack' = [stack EXCEPT ![t] = r] /\ r \in Seq(Frame)
               /\ \A place, l : In(place, l) => In(place, l)'
               /\ In(f.at, f.of)'
  BY <1>1, Called
<1>3. Head(r) = f
  BY <1>1, <1>2, Push
<1>4. Moved(stack[t], r)
  BY <1>2 DEF Moved
<1>5. f.at = "terminating" => f.of \in Lifetimes
  BY DEF Fits
<1>6. terminated' \in [Lifetimes -> BOOLEAN]
  BY <1>1
<1>7. Typed'
  BY <1>1, <1>2, <1>6 DEF Typed, maps, view
<1>8. Ends
  BY <1>1, <1>2, <1>5 DEF Ends
<1>9. Grows
  BY <1>1, <1>8, SameGrows DEF Ends, maps
<1>10. \A l \in Lifetimes : Kept(l)'
  <2>1. Stay
    BY <1>2 DEF Stay
  <2>2. QED
    BY <1>1, <1>8, <2>1, Untouched
<1>11. TopMeant(r)'
  <2>1. f.at = "terminating" => terminated'[f.of]
    BY <1>1, <1>5
  <2>2. QED
    BY <1>3, <2>1 DEF TopMeant
<1>12. Stacks' /\ Values'
  BY <1>2, <1>4, <1>7, <1>9, <1>11, Moves
<1>13. QED
  BY <1>7, <1>10, <1>12 DEF LInv

LEMMA BracketOpenStep ==
    ASSUME LInv, NEW t \in Threads, NEW l \in Lifetimes, BracketOpen(t, l)
    PROVE  LInv'
<1> DEFINE f == At("opened", l, 0, 0)
<1>0. Typed /\ "opened" \in Places
  BY DEF LInv, Places
<1>1. f \in Frame /\ f.at = "opened" /\ f.of = l
  BY <1>0, Placed
<1>2. stack[t] = <<>> /\ Call(t, f) /\ UNCHANGED <<made, maps, left, ran, view>> /\ terminated' = terminated
  BY DEF BracketOpen, Idle, runs
<1> HIDE DEF f
<1>3. Fits(stack[t], f)
  BY <1>1, <1>2 DEF Fits, Ground
<1>4. QED
  BY <1>1, <1>2, <1>3, CallStep

LEMMA TerminateStep ==
    ASSUME LInv, NEW t \in Threads, NEW l \in Lifetimes, Terminate(t, l)
    PROVE  LInv'
<1> DEFINE f == At("terminating", l, 0, 0)
<1>0. Typed /\ "terminating" \in Places
  BY DEF LInv, Places
<1>1. f \in Frame /\ f.at = "terminating" /\ f.of = l
  BY <1>0, Placed
<1>2. /\ stack[t] = <<>> /\ Call(t, f) /\ UNCHANGED <<made, maps, left, ran, view>>
      /\ terminated' = [terminated EXCEPT ![l] = TRUE]
  BY DEF Terminate, Idle
<1> HIDE DEF f
<1>3. Fits(stack[t], f)
  BY <1>1, <1>2 DEF Fits, Ground
<1>4. QED
  BY <1>1, <1>2, <1>3, CallStep

LEMMA Returns ==
    ASSUME LInv, NEW t \in Threads, NEW where \in Places \ (Ground \cup {"setting", "assigning"}),
           Is(t, where), Return(t)
    PROVE  /\ stack' \in [Threads -> Seq(Frame)]
           /\ \A place, l : In(place, l) => In(place, l)' \/ (where = place /\ Top(t).of = l)
           /\ Typed' /\ Grows /\ UNCHANGED view => Stacks' /\ Values'
<1>1. /\ Typed /\ Stacks /\ stack \in [Threads -> Seq(Frame)]
  BY DEF LInv, Typed
<1>2. /\ stack[t] \in Seq(Frame) /\ stack[t] # <<>> /\ ~Idle(t)
      /\ Top(t) = Head(stack[t]) /\ Top(t).at = where
      /\ Tail(stack[t]) # <<>> => Head(Tail(stack[t])).at \in Ground \cup {"running"}
  BY <1>1, OnTop
<1>3. PICK r : /\ r = Tail(stack[t]) /\ stack' = [stack EXCEPT ![t] = r] /\ r \in Seq(Frame)
               /\ \A place, l : In(place, l) => In(place, l)' \/ (where = place /\ Top(t).of = l)
  BY <1>1, <1>2, Returned
<1>4. TopMeant(r)'
  BY <1>2, <1>3, PlainTop
<1>5. Moved(stack[t], r)
  BY <1>2, <1>3 DEF Moved
<1>6. Typed' /\ Grows /\ UNCHANGED view => Stacks' /\ Values'
  BY <1>3, <1>4, <1>5, Moves
<1>7. QED
  BY <1>1, <1>3, <1>6

LEMMA BracketCloseStep ==
    ASSUME LInv, NEW t \in Threads, BracketClose(t)
    PROVE  LInv'
<1> DEFINE p == Top(t).of
<1>1. /\ Is(t, "opened") /\ Return(t) /\ UNCHANGED <<made, terminated, left, ran, view>>
      /\ (~terminated[p] /\ add_action(t, p, User)) \/ UNCHANGED maps
  BY DEF BracketClose, accepts, runs
<1>2. Typed /\ Stacks /\ (\A l \in Lifetimes : Kept(l))
  BY DEF LInv
<1>3. "opened" \in Places \ (Ground \cup {"setting", "assigning"})
  BY DEF Places, Ground
<1>4. /\ stack' \in [Threads -> Seq(Frame)]
      /\ \A place, l : In(place, l) => In(place, l)' \/ ("opened" = place /\ p = l)
      /\ Typed' /\ Grows /\ UNCHANGED view => Stacks' /\ Values'
  BY <1>1, <1>3, Returns
<1>5. p \in Lifetimes
  BY <1>1, <1>2, <1>3, OnTop
<1>6. Stay
  BY <1>4 DEF Stay
<1> HIDE DEF p
<1>7. CASE ~terminated[p] /\ add_action(t, p, User)
  <2>1. What(p)
    BY <1>2, <1>5 DEF Kept
  <2>2. Typed'
    BY <1>1, <1>2, <1>4, <1>5, <1>7, AddTyped, Users DEF Typed, view
  <2>3. Grows
    BY <1>1, <1>2, <1>5, <1>7, <2>1, AddGrows, Users
  <2>4. \A l \in Lifetimes : Kept(l)'
    BY <1>1, <1>2, <1>5, <1>6, <1>7, <2>2, Added, Users
  <2>5. QED
    BY <1>1, <1>4, <2>2, <2>3, <2>4 DEF LInv
<1>8. CASE UNCHANGED maps
  <2>1. Typed'
    BY <1>1, <1>2, <1>4, <1>8 DEF Typed, maps, view
  <2>2. Grows
    BY <1>1, <1>2, <1>8, SameGrows DEF maps
  <2>3. Ends
    BY <1>1 DEF Ends
  <2>4. \A l \in Lifetimes : Kept(l)'
    BY <1>1, <1>2, <1>6, <1>8, <2>3, Untouched
  <2>5. QED
    BY <1>1, <1>4, <2>1, <2>2, <2>4 DEF LInv
<1>9. QED
  BY <1>1, <1>7, <1>8

LEMMA TerminatedStep ==
    ASSUME LInv, NEW t \in Threads, Terminated(t)
    PROVE  LInv'
<1> DEFINE p == Top(t).of
<1>1. /\ Is(t, "running") /\ left[p] = {} /\ Return(t)
      /\ UNCHANGED <<made, maps, terminated, left, ran, view>>
  BY DEF Terminated, runs
<1>2. Typed /\ Stacks /\ (\A l \in Lifetimes : Kept(l))
  BY DEF LInv
<1>3. "running" \in Places \ (Ground \cup {"setting", "assigning"})
  BY DEF Places, Ground
<1>4. /\ stack' \in [Threads -> Seq(Frame)]
      /\ \A place, l : In(place, l) => In(place, l)' \/ ("running" = place /\ p = l)
      /\ Typed' /\ Grows /\ UNCHANGED view => Stacks' /\ Values'
  BY <1>1, <1>3, Returns
<1> HIDE DEF p
<1>5. Stay
  BY <1>1, <1>4 DEF Stay
<1>6. Typed'
  BY <1>1, <1>2, <1>4 DEF Typed, maps, view
<1>7. Grows
  BY <1>1, <1>2, SameGrows DEF maps
<1>8. Ends
  BY <1>1 DEF Ends
<1>9. \A l \in Lifetimes : Kept(l)'
  BY <1>1, <1>2, <1>5, <1>8, Untouched
<1>10. QED
  BY <1>1, <1>4, <1>6, <1>7, <1>9 DEF LInv

LEMMA EraseStep ==
    ASSUME LInv, NEW t \in Threads, Erase(t)
    PROVE  LInv'
<1> DEFINE p == Top(t).of  id == Top(t).id  kept == actions[p] \ {id}
<1>1. /\ Is(t, "erasing") /\ Return(t) /\ torn \subseteq torn'
      /\ \E rest \in IF p \in torn THEN SUBSET kept ELSE {kept} : actions' = [actions EXCEPT ![p] = rest]
      /\ removed' = [removed EXCEPT ![p] = @ \cup ({id} \cap actions[p])]
      /\ UNCHANGED <<made, action_id_in_map, what, terminated, left, ran, view>>
  BY DEF Erase, Touch, runs
<1>2. Typed /\ Stacks /\ (\A l \in Lifetimes : Kept(l))
  BY DEF LInv
<1>3. "erasing" \in Places \ (Ground \cup {"setting", "assigning"})
  BY DEF Places, Ground
<1>4. /\ stack' \in [Threads -> Seq(Frame)]
      /\ \A place, l : In(place, l) => In(place, l)' \/ ("erasing" = place /\ p = l)
      /\ Typed' /\ Grows /\ UNCHANGED view => Stacks' /\ Values'
  BY <1>1, <1>3, Returns
<1>5. /\ p \in Lifetimes /\ stack[t] # <<>> /\ TopMeant(stack[t])
      /\ Top(t) = Head(stack[t]) /\ Top(t).at = "erasing"
  BY <1>1, <1>2, <1>3, OnTop
<1>6. what[p][id + 1].do = "terminate" => terminated[what[p][id + 1].of]
  BY <1>5 DEF TopMeant
<1>7. actions \in [Lifetimes -> SUBSET Nat] /\ removed \in [Lifetimes -> SUBSET Nat]
  BY <1>2 DEF Typed
<1>8. PICK rest \in SUBSET Nat :
         /\ rest \subseteq actions[p] \ {id}
         /\ p \notin torn => rest = actions[p] \ {id}
         /\ actions' = [actions EXCEPT ![p] = rest]
  BY <1>1, <1>5, <1>7
<1> HIDE DEF p, id, kept
<1>9. Stay
  BY <1>4 DEF Stay
<1>10. actions' \in [Lifetimes -> SUBSET Nat] /\ removed' \in [Lifetimes -> SUBSET Nat]
  BY <1>1, <1>5, <1>7, <1>8
<1>11. Typed'
  BY <1>1, <1>2, <1>4, <1>10 DEF Typed, view
<1>12. Grows
  BY <1>1, <1>2, SameGrows
<1>13. \A l \in Lifetimes : Kept(l)'
  BY <1>1, <1>2, <1>5, <1>6, <1>8, <1>9, Removed
<1>14. QED
  BY <1>1, <1>4, <1>11, <1>12, <1>13 DEF LInv

LEMMA TakeStep ==
    ASSUME LInv, NEW t \in Threads, Take(t)
    PROVE  LInv'
<1>0. PICK p, f : p = Top(t).of /\ f = At("running", p, 0, 0)
  OBVIOUS
<1>1. /\ Is(t, "terminating") /\ take_actions(t, p)
      /\ UNCHANGED <<made, terminated, ran, view>>
      /\ actions[p] = {} => Return(t)
      /\ actions[p] # {} => Goto(t, f)
  BY <1>0 DEF Take
<1>2. Typed /\ Stacks /\ (\A l \in Lifetimes : Kept(l))
  BY DEF LInv
<1>3. "terminating" \in Places \ (Ground \cup {"setting", "assigning"})
  BY DEF Places, Ground
<1>4. /\ p \in Lifetimes /\ stack[t] # <<>> /\ TopMeant(stack[t]) /\ ~Idle(t)
      /\ Top(t) = Head(stack[t]) /\ Top(t).at = "terminating"
      /\ Tail(stack[t]) \in Seq(Frame)
  BY <1>0, <1>1, <1>2, <1>3, OnTop
<1>5. terminated[p]
  BY <1>0, <1>4 DEF TopMeant
<1>6. f \in Frame /\ f.at = "running" /\ f.of = p
  <2>1. "running" \in Places
    BY DEF Places
  <2>2. QED
    BY <1>0, <1>2, <1>4, <2>1, Placed
<1>7. actions[p] # {} =>
        \E r : /\ r = <<f>> \o Tail(stack[t]) /\ stack' = [stack EXCEPT ![t] = r] /\ r \in Seq(Frame)
               /\ \A place, l : In(place, l) => In(place, l)' \/ ("terminating" = place /\ p = l)
               /\ In("running", p)'
  <2>1. stack \in [Threads -> Seq(Frame)]
    BY <1>2 DEF Typed
  <2>2. QED
    BY <1>0, <1>1, <1>4, <1>6, <2>1, Went
<1>8. actions[p] = {} =>
        /\ stack' \in [Threads -> Seq(Frame)]
        /\ \A place, l : In(place, l) => In(place, l)' \/ ("terminating" = place /\ p = l)
        /\ Typed' /\ Grows /\ UNCHANGED view => Stacks' /\ Values'
  BY <1>0, <1>1, <1>3, Returns
<1>9. /\ actions \in [Lifetimes -> SUBSET Nat] /\ left \in [Lifetimes -> SUBSET Nat]
      /\ stack \in [Threads -> Seq(Frame)]
  BY <1>2 DEF Typed
<1>10. /\ actions' \in [Lifetimes -> SUBSET Nat] /\ left' \in [Lifetimes -> SUBSET Nat]
       /\ UNCHANGED <<action_id_in_map, what, removed>>
  BY <1>1, <1>4, <1>9 DEF take_actions
<1>11. stack' \in [Threads -> Seq(Frame)]
  BY <1>7, <1>8, <1>9
<1>12. Typed'
  BY <1>1, <1>2, <1>10, <1>11 DEF Typed, view
<1>13. Grows
  BY <1>1, <1>2, <1>10, SameGrows
<1>14. \A l \in Lifetimes : Kept(l)'
  <2>1. /\ \A l \in Lifetimes : In("running", l) => In("running", l)'
        /\ \A l \in Lifetimes \ {p} : In("terminating", l) => In("terminating", l)'
        /\ actions[p] # {} => In("running", p)'
    BY <1>7, <1>8
  <2>2. UNCHANGED <<terminated, ran>> /\ take_actions(t, p)
    BY <1>1
  <2>3. QED
    BY <1>2, <1>4, <1>5, <2>1, <2>2, Taken
<1>15. Stacks' /\ Values'
  <2>1. CASE actions[p] = {}
    BY <2>1, <1>1, <1>8, <1>12, <1>13
  <2>2. CASE actions[p] # {}
    <3>1. PICK r : r = <<f>> \o Tail(stack[t]) /\ stack' = [stack EXCEPT ![t] = r]
      BY <1>7, <2>2
    <3>2. Fits(Tail(stack[t]), f)
      BY <1>4, <1>6 DEF Fits, Ground
    <3>3. Moved(stack[t], r)
      BY <1>3, <1>4, <1>6, <3>1, <3>2 DEF Moved
    <3>4. Head(r) = f
      BY <1>4, <1>6, <3>1, Push
    <3>5. TopMeant(r)'
      BY <3>4, <1>6, PlainTop
    <3>6. QED
      BY <1>1, <1>12, <1>13, <3>1, <3>3, <3>5, Moves
  <2>3. QED
    BY <2>1, <2>2
<1>16. QED
  BY <1>12, <1>14, <1>15 DEF LInv

\* The action that runs is entered: what it relies on was meant.
LEMMA RunActionStep ==
    ASSUME LInv, NEW t \in Threads, RunAction(t)
    PROVE  LInv'
<1> DEFINE p == Top(t).of  i == next_to_run(p)  a == what[p][i + 1]
<1>1. /\ Is(t, "running") /\ left[p] # {}
      /\ left' = [left EXCEPT ![p] = @ \ {i}]
      /\ ran' = [ran EXCEPT ![p] = Append(@, i)]
      /\ enter(t, a)
      /\ UNCHANGED <<made, maps, view>>
  BY DEF RunAction
<1>2. /\ Typed /\ Stacks /\ (\A l \in Lifetimes : Kept(l))
      /\ left \in [Lifetimes -> SUBSET Nat] /\ ran \in [Lifetimes -> Seq(Nat)]
      /\ terminated \in [Lifetimes -> BOOLEAN] /\ stack \in [Threads -> Seq(Frame)]
  BY DEF LInv, Typed
<1>3. "running" \in Places
  BY DEF Places
<1>4. p \in Lifetimes /\ stack[t] # <<>> /\ Top(t) = Head(stack[t]) /\ Top(t).at = "running"
      /\ stack[t] \in Seq(Frame)
  BY <1>1, <1>2, <1>3, OnTop
<1>5. What(p) /\ left[p] \subseteq Ids(p) /\ Once(p)
  BY <1>2, <1>4 DEF Kept, Accounts
<1>6. i \in left[p] /\ i \in Ids(p) /\ i \in Nat
  BY <1>1, <1>2, <1>4, <1>5, LastLeft
<1>7. a \in Action /\ Meant(p, a) /\ terminated[p]
  BY <1>1, <1>2, <1>4, <1>5, <1>6, Index DEF Once
<1> HIDE DEF p, i, a
<1>8. left' \in [Lifetimes -> SUBSET Nat] /\ ran' \in [Lifetimes -> Seq(Nat)]
  <2>1. ran[p] \in Seq(Nat)
    BY <1>2, <1>4
  <2>2. Append(ran[p], i) \in Seq(Nat)
    BY <2>1, <1>6
  <2>3. QED
    BY <1>1, <1>2, <1>4, <2>2
<1>9. SUFFICES ASSUME NEW r \in Seq(Frame), stack' = [stack EXCEPT ![t] = r], Moved(stack[t], r),
                      terminated' \in [Lifetimes -> BOOLEAN], Ends,
                      \A place, l : In(place, l) => In(place, l)',
                      a.do = "terminate" => terminated'[a.of],
                      TopMeant(r)'
               PROVE  LInv'
  <2>1. SUFFICES \E r \in Seq(Frame) :
                    /\ stack' = [stack EXCEPT ![t] = r] /\ Moved(stack[t], r)
                    /\ terminated' \in [Lifetimes -> BOOLEAN] /\ Ends
                    /\ \A place, l : In(place, l) => In(place, l)'
                    /\ a.do = "terminate" => terminated'[a.of]
                    /\ TopMeant(r)'
    OBVIOUS
  <2>2. CASE a.do = "user" /\ UNCHANGED <<terminated, stack>>
    <3>1. PICK r \in Seq(Frame) : r = stack[t]
      BY <1>4
    <3>2. stack' = [stack EXCEPT ![t] = r] /\ Moved(stack[t], r)
      BY <1>2, <2>2, <3>1 DEF Moved
    <3>3. terminated' \in [Lifetimes -> BOOLEAN] /\ Ends
      BY <1>2, <2>2 DEF Ends
    <3>4. \A place, l : In(place, l) => In(place, l)'
      BY <2>2 DEF In, Has
    <3>5. TopMeant(r)'
      BY <1>4, <3>1, PlainTop
    <3>6. QED
      BY <2>2, <3>2, <3>3, <3>4, <3>5
  <2>3. ASSUME NEW f \in Frame, Call(t, f), f.at # "assigning", Fits(stack[t], f)
        PROVE  \E r \in Seq(Frame) :
                  /\ r # <<>> /\ Head(r) = f /\ r = <<f>> \o stack[t]
                  /\ stack' = [stack EXCEPT ![t] = r] /\ Moved(stack[t], r)
                  /\ \A place, l : In(place, l) => In(place, l)'
                  /\ In(f.at, f.of)'
    <3>1. PICK r : /\ r = <<f>> \o stack[t]
                   /\ stack' = [stack EXCEPT ![t] = r] /\ r \in Seq(Frame)
                   /\ \A place, l : In(place, l) => In(place, l)'
                   /\ In(f.at, f.of)'
      BY <1>2, <2>3, Called
    <3>2. r # <<>> /\ Head(r) = f
      BY <1>4, <3>1, Push
    <3>3. Moved(stack[t], r)
      BY <1>4, <2>3, <3>1 DEF Moved
    <3>4. QED
      BY <3>1, <3>2, <3>3
  <2>4. CASE /\ a.do = "terminate"
             /\ terminated' = [terminated EXCEPT ![a.of] = TRUE]
             /\ Call(t, At("terminating", a.of, 0, 0))
    <3>0. PICK f : f = At("terminating", a.of, 0, 0)
      OBVIOUS
    <3>1. a.of \in Lifetimes /\ "terminating" \in Places
      BY <1>7, <2>4 DEF Meant, Places
    <3>2. f \in Frame /\ f.at = "terminating" /\ f.of = a.of
      BY <1>2, <3>0, <3>1, Placed
    <3>3. Call(t, f)
      BY <2>4, <3>0
    <3>4. Fits(stack[t], f)
      BY <3>1, <3>2 DEF Fits, Ground
    <3>5. PICK r \in Seq(Frame) :
             /\ r # <<>> /\ Head(r) = f
             /\ stack' = [stack EXCEPT ![t] = r] /\ Moved(stack[t], r)
             /\ \A place, l : In(place, l) => In(place, l)'
             /\ In(f.at, f.of)'
      BY <2>3, <3>2, <3>3, <3>4
    <3>6. terminated' \in [Lifetimes -> BOOLEAN] /\ terminated'[a.of]
      BY <1>2, <2>4, <3>1
    <3>7. Ends
      BY <1>2, <2>4, <3>1, <3>2, <3>5 DEF Ends
    <3>8. TopMeant(r)'
      BY <3>2, <3>5, <3>6 DEF TopMeant
    <3>9. QED
      BY <3>5, <3>6, <3>7, <3>8
  <2>5. CASE /\ a.do = "unlink"
             /\ Call(t, At("erasing", a.of, 0, a.id))
             /\ UNCHANGED terminated
    <3>0. PICK f : f = At("erasing", a.of, 0, a.id)
      OBVIOUS
    <3>1. /\ a.of \in Lifetimes /\ a.id \in Nat /\ a.id < action_id_in_map[a.of]
          /\ what[a.of][a.id + 1] = Do("terminate", p, 0)
          /\ "erasing" \in Places
      BY <1>7, <2>5 DEF Meant, Action, Places
    <3>2. f \in Frame /\ f.at = "erasing" /\ f.of = a.of /\ f.id = a.id
      BY <1>2, <3>0, <3>1, Placed
    <3>3. Call(t, f)
      BY <2>5, <3>0
    <3>4. Fits(stack[t], f)
      BY <3>1, <3>2 DEF Fits, Ground
    <3>5. PICK r \in Seq(Frame) :
             /\ r # <<>> /\ Head(r) = f
             /\ stack' = [stack EXCEPT ![t] = r] /\ Moved(stack[t], r)
             /\ \A place, l : In(place, l) => In(place, l)'
      BY <2>3, <3>2, <3>3, <3>4
    <3>6. Ends
      BY <2>5 DEF Ends
    <3>7. TopMeant(r)'
      <4>1. what'[f.of][f.id + 1].of = p /\ f.id < action_id_in_map'[f.of]
        BY <1>1, <3>1, <3>2 DEF maps, Do
      <4>2. terminated'[p]
        BY <1>7, <2>5
      <4>3. QED
        BY <3>2, <3>5, <4>1, <4>2 DEF TopMeant
    <3>8. QED
      BY <1>2, <2>5, <3>5, <3>6, <3>7
  <2>6. CASE /\ a.do = "reset"
             /\ Call(t, At("setting", Eternal, 0, 0))
             /\ UNCHANGED terminated
    <3>0. PICK f : f = At("setting", Eternal, 0, 0)
      OBVIOUS
    <3>1. f \in Frame /\ f.at = "setting" /\ f.of = Eternal
      <4>1. "setting" \in Places /\ Eternal \in Numbers /\ 0 \in Numbers /\ 0 \in Nat
        BY <1>2, Known DEF Places, Eternal
      <4>2. QED
        BY <3>0, <4>1, Framed
    <3>2. Call(t, f)
      BY <2>6, <3>0
    <3>3. Fits(stack[t], f)
      BY <3>1 DEF Fits, Ground
    <3>4. PICK r \in Seq(Frame) :
             /\ r # <<>> /\ Head(r) = f
             /\ stack' = [stack EXCEPT ![t] = r] /\ Moved(stack[t], r)
             /\ \A place, l : In(place, l) => In(place, l)'
      BY <2>3, <3>1, <3>2, <3>3
    <3>5. Ends
      BY <2>6 DEF Ends
    <3>6. TopMeant(r)'
      <4>1. terminated'[Viewed]
        BY <1>7, <2>6 DEF Meant
      <4>2. QED
        BY <3>1, <3>4, <4>1 DEF TopMeant, Sets
    <3>7. QED
      BY <1>2, <2>6, <3>4, <3>5, <3>6
  <2>7. QED
    BY <1>1, <2>2, <2>4, <2>5, <2>6 DEF enter
<1>10. Typed'
  <2>1. stack' \in [Threads -> Seq(Frame)]
    BY <1>2, <1>9
  <2>2. QED
    BY <1>1, <1>2, <1>8, <1>9, <2>1 DEF Typed, maps, view
<1>11. Grows
  BY <1>1, <1>2, <1>9, SameGrows DEF Ends, maps
<1>12. Stay
  BY <1>9 DEF Stay
<1>13. \A l \in Lifetimes : Kept(l)'
  BY <1>1, <1>2, <1>4, <1>9, <1>12, Ran DEF i, a
<1>14. Stacks' /\ Values'
  BY <1>1, <1>9, <1>10, <1>11, Moves
<1>15. QED
  BY <1>10, <1>13, <1>14 DEF LInv

LEMMA Pair ==
    ASSUME NEW f \in Frame, NEW g \in Frame
    PROVE  /\ <<f, g>> \in Seq(Frame) /\ <<f, g>> # <<>> /\ Len(<<f, g>>) = 2
           /\ Head(<<f, g>>) = f /\ <<f, g>>[1] = f /\ <<f, g>>[2] = g
           /\ Bottom(<<f, g>>) = g.at /\ <<f, g>>[Len(<<f, g>>)] = g
           /\ \A x : Setting(<<f, g>>, x) <=> f.at = x
           /\ \A place, l : f.at = place /\ f.of = l => Has(<<f, g>>, place, l)
<1>1. /\ <<f, g>> \in Seq(Frame) /\ <<f, g>> # <<>> /\ Len(<<f, g>>) = 2
      /\ Head(<<f, g>>) = f /\ <<f, g>>[1] = f /\ <<f, g>>[2] = g
  OBVIOUS
<1>2. 1 \in 1 .. 2
  OBVIOUS
<1>3. QED
  BY <1>1, <1>2 DEF Bottom, Setting, Has

LEMMA ShapedPair ==
    ASSUME NEW f \in Frame, NEW g \in Frame, g.at \in Ground, g.at # "firing" => g.of \in Lifetimes,
           f.at \notin Ground, f.at \notin {"setting", "assigning"} => f.of \in Lifetimes,
           f.at = "attaching" => g.at = "making"
    PROVE  Shaped(Firer, <<f, g>>)
<1> DEFINE q == <<f, g>>
<1>1. Len(q) = 2 /\ q[1] = f /\ q[2] = g /\ Head(q) = f
  BY Pair
<1>2. 1 .. Len(q) = {1, 2} /\ 2 .. Len(q) = {2}
  BY <1>1
<1> HIDE DEF q
<1>3. QED
  BY <1>1, <1>2 DEF Shaped, Ground, q

\* Between two values none is alive.
LEMMA NoValue ==
    ASSUME NEW s, s = stack'[Firer], Alive' = {}, Eternal \in handed' => terminated'[Viewed],
           Bottom(s) = "handing" /\ ~Setting(s, "setting") /\ ~Setting(s, "assigning") =>
              current_def' = s[Len(s)].of \/ (current_def' = Eternal /\ terminated'[Viewed])
    PROVE  Values'
BY DEF Values, Bottom, Setting

\* The actions of the lifetimes are let alone.
LEMMA Quiet ==
    ASSUME LInv, NEW t \in Threads, NEW r \in Seq(Frame), stack' = [stack EXCEPT ![t] = r],
           Shaped(t, r), TopMeant(r)',
           \A place \in {"terminating", "running"} : \A l : Has(stack[t], place, l) => Has(r, place, l),
           terminated' \in [Lifetimes -> BOOLEAN], Ends, UNCHANGED <<made, maps, left, ran>>,
           current_def' \in Numbers, handed' \in SUBSET Numbers, Values'
    PROVE  LInv'
<1>1. Typed /\ Stacks /\ (\A l \in Lifetimes : Kept(l)) /\ stack \in [Threads -> Seq(Frame)]
  BY DEF LInv, Typed
<1>2. stack' \in [Threads -> Seq(Frame)]
  BY <1>1
<1>3. Typed'
  BY <1>1, <1>2 DEF Typed, maps
<1>4. Grows
  BY <1>1, SameGrows DEF Ends, maps
<1>5. Stay
  <2>1. /\ \A place, l : Has(r, place, l) => In(place, l)'
        /\ \A place, l : In(place, l) => In(place, l)' \/ Has(stack[t], place, l)
    BY <1>1, Changed
  <2>2. QED
    BY <2>1 DEF Stay
<1>6. \A l \in Lifetimes : Kept(l)'
  BY <1>1, <1>5, Untouched
<1>7. Stacks'
  BY <1>1, <1>3, <1>4, StacksStay
<1>8. QED
  BY <1>3, <1>6, <1>7 DEF LInv

\* A nested lifetime is made, and the parent is to terminate it.
LEMMA Attach ==
    ASSUME LInv, NEW t \in Threads, NEW p \in Lifetimes, attach(t, p), UNCHANGED <<runs, view>>,
           stack' \in [Threads -> Seq(Frame)], Stay
    PROVE  Typed' /\ Grows /\ \A l \in Lifetimes : Kept(l)'
<1>0. PICK a : a = Do("terminate", made + 1, 0)
  OBVIOUS
<1>1. Typed /\ (\A l \in Lifetimes : Kept(l)) /\ What(p)
  BY DEF LInv, Kept
<1>2. made + 1 \in Lifetimes /\ made' = made + 1 /\ ~terminated[p] /\ add_action(t, p, a)
  BY <1>0, <1>1, Known DEF attach, accepts
<1>3. a \in Action /\ Meant(p, a)'
  <2>1. a.do = "terminate" /\ a.of \in Lifetimes /\ a \in Action
    BY <1>0, <1>1, <1>2, Known DEF Do, Action
  <2>2. QED
    BY <2>1 DEF Meant
<1>4. Typed'
  BY <1>1, <1>2, <1>3, AddTyped DEF Typed, runs, view, Lifetimes
<1>5. UNCHANGED <<terminated, left, ran>>
  BY DEF runs
<1>6. Grows
  BY <1>1, <1>2, <1>3, <1>5, AddGrows
<1>7. \A l \in Lifetimes : Kept(l)'
  BY <1>1, <1>2, <1>3, <1>4, <1>5, Added
<1>8. QED
  BY <1>4, <1>6, <1>7

LEMMA Attached ==
    ASSUME LInv, NEW t \in Threads, NEW p \in Lifetimes, attach(t, p)
    PROVE  \E f \in Frame :
              /\ f = Attaching(p) /\ f.at = "attaching" /\ f.of = made + 1 /\ f.of \in Lifetimes
              /\ \A r : r # <<>> /\ Head(r) = f => TopMeant(r)'
<1> DEFINE a == Do("terminate", made + 1, 0)
<1>1. Typed /\ What(p) /\ action_id_in_map[p] \in Nat
  BY DEF LInv, Kept, Typed
<1>2. made + 1 \in Lifetimes /\ add_action(t, p, a)
  BY <1>1, Known DEF attach
<1>3. a \in Action
  BY <1>1, <1>2, Known DEF Do, Action
<1> HIDE DEF a
<1>4. PICK f : f = Attaching(p)
  OBVIOUS
<1>5. /\ f \in Frame /\ f.at = "attaching" /\ f.of = made + 1 /\ f.with = p
      /\ f.id = action_id_in_map[p]
  <2>1. "attaching" \in Places /\ made + 1 \in Numbers /\ p \in Numbers
    BY <1>1, <1>2, Known DEF Places
  <2>2. QED
    BY <1>1, <1>4, <2>1, Framed DEF Attaching
<1>6. /\ action_id_in_map'[p] = action_id_in_map[p] + 1
      /\ what'[p][action_id_in_map[p] + 1] = a
  BY <1>1, <1>2, <1>3, AddedLast
<1>7. f.id < action_id_in_map'[p] /\ what'[p][f.id + 1] = Do("terminate", f.of, 0)
  BY <1>1, <1>5, <1>6 DEF a
<1>8. ASSUME NEW r, r # <<>>, Head(r) = f PROVE TopMeant(r)'
  BY <1>5, <1>7, <1>8 DEF TopMeant
<1>9. QED
  BY <1>2, <1>4, <1>5, <1>8

LEMMA NewNestedStep ==
    ASSUME LInv, NEW t \in Threads, NEW p \in Lifetimes, NewNested(t, p)
    PROVE  LInv'
<1>1. stack[t] = <<>> /\ attach(t, p) /\ Call(t, Attaching(p)) /\ UNCHANGED <<runs, view>>
  BY DEF NewNested, Idle
<1>2. PICK f \in Frame :
         /\ f = Attaching(p) /\ f.at = "attaching" /\ f.of \in Lifetimes
         /\ \A r : r # <<>> /\ Head(r) = f => TopMeant(r)'
  BY <1>1, Attached
<1>3. stack \in [Threads -> Seq(Frame)]
  BY DEF LInv, Typed
<1>4. PICK r : /\ r = <<f>> \o stack[t] /\ r \in Seq(Frame)
               /\ stack' = [stack EXCEPT ![t] = r]
               /\ \A place, l : In(place, l) => In(place, l)'
  BY <1>1, <1>2, <1>3, Called
<1>5. r # <<>> /\ Head(r) = f
  BY <1>3, <1>4, Push
<1>6. stack' \in [Threads -> Seq(Frame)] /\ Stay
  BY <1>3, <1>4 DEF Stay
<1>7. Typed' /\ Grows /\ \A l \in Lifetimes : Kept(l)'
  BY <1>1, <1>6, Attach
<1>8. Fits(stack[t], f)
  BY <1>1, <1>2 DEF Fits, Ground
<1>9. Moved(stack[t], r)
  BY <1>1, <1>2, <1>4, <1>8 DEF Moved
<1>10. Stacks' /\ Values'
  BY <1>1, <1>2, <1>4, <1>5, <1>7, <1>9, Moves
<1>11. QED
  BY <1>7, <1>10 DEF LInv

LEMMA LinkStep ==
    ASSUME LInv, NEW t \in Threads, Link(t)
    PROVE  LInv'
<1>0. PICK p, a : p = Top(t).of /\ a = Do("unlink", Top(t).with, Top(t).id)
  OBVIOUS
<1>1. /\ Is(t, "attaching") /\ UNCHANGED <<made, terminated, left, ran, view>>
      /\ \/ ~terminated[p] /\ add_action(t, p, a) /\ Return(t)
         \/ stack' = [stack EXCEPT ![t] = <<>>] /\ UNCHANGED maps
  BY <1>0 DEF Link, accepts, runs
<1>2. /\ Typed /\ Stacks /\ (\A l \in Lifetimes : Kept(l)) /\ stack \in [Threads -> Seq(Frame)]
      /\ current_def \in Numbers /\ handed \in SUBSET Numbers /\ terminated \in [Lifetimes -> BOOLEAN]
  BY DEF LInv, Typed
<1>3. "attaching" \in Places \ (Ground \cup {"setting", "assigning"})
  BY DEF Places, Ground
<1>4. /\ p \in Lifetimes /\ stack[t] \in Seq(Frame) /\ stack[t] # <<>>
      /\ TopMeant(stack[t]) /\ Shaped(t, stack[t])
      /\ Top(t) = Head(stack[t]) /\ Top(t) \in Frame /\ Top(t).at = "attaching"
      /\ Tail(stack[t]) # <<>> => Head(Tail(stack[t])).at \in Ground \cup {"running"}
  BY <1>0, <1>1, <1>2, <1>3, OnTop
<1>5. CASE ~terminated[p] /\ add_action(t, p, a) /\ Return(t)
  <2>1. /\ stack' \in [Threads -> Seq(Frame)]
        /\ \A place, l : In(place, l) => In(place, l)' \/ ("attaching" = place /\ p = l)
        /\ Typed' /\ Grows /\ UNCHANGED view => Stacks' /\ Values'
    BY <1>0, <1>1, <1>3, <1>5, Returns
  <2>2. /\ Top(t).with \in Lifetimes /\ Top(t).id \in Nat /\ Top(t).id < action_id_in_map[Top(t).with]
        /\ what[Top(t).with][Top(t).id + 1] = Do("terminate", p, 0)
    BY <1>0, <1>4 DEF TopMeant, Frame
  <2>3. a \in Action /\ Meant(p, a)
    <3>1. Top(t).with \in Numbers
      BY <1>2, <2>2, Known
    <3>2. /\ a \in Action /\ a.do = "unlink" /\ a.of = Top(t).with /\ a.id = Top(t).id
      BY <1>0, <2>2, <3>1 DEF Do, Action
    <3>3. QED
      BY <2>2, <3>2 DEF Meant
  <2>4. Stay
    BY <2>1 DEF Stay
  <2>5. Typed'
    BY <1>1, <1>2, <1>4, <1>5, <2>1, <2>3, AddTyped DEF Typed, view
  <2>6. Grows
    BY <1>1, <1>2, <1>4, <1>5, <2>3, AddGrows DEF Kept
  <2>7. Meant(p, a)'
    BY <1>2, <2>3, <2>5, <2>6, MeantStays
  <2>8. \A l \in Lifetimes : Kept(l)'
    BY <1>1, <1>2, <1>4, <1>5, <2>3, <2>4, <2>5, <2>7, Added
  <2>9. QED
    BY <1>1, <2>1, <2>5, <2>6, <2>8 DEF LInv
<1>6. CASE stack' = [stack EXCEPT ![t] = <<>>] /\ UNCHANGED maps
  <2>1. <<>> \in Seq(Frame) /\ Shaped(t, <<>>) /\ TopMeant(<<>>)'
    BY DEF Shaped, TopMeant
  <2>2. ASSUME NEW place \in {"terminating", "running"}, NEW l PROVE ~Has(stack[t], place, l)
    <3>1. \A k \in 2 .. Len(stack[t]) : stack[t][k].at = "making"
      BY <1>4 DEF Shaped
    <3>2. stack[t][1].at = "attaching" /\ \A k \in 1 .. Len(stack[t]) : k = 1 \/ k \in 2 .. Len(stack[t])
      BY <1>4, Pop
    <3>3. QED
      BY <3>1, <3>2 DEF Has
  <2>3. Ends /\ Grows
    BY <1>1, <1>2, <1>6, SameGrows DEF Ends, maps
  <2>4. stack' \in [Threads -> Seq(Frame)] /\ stack'[t] = <<>>
    BY <1>2, <1>6, <2>1
  <2>5. Values'
    <3>1. CASE Tail(stack[t]) = <<>>
      <4>1. Moved(stack[t], <<>>)
        BY <1>3, <1>4, <3>1 DEF Moved
      <4>2. UNCHANGED view
        BY <1>1
      <4>3. \A l \in Lifetimes : terminated[l] => terminated'[l]
        BY <1>1
      <4>4. QED
        BY <1>2, <1>6, <4>1, <4>2, <4>3, ValuesStay DEF LInv
    <3>2. CASE Tail(stack[t]) # <<>>
      <4>1. Len(stack[t]) \in 2 .. Len(stack[t])
        BY <1>4, <3>2, Pop
      <4>2. stack[t][Len(stack[t])].at = "making"
        BY <1>4, <4>1 DEF Shaped
      <4>3. t = Firer
        BY <1>4, <4>1, <4>2 DEF Shaped, Ground
      <4>4. Bottom(stack[Firer]) = "making"
        BY <1>4, <4>2, <4>3 DEF Bottom
      <4>5. Alive = {} /\ (Eternal \in handed => terminated[Viewed])
        BY <4>4 DEF Values, LInv
      <4>6. Alive' = {} /\ (Eternal \in handed' => terminated'[Viewed])
        BY <1>1, <4>5 DEF Alive, view
      <4>7. Bottom(<<>>) # "handing"
        BY DEF Bottom
      <4>8. PICK s : s = <<>>
        OBVIOUS
      <4>9. QED
        BY <2>4, <4>3, <4>6, <4>7, <4>8, NoValue
    <3>3. QED
      BY <3>1, <3>2
  <2>6. QED
    BY <1>1, <1>2, <1>6, <2>1, <2>2, <2>3, <2>5, Quiet DEF view
<1>7. QED
  BY <1>1, <1>5, <1>6

\* What fires is all that the thread does.
LEMMA Grounded ==
    ASSUME LInv, NEW t \in Threads, NEW where \in Ground, Is(t, where)
    PROVE  /\ t = Firer /\ stack[t] # <<>> /\ Len(stack[t]) = 1
           /\ Top(t) = stack[t][1] /\ Top(t) \in Frame
           /\ where # "firing" => Top(t).of \in Lifetimes
           /\ Bottom(stack[Firer]) = where
           /\ \A x : ~Setting(stack[Firer], x)
           /\ \A place \in {"terminating", "running"} : \A l : ~Has(stack[t], place, l)
<1>1. where \in Places /\ Typed /\ Stacks /\ where \notin {"setting", "assigning"}
  BY DEF LInv, Places, Ground
<1>2. /\ stack[t] \in Seq(Frame) /\ stack[t] # <<>> /\ Shaped(t, stack[t])
      /\ Top(t) = Head(stack[t]) /\ Top(t) \in Frame /\ Top(t).at = where
      /\ where # "firing" => Top(t).of \in Lifetimes
      /\ t = Firer /\ Tail(stack[t]) = <<>>
  BY <1>1, OnTop
<1>3. Len(stack[t]) = 1 /\ Head(stack[t]) = stack[t][1]
  <2>1. Len(stack[t]) \in Nat /\ Len(Tail(stack[t])) = Len(stack[t]) - 1 /\ Head(stack[t]) = stack[t][1]
    BY <1>2, Pop
  <2>2. Len(Tail(stack[t])) = 0
    BY <1>2
  <2>3. Len(stack[t]) = Len(Tail(stack[t])) + 1 /\ Len(Tail(stack[t])) \in Nat
    BY <2>1, <2>2
  <2>4. QED
    BY <2>1, <2>2, <2>3, OneLess
<1>4. Bottom(stack[Firer]) = where /\ \A x : ~Setting(stack[Firer], x)
  BY <1>2, <1>3 DEF Bottom, Setting
<1>5. \A place \in {"terminating", "running"} : \A l : ~Has(stack[t], place, l)
  <2>1. \A k \in 1 .. 1 : k = 1
    OBVIOUS
  <2>2. QED
    BY <1>2, <1>3, <2>1 DEF Has, Ground
<1>6. QED
  BY <1>2, <1>3, <1>4, <1>5

LEMMA FireBeforeStep ==
    ASSUME LInv, NEW t \in Threads, FireBefore(t)
    PROVE  LInv'
<1>0. PICK f, g : f = At("setting", Eternal, 0, 0) /\ g = At("firing", 0, 0, 0)
  OBVIOUS
<1>1. /\ t = Firer /\ stack[t] = <<>> /\ ~terminated[Viewed]
      /\ stack' = [stack EXCEPT ![t] = <<f, g>>]
      /\ UNCHANGED <<made, maps, terminated, left, ran, current_def, handed>>
  BY <1>0 DEF FireBefore, Idle, runs, view
<1>2. /\ Typed /\ Stacks /\ stack \in [Threads -> Seq(Frame)]
      /\ current_def \in Numbers /\ handed \in SUBSET Numbers /\ terminated \in [Lifetimes -> BOOLEAN]
  BY DEF LInv, Typed
<1>3. /\ f \in Frame /\ f.at = "setting" /\ f.of = Eternal
      /\ g \in Frame /\ g.at = "firing"
  <2>1. "setting" \in Places /\ "firing" \in Places /\ Eternal \in Numbers /\ 0 \in Numbers /\ 0 \in Nat
    BY <1>2, Known DEF Places, Eternal
  <2>2. QED
    BY <1>0, <2>1, Framed
<1>4. PICK r : r = <<f, g>>
  OBVIOUS
<1>5. /\ r \in Seq(Frame) /\ r # <<>> /\ Len(r) = 2 /\ Head(r) = f /\ r[1] = f /\ r[2] = g
      /\ Bottom(r) = "firing" /\ \A x : Setting(r, x) <=> f.at = x
  BY <1>3, <1>4, Pair
<1>6. Shaped(t, r)
  BY <1>1, <1>3, <1>4, ShapedPair DEF Ground
<1>7. TopMeant(r)'
  BY <1>3, <1>5 DEF TopMeant, Sets
<1>8. \A place \in {"terminating", "running"} : \A l : Has(stack[t], place, l) => Has(r, place, l)
  BY <1>1 DEF Has
<1>9. Ends
  BY <1>1 DEF Ends
<1>10. Values'
  <2>1. Bottom(stack[Firer]) = "none" /\ "none" \notin Ground
    BY <1>1 DEF Bottom, Ground
  <2>2. /\ \A h, k \in Alive : h = k
        /\ Eternal \in handed => terminated[Viewed]
        /\ Alive \subseteq {current_def}
    BY <1>1, <2>1 DEF LInv, Values
  <2>3. Alive' = Alive /\ stack'[Firer] = r
    BY <1>1, <1>2, <1>4 DEF Alive
  <2>4. \A u \in Threads : ~Is(u, "assigning")'
    <3> SUFFICES ASSUME NEW u \in Threads, stack'[u] # <<>>, Head(stack'[u]).at = "assigning" PROVE FALSE
      BY DEF Is, Idle, Top
    <3>1. u # Firer
      BY <2>3, <1>3, <1>5
    <3>2. /\ stack[u] = stack'[u] /\ stack[u] \in Seq(Frame)
          /\ Shaped(u, stack[u]) /\ TopMeant(stack[u])
      BY <3>1, <1>1, <1>2 DEF Stacks
    <3>3. Sets(stack[u], Head(stack[u]))
      BY <3>2 DEF TopMeant
    <3>4. Len(stack[u]) = 2 => 2 \in 1 .. Len(stack[u])
      BY <3>2
    <3>5. QED
      BY <3>1, <3>2, <3>3, <3>4, <1>1 DEF Sets, Shaped, Ground
  <2>5. Setting(r, "setting") /\ ~Setting(r, "assigning")
    BY <1>3, <1>5
  <2> HIDE DEF Alive
  <2>6. QED
    BY <1>1, <1>5, <2>2, <2>3, <2>4, <2>5 DEF Values, Bottom, Setting, Ground
<1>11. QED
  BY <1>1, <1>2, <1>4, <1>5, <1>6, <1>7, <1>8, <1>9, <1>10, Quiet

LEMMA FireAfterStep ==
    ASSUME LInv, NEW t \in Threads, FireAfter(t)
    PROVE  LInv'
<1>1. /\ Is(t, "firing") /\ UNCHANGED <<runs, view>>
      /\ \/ /\ attach(t, Viewed)
            /\ stack' = [stack EXCEPT ![t] = <<Attaching(Viewed), At("making", made + 1, 0, 0)>>]
         \/ Return(t) /\ UNCHANGED <<made, maps>>
  BY DEF FireAfter
<1>2. /\ Typed /\ Stacks /\ (\A l \in Lifetimes : Kept(l)) /\ stack \in [Threads -> Seq(Frame)]
      /\ current_def \in Numbers /\ handed \in SUBSET Numbers /\ terminated \in [Lifetimes -> BOOLEAN]
  BY DEF LInv, Typed
<1>3. "firing" \in Ground /\ "firing" \in Places
  BY DEF Ground, Places
<1>4. /\ t = Firer /\ Bottom(stack[Firer]) = "firing" /\ \A x : ~Setting(stack[Firer], x)
      /\ \A place \in {"terminating", "running"} : \A l : ~Has(stack[t], place, l)
  BY <1>1, <1>3, Grounded
<1>5. Tail(stack[t]) = <<>>
  BY <1>1, <1>2, <1>3, OnTop
<1>6. Alive' = {} /\ (Eternal \in handed' => terminated'[Viewed])
  <2>1. Alive = {} /\ (Eternal \in handed => terminated[Viewed])
    BY <1>4 DEF LInv, Values
  <2>2. QED
    BY <1>1, <2>1 DEF Alive, runs, view
<1>7. CASE /\ attach(t, Viewed)
           /\ stack' = [stack EXCEPT ![t] = <<Attaching(Viewed), At("making", made + 1, 0, 0)>>]
  <2>1. Viewed \in Lifetimes
    BY <1>2, Known
  <2>2. PICK f \in Frame :
           /\ f = Attaching(Viewed) /\ f.at = "attaching" /\ f.of = made + 1 /\ f.of \in Lifetimes
           /\ \A r : r # <<>> /\ Head(r) = f => TopMeant(r)'
    BY <1>7, <2>1, Attached
  <2>3. PICK g : g = At("making", made + 1, 0, 0)
    OBVIOUS
  <2>4. g \in Frame /\ g.at = "making" /\ g.of \in Lifetimes
    <3>1. "making" \in Places /\ made + 1 \in Lifetimes /\ 0 \in Nat
      BY <2>2 DEF Places
    <3>2. QED
      BY <1>2, <2>3, <3>1, Placed
  <2>5. PICK r : r = <<f, g>>
    OBVIOUS
  <2>6. /\ r \in Seq(Frame) /\ r # <<>> /\ Head(r) = f /\ Bottom(r) = "making"
        /\ stack' = [stack EXCEPT ![t] = r]
    BY <1>7, <2>2, <2>3, <2>4, <2>5, Pair
  <2>7. Shaped(t, r)
    BY <1>4, <2>2, <2>4, <2>5, ShapedPair DEF Ground
  <2>8. TopMeant(r)'
    BY <2>2, <2>6
  <2>9. stack' \in [Threads -> Seq(Frame)] /\ stack'[t] = r
    BY <1>2, <2>6
  <2>10. Stay
    <3>1. \A place, l : In(place, l) => In(place, l)' \/ Has(stack[t], place, l)
      BY <1>2, <2>6, Changed
    <3>2. QED
      BY <1>4, <3>1 DEF Stay
  <2>11. Typed' /\ Grows /\ \A l \in Lifetimes : Kept(l)'
    BY <1>1, <1>7, <2>1, <2>9, <2>10, Attach
  <2>12. Stacks'
    BY <1>2, <2>6, <2>7, <2>8, <2>11, StacksStay
  <2>13. Values'
    BY <1>4, <1>6, <2>6, <2>9, NoValue
  <2>14. QED
    BY <2>11, <2>12, <2>13 DEF LInv
<1>8. CASE Return(t) /\ UNCHANGED <<made, maps>>
  <2>1. PICK r : r = <<>>
    OBVIOUS
  <2>2. r \in Seq(Frame) /\ stack' = [stack EXCEPT ![t] = r]
    <3>1. r \in Seq(Frame)
      BY <2>1
    <3>2. QED
      BY <3>1, <1>5, <1>8, <2>1 DEF Return
  <2>3. Shaped(t, r) /\ TopMeant(r)'
    BY <2>1 DEF Shaped, TopMeant
  <2>4. stack'[t] = r
    BY <1>2, <2>2
  <2>5. Bottom(r) # "handing"
    BY <2>1 DEF Bottom
  <2>6. Values'
    BY <1>4, <1>6, <2>4, <2>5, NoValue
  <2>7. UNCHANGED <<made, maps, left, ran, terminated, current_def, handed>> /\ Ends
    BY <1>1, <1>8 DEF runs, view, Ends
  <2>8. QED
    BY <1>2, <1>4, <2>2, <2>3, <2>6, <2>7, Quiet
<1>9. QED
  BY <1>1, <1>7, <1>8

LEMMA nextStep ==
    ASSUME LInv, NEW t \in Threads, next(t)
    PROVE  LInv'
<1>0. PICK f, g : f = At("setting", Top(t).of, 0, 0) /\ g = At("handing", Top(t).of, 0, 0)
  OBVIOUS
<1>1. /\ Is(t, "making") /\ stack' = [stack EXCEPT ![t] = <<f, g>>]
      /\ UNCHANGED <<made, maps, terminated, left, ran, current_def, handed>>
  BY <1>0 DEF next, runs, view
<1>2. /\ Typed /\ Stacks /\ stack \in [Threads -> Seq(Frame)]
      /\ current_def \in Numbers /\ handed \in SUBSET Numbers /\ terminated \in [Lifetimes -> BOOLEAN]
  BY DEF LInv, Typed
<1>3. "making" \in Ground
  BY DEF Ground
<1>4. /\ t = Firer /\ Bottom(stack[Firer]) = "making" /\ Top(t).of \in Lifetimes
      /\ \A place \in {"terminating", "running"} : \A l : ~Has(stack[t], place, l)
  BY <1>1, <1>3, Grounded
<1>5. /\ f \in Frame /\ f.at = "setting" /\ f.of = Top(t).of
      /\ g \in Frame /\ g.at = "handing" /\ g.of = Top(t).of
  <2>1. "setting" \in Places /\ "handing" \in Places /\ 0 \in Nat
    BY DEF Places
  <2>2. QED
    BY <1>0, <1>2, <1>4, <2>1, Placed
<1>6. PICK r : r = <<f, g>>
  OBVIOUS
<1>7. /\ r \in Seq(Frame) /\ r # <<>> /\ Len(r) = 2 /\ Head(r) = f /\ r[1] = f /\ r[2] = g
      /\ Bottom(r) = "handing" /\ \A x : Setting(r, x) <=> f.at = x
  BY <1>5, <1>6, Pair
<1>8. Shaped(t, r)
  BY <1>4, <1>5, <1>6, ShapedPair DEF Ground
<1>9. TopMeant(r)'
  BY <1>5, <1>7 DEF TopMeant, Sets
<1>10. Ends
  BY <1>1 DEF Ends
<1>11. Values'
  <2>1. Alive = {} /\ (Eternal \in handed => terminated[Viewed])
    BY <1>4 DEF LInv, Values
  <2>2. Alive' = {} /\ (Eternal \in handed' => terminated'[Viewed])
    BY <1>1, <2>1 DEF Alive
  <2>3. r = stack'[Firer]
    BY <1>1, <1>2, <1>4, <1>6
  <2>4. Setting(r, "setting")
    BY <1>5, <1>7
  <2>5. QED
    BY <2>2, <2>3, <2>4, NoValue
<1>12. QED
  BY <1>1, <1>2, <1>4, <1>6, <1>7, <1>8, <1>9, <1>10, <1>11, Quiet

\* The stack with another frame on top.
Over(q, f) == <<f>> \o Tail(q)

LEMMA Replaced ==
    ASSUME NEW q \in Seq(Frame), q # <<>>, NEW f \in Frame
    PROVE  /\ Over(q, f) \in Seq(Frame) /\ Over(q, f) # <<>> /\ Len(Over(q, f)) = Len(q) /\ Len(q) \in Nat
           /\ Head(Over(q, f)) = f /\ Over(q, f)[1] = f /\ Head(q) = q[1]
           /\ \A k \in 2 .. Len(q) : Over(q, f)[k] = q[k]
           /\ \A place, l : Has(q, place, l) /\ Head(q).at # place => Has(Over(q, f), place, l)
           /\ Has(Over(q, f), f.at, f.of)
           /\ Len(q) = 1 => Bottom(Over(q, f)) = f.at /\ Bottom(q) = q[1].at
           /\ Len(q) # 1 => /\ Len(q) \in 2 .. Len(q) /\ Bottom(Over(q, f)) = Bottom(q)
                            /\ Over(q, f)[Len(Over(q, f))] = q[Len(q)]
<1> DEFINE r == Over(q, f)
<1>1. /\ Tail(q) \in Seq(Frame) /\ Head(q) = q[1] /\ Len(q) \in Nat /\ Len(q) >= 1
      /\ Len(Tail(q)) = Len(q) - 1
      /\ \A k \in 2 .. Len(q) : k - 1 \in 1 .. Len(Tail(q)) /\ q[k] = Tail(q)[k - 1]
  BY Pop
<1>2. /\ r \in Seq(Frame) /\ r # <<>> /\ Len(r) = Len(Tail(q)) + 1 /\ Head(r) = f /\ r[1] = f
      /\ \A k \in 1 .. Len(r) : k = 1 \/ (k - 1 \in 1 .. Len(Tail(q)) /\ r[k] = Tail(q)[k - 1])
  BY <1>1, Push DEF Over
<1> HIDE DEF r
<1> DEFINE n == Len(q)
<1>3. n \in Nat /\ n >= 1 /\ Len(r) = n
  BY <1>1, <1>2
<1>4. /\ \A k \in 2 .. n : q[k] = Tail(q)[k - 1]
      /\ \A k \in 1 .. n : k = 1 \/ r[k] = Tail(q)[k - 1]
  BY <1>1, <1>2, <1>3
<1> HIDE DEF n
<1>5. \A k \in 2 .. n : k \in 1 .. n /\ k # 1
  BY <1>3
<1>6. \A k \in 2 .. n : r[k] = q[k]
  BY <1>4, <1>5
<1>7. /\ \A place, l : Has(q, place, l) /\ Head(q).at # place => Has(r, place, l)
      /\ Has(r, f.at, f.of)
  <2>1. 1 \in 1 .. n /\ \A k \in 1 .. n : k = 1 \/ k \in 2 .. n
    BY <1>3
  <2>2. n = Len(q) /\ n = Len(r)
    BY <1>3 DEF n
  <2>3. QED
    BY <2>1, <2>2, <1>1, <1>2, <1>6 DEF Has
<1>8. n # 1 => n \in 2 .. n
  BY <1>3
<1>9. n = 1 => Bottom(r) = f.at /\ Bottom(q) = q[1].at
  BY <1>2, <1>3 DEF Bottom, n
<1>10. n # 1 => Bottom(r) = Bottom(q) /\ r[Len(r)] = q[Len(q)]
  <2>1. n # 1 => r[n] = q[n]
    BY <1>6, <1>8
  <2>2. QED
    BY <2>1, <1>2, <1>3 DEF Bottom, n
<1>11. QED
  BY <1>1, <1>2, <1>3, <1>6, <1>7, <1>8, <1>9, <1>10 DEF n, r

LEMMA ReadCurrentStep ==
    ASSUME LInv, NEW t \in Threads, ReadCurrent(t)
    PROVE  LInv'
<1>0. PICK f, q, r : /\ f = At("assigning", Top(t).of, current_def, 0)
                     /\ q = stack[t] /\ r = <<f>> \o Tail(stack[t])
  OBVIOUS
<1>1. /\ Is(t, "setting") /\ Goto(t, f)
      /\ UNCHANGED <<made, maps, terminated, left, ran, current_def, handed>>
  BY <1>0 DEF ReadCurrent, runs, view
<1>2. /\ Typed /\ Stacks /\ stack \in [Threads -> Seq(Frame)]
      /\ current_def \in Numbers /\ handed \in SUBSET Numbers /\ terminated \in [Lifetimes -> BOOLEAN]
  BY DEF LInv, Typed
<1>3. "setting" \in Places /\ "assigning" \in Places
  BY DEF Places
<1>4. /\ q \in Seq(Frame) /\ q # <<>> /\ TopMeant(q)
      /\ Top(t) = Head(q) /\ Top(t) \in Frame /\ Top(t).at = "setting"
      /\ Tail(q) \in Seq(Frame) /\ Shaped(t, Tail(q))
      /\ Tail(q) # <<>> => Head(Tail(q)).at \in Ground \cup {"running"}
  BY <1>0, <1>1, <1>2, <1>3, OnTop
<1>5. f \in Frame /\ f.at = "assigning" /\ f.of = Top(t).of /\ f.with = current_def
  <2>1. Top(t).of \in Numbers /\ 0 \in Nat
    BY <1>4 DEF Frame
  <2>2. QED
    BY <1>0, <1>2, <1>3, <2>1, Framed
<1>6. stack' = [stack EXCEPT ![t] = r] /\ r = <<f>> \o Tail(q)
  BY <1>0, <1>1, <1>2 DEF Goto
<1>7. /\ r \in Seq(Frame) /\ r # <<>> /\ Len(r) = Len(q) /\ Len(q) \in Nat
      /\ Head(r) = f /\ r[1] = f /\ Head(q) = q[1]
      /\ \A k \in 2 .. Len(q) : r[k] = q[k]
      /\ \A place, l : Has(q, place, l) /\ Head(q).at # place => Has(r, place, l)
      /\ Len(q) = 1 => Bottom(r) = f.at /\ Bottom(q) = q[1].at
      /\ Len(q) # 1 => Len(q) \in 2 .. Len(q) /\ Bottom(r) = Bottom(q) /\ r[Len(r)] = q[Len(q)]
  <2>1. q \in Seq(Frame) /\ q # <<>> /\ f \in Frame /\ r = Over(q, f)
    BY <1>4, <1>5, <1>6 DEF Over
  <2>2. QED
    BY <2>1, Replaced
<1>8. Shaped(t, r)
  <2>1. Fits(Tail(q), f)
    BY <1>5 DEF Fits, Ground
  <2>2. QED
    BY <1>4, <1>6, <2>1, ShapedPush
<1>9. TopMeant(r)'
  <2>1. Sets(q, Head(q))
    BY <1>4 DEF TopMeant
  <2>2. Len(q) = 2 => 2 \in 2 .. Len(q)
    OBVIOUS
  <2>3. Len(q) = 2 => r[2] = q[2]
    BY <1>7, <2>2
  <2>4. terminated' = terminated
    BY <1>1
  <2>5. Sets(r, f)'
    BY <1>4, <1>5, <1>7, <2>1, <2>3, <2>4 DEF Sets
  <2>6. QED
    BY <1>5, <1>7, <2>5 DEF TopMeant
<1>10. Ends
  BY <1>1 DEF Ends
<1>11. \A place \in {"terminating", "running"} : \A l : Has(stack[t], place, l) => Has(r, place, l)
  BY <1>0, <1>4, <1>7
<1>12. Values'
  <2>1. Alive' = Alive /\ handed' = handed /\ current_def' = current_def /\ terminated' = terminated
    BY <1>1 DEF Alive
  <2> DEFINE b == stack[Firer]
  <2>2. /\ \A h, k \in Alive : h = k
        /\ Eternal \in handed => terminated[Viewed]
        /\ Bottom(b) \notin Ground /\ ~terminated[Viewed] => Alive \subseteq {current_def}
        /\ Bottom(b) = "firing" /\ Setting(b, "setting") =>
              Alive \subseteq {current_def}
        /\ Bottom(b) = "firing" /\ Setting(b, "setting") =>
              \A u \in Threads : Is(u, "assigning") => Alive \subseteq {Top(u).with}
        /\ Bottom(b) = "firing" /\ Setting(b, "assigning") => Alive \subseteq {b[1].with}
        /\ Bottom(b) = "firing" /\ ~Setting(b, "setting") /\ ~Setting(b, "assigning") => Alive = {}
        /\ Bottom(b) \in {"making", "handing"} => Alive = {}
        /\ Bottom(b) = "handing" /\ ~Setting(b, "setting") /\ ~Setting(b, "assigning") =>
              current_def = b[Len(b)].of \/ (current_def = Eternal /\ terminated[Viewed])
    BY DEF LInv, Values
  <2>3. Firer \in Threads
    BY <1>2, Known
  <2> HIDE DEF b
  <2>4. CASE t # Firer
    <3>1. stack'[Firer] = b /\ stack'[t] = r /\ \A u \in Threads \ {t} : stack'[u] = stack[u]
      BY <1>2, <1>6, <2>3, <2>4, <1>7 DEF b
    <3>2. Bottom(b) = "firing" /\ Setting(b, "setting") =>
             \A u \in Threads : Is(u, "assigning")' => Alive \subseteq {Head(stack'[u]).with}
      <4> SUFFICES ASSUME Bottom(b) = "firing", Setting(b, "setting"),
                          NEW u \in Threads, Is(u, "assigning")'
                   PROVE  Alive \subseteq {Head(stack'[u]).with}
        OBVIOUS
      <4>1. CASE u = t
        BY <4>1, <2>2, <3>1, <1>5, <1>7
      <4>2. CASE u # t
        BY <4>2, <2>2, <3>1 DEF Is, Idle, Top
      <4>3. QED
        BY <4>1, <4>2
    <3>3. QED
      BY <2>1, <2>2, <3>1, <3>2 DEF Values, Bottom, Setting, Top
  <2>5. CASE t = Firer
    <3>1. stack'[Firer] = r /\ b = q
      BY <1>0, <1>2, <1>6, <2>3, <2>5, <1>7 DEF b
    <3>2. Head(q).at = "setting" /\ q[1].at = "setting"
      BY <1>4, <1>7
    <3>3. CASE Bottom(q) \notin Ground
      <4>1. Bottom(r) \notin Ground
        BY <3>3, <1>5, <1>7 DEF Ground
      <4>2. QED
        BY <2>1, <2>2, <3>1, <3>3, <4>1 DEF Values, Bottom, Setting, Ground
    <3>4. CASE Bottom(q) \in Ground
      <4>1. Len(q) # 1
        BY <3>2, <3>4, <1>7 DEF Ground
      <4>2. /\ Bottom(r) = Bottom(q) /\ r[Len(r)] = q[Len(q)] /\ Len(r) = Len(q)
            /\ r[1] = f /\ f.at = "assigning" /\ f.with = current_def
        BY <4>1, <1>5, <1>7
      <4>3. /\ ~Setting(r, "setting") /\ ~Setting(q, "assigning")
            /\ Setting(r, "assigning") <=> Setting(q, "setting")
        BY <4>2, <3>2 DEF Setting
      <4>4. QED
        BY <2>1, <2>2, <3>1, <3>4, <4>2, <4>3 DEF Values, Bottom, Setting, Ground
    <3>5. QED
      BY <3>3, <3>4
  <2>6. QED
    BY <2>4, <2>5
<1>13. QED
  BY <1>1, <1>2, <1>6, <1>7, <1>8, <1>9, <1>10, <1>11, <1>12, Quiet

\* The call that ends a lifetime, or that nothing is done with the eternal one.
LEMMA Ending ==
    ASSUME LInv, NEW t \in Threads, NEW where \in {"assigning", "handing"}, Is(t, where),
           NEW l \in Numbers, terminate(t, l)
    PROVE  \E r \in Seq(Frame) :
              /\ stack' = [stack EXCEPT ![t] = r] /\ Shaped(t, r) /\ TopMeant(r)'
              /\ \A place \in {"terminating", "running"} : \A k : Has(stack[t], place, k) => Has(r, place, k)
              /\ terminated' \in [Lifetimes -> BOOLEAN] /\ Ends
              /\ l # Eternal => terminated'[l]
              /\ r # <<>> => Head(r).at \in Ground \cup {"running", "terminating"}
              /\ Len(stack[t]) = 1 => Bottom(r) \in {"none", "terminating"}
              /\ Len(stack[t]) # 1 => Bottom(r) = Bottom(stack[t]) /\ r[Len(r)] = stack[t][Len(stack[t])]
<1>1. /\ Typed /\ Stacks /\ stack \in [Threads -> Seq(Frame)]
      /\ terminated \in [Lifetimes -> BOOLEAN]
  BY DEF LInv, Typed
<1>2. where \in Places /\ "terminating" \in Places
  BY DEF Places
<1>3. PICK q : q = stack[t]
  OBVIOUS
<1>4. /\ q \in Seq(Frame) /\ q # <<>> /\ ~Idle(t)
      /\ Head(q).at = where
      /\ Tail(q) \in Seq(Frame) /\ Shaped(t, Tail(q))
      /\ Tail(q) # <<>> => Head(Tail(q)).at \in Ground \cup {"running"}
  BY <1>1, <1>2, <1>3, OnTop
<1>5. CASE l = Eternal
  <2>1. PICK r : r = Tail(q)
    OBVIOUS
  <2>2. stack' = [stack EXCEPT ![t] = r] /\ terminated' = terminated
    BY <1>1, <1>3, <1>5, <2>1 DEF terminate, Return
  <2>3. r \in Seq(Frame) /\ Shaped(t, r)
    BY <1>4, <2>1
  <2>4. TopMeant(r)'
    BY <1>4, <2>1, PlainTop
  <2>5. \A place \in {"terminating", "running"} : \A k : Has(stack[t], place, k) => Has(r, place, k)
    BY <1>3, <1>4, <2>1, HasPopped
  <2>6. /\ Bottom(r) = IF r = <<>> THEN "none" ELSE Bottom(q)
        /\ r # <<>> => r[Len(r)] = q[Len(q)]
    BY <1>4, <2>1, BottomPopped
  <2>7. r = <<>> <=> Len(q) = 1
    <3>1. Len(q) \in Nat /\ Len(q) >= 1 /\ Len(r) = Len(q) - 1
      BY <1>4, <2>1, Pop
    <3>2. Len(q) = Len(r) + 1 /\ Len(r) \in Nat
      BY <3>1
    <3>3. r = <<>> <=> Len(r) = 0
      BY <2>3, EmptySeq
    <3>4. QED
      BY <3>2, <3>3, OneLess
  <2>8. Ends
    BY <2>2 DEF Ends
  <2>9. QED
    BY <1>1, <1>3, <1>4, <1>5, <2>1, <2>2, <2>3, <2>4, <2>5, <2>6, <2>7, <2>8
<1>6. CASE l # Eternal
  <2>1. l \in Lifetimes
    BY <1>1, <1>6, Known
  <2>2. PICK f, r : f = At("terminating", l, 0, 0) /\ r = Over(q, f)
    OBVIOUS
  <2>3. f \in Frame /\ f.at = "terminating" /\ f.of = l
    <3>1. 0 \in Nat
      OBVIOUS
    <3>2. QED
      BY <1>1, <1>2, <2>1, <2>2, <3>1, Placed
  <2>4. stack' = [stack EXCEPT ![t] = r] /\ terminated' = [terminated EXCEPT ![l] = TRUE]
    BY <1>1, <1>3, <1>6, <2>2 DEF terminate, Goto, Over
  <2>5. /\ r \in Seq(Frame) /\ r # <<>> /\ Head(r) = f
        /\ \A place, k : Has(q, place, k) /\ Head(q).at # place => Has(r, place, k)
        /\ Has(r, f.at, f.of)
        /\ Len(q) = 1 => Bottom(r) = f.at
        /\ Len(q) # 1 => Bottom(r) = Bottom(q) /\ r[Len(r)] = q[Len(q)]
    BY <1>4, <2>2, <2>3, Replaced
  <2>6. Shaped(t, r)
    <3>1. Fits(Tail(q), f)
      BY <2>1, <2>3 DEF Fits, Ground
    <3>2. QED
      BY <1>4, <2>2, <3>1, ShapedPush DEF Over
  <2>7. terminated' \in [Lifetimes -> BOOLEAN] /\ terminated'[l]
    BY <1>1, <2>1, <2>4
  <2>8. TopMeant(r)'
    BY <2>3, <2>5, <2>7 DEF TopMeant
  <2>9. Ends
    <3>1. In("terminating", l)'
      <4>1. Has(r, "terminating", l) /\ r \in Seq(Frame)
        BY <2>3, <2>5
      <4>2. \A place, k : Has(r, place, k) => In(place, k)'
        BY <1>1, <2>4, <4>1, Changed
      <4>3. QED
        BY <4>1, <4>2
    <3>2. QED
      BY <1>1, <2>1, <2>4, <3>1 DEF Ends
  <2>10. \A place \in {"terminating", "running"} : \A k : Has(stack[t], place, k) => Has(r, place, k)
    BY <1>3, <1>4, <2>5
  <2>11. QED
    BY <1>3, <2>3, <2>4, <2>5, <2>6, <2>7, <2>8, <2>9, <2>10
<1>7. QED
  BY <1>5, <1>6

LEMMA SetCurrentStep ==
    ASSUME LInv, NEW t \in Threads, SetCurrent(t)
    PROVE  LInv'
<1>0. PICK f, q : f = Top(t) /\ q = stack[t]
  OBVIOUS
<1>1. /\ Is(t, "assigning") /\ current_def' = f.of /\ terminate(t, f.with)
      /\ UNCHANGED <<made, maps, left, ran, handed>>
  BY <1>0 DEF SetCurrent
<1>2. /\ Typed /\ Stacks /\ stack \in [Threads -> Seq(Frame)]
      /\ current_def \in Numbers /\ handed \in SUBSET Numbers /\ Firer \in Threads /\ Viewed \in Lifetimes
      /\ Numbers \ {Eternal} = Lifetimes
  BY Known DEF LInv, Typed
<1>3. "assigning" \in Places
  BY DEF Places
<1>4. /\ q \in Seq(Frame) /\ q # <<>> /\ TopMeant(q) /\ Shaped(t, q)
      /\ f = Head(q) /\ f \in Frame /\ f.at = "assigning"
  BY <1>0, <1>1, <1>2, <1>3, OnTop
<1>5. f.of \in Numbers /\ f.with \in Numbers /\ Sets(q, f) /\ q[1] = f
  BY <1>4, Pop DEF Frame, TopMeant
<1>6. PICK r \in Seq(Frame) :
         /\ stack' = [stack EXCEPT ![t] = r] /\ Shaped(t, r) /\ TopMeant(r)'
         /\ \A place \in {"terminating", "running"} : \A k : Has(stack[t], place, k) => Has(r, place, k)
         /\ terminated' \in [Lifetimes -> BOOLEAN] /\ Ends
         /\ f.with # Eternal => terminated'[f.with]
         /\ r # <<>> => Head(r).at \in Ground \cup {"running", "terminating"}
         /\ Len(stack[t]) = 1 => Bottom(r) \in {"none", "terminating"}
         /\ Len(stack[t]) # 1 => Bottom(r) = Bottom(stack[t]) /\ r[Len(r)] = stack[t][Len(stack[t])]
  BY <1>1, <1>5, Ending
<1>7. Alive' \subseteq Alive \ {f.with}
  BY <1>1, <1>2, <1>6 DEF Alive, Ends
<1>8. /\ terminated[Viewed] => terminated'[Viewed]
      /\ Eternal \in handed' => terminated'[Viewed]
  BY <1>1, <1>2, <1>6 DEF LInv, Values, Ends
<1>9. Values'
  <2> DEFINE b == stack[Firer]
  <2>1. /\ \A h, k \in Alive : h = k
        /\ Bottom(b) = "firing" /\ Setting(b, "setting") =>
              \A u \in Threads : Is(u, "assigning") => Alive \subseteq {Top(u).with}
        /\ Bottom(b) = "firing" /\ Setting(b, "assigning") => Alive \subseteq {b[1].with}
        /\ Bottom(b) = "firing" /\ ~Setting(b, "setting") /\ ~Setting(b, "assigning") => Alive = {}
        /\ Bottom(b) \in {"making", "handing"} => Alive = {}
    BY DEF LInv, Values
  <2> HIDE DEF b
  <2>2. Len(q) = 2 => 2 \in 1 .. Len(q) /\ 2 = Len(q)
    OBVIOUS
  <2>3. Len(q) = 2 /\ q[2].at \in Ground => t = Firer
    BY <2>2, <1>4 DEF Shaped
  <2>4. CASE t # Firer
    <3>1. f.of = Eternal /\ terminated[Viewed]
      BY <2>3, <2>4, <1>5 DEF Sets, Ground
    <3>2. stack'[Firer] = b
      BY <1>2, <1>6, <2>4 DEF b
    <3>3. Bottom(b) = "firing" /\ Setting(b, "setting") => Alive' = {}
      <4>1. Bottom(b) = "firing" /\ Setting(b, "setting") => Alive \subseteq {f.with}
        BY <2>1, <1>0, <1>1
      <4>2. QED
        BY <4>1, <1>7
    <3>4. Bottom(b) = "firing" /\ Setting(b, "assigning") => Alive' \subseteq {b[1].with}
      BY <2>1, <1>7
    <3>5. /\ Bottom(b) = "firing" /\ ~Setting(b, "setting") /\ ~Setting(b, "assigning") => Alive' = {}
          /\ Bottom(b) \in {"making", "handing"} => Alive' = {}
          /\ \A h, k \in Alive' : h = k
      BY <2>1, <1>7
    <3>6. QED
      BY <3>1, <3>2, <3>3, <3>4, <3>5, <1>1, <1>8 DEF Values, Bottom, Setting
  <2>5. CASE t = Firer
    <3>1. stack'[Firer] = r /\ b = q
      BY <1>0, <1>2, <1>6, <2>5 DEF b
    <3>2. ~Setting(r, "setting") /\ ~Setting(r, "assigning")
      <4>1. r # <<>> => Head(r) = r[1]
        BY Pop
      <4>2. r = <<>> => Len(r) = 0
        OBVIOUS
      <4>3. Len(r) = 2 => r[1].at \in Ground \cup {"running", "terminating"}
        BY <4>1, <4>2, <1>6
      <4>4. QED
        BY <4>3 DEF Setting, Ground
    <3>3. CASE Bottom(q) \notin Ground
      <4>1. Bottom(r) \notin Ground
        BY <3>3, <1>0, <1>6 DEF Ground
      <4>2. Len(q) = 2 => Bottom(q) = q[2].at
        BY <1>4, <2>2 DEF Bottom
      <4>3. terminated[Viewed]
        BY <4>2, <3>3, <1>5 DEF Sets, Ground
      <4>4. \A h, k \in Alive' : h = k
        BY <2>1, <1>7
      <4>5. QED
        BY <3>1, <4>1, <4>3, <4>4, <1>8 DEF Values, Bottom, Setting, Ground
    <3>4. CASE Bottom(q) \in Ground
      <4>1. Len(q) = 1 => Bottom(q) = "assigning"
        BY <1>4, <1>5 DEF Bottom
      <4>2. Bottom(r) = Bottom(q) /\ r[Len(r)] = q[Len(q)]
        BY <4>1, <3>4, <1>0, <1>6 DEF Ground
      <4>3. Alive' = {}
        <5>1. ~Setting(q, "setting")
          BY <1>4, <1>5 DEF Setting
        <5>2. Setting(q, "assigning") /\ Bottom(q) = "firing" => Alive \subseteq {f.with}
          BY <2>1, <3>1, <1>5
        <5>3. Bottom(q) = "firing" => Alive' = {}
          BY <5>1, <5>2, <2>1, <3>1, <1>7
        <5>4. QED
          BY <5>3, <2>1, <3>1, <3>4, <1>7 DEF Ground
      <4>4. Bottom(r) = "handing" =>
               current_def' = r[Len(r)].of \/ (current_def' = Eternal /\ terminated'[Viewed])
        <5>1. Len(q) = 2 => Bottom(q) = q[2].at /\ q[Len(q)] = q[2]
          BY <1>4, <2>2 DEF Bottom
        <5>2. QED
          BY <4>2, <5>1, <1>1, <1>5, <1>8 DEF Sets
      <4>5. QED
        BY <3>1, <4>3, <4>4, <1>8, NoValue
    <3>5. QED
      BY <3>3, <3>4
  <2>6. QED
    BY <2>4, <2>5
<1>10. QED
  BY <1>1, <1>2, <1>5, <1>6, <1>9, Quiet

LEMMA HandStep ==
    ASSUME LInv, NEW t \in Threads, Hand(t)
    PROVE  LInv'
<1>0. PICK f, c : f = Top(t) /\ c = current_def
  OBVIOUS
<1>1. /\ Is(t, "handing") /\ handed' = handed \cup {c} /\ current_def' = c
      /\ (Return(t) /\ UNCHANGED terminated) \/ terminate(t, f.of)
      /\ UNCHANGED <<made, maps, left, ran>>
  BY <1>0 DEF Hand
<1>2. /\ Typed /\ stack \in [Threads -> Seq(Frame)]
      /\ c \in Numbers /\ handed \in SUBSET Numbers /\ Firer \in Threads /\ Viewed \in Lifetimes
      /\ Numbers \ {Eternal} = Lifetimes /\ Eternal \notin Lifetimes /\ Eternal \in Numbers
  BY <1>0, Known DEF LInv, Typed
<1>3. "handing" \in Ground /\ "handing" \in {"assigning", "handing"}
  BY DEF Ground
<1>4. /\ t = Firer /\ Len(stack[t]) = 1 /\ f = stack[t][1] /\ f.of \in Lifetimes
      /\ Bottom(stack[Firer]) = "handing" /\ \A x : ~Setting(stack[Firer], x)
  BY <1>0, <1>1, <1>3, Grounded
<1>5. /\ Alive = {} /\ (Eternal \in handed => terminated[Viewed])
      /\ c = f.of \/ (c = Eternal /\ terminated[Viewed])
  <2>1. /\ Alive = {} /\ (Eternal \in handed => terminated[Viewed])
        /\ current_def = stack[Firer][Len(stack[Firer])].of \/ (current_def = Eternal /\ terminated[Viewed])
    BY <1>4 DEF LInv, Values
  <2>2. stack[Firer][Len(stack[Firer])] = f
    BY <1>4
  <2>3. QED
    BY <1>0, <2>1, <2>2
<1>6. PICK l \in Numbers : terminate(t, l)
  <2>1. CASE Return(t) /\ UNCHANGED terminated
    BY <1>2, <2>1 DEF terminate
  <2>2. CASE terminate(t, f.of)
    BY <1>2, <1>4, <2>2
  <2>3. QED
    BY <1>1, <2>1, <2>2
<1>7. PICK r \in Seq(Frame) :
         /\ stack' = [stack EXCEPT ![t] = r] /\ Shaped(t, r) /\ TopMeant(r)'
         /\ \A place \in {"terminating", "running"} : \A k : Has(stack[t], place, k) => Has(r, place, k)
         /\ terminated' \in [Lifetimes -> BOOLEAN] /\ Ends
         /\ Len(stack[t]) = 1 => Bottom(r) \in {"none", "terminating"}
  BY <1>1, <1>3, <1>6, Ending
<1>8. Values'
  <2>1. Alive' \subseteq {c}
    BY <1>1, <1>2, <1>5, <1>7 DEF Alive, Ends
  <2>2. Eternal \in handed' => terminated'[Viewed]
    BY <1>1, <1>2, <1>4, <1>5, <1>7 DEF Ends
  <2>3. stack'[Firer] = r /\ Bottom(r) \notin Ground
    BY <1>2, <1>4, <1>7 DEF Ground
  <2>4. \A h, k \in Alive' : h = k
    BY <2>1
  <2> HIDE DEF Alive
  <2>5. QED
    BY <1>1, <2>1, <2>2, <2>3, <2>4 DEF Values, Bottom, Setting, Ground
<1>9. handed' \in SUBSET Numbers /\ current_def' \in Numbers
  BY <1>1, <1>2
<1>10. QED
  BY <1>1, <1>7, <1>8, <1>9, Quiet

-----------------------------------------------------------------------------
(* The invariant.                                                          *)

LEMMA LInit == Init => LInv
<1> SUFFICES ASSUME Init PROVE LInv
  OBVIOUS
<1> USE DEF Init
<1>1. /\ MaxLifetimes \in Nat /\ Viewed \in Lifetimes /\ Firer \in Threads
      /\ 0 \in Numbers /\ 1 \in 1 .. MaxLifetimes
  BY LifetimesAssumption DEF Viewed, Lifetimes, Numbers
<1> DEFINE a == Do("reset", 0, 0)
<1>2. a \in Action /\ a.do = "reset"
  BY <1>1 DEF Do, Action
<1> HIDE DEF a
<1>3. <<a>> \in Seq(Action) /\ Len(<<a>>) = 1 /\ <<a>>[1] = a /\ <<>> \in Seq(Action)
  BY <1>2
<1>4. Typed
  <2>1. what \in [Lifetimes -> Seq(Action)]
    BY <1>3 DEF a
  <2>2. /\ actions \in [Lifetimes -> SUBSET Nat] /\ left \in [Lifetimes -> SUBSET Nat]
        /\ removed \in [Lifetimes -> SUBSET Nat] /\ ran \in [Lifetimes -> Seq(Nat)]
        /\ terminated \in [Lifetimes -> BOOLEAN] /\ action_id_in_map \in [Lifetimes -> Nat]
    OBVIOUS
  <2>3. stack \in [Threads -> Seq(Frame)]
    OBVIOUS
  <2>4. QED
    BY <1>1, <2>1, <2>2, <2>3 DEF Typed, Eternal
<1>5. ASSUME NEW l \in Lifetimes PROVE Kept(l)
  <2>1. /\ terminated[l] = FALSE /\ left[l] = {} /\ ran[l] = <<>> /\ removed[l] = {} /\ Len(ran[l]) = 0
    OBVIOUS
  <2>2. RanIds(l) = {}
    <3>1. 1 .. 0 = {}
      OBVIOUS
    <3>2. QED
      BY <2>1, <3>1 DEF RanIds
  <2>3. What(l)
    <3>1. CASE l = Viewed
      <4>1. what[l] = <<a>> /\ action_id_in_map[l] = 1
        BY <3>1 DEF a
      <4>2. \A i \in 1 .. 1 : i = 1
        OBVIOUS
      <4>3. QED
        BY <3>1, <4>1, <4>2, <1>2, <1>3 DEF What, Meant
    <3>2. CASE l # Viewed
      <4>1. what[l] = <<>> /\ action_id_in_map[l] = 0 /\ Len(<<>>) = 0
        BY <3>2
      <4>2. QED
        BY <4>1 DEF What
    <3>3. QED
      BY <3>1, <3>2
  <2>4. Accounts(l)
    <3>1. actions[l] = Ids(l)
      <4>1. CASE l = Viewed
        <5>1. actions[l] = {0} /\ action_id_in_map[l] = 1
          BY <4>1
        <5>2. 0 .. 1 - 1 = {0}
          OBVIOUS
        <5>3. QED
          BY <5>1, <5>2 DEF Ids
      <4>2. CASE l # Viewed
        <5>1. actions[l] = {} /\ action_id_in_map[l] = 0
          BY <4>2
        <5>2. QED
          BY <5>1 DEF Ids
      <4>3. QED
        BY <4>1, <4>2
    <3>2. QED
      BY <2>1, <2>2, <3>1 DEF Accounts
  <2>5. Once(l) /\ Reverse(l) /\ OnItsWay(l) /\ NestedOver(l)
    BY <2>1, <2>2 DEF Once, Reverse, OnItsWay, NestedOver
  <2>6. QED
    BY <2>3, <2>4, <2>5 DEF Kept
<1>6. Stacks
  <2> SUFFICES ASSUME NEW t \in Threads PROVE Shaped(t, stack[t]) /\ TopMeant(stack[t])
    BY DEF Stacks
  <2>1. stack[t] = <<>> /\ Len(stack[t]) = 0
    OBVIOUS
  <2>2. QED
    BY <2>1 DEF Shaped, TopMeant
<1>7. Values
  <2>1. stack[Firer] = <<>> /\ Alive = {}
    BY <1>1 DEF Alive
  <2>2. QED
    BY <2>1 DEF Values, Bottom, Ground
<1>8. QED
  BY <1>4, <1>5, <1>6, <1>7 DEF LInv

LEMMA LSteps == LInv /\ [Next]_vars => LInv'
<1> SUFFICES ASSUME LInv, [Next]_vars PROVE LInv'
  OBVIOUS
<1>1. ASSUME NEW t \in Threads, Begin(t) PROVE LInv'
  <2>1. ASSUME NEW l \in Lifetimes, AddAction(t, l) PROVE LInv'
    BY <2>1, AddActionStep
  <2>2. ASSUME NEW l \in Lifetimes, BracketOpen(t, l) PROVE LInv'
    BY <2>2, BracketOpenStep
  <2>3. ASSUME NEW l \in Lifetimes, Terminate(t, l) PROVE LInv'
    BY <2>3, TerminateStep
  <2>4. ASSUME NEW l \in Lifetimes, NewNested(t, l) PROVE LInv'
    BY <2>4, NewNestedStep
  <2>5. ASSUME NEW l \in Lifetimes, NEW id \in 0 .. MaxAdds + MaxLifetimes, RemoveAction(t, l, id) PROVE LInv'
    BY <2>5, RemoveActionStep
  <2>6. CASE FireBefore(t)
    BY <2>6, FireBeforeStep
  <2>7. QED
    BY <1>1, <2>1, <2>2, <2>3, <2>4, <2>5, <2>6 DEF Begin
<1>2. ASSUME NEW t \in Threads, Step(t) PROVE LInv'
  BY <1>2, BracketCloseStep, TakeStep, RunActionStep, TerminatedStep, EraseStep, LinkStep,
     FireAfterStep, nextStep, ReadCurrentStep, SetCurrentStep, HandStep DEF Step
<1>3. CASE UNCHANGED vars
  <2>1. Typed /\ (\A l \in Lifetimes : Kept(l))
    BY DEF LInv
  <2>2. UNCHANGED <<made, maps, runs, view, adds, stack>>
    BY <1>3 DEF vars
  <2>3. Typed'
    BY <2>1, <2>2 DEF Typed, maps, runs, view
  <2>4. Grows /\ Ends
    BY <2>1, <2>2, SameGrows DEF Ends, maps, runs
  <2>5. \A l \in Lifetimes : Kept(l)'
    BY <2>1, <2>2, <2>4, Untouched, StayInPlace DEF runs
  <2>6. QED
    BY <2>2, <2>3, <2>4, <2>5, Stands DEF LInv
<1>4. QED
  BY <1>1, <1>2, <1>3 DEF Next

-----------------------------------------------------------------------------
(* The properties.                                                         *)

\* Whoever has a place in the stack for a termination is in it.
LEMMA IsInTermination ==
    ASSUME NEW l, In("terminating", l) \/ In("running", l)
    PROVE  InTermination(l)
BY DEF In, Has, InTermination

LEMMA LifetimesKeep ==
    ASSUME LInv
    PROVE  EachRunsOrIsRemoved /\ RunInReverse /\ NestedEndWithParent /\ OneValueAlive
<1>1. Made \subseteq Lifetimes
  BY Known DEF LInv
<1>2. ASSUME NEW l \in Made \ torn
      PROVE  /\ RanIds(l) \cap removed[l] = {}
             /\ Ended(l) => RanIds(l) \cup removed[l] = Ids(l)
             /\ \A i, j \in 1 .. Len(ran[l]) : i < j => ran[l][i] > ran[l][j]
  <2>1. Accounts(l) /\ OnItsWay(l) /\ Reverse(l)
    BY <1>1 DEF LInv, Kept
  <2>2. Ended(l) => actions[l] = {} /\ left[l] = {}
    BY <2>1, IsInTermination DEF Ended, OnItsWay
  <2>3. QED
    BY <2>1, <2>2 DEF Accounts, Reverse
<1>3. ASSUME NEW p \in Made \ torn, Ended(p), NEW i \in Ids(p), what[p][i + 1].do = "terminate"
      PROVE  terminated[what[p][i + 1].of]
  <2>1. i \in RanIds(p) \cup removed[p] /\ NestedOver(p)
    BY <1>1, <1>2, <1>3 DEF LInv, Kept
  <2>2. QED
    BY <1>3, <2>1 DEF NestedOver
<1>4. OneValueAlive
  BY DEF LInv, Values, Alive, OneValueAlive
<1>5. QED
  BY <1>2, <1>3, <1>4 DEF EachRunsOrIsRemoved, RunInReverse, NestedEndWithParent

LEMMA LAlways == Spec => []LInv
<1>1. Init => LInv
  BY LInit
<1>2. LInv /\ [Next]_vars => LInv'
  BY LSteps
<1>3. QED
  BY <1>1, <1>2, PTL DEF Spec

\* Every action that a lifetime accepts runs or is removed, and never both,
\* whatever other threads add, remove or terminate meanwhile.
THEOREM ActionsCorrect == Spec => []EachRunsOrIsRemoved
<1>1. LInv => EachRunsOrIsRemoved
  BY LifetimesKeep
<1>2. QED
  BY <1>1, LAlways, PTL

\* The actions of a lifetime run from the last added to the first, each once.
THEOREM ReverseCorrect == Spec => []RunInReverse
<1>1. LInv => RunInReverse
  BY LifetimesKeep
<1>2. QED
  BY <1>1, LAlways, PTL

\* When the termination of a lifetime is over, all that was nested in it has
\* been terminated.
THEOREM NestingCorrect == Spec => []NestedEndWithParent
<1>1. LInv => NestedEndWithParent
  BY LifetimesKeep
<1>2. QED
  BY <1>1, LAlways, PTL

\* Of the lifetimes that the handler of view was given, one at most is alive,
\* and the eternal one is given only when the view has ended.
THEOREM ValuesCorrect == Spec => []OneValueAlive
<1>1. LInv => OneValueAlive
  BY LifetimesKeep
<1>2. QED
  BY <1>1, LAlways, PTL
=============================================================================
