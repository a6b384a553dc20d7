-------------------------- MODULE Connections_proofs --------------------------
(***************************************************************************)
(* What is proved of the parts that come and go with a connection: the     *)
(* calls, the extensions and the plugin's models.                          *)
(*                                                                         *)
(* What waits somewhere stands there in order: the models to connect in    *)
(* the scheduler's queue, what an extension sends in its queue and on the  *)
(* wire.  Ordered and Covers say so of a sequence and a range of numbers.  *)
(***************************************************************************)
EXTENDS Integers, Sequences, SequenceTheorems, TLAPS

CONSTANTS MaxCalls, MaxConnections, MaxEvents, MaxSends, MaxBinds

VARIABLES
    made, is_sync, held, result, sync_task_id, caller, requests, working,
    responses, queue, setting, ended, actions, used_dead, threw, refused,
    connection, wire_at, main_queue, connecting, EditorModel, bound_models, with_end,
    RdIsModelAlive, viewing, GameControl, events, firing, used_dead_model,
    bound, binds, connected, flushing, sendQ, sending, sent, realWire, received

Call == INSTANCE RdCall
Link == INSTANCE RiderLink WITH used_dead <- used_dead_model
Ext == INSTANCE ExtWire

-----------------------------------------------------------------------------
(* Numbers in a sequence.  The elements in P have the numbers F.           *)

\* They are after m up to n, in their order, ...
Ordered(q, P, F, m, n) ==
    \A i \in 1 .. Len(q) : q[i] \in P =>
        /\ m < F[q[i]] /\ F[q[i]] =< n
        /\ \A j \in 1 .. Len(q) : i < j /\ q[j] \in P => F[q[i]] < F[q[j]]

\* ... and none is missing.
Covers(q, P, F, m, n) == \A c \in m + 1 .. n : \E i \in 1 .. Len(q) : q[i] \in P /\ F[q[i]] = c

-----------------------------------------------------------------------------
(* The calls.                                                              *)

Results == [task : Call!Tasks, result : {"success", "fault", "cancelled"}]

CallTypeOK ==
    /\ made \in Nat
    /\ is_sync \subseteq Call!Tasks /\ held \subseteq Call!Tasks /\ actions \subseteq Call!Tasks
    /\ result \in [Call!Tasks -> {"none", "success", "fault", "cancelled"}]
    /\ requests \in Seq(Call!Tasks) /\ working \subseteq Call!Tasks
    /\ responses \in Seq(Results) /\ queue \in Seq(Results)
    /\ setting \in [Call!Setters -> Results \cup {Call!Nothing}]

\* A task that is held has a result, or is about to have one, or the end of
\* the lifetime will see to it.
Attended ==
    \A i \in held : i \in actions \/ result[i] # "none" \/ setting["ender"].task = i

\* A synchronous call is in progress, or has thrown and left its task behind.
SyncKnown ==
    /\ sync_task_id # Call!Nobody => caller = sync_task_id \/ threw
    /\ refused => threw

CallInv == CallTypeOK /\ Attended /\ SyncKnown

-----------------------------------------------------------------------------
(* The models of the plugin.                                               *)

LinkTasks == [do : {"connect", "end", "view", "action"}, of : Nat]
Connects == {t \in LinkTasks : t.do = "connect"}
EndTasks == {t \in LinkTasks : t.do = "end"}

LinkTypeOK ==
    /\ connection \in Nat /\ EditorModel \in 0 .. connection
    /\ GameControl \in Nat
    /\ firing \in [of : Nat, at : {"no", "fire", "send"}]
    /\ wire_at \in {"connected", "terminating", "unbinding", "disconnected"}
    /\ connecting \in {"no", "adding", "setting"}

Of == [t \in LinkTasks |-> t.of]

\* The end of a model is before the next one, or the connection is over.
EndsFollow(q, over) ==
    \A i \in 1 .. Len(q) : q[i] \in EndTasks =>
        over \/ \E j \in 1 .. Len(q) : i < j /\ q[j] \in Connects

\* The next thing to come, of the two, is an end.
EndComes(q) ==
    \E i \in 1 .. Len(q) : q[i] \in EndTasks /\ \A j \in 1 .. Len(q) : j < i => q[j] \notin Connects

Over == wire_at \in {"unbinding", "disconnected"}

\* A model that is alive is the one of the connection, or its end comes before
\* the next model.
Heard ==
    RdIsModelAlive = "true" \/ connecting = "setting" =>
        /\ EditorModel \in with_end
        /\ (EditorModel = connection /\ ~Over) \/ EndComes(main_queue)

\* The model of the connection is alive, or will be.
Alive ==
    EditorModel = connection /\ wire_at = "connected" =>
        connecting # "no" \/ RdIsModelAlive = "true"

Controls ==
    /\ firing.of # Link!Null => firing.of = EditorModel
    /\ GameControl # Link!Null => GameControl = EditorModel /\ RdIsModelAlive = "true"
    /\ viewing = "yes" /\ RdIsModelAlive = "true" => GameControl = EditorModel

\* What is to be connected, in its order.
Queued ==
    /\ main_queue \in Seq(LinkTasks)
    /\ Ordered(main_queue, Connects, Of, EditorModel, connection)
    /\ Covers(main_queue, Connects, Of, EditorModel, connection)

LinkInv == LinkTypeOK /\ Queued /\ EndsFollow(main_queue, Over) /\ Heard /\ Alive /\ Controls

-----------------------------------------------------------------------------
(* The extensions.                                                         *)

States == [kind : {"Ready", "ReceivedCounterpart", "Disconnected"}, number : {0}]
Payloads == [kind : {"payload"}, number : Nat]
ExtMessages == States \cup Payloads

ExtTypeOK ==
    /\ bound \in [Ext!Ends -> BOOLEAN] /\ connected \in [Ext!Ends -> BOOLEAN]
    /\ flushing \in [Ext!Ends -> BOOLEAN]
    /\ binds \in [Ext!Ends -> Nat] /\ sent \in [Ext!Ends -> Nat] /\ sending \in [Ext!Ends -> Nat]
    /\ sendQ \in [Ext!Ends -> Seq(Nat)] /\ received \in [Ext!Ends -> Seq(Nat)]
    /\ realWire \in [Ext!Ends -> Seq(ExtMessages)]

\* What the last state on its way says, or what the end knows if there is none.
WillConnect(q, b) ==
    IF \E i \in 1 .. Len(q) : q[i] \in States
    THEN \A i \in 1 .. Len(q) :
            q[i] \in States /\ (\A j \in 1 .. Len(q) : i < j => q[j] \notin States)
                => q[i].kind # "Disconnected"
    ELSE b
Readies(q) == \E i \in 1 .. Len(q) : q[i] = Ext!State("Ready")

\* When both are bound an end is or will be connected, or will be answered.
Meet(s) == (\A e \in Ext!Ends : bound[e]) =>
    WillConnect(realWire[s], connected[s]) \/ Readies(realWire[Ext!Other(s)])

Flushed(s) == connected[s] /\ ~flushing[s] => sendQ[s] = <<>>

Number == [p \in ExtMessages |-> p.number]
Same == [n \in Nat |-> n]

\* What is sent has been received, or is on its way, or waits, in this order:
\* r, q, and x or w, of N.
Pipe(r, q, x, w, N) ==
    /\ x # 0 => x = N /\ w = <<>>
    /\ \E m, n \in Nat :
          /\ m =< n /\ (IF x = 0 THEN n =< N ELSE n < N)
          /\ Ordered(r, Nat, Same, 0, m)
          /\ Ordered(q, Payloads, Number, m, n)
          /\ Ordered(w, Nat, Same, n, N)

\* And none is missing.
Gone(x, w, N) == N - Len(w) - (IF x = 0 THEN 0 ELSE 1)
Whole(r, q, x, w, N) ==
    /\ Len(r) =< Gone(x, w, N)
    /\ \A i \in 1 .. Len(r) : r[i] = i
    /\ Ordered(q, Payloads, Number, Len(r), Gone(x, w, N))
    /\ Covers(q, Payloads, Number, Len(r), Gone(x, w, N))
    /\ \A i \in 1 .. Len(w) : w[i] = Gone(x, w, N) + i

\* An end that has not been bound has sent nothing and heard nothing, and the
\* other end has not found it.
Untouched(s) == binds[s] = 0 =>
    /\ ~bound[s] /\ ~connected[s] /\ ~flushing[s]
    /\ sent[s] = 0 /\ sending[s] = 0 /\ sendQ[s] = <<>>
    /\ realWire[Ext!Other(s)] = <<>> /\ received[s] = <<>>
    /\ ~connected[Ext!Other(s)] /\ ~flushing[Ext!Other(s)] /\ sending[Ext!Other(s)] = 0
    /\ \A i \in 1 .. Len(realWire[s]) : realWire[s][i] \notin Payloads

PipeOf(s) ==
    Pipe(received[Ext!Other(s)], realWire[Ext!Other(s)], sending[s], sendQ[s], sent[s])
WholeOf(s) ==
    Whole(received[Ext!Other(s)], realWire[Ext!Other(s)], sending[s], sendQ[s], sent[s])

EndInv(s) ==
    /\ Meet(s) /\ Flushed(s) /\ PipeOf(s)
    /\ Ext!NoneUnbound => Untouched(s) /\ WholeOf(s)

ExtInv == ExtTypeOK /\ \A s \in Ext!Ends : EndInv(s)

-----------------------------------------------------------------------------
(* Sequences.                                                              *)

LEMMA Joined ==
    ASSUME NEW T, NEW p \in Seq(T), NEW q \in Seq(T)
    PROVE  /\ p \o q \in Seq(T)
           /\ Len(p) \in Nat /\ Len(q) \in Nat
           /\ Len(p \o q) = Len(p) + Len(q)
           /\ \A i \in 1 .. Len(p) : (p \o q)[i] = p[i]
           /\ \A i \in 1 .. Len(q) : (p \o q)[Len(p) + i] = q[i]
           /\ \A i \in 1 .. Len(p \o q) : i \in 1 .. Len(p) \/
                 (i - Len(p) \in 1 .. Len(q) /\ (p \o q)[i] = q[i - Len(p)] /\ i > Len(p))
<1>1. p \o q \in Seq(T) /\ Len(p \o q) = Len(p) + Len(q) /\ Len(p) \in Nat /\ Len(q) \in Nat
  OBVIOUS
<1>2. \A i \in 1 .. Len(p) + Len(q) :
        (p \o q)[i] = IF i =< Len(p) THEN p[i] ELSE q[i - Len(p)]
  BY <1>1
<1>3. \A i \in 1 .. Len(p) : (p \o q)[i] = p[i]
  BY <1>1, <1>2
<1>4. ASSUME NEW i \in 1 .. Len(q) PROVE (p \o q)[Len(p) + i] = q[i]
  <2> DEFINE k == Len(p) + i
  <2>1. k \in 1 .. Len(p) + Len(q) /\ ~(k =< Len(p)) /\ k - Len(p) = i
    BY <1>1
  <2> HIDE DEF k
  <2>2. (p \o q)[k] = q[i]
    BY <2>1, <1>2
  <2>3. QED
    BY <2>2 DEF k
<1>5. ASSUME NEW i \in 1 .. Len(p \o q), i \notin 1 .. Len(p)
      PROVE  i - Len(p) \in 1 .. Len(q) /\ (p \o q)[i] = q[i - Len(p)] /\ i > Len(p)
  BY <1>1, <1>2, <1>5
<1>6. QED
  BY <1>1, <1>3, <1>4, <1>5

LEMMA First ==
    ASSUME NEW T, NEW q \in Seq(T), q # <<>>
    PROVE  /\ Head(q) = q[1] /\ Head(q) \in T
           /\ Tail(q) \in Seq(T)
           /\ Len(q) \in Nat /\ Len(q) >= 1
           /\ Len(Tail(q)) = Len(q) - 1
           /\ \A i \in 1 .. Len(q) - 1 : Tail(q)[i] = q[i + 1]
<1>1. Len(q) \in Nat /\ Len(q) >= 1
  OBVIOUS
<1>2. Head(q) = q[1] /\ Head(q) \in T /\ Tail(q) \in Seq(T) /\ Len(Tail(q)) = Len(q) - 1
  BY <1>1
<1>3. \A i \in 1 .. Len(q) - 1 : Tail(q)[i] = q[i + 1]
  BY <1>1
<1>4. QED
  BY <1>1, <1>2, <1>3

LEMMA Appended ==
    ASSUME NEW T, NEW q \in Seq(T), NEW e \in T
    PROVE  /\ Append(q, e) = q \o <<e>>
           /\ Append(q, e) \in Seq(T) /\ <<e>> \in Seq(T) /\ Len(<<e>>) = 1 /\ <<e>>[1] = e
           /\ Len(q) \in Nat /\ Len(Append(q, e)) = Len(q) + 1
           /\ \A i \in 1 .. Len(q) : Append(q, e)[i] = q[i]
           /\ Append(q, e)[Len(q) + 1] = e
<1>1. /\ Append(q, e) \in Seq(T) /\ <<e>> \in Seq(T) /\ Len(<<e>>) = 1 /\ <<e>>[1] = e
      /\ Len(q) \in Nat /\ Len(Append(q, e)) = Len(q) + 1
  OBVIOUS
<1>2. Append(q, e) = q \o <<e>>
  OBVIOUS
<1>3. \A i \in 1 .. Len(q) : Append(q, e)[i] = q[i]
  OBVIOUS
<1>4. Append(q, e)[Len(q) + 1] = e
  OBVIOUS
<1>5. QED
  BY <1>1, <1>2, <1>3, <1>4

LEMMA NoNumbers ==
    ASSUME NEW P, NEW F, NEW m, NEW n \in Nat
    PROVE  Ordered(<<>>, P, F, m, n) /\ Covers(<<>>, P, F, n, n)
<1>1. Len(<<>>) = 0
  BY EmptySeq
<1>2. n + 1 .. n = {}
  OBVIOUS
<1>3. QED
  BY <1>1, <1>2 DEF Ordered, Covers

LEMMA OneNumber ==
    ASSUME NEW T, NEW P, NEW F \in [T -> Nat], NEW e \in T, NEW m \in Nat, NEW n \in Nat,
           e \in P => m < F[e] /\ F[e] =< n
    PROVE  /\ Ordered(<<e>>, P, F, m, n)
           /\ (e \notin P /\ m = n) \/ (e \in P /\ n = m + 1) => Covers(<<e>>, P, F, m, n)
<1>1. Len(<<e>>) = 1 /\ <<e>>[1] = e /\ F[e] \in Nat
  OBVIOUS
<1> DEFINE q == <<e>>
<1> HIDE DEF q
<1>2. \A i \in 1 .. Len(q) : i = 1 /\ q[i] = e
  BY <1>1 DEF q
<1>3. Ordered(q, P, F, m, n)
  BY <1>2 DEF Ordered
<1>4. ASSUME (e \notin P /\ m = n) \/ (e \in P /\ n = m + 1), NEW c \in m + 1 .. n
      PROVE  \E i \in 1 .. Len(q) : q[i] \in P /\ F[q[i]] = c
  <2>1. e \in P /\ F[e] = c
    BY <1>1, <1>4
  <2>2. 1 \in 1 .. Len(q) /\ q[1] = e
    BY <1>1 DEF q
  <2>3. QED
    BY <2>1, <2>2
<1>5. QED
  BY <1>3, <1>4 DEF Covers, q

LEMMA NumbersJoined ==
    ASSUME NEW T, NEW P, NEW F \in [T -> Nat], NEW p \in Seq(T), NEW q \in Seq(T),
           NEW m \in Nat, NEW n \in Nat, NEW k \in Nat, m =< n, n =< k,
           Ordered(p, P, F, m, n), Ordered(q, P, F, n, k)
    PROVE  /\ Ordered(p \o q, P, F, m, k)
           /\ Covers(p, P, F, m, n) /\ Covers(q, P, F, n, k) => Covers(p \o q, P, F, m, k)
<1> DEFINE r == p \o q
           a == Len(p)
           b == Len(q)
<1>1. /\ a \in Nat /\ b \in Nat /\ Len(r) = a + b
      /\ \A i \in 1 .. a : r[i] = p[i] /\ p[i] \in T
      /\ \A i \in 1 .. b : r[a + i] = q[i] /\ q[i] \in T
      /\ \A i \in 1 .. Len(r) : i \in 1 .. a \/
            (i - a \in 1 .. b /\ r[i] = q[i - a] /\ i > a)
  BY Joined
<1>2. Ordered(p, P, F, m, n) /\ Ordered(q, P, F, n, k)
  OBVIOUS
<1> HIDE DEF r, a, b
<1>3. ASSUME NEW i \in 1 .. Len(r), r[i] \in P
      PROVE  /\ m < F[r[i]] /\ F[r[i]] =< k
             /\ \A j \in 1 .. Len(r) : i < j /\ r[j] \in P => F[r[i]] < F[r[j]]
  <2>1. CASE i \in 1 .. a
    <3>1. F[p[i]] \in Nat /\ r[i] = p[i] /\ m < F[p[i]] /\ F[p[i]] =< n
      BY <1>1, <1>2, <1>3, <2>1 DEF Ordered, a
    <3>2. ASSUME NEW j \in 1 .. Len(r), i < j, r[j] \in P PROVE F[r[i]] < F[r[j]]
      <4>1. CASE j \in 1 .. a
        BY <1>1, <1>2, <1>3, <2>1, <3>2, <4>1 DEF Ordered, a
      <4>2. CASE j \notin 1 .. a
        <5>1. PICK l : l = j - a
          OBVIOUS
        <5>2. l \in 1 .. b /\ r[j] = q[l] /\ F[q[l]] \in Nat
          BY <1>1, <4>2, <5>1
        <5>3. n < F[q[l]]
          BY <1>2, <3>2, <5>2 DEF Ordered, b
        <5>4. QED
          BY <3>1, <5>2, <5>3
      <4>3. QED
        BY <4>1, <4>2
    <3>3. QED
      BY <3>1, <3>2
  <2>2. CASE i \notin 1 .. a
    <3>1. PICK h : h = i - a
      OBVIOUS
    <3>2. h \in 1 .. b /\ r[i] = q[h] /\ F[q[h]] \in Nat /\ i > a
      BY <1>1, <2>2, <3>1
    <3>3. n < F[q[h]] /\ F[q[h]] =< k
      BY <1>2, <1>3, <3>2 DEF Ordered, b
    <3>4. ASSUME NEW j \in 1 .. Len(r), i < j, r[j] \in P PROVE F[r[i]] < F[r[j]]
      <4>1. PICK l : l = j - a
        OBVIOUS
      <4>2. j \notin 1 .. a
        BY <1>1, <3>2, <3>4
      <4>3. l \in 1 .. b /\ r[j] = q[l] /\ h < l
        BY <1>1, <3>1, <3>2, <3>4, <4>1, <4>2
      <4>4. QED
        BY <1>2, <1>3, <3>2, <3>4, <4>3 DEF Ordered, b
    <3>5. QED
      BY <3>2, <3>3, <3>4
  <2>3. QED
    BY <2>1, <2>2
<1>4. ASSUME Covers(p, P, F, m, n), Covers(q, P, F, n, k), NEW c \in m + 1 .. k
      PROVE  \E i \in 1 .. Len(r) : r[i] \in P /\ F[r[i]] = c
  <2>1. CASE c =< n
    <3>0. c \in m + 1 .. n
      BY <2>1
    <3>1. PICK i \in 1 .. a : p[i] \in P /\ F[p[i]] = c
      BY <1>4, <3>0 DEF Covers, a
    <3>2. i \in 1 .. Len(r) /\ r[i] = p[i]
      BY <1>1
    <3>3. QED
      BY <3>1, <3>2
  <2>2. CASE n < c
    <3>0. c \in n + 1 .. k
      BY <1>4, <2>2
    <3>1. PICK i \in 1 .. b : q[i] \in P /\ F[q[i]] = c
      BY <1>4, <3>0 DEF Covers, b
    <3>2. a + i \in 1 .. Len(r) /\ r[a + i] = q[i]
      BY <1>1
    <3>3. QED
      BY <3>1, <3>2
  <2>3. QED
    BY <2>1, <2>2
<1>5. Ordered(r, P, F, m, k)
  BY <1>3 DEF Ordered
<1>6. QED
  BY <1>4, <1>5 DEF Covers, r

\* The first number of those that follow m is more than m, and the next if none
\* is missing; the others follow it.
LEMMA NumbersTaken ==
    ASSUME NEW T, NEW P, NEW F \in [T -> Nat], NEW q \in Seq(T), q # <<>>,
           NEW m \in Nat, NEW n \in Nat, Ordered(q, P, F, m, n)
    PROVE  /\ Head(q) \in T /\ Tail(q) \in Seq(T)
           /\ Head(q) \notin P =>
                 /\ Ordered(Tail(q), P, F, m, n)
                 /\ Covers(q, P, F, m, n) => Covers(Tail(q), P, F, m, n)
           /\ Head(q) \in P =>
                 /\ m < F[Head(q)] /\ F[Head(q)] =< n
                 /\ Ordered(Tail(q), P, F, F[Head(q)], n)
                 /\ Covers(q, P, F, m, n) =>
                       F[Head(q)] = m + 1 /\ Covers(Tail(q), P, F, m + 1, n)
<1> DEFINE r == Tail(q)
           h == Head(q)
           a == Len(q)
<1>1. /\ h = q[1] /\ h \in T /\ r \in Seq(T) /\ a \in Nat /\ a >= 1 /\ Len(r) = a - 1
      /\ \A i \in 1 .. a - 1 : r[i] = q[i + 1]
  BY First
<1>2. /\ \A i \in 1 .. Len(r) : i + 1 \in 1 .. a /\ r[i] = q[i + 1] /\ 1 < i + 1
      /\ \A i \in 1 .. a : i = 1 \/ i - 1 \in 1 .. Len(r)
      /\ \A i \in 1 .. a : q[i] \in T /\ F[q[i]] \in Nat
  BY <1>1
<1>3. \A i \in 1 .. a : i - 1 \in 1 .. Len(r) => r[i - 1] = q[i]
  BY <1>1
<1>4. 1 \in 1 .. a /\ \A i \in 1 .. a : q[i] \in P =>
          /\ m < F[q[i]] /\ F[q[i]] =< n
          /\ \A j \in 1 .. a : i < j /\ q[j] \in P => F[q[i]] < F[q[j]]
  BY <1>1 DEF Ordered
<1> HIDE DEF r, h, a
<1>5. ASSUME NEW i \in 1 .. Len(r), NEW j \in 1 .. Len(r), r[i] \in P, r[j] \in P, i < j
      PROVE  F[r[i]] < F[r[j]]
  <2>1. PICK k \in 1 .. a, l \in 1 .. a : k = i + 1 /\ l = j + 1
    BY <1>2
  <2>2. k < l /\ r[i] = q[k] /\ r[j] = q[l]
    BY <1>2, <1>5, <2>1
  <2>3. QED
    BY <1>4, <1>5, <2>2
<1>6. ASSUME NEW i \in 1 .. Len(r), r[i] \in P
      PROVE  m < F[r[i]] /\ F[r[i]] =< n /\ (h \in P => F[h] < F[r[i]])
  <2>1. PICK k \in 1 .. a : k = i + 1 /\ 1 < k /\ r[i] = q[k]
    BY <1>2
  <2>2. QED
    BY <1>1, <1>4, <1>6, <2>1
<1>7. Ordered(r, P, F, m, n) /\ (h \in P => Ordered(r, P, F, F[h], n))
  BY <1>5, <1>6 DEF Ordered
<1>8. h \in P => m < F[h] /\ F[h] =< n /\ F[h] \in Nat
  BY <1>1, <1>2, <1>4
<1>9. ASSUME Covers(q, P, F, m, n) PROVE h \in P => F[h] = m + 1
  <2> SUFFICES ASSUME h \in P, F[h] # m + 1 PROVE FALSE
    OBVIOUS
  <2>1. m + 1 \in m + 1 .. n /\ m + 1 < F[h]
    BY <1>8
  <2>2. PICK i \in 1 .. a : q[i] \in P /\ F[q[i]] = m + 1
    BY <1>9, <2>1 DEF Covers, a
  <2>3. i # 1
    BY <1>1, <2>2
  <2>4. 1 < i
    BY <2>3
  <2>5. F[h] < F[q[i]]
    BY <1>1, <1>4, <2>2, <2>4
  <2>6. QED
    BY <1>8, <2>1, <2>2, <2>5
<1>10. ASSUME Covers(q, P, F, m, n), NEW c \in m + 1 .. n, h \in P => c # F[h]
       PROVE  \E i \in 1 .. Len(r) : r[i] \in P /\ F[r[i]] = c
  <2>1. PICK i \in 1 .. a : q[i] \in P /\ F[q[i]] = c
    BY <1>10 DEF Covers, a
  <2>2. i # 1
    BY <1>1, <1>10, <2>1
  <2>3. i - 1 \in 1 .. Len(r) /\ r[i - 1] = q[i]
    BY <1>2, <1>3, <2>2
  <2>4. QED
    BY <2>1, <2>3
<1>11. Covers(q, P, F, m, n) =>
          /\ h \notin P => Covers(r, P, F, m, n)
          /\ h \in P => Covers(r, P, F, m + 1, n)
  <2>1. ASSUME Covers(q, P, F, m, n), h \in P, NEW c \in m + 2 .. n
        PROVE  c \in m + 1 .. n /\ c # F[h]
    BY <1>9, <2>1
  <2>2. m + 1 + 1 = m + 2
    OBVIOUS
  <2>3. QED
    BY <1>10, <2>1, <2>2 DEF Covers
<1>12. QED
  BY <1>1, <1>7, <1>8, <1>9, <1>11 DEF r, h

-----------------------------------------------------------------------------
(* The calls.                                                              *)

LEMMA CallInit == Call!Init => CallInv
<1> SUFFICES ASSUME Call!Init PROVE CallInv
  OBVIOUS
<1>1. CallTypeOK
  BY DEF Call!Init, CallTypeOK
<1>2. Attended /\ SyncKnown
  BY DEF Call!Init, Attended, SyncKnown
<1>3. QED
  BY <1>1, <1>2 DEF CallInv

\* The caller's steps.
LEMMA CallerSteps ==
    ASSUME CallInv, MaxCalls \in Nat,
           Call!start \/ Call!sync \/ Call!SyncRefused \/ Call!SyncReturns \/ Call!SyncThrows
              \/ \E i \in Call!Tasks : Call!Drop(i)
    PROVE  CallInv'
<1> USE DEF CallInv
<1>1. CASE Call!start
  <2>1. made + 1 \in Call!Tasks
    BY <1>1 DEF Call!start, CallTypeOK, Call!Tasks
  <2>2. CallTypeOK'
    BY <1>1, <2>1 DEF Call!start, Call!make, Call!task, CallTypeOK
  <2>3. Attended' /\ SyncKnown'
    BY <1>1 DEF Call!start, Call!make, Call!task, Attended, SyncKnown
  <2>4. QED
    BY <2>2, <2>3
<1>2. CASE Call!sync
  <2>1. made + 1 \in Call!Tasks
    BY <1>2 DEF Call!sync, CallTypeOK, Call!Tasks
  <2>2. CallTypeOK'
    BY <1>2, <2>1 DEF Call!sync, Call!make, Call!task, CallTypeOK
  <2>3. Attended' /\ SyncKnown'
    BY <1>2 DEF Call!sync, Call!make, Call!task, Attended, SyncKnown
  <2>4. QED
    BY <2>2, <2>3
<1>3. CASE Call!SyncRefused
  <2>1. CallTypeOK' /\ Attended'
    BY <1>3 DEF Call!SyncRefused, Call!task, CallTypeOK, Attended
  <2>2. threw
    BY <1>3 DEF Call!SyncRefused, SyncKnown, Call!Free
  <2>3. QED
    BY <1>3, <2>1, <2>2 DEF Call!SyncRefused, SyncKnown
<1>4. CASE Call!SyncReturns
  BY <1>4 DEF Call!SyncReturns, CallTypeOK, Attended, SyncKnown
<1>5. CASE Call!SyncThrows
  <2>1. CallTypeOK'
    BY <1>5 DEF Call!SyncThrows, Call!without, CallTypeOK
  <2>2. Attended' /\ SyncKnown'
    BY <1>5 DEF Call!SyncThrows, Call!without, Attended, SyncKnown
  <2>3. QED
    BY <2>1, <2>2
<1>6. ASSUME NEW i \in Call!Tasks, Call!Drop(i) PROVE CallInv'
  <2>1. CallTypeOK'
    BY <1>6 DEF Call!Drop, Call!without, CallTypeOK
  <2>2. Attended' /\ SyncKnown'
    BY <1>6 DEF Call!Drop, Call!without, Attended, SyncKnown
  <2>3. QED
    BY <2>1, <2>2
<1>7. QED
  BY <1>1, <1>2, <1>3, <1>4, <1>5, <1>6

\* The endpoint takes requests and answers.
LEMMA EndpointSteps ==
    ASSUME CallInv, Call!Receive \/ \E i \in Call!Tasks : Call!Answer(i)
    PROVE  CallInv'
<1> USE DEF CallInv
<1>1. CASE Call!Receive
  <2>1. Head(requests) \in Call!Tasks /\ Tail(requests) \in Seq(Call!Tasks)
    BY <1>1, First DEF Call!Receive, CallTypeOK
  <2>2. QED
    BY <1>1, <2>1 DEF Call!Receive, CallTypeOK, Attended, SyncKnown
<1>2. ASSUME NEW i \in Call!Tasks, Call!Answer(i) PROVE CallInv'
  <2>1. PICK r \in {"success", "fault"} : responses' = Append(responses, [task |-> i, result |-> r])
    BY <1>2 DEF Call!Answer
  <2>2. [task |-> i, result |-> r] \in Results
    BY DEF Results
  <2>3. responses' \in Seq(Results)
    BY <2>1, <2>2 DEF CallTypeOK
  <2>4. QED
    BY <1>2, <2>3 DEF Call!Answer, CallTypeOK, Attended, SyncKnown
<1>3. QED
  BY <1>1, <1>2

\* A result is looked at, set or queued.
LEMMA ResultSteps ==
    ASSUME CallInv, Call!ReceiveResponse \/ Call!SetQueued \/ \E t \in Call!Setters : Call!Put(t)
    PROVE  CallInv'
<1> USE DEF CallInv
<1>1. CASE Call!ReceiveResponse
  <2> DEFINE r == Head(responses)
  <2>1. r \in Results /\ Tail(responses) \in Seq(Results)
    BY <1>1, First DEF Call!ReceiveResponse, CallTypeOK
  <2> HIDE DEF r
  <2>2. /\ setting' \in [Call!Setters -> Results \cup {Call!Nothing}] /\ queue' \in Seq(Results)
        /\ setting'["ender"] = setting["ender"]
    <3>1. CASE UNCHANGED setting /\ queue' \in {queue, Append(queue, r)}
      <4>1. queue \in Seq(Results) /\ Append(queue, r) \in Seq(Results)
        BY <2>1 DEF CallTypeOK
      <4>2. queue' \in Seq(Results)
        BY <3>1, <4>1
      <4>3. QED
        BY <3>1, <4>2 DEF CallTypeOK
    <3>2. CASE Call!Look("wire", r) /\ UNCHANGED queue
      BY <2>1, <3>2 DEF Call!Look, CallTypeOK, Call!Setters
    <3>3. QED
      BY <1>1, <3>1, <3>2 DEF Call!ReceiveResponse, r
  <2>3. CallTypeOK'
    BY <1>1, <2>1, <2>2 DEF Call!ReceiveResponse, CallTypeOK
  <2>4. Attended' /\ SyncKnown'
    BY <1>1, <2>2 DEF Call!ReceiveResponse, Attended, SyncKnown
  <2>5. QED
    BY <2>3, <2>4
<1>2. CASE Call!SetQueued
  <2> DEFINE r == Head(queue)
  <2>1. r \in Results /\ Tail(queue) \in Seq(Results)
    BY <1>2, First DEF Call!SetQueued, CallTypeOK
  <2>2. result' \in {result, [result EXCEPT ![r.task] = r.result]}
    BY <1>2 DEF Call!SetQueued
  <2> HIDE DEF r
  <2>3. /\ result' \in [Call!Tasks -> {"none", "success", "fault", "cancelled"}]
        /\ \A i \in Call!Tasks : result[i] # "none" => result'[i] # "none"
    BY <2>1, <2>2 DEF CallTypeOK, Results
  <2>4. CallTypeOK'
    BY <1>2, <2>1, <2>3 DEF Call!SetQueued, CallTypeOK
  <2>5. Attended' /\ SyncKnown'
    BY <1>2, <2>3 DEF Call!SetQueued, Attended, SyncKnown, CallTypeOK
  <2>6. QED
    BY <2>4, <2>5
<1>3. ASSUME NEW t \in Call!Setters, Call!Put(t) PROVE CallInv'
  <2>1. setting[t] \in Results
    BY <1>3 DEF Call!Put, CallTypeOK
  <2>2. /\ result' \in [Call!Tasks -> {"none", "success", "fault", "cancelled"}]
        /\ \A i \in Call!Tasks : result[i] # "none" \/ setting[t].task = i => result'[i] # "none"
    BY <1>3, <2>1 DEF Call!Put, CallTypeOK, Results
  <2>3. /\ setting' \in [Call!Setters -> Results \cup {Call!Nothing}]
        /\ t # "ender" => setting'["ender"] = setting["ender"]
    BY <1>3 DEF Call!Put, CallTypeOK, Call!Setters
  <2>4. CallTypeOK'
    BY <1>3, <2>2, <2>3 DEF Call!Put, CallTypeOK
  <2>5. Attended' /\ SyncKnown'
    BY <1>3, <2>2, <2>3 DEF Call!Put, Attended, SyncKnown, CallTypeOK
  <2>6. QED
    BY <2>4, <2>5
<1>4. QED
  BY <1>1, <1>2, <1>3

\* The lifetime ends, and the tasks without a result are cancelled.
LEMMA EndSteps ==
    ASSUME CallInv, Call!End \/ Call!Cancel
    PROVE  CallInv'
<1> USE DEF CallInv
<1>1. CASE Call!End
  BY <1>1 DEF Call!End, CallTypeOK, Attended, SyncKnown
<1>2. CASE Call!Cancel
  <2>1. PICK i : /\ actions' = actions \ {i}
                 /\ Call!Look("ender", [task |-> i, result |-> "cancelled"])
    BY <1>2 DEF Call!Cancel
  <2>2. setting'["ender"] = IF i \in held /\ result[i] = "none"
                            THEN [task |-> i, result |-> "cancelled"] ELSE Call!Nothing
    BY <2>1 DEF Call!Look, CallTypeOK, Call!Setters
  <2>3. i \in held => [task |-> i, result |-> "cancelled"] \in Results
    BY DEF CallTypeOK, Results
  <2>4. setting' \in [Call!Setters -> Results \cup {Call!Nothing}]
    BY <2>1, <2>3 DEF Call!Look, CallTypeOK
  <2>5. CallTypeOK'
    BY <1>2, <2>1, <2>4 DEF Call!Cancel, CallTypeOK
  <2>6. \A j \in held : setting["ender"].task # j
    BY <1>2 DEF Call!Cancel, CallTypeOK, Call!Nothing, Call!Nobody, Call!Tasks
  <2>7. Attended' /\ SyncKnown'
    BY <1>2, <2>1, <2>2, <2>6 DEF Call!Cancel, Attended, SyncKnown
  <2>8. QED
    BY <2>5, <2>7
<1>3. QED
  BY <1>1, <1>2

LEMMA CallSteps ==
    ASSUME MaxCalls \in Nat
    PROVE  CallInv /\ (Call!Next \/ UNCHANGED Call!vars) => CallInv'
<1>1. CallInv /\ UNCHANGED Call!vars => CallInv'
  BY DEF Call!vars, CallInv, CallTypeOK, Attended, SyncKnown
<1>2. CallInv /\ Call!Next => CallInv'
  BY CallerSteps, EndpointSteps, ResultSteps, EndSteps DEF Call!Next
<1>3. QED
  BY <1>1, <1>2

LEMMA CallsEnd == CallInv => Call!CallEnds
<1> SUFFICES ASSUME CallInv PROVE Call!CallEnds
  OBVIOUS
<1>1. ASSUME actions = {}, setting["ender"] = Call!Nothing, NEW i \in held PROVE result[i] # "none"
  BY <1>1 DEF CallInv, CallTypeOK, Attended, Call!Nothing, Call!Nobody, Call!Tasks
<1>2. QED
  BY <1>1 DEF CallInv, SyncKnown, Call!CallEnds

-----------------------------------------------------------------------------
(* The models of the plugin.                                               *)

LEMMA EndsTaken ==
    ASSUME NEW q \in Seq(LinkTasks), q # <<>>, NEW over
    PROVE  /\ EndsFollow(q, over) => EndsFollow(Tail(q), over)
           /\ EndComes(q) => Head(q) \notin Connects
           /\ EndComes(q) /\ Head(q) \notin EndTasks => EndComes(Tail(q))
<1> DEFINE r == Tail(q)
           a == Len(q)
<1>1. /\ Head(q) = q[1] /\ a \in Nat /\ a >= 1 /\ Len(r) = a - 1
      /\ \A i \in 1 .. a - 1 : r[i] = q[i + 1]
  BY First
<1>2. /\ \A i \in 1 .. Len(r) : i + 1 \in 1 .. a /\ r[i] = q[i + 1] /\ 1 < i + 1
      /\ \A i \in 1 .. a : i = 1 \/ i - 1 \in 1 .. Len(r)
  BY <1>1
<1>3. \A i \in 1 .. a : i - 1 \in 1 .. Len(r) => r[i - 1] = q[i]
  BY <1>1
<1>4. 1 \in 1 .. a
  BY <1>1
<1> HIDE DEF r, a
<1>5. ASSUME EndsFollow(q, over), ~over, NEW i \in 1 .. Len(r), r[i] \in EndTasks
      PROVE  \E j \in 1 .. Len(r) : i < j /\ r[j] \in Connects
  <2>1. PICK k \in 1 .. a : k = i + 1 /\ r[i] = q[k] /\ 1 < k
    BY <1>2
  <2>2. PICK l \in 1 .. a : k < l /\ q[l] \in Connects
    BY <1>5, <2>1 DEF EndsFollow, a
  <2>3. l - 1 \in 1 .. Len(r) /\ r[l - 1] = q[l] /\ i < l - 1
    BY <1>2, <1>3, <2>1, <2>2
  <2>4. QED
    BY <2>2, <2>3
<1>6. ASSUME EndComes(q) PROVE Head(q) \notin Connects /\ (Head(q) \notin EndTasks => EndComes(r))
  <2>1. PICK i \in 1 .. a : q[i] \in EndTasks /\ \A j \in 1 .. a : j < i => q[j] \notin Connects
    BY <1>6 DEF EndComes, a
  <2>2. CASE i = 1
    BY <1>1, <2>1, <2>2 DEF EndTasks, Connects
  <2>3. CASE i # 1
    <3>1. Head(q) \notin Connects
      BY <1>1, <1>4, <2>1, <2>3
    <3>2. i - 1 \in 1 .. Len(r) /\ r[i - 1] = q[i]
      BY <1>2, <1>3, <2>3
    <3>3. ASSUME NEW j \in 1 .. Len(r), j < i - 1 PROVE r[j] \notin Connects
      <4>1. PICK k \in 1 .. a : k = j + 1 /\ r[j] = q[k]
        BY <1>2
      <4>2. k < i
        BY <3>3, <4>1
      <4>3. QED
        BY <2>1, <4>1, <4>2
    <3>4. EndComes(r)
      BY <2>1, <3>2, <3>3 DEF EndComes
    <3>5. QED
      BY <3>1, <3>4
  <2>4. QED
    BY <2>2, <2>3
<1>7. QED
  BY <1>5, <1>6 DEF EndsFollow, r

LEMMA EndsAdded ==
    ASSUME NEW q \in Seq(LinkTasks), NEW e \in LinkTasks, NEW over
    PROVE  /\ EndsFollow(q, over) /\ (e \notin EndTasks \/ over) => EndsFollow(Append(q, e), over)
           /\ e \in Connects => EndsFollow(Append(q, e), over)
           /\ EndComes(q) => EndComes(Append(q, e))
           /\ e \in EndTasks /\ (\A i \in 1 .. Len(q) : q[i] \notin Connects) => EndComes(Append(q, e))
<1> DEFINE r == Append(q, e)
           a == Len(q)
<1>1. /\ a \in Nat /\ Len(r) = a + 1 /\ r[a + 1] = e
      /\ \A i \in 1 .. a : r[i] = q[i]
  BY Appended
<1>2. /\ a + 1 \in 1 .. Len(r)
      /\ \A i \in 1 .. Len(r) : i = a + 1 \/ (i \in 1 .. a /\ i < a + 1)
      /\ \A i \in 1 .. a : i \in 1 .. Len(r)
  BY <1>1
<1> HIDE DEF r, a
<1>3. ASSUME EndsFollow(q, over), e \notin EndTasks \/ over PROVE EndsFollow(r, over)
  <2> SUFFICES ASSUME ~over, NEW i \in 1 .. Len(r), r[i] \in EndTasks
               PROVE  \E j \in 1 .. Len(r) : i < j /\ r[j] \in Connects
    BY DEF EndsFollow
  <2>1. i \in 1 .. a /\ r[i] = q[i]
    BY <1>1, <1>2, <1>3
  <2>2. PICK j \in 1 .. a : i < j /\ q[j] \in Connects
    BY <1>3, <2>1 DEF EndsFollow, a
  <2>3. QED
    BY <1>1, <1>2, <2>2
<1>4. ASSUME e \in Connects PROVE EndsFollow(r, over)
  <2> SUFFICES ASSUME NEW i \in 1 .. Len(r), r[i] \in EndTasks
               PROVE  \E j \in 1 .. Len(r) : i < j /\ r[j] \in Connects
    BY DEF EndsFollow
  <2>1. i # a + 1
    BY <1>1, <1>4 DEF EndTasks, Connects
  <2>2. QED
    BY <1>1, <1>2, <1>4, <2>1
<1>5. ASSUME EndComes(q) PROVE EndComes(r)
  <2>1. PICK i \in 1 .. a : q[i] \in EndTasks /\ \A j \in 1 .. a : j < i => q[j] \notin Connects
    BY <1>5 DEF EndComes, a
  <2>2. \A j \in 1 .. Len(r) : j < i => j \in 1 .. a
    BY <1>1
  <2>3. QED
    BY <1>1, <1>2, <2>1, <2>2 DEF EndComes
<1>6. ASSUME e \in EndTasks, \A i \in 1 .. a : q[i] \notin Connects PROVE EndComes(r)
  <2>1. \A j \in 1 .. Len(r) : j < a + 1 => j \in 1 .. a
    BY <1>1
  <2>2. QED
    BY <1>1, <1>2, <1>6, <2>1 DEF EndComes
<1>7. QED
  BY <1>3, <1>4, <1>5, <1>6 DEF r, a

LEMMA LinkInit == Link!Init => LinkInv
<1> SUFFICES ASSUME Link!Init PROVE LinkInv
  OBVIOUS
<1>1. Len(<<>>) = 0
  BY EmptySeq
<1>2. LinkTypeOK
  BY DEF Link!Init, Link!NotFiring, Link!Null, LinkTypeOK
<1>3. Ordered(main_queue, Connects, Of, EditorModel, connection)
         /\ Covers(main_queue, Connects, Of, EditorModel, connection)
  BY NoNumbers DEF Link!Init, Link!Null
<1>5. Queued
  BY <1>3 DEF Queued, Link!Init
<1>4. EndsFollow(main_queue, Over) /\ Heard /\ Alive /\ Controls
  BY <1>1 DEF Link!Init, Link!Null, Link!NotFiring, EndsFollow, Heard, Alive, Controls
<1>6. QED
  BY <1>2, <1>5, <1>4 DEF LinkInv

LEMMA Queues ==
    ASSUME LinkTypeOK, Queued, NEW t \in LinkTasks, main_queue' = Append(main_queue, t),
           t \in Connects => t.of = connection + 1 /\ connection' = connection + 1,
           t \notin Connects => connection' = connection,
           EditorModel' = EditorModel
    PROVE  Queued'
<1>1. EditorModel \in Nat /\ connection \in Nat /\ EditorModel =< connection
  BY DEF LinkTypeOK
<1>2. /\ main_queue' = main_queue \o <<t>> /\ main_queue' \in Seq(LinkTasks)
      /\ <<t>> \in Seq(LinkTasks)
  BY Appended DEF Queued
<1>3. Of \in [LinkTasks -> Nat] /\ Of[t] = t.of
  BY DEF Of, LinkTasks
<1>4. connection' \in Nat /\ connection =< connection'
  BY <1>1
<1>5. t \in Connects => connection < Of[t] /\ Of[t] =< connection'
  BY <1>1, <1>3
<1>6. /\ Ordered(<<t>>, Connects, Of, connection, connection')
      /\ Covers(<<t>>, Connects, Of, connection, connection')
  BY <1>1, <1>3, <1>4, <1>5, OneNumber
<1>7. /\ Ordered(main_queue', Connects, Of, EditorModel, connection')
      /\ Covers(main_queue', Connects, Of, EditorModel, connection')
  <2> DEFINE q == main_queue
             o == <<t>>
             k == connection'
             n == connection
             m == EditorModel
  <2>1. /\ q \in Seq(LinkTasks) /\ o \in Seq(LinkTasks) /\ m \in Nat /\ n \in Nat /\ k \in Nat
        /\ m =< n /\ n =< k
        /\ Ordered(q, Connects, Of, m, n) /\ Covers(q, Connects, Of, m, n)
        /\ Ordered(o, Connects, Of, n, k) /\ Covers(o, Connects, Of, n, k)
    BY <1>1, <1>2, <1>4, <1>6 DEF Queued
  <2>2. main_queue' = q \o o
    BY <1>2
  <2> HIDE DEF q, o, k, n, m
  <2>3. Ordered(q \o o, Connects, Of, m, k) /\ Covers(q \o o, Connects, Of, m, k)
    BY <1>3, <2>1, NumbersJoined
  <2>4. QED
    BY <2>2, <2>3 DEF k, m
<1>8. QED
  BY <1>2, <1>7 DEF Queued

\* There is nothing to connect when the model is the one of the connection.
LEMMA NoneToConnect ==
    ASSUME LinkTypeOK, Queued, EditorModel = connection
    PROVE  \A i \in 1 .. Len(main_queue) : main_queue[i] \notin Connects
<1>1. ASSUME NEW i \in 1 .. Len(main_queue), main_queue[i] \in Connects PROVE FALSE
  <2>1. connection < Of[main_queue[i]] /\ Of[main_queue[i]] =< connection
    BY <1>1 DEF Queued, Ordered
  <2>2. Of[main_queue[i]] \in Nat /\ connection \in Nat
    BY <1>1 DEF Of, Connects, LinkTasks, LinkTypeOK
  <2>3. QED
    BY <2>1, <2>2
<1>2. QED
  BY <1>1

LEMMA TaskTaken ==
    ASSUME LinkInv, main_queue # <<>>, main_queue' = Tail(main_queue),
           UNCHANGED <<connection, wire_at>>
    PROVE  /\ Head(main_queue) \in LinkTasks
           /\ EndsFollow(main_queue', Over')
           /\ EndComes(main_queue) => Head(main_queue) \notin Connects
           /\ EndComes(main_queue) /\ Head(main_queue) \notin EndTasks => EndComes(main_queue')
           /\ Head(main_queue) \notin Connects /\ EditorModel' = EditorModel => Queued'
           /\ Head(main_queue) \in Connects =>
                 /\ EditorModel < Head(main_queue).of /\ Head(main_queue).of =< connection
                 /\ EditorModel' = Head(main_queue).of => Queued'
<1> DEFINE q == main_queue
           m == EditorModel
           n == connection
<1>1. m \in Nat /\ n \in Nat
  BY DEF LinkInv, LinkTypeOK
<1>2. q \in Seq(LinkTasks) /\ Ordered(q, Connects, Of, m, n) /\ Covers(q, Connects, Of, m, n)
  BY DEF LinkInv, Queued
<1>3. Of \in [LinkTasks -> Nat] /\ \A t \in LinkTasks : Of[t] = t.of
  BY DEF Of, LinkTasks
<1>4. q # <<>>
  OBVIOUS
<1> HIDE DEF q, m, n
<1>5. /\ Head(q) \in LinkTasks /\ Tail(q) \in Seq(LinkTasks)
      /\ Head(q) \notin Connects =>
            Ordered(Tail(q), Connects, Of, m, n) /\ Covers(Tail(q), Connects, Of, m, n)
      /\ Head(q) \in Connects =>
            /\ m < Of[Head(q)] /\ Of[Head(q)] =< n
            /\ Ordered(Tail(q), Connects, Of, Of[Head(q)], n)
            /\ Of[Head(q)] = m + 1 /\ Covers(Tail(q), Connects, Of, m + 1, n)
  <2>1. /\ Head(q) \in LinkTasks /\ Tail(q) \in Seq(LinkTasks)
        /\ Head(q) \notin Connects =>
              /\ Ordered(Tail(q), Connects, Of, m, n)
              /\ Covers(q, Connects, Of, m, n) => Covers(Tail(q), Connects, Of, m, n)
        /\ Head(q) \in Connects =>
              /\ m < Of[Head(q)] /\ Of[Head(q)] =< n
              /\ Ordered(Tail(q), Connects, Of, Of[Head(q)], n)
              /\ Covers(q, Connects, Of, m, n) =>
                    Of[Head(q)] = m + 1 /\ Covers(Tail(q), Connects, Of, m + 1, n)
    BY <1>1, <1>2, <1>3, <1>4, NumbersTaken, Zenon
  <2>2. QED
    BY <1>2, <2>1
<1>6. Head(q) \in Connects => /\ Of[Head(q)] = Head(q).of
                              /\ Covers(Tail(q), Connects, Of, Head(q).of, n)
  BY <1>3, <1>5
<1>7. Over' = Over
  BY DEF Over
<1>8. /\ EndsFollow(q, Over) => EndsFollow(Tail(q), Over)
      /\ EndComes(q) => Head(q) \notin Connects
      /\ EndComes(q) /\ Head(q) \notin EndTasks => EndComes(Tail(q))
  BY <1>2, <1>4, EndsTaken
<1>9. EndsFollow(q, Over)
  BY DEF LinkInv, q
<1>10. connection' = n /\ main_queue' = Tail(q)
  BY DEF n, q
<1>11. Head(q) \notin Connects /\ EditorModel' = m => Queued'
  BY <1>5, <1>10 DEF Queued
<1>12. Head(q) \in Connects /\ EditorModel' = Head(q).of => Queued'
  BY <1>5, <1>6, <1>10 DEF Queued
<1>13. QED
  BY <1>5, <1>6, <1>7, <1>8, <1>9, <1>10, <1>11, <1>12 DEF q, m, n

LEMMA TaskAdded ==
    ASSUME LinkInv, NEW t \in LinkTasks, main_queue' = Append(main_queue, t), t \notin Connects,
           UNCHANGED <<connection, EditorModel>>,
           (t \notin EndTasks /\ wire_at' = wire_at) \/ Over'
    PROVE  /\ Queued' /\ EndsFollow(main_queue', Over')
           /\ EndComes(main_queue) => EndComes(main_queue')
           /\ t \in EndTasks /\ EditorModel = connection => EndComes(main_queue')
<1>1. Queued' /\ main_queue \in Seq(LinkTasks)
  BY Queues DEF LinkInv, Queued
<1>2. EndsFollow(main_queue, Over)
  BY DEF LinkInv
<1>3. EndsFollow(main_queue, Over')
  BY <1>2 DEF EndsFollow, Over
<1>4. EndsFollow(main_queue', Over') /\ (EndComes(main_queue) => EndComes(main_queue'))
  <2>1. PICK over : over = Over'
    OBVIOUS
  <2>2. t \notin EndTasks \/ over
    BY <2>1
  <2>3. QED
    BY <1>1, <1>3, <2>1, <2>2, EndsAdded
<1>5. t \in EndTasks /\ EditorModel = connection => EndComes(main_queue')
  BY <1>1, NoneToConnect, EndsAdded DEF LinkInv
<1>6. QED
  BY <1>1, <1>4, <1>5

\* The wire's thread.
LEMMA WireSteps ==
    ASSUME LinkInv, Link!Connect \/ Link!Disconnect \/ Link!QueueEnd \/ Link!Unbind
    PROVE  LinkInv'
<1>1. CASE Link!Connect
  <2> DEFINE t == Link!Task("connect", connection + 1)
  <2>1. t \in LinkTasks /\ t \in Connects /\ t.of = connection + 1
    BY DEF LinkInv, LinkTypeOK, Link!Task, Connects, LinkTasks
  <2>2. main_queue' = Append(main_queue, t) /\ connection' = connection + 1 /\ EditorModel' = EditorModel
    BY <1>1 DEF Link!Connect, Link!Queue
  <2> HIDE DEF t
  <2>3. Queued'
    BY <2>1, <2>2, Queues DEF LinkInv
  <2>4. EndsFollow(main_queue', Over') /\ (EndComes(main_queue) => EndComes(main_queue'))
    <3>1. main_queue \in Seq(LinkTasks)
      BY DEF LinkInv, Queued
    <3>2. PICK over : over = Over'
      OBVIOUS
    <3>3. QED
      BY <2>1, <2>2, <3>1, <3>2, EndsAdded
  <2>5. LinkTypeOK'
    BY <1>1 DEF Link!Connect, LinkInv, LinkTypeOK
  <2>6. Heard'
    BY <1>1, <2>4 DEF Link!Connect, LinkInv, Heard, Over
  <2>7. EditorModel' # connection'
    BY <2>2 DEF LinkInv, LinkTypeOK
  <2>8. Alive' /\ Controls'
    BY <1>1, <2>7 DEF Link!Connect, LinkInv, Alive, Controls
  <2>9. QED
    BY <2>3, <2>4, <2>5, <2>6, <2>8 DEF LinkInv
<1>2. CASE Link!Disconnect
  <2>1. LinkTypeOK' /\ Queued'
    BY <1>2 DEF Link!Disconnect, LinkInv, LinkTypeOK, Queued
  <2>2. Over' = Over /\ ~Over
    BY <1>2 DEF Link!Disconnect, Over
  <2>3. EndsFollow(main_queue', Over') /\ Heard'
    BY <1>2, <2>2 DEF Link!Disconnect, LinkInv, Heard
  <2>4. Alive' /\ Controls'
    BY <1>2 DEF Link!Disconnect, LinkInv, Alive, Controls
  <2>5. QED
    BY <2>1, <2>3, <2>4 DEF LinkInv
<1>3. CASE Link!QueueEnd
  <2> DEFINE t == Link!Task("end", connection)
  <2>1. t \in LinkTasks /\ t \notin Connects /\ t \in EndTasks
    BY DEF LinkInv, LinkTypeOK, Link!Task, Connects, EndTasks, LinkTasks
  <2>2. LinkTypeOK' /\ Over'
    BY <1>3 DEF Link!QueueEnd, LinkInv, LinkTypeOK, Over
  <2>3. Alive' /\ Controls'
    BY <1>3 DEF Link!QueueEnd, LinkInv, Alive, Controls
  <2>4. CASE connection \in with_end
    <3>1. main_queue' = Append(main_queue, t)
      BY <1>3, <2>4 DEF Link!QueueEnd, Link!Queue
    <3> HIDE DEF t
    <3>2. /\ Queued' /\ EndsFollow(main_queue', Over')
          /\ EndComes(main_queue) => EndComes(main_queue')
          /\ EditorModel = connection => EndComes(main_queue')
      BY <1>3, <2>1, <2>2, <3>1, TaskAdded DEF Link!QueueEnd
    <3>3. Heard'
      BY <1>3, <3>2 DEF Link!QueueEnd, LinkInv, Heard
    <3>4. QED
      BY <2>2, <2>3, <3>2, <3>3 DEF LinkInv
  <2>5. CASE connection \notin with_end
    <3>1. Queued' /\ EndsFollow(main_queue', Over')
      BY <1>3, <2>2, <2>5 DEF Link!QueueEnd, LinkInv, Queued, EndsFollow
    <3>2. Heard'
      BY <1>3, <2>5 DEF Link!QueueEnd, LinkInv, Heard
    <3>3. QED
      BY <2>2, <2>3, <3>1, <3>2 DEF LinkInv
  <2>6. QED
    BY <2>4, <2>5
<1>4. CASE Link!Unbind
  <2>1. LinkTypeOK' /\ Queued' /\ Over /\ Over'
    BY <1>4 DEF Link!Unbind, LinkInv, LinkTypeOK, Queued, Over
  <2>2. EndsFollow(main_queue', Over') /\ Heard'
    BY <1>4, <2>1 DEF Link!Unbind, LinkInv, EndsFollow, Heard
  <2>3. Alive' /\ Controls'
    BY <1>4 DEF Link!Unbind, LinkInv, Alive, Controls
  <2>4. QED
    BY <2>1, <2>2, <2>3 DEF LinkInv
<1>5. QED
  BY <1>1, <1>2, <1>3, <1>4

\* The scheduler's thread.
LEMMA TaskSteps ==
    ASSUME LinkInv, Link!ConnectModel \/ Link!EndModel \/ Link!RunView \/ Link!RunAction
    PROVE  LinkInv'
<1> DEFINE t == Head(main_queue)
<1>1. CASE Link!ConnectModel
  <2>1. /\ main_queue # <<>> /\ t.do = "connect" /\ main_queue' = Tail(main_queue)
        /\ UNCHANGED <<connection, wire_at>> /\ EditorModel' = t.of /\ connecting = "no"
        /\ firing = Link!NotFiring
    BY <1>1 DEF Link!ConnectModel, Link!NextTask, Link!Unlocked
  <2>2. /\ t \in LinkTasks
        /\ t \in Connects => /\ EditorModel < t.of /\ t.of =< connection
                             /\ EditorModel' = t.of => Queued'
        /\ EndsFollow(main_queue', Over') /\ (EndComes(main_queue) => t \notin Connects)
    BY <2>1, TaskTaken
  <2> HIDE DEF t
  <2>3. t \in Connects /\ t.of \in Nat
    BY <2>1, <2>2 DEF Connects, LinkTasks
  <2>4. EditorModel < t.of /\ t.of =< connection /\ connection \in Nat /\ Queued'
    BY <2>1, <2>2, <2>3 DEF LinkInv, LinkTypeOK
  <2>5. EditorModel # connection
    BY <2>3, <2>4 DEF LinkInv, LinkTypeOK
  <2>6. RdIsModelAlive # "true"
    BY <2>2, <2>3, <2>5 DEF LinkInv, Heard
  <2>7. LinkTypeOK' /\ (connecting' = "no" \/ connecting' = "adding")
    BY <1>1, <2>1, <2>3, <2>4 DEF Link!ConnectModel, LinkInv, LinkTypeOK
  <2>8. RdIsModelAlive' = RdIsModelAlive /\ GameControl' = GameControl /\ firing' = firing
    BY <1>1 DEF Link!ConnectModel
  <2>9. Heard'
    BY <2>6, <2>7, <2>8 DEF Heard
  <2>10. Alive'
    <3> SUFFICES ASSUME t.of = connection, wire_at = "connected" PROVE connecting' # "no"
      BY <2>1 DEF Alive
    <3>1. ~Link!Terminated(t.of)
      BY <2>3, <2>4 DEF Link!Terminated
    <3>2. QED
      BY <1>1, <3>1 DEF Link!ConnectModel, t
  <2>11. Controls'
    BY <2>1, <2>6, <2>8 DEF LinkInv, Controls, Link!NotFiring, Link!Null
  <2>12. QED
    BY <2>2, <2>4, <2>7, <2>9, <2>10, <2>11 DEF LinkInv
<1>2. CASE Link!EndModel
  <2>1. /\ main_queue # <<>> /\ t.do = "end" /\ main_queue' = Tail(main_queue)
        /\ UNCHANGED <<connection, wire_at, EditorModel, connecting, firing>> /\ connecting = "no"
        /\ RdIsModelAlive' = "false"
        /\ GameControl' = IF RdIsModelAlive = "false" THEN GameControl ELSE Link!Null
    BY <1>2 DEF Link!EndModel, Link!NextTask, Link!set
  <2>2. t \in LinkTasks /\ EndsFollow(main_queue', Over') /\ (t \notin Connects => Queued')
    BY <2>1, TaskTaken
  <2> HIDE DEF t
  <2>3. t \in EndTasks /\ t \notin Connects
    BY <2>1, <2>2 DEF Connects, EndTasks
  <2>4. LinkTypeOK'
    BY <2>1 DEF LinkInv, LinkTypeOK, Link!Null
  <2>5. Heard' /\ Controls'
    BY <2>1 DEF LinkInv, Heard, Controls
  <2>6. Alive'
    <3> SUFFICES ASSUME EditorModel = connection, wire_at = "connected" PROVE FALSE
      BY <2>1 DEF Alive
    <3>1. t = main_queue[1] /\ 1 \in 1 .. Len(main_queue)
      BY <2>1, First DEF LinkInv, Queued, t
    <3>2. \E j \in 1 .. Len(main_queue) : main_queue[j] \in Connects
      BY <2>3, <3>1 DEF LinkInv, EndsFollow, Over
    <3>3. QED
      BY <3>2, NoneToConnect DEF LinkInv
  <2>7. QED
    BY <2>2, <2>3, <2>4, <2>5, <2>6 DEF LinkInv
<1>3. CASE Link!RunView \/ Link!RunAction
  <2>1. /\ main_queue # <<>> /\ t.do \in {"view", "action"} /\ main_queue' = Tail(main_queue)
        /\ UNCHANGED <<connection, wire_at, EditorModel, connecting, firing, RdIsModelAlive, with_end>>
        /\ \/ GameControl' = GameControl /\ viewing' = viewing
           \/ GameControl' = IF RdIsModelAlive = "true" THEN EditorModel ELSE Link!Null
    BY <1>3 DEF Link!RunView, Link!RunAction, Link!NextTask
  <2>2. /\ t \in LinkTasks /\ EndsFollow(main_queue', Over')
        /\ t \notin Connects => Queued'
        /\ EndComes(main_queue) /\ t \notin EndTasks => EndComes(main_queue')
    BY <2>1, TaskTaken
  <2> HIDE DEF t
  <2>3. t \notin EndTasks /\ t \notin Connects
    BY <2>1 DEF Connects, EndTasks
  <2>4. LinkTypeOK'
    BY <2>1 DEF LinkInv, LinkTypeOK, Link!Null
  <2>5. Over' = Over
    BY <2>1 DEF Over
  <2>6. Heard' /\ Alive'
    BY <2>1, <2>2, <2>3, <2>5 DEF LinkInv, Heard, Alive
  <2>7. Controls'
    BY <2>1 DEF LinkInv, Controls
  <2>8. QED
    BY <2>2, <2>3, <2>4, <2>6, <2>7 DEF LinkInv
<1>4. QED
  BY <1>1, <1>2, <1>3

\* The rest of a task that connects.
LEMMA ConnectingSteps ==
    ASSUME LinkInv, Link!AddEnd \/ Link!SetAlive
    PROVE  LinkInv'
<1>1. CASE Link!AddEnd
  <2>1. LinkTypeOK' /\ Queued' /\ Over' = Over /\ Controls'
    BY <1>1 DEF Link!AddEnd, Link!add_end, LinkInv, LinkTypeOK, Queued, Over, Controls
  <2>2. EndsFollow(main_queue', Over')
    BY <1>1, <2>1 DEF Link!AddEnd, LinkInv
  <2>3. CASE Link!Terminated(EditorModel)
    <3>1. connecting' = "no" /\ UNCHANGED with_end
      BY <1>1, <2>3 DEF Link!AddEnd, Link!add_end
    <3>2. ~(EditorModel = connection /\ wire_at = "connected")
      BY <2>3 DEF Link!Terminated, LinkInv, LinkTypeOK
    <3>3. Heard' /\ Alive'
      BY <1>1, <2>1, <3>1, <3>2 DEF Link!AddEnd, LinkInv, Heard, Alive
    <3>4. QED
      BY <2>1, <2>2, <3>3 DEF LinkInv
  <2>4. CASE ~Link!Terminated(EditorModel)
    <3>1. connecting' = "setting" /\ EditorModel \in with_end'
      BY <1>1, <2>4 DEF Link!AddEnd, Link!add_end
    <3>2. EditorModel = connection /\ ~Over
      BY <2>4 DEF Link!Terminated, LinkInv, LinkTypeOK, Over
    <3>3. Heard' /\ Alive'
      BY <1>1, <2>1, <3>1, <3>2 DEF Link!AddEnd, Heard, Alive
    <3>4. QED
      BY <2>1, <2>2, <3>3 DEF LinkInv
  <2>5. QED
    BY <2>3, <2>4
<1>2. CASE Link!SetAlive
  <2>1. Over' = Over /\ Queued' /\ EndsFollow(main_queue', Over')
    BY <1>2 DEF Link!SetAlive, LinkInv, Queued, EndsFollow, Over
  <2>2. RdIsModelAlive' = "true" /\ connecting' = "no" /\ connecting = "setting"
    BY <1>2 DEF Link!SetAlive, Link!set
  <2>3. LinkTypeOK' /\ Heard' /\ Alive'
    BY <1>2, <2>1, <2>2 DEF Link!SetAlive, Link!set, Link!Null, LinkInv, LinkTypeOK, Heard, Alive
  <2>4. Controls'
    BY <1>2 DEF Link!SetAlive, Link!set, LinkInv, Controls
  <2>5. QED
    BY <2>1, <2>3, <2>4 DEF LinkInv
<1>3. QED
  BY <1>1, <1>2

\* The game thread.
LEMMA GameSteps ==
    ASSUME LinkInv, Link!ViewModel \/ Link!ScheduleModelAction \/ Link!ShutdownControl
    PROVE  LinkInv'
<1>1. /\ UNCHANGED <<connection, wire_at, connecting, EditorModel, with_end, RdIsModelAlive, firing>>
      /\ \/ main_queue' = main_queue
         \/ \E t \in LinkTasks : main_queue' = Append(main_queue, t) /\ t.do \in {"view", "action"}
  <2>1. Link!Task("view", Link!Null) \in LinkTasks /\ Link!Task("action", GameControl) \in LinkTasks
    BY DEF Link!Task, LinkTasks, Link!Null, LinkInv, LinkTypeOK
  <2>2. Link!Task("view", Link!Null).do = "view" /\ Link!Task("action", GameControl).do = "action"
    BY DEF Link!Task
  <2>3. QED
    BY <2>1, <2>2 DEF Link!ViewModel, Link!ScheduleModelAction, Link!ShutdownControl, Link!Queue
<1>2. Over' = Over
  BY <1>1 DEF Over
<1>3. /\ Queued' /\ EndsFollow(main_queue', Over')
      /\ EndComes(main_queue) => EndComes(main_queue')
  <2>1. CASE main_queue' = main_queue
    BY <1>1, <1>2, <2>1 DEF LinkInv, Queued
  <2>2. ASSUME NEW t \in LinkTasks, main_queue' = Append(main_queue, t), t.do \in {"view", "action"}
        PROVE  /\ Queued' /\ EndsFollow(main_queue', Over')
               /\ EndComes(main_queue) => EndComes(main_queue')
    <3>1. t \notin Connects /\ t \notin EndTasks
      BY <2>2 DEF Connects, EndTasks
    <3>2. QED
      BY <1>1, <2>2, <3>1, TaskAdded
  <2>3. QED
    BY <1>1, <2>1, <2>2
<1>4. Heard' /\ Alive'
  BY <1>1, <1>2, <1>3 DEF LinkInv, Heard, Alive
<1>5. LinkTypeOK'
  BY <1>1 DEF LinkInv, LinkTypeOK, Link!ViewModel, Link!ScheduleModelAction, Link!ShutdownControl, Link!Null
<1>6. Controls'
  BY <1>1 DEF LinkInv, Controls, Link!ViewModel, Link!ScheduleModelAction, Link!ShutdownControl
<1>7. QED
  BY <1>3, <1>4, <1>5, <1>6 DEF LinkInv

\* The log's thread.
LEMMA LogSteps ==
    ASSUME LinkInv, Link!FireAsyncAction \/ Link!Fire \/ Link!Send
    PROVE  LinkInv'
<1>1. UNCHANGED <<connection, wire_at, main_queue, connecting, EditorModel, with_end, RdIsModelAlive,
                  GameControl, viewing>>
  BY DEF Link!FireAsyncAction, Link!Fire, Link!Send
<1>2. Queued' /\ EndsFollow(main_queue', Over') /\ Heard' /\ Alive'
  BY <1>1 DEF LinkInv, Queued, EndsFollow, Over, Heard, Alive
<1>3. /\ firing' \in [of : Nat, at : {"no", "fire", "send"}]
      /\ firing'.of \in {EditorModel, Link!Null, firing.of}
  BY DEF LinkInv, LinkTypeOK, Link!FireAsyncAction, Link!Fire, Link!Send, Link!NotFiring, Link!Null
<1>4. LinkTypeOK' /\ Controls'
  BY <1>1, <1>3 DEF LinkInv, LinkTypeOK, Controls
<1>5. QED
  BY <1>2, <1>4 DEF LinkInv

LEMMA LinkSteps == LinkInv /\ (Link!Next \/ UNCHANGED Link!vars) => LinkInv'
<1>1. LinkInv /\ UNCHANGED Link!vars => LinkInv'
  BY DEF Link!vars, LinkInv, LinkTypeOK, Queued, EndsFollow, EndComes, Over, Heard, Alive, Controls
<1>2. LinkInv /\ Link!Next => LinkInv'
  BY WireSteps, TaskSteps, ConnectingSteps, GameSteps, LogSteps DEF Link!Next
<1>3. QED
  BY <1>1, <1>2

LEMMA LinkReplaces == LinkInv => Link!ReplacedUnused
  BY DEF LinkInv, Heard, Controls, Link!ReplacedUnused

LEMMA LinkFollows == LinkInv => Link!AliveFollowsConnection
<1> SUFFICES ASSUME LinkInv, main_queue = <<>>, connecting = "no",
                    wire_at \in {"connected", "disconnected"}
             PROVE  /\ RdIsModelAlive = "true" <=> wire_at = "connected"
                    /\ wire_at = "connected" => EditorModel = connection
                    /\ viewing = "yes" =>
                          GameControl = IF wire_at = "connected" THEN connection ELSE Link!Null
  BY DEF Link!AliveFollowsConnection
<1>1. Len(main_queue) = 0
  BY EmptySeq
<1>2. EditorModel = connection
  <2> SUFFICES ASSUME EditorModel # connection PROVE FALSE
    OBVIOUS
  <2>1. EditorModel + 1 \in EditorModel + 1 .. connection
    BY DEF LinkInv, LinkTypeOK
  <2>2. \E i \in 1 .. Len(main_queue) : TRUE
    BY <2>1 DEF LinkInv, Queued, Covers
  <2>3. QED
    BY <1>1, <2>2
<1>3. ~EndComes(main_queue)
  BY <1>1 DEF EndComes
<1>4. RdIsModelAlive = "true" => wire_at = "connected"
  BY <1>3 DEF LinkInv, Heard, Over
<1>5. wire_at = "connected" => RdIsModelAlive = "true"
  BY <1>2 DEF LinkInv, Alive
<1>6. QED
  BY <1>2, <1>4, <1>5 DEF LinkInv, Controls

-----------------------------------------------------------------------------
(* The messages of an extension.                                           *)

LEMMA NumbersWiden ==
    ASSUME NEW T, NEW P, NEW F \in [T -> Nat], NEW q \in Seq(T), NEW m \in Nat, NEW n \in Nat,
           NEW k \in Nat, NEW l \in Nat, k =< m, n =< l, Ordered(q, P, F, m, n)
    PROVE  Ordered(q, P, F, k, l)
<1>1. \A i \in 1 .. Len(q) : F[q[i]] \in Nat
  OBVIOUS
<1>2. QED
  BY <1>1 DEF Ordered

LEMMA MessageTypes ==
    /\ Number \in [ExtMessages -> Nat] /\ Same \in [Nat -> Nat]
    /\ \A n \in Nat : /\ Ext!Payload(n) \in Payloads /\ Ext!Payload(n) \in ExtMessages
                      /\ Number[Ext!Payload(n)] = n /\ Same[n] = n
    /\ \A e \in ExtMessages : /\ e \in States <=> e \notin Payloads
                              /\ e \in Payloads <=> e.kind = "payload"
                              /\ Number[e] = e.number
    /\ \A k \in {"Ready", "ReceivedCounterpart", "Disconnected"} :
          Ext!State(k) \in States /\ Ext!State(k) \in ExtMessages
    /\ \A e \in States : e = Ext!State(e.kind)
  BY DEF Number, Same, ExtMessages, States, Payloads, Ext!Payload, Ext!State

\* What waits, as messages.
AsPayloads(w) == [i \in 1 .. Len(w) |-> Ext!Payload(w[i])]

LEMMA PayloadsOrdered ==
    ASSUME NEW w \in Seq(Nat), NEW m \in Nat, NEW n \in Nat, Ordered(w, Nat, Same, m, n)
    PROVE  /\ AsPayloads(w) \in Seq(ExtMessages) /\ Len(AsPayloads(w)) = Len(w)
           /\ \A i \in 1 .. Len(w) : AsPayloads(w)[i] \in Payloads /\ Number[AsPayloads(w)[i]] = w[i]
           /\ Ordered(AsPayloads(w), Payloads, Number, m, n)
<1> DEFINE q == AsPayloads(w)
<1>1. Len(w) \in Nat /\ \A i \in 1 .. Len(w) : w[i] \in Nat
  OBVIOUS
<1>2. q \in [1 .. Len(w) -> ExtMessages]
  BY <1>1, MessageTypes DEF AsPayloads
<1>3. q \in Seq(ExtMessages) /\ Len(q) = Len(w)
  BY <1>1, <1>2
<1>4. \A i \in 1 .. Len(w) : q[i] \in Payloads /\ Number[q[i]] = w[i] /\ Same[w[i]] = w[i]
  BY <1>1, MessageTypes DEF AsPayloads
<1> HIDE DEF q
<1>5. Ordered(q, Payloads, Number, m, n)
  BY <1>1, <1>3, <1>4 DEF Ordered
<1>6. QED
  BY <1>3, <1>4, <1>5 DEF q

\* Of all that follows: r, q, x, w and N have their types.
PipeTypes(r, q, x, w, N) ==
    r \in Seq(Nat) /\ q \in Seq(ExtMessages) /\ x \in Nat /\ w \in Seq(Nat) /\ N \in Nat

\* A state on its way changes nothing.
LEMMA PipeState ==
    ASSUME NEW r, NEW q, NEW x, NEW w, NEW N, PipeTypes(r, q, x, w, N), Pipe(r, q, x, w, N), NEW e \in States
    PROVE  /\ Pipe(r, q \o <<e>>, x, w, N)
           /\ Whole(r, q, x, w, N) => Whole(r, q \o <<e>>, x, w, N)
<1>1. e \in ExtMessages /\ e \notin Payloads /\ Number \in [ExtMessages -> Nat]
  BY MessageTypes DEF ExtMessages
<1>2. q \in Seq(ExtMessages) /\ <<e>> \in Seq(ExtMessages)
  BY <1>1 DEF PipeTypes
<1>3. ASSUME NEW m \in Nat, NEW n \in Nat, m =< n, Ordered(q, Payloads, Number, m, n)
      PROVE  /\ Ordered(q \o <<e>>, Payloads, Number, m, n)
             /\ Covers(q, Payloads, Number, m, n) => Covers(q \o <<e>>, Payloads, Number, m, n)
  <2> DEFINE o == <<e>>
  <2>1. Ordered(o, Payloads, Number, n, n) /\ Covers(o, Payloads, Number, n, n)
    BY <1>1, <1>3, OneNumber
  <2>2. o \in Seq(ExtMessages)
    BY <1>2
  <2> HIDE DEF o
  <2>3. n =< n
    OBVIOUS
  <2>4. /\ Ordered(q \o o, Payloads, Number, m, n)
        /\ Covers(q, Payloads, Number, m, n) => Covers(q \o o, Payloads, Number, m, n)
    BY <1>1, <1>2, <1>3, <2>1, <2>2, <2>3, NumbersJoined
  <2>5. QED
    BY <2>4 DEF o
<1>4. PICK m \in Nat, n \in Nat :
          /\ m =< n /\ (IF x = 0 THEN n =< N ELSE n < N)
          /\ Ordered(r, Nat, Same, 0, m)
          /\ Ordered(q, Payloads, Number, m, n)
          /\ Ordered(w, Nat, Same, n, N)
  BY DEF Pipe
<1>5. Ordered(q \o <<e>>, Payloads, Number, m, n)
  BY <1>3, <1>4
<1>6. Pipe(r, q \o <<e>>, x, w, N)
  BY <1>4, <1>5 DEF Pipe
<1>7. ASSUME Whole(r, q, x, w, N) PROVE Whole(r, q \o <<e>>, x, w, N)
  <2>1. Len(r) \in Nat /\ Gone(x, w, N) \in Nat
    BY <1>7 DEF Whole, Gone, PipeTypes
  <2>2. QED
    BY <1>3, <1>7, <2>1 DEF Whole
<1>8. QED
  BY <1>6, <1>7

\* Nor does one that is received.
LEMMA PipeTaken ==
    ASSUME NEW r, NEW q, NEW x, NEW w, NEW N, PipeTypes(r, q, x, w, N), Pipe(r, q, x, w, N), q # <<>>
    PROVE  /\ Pipe(r, Tail(q), x, w, N)
           /\ Whole(r, q, x, w, N) /\ Head(q) \notin Payloads => Whole(r, Tail(q), x, w, N)
<1>1. Number \in [ExtMessages -> Nat] /\ q \in Seq(ExtMessages)
  BY MessageTypes DEF PipeTypes
<1>2. PICK m \in Nat, n \in Nat :
          /\ m =< n /\ (IF x = 0 THEN n =< N ELSE n < N)
          /\ Ordered(r, Nat, Same, 0, m)
          /\ Ordered(q, Payloads, Number, m, n)
          /\ Ordered(w, Nat, Same, n, N)
  BY DEF Pipe
<1>3. /\ Head(q) \in ExtMessages /\ Tail(q) \in Seq(ExtMessages)
      /\ Head(q) \notin Payloads => Ordered(Tail(q), Payloads, Number, m, n)
      /\ Head(q) \in Payloads => /\ m < Number[Head(q)]
                                 /\ Ordered(Tail(q), Payloads, Number, Number[Head(q)], n)
  BY <1>1, <1>2, NumbersTaken, Zenon
<1>4. Ordered(Tail(q), Payloads, Number, m, n)
  <2>1. PICK k : k = Number[Head(q)]
    OBVIOUS
  <2>2. k \in Nat
    BY <1>1, <1>3, <2>1
  <2>3. Head(q) \in Payloads => m =< k /\ n =< n /\ Ordered(Tail(q), Payloads, Number, k, n)
    BY <1>3, <2>1, <2>2
  <2>4. QED
    BY <1>1, <1>3, <2>2, <2>3, NumbersWiden
<1>5. Pipe(r, Tail(q), x, w, N)
  BY <1>2, <1>4 DEF Pipe
<1>6. ASSUME Whole(r, q, x, w, N), Head(q) \notin Payloads PROVE Whole(r, Tail(q), x, w, N)
  <2>1. PICK k, l : k = Len(r) /\ l = Gone(x, w, N)
    OBVIOUS
  <2>2. k \in Nat /\ l \in Nat
    BY <1>6, <2>1 DEF Whole, Gone, PipeTypes
  <2>3. Ordered(q, Payloads, Number, k, l) /\ Covers(q, Payloads, Number, k, l)
    BY <1>6, <2>1 DEF Whole
  <2>4. Ordered(Tail(q), Payloads, Number, k, l) /\ Covers(Tail(q), Payloads, Number, k, l)
    BY <1>1, <1>6, <2>2, <2>3, NumbersTaken, Zenon
  <2>5. QED
    BY <1>6, <2>1, <2>4 DEF Whole
<1>7. QED
  BY <1>5, <1>6

\* A payload that is received is the next.
LEMMA PipeReceived ==
    ASSUME NEW r, NEW q, NEW x, NEW w, NEW N, PipeTypes(r, q, x, w, N), Pipe(r, q, x, w, N), q # <<>>,
           Head(q) \in Payloads
    PROVE  /\ Pipe(Append(r, Head(q).number), Tail(q), x, w, N)
           /\ Whole(r, q, x, w, N) => Whole(Append(r, Head(q).number), Tail(q), x, w, N)
<1>1. /\ Number \in [ExtMessages -> Nat] /\ q \in Seq(ExtMessages) /\ r \in Seq(Nat)
      /\ Same \in [Nat -> Nat]
  BY MessageTypes DEF PipeTypes
<1>2. PICK k : k = Head(q).number
  OBVIOUS
<1>3. Head(q) \in ExtMessages /\ k = Number[Head(q)] /\ k \in Nat /\ Same[k] = k
  BY <1>1, <1>2, First, MessageTypes
<1>4. PICK m \in Nat, n \in Nat :
          /\ m =< n /\ (IF x = 0 THEN n =< N ELSE n < N)
          /\ Ordered(r, Nat, Same, 0, m)
          /\ Ordered(q, Payloads, Number, m, n)
          /\ Ordered(w, Nat, Same, n, N)
  BY DEF Pipe
<1>5. m < Number[Head(q)] /\ Number[Head(q)] =< n /\ Ordered(Tail(q), Payloads, Number, Number[Head(q)], n)
  BY <1>1, <1>4, NumbersTaken, Zenon
<1>6. m < k /\ k =< n /\ Ordered(Tail(q), Payloads, Number, k, n)
  BY <1>3, <1>5
<1>7. Ordered(Append(r, k), Nat, Same, 0, k)
  <2> DEFINE o == <<k>>
  <2>1. Ordered(o, Nat, Same, m, k)
    <3>1. m < Same[k] /\ Same[k] =< k
      BY <1>3, <1>6
    <3>2. QED
      BY <1>1, <1>3, <3>1, OneNumber
  <2>2. Append(r, k) = r \o o /\ o \in Seq(Nat)
    <3>1. r \in Seq(Nat) /\ k \in Nat
      BY <1>1, <1>3
    <3>2. QED
      BY <3>1, Appended
  <2> HIDE DEF o
  <2>3. 0 \in Nat /\ 0 =< m /\ m =< k
    BY <1>3, <1>6
  <2>4. Ordered(r \o o, Nat, Same, 0, k)
    BY <1>1, <1>3, <1>4, <2>1, <2>2, <2>3, NumbersJoined
  <2>5. QED
    BY <2>2, <2>4
<1>8. Pipe(Append(r, k), Tail(q), x, w, N)
  BY <1>3, <1>4, <1>6, <1>7 DEF Pipe
<1>9. ASSUME Whole(r, q, x, w, N) PROVE Whole(Append(r, k), Tail(q), x, w, N)
  <2>1. PICK a, l : a = Len(r) /\ l = Gone(x, w, N)
    OBVIOUS
  <2>2. a \in Nat /\ l \in Nat
    BY <1>9, <2>1 DEF Whole, Gone, PipeTypes
  <2>3. Ordered(q, Payloads, Number, a, l) /\ Covers(q, Payloads, Number, a, l)
    BY <1>9, <2>1 DEF Whole
  <2>4. /\ Number[Head(q)] = a + 1 /\ Number[Head(q)] =< l
        /\ Ordered(Tail(q), Payloads, Number, Number[Head(q)], l)
        /\ Covers(Tail(q), Payloads, Number, a + 1, l)
    <3>1. Head(q) \in Payloads /\ Number \in [ExtMessages -> Nat] /\ q \in Seq(ExtMessages) /\ q # <<>>
      BY <1>1
    <3>2. QED
      BY <2>2, <2>3, <3>1, NumbersTaken, ZenonT(40)
  <2>5. /\ k = a + 1 /\ k =< l
        /\ Ordered(Tail(q), Payloads, Number, k, l) /\ Covers(Tail(q), Payloads, Number, k, l)
    BY <1>3, <2>4
  <2>6. Len(Append(r, k)) = k /\ \A i \in 1 .. Len(Append(r, k)) : Append(r, k)[i] = i
    <3>1. /\ Len(Append(r, k)) = a + 1 /\ Append(r, k)[a + 1] = k
          /\ \A i \in 1 .. a : Append(r, k)[i] = r[i]
      BY <1>1, <1>3, <2>1, Appended
    <3>2. \A i \in 1 .. a : r[i] = i
      BY <1>9, <2>1 DEF Whole
    <3>3. \A i \in 1 .. a + 1 : i \in 1 .. a \/ i = a + 1
      BY <2>2
    <3>4. QED
      BY <2>5, <3>1, <3>2, <3>3
  <2>7. \A i \in 1 .. Len(w) : w[i] = l + i
    BY <1>9, <2>1 DEF Whole
  <2>8. QED
    BY <2>1, <2>5, <2>6, <2>7 DEF Whole
<1>10. QED
  BY <1>2, <1>8, <1>9

\* What waits is forgotten, sent, or joined by the next.
LEMMA PipeForgets ==
    ASSUME NEW r, NEW q, NEW x, NEW w, NEW N, Pipe(r, q, x, w, N)
    PROVE  Pipe(r, q, x, <<>>, N)
<1>1. \A n \in Nat : Ordered(<<>>, Nat, Same, n, N)
  BY EmptySeq DEF Ordered
<1>2. QED
  BY <1>1 DEF Pipe

LEMMA PipeFlushed ==
    ASSUME NEW r, NEW q, NEW x, NEW w, NEW N, PipeTypes(r, q, x, w, N), Pipe(r, q, x, w, N)
    PROVE  /\ Pipe(r, q \o AsPayloads(w), x, <<>>, N)
           /\ Whole(r, q, x, w, N) => Whole(r, q \o AsPayloads(w), x, <<>>, N)
<1>1. /\ Number \in [ExtMessages -> Nat] /\ q \in Seq(ExtMessages) /\ w \in Seq(Nat) /\ N \in Nat
      /\ Same \in [Nat -> Nat] /\ \A n \in Nat : Same[n] = n
  BY MessageTypes DEF PipeTypes
<1>2. CASE x # 0
  <2>1. w = <<>>
    BY <1>2 DEF Pipe
  <2>2. AsPayloads(w) = <<>>
    BY <2>1 DEF AsPayloads
  <2>3. q \o AsPayloads(w) = q
    BY <1>1, <2>2
  <2>4. QED
    BY <2>1, <2>3
<1>3. CASE x = 0
  <2> DEFINE p == AsPayloads(w)
  <2>1. PICK m \in Nat, n \in Nat :
            /\ m =< n /\ n =< N
            /\ Ordered(r, Nat, Same, 0, m)
            /\ Ordered(q, Payloads, Number, m, n)
            /\ Ordered(w, Nat, Same, n, N)
    BY <1>3 DEF Pipe
  <2>2. p \in Seq(ExtMessages) /\ Ordered(p, Payloads, Number, n, N)
    BY <1>1, <2>1, PayloadsOrdered
  <2> HIDE DEF p
  <2>3. Ordered(q \o p, Payloads, Number, m, N)
    BY <1>1, <2>1, <2>2, NumbersJoined
  <2>4. Ordered(<<>>, Nat, Same, N, N)
    BY EmptySeq DEF Ordered
  <2>5. Pipe(r, q \o p, x, <<>>, N)
    <3>1. m =< N /\ N =< N
      BY <1>1, <2>1
    <3>2. QED
      BY <1>1, <1>3, <2>1, <2>3, <2>4, <3>1 DEF Pipe
  <2>6. ASSUME Whole(r, q, x, w, N) PROVE Whole(r, q \o p, x, <<>>, N)
    <3>1. PICK a, l, b : a = Len(r) /\ l = Gone(x, w, N) /\ b = Len(w)
      OBVIOUS
    <3>2. a \in Nat /\ l \in Nat /\ b \in Nat /\ l = N - b /\ a =< l /\ l =< N
      BY <1>3, <2>6, <3>1 DEF Whole, Gone, PipeTypes
    <3>3. /\ Ordered(q, Payloads, Number, a, l) /\ Covers(q, Payloads, Number, a, l)
          /\ \A i \in 1 .. b : w[i] = l + i
      BY <2>6, <3>1 DEF Whole
    <3>4. Ordered(w, Nat, Same, l, N)
      <4>0. \A i \in 1 .. b : w[i] = l + i /\ l + i \in Nat /\ l < l + i /\ l + i =< N
        <5>1. N \in Nat
          BY <1>1
        <5>2. QED
          BY <3>2, <3>3, <5>1
      <4>1. \A i \in 1 .. b : w[i] \in Nat /\ Same[w[i]] = l + i /\ l < l + i /\ l + i =< N
        BY <4>0 DEF Same
      <4>2. \A i, j \in 1 .. b : i < j => l + i < l + j
        BY <3>2
      <4>3. QED
        BY <3>1, <4>1, <4>2 DEF Ordered
    <3>5. /\ Ordered(p, Payloads, Number, l, N) /\ Len(p) = b
          /\ \A i \in 1 .. b : p[i] \in Payloads /\ Number[p[i]] = w[i]
      BY <1>1, <3>1, <3>2, <3>4, PayloadsOrdered DEF p
    <3>6. Covers(p, Payloads, Number, l, N)
      <4> SUFFICES ASSUME NEW c \in l + 1 .. N
                   PROVE  \E i \in 1 .. Len(p) : p[i] \in Payloads /\ Number[p[i]] = c
        BY DEF Covers
      <4>1. PICK i : i = c - l
        OBVIOUS
      <4>2. i \in 1 .. b /\ l + i = c
        BY <1>1, <3>2, <4>1
      <4>3. QED
        BY <3>3, <3>5, <4>2
    <3>7. Ordered(q \o p, Payloads, Number, a, N) /\ Covers(q \o p, Payloads, Number, a, N)
      BY <1>1, <2>2, <3>2, <3>3, <3>5, <3>6, NumbersJoined
    <3>8. Gone(x, <<>>, N) = N
      BY <1>1, <1>3, EmptySeq DEF Gone
    <3>9. a =< N
      BY <1>1, <3>2
    <3>10. QED
      BY <2>6, <3>1, <3>7, <3>8, <3>9, EmptySeq DEF Whole
  <2>7. QED
    BY <2>5, <2>6 DEF p
<1>4. QED
  BY <1>2, <1>3

LEMMA PipeSends ==
    ASSUME NEW r, NEW q, NEW N, PipeTypes(r, q, 0, <<>>, N), Pipe(r, q, 0, <<>>, N)
    PROVE  /\ Pipe(r, q, N + 1, <<>>, N + 1)
           /\ Whole(r, q, 0, <<>>, N) => Whole(r, q, N + 1, <<>>, N + 1)
<1>1. N \in Nat /\ N + 1 # 0 /\ Len(<<>>) = 0
  BY EmptySeq DEF PipeTypes
<1>2. \A n \in Nat : Ordered(<<>>, Nat, Same, n, N + 1)
  BY <1>1 DEF Ordered
<1>3. \A n \in Nat : n =< N => n < N + 1
  BY <1>1
<1>4. Pipe(r, q, N + 1, <<>>, N + 1)
  BY <1>1, <1>2, <1>3 DEF Pipe
<1>5. Gone(0, <<>>, N) = N /\ Gone(N + 1, <<>>, N + 1) = N
  BY <1>1 DEF Gone
<1>6. QED
  BY <1>1, <1>4, <1>5 DEF Whole

LEMMA PipeWaits ==
    ASSUME NEW r, NEW q, NEW w, NEW N, PipeTypes(r, q, 0, w, N), Pipe(r, q, 0, w, N)
    PROVE  /\ Pipe(r, q, 0, Append(w, N + 1), N + 1)
           /\ Whole(r, q, 0, w, N) => Whole(r, q, 0, Append(w, N + 1), N + 1)
<1>1. /\ N \in Nat /\ N + 1 \in Nat /\ w \in Seq(Nat)
      /\ Same \in [Nat -> Nat] /\ Same[N + 1] = N + 1
  BY MessageTypes DEF PipeTypes
<1>2. PICK b : b = Len(w)
  OBVIOUS
<1>3. PICK v : v = Append(w, N + 1)
  OBVIOUS
<1>4. b \in Nat /\ Len(v) = b + 1 /\ v[b + 1] = N + 1 /\ \A i \in 1 .. b : v[i] = w[i]
  BY <1>1, <1>2, <1>3, Appended
<1>5. PICK m \in Nat, n \in Nat :
          /\ m =< n /\ n =< N
          /\ Ordered(r, Nat, Same, 0, m)
          /\ Ordered(q, Payloads, Number, m, n)
          /\ Ordered(w, Nat, Same, n, N)
  BY DEF Pipe
<1>6. Ordered(v, Nat, Same, n, N + 1)
  <2> DEFINE k == N + 1
             o == <<k>>
  <2>1. v = w \o o /\ o \in Seq(Nat)
    <3>1. w \in Seq(Nat) /\ k \in Nat /\ v = Append(w, k)
      BY <1>1, <1>3
    <3> HIDE DEF k
    <3>2. QED
      BY <3>1, Appended
  <2>2. k \in Nat /\ N < Same[k] /\ Same[k] =< k /\ N =< k
    BY <1>1
  <2>3. Ordered(o, Nat, Same, N, k)
    <3> HIDE DEF k
    <3>1. Ordered(<<k>>, Nat, Same, N, k)
      BY <1>1, <2>2, OneNumber
    <3>2. QED
      BY <3>1 DEF k
  <2> HIDE DEF o, k
  <2>4. Ordered(w \o o, Nat, Same, n, k)
    BY <1>1, <1>5, <2>1, <2>2, <2>3, NumbersJoined
  <2>5. QED
    BY <2>1, <2>4 DEF k
<1>7. Pipe(r, q, 0, v, N + 1)
  <2>1. n =< N + 1
    BY <1>1, <1>5
  <2>2. QED
    BY <1>5, <1>6, <2>1 DEF Pipe
<1>8. Gone(0, v, N + 1) = Gone(0, w, N) /\ Gone(0, w, N) = N - b
  BY <1>1, <1>2, <1>4 DEF Gone
<1>9. ASSUME Whole(r, q, 0, w, N) PROVE Whole(r, q, 0, v, N + 1)
  <2>1. PICK l : l = N - b
    OBVIOUS
  <2>2. \A i \in 1 .. b : w[i] = l + i
    BY <1>2, <1>8, <1>9, <2>1 DEF Whole
  <2>3. v[b + 1] = l + (b + 1)
    BY <1>1, <1>4, <2>1
  <2>4. \A i \in 1 .. Len(v) : v[i] = l + i
    <3>1. \A i \in 1 .. b + 1 : i \in 1 .. b \/ i = b + 1
      BY <1>4
    <3>2. QED
      BY <1>4, <2>2, <2>3, <3>1
  <2>5. QED
    BY <1>8, <1>9, <2>1, <2>4 DEF Whole
<1>10. QED
  BY <1>3, <1>7, <1>9

LEMMA PipeAtOnce ==
    ASSUME NEW r, NEW q, NEW x, NEW w, NEW N, PipeTypes(r, q, x, w, N), Pipe(r, q, x, w, N), x # 0
    PROVE  /\ Pipe(r, q \o <<Ext!Payload(x)>>, 0, w, N)
           /\ Whole(r, q, x, w, N) => Whole(r, q \o <<Ext!Payload(x)>>, 0, w, N)
<1>1. x = N /\ w = <<>> /\ N \in Nat /\ q \in Seq(ExtMessages) /\ Len(w) = 0
  BY EmptySeq DEF Pipe, PipeTypes
<1>2. PICK e : e = Ext!Payload(x)
  OBVIOUS
<1>3. e \in ExtMessages /\ e \in Payloads /\ Number \in [ExtMessages -> Nat] /\ Number[e] = N
  BY <1>1, <1>2, MessageTypes
<1>4. ASSUME NEW m \in Nat, NEW n \in Nat, m =< n, n < N, Ordered(q, Payloads, Number, m, n)
      PROVE  /\ Ordered(q \o <<e>>, Payloads, Number, m, N)
             /\ N = n + 1 /\ Covers(q, Payloads, Number, m, n) => Covers(q \o <<e>>, Payloads, Number, m, N)
  <2> DEFINE o == <<e>>
  <2>1. /\ Ordered(o, Payloads, Number, n, N) /\ o \in Seq(ExtMessages)
        /\ N = n + 1 => Covers(o, Payloads, Number, n, N)
    <3>1. n < Number[e] /\ Number[e] =< N
      BY <1>1, <1>3, <1>4
    <3>2. QED
      BY <1>1, <1>3, <1>4, <3>1, OneNumber
  <2> HIDE DEF o
  <2>2. n =< N
    BY <1>1, <1>4
  <2>3. /\ Ordered(q \o o, Payloads, Number, m, N)
        /\ Covers(q, Payloads, Number, m, n) /\ Covers(o, Payloads, Number, n, N) =>
              Covers(q \o o, Payloads, Number, m, N)
    BY <1>1, <1>3, <1>4, <2>1, <2>2, NumbersJoined
  <2>4. QED
    BY <2>1, <2>3 DEF o
<1>5. PICK m \in Nat, n \in Nat :
          /\ m =< n /\ n < N
          /\ Ordered(r, Nat, Same, 0, m)
          /\ Ordered(q, Payloads, Number, m, n)
  BY DEF Pipe
<1>6. Ordered(w, Nat, Same, N, N)
  BY <1>1 DEF Ordered
<1>7. Pipe(r, q \o <<e>>, 0, w, N)
  <2>1. m =< N /\ N =< N /\ Ordered(q \o <<e>>, Payloads, Number, m, N)
    BY <1>1, <1>4, <1>5
  <2>2. QED
    BY <1>1, <1>5, <1>6, <2>1 DEF Pipe
<1>8. ASSUME Whole(r, q, x, w, N) PROVE Whole(r, q \o <<e>>, 0, w, N)
  <2>1. PICK a, l : a = Len(r) /\ l = Gone(x, w, N)
    OBVIOUS
  <2>2. a \in Nat /\ l \in Nat /\ a =< l /\ l < N /\ N = l + 1 /\ Gone(0, w, N) = N
    BY <1>1, <1>8, <2>1 DEF Whole, Gone, PipeTypes
  <2>3. Ordered(q, Payloads, Number, a, l) /\ Covers(q, Payloads, Number, a, l)
    BY <1>8, <2>1 DEF Whole
  <2>4. Ordered(q \o <<e>>, Payloads, Number, a, N) /\ Covers(q \o <<e>>, Payloads, Number, a, N)
    BY <1>4, <2>2, <2>3
  <2>5. a =< N
    BY <1>1, <2>2
  <2>6. QED
    BY <1>1, <1>8, <2>1, <2>2, <2>4, <2>5 DEF Whole
<1>9. QED
  BY <1>2, <1>7, <1>8

-----------------------------------------------------------------------------
(* The states of an extension.                                             *)

LEMMA StateSent ==
    ASSUME NEW q \in Seq(ExtMessages), NEW e \in States, NEW b
    PROVE  /\ WillConnect(q \o <<e>>, b) <=> e.kind # "Disconnected"
           /\ Readies(q) => Readies(q \o <<e>>)
           /\ e = Ext!State("Ready") => Readies(q \o <<e>>)
<1>1. e \in ExtMessages
  BY DEF ExtMessages
<1> DEFINE r == Append(q, e)
           a == Len(q)
<1>2. /\ a \in Nat /\ Len(r) = a + 1 /\ r[a + 1] = e /\ \A i \in 1 .. a : r[i] = q[i]
      /\ r = q \o <<e>>
  BY <1>1, Appended
<1>3. a + 1 \in 1 .. Len(r) /\ (\A i \in 1 .. Len(r) : i = a + 1 \/ i \in 1 .. a) /\ (\A i \in 1 .. a : i \in 1 .. Len(r))
  BY <1>2
<1>4. /\ \A i \in 1 .. Len(r) : ~(a + 1 < i)
      /\ \A i \in 1 .. a : i < a + 1
  BY <1>2
<1> HIDE DEF r, a
<1>5. WillConnect(r, b) <=> e.kind # "Disconnected"
  BY <1>2, <1>3, <1>4 DEF WillConnect
<1>6. Readies(q) => Readies(r)
  BY <1>2, <1>3 DEF Readies, a
<1>7. e = Ext!State("Ready") => Readies(r)
  BY <1>2, <1>3 DEF Readies
<1>8. QED
  BY <1>2, <1>5, <1>6, <1>7

LEMMA PayloadsSent ==
    ASSUME NEW q \in Seq(ExtMessages), NEW p \in Seq(ExtMessages), NEW b,
           \A i \in 1 .. Len(p) : p[i] \in Payloads
    PROVE  /\ WillConnect(q, b) => WillConnect(q \o p, b)
           /\ Readies(q) => Readies(q \o p)
<1> DEFINE r == q \o p
           a == Len(q)
           c == Len(p)
<1>1. /\ a \in Nat /\ c \in Nat /\ Len(r) = a + c
      /\ \A i \in 1 .. a : r[i] = q[i]
      /\ \A i \in 1 .. Len(r) : i \in 1 .. a \/ (i - a \in 1 .. c /\ r[i] = p[i - a] /\ i > a)
  BY Joined
<1>2. \A i \in 1 .. a : i \in 1 .. Len(r)
  BY <1>1
<1>3. \A i \in 1 .. Len(r) : i \notin 1 .. a => r[i] \notin States
  BY <1>1 DEF Payloads, States
<1> HIDE DEF r, a
<1>4. WillConnect(q, b) => WillConnect(r, b)
  <2>1. (\E i \in 1 .. Len(r) : r[i] \in States) <=> (\E i \in 1 .. a : q[i] \in States)
    BY <1>1, <1>2, <1>3
  <2>2. ASSUME \A i \in 1 .. a : q[i] \in States /\ (\A j \in 1 .. a : i < j => q[j] \notin States)
                   => q[i].kind # "Disconnected",
               NEW i \in 1 .. Len(r), r[i] \in States, \A j \in 1 .. Len(r) : i < j => r[j] \notin States
        PROVE  r[i].kind # "Disconnected"
    <3>1. i \in 1 .. a /\ r[i] = q[i]
      BY <1>1, <1>3, <2>2
    <3>2. \A j \in 1 .. a : i < j => q[j] \notin States
      BY <1>1, <1>2, <2>2
    <3>3. QED
      BY <2>2, <3>1, <3>2
  <2>3. QED
    BY <2>1, <2>2 DEF WillConnect, a
<1>5. Readies(q) => Readies(r)
  BY <1>1, <1>2 DEF Readies, a
<1>6. QED
  BY <1>4, <1>5 DEF r

LEMMA StateTaken ==
    ASSUME NEW q \in Seq(ExtMessages), q # <<>>, NEW b, NEW c,
           c = IF Head(q) \in Payloads THEN b ELSE Head(q).kind # "Disconnected"
    PROVE  /\ WillConnect(q, b) => WillConnect(Tail(q), c)
           /\ Readies(q) /\ Head(q) # Ext!State("Ready") => Readies(Tail(q))
<1> DEFINE r == Tail(q)
           a == Len(q)
<1>1. /\ Head(q) = q[1] /\ Head(q) \in ExtMessages /\ a \in Nat /\ a >= 1 /\ Len(r) = a - 1
      /\ \A i \in 1 .. a - 1 : r[i] = q[i + 1]
  BY First
<1>2. /\ \A i \in 1 .. Len(r) : i + 1 \in 1 .. a /\ r[i] = q[i + 1]
      /\ \A i \in 1 .. a : i = 1 \/ i - 1 \in 1 .. Len(r)
  BY <1>1
<1>3. \A i \in 1 .. a : i - 1 \in 1 .. Len(r) => r[i - 1] = q[i]
  BY <1>1
<1>4. 1 \in 1 .. a
  BY <1>1
<1>5. Head(q) \in States <=> Head(q) \notin Payloads
  BY <1>1, MessageTypes
<1> HIDE DEF r, a
<1>6. ASSUME WillConnect(q, b) PROVE WillConnect(r, c)
  <2>1. CASE \E i \in 1 .. Len(r) : r[i] \in States
    <3>1. \E i \in 1 .. a : q[i] \in States
      BY <1>2, <2>1
    <3> SUFFICES ASSUME NEW i \in 1 .. Len(r), r[i] \in States,
                        \A j \in 1 .. Len(r) : i < j => r[j] \notin States
                 PROVE  r[i].kind # "Disconnected"
      BY <2>1 DEF WillConnect
    <3>2. PICK k \in 1 .. a : k = i + 1 /\ r[i] = q[k]
      BY <1>2
    <3>3. ASSUME NEW j \in 1 .. a, k < j PROVE q[j] \notin States
      <4>1. PICK l : l = j - 1
        OBVIOUS
      <4>2. j # 1
        BY <3>2, <3>3
      <4>3. l \in 1 .. Len(r) /\ r[l] = q[j] /\ i < l
        BY <1>2, <1>3, <3>2, <3>3, <4>1, <4>2
      <4>4. QED
        BY <4>3
    <3>4. QED
      BY <1>6, <3>1, <3>2, <3>3 DEF WillConnect, a
  <2>2. CASE ~\E i \in 1 .. Len(r) : r[i] \in States
    <3>1. \A i \in 1 .. a : i # 1 => q[i] \notin States
      BY <1>2, <1>3, <2>2
    <3>2. CASE Head(q) \in Payloads
      <4>1. ~\E i \in 1 .. a : q[i] \in States
        BY <1>1, <1>5, <3>1, <3>2
      <4>2. b
        BY <1>6, <4>1 DEF WillConnect, a
      <4>3. QED
        BY <2>2, <3>2, <4>2 DEF WillConnect
    <3>3. CASE Head(q) \notin Payloads
      <4>1. q[1] \in States /\ \A j \in 1 .. a : 1 < j => q[j] \notin States
        BY <1>1, <1>5, <3>1, <3>3
      <4>2. q[1].kind # "Disconnected"
        BY <1>4, <1>6, <4>1 DEF WillConnect, a
      <4>3. QED
        BY <1>1, <2>2, <3>3, <4>2 DEF WillConnect
    <3>4. QED
      BY <3>2, <3>3
  <2>3. QED
    BY <2>1, <2>2
<1>7. ASSUME Readies(q), Head(q) # Ext!State("Ready") PROVE Readies(r)
  <2>1. PICK i \in 1 .. a : q[i] = Ext!State("Ready")
    BY <1>7 DEF Readies, a
  <2>2. i # 1
    BY <1>1, <1>7, <2>1
  <2>3. QED
    BY <1>2, <1>3, <2>1, <2>2 DEF Readies
<1>8. QED
  BY <1>6, <1>7 DEF r

LEMMA NoPayloads ==
    ASSUME NEW q \in Seq(ExtMessages), \A i \in 1 .. Len(q) : q[i] \notin Payloads
    PROVE  /\ \A e \in States : \A i \in 1 .. Len(q \o <<e>>) : (q \o <<e>>)[i] \notin Payloads
           /\ q # <<>> => /\ Head(q) \notin Payloads
                          /\ \A i \in 1 .. Len(Tail(q)) : Tail(q)[i] \notin Payloads
<1>1. ASSUME NEW e \in States PROVE \A i \in 1 .. Len(q \o <<e>>) : (q \o <<e>>)[i] \notin Payloads
  <2>1. e \in ExtMessages /\ e \notin Payloads
    BY MessageTypes DEF ExtMessages
  <2>2. /\ Append(q, e) = q \o <<e>> /\ Len(q) \in Nat /\ Len(Append(q, e)) = Len(q) + 1
        /\ \A i \in 1 .. Len(q) : Append(q, e)[i] = q[i]
        /\ Append(q, e)[Len(q) + 1] = e
    BY <2>1, Appended
  <2>3. PICK a, r : a = Len(q) /\ r = Append(q, e)
    OBVIOUS
  <2>4. \A i \in 1 .. a + 1 : i \in 1 .. a \/ i = a + 1
    BY <2>2, <2>3
  <2>5. \A i \in 1 .. Len(r) : r[i] \notin Payloads
    BY <2>1, <2>2, <2>3, <2>4
  <2>6. QED
    BY <2>2, <2>3, <2>5
<1>2. ASSUME q # <<>>
      PROVE  Head(q) \notin Payloads /\ \A i \in 1 .. Len(Tail(q)) : Tail(q)[i] \notin Payloads
  <2>1. /\ Head(q) = q[1] /\ Len(q) \in Nat /\ Len(q) >= 1 /\ Len(Tail(q)) = Len(q) - 1
        /\ \A i \in 1 .. Len(q) - 1 : Tail(q)[i] = q[i + 1]
    BY <1>2, First
  <2>2. 1 \in 1 .. Len(q) /\ \A i \in 1 .. Len(q) - 1 : i + 1 \in 1 .. Len(q)
    BY <2>1
  <2>3. QED
    BY <2>1, <2>2
<1>3. QED
  BY <1>1, <1>2

LEMMA ExtInit == Ext!Init => ExtInv
<1> SUFFICES ASSUME Ext!Init PROVE ExtInv
  OBVIOUS
<1>1. Len(<<>>) = 0 /\ \A s \in Ext!Ends : Ext!Other(s) \in Ext!Ends
  BY EmptySeq DEF Ext!Ends, Ext!Other
<1>2. ExtTypeOK
  BY DEF Ext!Init, ExtTypeOK
<1>3. Pipe(<<>>, <<>>, 0, <<>>, 0)
  BY NoNumbers DEF Pipe
<1>4. Whole(<<>>, <<>>, 0, <<>>, 0)
  BY <1>1, NoNumbers DEF Whole, Gone
<1>5. ASSUME NEW s \in Ext!Ends PROVE EndInv(s)
  <2>1. /\ ~bound[s] /\ ~connected[s] /\ ~flushing[s] /\ sendQ[s] = <<>>
        /\ sent[s] = 0 /\ sending[s] = 0 /\ received[s] = <<>> /\ realWire[s] = <<>>
        /\ realWire[Ext!Other(s)] = <<>> /\ ~connected[Ext!Other(s)] /\ ~flushing[Ext!Other(s)]
        /\ sending[Ext!Other(s)] = 0
    BY <1>1 DEF Ext!Init
  <2>3. Meet(s) /\ Flushed(s) /\ Untouched(s)
    BY <1>1, <2>1 DEF Meet, Flushed, Untouched
  <2>2. PipeOf(s) /\ WholeOf(s)
    BY <1>1, <1>3, <1>4 DEF Ext!Init, PipeOf, WholeOf
  <2>4. QED
    BY <2>2, <2>3 DEF EndInv
<1>6. QED
  BY <1>2, <1>5 DEF ExtInv

-----------------------------------------------------------------------------
(* The steps of an extension.                                              *)

LEMMA Both ==
    ASSUME NEW s \in Ext!Ends
    PROVE  /\ Ext!Other(s) \in Ext!Ends /\ Ext!Other(s) # s /\ Ext!Other(Ext!Other(s)) = s
           /\ \A e \in Ext!Ends : e = s \/ e = Ext!Other(s)
  BY DEF Ext!Ends, Ext!Other

LEMMA EndTypes ==
    ASSUME ExtTypeOK, NEW s \in Ext!Ends
    PROVE  /\ PipeTypes(received[Ext!Other(s)], realWire[Ext!Other(s)], sending[s], sendQ[s], sent[s])
           /\ realWire[s] \in Seq(ExtMessages)
  BY Both DEF ExtTypeOK, PipeTypes

\* A state of s goes on its way: it is bound, or unbound.
LEMMA BindSteps ==
    ASSUME ExtInv, NEW s \in Ext!Ends, Ext!Bind(s) \/ Ext!Unbind(s)
    PROVE  ExtInv'
<1> PICK o : o = Ext!Other(s)
  OBVIOUS
<1>1. o \in Ext!Ends /\ o # s /\ Ext!Other(o) = s /\ Ext!Other(s) = o /\ \A e \in Ext!Ends : e = s \/ e = o
  BY Both
<1>2. ExtTypeOK /\ EndInv(s) /\ EndInv(o)
  BY <1>1 DEF ExtInv
<1>3. /\ PipeTypes(received[o], realWire[o], sending[s], sendQ[s], sent[s])
      /\ PipeTypes(received[s], realWire[s], sending[o], sendQ[o], sent[o])
      /\ realWire[s] \in Seq(ExtMessages) /\ realWire[o] \in Seq(ExtMessages)
  BY <1>1, <1>2, EndTypes
<1>4. PICK e \in States :
          /\ realWire' = [realWire EXCEPT ![o] = @ \o <<e>>]
          /\ Ext!Bind(s) => e = Ext!State("Ready")
  <2>1. Ext!State("Ready") \in States /\ Ext!State("Disconnected") \in States
    BY DEF States, Ext!State
  <2>2. CASE Ext!Bind(s)
    BY <1>1, <2>1, <2>2 DEF Ext!Bind, Ext!ToOther
  <2>3. CASE Ext!Unbind(s) /\ ~Ext!Bind(s)
    BY <1>1, <2>1, <2>3 DEF Ext!Unbind, Ext!ToOther
  <2>4. QED
    BY <2>2, <2>3
<1>5. <<e>> \in Seq(ExtMessages) /\ realWire[o] \o <<e>> \in Seq(ExtMessages)
  <2>1. e \in ExtMessages
    BY DEF ExtMessages
  <2>2. QED
    BY <1>3, <2>1
<1>6. realWire'[o] = realWire[o] \o <<e>> /\ realWire'[s] = realWire[s]
  BY <1>1, <1>2, <1>4 DEF ExtTypeOK
<1>7. /\ PipeOf(s) /\ PipeOf(o)
      /\ Pipe(received[o], realWire'[o], sending[s], sendQ[s], sent[s])
      /\ Pipe(received[o], realWire'[o], sending[s], <<>>, sent[s])
      /\ WholeOf(s) => Whole(received[o], realWire'[o], sending[s], sendQ[s], sent[s])
  BY <1>1, <1>2, <1>3, <1>6, PipeState, PipeForgets DEF EndInv, PipeOf, WholeOf
<1>8. CASE Ext!Bind(s)
  <2>1. /\ ~bound[s] /\ ~flushing[s] /\ sending[s] = 0
        /\ bound' = [bound EXCEPT ![s] = TRUE] /\ binds' = [binds EXCEPT ![s] = @ + 1]
        /\ connected' = [connected EXCEPT ![s] = FALSE] /\ sendQ' = [sendQ EXCEPT ![s] = <<>>]
        /\ UNCHANGED <<flushing, sending, sent, received>>
    BY <1>8 DEF Ext!Bind
  <2>2. ExtTypeOK'
    <3>1. <<>> \in Seq(Nat)
      OBVIOUS
    <3>2. realWire' \in [Ext!Ends -> Seq(ExtMessages)]
      BY <1>2, <1>4, <1>5 DEF ExtTypeOK
    <3>3. bound' \in [Ext!Ends -> BOOLEAN] /\ connected' \in [Ext!Ends -> BOOLEAN]
      BY <1>2, <2>1 DEF ExtTypeOK
    <3>4. binds' \in [Ext!Ends -> Nat]
      BY <1>2, <2>1 DEF ExtTypeOK
    <3>5. sendQ' \in [Ext!Ends -> Seq(Nat)]
      BY <1>2, <2>1, <3>1 DEF ExtTypeOK
    <3>6. QED
      BY <1>2, <2>1, <3>2, <3>3, <3>4, <3>5 DEF ExtTypeOK
  <2>3. /\ bound'[s] = TRUE /\ bound'[o] = bound[o] /\ binds'[s] = binds[s] + 1 /\ binds'[o] = binds[o]
        /\ connected'[s] = FALSE /\ connected'[o] = connected[o]
        /\ sendQ'[s] = <<>> /\ sendQ'[o] = sendQ[o] /\ binds[s] \in Nat
    BY <1>1, <1>2, <2>1 DEF ExtTypeOK
  <2>4. Readies(realWire'[o]) /\ WillConnect(realWire'[o], connected[o])
    BY <1>3, <1>4, <1>6, <1>8, StateSent DEF Ext!State
  <2>5. Meet(s)' /\ Flushed(s)' /\ PipeOf(s)'
    BY <1>1, <1>7, <2>1, <2>3, <2>4 DEF Meet, Flushed, PipeOf
  <2>6. Meet(o)' /\ Flushed(o)' /\ PipeOf(o)'
    BY <1>1, <1>2, <1>6, <1>7, <2>1, <2>3, <2>4 DEF EndInv, Meet, Flushed, PipeOf
  <2>7. ASSUME Ext!NoneUnbound'
        PROVE  Untouched(s)' /\ WholeOf(s)' /\ Untouched(o)' /\ WholeOf(o)'
    <3>1. binds[s] = 0 /\ (binds[o] =< 1 /\ (binds[o] = 1 => bound[o]))
      BY <1>1, <2>3, <2>7 DEF Ext!NoneUnbound
    <3>2. Ext!NoneUnbound
      BY <1>1, <3>1 DEF Ext!NoneUnbound
    <3>3. Untouched(s) /\ WholeOf(s) /\ Untouched(o) /\ WholeOf(o)
      BY <1>2, <3>2 DEF EndInv
    <3>4. sendQ[s] = <<>>
      BY <3>1, <3>3 DEF Untouched
    <3>5. WholeOf(s)' /\ WholeOf(o)'
      BY <1>1, <1>6, <1>7, <2>1, <2>3, <3>3, <3>4 DEF WholeOf
    <3>6. Untouched(s)'
      BY <2>3, <3>1 DEF Untouched
    <3>7. Untouched(o)'
      <4> SUFFICES ASSUME binds[o] = 0 PROVE
             /\ ~bound'[o] /\ ~connected'[o] /\ ~flushing'[o]
             /\ sent'[o] = 0 /\ sending'[o] = 0 /\ sendQ'[o] = <<>>
             /\ realWire'[s] = <<>> /\ received'[o] = <<>>
             /\ ~connected'[s] /\ ~flushing'[s] /\ sending'[s] = 0
             /\ \A i \in 1 .. Len(realWire'[o]) : realWire'[o][i] \notin Payloads
        BY <1>1, <2>3 DEF Untouched
      <4>1. \A i \in 1 .. Len(realWire[o]) : realWire[o][i] \notin Payloads
        BY <3>3 DEF Untouched
      <4>2. \A i \in 1 .. Len(realWire'[o]) : realWire'[o][i] \notin Payloads
        BY <1>3, <1>6, <4>1, NoPayloads
      <4>3. /\ ~bound[o] /\ ~connected[o] /\ ~flushing[o] /\ sent[o] = 0 /\ sending[o] = 0
            /\ sendQ[o] = <<>> /\ realWire[s] = <<>> /\ received[o] = <<>>
        BY <1>1, <3>3 DEF Untouched
      <4>4. QED
        BY <1>6, <2>1, <2>3, <4>2, <4>3
    <3>8. QED
      BY <3>5, <3>6, <3>7
  <2>8. QED
    BY <1>1, <2>2, <2>5, <2>6, <2>7 DEF ExtInv, EndInv
<1>9. CASE Ext!Unbind(s)
  <2>1. /\ bound[s] /\ bound' = [bound EXCEPT ![s] = FALSE]
        /\ UNCHANGED <<binds, connected, flushing, sendQ, sending, sent, received>>
    BY <1>9 DEF Ext!Unbind
  <2>2. ExtTypeOK'
    <3>1. realWire' \in [Ext!Ends -> Seq(ExtMessages)]
      BY <1>2, <1>4, <1>5 DEF ExtTypeOK
    <3>2. QED
      BY <1>2, <2>1, <3>1 DEF ExtTypeOK
  <2>3. bound'[s] = FALSE /\ bound'[o] = bound[o] /\ binds[s] \in Nat
    BY <1>1, <1>2, <2>1 DEF ExtTypeOK
  <2>4. Meet(s)' /\ Flushed(s)' /\ PipeOf(s)'
    BY <1>1, <1>2, <1>7, <2>1, <2>3 DEF EndInv, Meet, Flushed, PipeOf
  <2>5. Meet(o)' /\ Flushed(o)' /\ PipeOf(o)'
    BY <1>1, <1>2, <1>6, <1>7, <2>1, <2>3 DEF EndInv, Meet, Flushed, PipeOf
  <2>6. ~Ext!NoneUnbound'
    <3> SUFFICES ASSUME Ext!NoneUnbound' PROVE FALSE
      OBVIOUS
    <3>1. binds[s] = 0 /\ binds[o] =< 1 /\ (binds[o] = 1 => bound[o])
      BY <1>1, <2>1, <2>3 DEF Ext!NoneUnbound
    <3>2. Ext!NoneUnbound
      BY <1>1, <3>1 DEF Ext!NoneUnbound
    <3>3. Untouched(s)
      BY <1>2, <3>2 DEF EndInv
    <3>4. QED
      BY <2>1, <3>1, <3>3 DEF Untouched
  <2>7. QED
    BY <1>1, <2>2, <2>4, <2>5, <2>6 DEF ExtInv, EndInv
<1>10. QED
  BY <1>8, <1>9

\* A message for an end that is not bound.
LEMMA DroppedSteps ==
    ASSUME ExtInv, NEW s \in Ext!Ends, Ext!Dropped(s)
    PROVE  ExtInv'
<1> PICK o : o = Ext!Other(s)
  OBVIOUS
<1>1. o \in Ext!Ends /\ o # s /\ Ext!Other(o) = s /\ Ext!Other(s) = o /\ \A e \in Ext!Ends : e = s \/ e = o
  BY Both
<1>2. ExtTypeOK /\ EndInv(s) /\ EndInv(o)
  BY <1>1 DEF ExtInv
<1>3. /\ PipeTypes(received[s], realWire[s], sending[o], sendQ[o], sent[o])
      /\ realWire[s] \in Seq(ExtMessages) /\ realWire[s] # <<>> /\ ~bound[s]
  BY <1>1, <1>2, EndTypes DEF Ext!Dropped
<1>4. /\ realWire' = [realWire EXCEPT ![s] = Tail(@)]
      /\ UNCHANGED <<bound, binds, connected, flushing, sendQ, sending, sent, received>>
  BY DEF Ext!Dropped
<1>5. Tail(realWire[s]) \in Seq(ExtMessages)
  BY <1>3, First
<1>6. ExtTypeOK'
  BY <1>2, <1>4, <1>5 DEF ExtTypeOK
<1>7. realWire'[s] = Tail(realWire[s]) /\ realWire'[o] = realWire[o]
  BY <1>1, <1>2, <1>4 DEF ExtTypeOK
<1>8. /\ Pipe(received[s], realWire'[s], sending[o], sendQ[o], sent[o])
      /\ WholeOf(o) /\ Head(realWire[s]) \notin Payloads =>
            Whole(received[s], realWire'[s], sending[o], sendQ[o], sent[o])
  BY <1>1, <1>2, <1>3, <1>7, PipeTaken DEF EndInv, PipeOf, WholeOf
<1>9. /\ Meet(s)' /\ Flushed(s)' /\ PipeOf(s)' /\ Meet(o)' /\ Flushed(o)' /\ PipeOf(o)'
  BY <1>1, <1>2, <1>3, <1>4, <1>7, <1>8 DEF EndInv, Meet, Flushed, PipeOf
<1>10. ASSUME Ext!NoneUnbound' PROVE Untouched(s)' /\ WholeOf(s)' /\ Untouched(o)' /\ WholeOf(o)'
  <2>1. Ext!NoneUnbound /\ binds[s] \in Nat
    BY <1>2, <1>4, <1>10 DEF Ext!NoneUnbound, ExtTypeOK
  <2>2. Untouched(s) /\ WholeOf(s) /\ Untouched(o) /\ WholeOf(o)
    BY <1>2, <2>1 DEF EndInv
  <2>3. binds[s] = 0
    BY <1>3, <2>1 DEF Ext!NoneUnbound
  <2>4. binds[o] # 0
    BY <1>1, <1>3, <2>2 DEF Untouched
  <2>5. \A i \in 1 .. Len(realWire[s]) : realWire[s][i] \notin Payloads
    BY <2>2, <2>3 DEF Untouched
  <2>6. Head(realWire[s]) \notin Payloads /\ \A i \in 1 .. Len(realWire'[s]) : realWire'[s][i] \notin Payloads
    BY <1>3, <1>7, <2>5, NoPayloads
  <2>7. Untouched(s)'
    BY <1>1, <1>4, <1>7, <2>2, <2>6 DEF Untouched
  <2>8. Untouched(o)'
    BY <1>4, <2>4 DEF Untouched
  <2>9. WholeOf(s)' /\ WholeOf(o)'
    BY <1>1, <1>4, <1>7, <1>8, <2>2, <2>6 DEF WholeOf
  <2>10. QED
    BY <2>7, <2>8, <2>9
<1>11. QED
  BY <1>1, <1>6, <1>9, <1>10 DEF ExtInv, EndInv

\* The other end's state, or a payload of it.
LEMMA ReceiveSteps ==
    ASSUME ExtInv, NEW s \in Ext!Ends, Ext!ReceiveReady(s) \/ Ext!ReceiveState(s) \/ Ext!ReceivePayload(s)
    PROVE  ExtInv'
<1> PICK o : o = Ext!Other(s)
  OBVIOUS
<1> DEFINE e == Head(realWire[s])
<1>1. o \in Ext!Ends /\ o # s /\ Ext!Other(o) = s /\ Ext!Other(s) = o /\ \A e1 \in Ext!Ends : e1 = s \/ e1 = o
  BY Both
<1>2. ExtTypeOK /\ EndInv(s) /\ EndInv(o)
  BY <1>1 DEF ExtInv
<1>3. /\ bound[s] /\ ~flushing[s] /\ realWire[s] # <<>>
      /\ UNCHANGED <<bound, binds, sendQ, sending, sent>>
  BY DEF Ext!ReceiveReady, Ext!ReceiveState, Ext!ReceivePayload, Ext!Receives
<1>4. /\ PipeTypes(received[o], realWire[o], sending[s], sendQ[s], sent[s])
      /\ PipeTypes(received[s], realWire[s], sending[o], sendQ[o], sent[o])
      /\ realWire[s] \in Seq(ExtMessages) /\ realWire[o] \in Seq(ExtMessages)
  BY <1>1, <1>2, EndTypes
<1>5. e \in ExtMessages /\ Tail(realWire[s]) \in Seq(ExtMessages)
  BY <1>3, <1>4, First
<1>6. PICK k : k = Ext!State("ReceivedCounterpart")
  OBVIOUS
<1>7. k \in States /\ k.kind = "ReceivedCounterpart" /\ k \in ExtMessages
  BY <1>6 DEF States, Ext!State, ExtMessages
<1>8. realWire[o] \o <<k>> \in Seq(ExtMessages) /\ Append(realWire[o], k) = realWire[o] \o <<k>>
  BY <1>4, <1>7, Appended
<1>9. /\ WillConnect(realWire[o] \o <<k>>, connected[o])
      /\ Readies(realWire[o]) => Readies(realWire[o] \o <<k>>)
  BY <1>4, <1>7, StateSent
\* Its answer, if any, disturbs nothing at the other end.
<1>10. ASSUME realWire'[o] \in {realWire[o], realWire[o] \o <<k>>}
       PROVE  /\ Pipe(received[o], realWire'[o], sending[s], sendQ[s], sent[s])
              /\ WholeOf(s) => Whole(received[o], realWire'[o], sending[s], sendQ[s], sent[s])
              /\ Readies(realWire[o]) => Readies(realWire'[o])
              /\ WillConnect(realWire'[o], connected[o]) \/ realWire'[o] = realWire[o]
  BY <1>1, <1>2, <1>4, <1>7, <1>9, <1>10, PipeState DEF EndInv, PipeOf, WholeOf
\* Neither end is untouched.
<1>11. Ext!NoneUnbound' =>
          Ext!NoneUnbound /\ WholeOf(s) /\ WholeOf(o) /\ binds[s] # 0 /\ binds[o] # 0
  <2> SUFFICES ASSUME Ext!NoneUnbound' PROVE Ext!NoneUnbound /\ WholeOf(s) /\ WholeOf(o) /\ binds[s] # 0 /\ binds[o] # 0
    OBVIOUS
  <2>1. Ext!NoneUnbound
    BY <1>3 DEF Ext!NoneUnbound
  <2>2. Untouched(s) /\ Untouched(o) /\ WholeOf(s) /\ WholeOf(o)
    BY <1>2, <2>1 DEF EndInv
  <2>3. QED
    BY <1>1, <1>3, <2>1, <2>2 DEF Untouched
<1>12. Ext!NoneUnbound' => Untouched(s)' /\ Untouched(o)'
  BY <1>3, <1>11 DEF Untouched
<1> HIDE DEF e
<1>13. CASE Ext!ReceiveReady(s) \/ Ext!ReceiveState(s)
  <2>1. PICK b \in BOOLEAN :
          /\ e.kind # "payload"
          /\ b = (e.kind # "Disconnected")
          /\ connected' = [connected EXCEPT ![s] = b]
          /\ flushing' = [flushing EXCEPT ![s] = b /\ ~connected[s]]
          /\ received' = received
          /\ realWire'[s] = Tail(realWire[s])
          /\ realWire'[o] = IF e.kind = "Ready" THEN realWire[o] \o <<k>> ELSE realWire[o]
          /\ realWire' \in [Ext!Ends -> Seq(ExtMessages)]
    <3>1. CASE Ext!ReceiveReady(s)
      <4>1. /\ e.kind = "Ready" /\ received' = received
            /\ connected' = [connected EXCEPT ![s] = TRUE]
            /\ flushing' = [flushing EXCEPT ![s] = TRUE /\ ~connected[s]]
            /\ realWire' = [realWire EXCEPT ![s] = Tail(@), ![o] = Append(@, k)]
        BY <1>1, <1>6, <3>1 DEF Ext!ReceiveReady, Ext!Receives, Ext!connected_set, Ext!ready_answered, e
      <4>2. /\ realWire'[s] = Tail(realWire[s]) /\ realWire'[o] = realWire[o] \o <<k>>
            /\ realWire' \in [Ext!Ends -> Seq(ExtMessages)]
        <5>1. realWire'[s] = Tail(realWire[s]) /\ realWire'[o] = Append(realWire[o], k)
          BY <1>1, <1>2, <4>1 DEF ExtTypeOK
        <5>2. realWire' \in [Ext!Ends -> Seq(ExtMessages)]
          BY <1>2, <1>5, <1>8, <4>1 DEF ExtTypeOK
        <5>3. QED
          BY <1>8, <5>1, <5>2
      <4>3. QED
        BY <4>1, <4>2
    <3>2. CASE Ext!ReceiveState(s)
      <4>1. PICK kind \in {"ReceivedCounterpart", "Disconnected"} :
               /\ e.kind = kind /\ received' = received
               /\ connected' = [connected EXCEPT ![s] = (kind = "ReceivedCounterpart")]
               /\ flushing' = [flushing EXCEPT ![s] = (kind = "ReceivedCounterpart") /\ ~connected[s]]
               /\ realWire' = [realWire EXCEPT ![s] = Tail(@)]
        BY <3>2 DEF Ext!ReceiveState, Ext!Receives, Ext!connected_set, e
      <4>2. /\ realWire'[s] = Tail(realWire[s]) /\ realWire'[o] = realWire[o]
            /\ realWire' \in [Ext!Ends -> Seq(ExtMessages)]
        BY <1>1, <1>2, <1>5, <4>1 DEF ExtTypeOK
      <4>3. (kind = "ReceivedCounterpart") = (e.kind # "Disconnected")
        BY <4>1
      <4>4. QED
        BY <4>1, <4>2, <4>3
    <3>3. QED
      BY <1>13, <3>1, <3>2
  <2>2. e \notin Payloads
    BY <1>5, <2>1, MessageTypes
  <2>3. /\ connected'[s] = b /\ connected'[o] = connected[o]
        /\ flushing'[s] = (b /\ ~connected[s]) /\ flushing'[o] = flushing[o]
    BY <1>1, <1>2, <2>1 DEF ExtTypeOK
  <2>4. ExtTypeOK'
    <3>1. connected' \in [Ext!Ends -> BOOLEAN] /\ flushing' \in [Ext!Ends -> BOOLEAN]
      BY <1>2, <2>1 DEF ExtTypeOK
    <3>2. QED
      BY <1>2, <1>3, <2>1, <3>1 DEF ExtTypeOK
  <2>5. /\ Pipe(received[s], realWire'[s], sending[o], sendQ[o], sent[o])
        /\ WholeOf(o) => Whole(received[s], realWire'[s], sending[o], sendQ[o], sent[o])
    BY <1>1, <1>2, <1>3, <1>4, <2>1, <2>2, PipeTaken DEF EndInv, PipeOf, WholeOf, e
  <2>6. /\ WillConnect(realWire[s], connected[s]) => WillConnect(realWire'[s], b)
        /\ Readies(realWire[s]) /\ e.kind # "Ready" => Readies(realWire'[s])
    <3>1. e = Ext!State("Ready") => e.kind = "Ready"
      BY DEF Ext!State
    <3>2. b = IF e \in Payloads THEN connected[s] ELSE e.kind # "Disconnected"
      BY <2>1, <2>2
    <3>3. WillConnect(realWire[s], connected[s]) => WillConnect(Tail(realWire[s]), b)
      BY <1>3, <1>4, <3>2, StateTaken DEF e
    <3>4. Readies(realWire[s]) /\ e # Ext!State("Ready") => Readies(Tail(realWire[s]))
      BY <1>3, <1>4, <3>2, StateTaken DEF e
    <3>5. QED
      BY <2>1, <3>1, <3>3, <3>4
  <2>7. Meet(s)'
    BY <1>1, <1>2, <1>3, <1>10, <2>1, <2>3, <2>6 DEF EndInv, Meet
  <2>8. Meet(o)'
    <3>1. CASE e.kind = "Ready"
      BY <1>1, <1>9, <2>1, <2>3, <3>1 DEF Meet
    <3>2. CASE e.kind # "Ready"
      BY <1>1, <1>2, <1>3, <2>1, <2>3, <2>6, <3>2 DEF EndInv, Meet
    <3>3. QED
      BY <3>1, <3>2
  <2>9. Flushed(s)' /\ Flushed(o)'
    BY <1>2, <1>3, <2>3 DEF EndInv, Flushed
  <2>10. PipeOf(s)' /\ PipeOf(o)'
    BY <1>1, <1>3, <1>10, <2>1, <2>5 DEF PipeOf
  <2>11. Ext!NoneUnbound' => WholeOf(s)' /\ WholeOf(o)'
    BY <1>1, <1>3, <1>10, <1>11, <2>1, <2>5 DEF WholeOf
  <2>12. QED
    BY <1>1, <1>12, <2>4, <2>7, <2>8, <2>9, <2>10, <2>11 DEF ExtInv, EndInv
<1>14. CASE Ext!ReceivePayload(s)
  <2>1. /\ e.kind = "payload"
        /\ received' = [received EXCEPT ![s] = Append(@, e.number)]
        /\ realWire' = [realWire EXCEPT ![s] = Tail(@)]
        /\ UNCHANGED <<connected, flushing>>
    BY <1>14 DEF Ext!ReceivePayload, Ext!Receives, e
  <2>2. e \in Payloads /\ e.number \in Nat
    BY <1>5, <2>1, MessageTypes DEF Payloads
  <2>3. /\ realWire'[s] = Tail(realWire[s]) /\ realWire'[o] = realWire[o]
        /\ received'[s] = Append(received[s], e.number) /\ received'[o] = received[o]
    BY <1>1, <1>2, <2>1 DEF ExtTypeOK
  <2>4. ExtTypeOK'
    <3>1. Append(received[s], e.number) \in Seq(Nat)
      BY <1>2, <2>2 DEF ExtTypeOK
    <3>2. QED
      BY <1>2, <1>3, <1>5, <2>1, <3>1 DEF ExtTypeOK
  <2>5. /\ Pipe(received'[s], realWire'[s], sending[o], sendQ[o], sent[o])
        /\ WholeOf(o) => Whole(received'[s], realWire'[s], sending[o], sendQ[o], sent[o])
    BY <1>1, <1>2, <1>3, <1>4, <2>2, <2>3, PipeReceived DEF EndInv, PipeOf, WholeOf, e
  <2>6. /\ WillConnect(realWire[s], connected[s]) => WillConnect(realWire'[s], connected[s])
        /\ Readies(realWire[s]) => Readies(realWire'[s])
    <3>1. e # Ext!State("Ready")
      BY <2>1 DEF Ext!State
    <3>2. connected[s] = IF e \in Payloads THEN connected[s] ELSE e.kind # "Disconnected"
      BY <2>2
    <3>3. QED
      BY <1>3, <1>4, <2>3, <3>1, <3>2, StateTaken DEF e
  <2>7. Meet(s)' /\ Meet(o)' /\ Flushed(s)' /\ Flushed(o)'
    BY <1>1, <1>2, <1>3, <2>1, <2>3, <2>6 DEF EndInv, Meet, Flushed
  <2>8. PipeOf(s)' /\ PipeOf(o)'
    BY <1>1, <1>2, <1>3, <2>3, <2>5 DEF EndInv, PipeOf
  <2>9. Ext!NoneUnbound' => WholeOf(s)' /\ WholeOf(o)'
    BY <1>1, <1>3, <1>11, <2>3, <2>5 DEF WholeOf
  <2>10. QED
    BY <1>1, <1>12, <2>4, <2>7, <2>8, <2>9 DEF ExtInv, EndInv
<1>15. QED
  BY <1>13, <1>14

\* What waits is sent, or what is decided to be sent at once.
LEMMA SentSteps ==
    ASSUME ExtInv, NEW s \in Ext!Ends, Ext!Flush(s) \/ Ext!SendAtOnce(s)
    PROVE  ExtInv'
<1> PICK o : o = Ext!Other(s)
  OBVIOUS
<1>1. o \in Ext!Ends /\ o # s /\ Ext!Other(o) = s /\ Ext!Other(s) = o /\ \A e \in Ext!Ends : e = s \/ e = o
  BY Both
<1>2. ExtTypeOK /\ EndInv(s) /\ EndInv(o)
  BY <1>1 DEF ExtInv
<1>3. /\ PipeTypes(received[o], realWire[o], sending[s], sendQ[s], sent[s])
      /\ realWire[s] \in Seq(ExtMessages) /\ realWire[o] \in Seq(ExtMessages)
      /\ sendQ[s] \in Seq(Nat) /\ sending[s] \in Nat /\ sent[s] \in Nat
  BY <1>1, <1>2, EndTypes DEF PipeTypes
<1>4. flushing[s] \/ sending[s] # 0
  BY DEF Ext!Flush, Ext!SendAtOnce
<1>5. UNCHANGED <<bound, binds, connected, sent, received>>
  BY DEF Ext!Flush, Ext!SendAtOnce
<1>6. Pipe(received[o], realWire[o], sending[s], sendQ[s], sent[s])
  BY <1>1, <1>2 DEF EndInv, PipeOf
<1>7. PICK p \in Seq(ExtMessages), x \in Nat, w \in Seq(Nat) :
         /\ realWire' = [realWire EXCEPT ![o] = @ \o p]
         /\ \A i \in 1 .. Len(p) : p[i] \in Payloads
         /\ sending' = [sending EXCEPT ![s] = x] /\ sendQ' = [sendQ EXCEPT ![s] = w]
         /\ flushing' \in [Ext!Ends -> BOOLEAN] /\ flushing'[o] = flushing[o]
         /\ flushing'[s] = flushing[s] \/ w = <<>>
         /\ w = sendQ[s] \/ w = <<>>
         /\ Pipe(received[o], realWire[o] \o p, x, w, sent[s])
         /\ WholeOf(s) => Whole(received[o], realWire[o] \o p, x, w, sent[s])
  <2>1. CASE Ext!Flush(s)
    <3> DEFINE p == AsPayloads(sendQ[s])
    <3>1. /\ realWire' = [realWire EXCEPT ![o] = @ \o p]
          /\ sendQ' = [sendQ EXCEPT ![s] = <<>>] /\ sending' = sending
          /\ flushing' = [flushing EXCEPT ![s] = FALSE]
      BY <1>1, <2>1 DEF Ext!Flush, Ext!ToOther, AsPayloads
    <3>2. p \in Seq(ExtMessages) /\ \A i \in 1 .. Len(p) : p[i] \in Payloads
      <4>1. PICK n \in Nat : Ordered(sendQ[s], Nat, Same, n, sent[s])
        BY <1>6 DEF Pipe
      <4>2. QED
        BY <1>3, <4>1, PayloadsOrdered
    <3>3. /\ Pipe(received[o], realWire[o] \o p, sending[s], <<>>, sent[s])
          /\ WholeOf(s) => Whole(received[o], realWire[o] \o p, sending[s], <<>>, sent[s])
      BY <1>1, <1>3, <1>6, PipeFlushed DEF WholeOf
    <3> HIDE DEF p
    <3>4. sending' = [sending EXCEPT ![s] = sending[s]] /\ <<>> \in Seq(Nat)
      BY <1>2, <3>1 DEF ExtTypeOK
    <3>5. flushing' \in [Ext!Ends -> BOOLEAN] /\ flushing'[o] = flushing[o]
      BY <1>1, <1>2, <3>1 DEF ExtTypeOK
    <3>6. QED
      BY <1>3, <3>1, <3>2, <3>3, <3>4, <3>5
  <2>2. CASE Ext!SendAtOnce(s)
    <3> DEFINE p == <<Ext!Payload(sending[s])>>
    <3>1. /\ realWire' = [realWire EXCEPT ![o] = @ \o p] /\ sending[s] # 0
          /\ sendQ' = sendQ /\ sending' = [sending EXCEPT ![s] = 0] /\ flushing' = flushing
      BY <1>1, <2>2 DEF Ext!SendAtOnce, Ext!ToOther
    <3>2. p \in Seq(ExtMessages) /\ \A i \in 1 .. Len(p) : p[i] \in Payloads
      <4>1. PICK m : m = Ext!Payload(sending[s])
        OBVIOUS
      <4>2. m \in ExtMessages /\ m \in Payloads
        BY <1>3, <4>1, MessageTypes
      <4>3. <<m>> \in Seq(ExtMessages) /\ \A i \in 1 .. Len(<<m>>) : <<m>>[i] \in Payloads
        BY <4>2
      <4>4. QED
        BY <4>1, <4>3
    <3>3. /\ Pipe(received[o], realWire[o] \o p, 0, sendQ[s], sent[s])
          /\ WholeOf(s) => Whole(received[o], realWire[o] \o p, 0, sendQ[s], sent[s])
      BY <1>1, <1>3, <1>6, <3>1, PipeAtOnce DEF WholeOf
    <3> HIDE DEF p
    <3>4. sendQ' = [sendQ EXCEPT ![s] = sendQ[s]]
      BY <1>2, <3>1 DEF ExtTypeOK
    <3>5. flushing' \in [Ext!Ends -> BOOLEAN]
      BY <1>2, <3>1 DEF ExtTypeOK
    <3>6. QED
      BY <1>3, <3>1, <3>2, <3>3, <3>4, <3>5
  <2>3. QED
    BY <2>1, <2>2
<1>8. realWire[o] \o p \in Seq(ExtMessages)
  BY <1>3
<1>9. /\ realWire'[o] = realWire[o] \o p /\ realWire'[s] = realWire[s]
      /\ sending'[s] = x /\ sending'[o] = sending[o] /\ sendQ'[s] = w /\ sendQ'[o] = sendQ[o]
  BY <1>1, <1>2, <1>7 DEF ExtTypeOK
<1>10. ExtTypeOK'
  <2>1. realWire' \in [Ext!Ends -> Seq(ExtMessages)]
    BY <1>2, <1>7, <1>8 DEF ExtTypeOK
  <2>2. sending' \in [Ext!Ends -> Nat] /\ sendQ' \in [Ext!Ends -> Seq(Nat)]
    BY <1>2, <1>7 DEF ExtTypeOK
  <2>3. QED
    BY <1>2, <1>5, <1>7, <2>1, <2>2 DEF ExtTypeOK
<1>11. /\ WillConnect(realWire[o], connected[o]) => WillConnect(realWire'[o], connected[o])
       /\ Readies(realWire[o]) => Readies(realWire'[o])
  BY <1>3, <1>7, <1>9, PayloadsSent
<1>12. Meet(s)' /\ Meet(o)'
  BY <1>1, <1>2, <1>5, <1>9, <1>11 DEF EndInv, Meet
<1>13. Flushed(s)' /\ Flushed(o)'
  BY <1>1, <1>2, <1>5, <1>7, <1>9 DEF EndInv, Flushed
<1>14. PipeOf(s)' /\ PipeOf(o)'
  BY <1>1, <1>2, <1>5, <1>7, <1>9 DEF EndInv, PipeOf
<1>15. ASSUME Ext!NoneUnbound' PROVE Untouched(s)' /\ WholeOf(s)' /\ Untouched(o)' /\ WholeOf(o)'
  <2>1. Ext!NoneUnbound
    BY <1>5, <1>15 DEF Ext!NoneUnbound
  <2>2. Untouched(s) /\ Untouched(o) /\ WholeOf(s) /\ WholeOf(o)
    BY <1>2, <2>1 DEF EndInv
  <2>3. binds[s] # 0 /\ binds[o] # 0
    BY <1>1, <1>4, <2>2 DEF Untouched
  <2>4. Untouched(s)' /\ Untouched(o)'
    BY <1>5, <2>3 DEF Untouched
  <2>5. WholeOf(s)' /\ WholeOf(o)'
    BY <1>1, <1>5, <1>7, <1>9, <2>2 DEF WholeOf
  <2>6. QED
    BY <2>4, <2>5
<1>16. QED
  BY <1>1, <1>10, <1>12, <1>13, <1>14, <1>15 DEF ExtInv, EndInv

\* A message is sent at once, or waits.
LEMMA SendSteps ==
    ASSUME ExtInv, NEW s \in Ext!Ends, Ext!Send(s)
    PROVE  ExtInv'
<1> PICK o : o = Ext!Other(s)
  OBVIOUS
<1>1. o \in Ext!Ends /\ o # s /\ Ext!Other(o) = s /\ Ext!Other(s) = o /\ \A e \in Ext!Ends : e = s \/ e = o
  BY Both
<1>2. ExtTypeOK /\ EndInv(s) /\ EndInv(o)
  BY <1>1 DEF ExtInv
<1>3. /\ PipeTypes(received[o], realWire[o], sending[s], sendQ[s], sent[s])
      /\ sendQ[s] \in Seq(Nat) /\ sent[s] \in Nat
  BY <1>1, <1>2, EndTypes DEF PipeTypes
<1>4. /\ bound[s] /\ sending[s] = 0 /\ sent' = [sent EXCEPT ![s] = @ + 1]
      /\ UNCHANGED <<bound, binds, connected, flushing, realWire, received>>
  BY DEF Ext!Send
<1>5. sent'[s] = sent[s] + 1 /\ sent'[o] = sent[o]
  BY <1>1, <1>2, <1>4 DEF ExtTypeOK
<1>6. Pipe(received[o], realWire[o], 0, sendQ[s], sent[s])
  BY <1>1, <1>2, <1>4 DEF EndInv, PipeOf
<1>7. PICK x \in Nat, w \in Seq(Nat) :
         /\ sending' = [sending EXCEPT ![s] = x] /\ sendQ' = [sendQ EXCEPT ![s] = w]
         /\ w = <<>> \/ ~connected[s] \/ sendQ[s] # <<>>
         /\ ~connected[s] => x = 0
         /\ Pipe(received[o], realWire[o], x, w, sent[s] + 1)
         /\ WholeOf(s) => Whole(received[o], realWire[o], x, w, sent[s] + 1)
  <2>1. CASE Ext!must_wait(s)
    <3>1. /\ sendQ' = [sendQ EXCEPT ![s] = Append(@, sent[s] + 1)] /\ sending' = sending
          /\ sendQ[s] # <<>> \/ ~connected[s]
      BY <1>5, <2>1 DEF Ext!Send, Ext!must_wait
    <3>2. sending' = [sending EXCEPT ![s] = 0] /\ sendQ' = [sendQ EXCEPT ![s] = Append(sendQ[s], sent[s] + 1)]
      BY <1>2, <1>4, <3>1 DEF ExtTypeOK
    <3>3. Append(sendQ[s], sent[s] + 1) \in Seq(Nat)
      BY <1>3
    <3>4. /\ Pipe(received[o], realWire[o], 0, Append(sendQ[s], sent[s] + 1), sent[s] + 1)
          /\ WholeOf(s) => Whole(received[o], realWire[o], 0, Append(sendQ[s], sent[s] + 1), sent[s] + 1)
      BY <1>1, <1>3, <1>4, <1>6, PipeWaits DEF WholeOf
    <3>5. QED
      BY <3>1, <3>2, <3>3, <3>4
  <2>2. CASE ~Ext!must_wait(s)
    <3>1. /\ sending' = [sending EXCEPT ![s] = sent[s] + 1] /\ sendQ' = sendQ
          /\ sendQ[s] = <<>> /\ connected[s]
      BY <1>5, <2>2 DEF Ext!Send, Ext!must_wait
    <3>2. sendQ' = [sendQ EXCEPT ![s] = <<>>] /\ sent[s] + 1 \in Nat /\ <<>> \in Seq(Nat)
      BY <1>2, <1>3, <3>1 DEF ExtTypeOK
    <3>3. /\ Pipe(received[o], realWire[o], sent[s] + 1, <<>>, sent[s] + 1)
          /\ WholeOf(s) => Whole(received[o], realWire[o], sent[s] + 1, <<>>, sent[s] + 1)
      BY <1>1, <1>3, <1>4, <1>6, <3>1, PipeSends DEF WholeOf
    <3>4. QED
      BY <3>1, <3>2, <3>3
  <2>3. QED
    BY <2>1, <2>2
<1>8. sending'[s] = x /\ sending'[o] = sending[o] /\ sendQ'[s] = w /\ sendQ'[o] = sendQ[o]
  BY <1>1, <1>2, <1>7 DEF ExtTypeOK
<1>9. ExtTypeOK'
  <2>1. sent' \in [Ext!Ends -> Nat]
    BY <1>2, <1>4 DEF ExtTypeOK
  <2>2. sending' \in [Ext!Ends -> Nat] /\ sendQ' \in [Ext!Ends -> Seq(Nat)]
    BY <1>2, <1>7 DEF ExtTypeOK
  <2>3. QED
    BY <1>2, <1>4, <2>1, <2>2 DEF ExtTypeOK
<1>10. Meet(s)' /\ Meet(o)'
  BY <1>2, <1>4 DEF EndInv, Meet
<1>11. Flushed(s)' /\ Flushed(o)'
  BY <1>2, <1>4, <1>7, <1>8 DEF EndInv, Flushed
<1>12. PipeOf(s)' /\ PipeOf(o)'
  BY <1>1, <1>2, <1>4, <1>5, <1>7, <1>8 DEF EndInv, PipeOf
<1>13. ASSUME Ext!NoneUnbound' PROVE Untouched(s)' /\ WholeOf(s)' /\ Untouched(o)' /\ WholeOf(o)'
  <2>1. Ext!NoneUnbound
    BY <1>4, <1>13 DEF Ext!NoneUnbound
  <2>2. Untouched(s) /\ Untouched(o) /\ WholeOf(s) /\ WholeOf(o)
    BY <1>2, <2>1 DEF EndInv
  <2>3. binds[s] # 0
    BY <1>4, <2>2 DEF Untouched
  <2>4. Untouched(s)'
    BY <1>4, <2>3 DEF Untouched
  <2>5. Untouched(o)'
    BY <1>1, <1>4, <1>5, <1>7, <1>8, <2>2 DEF Untouched
  <2>6. WholeOf(s)' /\ WholeOf(o)'
    BY <1>1, <1>4, <1>5, <1>7, <1>8, <2>2 DEF WholeOf
  <2>7. QED
    BY <2>4, <2>5, <2>6
<1>14. QED
  BY <1>1, <1>9, <1>10, <1>11, <1>12, <1>13 DEF ExtInv, EndInv

LEMMA ExtSteps == ExtInv /\ (Ext!Next \/ UNCHANGED Ext!vars) => ExtInv'
<1>1. ExtInv /\ UNCHANGED Ext!vars => ExtInv'
  BY DEF Ext!vars, ExtInv, ExtTypeOK, EndInv, Meet, Flushed, PipeOf, WholeOf, Untouched, Ext!NoneUnbound
<1>2. ExtInv /\ Ext!Next => ExtInv'
  BY BindSteps, DroppedSteps, ReceiveSteps, SentSteps, SendSteps DEF Ext!Next
<1>3. QED
  BY <1>1, <1>2

\* When nothing is on its way what an end will know is what it knows.
LEMMA ExtMeet == ExtInv => Ext!ExtConnects
<1> SUFFICES ASSUME ExtInv, \A s \in Ext!Ends : bound[s] /\ realWire[s] = <<>> /\ ~flushing[s],
                    NEW s \in Ext!Ends
             PROVE  connected[s] /\ sendQ[s] = <<>>
  BY DEF Ext!ExtConnects
<1>1. Ext!Other(s) \in Ext!Ends /\ Len(<<>>) = 0
  BY Both, EmptySeq
<1>2. EndInv(s)
  BY DEF ExtInv
<1>3. ~Readies(realWire[Ext!Other(s)])
  BY <1>1 DEF Readies
<1>4. WillConnect(realWire[s], connected[s])
  BY <1>2, <1>3 DEF EndInv, Meet
<1>5. connected[s]
  BY <1>1, <1>4 DEF WillConnect
<1>6. QED
  BY <1>2, <1>5 DEF EndInv, Flushed

LEMMA ExtOrder == ExtInv => Ext!ExtDelivers
<1> SUFFICES ASSUME ExtInv, NEW s \in Ext!Ends
    PROVE /\ \A i, j \in 1 .. Len(received[s]) : i < j => received[s][i] < received[s][j]
          /\ Ext!NoneUnbound =>
                /\ received[Ext!Other(s)] = [i \in 1 .. Len(received[Ext!Other(s)]) |-> i]
                /\ Ext!Carries(realWire[Ext!Other(s)], Len(received[Ext!Other(s)]),
                               sent[s] - Len(Ext!Waiting(s)))
                /\ Ext!Waiting(s) = [i \in 1 .. Len(Ext!Waiting(s)) |->
                                       sent[s] - Len(Ext!Waiting(s)) + i]
  BY DEF Ext!ExtDelivers
<1> PICK o : o = Ext!Other(s)
  OBVIOUS
<1>1. o \in Ext!Ends /\ Ext!Other(o) = s
  BY Both
<1>2. ExtTypeOK /\ EndInv(s) /\ EndInv(o)
  BY <1>1 DEF ExtInv
<1>3. ASSUME NEW i \in 1 .. Len(received[s]), NEW j \in 1 .. Len(received[s]), i < j
      PROVE  received[s][i] < received[s][j]
  <2>1. \E m \in Nat : Ordered(received[s], Nat, Same, 0, m)
    BY <1>1, <1>2 DEF EndInv, PipeOf, Pipe
  <2> PICK r : r = received[s]
    OBVIOUS
  <2>2. r \in Seq(Nat) /\ r[i] \in Nat /\ r[j] \in Nat
    <3>1. r \in Seq(Nat)
      BY <1>2 DEF ExtTypeOK
    <3>2. QED
      BY <1>3, <3>1
  <2>3. PICK m : Ordered(r, Nat, Same, 0, m)
    BY <2>1
  <2>4. Same[r[i]] < Same[r[j]]
    BY <1>3, <2>2, <2>3 DEF Ordered
  <2>5. Same[r[i]] = r[i] /\ Same[r[j]] = r[j]
    BY <2>2 DEF Same
  <2>6. QED
    BY <2>4, <2>5
<1>4. ASSUME Ext!NoneUnbound
      PROVE  /\ received[o] = [i \in 1 .. Len(received[o]) |-> i]
             /\ Ext!Carries(realWire[o], Len(received[o]), sent[s] - Len(Ext!Waiting(s)))
             /\ Ext!Waiting(s) = [i \in 1 .. Len(Ext!Waiting(s)) |-> sent[s] - Len(Ext!Waiting(s)) + i]
  <2> PICK r, q, x, w, N : r = received[o] /\ q = realWire[o] /\ x = sending[s] /\ w = sendQ[s] /\ N = sent[s]
    OBVIOUS
  <2> DEFINE y == Ext!Waiting(s)
  <2>1. PipeTypes(r, q, x, w, N) /\ Pipe(r, q, x, w, N) /\ Whole(r, q, x, w, N)
    BY <1>1, <1>2, <1>4, EndTypes DEF EndInv, PipeOf, WholeOf
  <2>2. y \in Seq(Nat) /\ Len(y) = N - Gone(x, w, N) /\ \A i \in 1 .. Len(y) : y[i] = Gone(x, w, N) + i
    <3>1. CASE x = 0
      <4>1. y = w
        BY <2>1, <3>1 DEF Ext!Waiting, PipeTypes
      <4>2. Gone(x, w, N) = N - Len(w) /\ Len(w) \in Nat /\ N \in Nat
        BY <2>1, <3>1 DEF Gone, PipeTypes
      <4> HIDE DEF y
      <4>3. QED
        BY <2>1, <4>1, <4>2 DEF Whole, PipeTypes
    <3>2. CASE x # 0
      <4>1. w = <<>> /\ x = N /\ N \in Nat /\ Len(<<>>) = 0
        BY <2>1, <3>2, EmptySeq DEF Pipe, PipeTypes
      <4>2. y = <<N>>
        BY <3>2, <4>1 DEF Ext!Waiting
      <4>3. Gone(x, w, N) = N - 1
        BY <3>2, <4>1 DEF Gone
      <4>4. y \in Seq(Nat) /\ Len(y) = 1 /\ y[1] = N
        BY <4>1, <4>2
      <4> HIDE DEF y
      <4>5. \A i \in 1 .. 1 : i = 1
        OBVIOUS
      <4>6. N - 1 + 1 = N /\ N - (N - 1) = 1
        BY <4>1
      <4>7. QED
        BY <4>3, <4>4, <4>5, <4>6
    <3>3. QED
      BY <3>1, <3>2
  <2> HIDE DEF y
  <2>3. PICK a, l : a = Len(r) /\ l = Gone(x, w, N)
    OBVIOUS
  <2>4. a \in Nat /\ l \in Nat /\ a =< l /\ N \in Nat /\ l = N - Len(y) /\ Len(y) \in Nat
    <3>1. a \in Nat /\ N \in Nat /\ Len(w) \in Int /\ Len(y) \in Nat
      BY <2>1, <2>2, <2>3 DEF PipeTypes
    <3>2. l \in Int
      BY <2>3, <3>1 DEF Gone
    <3>3. a =< l
      BY <2>1, <2>3 DEF Whole
    <3>4. Len(y) = N - l
      BY <2>2, <2>3
    <3>5. ASSUME NEW k \in Int, k = N - l
          PROVE  l = N - k
      BY <3>1, <3>2, <3>5
    <3>6. l \in Nat
      BY <3>1, <3>2, <3>3
    <3>7. QED
      BY <3>1, <3>3, <3>4, <3>5, <3>6
  <2>5. r \in Seq(Nat) /\ \A i \in 1 .. a : r[i] = i
    BY <2>1, <2>3 DEF Whole, PipeTypes
  <2>6. r = [i \in 1 .. a |-> i]
    BY <2>3, <2>5
  <2>7. y = [i \in 1 .. Len(y) |-> l + i]
    BY <2>2, <2>3
  <2>8. Ext!Carries(q, a, l)
    <3> DEFINE P == {i \in 1 .. Len(q) : q[i].kind = "payload"}
    <3>1. Ordered(q, Payloads, Number, a, l) /\ Covers(q, Payloads, Number, a, l)
      BY <2>1, <2>3 DEF Whole
    <3>2. \A i \in 1 .. Len(q) : /\ q[i] \in Payloads <=> q[i].kind = "payload"
                                 /\ Number[q[i]] = q[i].number
                                 /\ q[i] \in Payloads => q[i].number \in Nat
      <4>1. \A i \in 1 .. Len(q) : q[i] \in ExtMessages
        BY <2>1 DEF PipeTypes
      <4>2. QED
        BY <4>1, MessageTypes DEF Payloads
    <3>3. \A i \in P : q[i].number \in a + 1 .. l
      BY <2>4, <3>1, <3>2 DEF Ordered
    <3>4. \A c \in a + 1 .. l : \E i \in P : q[i].number = c
      BY <3>1, <3>2 DEF Covers
    <3>5. {q[i].number : i \in P} = a + 1 .. l
      BY <3>3, <3>4
    <3>6. \A i, j \in P : i < j => q[i].number < q[j].number
      BY <3>1, <3>2 DEF Ordered
    <3>7. QED
      BY <3>5, <3>6 DEF Ext!Carries
  <2>9. QED
    BY <2>3, <2>4, <2>6, <2>7, <2>8 DEF y
<1>5. QED
  BY <1>3, <1>4
=============================================================================
