--------------------------- MODULE BodyRunProofs ---------------------------
(***************************************************************************)
(* Any answers that satisfy the equations of BodyRun are right on every    *)
(* path, whatever the body: the equations are local, one for each node, and *)
(* what they promise is about whole runs.                                  *)
(*                                                                         *)
(* The work still to do is a stack of tasks.  Between any two of them lies *)
(* a set of names that may still be asked for; each task asks for what is  *)
(* before it and leaves what is after it (Serves).  That such sets exist   *)
(* for the whole stack (Carries), the first of them apart from the names   *)
(* that are gone, is the invariant.                                        *)
(***************************************************************************)
EXTENDS BodyRun, TLAPS, SequenceTheorems

Task(r) ==
  {Eval(e) : e \in r.nodes} \cup {Ended(e) : e \in r.nodes}
  \cup {Head0(e) : e \in {f \in r.nodes : f.k = "for"}}
  \cup {Def(e.n) : e \in {f \in r.nodes : f.k \in {"let", "for"}}}
  \cup {Touch({e.n}) : e \in r.nodes} \cup {Touch(ArgPlaces(e)) : e \in r.nodes} \cup {Leave}

(* What is live before and after a task. *)
Serves(r, t, before, after) ==
  /\ t.t = "eval" => Before(r, t.e) \subseteq before /\ after \subseteq After(r, t.e)
  /\ t.t = "def" => after \ {t.n} \subseteq before
  /\ t.t = "touch" => after \subseteq before /\ t.n \subseteq before
  /\ t.t = "ended" => after \subseteq before /\ after \subseteq After(r, t.e)
  /\ t.t = "header" => After(r, t.e.es[1]) \subseteq before /\ after \subseteq After(r, t.e)
  /\ t.t = "leave" => r.exit \subseteq before

Chain(r, ts, live) ==
  \A i \in 1..Len(ts) : Serves(r, ts[i], live[i], live[i + 1])
Carries(r, ts, before, after) ==
  \E live : Chain(r, ts, live) /\ live[1] \subseteq before /\ after \subseteq live[Len(ts) + 1]

(* More before and less after will do as well. *)
LEMMA ServesWider ==
  ASSUME NEW r, NEW t, NEW b, NEW a, NEW b2, NEW a2,
         Serves(r, t, b, a), b \subseteq b2, a2 \subseteq a
  PROVE  Serves(r, t, b2, a2)
<1> USE DEF Serves
<1>1. t.t = "eval" => Before(r, t.e) \subseteq b2 /\ a2 \subseteq After(r, t.e)
  OBVIOUS
<1>2. t.t = "def" => a2 \ {t.n} \subseteq b2
  OBVIOUS
<1>3. t.t = "touch" => a2 \subseteq b2 /\ t.n \subseteq b2
  OBVIOUS
<1>4. t.t = "ended" => a2 \subseteq b2 /\ a2 \subseteq After(r, t.e)
  OBVIOUS
<1>5. t.t = "header" => After(r, t.e.es[1]) \subseteq b2 /\ a2 \subseteq After(r, t.e)
  OBVIOUS
<1>6. t.t = "leave" => r.exit \subseteq b2
  OBVIOUS
<1> QED BY <1>1, <1>2, <1>3, <1>4, <1>5, <1>6

LEMMA CarriesWider ==
  ASSUME NEW r, NEW ts, NEW b, NEW a, NEW b2, NEW a2,
         Carries(r, ts, b, a), b \subseteq b2, a2 \subseteq a
  PROVE  Carries(r, ts, b2, a2)
<1>1. PICK live : Chain(r, ts, live) /\ live[1] \subseteq b /\ a \subseteq live[Len(ts) + 1]
  BY DEF Carries
<1>2. live[1] \subseteq b2 /\ a2 \subseteq live[Len(ts) + 1]
  BY <1>1
<1> QED BY <1>1, <1>2 DEF Carries

LEMMA CarriesNothing ==
  ASSUME NEW r, NEW b, NEW a, a \subseteq b
  PROVE  Carries(r, <<>>, b, a)
<1> DEFINE live == [i \in 1..1 |-> b]
<1>1. Chain(r, <<>>, live)
  BY DEF Chain
<1>2. live[1] = b
  OBVIOUS
<1>3. Len(<<>>) + 1 = 1
  OBVIOUS
<1> HIDE DEF live
<1> QED BY <1>1, <1>2, <1>3 DEF Carries

LEMMA CarriesOne ==
  ASSUME NEW r, NEW t, NEW b, NEW a, Serves(r, t, b, a)
  PROVE  Carries(r, <<t>>, b, a)
<1> DEFINE live == [i \in 1..2 |-> IF i = 1 THEN b ELSE a]
<1>1. live[1] = b /\ live[2] = a
  OBVIOUS
<1>2. Len(<<t>>) = 1 /\ <<t>>[1] = t
  OBVIOUS
<1> HIDE DEF live
<1>3. Chain(r, <<t>>, live)
  BY <1>1, <1>2 DEF Chain
<1> QED BY <1>1, <1>2, <1>3 DEF Carries

(* One stack on top of another. *)
LEMMA CarriesConcat ==
  ASSUME NEW r, NEW T, NEW ts \in Seq(T), NEW us \in Seq(T), NEW b, NEW m, NEW a,
         Carries(r, ts, b, m), Carries(r, us, m, a)
  PROVE  Carries(r, ts \o us, b, a)
<1>1. PICK x : Chain(r, ts, x) /\ x[1] \subseteq b /\ m \subseteq x[Len(ts) + 1]
  BY DEF Carries
<1>2. PICK y : Chain(r, us, y) /\ y[1] \subseteq m /\ a \subseteq y[Len(us) + 1]
  BY DEF Carries
<1> DEFINE n == Len(ts)
           k == Len(us)
           live == [i \in 1..n + k + 1 |-> IF i <= n THEN x[i] ELSE y[i - n]]
<1>3. n \in Nat /\ k \in Nat
  OBVIOUS
<1>4. /\ Len(ts \o us) = n + k
      /\ \A i \in 1..n : (ts \o us)[i] = ts[i]
      /\ \A i \in n + 1..n + k : (ts \o us)[i] = us[i - n]
  OBVIOUS
<1>5. \A i \in 1..n : Serves(r, ts[i], x[i], x[i + 1])
  BY <1>1 DEF Chain
<1>6. \A i \in 1..k : Serves(r, us[i], y[i], y[i + 1])
  BY <1>2 DEF Chain
<1> HIDE DEF n, k
<1>7. /\ \A i \in 1..n : live[i] = x[i]
      /\ \A i \in n + 1..n + k + 1 : live[i] = y[i - n]
  BY <1>3
<1>8. y[1] \subseteq x[n + 1]
  BY <1>1, <1>2 DEF n
<1> HIDE DEF live
<1>9. ASSUME NEW i \in 1..n + k PROVE Serves(r, (ts \o us)[i], live[i], live[i + 1])
  <2>1. CASE i < n
    <3>1. i \in 1..n /\ i + 1 \in 1..n
      BY <2>1, <1>3
    <3>2. live[i] = x[i] /\ live[i + 1] = x[i + 1] /\ (ts \o us)[i] = ts[i]
      BY <3>1, <1>4, <1>7
    <3> QED BY <3>1, <3>2, <1>5
  <2>2. CASE i = n
    <3>1. i \in 1..n /\ n + 1 \in n + 1..n + k + 1 /\ (n + 1) - n = 1
      BY <2>2, <1>3
    <3>2. live[i] = x[n] /\ live[i + 1] = y[1] /\ (ts \o us)[i] = ts[n]
      BY <2>2, <3>1, <1>4, <1>7
    <3>3. Serves(r, ts[n], x[n], x[n + 1])
      BY <2>2, <3>1, <1>5
    <3>4. Serves(r, ts[n], x[n], y[1])
      BY <3>3, <1>8, ServesWider
    <3> QED BY <3>2, <3>4
  <2>3. CASE i > n
    <3>1. /\ i \in n + 1..n + k /\ i - n \in 1..k /\ i \in n + 1..n + k + 1
          /\ i + 1 \in n + 1..n + k + 1 /\ (i + 1) - n = (i - n) + 1
      BY <2>3, <1>3
    <3>2. live[i] = y[i - n] /\ live[i + 1] = y[(i + 1) - n] /\ (ts \o us)[i] = us[i - n]
      BY <3>1, <1>4, <1>7
    <3>3. Serves(r, us[i - n], y[i - n], y[(i - n) + 1])
      BY <3>1, <1>6
    <3>4. live[i + 1] = y[(i - n) + 1]
      BY <3>1, <3>2
    <3> QED BY <3>2, <3>3, <3>4
  <2>4. i < n \/ i = n \/ i > n
    BY <1>3
  <2> QED BY <2>1, <2>2, <2>3, <2>4
<1>10. Chain(r, ts \o us, live)
  BY <1>4, <1>9 DEF Chain
<1>11. live[1] \subseteq b
  <2>1. CASE n = 0
    <3>1. 1 \in n + 1..n + k + 1 /\ 1 - n = 1 /\ n + 1 = 1
      BY <2>1, <1>3
    <3>2. live[1] = y[1] /\ y[1] \subseteq x[1]
      BY <3>1, <1>7, <1>8
    <3> QED BY <3>2, <1>1
  <2>2. CASE n # 0
    <3>1. 1 \in 1..n
      BY <2>2, <1>3
    <3> QED BY <3>1, <1>7, <1>1
  <2> QED BY <2>1, <2>2
<1>12. live[(n + k) + 1] = y[k + 1]
  <2>1. (n + k) + 1 \in n + 1..n + k + 1 /\ ((n + k) + 1) - n = k + 1
    BY <1>3
  <2> QED BY <2>1, <1>7
<1>13. a \subseteq live[(n + k) + 1]
  BY <1>2, <1>12 DEF k
<1> QED BY <1>4, <1>10, <1>11, <1>13 DEF Carries

(* The first task, and the rest. *)
LEMMA CarriesHead ==
  ASSUME NEW r, NEW T, NEW ts \in Seq(T), ts # <<>>, NEW b, NEW a, Carries(r, ts, b, a)
  PROVE  \E m : Serves(r, Head(ts), b, m) /\ Carries(r, Tail(ts), m, a)
<1>1. PICK x : Chain(r, ts, x) /\ x[1] \subseteq b /\ a \subseteq x[Len(ts) + 1]
  BY DEF Carries
<1> DEFINE n == Len(ts)
           live == [i \in 1..n |-> x[i + 1]]
<1>2. n \in Nat \ {0} /\ Head(ts) = ts[1]
  <2>1. n \in Nat /\ n # 0
    OBVIOUS
  <2>2. Head(ts) = ts[1]
    BY EmptySeq, HeadTailProperties
  <2> QED BY <2>1, <2>2
<1>3. Len(Tail(ts)) = n - 1 /\ \A i \in 1..n - 1 : Tail(ts)[i] = ts[i + 1]
  OBVIOUS
<1>4. \A i \in 1..n : Serves(r, ts[i], x[i], x[i + 1])
  BY <1>1 DEF Chain
<1>5. a \subseteq x[n + 1]
  BY <1>1
<1> HIDE DEF n
<1>6. \A i \in 1..n : live[i] = x[i + 1]
  OBVIOUS
<1> HIDE DEF live
<1>7. Serves(r, Head(ts), b, x[2])
  <2>1. 1 \in 1..n /\ 1 + 1 = 2
    BY <1>2
  <2>2. Serves(r, ts[1], x[1], x[2])
    BY <2>1, <1>4
  <2>3. x[2] \subseteq x[2]
    OBVIOUS
  <2>4. Serves(r, ts[1], b, x[2])
    BY <2>2, <2>3, <1>1, ServesWider
  <2> QED BY <2>4, <1>2
<1>8. Chain(r, Tail(ts), live)
  <2>1. ASSUME NEW i \in 1..n - 1 PROVE Serves(r, Tail(ts)[i], live[i], live[i + 1])
    <3>1. i \in 1..n /\ i + 1 \in 1..n
      BY <1>2
    <3>2. live[i] = x[i + 1] /\ live[i + 1] = x[(i + 1) + 1] /\ Tail(ts)[i] = ts[i + 1]
      BY <3>1, <1>3, <1>6
    <3> QED BY <3>1, <3>2, <1>4
  <2> QED BY <2>1, <1>3 DEF Chain
<1>9. live[1] = x[2] /\ live[(n - 1) + 1] = x[n + 1]
  <2>1. 1 \in 1..n /\ (n - 1) + 1 \in 1..n /\ (n - 1) + 1 = n /\ 1 + 1 = 2
    BY <1>2
  <2> QED BY <2>1, <1>6
<1>10. Carries(r, Tail(ts), x[2], a)
  <2>1. live[1] \subseteq x[2] /\ a \subseteq live[(n - 1) + 1]
    BY <1>5, <1>9
  <2> QED BY <2>1, <1>3, <1>8 DEF Carries
<1> QED BY <1>7, <1>10

-----------------------------------------------------------------------------
(* Short stacks, written out. *)
LEMMA TwoIs ==
  ASSUME NEW T, NEW t \in T, NEW u \in T
  PROVE  <<t, u>> \in Seq(T) /\ <<t, u>> = <<t>> \o <<u>>
<1>1. <<t>> \in Seq(T) /\ Len(<<t>>) = 1 /\ <<t>>[1] = t
  OBVIOUS
<1>2. <<u>> \in Seq(T) /\ Len(<<u>>) = 1 /\ <<u>>[1] = u
  OBVIOUS
<1>3. <<t, u>> \in Seq(T) /\ Len(<<t, u>>) = 2 /\ <<t, u>>[1] = t /\ <<t, u>>[2] = u
  OBVIOUS
<1> DEFINE one == <<t>>
           other == <<u>>
           both == <<t, u>>
<1>4. one \o other \in Seq(T) /\ Len(one \o other) = 2
      /\ \A i \in 1..2 : (one \o other)[i] = IF i <= 1 THEN one[i] ELSE other[i - 1]
  <2> HIDE DEF one, other
  <2>1. one \in Seq(T) /\ other \in Seq(T) /\ Len(one) = 1 /\ Len(other) = 1
    BY <1>1, <1>2 DEF one, other
  <2>2. /\ one \o other \in Seq(T) /\ Len(one \o other) = Len(one) + Len(other)
        /\ \A i \in 1..Len(one) + Len(other) :
             (one \o other)[i] = IF i <= Len(one) THEN one[i] ELSE other[i - Len(one)]
    BY <2>1, ConcatProperties
  <2>3. Len(one) + Len(other) = 2
    BY <2>1
  <2> QED BY <2>1, <2>2, <2>3
<1> HIDE DEF one, other, both
<1>5. \A i \in 1..2 : (one \o other)[i] = both[i]
  BY <1>1, <1>2, <1>3, <1>4 DEF one, other, both
<1>6. both \in Seq(T) /\ Len(both) = 2
  BY <1>3 DEF both
<1>7. both = one \o other
  BY <1>4, <1>5, <1>6, SeqEqual
<1> QED BY <1>6, <1>7 DEF one, other, both

LEMMA ThreeIs ==
  ASSUME NEW T, NEW t \in T, NEW u \in T, NEW v \in T
  PROVE  <<t, u, v>> \in Seq(T) /\ <<t, u, v>> = <<t>> \o <<u, v>>
<1>1. <<t>> \in Seq(T) /\ Len(<<t>>) = 1 /\ <<t>>[1] = t
  OBVIOUS
<1>2. <<u, v>> \in Seq(T) /\ Len(<<u, v>>) = 2 /\ <<u, v>>[1] = u /\ <<u, v>>[2] = v
  OBVIOUS
<1>3. <<t, u, v>> \in Seq(T) /\ Len(<<t, u, v>>) = 3
      /\ <<t, u, v>>[1] = t /\ <<t, u, v>>[2] = u /\ <<t, u, v>>[3] = v
  OBVIOUS
<1> DEFINE one == <<t>>
           others == <<u, v>>
           all == <<t, u, v>>
<1>4. one \o others \in Seq(T) /\ Len(one \o others) = 3
      /\ \A i \in 1..3 : (one \o others)[i] = IF i <= 1 THEN one[i] ELSE others[i - 1]
  <2> HIDE DEF one, others
  <2>1. one \in Seq(T) /\ others \in Seq(T) /\ Len(one) = 1 /\ Len(others) = 2
    BY <1>1, <1>2 DEF one, others
  <2>2. /\ one \o others \in Seq(T) /\ Len(one \o others) = Len(one) + Len(others)
        /\ \A i \in 1..Len(one) + Len(others) :
             (one \o others)[i] = IF i <= Len(one) THEN one[i] ELSE others[i - Len(one)]
    BY <2>1, ConcatProperties
  <2>3. Len(one) + Len(others) = 3
    BY <2>1
  <2> QED BY <2>1, <2>2, <2>3
<1> HIDE DEF one, others, all
<1>5. \A i \in 1..3 : (one \o others)[i] = all[i]
  BY <1>1, <1>2, <1>3, <1>4 DEF one, others, all
<1>6. all \in Seq(T) /\ Len(all) = 3
  BY <1>3 DEF all
<1>7. all = one \o others
  BY <1>4, <1>5, <1>6, SeqEqual
<1> QED BY <1>6, <1>7 DEF one, others, all

LEMMA CarriesTwo ==
  ASSUME NEW r, NEW T, NEW t \in T, NEW u \in T, NEW b, NEW m, NEW a,
         Serves(r, t, b, m), Serves(r, u, m, a)
  PROVE  Carries(r, <<t, u>>, b, a)
<1>1. <<t>> \in Seq(T) /\ <<u>> \in Seq(T)
  OBVIOUS
<1>2. Carries(r, <<t>>, b, m)
  BY CarriesOne
<1>3. Carries(r, <<u>>, m, a)
  BY CarriesOne
<1>4. Carries(r, <<t>> \o <<u>>, b, a)
  BY <1>1, <1>2, <1>3, CarriesConcat
<1> QED BY <1>4, TwoIs

LEMMA CarriesThree ==
  ASSUME NEW r, NEW T, NEW t \in T, NEW u \in T, NEW v \in T, NEW b, NEW m, NEW n, NEW a,
         Serves(r, t, b, m), Serves(r, u, m, n), Serves(r, v, n, a)
  PROVE  Carries(r, <<t, u, v>>, b, a)
<1>1. <<t>> \in Seq(T) /\ <<u, v>> \in Seq(T)
  OBVIOUS
<1>2. Carries(r, <<t>>, b, m)
  BY CarriesOne
<1>3. Carries(r, <<u, v>>, m, a)
  BY CarriesTwo
<1>4. Carries(r, <<t>> \o <<u, v>>, b, a)
  BY <1>1, <1>2, <1>3, CarriesConcat
<1> QED BY <1>4, ThreeIs

LEMMA CarriesFour ==
  ASSUME NEW r, NEW T, NEW t \in T, NEW u \in T, NEW v \in T, NEW x \in T,
         NEW b, NEW m, NEW n, NEW k, NEW a,
         Serves(r, t, b, m), Serves(r, u, m, n), Serves(r, v, n, k), Serves(r, x, k, a)
  PROVE  <<t, u, v, x>> \in Seq(T) /\ Carries(r, <<t, u, v, x>>, b, a)
<1>1. <<t>> \in Seq(T)
  OBVIOUS
<1>2. <<u, v, x>> \in Seq(T)
  BY ThreeIs
<1>3. Carries(r, <<t>>, b, m)
  BY CarriesOne
<1>4. Carries(r, <<u, v, x>>, m, a)
  BY CarriesThree
<1>5. Carries(r, <<t>> \o <<u, v, x>>, b, a)
  BY <1>1, <1>2, <1>3, <1>4, CarriesConcat
<1>6. <<t, u, v, x>> \in Seq(T) /\ <<t, u, v, x>> = <<t>> \o <<u, v, x>>
  <2>1. <<t>> \in Seq(T) /\ Len(<<t>>) = 1 /\ <<t>>[1] = t
    OBVIOUS
  <2>2. <<u, v, x>> \in Seq(T) /\ Len(<<u, v, x>>) = 3
        /\ <<u, v, x>>[1] = u /\ <<u, v, x>>[2] = v /\ <<u, v, x>>[3] = x
    OBVIOUS
  <2>3. <<t, u, v, x>> \in Seq(T) /\ Len(<<t, u, v, x>>) = 4
        /\ <<t, u, v, x>>[1] = t /\ <<t, u, v, x>>[2] = u
        /\ <<t, u, v, x>>[3] = v /\ <<t, u, v, x>>[4] = x
    OBVIOUS
  <2> DEFINE one == <<t>>
             others == <<u, v, x>>
             all == <<t, u, v, x>>
  <2>4. one \o others \in Seq(T) /\ Len(one \o others) = 4
        /\ \A i \in 1..4 : (one \o others)[i] = IF i <= 1 THEN one[i] ELSE others[i - 1]
    <3> HIDE DEF one, others
    <3>1. one \in Seq(T) /\ others \in Seq(T) /\ Len(one) = 1 /\ Len(others) = 3
      BY <2>1, <2>2 DEF one, others
    <3>2. /\ one \o others \in Seq(T) /\ Len(one \o others) = Len(one) + Len(others)
          /\ \A i \in 1..Len(one) + Len(others) :
               (one \o others)[i] = IF i <= Len(one) THEN one[i] ELSE others[i - Len(one)]
      BY <3>1, ConcatProperties
    <3>3. Len(one) + Len(others) = 4
      BY <3>1
    <3> QED BY <3>1, <3>2, <3>3
  <2> HIDE DEF one, others, all
  <2>5. \A i \in 1..4 : (one \o others)[i] = all[i]
    BY <2>1, <2>2, <2>3, <2>4 DEF one, others, all
  <2>6. all \in Seq(T) /\ Len(all) = 4
    BY <2>3 DEF all
  <2>7. all = one \o others
    BY <2>4, <2>5, <2>6, SeqEqual
  <2> QED BY <2>6, <2>7 DEF one, others, all
<1> QED BY <1>5, <1>6

(* A task below. *)
LEMMA CarriesAppend ==
  ASSUME NEW r, NEW T, NEW t \in T, NEW ts \in Seq(T), NEW b, NEW m, NEW a,
         Carries(r, ts, b, m), Serves(r, t, m, a)
  PROVE  Carries(r, Append(ts, t), b, a)
<1>1. <<t>> \in Seq(T) /\ Append(ts, t) = ts \o <<t>>
  OBVIOUS
<1>2. Carries(r, <<t>>, m, a)
  BY CarriesOne
<1> QED BY <1>1, <1>2, CarriesConcat

(***************************************************************************)
(* What each task asks for and leaves.                                     *)
(***************************************************************************)
LEMMA TasksAre ==
  ASSUME NEW r
  PROVE  /\ \A e \in r.nodes : Eval(e) \in Task(r) /\ Ended(e) \in Task(r)
         /\ \A e \in r.nodes : Touch({e.n}) \in Task(r) /\ Touch(ArgPlaces(e)) \in Task(r)
         /\ \A e \in r.nodes : e.k = "for" => Head0(e) \in Task(r)
         /\ \A e \in r.nodes : e.k \in {"let", "for"} => Def(e.n) \in Task(r)
         /\ Leave \in Task(r)
BY DEF Task

LEMMA EvalServes ==
  ASSUME NEW r, NEW e, NEW b, NEW a, Before(r, e) \subseteq b, a \subseteq After(r, e)
  PROVE  Serves(r, Eval(e), b, a)
<1> DEFINE t == Eval(e)
<1>1. t.t = "eval" /\ t.e = e
  BY DEF Eval
<1> HIDE DEF t
<1> QED BY <1>1 DEF Serves, t

LEMMA EndedServes ==
  ASSUME NEW r, NEW e, NEW b, NEW a, a \subseteq b, a \subseteq After(r, e)
  PROVE  Serves(r, Ended(e), b, a)
<1> DEFINE t == Ended(e)
<1>1. t.t = "ended" /\ t.e = e
  BY DEF Ended
<1> HIDE DEF t
<1> QED BY <1>1 DEF Serves, t

LEMMA DefServes ==
  ASSUME NEW r, NEW n, NEW b, NEW a, a \ {n} \subseteq b
  PROVE  Serves(r, Def(n), b, a)
<1> DEFINE t == Def(n)
<1>1. t.t = "def" /\ t.n = n
  BY DEF Def
<1> HIDE DEF t
<1> QED BY <1>1 DEF Serves, t

LEMMA TouchServes ==
  ASSUME NEW r, NEW ns, NEW b, NEW a, a \subseteq b, ns \subseteq b
  PROVE  Serves(r, Touch(ns), b, a)
<1> DEFINE t == Touch(ns)
<1>1. t.t = "touch" /\ t.n = ns
  BY DEF Touch
<1> HIDE DEF t
<1> QED BY <1>1 DEF Serves, t

LEMMA HeadServes ==
  ASSUME NEW r, NEW e, NEW b, NEW a, After(r, e.es[1]) \subseteq b, a \subseteq After(r, e)
  PROVE  Serves(r, Head0(e), b, a)
<1> DEFINE t == Head0(e)
<1>1. t.t = "header" /\ t.e = e
  BY DEF Head0
<1> HIDE DEF t
<1> QED BY <1>1 DEF Serves, t

LEMMA LeaveServes ==
  ASSUME NEW r, NEW b, NEW a, r.exit \subseteq b
  PROVE  Serves(r, Leave, b, a)
<1>1. Leave.t = "leave"
  BY DEF Leave
<1> QED BY <1>1 DEF Serves

(***************************************************************************)
(* Nodes evaluated in order, and statements.                               *)
(***************************************************************************)
LEMMA FunctionIsSeq ==
  ASSUME NEW T, NEW n \in Nat, NEW f \in [1..n -> T]
  PROVE  f \in Seq(T) /\ Len(f) = n
<1>1. f \in Seq(T)
  BY SeqDef
<1>2. DOMAIN f = 1..n /\ DOMAIN f = 1..Len(f) /\ Len(f) \in Nat
  BY <1>1, LenProperties
<1> QED BY <1>1, <1>2

LEMMA EvalsAre ==
  ASSUME NEW r, NEW es \in Seq(r.nodes)
  PROVE  /\ Evals(es) \in Seq(Task(r)) /\ Len(Evals(es)) = Len(es)
         /\ \A i \in 1..Len(es) : Evals(es)[i] = Eval(es[i])
<1>1. DOMAIN es = 1..Len(es) /\ Len(es) \in Nat
  OBVIOUS
<1>2. \A i \in 1..Len(es) : es[i] \in r.nodes
  BY <1>1
<1>3. \A i \in 1..Len(es) : Eval(es[i]) \in Task(r)
  BY <1>2, TasksAre
<1> DEFINE n == Len(es)
           ts == [i \in 1..n |-> Eval(es[i])]
<1>4. Evals(es) = ts
  BY <1>1 DEF Evals
<1> HIDE DEF n
<1>5. ts \in Seq(Task(r)) /\ Len(ts) = n
  BY <1>1, <1>3, FunctionIsSeq DEF n
<1> QED BY <1>4, <1>5 DEF n

LEMMA EvalsCarry ==
  ASSUME NEW r, NEW es \in Seq(r.nodes), NEW b, NEW a, Linked(r, es, b, a)
  PROVE  Carries(r, Evals(es), b, a)
<1> DEFINE n == Len(es)
           ts == Evals(es)
           live == [i \in 1..n + 1 |-> IF i <= n THEN Before(r, es[i]) ELSE a]
<1>1. n \in Nat
  OBVIOUS
<1>2. Len(ts) = n /\ \A i \in 1..n : ts[i] = Eval(es[i])
  BY EvalsAre
<1>3. CASE n = 0
  <2>1. es = <<>> /\ a \subseteq b
    BY <1>3 DEF Linked
  <2>2. Evals(<<>>) = <<>>
    BY DEF Evals
  <2> QED BY <2>1, <2>2, CarriesNothing
<1>4. CASE n # 0
  <2>1. /\ Before(r, es[1]) \subseteq b
        /\ \A i \in 1..n - 1 : Before(r, es[i + 1]) \subseteq After(r, es[i])
        /\ a \subseteq After(r, es[n])
    <3>1. es # <<>>
      BY <1>4
    <3> QED BY <3>1 DEF Linked
  <2> HIDE DEF n, ts
  <2>2. (\A i \in 1..n : live[i] = Before(r, es[i])) /\ live[n + 1] = a
    BY <1>1
  <2> HIDE DEF live
  <2>3. ASSUME NEW i \in 1..n PROVE Serves(r, ts[i], live[i], live[i + 1])
    <3>1. CASE i < n
      <4>1. i + 1 \in 1..n /\ i \in 1..n - 1
        BY <1>1, <3>1
      <4>2. live[i + 1] = Before(r, es[i + 1])
        BY <4>1, <2>2
      <4>3. live[i] = Before(r, es[i]) /\ live[i + 1] \subseteq After(r, es[i])
        BY <4>1, <4>2, <2>1, <2>2
      <4> QED BY <4>3, <1>2, EvalServes
    <3>2. CASE i = n
      <4>1. live[i] = Before(r, es[i]) /\ live[i + 1] \subseteq After(r, es[i])
        BY <3>2, <2>1, <2>2
      <4> QED BY <4>1, <1>2, EvalServes
    <3> QED BY <3>1, <3>2, <1>1
  <2>4. 1 \in 1..n
    BY <1>1, <1>4
  <2>5. live[1] \subseteq b /\ a \subseteq live[n + 1]
    BY <2>1, <2>2, <2>4
  <2>6. Carries(r, ts, b, a)
    BY <1>2, <2>3, <2>5 DEF Carries, Chain
  <2> QED BY <2>6 DEF ts
<1> QED BY <1>3, <1>4

LEMMA StmtsAre ==
  ASSUME NEW r, NEW es \in Seq(r.nodes)
  PROVE  /\ Stmts(es) \in Seq(Task(r)) /\ Len(Stmts(es)) = 2 * Len(es)
         /\ \A i \in 1..Len(es) : /\ Stmts(es)[2 * i - 1] = Eval(es[i])
                                 /\ Stmts(es)[2 * i] = Ended(es[i])
<1> DEFINE n == Len(es)
           at(i) == IF i % 2 = 1 THEN Eval(es[(i + 1) \div 2]) ELSE Ended(es[i \div 2])
           ts == [i \in 1..2 * n |-> at(i)]
<1>1. n \in Nat /\ 2 * n \in Nat /\ \A i \in 1..n : es[i] \in r.nodes
  OBVIOUS
<1>2. Stmts(es) = ts
  BY DEF Stmts
<1>3. \A i \in 1..n : Eval(es[i]) \in Task(r) /\ Ended(es[i]) \in Task(r)
  BY <1>1, TasksAre
<1> HIDE DEF n
<1>4. ASSUME NEW i \in 1..2 * n PROVE at(i) \in Task(r)
  <2>1. CASE i % 2 = 1
    <3>1. (i + 1) \div 2 \in 1..n
      BY <1>1, <2>1
    <3> QED BY <3>1, <2>1, <1>3
  <2>2. CASE i % 2 # 1
    <3>1. i \div 2 \in 1..n
      BY <1>1, <2>2
    <3> QED BY <3>1, <2>2, <1>3
  <2> QED BY <2>1, <2>2
<1>5. ASSUME NEW i \in 1..n
      PROVE  2 * i - 1 \in 1..2 * n /\ 2 * i \in 1..2 * n /\ at(2 * i - 1) = Eval(es[i]) /\ at(2 * i) = Ended(es[i])
  <2>1. i \in Int /\ 2 * i - 1 \in 1..2 * n /\ 2 * i \in 1..2 * n
    BY <1>1
  <2>2. (2 * i - 1) % 2 = 1
    BY <2>1
  <2>3. ((2 * i - 1) + 1) \div 2 = i
    BY <2>1
  <2>4. (2 * i) % 2 = 0
    BY <2>1
  <2>5. (2 * i) \div 2 = i
    BY <2>1
  <2> QED BY <2>1, <2>2, <2>3, <2>4, <2>5
<1> HIDE DEF at
<1>6. ts \in Seq(Task(r)) /\ Len(ts) = 2 * n
  BY <1>1, <1>4, FunctionIsSeq
<1>7. \A i \in 1..n : ts[2 * i - 1] = Eval(es[i]) /\ ts[2 * i] = Ended(es[i])
  BY <1>5
<1> QED BY <1>2, <1>6, <1>7 DEF n

(* A statement's eval task is at an odd place, the end of it at an even one. *)
LEMMA StmtsCarry ==
  ASSUME NEW r, NEW es \in Seq(r.nodes), NEW b, NEW a, Linked(r, es, b, a)
  PROVE  Carries(r, Stmts(es), b, a)
<1> DEFINE n == Len(es)
           ts == Stmts(es)
           before(i) == IF i <= n THEN Before(r, es[i]) ELSE a
           live == [j \in 1..2 * n + 1 |-> IF j % 2 = 1 THEN before((j + 1) \div 2) ELSE After(r, es[j \div 2])]
<1>1. n \in Nat
  OBVIOUS
<1>2. Len(ts) = 2 * n /\ \A i \in 1..n : ts[2 * i - 1] = Eval(es[i]) /\ ts[2 * i] = Ended(es[i])
  BY StmtsAre
<1>3. CASE n = 0
  <2>1. es = <<>> /\ a \subseteq b
    BY <1>3 DEF Linked
  <2>2. Stmts(<<>>) = <<>>
    BY DEF Stmts
  <2> QED BY <2>1, <2>2, CarriesNothing
<1>4. CASE n # 0
  <2>1. /\ Before(r, es[1]) \subseteq b
        /\ \A i \in 1..n - 1 : Before(r, es[i + 1]) \subseteq After(r, es[i])
        /\ a \subseteq After(r, es[n])
    <3>1. es # <<>>
      BY <1>4
    <3> QED BY <3>1 DEF Linked
  <2> HIDE DEF n, ts
  <2>2. /\ \A i \in 1..n : before(i) = Before(r, es[i])
        /\ before(n + 1) = a
    BY <1>1
  <2> HIDE DEF before
  <2>3. ASSUME NEW i \in 1..n PROVE before(i + 1) \subseteq After(r, es[i])
    <3>1. CASE i < n
      <4>1. i + 1 \in 1..n /\ i \in 1..n - 1
        BY <1>1, <3>1
      <4> QED BY <4>1, <2>1, <2>2
    <3>2. CASE i = n
      BY <3>2, <2>1, <2>2
    <3> QED BY <3>1, <3>2, <1>1
  <2>4. ASSUME NEW i \in 1..n
        PROVE  live[2 * i - 1] = before(i) /\ live[2 * i] = After(r, es[i]) /\ live[2 * i + 1] = before(i + 1)
    <3>1. i \in Int /\ 2 * i - 1 \in 1..2 * n + 1 /\ 2 * i \in 1..2 * n + 1 /\ 2 * i + 1 \in 1..2 * n + 1
      BY <1>1
    <3>2. (2 * i - 1) % 2 = 1 /\ ((2 * i - 1) + 1) \div 2 = i
      BY <3>1
    <3>3. (2 * i) % 2 = 0 /\ (2 * i) \div 2 = i
      BY <3>1
    <3>4. (2 * i + 1) % 2 = 1 /\ ((2 * i + 1) + 1) \div 2 = i + 1
      BY <3>1
    <3> QED BY <3>1, <3>2, <3>3, <3>4
  <2> HIDE DEF live
  <2>5. ASSUME NEW i \in 1..n PROVE Serves(r, ts[2 * i - 1], live[2 * i - 1], live[2 * i])
    <3>1. ts[2 * i - 1] = Eval(es[i]) /\ live[2 * i - 1] = Before(r, es[i]) /\ live[2 * i] = After(r, es[i])
      BY <1>2, <2>2, <2>4
    <3> QED BY <3>1, EvalServes
  <2>6. ASSUME NEW i \in 1..n PROVE Serves(r, ts[2 * i], live[2 * i], live[2 * i + 1])
    <3>1. ts[2 * i] = Ended(es[i]) /\ live[2 * i] = After(r, es[i]) /\ live[2 * i + 1] \subseteq After(r, es[i])
      BY <1>2, <2>3, <2>4
    <3> QED BY <3>1, EndedServes
  <2>7. ASSUME NEW j \in 1..2 * n PROVE Serves(r, ts[j], live[j], live[j + 1])
    <3>1. CASE j % 2 = 1
      <4>1. PICK i \in 1..n : j = 2 * i - 1
        <5>1. (j + 1) \div 2 \in 1..n /\ j = 2 * ((j + 1) \div 2) - 1
          BY <1>1, <3>1
        <5> QED BY <5>1
      <4>2. j + 1 = 2 * i
        BY <4>1
      <4> QED BY <4>1, <4>2, <2>5
    <3>2. CASE j % 2 # 1
      <4>1. PICK i \in 1..n : j = 2 * i
        <5>1. j \div 2 \in 1..n /\ j = 2 * (j \div 2)
          BY <1>1, <3>2
        <5> QED BY <5>1
      <4> QED BY <4>1, <2>6
    <3> QED BY <3>1, <3>2
  <2>8. live[1] \subseteq b /\ a \subseteq live[2 * n + 1]
    <3>1. 1 \in 1..n /\ n \in 1..n /\ 2 * 1 - 1 = 1
      BY <1>1, <1>4
    <3>2. live[1] = Before(r, es[1])
      BY <3>1, <2>2, <2>4
    <3>3. live[2 * n + 1] = a
      BY <3>1, <2>2, <2>4
    <3> QED BY <3>2, <3>3, <2>1
  <2>9. Chain(r, ts, live)
    BY <1>2, <2>7 DEF Chain
  <2>10. Carries(r, ts, b, a)
    BY <1>2, <2>8, <2>9 DEF Carries
  <2> QED BY <2>10 DEF ts
<1> QED BY <1>3, <1>4

-----------------------------------------------------------------------------
(***************************************************************************)
(* The work of a node lies between what is live before it and after it.    *)
(***************************************************************************)
LEMMA NodeFacts ==
  ASSUME NEW r, IsTree(r), LiveSolved(r), NEW e \in r.nodes
  PROVE  /\ e.es \in Seq(r.nodes)
         /\ NodeLinked(r, e)
         /\ e.id \in r.last => e.n \notin After(r, e)
         /\ \A d \in r.dead : d[1] = e.id => d[2] \notin After(r, e)
BY DEF IsTree, LiveSolved

LEMMA PlaceCarries ==
  ASSUME NEW r, IsTree(r), LiveSolved(r), NEW e \in r.nodes,
         e.k \in {"put", "place"}, NEW w \in CompilePlaceAssign(e)
  PROVE  w \in Seq(Task(r)) /\ Carries(r, w, Before(r, e), After(r, e))
<1> DEFINE b == Before(r, e)
           a == After(r, e)
           T == Task(r)
           n == e.n
           es == e.es
           touch == Touch({n})
<1>1. es \in Seq(r.nodes) /\ NodeLinked(r, e) /\ touch \in T
  BY NodeFacts, TasksAre
<1>2. Linked(r, es, b, a \cup {n}) /\ {n} \subseteq b
  BY <1>1 DEF NodeLinked
<1>3. w = <<touch>> \o Evals(es) \o <<touch>>
  BY DEF CompilePlaceAssign
<1> HIDE DEF b, a, T, touch, n, es
<1>4. Evals(es) \in Seq(T) /\ Carries(r, Evals(es), b, a \cup {n})
  BY <1>1, <1>2, EvalsAre, EvalsCarry DEF T
<1>5. <<touch>> \in Seq(T)
  BY <1>1
<1>6. Carries(r, <<touch>>, b, b)
  <2>1. Serves(r, touch, b, b)
    BY <1>2, TouchServes DEF touch
  <2> QED BY <2>1, CarriesOne
<1>7. Carries(r, <<touch>>, a \cup {n}, a)
  <2>1. a \subseteq a \cup {n} /\ {n} \subseteq a \cup {n}
    OBVIOUS
  <2>2. Serves(r, touch, a \cup {n}, a)
    BY <2>1, TouchServes DEF touch
  <2> QED BY <2>2, CarriesOne
<1> DEFINE first == <<touch>> \o Evals(es)
<1>8. first \in Seq(T)
  BY <1>4, <1>5, ConcatProperties
<1>9. Carries(r, first, b, a \cup {n})
  BY <1>4, <1>5, <1>6, CarriesConcat
<1>10. w = first \o <<touch>>
  BY <1>3
<1> HIDE DEF first
<1>11. w \in Seq(T)
  BY <1>5, <1>8, <1>10, ConcatProperties
<1>12. Carries(r, w, b, a)
  BY <1>5, <1>7, <1>8, <1>9, <1>10, CarriesConcat
<1> QED BY <1>11, <1>12 DEF T, b, a

LEMMA ShortCircuitCarries ==
  ASSUME NEW r, IsTree(r), LiveSolved(r), NEW e \in r.nodes,
         e.k = "and", NEW w \in CompileBinary(e)
  PROVE  w \in Seq(Task(r)) /\ Carries(r, w, Before(r, e), After(r, e))
<1>1. /\ e.es \in Seq(r.nodes) /\ Len(e.es) = 2
      /\ Linked(r, e.es, Before(r, e), After(r, e)) /\ After(r, e) \subseteq After(r, e.es[1])
  <2>1. Len(e.es) = 2
    BY DEF IsTree
  <2>2. e.es \in Seq(r.nodes) /\ NodeLinked(r, e)
    BY NodeFacts
  <2>3. Linked(r, e.es, Before(r, e), After(r, e)) /\ After(r, e) \subseteq After(r, e.es[1])
    BY <2>2 DEF NodeLinked
  <2> QED BY <2>1, <2>2, <2>3
<1>2. CASE w = Evals(e.es)
  BY <1>1, <1>2, EvalsAre, EvalsCarry
<1>3. CASE w = <<Eval(e.es[1])>>
  <2>1. e.es[1] \in r.nodes /\ e.es # <<>>
    BY <1>1
  <2>2. Before(r, e.es[1]) \subseteq Before(r, e)
    BY <1>1, <2>1 DEF Linked
  <2>3. Serves(r, Eval(e.es[1]), Before(r, e), After(r, e))
    BY <1>1, <2>2, EvalServes
  <2>4. Eval(e.es[1]) \in Task(r)
    BY <2>1, TasksAre
  <2>5. w \in Seq(Task(r))
    BY <1>3, <2>4
  <2> QED BY <1>3, <2>3, <2>5, CarriesOne
<1> QED BY <1>2, <1>3 DEF CompileBinary

LEMMA ConditionalCarries ==
  ASSUME NEW r, IsTree(r), LiveSolved(r), NEW e \in r.nodes,
         e.k = "if", NEW w \in CompileConditional(e)
  PROVE  w \in Seq(Task(r)) /\ Carries(r, w, Before(r, e), After(r, e))
<1>1. e.es \in Seq(r.nodes) /\ Len(e.es) \in {2, 3} /\ BranchesLinked(r, e)
  <2>1. Len(e.es) \in {2, 3}
    BY DEF IsTree
  <2> QED BY <2>1, NodeFacts DEF NodeLinked
<1>2. /\ Before(r, e.es[1]) \subseteq Before(r, e)
      /\ \A i \in 2..Len(e.es) : Before(r, e.es[i]) \subseteq After(r, e.es[1]) /\ After(r, e) \subseteq After(r, e.es[i])
      /\ Len(e.es) = 2 => After(r, e) \subseteq After(r, e.es[1])
  BY <1>1 DEF BranchesLinked
<1>3. \A i \in 1..Len(e.es) : e.es[i] \in r.nodes
  BY <1>1
<1>4. ASSUME NEW i \in 2..Len(e.es), w = <<Eval(e.es[1]), Eval(e.es[i])>>
      PROVE  w \in Seq(Task(r)) /\ Carries(r, w, Before(r, e), After(r, e))
  <2>1. 1 \in 1..Len(e.es) /\ i \in 1..Len(e.es)
    BY <1>1
  <2>2. Eval(e.es[1]) \in Task(r) /\ Eval(e.es[i]) \in Task(r)
    BY <1>3, <2>1, TasksAre
  <2>3. Serves(r, Eval(e.es[1]), Before(r, e), After(r, e.es[1]))
    BY <1>2, EvalServes
  <2>4. Serves(r, Eval(e.es[i]), After(r, e.es[1]), After(r, e))
    BY <1>2, EvalServes
  <2>5. <<Eval(e.es[1]), Eval(e.es[i])>> \in Seq(Task(r))
    BY <2>2, TwoIs
  <2>6. Carries(r, <<Eval(e.es[1]), Eval(e.es[i])>>, Before(r, e), After(r, e))
    BY <2>2, <2>3, <2>4, CarriesTwo
  <2> QED BY <1>4, <2>5, <2>6
<1>5. CASE w = <<Eval(e.es[1]), Eval(e.es[2])>>
  <2>1. \A n \in {2, 3} : 2 \in 2..n
    OBVIOUS
  <2> QED BY <1>1, <1>4, <1>5, <2>1
<1>6. CASE Len(e.es) = 3 /\ w = <<Eval(e.es[1]), Eval(e.es[3])>>
  <2>1. 3 \in 2..Len(e.es)
    BY <1>6
  <2> QED BY <1>4, <1>6, <2>1
<1>7. CASE Len(e.es) = 2 /\ w = <<Eval(e.es[1])>>
  <2>1. Serves(r, Eval(e.es[1]), Before(r, e), After(r, e))
    BY <1>2, <1>7, EvalServes
  <2>2. Eval(e.es[1]) \in Task(r)
    BY <1>3, <1>7, TasksAre
  <2>3. w \in Seq(Task(r))
    BY <1>7, <2>2
  <2> QED BY <1>7, <2>1, <2>3, CarriesOne
<1> QED BY <1>1, <1>5, <1>6, <1>7 DEF CompileConditional

LEMMA LoopFacts ==
  ASSUME NEW r, IsTree(r), LiveSolved(r), NEW e \in r.nodes, e.k = "for"
  PROVE  /\ Len(e.es) \in {2, 3} /\ \A i \in 1..Len(e.es) : e.es[i] \in r.nodes
         /\ Before(r, e.es[1]) \subseteq Before(r, e)
         /\ After(r, e) \subseteq After(r, e.es[1])
         /\ Before(r, e.es[2]) \ {e.n} \subseteq After(r, e.es[1])
         /\ \A i \in 2..Len(e.es) : After(r, e.es[1]) \subseteq After(r, e.es[i])
         /\ Len(e.es) = 3 => Before(r, e.es[3]) \subseteq After(r, e.es[2])
<1>1. e.es \in Seq(r.nodes) /\ LoopLinked(r, e)
  BY NodeFacts DEF NodeLinked
<1>2. Len(e.es) \in {2, 3}
  BY DEF IsTree
<1>3. \A i \in 1..Len(e.es) : e.es[i] \in r.nodes
  BY <1>1
<1> QED BY <1>1, <1>2, <1>3 DEF LoopLinked

LEMMA LoopCarries ==
  ASSUME NEW r, IsTree(r), LiveSolved(r), NEW e \in r.nodes, e.k = "for"
  PROVE  LET w == <<Eval(e.es[1]), Head0(e)>>
         IN  w \in Seq(Task(r)) /\ Carries(r, w, Before(r, e), After(r, e))
<1>1. /\ e.es[1] \in r.nodes
      /\ Before(r, e.es[1]) \subseteq Before(r, e)
  <2>1. \A n \in {2, 3} : 1 \in 1..n
    OBVIOUS
  <2> QED BY <2>1, LoopFacts
<1>2. Eval(e.es[1]) \in Task(r) /\ Head0(e) \in Task(r)
  BY <1>1, TasksAre
<1>3. Serves(r, Eval(e.es[1]), Before(r, e), After(r, e.es[1]))
  BY <1>1, EvalServes
<1>4. Serves(r, Head0(e), After(r, e.es[1]), After(r, e))
  BY HeadServes
<1>5. <<Eval(e.es[1]), Head0(e)>> \in Seq(Task(r))
  BY <1>2, TwoIs
<1>6. Carries(r, <<Eval(e.es[1]), Head0(e)>>, Before(r, e), After(r, e))
  BY <1>2, <1>3, <1>4, CarriesTwo
<1> QED BY <1>5, <1>6

(* From header to header, or out of the loop. *)
LEMMA TurnCarries ==
  ASSUME NEW r, IsTree(r), LiveSolved(r), NEW e \in r.nodes, e.k = "for",
         NEW w \in Turns(e) \cup {<<>>}
  PROVE  w \in Seq(Task(r)) /\ Carries(r, w, After(r, e.es[1]), After(r, e))
<1> DEFINE header == After(r, e.es[1])
           bind == Def(e.n)
           second == Eval(e.es[2])
           third == Eval(e.es[3])
           again == Head0(e)
           T == Task(r)
<1>1. /\ Len(e.es) \in {2, 3} /\ \A i \in 1..Len(e.es) : e.es[i] \in r.nodes
      /\ After(r, e) \subseteq header
      /\ Before(r, e.es[2]) \ {e.n} \subseteq header
      /\ \A i \in 2..Len(e.es) : header \subseteq After(r, e.es[i])
      /\ Len(e.es) = 3 => Before(r, e.es[3]) \subseteq After(r, e.es[2])
  BY LoopFacts
<1>2. 2 \in 1..Len(e.es) /\ 2 \in 2..Len(e.es)
      /\ (Len(e.es) = 3 => 3 \in 1..Len(e.es) /\ 3 \in 2..Len(e.es))
  <2>1. \A n \in {2, 3} : 2 \in 1..n /\ 2 \in 2..n
    OBVIOUS
  <2>2. 3 \in 1..3 /\ 3 \in 2..3
    OBVIOUS
  <2> QED BY <1>1, <2>1, <2>2
<1>3. bind \in T /\ second \in T /\ again \in T /\ (Len(e.es) = 3 => third \in T)
  BY <1>1, <1>2, TasksAre
<1>4. Serves(r, bind, header, Before(r, e.es[2]))
  BY <1>1, DefServes
<1>5. Serves(r, second, Before(r, e.es[2]), header)
  BY <1>1, <1>2, EvalServes
<1>6. Serves(r, again, header, After(r, e))
  BY HeadServes
<1>7. CASE w = <<bind, second, again>>
  <2> HIDE DEF bind, second, again, header
  <2>1. w \in Seq(T)
    BY <1>3, <1>7, ThreeIs
  <2>2. Carries(r, <<bind, second, again>>, header, After(r, e))
    BY <1>3, <1>4, <1>5, <1>6, CarriesThree
  <2> QED BY <1>7, <2>1, <2>2 DEF header
<1>8. CASE Len(e.es) = 3 /\ w = <<bind, second, third, again>>
  <2>1. Serves(r, second, Before(r, e.es[2]), Before(r, e.es[3]))
    BY <1>1, <1>8, EvalServes
  <2>2. Serves(r, third, Before(r, e.es[3]), header)
    BY <1>1, <1>2, <1>8, EvalServes
  <2> HIDE DEF bind, second, third, again, header, T
  <2>3. third \in T
    BY <1>3, <1>8
  <2>4. /\ <<bind, second, third, again>> \in Seq(T)
        /\ Carries(r, <<bind, second, third, again>>, header, After(r, e))
    BY <1>3, <1>4, <1>6, <2>1, <2>2, <2>3, CarriesFour
  <2> QED BY <1>8, <2>4 DEF header, T
<1>9. CASE w = <<>>
  <2>1. <<>> \in Seq(T)
    OBVIOUS
  <2>2. Carries(r, <<>>, header, After(r, e))
    BY <1>1, CarriesNothing
  <2> QED BY <1>9, <2>1, <2>2
<1> QED BY <1>7, <1>8, <1>9 DEF Turns

LEMMA UnfoldCarries ==
  ASSUME NEW r, IsTree(r), LiveSolved(r), NEW e \in r.nodes,
         e.k \notin {"var", "ret"}, NEW w \in Unfold(e)
  PROVE  w \in Seq(Task(r)) /\ Carries(r, w, Before(r, e), After(r, e))
<1> DEFINE Good == w \in Seq(Task(r)) /\ Carries(r, w, Before(r, e), After(r, e))
<1>1. e.es \in Seq(r.nodes) /\ NodeLinked(r, e)
  BY NodeFacts
<1>2. Evals(e.es) \in Seq(Task(r)) /\ Stmts(e.es) \in Seq(Task(r))
  BY <1>1, EvalsAre, StmtsAre
<1>3. e.k \in {"lit", "op", "and", "block", "let", "put", "call", "place", "if", "for"}
  BY DEF IsTree
<1>4. CASE e.k = "lit"
  <2>1. w = <<>> /\ After(r, e) \subseteq Before(r, e)
    BY <1>1, <1>4 DEF Unfold, NodeLinked
  <2>2. <<>> \in Seq(Task(r))
    OBVIOUS
  <2> QED BY <2>1, <2>2, CarriesNothing
<1>5. CASE e.k = "op"
  <2>1. w = Evals(e.es) /\ Linked(r, e.es, Before(r, e), After(r, e))
    BY <1>1, <1>5 DEF Unfold, NodeLinked
  <2> QED BY <1>1, <1>2, <2>1, EvalsCarry
<1>6. CASE e.k = "and"
  <2>1. w \in CompileBinary(e)
    BY <1>6 DEF Unfold
  <2> QED BY <1>6, <2>1, ShortCircuitCarries
<1>7. CASE e.k = "block"
  <2>1. w = Stmts(e.es) /\ Linked(r, e.es, Before(r, e), After(r, e))
    BY <1>1, <1>7 DEF Unfold, NodeLinked
  <2> QED BY <1>1, <1>2, <2>1, StmtsCarry
<1>8. CASE e.k = "let"
  <2>1. w = Append(Evals(e.es), Def(e.n)) /\ Linked(r, e.es, Before(r, e), After(r, e) \ {e.n})
    BY <1>1, <1>8 DEF Unfold, NodeLinked
  <2>2. Carries(r, Evals(e.es), Before(r, e), After(r, e) \ {e.n})
    BY <1>1, <2>1, EvalsCarry
  <2>3. Serves(r, Def(e.n), After(r, e) \ {e.n}, After(r, e))
    BY DefServes
  <2>4. Def(e.n) \in Task(r)
    BY <1>8, TasksAre
  <2>5. w \in Seq(Task(r))
    BY <1>2, <2>1, <2>4
  <2> QED BY <1>2, <2>1, <2>2, <2>3, <2>4, <2>5, CarriesAppend
<1>9. CASE e.k \in {"put", "place"}
  <2>1. w \in CompilePlaceAssign(e)
    BY <1>9 DEF Unfold
  <2> QED BY <1>9, <2>1, PlaceCarries
<1>10. CASE e.k = "call"
  <2> DEFINE written == ArgPlaces(e)
  <2>1. w = Append(Evals(e.es), Touch(written))
        /\ Linked(r, e.es, Before(r, e), After(r, e) \cup written)
    BY <1>1, <1>10 DEF Unfold, CompileCall, NodeLinked
  <2>2. Touch(written) \in Task(r)
    BY TasksAre
  <2> HIDE DEF written
  <2>3. Carries(r, Evals(e.es), Before(r, e), After(r, e) \cup written)
    BY <1>1, <2>1, EvalsCarry
  <2>4. Serves(r, Touch(written), After(r, e) \cup written, After(r, e))
    BY TouchServes
  <2>5. w \in Seq(Task(r))
    BY <1>2, <2>1, <2>2
  <2> QED BY <1>2, <2>1, <2>2, <2>3, <2>4, <2>5, CarriesAppend
<1>11. CASE e.k = "if"
  <2>1. w \in CompileConditional(e)
    BY <1>11 DEF Unfold
  <2> QED BY <1>11, <2>1, ConditionalCarries
<1>12. CASE e.k = "for"
  <2>1. w = <<Eval(e.es[1]), Head0(e)>>
    BY <1>12 DEF Unfold
  <2> QED BY <1>12, <2>1, LoopCarries
<1> QED BY <1>3, <1>4, <1>5, <1>6, <1>7, <1>8, <1>9, <1>10, <1>11, <1>12

(* A return leaves with what the exits need. *)
LEMMA ReturnCarries ==
  ASSUME NEW r, IsTree(r), LiveSolved(r), NEW e \in r.nodes, e.k = "ret"
  PROVE  LET w == Append(Evals(e.es), Leave)
         IN  w \in Seq(Task(r)) /\ Carries(r, w, Before(r, e), {})
<1>1. e.es \in Seq(r.nodes) /\ Linked(r, e.es, Before(r, e), r.exit)
  BY NodeFacts DEF NodeLinked
<1>2. Evals(e.es) \in Seq(Task(r)) /\ Leave \in Task(r)
  BY <1>1, EvalsAre, TasksAre
<1>3. Carries(r, Evals(e.es), Before(r, e), r.exit)
  BY <1>1, EvalsCarry
<1>4. Serves(r, Leave, r.exit, {})
  BY LeaveServes
<1>5. Append(Evals(e.es), Leave) \in Seq(Task(r))
  BY <1>2
<1>6. Carries(r, Append(Evals(e.es), Leave), Before(r, e), {})
  BY <1>2, <1>3, <1>4, CarriesAppend
<1> QED BY <1>5, <1>6

(* The whole body. *)
LEMMA BodyCarries ==
  ASSUME NEW r, IsTree(r), LiveSolved(r)
  PROVE  LET w == Append(Stmts(r.code), Leave)
         IN  w \in Seq(Task(r)) /\ Carries(r, w, r.live, {})
<1>1. r.code \in Seq(r.nodes) /\ Linked(r, r.code, r.live, r.exit)
  BY DEF IsTree, LiveSolved
<1>2. Stmts(r.code) \in Seq(Task(r)) /\ Leave \in Task(r)
  BY <1>1, StmtsAre, TasksAre
<1>3. Carries(r, Stmts(r.code), r.live, r.exit)
  BY <1>1, StmtsCarry
<1>4. Serves(r, Leave, r.exit, {})
  BY LeaveServes
<1>5. Append(Stmts(r.code), Leave) \in Seq(Task(r))
  BY <1>2
<1>6. Carries(r, Append(Stmts(r.code), Leave), r.live, {})
  BY <1>2, <1>3, <1>4, CarriesAppend
<1> QED BY <1>5, <1>6

-----------------------------------------------------------------------------
(***************************************************************************)
(* The invariant: the tasks are about nodes of the body, and names that    *)
(* lead through all of them are not gone.                                  *)
(***************************************************************************)
TypeInv ==
  /\ run \in Starts
  /\ todo \in Seq(Task(run))
  /\ spent \subseteq LinearNames

LiveInv == \E live : Carries(run, todo, live, {}) /\ live \cap gone = {}

(* What is read of a Linear variable is gone. *)
SpentInv == run.ok => spent \ run.exit \subseteq gone

LEMMA InitInv ==
  ASSUME Init, AnswersSolve
  PROVE  TypeInv /\ LiveInv /\ SpentInv
<1>1. IsTree(run) /\ LiveSolved(run)
  BY StartsAssumption DEF Init, AnswersSolve
<1>2. todo \in Seq(Task(run)) /\ Carries(run, todo, run.live, {})
  BY <1>1, BodyCarries DEF Init
<1>3. run \in Starts /\ gone = {} /\ spent = {}
  BY DEF Init
<1>4. LiveInv
  BY <1>2, <1>3 DEF LiveInv
<1> QED BY <1>2, <1>3, <1>4 DEF TypeInv, SpentInv

(* What a task is, by its kind. *)
LEMMA TaskIs ==
  ASSUME NEW r, NEW t \in Task(r)
  PROVE  /\ t.t = "eval" => t.e \in r.nodes /\ t = Eval(t.e)
         /\ t.t = "ended" => t.e \in r.nodes
         /\ t.t = "header" => t.e \in r.nodes /\ t.e.k = "for"
         /\ t.t = "def" => \E e \in r.nodes : e.k \in {"let", "for"} /\ t.n = e.n
         /\ t.t \in {"eval", "ended", "header", "def", "touch", "leave"}
<1> USE DEF Eval, Ended, Head0, Def, Touch, Leave
<1>1. CASE t \in {Eval(e) : e \in r.nodes}
  BY <1>1
<1>2. CASE t \in {Ended(e) : e \in r.nodes}
  BY <1>2
<1>3. CASE t \in {Head0(e) : e \in {f \in r.nodes : f.k = "for"}}
  BY <1>3
<1>4. CASE t \in {Def(e.n) : e \in {f \in r.nodes : f.k \in {"let", "for"}}}
  BY <1>4
<1>5. CASE t \in {Touch({e.n}) : e \in r.nodes} \cup {Touch(ArgPlaces(e)) : e \in r.nodes}
  BY <1>5
<1>6. CASE t = Leave
  BY <1>6
<1> QED BY <1>1, <1>2, <1>3, <1>4, <1>5, <1>6 DEF Task

(* The next task and the rest. *)
LEMMA TodoIs ==
  ASSUME TypeInv, todo # <<>>
  PROVE  /\ task \in Task(run) /\ Tail(todo) \in Seq(Task(run))
         /\ LiveInv => \E live, m : /\ Serves(run, task, live, m)
                                   /\ Carries(run, Tail(todo), m, {})
                                   /\ live \cap gone = {}
<1>1. todo \in Seq(Task(run))
  BY DEF TypeInv
<1>2. task \in Task(run) /\ Tail(todo) \in Seq(Task(run))
  BY <1>1, HeadTailProperties DEF task
<1>3. ASSUME LiveInv
      PROVE  \E live, m : Serves(run, task, live, m) /\ Carries(run, Tail(todo), m, {}) /\ live \cap gone = {}
  <2>1. PICK live : Carries(run, todo, live, {}) /\ live \cap gone = {}
    BY <1>3 DEF LiveInv
  <2>2. \E m : Serves(run, Head(todo), live, m) /\ Carries(run, Tail(todo), m, {})
    BY <1>1, <2>1, CarriesHead
  <2> QED BY <2>1, <2>2 DEF task
<1> QED BY <1>2, <1>3

(* The sequence w of tasks instead of the first. *)
LEMMA ReplaceTask ==
  ASSUME NEW r, NEW T, NEW w \in Seq(T), NEW rest \in Seq(T), NEW live, NEW m, NEW b, NEW a,
         Carries(r, w, b, a), b \subseteq live, m \subseteq a, Carries(r, rest, m, {})
  PROVE  w \o rest \in Seq(T) /\ Carries(r, w \o rest, live, {})
<1>1. Carries(r, w, live, m)
  BY CarriesWider
<1>2. Carries(r, w \o rest, live, {})
  BY <1>1, CarriesConcat
<1> QED BY <1>2, ConcatProperties

(***************************************************************************)
(* One step.                                                               *)
(***************************************************************************)
Inv == TypeInv /\ LiveInv /\ SpentInv

LEMMA ReadKeeps ==
  ASSUME Inv, AnswersSolve, Read
  PROVE  Inv'
<1> DEFINE e == task.e
<1>1. /\ todo # <<>> /\ task.t = "eval" /\ e.k = "var"
      /\ gone' = IF e.id \in run.last THEN gone \cup {e.n} ELSE gone
      /\ spent' = IF e.id \in run.own THEN spent ELSE spent \cup ({e.n} \cap LinearNames)
      /\ todo' = Tail(todo)
      /\ run' = run
  BY DEF Read
<1>2. IsTree(run) /\ LiveSolved(run) /\ (run.ok => LinearSolved(run))
  BY StartsAssumption DEF Inv, TypeInv, AnswersSolve
<1>3. PICK live, m : /\ Serves(run, task, live, m)
                     /\ Carries(run, Tail(todo), m, {})
                     /\ live \cap gone = {}
  BY <1>1, TodoIs DEF Inv
<1>4. e \in run.nodes /\ Tail(todo) \in Seq(Task(run))
  BY <1>1, TodoIs, TaskIs DEF Inv
<1>5. After(run, e) \cup {e.n} \subseteq Before(run, e)
      /\ (e.id \in run.last => e.n \notin After(run, e))
  BY <1>1, <1>2, <1>4, NodeFacts DEF NodeLinked
<1>6. Before(run, e) \subseteq live /\ m \subseteq After(run, e)
  BY <1>1, <1>3 DEF Serves
<1> HIDE DEF e
<1>7. m \cap gone' = {}
  BY <1>1, <1>3, <1>5, <1>6
<1>8. LiveInv'
  <2>1. Carries(run', todo', m, {})
    BY <1>1, <1>3
  <2> QED BY <1>7, <2>1 DEF LiveInv
<1>9. TypeInv'
  <2>1. todo' \in Seq(Task(run'))
    BY <1>1, <1>4
  <2>2. run' \in Starts /\ spent' \subseteq LinearNames
    BY <1>1 DEF Inv, TypeInv
  <2> QED BY <2>1, <2>2 DEF TypeInv
<1>10. SpentInv'
  <2> SUFFICES ASSUME run.ok PROVE spent' \ run.exit \subseteq gone'
    BY <1>1 DEF SpentInv
  <2>1. spent \ run.exit \subseteq gone
    BY DEF Inv, SpentInv
  <2>2. e.n \in LinearNames \ run.exit /\ e.id \notin run.own => e.id \in run.last
    BY <1>1, <1>2, <1>4 DEF LinearSolved
  <2> QED BY <1>1, <2>1, <2>2
<1> QED BY <1>8, <1>9, <1>10 DEF Inv

(* A step that only replaces the first task by others. *)
LEMMA WorkKeeps ==
  ASSUME Inv, AnswersSolve, Work \/ Loop \/ Return
  PROVE  Inv'
<1> DEFINE e == task.e
           Goal == \E live : Carries(run, todo', live, {}) /\ live \cap gone = {}
<1>1. /\ todo # <<>> /\ run' = run /\ gone' = gone /\ spent' = spent
      /\ \/ /\ task.t = "eval" /\ e.k \notin {"var", "ret"}
            /\ \E w \in Unfold(e) : todo' = w \o Tail(todo)
         \/ /\ task.t = "header"
            /\ \E w \in Turns(e) \cup {<<>>} : todo' = w \o Tail(todo)
         \/ /\ task.t = "eval" /\ e.k = "ret"
            /\ todo' = Append(Evals(e.es), Leave)
  BY DEF Work, Loop, Return
<1>2. IsTree(run) /\ LiveSolved(run)
  BY StartsAssumption DEF Inv, TypeInv, AnswersSolve
<1>3. PICK live, m : /\ Serves(run, task, live, m)
                     /\ Carries(run, Tail(todo), m, {})
                     /\ live \cap gone = {}
  BY <1>1, TodoIs DEF Inv
<1>4. Tail(todo) \in Seq(Task(run)) /\ task \in Task(run)
  BY <1>1, TodoIs DEF Inv
<1>5. e \in run.nodes
  BY <1>1, <1>4, TaskIs
<1>6. ASSUME NEW w \in Unfold(e), todo' = w \o Tail(todo), task.t = "eval", e.k \notin {"var", "ret"}
      PROVE  todo' \in Seq(Task(run)) /\ Goal
  <2>1. w \in Seq(Task(run)) /\ Carries(run, w, Before(run, e), After(run, e))
    BY <1>2, <1>5, <1>6, UnfoldCarries
  <2>2. Before(run, e) \subseteq live /\ m \subseteq After(run, e)
    BY <1>3, <1>6 DEF Serves
  <2> HIDE DEF e
  <2>3. w \o Tail(todo) \in Seq(Task(run)) /\ Carries(run, w \o Tail(todo), live, {})
    BY <1>3, <1>4, <2>1, <2>2, ReplaceTask
  <2> QED BY <1>3, <1>6, <2>3
<1>7. ASSUME NEW w \in Turns(e) \cup {<<>>}, todo' = w \o Tail(todo), task.t = "header"
      PROVE  todo' \in Seq(Task(run)) /\ Goal
  <2>1. e.k = "for"
    BY <1>4, <1>7, TaskIs
  <2>2. w \in Seq(Task(run)) /\ Carries(run, w, After(run, e.es[1]), After(run, e))
    BY <1>2, <1>5, <1>7, <2>1, TurnCarries
  <2>3. After(run, e.es[1]) \subseteq live /\ m \subseteq After(run, e)
    BY <1>3, <1>7 DEF Serves
  <2> HIDE DEF e
  <2>4. w \o Tail(todo) \in Seq(Task(run)) /\ Carries(run, w \o Tail(todo), live, {})
    BY <1>3, <1>4, <2>2, <2>3, ReplaceTask
  <2> QED BY <1>3, <1>7, <2>4
<1>8. ASSUME todo' = Append(Evals(e.es), Leave), task.t = "eval", e.k = "ret"
      PROVE  todo' \in Seq(Task(run)) /\ Goal
  <2>1. /\ Append(Evals(e.es), Leave) \in Seq(Task(run))
        /\ Carries(run, Append(Evals(e.es), Leave), Before(run, e), {})
    BY <1>2, <1>5, <1>8, ReturnCarries
  <2>2. Before(run, e) \subseteq live
    BY <1>3, <1>8 DEF Serves
  <2> HIDE DEF e
  <2>3. Before(run, e) \cap gone = {}
    BY <1>3, <2>2
  <2> QED BY <1>8, <2>1, <2>3
<1>9. todo' \in Seq(Task(run)) /\ Goal
  <2> HIDE DEF Goal, e
  <2> QED BY <1>1, <1>6, <1>7, <1>8
<1>10. LiveInv'
  <2>1. PICK names : Carries(run, todo', names, {}) /\ names \cap gone = {}
    BY <1>9
  <2>2. Carries(run', todo', names, {}) /\ names \cap gone' = {}
    BY <1>1, <2>1
  <2> QED BY <2>2 DEF LiveInv
<1>11. TypeInv'
  <2>1. todo' \in Seq(Task(run'))
    BY <1>1, <1>9
  <2> QED BY <1>1, <2>1 DEF Inv, TypeInv
<1>12. SpentInv'
  BY <1>1 DEF Inv, SpentInv
<1> QED BY <1>10, <1>11, <1>12 DEF Inv

(* A step that takes the first task away, and only changes what is gone. *)
LEMMA DoneKeeps ==
  ASSUME Inv, AnswersSolve, Define \/ Use \/ EndStatement
  PROVE  Inv'
<1>1. todo # <<>> /\ run' = run /\ todo' = Tail(todo) /\ task.t \in {"def", "touch", "ended"}
  BY DEF Define, Use, EndStatement
<1>2. IsTree(run) /\ LiveSolved(run)
  BY StartsAssumption DEF Inv, TypeInv, AnswersSolve
<1>3. PICK live, m : /\ Serves(run, task, live, m)
                     /\ Carries(run, Tail(todo), m, {})
                     /\ live \cap gone = {}
  BY <1>1, TodoIs DEF Inv
<1>4. Tail(todo) \in Seq(Task(run)) /\ task \in Task(run)
  BY <1>1, TodoIs DEF Inv
<1>5. spent \subseteq LinearNames /\ (run.ok => spent \ run.exit \subseteq gone)
  BY DEF Inv, TypeInv, SpentInv
<1>6. CASE Define
  <2>1. gone' = gone \ {task.n} /\ spent' = spent \ {task.n} /\ m \ {task.n} \subseteq live
    BY <1>3, <1>6 DEF Define, Serves
  <2>2. m \cap gone' = {} /\ spent' \subseteq LinearNames /\ (run.ok => spent' \ run.exit \subseteq gone')
    BY <1>3, <1>5, <2>1
  <2> QED BY <1>1, <1>3, <1>4, <2>2 DEF Inv, TypeInv, LiveInv, SpentInv
<1>7. CASE Use
  <2>1. gone' = gone /\ spent' = spent /\ m \subseteq live
    BY <1>3, <1>7 DEF Use, Serves
  <2>2. m \cap gone' = {} /\ spent' \subseteq LinearNames /\ (run.ok => spent' \ run.exit \subseteq gone')
    BY <1>3, <1>5, <2>1
  <2> QED BY <1>1, <1>3, <1>4, <2>2 DEF Inv, TypeInv, LiveInv, SpentInv
<1>8. CASE EndStatement
  <2>1. /\ gone' = gone \cup {d[2] : d \in {f \in run.dead : f[1] = task.e.id}}
        /\ spent' = spent /\ m \subseteq live /\ m \subseteq After(run, task.e) /\ task.t = "ended"
    BY <1>3, <1>8 DEF EndStatement, Serves
  <2>2. task.e \in run.nodes
    BY <1>4, <2>1, TaskIs
  <2>3. \A d \in run.dead : d[1] = task.e.id => d[2] \notin After(run, task.e)
    BY <1>2, <2>2, NodeFacts
  <2>4. m \cap {d[2] : d \in {f \in run.dead : f[1] = task.e.id}} = {}
    BY <2>1, <2>3
  <2>5. m \cap gone' = {} /\ spent' \subseteq LinearNames /\ (run.ok => spent' \ run.exit \subseteq gone')
    BY <1>3, <1>5, <2>1, <2>4
  <2> QED BY <1>1, <1>3, <1>4, <2>5 DEF Inv, TypeInv, LiveInv, SpentInv
<1> QED BY <1>6, <1>7, <1>8

LEMMA ExitKeeps ==
  ASSUME Inv, Exit
  PROVE  Inv'
<1>1. run' = run /\ gone' = gone /\ spent' = spent /\ todo' = <<>>
  BY DEF Exit
<1>2. Carries(run', todo', {}, {})
  BY <1>1, CarriesNothing
<1>3. LiveInv'
  BY <1>2 DEF LiveInv
<1>4. TypeInv'
  <2>1. <<>> \in Seq(Task(run))
    OBVIOUS
  <2> QED BY <1>1, <2>1 DEF Inv, TypeInv
<1> QED BY <1>1, <1>3, <1>4 DEF Inv, SpentInv

LEMMA StepKeeps ==
  ASSUME Inv, AnswersSolve, [Next]_vars
  PROVE  Inv' /\ AnswersSolve'
<1>1. run' = run
  BY DEF Next, vars, Read, Work, Return, Loop, Define, Use, EndStatement, Exit
<1>2. AnswersSolve'
  BY <1>1 DEF AnswersSolve
<1>3. CASE UNCHANGED vars
  <2>1. run' = run /\ todo' = todo /\ gone' = gone /\ spent' = spent
    BY <1>3 DEF vars
  <2>2. TypeInv' /\ SpentInv'
    BY <2>1 DEF Inv, TypeInv, SpentInv
  <2>3. LiveInv'
    BY <2>1 DEF Inv, LiveInv
  <2> QED BY <1>2, <2>2, <2>3 DEF Inv
<1>4. CASE Next
  <2>1. Read \/ (Work \/ Loop \/ Return) \/ (Define \/ Use \/ EndStatement) \/ Exit
    BY <1>4 DEF Next
  <2>2. Inv'
    BY <2>1, ReadKeeps, WorkKeeps, DoneKeeps, ExitKeeps
  <2> QED BY <1>2, <2>2
<1> QED BY <1>3, <1>4

LEMMA InvIsEnough ==
  ASSUME Inv, AnswersSolve
  PROVE  NoUseAfterDeath /\ LinearReadOnce
<1>1. CASE todo = <<>>
  BY <1>1 DEF NoUseAfterDeath, LinearReadOnce, Needed
<1>2. CASE todo # <<>>
  <2>1. IsTree(run) /\ LiveSolved(run)
    BY StartsAssumption DEF Inv, TypeInv, AnswersSolve
  <2>2. PICK live, m : Serves(run, task, live, m) /\ live \cap gone = {}
    BY <1>2, TodoIs DEF Inv
  <2>3. task \in Task(run)
    BY <1>2, TodoIs DEF Inv
  <2>4. task.t = "eval" /\ task.e.k = "var" => task.e.n \in live
    <3> SUFFICES ASSUME task.t = "eval", task.e.k = "var" PROVE task.e.n \in live
      OBVIOUS
    <3>1. task.e \in run.nodes
      BY <2>3, TaskIs
    <3>2. task.e.n \in Before(run, task.e)
      BY <2>1, <3>1, NodeFacts DEF NodeLinked
    <3>3. Before(run, task.e) \subseteq live
      BY <2>2 DEF Serves
    <3> QED BY <3>2, <3>3
  <2>5. (task.t = "touch" => task.n \subseteq live) /\ (task.t = "leave" => run.exit \subseteq live)
    BY <2>2 DEF Serves
  <2>6. Needed \subseteq live
    BY <1>2, <2>4, <2>5 DEF Needed
  <2>7. NoUseAfterDeath
    BY <2>2, <2>6 DEF NoUseAfterDeath
  <2>8. LinearReadOnce
    BY <2>2, <2>4 DEF LinearReadOnce, Inv, SpentInv
  <2> QED BY <2>7, <2>8
<1> QED BY <1>1, <1>2

-----------------------------------------------------------------------------
(***************************************************************************)
(* What the tasks still to do will move, in straight code.                 *)
(***************************************************************************)
MovedOf(r, t) == IF t.t = "eval" THEN Moved(r, t.e) ELSE {}
MovedIn(r, ts) == UNION {MovedOf(r, ts[i]) : i \in DOMAIN ts}

LEMMA MovedByTasks ==
  ASSUME NEW r
  PROVE  /\ \A e : MovedOf(r, Eval(e)) = Moved(r, e) /\ MovedOf(r, Ended(e)) = {}
         /\ \A n : MovedOf(r, Def(n)) = {} /\ MovedOf(r, Touch(n)) = {}
         /\ MovedOf(r, Leave) = {}
BY DEF MovedOf, Eval, Ended, Def, Touch, Leave

LEMMA MovedInNothing ==
  ASSUME NEW r
  PROVE  MovedIn(r, <<>>) = {}
BY DEF MovedIn

LEMMA MovedInOne ==
  ASSUME NEW r, NEW t
  PROVE  MovedIn(r, <<t>>) = MovedOf(r, t)
<1>1. DOMAIN <<t>> = {1} /\ <<t>>[1] = t
  OBVIOUS
<1> QED BY <1>1 DEF MovedIn

LEMMA MovedInConcat ==
  ASSUME NEW r, NEW T, NEW ts \in Seq(T), NEW us \in Seq(T)
  PROVE  MovedIn(r, ts \o us) = MovedIn(r, ts) \cup MovedIn(r, us)
<1> DEFINE n == Len(ts)
           k == Len(us)
           all == ts \o us
<1>1. /\ n \in Nat /\ k \in Nat /\ DOMAIN ts = 1..n /\ DOMAIN us = 1..k
      /\ DOMAIN all = 1..n + k
  <2>1. DOMAIN ts = 1..n /\ n \in Nat /\ DOMAIN us = 1..k /\ k \in Nat
    BY LenProperties
  <2>2. all \in Seq(T) /\ Len(all) = n + k
    BY ConcatProperties
  <2>3. DOMAIN all = 1..n + k
    BY <2>2, LenProperties
  <2> QED BY <2>1, <2>3
<1>2. \A i \in 1..n + k : all[i] = IF i <= n THEN ts[i] ELSE us[i - n]
  BY ConcatProperties
<1> HIDE DEF n, k, all
<1>3. \A i \in 1..n : i \in 1..n + k /\ all[i] = ts[i]
  BY <1>1, <1>2
<1>4. \A i \in 1..k : n + i \in 1..n + k /\ all[n + i] = us[i]
  BY <1>1, <1>2
<1>5. \A i \in 1..n + k : i \in 1..n \/ (i - n \in 1..k /\ all[i] = us[i - n])
  BY <1>1, <1>2
<1>6. MovedIn(r, ts) \subseteq MovedIn(r, all)
  BY <1>1, <1>3 DEF MovedIn
<1>7. MovedIn(r, us) \subseteq MovedIn(r, all)
  BY <1>1, <1>4 DEF MovedIn
<1>8. MovedIn(r, all) \subseteq MovedIn(r, ts) \cup MovedIn(r, us)
  BY <1>1, <1>3, <1>5 DEF MovedIn
<1>9. MovedIn(r, all) = MovedIn(r, ts) \cup MovedIn(r, us)
  BY <1>6, <1>7, <1>8
<1> QED BY <1>9 DEF all

LEMMA MovedInAppend ==
  ASSUME NEW r, NEW T, NEW ts \in Seq(T), NEW t \in T
  PROVE  MovedIn(r, Append(ts, t)) = MovedIn(r, ts) \cup MovedOf(r, t)
<1>1. <<t>> \in Seq(T) /\ Append(ts, t) = ts \o <<t>>
  OBVIOUS
<1>3. MovedIn(r, <<t>>) = MovedOf(r, t)
  BY MovedInOne
<1> DEFINE last == <<t>>
<1>4. last \in Seq(T)
  BY <1>1
<1>5. MovedIn(r, last) = MovedOf(r, t) /\ Append(ts, t) = ts \o last
  BY <1>1, <1>3
<1> HIDE DEF last
<1>6. MovedIn(r, ts \o last) = MovedIn(r, ts) \cup MovedIn(r, last)
  BY <1>4, MovedInConcat
<1> QED BY <1>5, <1>6

LEMMA MovedInHead ==
  ASSUME NEW r, NEW T, NEW ts \in Seq(T), ts # <<>>
  PROVE  MovedIn(r, ts) = MovedOf(r, Head(ts)) \cup MovedIn(r, Tail(ts))
<1>1. <<Head(ts)>> \in Seq(T) /\ Tail(ts) \in Seq(T)
  BY HeadTailProperties
<1>2. ts = <<Head(ts)>> \o Tail(ts)
  BY HeadTailProperties
<1>3. MovedIn(r, <<Head(ts)>>) = MovedOf(r, Head(ts))
  BY MovedInOne
<1> DEFINE first == <<Head(ts)>>
           rest == Tail(ts)
<1>4. /\ first \in Seq(T) /\ rest \in Seq(T) /\ ts = first \o rest
      /\ MovedIn(r, first) = MovedOf(r, Head(ts))
  BY <1>1, <1>2, <1>3
<1> HIDE DEF first, rest
<1>5. MovedIn(r, first \o rest) = MovedIn(r, first) \cup MovedIn(r, rest)
  BY <1>4, MovedInConcat
<1>6. MovedIn(r, ts) = MovedOf(r, Head(ts)) \cup MovedIn(r, rest)
  BY <1>4, <1>5
<1> QED BY <1>6 DEF rest

LEMMA MovedInEvals ==
  ASSUME NEW r, NEW es \in Seq(r.nodes)
  PROVE  MovedIn(r, Evals(es)) = MovedBy(r, es)
<1>1. DOMAIN Evals(es) = DOMAIN es /\ \A i \in DOMAIN es : Evals(es)[i] = Eval(es[i])
  BY DEF Evals
<1>2. \A i \in DOMAIN es : MovedOf(r, Evals(es)[i]) = Moved(r, es[i])
  BY <1>1, MovedByTasks
<1> QED BY <1>1, <1>2 DEF MovedIn, MovedBy

LEMMA MovedInStmts ==
  ASSUME NEW r, NEW es \in Seq(r.nodes)
  PROVE  MovedIn(r, Stmts(es)) = MovedBy(r, es)
<1> DEFINE n == Len(es)
           ts == Stmts(es)
<1>1. n \in Nat /\ DOMAIN es = 1..n
  BY LenProperties
<1>2. /\ DOMAIN ts = 1..2 * n
      /\ \A i \in 1..n : ts[2 * i - 1] = Eval(es[i]) /\ ts[2 * i] = Ended(es[i])
  <2>1. ts \in Seq(Task(r)) /\ Len(ts) = 2 * n
        /\ \A i \in 1..n : ts[2 * i - 1] = Eval(es[i]) /\ ts[2 * i] = Ended(es[i])
    BY StmtsAre
  <2> QED BY <2>1, LenProperties
<1> HIDE DEF n, ts
<1>3. \A i \in 1..n : MovedOf(r, ts[2 * i - 1]) = Moved(r, es[i]) /\ MovedOf(r, ts[2 * i]) = {}
  BY <1>2, MovedByTasks
<1>4. \A i \in 1..n : 2 * i - 1 \in 1..2 * n
  BY <1>1
<1>5. ASSUME NEW j \in 1..2 * n
      PROVE  \E i \in 1..n : j = 2 * i - 1 \/ j = 2 * i
  <2>1. CASE j % 2 = 1
    <3>1. (j + 1) \div 2 \in 1..n /\ j = 2 * ((j + 1) \div 2) - 1
      BY <1>1, <2>1
    <3> QED BY <3>1
  <2>2. CASE j % 2 # 1
    <3>1. j \div 2 \in 1..n /\ j = 2 * (j \div 2)
      BY <1>1, <2>2
    <3> QED BY <3>1
  <2> QED BY <2>1, <2>2
<1>6. \A j \in 1..2 * n : \E i \in 1..n : MovedOf(r, ts[j]) \subseteq Moved(r, es[i])
  BY <1>3, <1>5
<1>7. \A i \in 1..n : \E j \in 1..2 * n : Moved(r, es[i]) = MovedOf(r, ts[j])
  BY <1>3, <1>4
<1>8. MovedIn(r, ts) \subseteq MovedBy(r, es)
  BY <1>1, <1>2, <1>6 DEF MovedIn, MovedBy
<1>9. MovedBy(r, es) \subseteq MovedIn(r, ts)
  BY <1>1, <1>2, <1>7 DEF MovedIn, MovedBy
<1>10. MovedIn(r, ts) = MovedBy(r, es)
  BY <1>8, <1>9
<1> QED BY <1>10 DEF ts

(* Unfolding a node of straight code leaves to its parts what it moves. *)
LEMMA UnfoldMoves ==
  ASSUME NEW r, IsTree(r), LinearSolved(r), Straight(r), NEW e \in r.nodes,
         e.k \notin {"var", "ret"}, NEW w \in Unfold(e)
  PROVE  MovedIn(r, w) = Moved(r, e)
<1>1. /\ e.es \in Seq(r.nodes) /\ (e.k = "if" => Len(e.es) \in {2, 3})
      /\ e.k \in {"lit", "op", "block", "let", "put", "call", "place", "if"}
  BY DEF IsTree, Straight
<1>2. e.k # "if" => Moved(r, e) = MovedBy(r, e.es)
  BY DEF LinearSolved
<1>3. MovedIn(r, Evals(e.es)) = MovedBy(r, e.es) /\ MovedIn(r, Stmts(e.es)) = MovedBy(r, e.es)
  BY <1>1, MovedInEvals, MovedInStmts
<1>4. Evals(e.es) \in Seq(Task(r))
  BY <1>1, EvalsAre
<1>5. CASE e.k = "lit"
  <2>1. w = <<>>
    BY <1>5 DEF Unfold
  <2>2. e.es = <<>>
    BY <1>5 DEF IsTree
  <2>3. MovedBy(r, e.es) = {}
    BY <2>2 DEF MovedBy
  <2> QED BY <1>2, <1>5, <2>1, <2>3, MovedInNothing
<1>6. CASE e.k = "op"
  <2>1. w = Evals(e.es)
    BY <1>6 DEF Unfold
  <2> QED BY <1>2, <1>3, <1>6, <2>1
<1>7. CASE e.k = "block"
  <2>1. w = Stmts(e.es)
    BY <1>7 DEF Unfold
  <2> QED BY <1>2, <1>3, <1>7, <2>1
<1>8. CASE e.k = "let"
  <2>1. w = Append(Evals(e.es), Def(e.n)) /\ Def(e.n) \in Task(r)
    BY <1>8, TasksAre DEF Unfold
  <2>2. MovedIn(r, w) = MovedIn(r, Evals(e.es)) \cup MovedOf(r, Def(e.n))
    BY <1>4, <2>1, MovedInAppend
  <2>3. MovedOf(r, Def(e.n)) = {}
    BY MovedByTasks
  <2> QED BY <1>2, <1>3, <1>8, <2>2, <2>3
<1>9. CASE e.k \in {"put", "place"}
  <2> DEFINE first == <<Touch({e.n})>>
             mid == Evals(e.es)
  <2>1. w = first \o mid \o first
    BY <1>9 DEF Unfold, CompilePlaceAssign
  <2>2. first \in Seq(Task(r))
    BY TasksAre
  <2>3. MovedIn(r, first) = {}
    BY MovedInOne, MovedByTasks
  <2>4. mid \in Seq(Task(r)) /\ MovedIn(r, mid) = Moved(r, e)
    BY <1>2, <1>3, <1>4, <1>9
  <2> HIDE DEF first, mid
  <2> DEFINE front == first \o mid
  <2>5. front \in Seq(Task(r))
    BY <2>2, <2>4, ConcatProperties
  <2>6. MovedIn(r, front) = MovedIn(r, first) \cup MovedIn(r, mid)
    BY <2>2, <2>4, MovedInConcat
  <2>7. w = front \o first
    BY <2>1
  <2> HIDE DEF front
  <2>8. MovedIn(r, front \o first) = MovedIn(r, front) \cup MovedIn(r, first)
    BY <2>2, <2>5, MovedInConcat
  <2> QED BY <2>3, <2>4, <2>6, <2>7, <2>8
<1>10. CASE e.k = "call"
  <2> DEFINE touch == Touch(ArgPlaces(e))
  <2>1. w = Append(Evals(e.es), touch) /\ touch \in Task(r)
    BY <1>10, TasksAre DEF Unfold, CompileCall
  <2>2. MovedOf(r, touch) = {}
    BY MovedByTasks
  <2> HIDE DEF touch
  <2>3. MovedIn(r, w) = MovedIn(r, Evals(e.es)) \cup MovedOf(r, touch)
    BY <1>4, <2>1, MovedInAppend
  <2> QED BY <1>2, <1>3, <1>10, <2>2, <2>3
<1>11. CASE e.k = "if"
  <2>1. /\ Moved(r, e) = Moved(r, e.es[1]) \cup Moved(r, e.es[2])
        /\ Moved(r, e.es[2]) = IF Len(e.es) = 3 THEN Moved(r, e.es[3]) ELSE {}
    BY <1>11 DEF LinearSolved
  <2>2. ASSUME NEW f, NEW g PROVE MovedIn(r, <<Eval(f), Eval(g)>>) = Moved(r, f) \cup Moved(r, g)
    <3> DEFINE T == {Eval(f), Eval(g)}
               one == <<Eval(f)>>
               two == <<Eval(g)>>
    <3>1. one \in Seq(T) /\ two \in Seq(T) /\ Eval(f) \in T /\ Eval(g) \in T
      OBVIOUS
    <3>2. MovedIn(r, one) = Moved(r, f)
      BY MovedInOne, MovedByTasks
    <3>3. MovedIn(r, two) = Moved(r, g)
      BY MovedInOne, MovedByTasks
    <3> HIDE DEF T
    <3>4. <<Eval(f), Eval(g)>> = one \o two
      BY <3>1, TwoIs
    <3> HIDE DEF one, two
    <3>5. MovedIn(r, one \o two) = MovedIn(r, one) \cup MovedIn(r, two)
      BY <3>1, MovedInConcat
    <3> QED BY <3>2, <3>3, <3>4, <3>5
  <2>3. CASE w = <<Eval(e.es[1]), Eval(e.es[2])>>
    BY <2>1, <2>2, <2>3
  <2>4. CASE Len(e.es) = 3 /\ w = <<Eval(e.es[1]), Eval(e.es[3])>>
    BY <2>1, <2>2, <2>4
  <2>5. CASE Len(e.es) # 3 /\ w = <<Eval(e.es[1])>>
    <3>1. MovedIn(r, w) = Moved(r, e.es[1])
      BY <2>5, MovedInOne, MovedByTasks
    <3>2. Moved(r, e) = Moved(r, e.es[1])
      BY <2>1, <2>5
    <3> QED BY <3>1, <3>2
  <2>6. w \in CompileConditional(e)
    BY <1>11 DEF Unfold
  <2> QED BY <2>3, <2>4, <2>5, <2>6 DEF CompileConditional
<1> QED BY <1>1, <1>5, <1>6, <1>7, <1>8, <1>9, <1>10, <1>11

(* What was moved and what is yet to move make what the rules say.          *)
MovedInv ==
  (run.ok /\ Straight(run) /\ todo # <<>>)
  => (spent \ run.exit) \cup MovedIn(run, todo) = run.moved

LEMMA InitMoved ==
  ASSUME Init, AnswersSolve
  PROVE  MovedInv
<1> SUFFICES ASSUME run.ok, Straight(run)
             PROVE  (spent \ run.exit) \cup MovedIn(run, todo) = run.moved
  BY DEF MovedInv
<1>1. IsTree(run) /\ LinearSolved(run)
  BY StartsAssumption DEF Init, AnswersSolve
<1>2. run.code \in Seq(run.nodes) /\ run.moved = MovedBy(run, run.code)
  BY <1>1 DEF IsTree, LinearSolved
<1>3. Stmts(run.code) \in Seq(Task(run)) /\ Leave \in Task(run)
  BY <1>2, StmtsAre, TasksAre
<1>4. MovedIn(run, Append(Stmts(run.code), Leave)) = MovedIn(run, Stmts(run.code)) \cup MovedOf(run, Leave)
  BY <1>3, MovedInAppend
<1>5. MovedIn(run, Stmts(run.code)) = MovedBy(run, run.code) /\ MovedOf(run, Leave) = {}
  BY <1>2, MovedInStmts, MovedByTasks
<1> QED BY <1>2, <1>4, <1>5 DEF Init

LEMMA StepMoved ==
  ASSUME Inv, AnswersSolve, MovedInv, [Next]_vars
  PROVE  MovedInv'
<1>1. run' = run
  BY DEF Next, vars, Read, Work, Return, Loop, Define, Use, EndStatement, Exit
<1> SUFFICES ASSUME run.ok, Straight(run), todo' # <<>>
             PROVE  (spent' \ run.exit) \cup MovedIn(run, todo') = run.moved
  BY <1>1 DEF MovedInv
<1> DEFINE e == task.e
           rest == Tail(todo)
           m == MovedIn(run, rest)
<1>2. CASE UNCHANGED vars
  <2>1. todo' = todo /\ spent' = spent
    BY <1>2 DEF vars
  <2> QED BY <2>1 DEF MovedInv
<1>3. CASE Next
  <2>1. todo # <<>>
    BY <1>3 DEF Next, Read, Work, Return, Loop, Define, Use, EndStatement, Exit
  <2>2. IsTree(run) /\ LinearSolved(run)
    BY StartsAssumption DEF Inv, TypeInv, AnswersSolve
  <2>3. task \in Task(run) /\ rest \in Seq(Task(run))
    BY <2>1, TodoIs DEF Inv
  <2>4. (spent \ run.exit) \cup (MovedOf(run, task) \cup m) = run.moved
    <3>1. todo \in Seq(Task(run))
      BY DEF Inv, TypeInv
    <3>2. MovedIn(run, todo) = MovedOf(run, task) \cup m
      BY <2>1, <3>1, MovedInHead DEF task
    <3> QED BY <2>1, <3>2 DEF MovedInv
  <2>5. \A f \in run.nodes : f.k \notin {"for", "and", "ret"} /\ (f.k = "let" => f.n \notin LinearNames)
    BY DEF Straight
  <2>6. CASE Read
    <3>1. /\ task.t = "eval" /\ e.k = "var" /\ todo' = rest
          /\ spent' = IF e.id \in run.own THEN spent ELSE spent \cup ({e.n} \cap LinearNames)
      BY <2>6 DEF Read
    <3>2. e \in run.nodes
      BY <2>3, <3>1, TaskIs
    <3>3. MovedOf(run, task) = IF e.id \in run.own THEN {} ELSE {e.n} \cap (LinearNames \ run.exit)
      BY <2>2, <3>1, <3>2 DEF LinearSolved, MovedOf
    <3> HIDE DEF e, rest
    <3>4. spent' \ run.exit = (spent \ run.exit) \cup MovedOf(run, task)
      BY <3>1, <3>3
    <3> QED BY <2>4, <3>1, <3>4
  <2>7. CASE Work
    <3>1. task.t = "eval" /\ e.k \notin {"var", "ret"} /\ spent' = spent
      BY <2>7 DEF Work
    <3>2. PICK w \in Unfold(e) : todo' = w \o rest
      BY <2>7 DEF Work
    <3>3. e \in run.nodes /\ LiveSolved(run)
      BY <2>3, <3>1, TaskIs DEF AnswersSolve
    <3>4. w \in Seq(Task(run))
      BY <2>2, <3>1, <3>3, UnfoldCarries
    <3>5. MovedIn(run, w) = Moved(run, e)
      BY <2>2, <3>1, <3>3, UnfoldMoves
    <3>6. MovedOf(run, task) = Moved(run, e)
      BY <3>1 DEF MovedOf
    <3> HIDE DEF e, rest, m
    <3>7. MovedIn(run, w \o rest) = MovedIn(run, w) \cup MovedIn(run, rest)
      BY <2>3, <3>4, MovedInConcat
    <3>8. MovedIn(run, todo') = MovedOf(run, task) \cup m
      BY <3>2, <3>5, <3>6, <3>7 DEF m
    <3> QED BY <2>4, <3>1, <3>2, <3>8 DEF m
  <2>8. CASE Return \/ Loop
    <3>1. e \in run.nodes /\ e.k \in {"for", "ret"}
      BY <2>3, <2>8, TaskIs DEF Return, Loop
    <3> QED BY <2>5, <3>1
  <2>9. CASE Define
    <3>1. task.t = "def" /\ spent' = spent \ {task.n} /\ todo' = rest
      BY <2>9 DEF Define
    <3>2. PICK f \in run.nodes : f.k \in {"let", "for"} /\ task.n = f.n
      BY <2>3, <3>1, TaskIs
    <3>3. task.n \notin LinearNames
      BY <2>5, <3>2
    <3>4. spent' = spent
      BY <3>1, <3>3 DEF Inv, TypeInv
    <3>5. MovedOf(run, task) = {}
      BY <3>1 DEF MovedOf
    <3> QED BY <2>4, <3>1, <3>4, <3>5
  <2>10. CASE Use \/ EndStatement
    <3>1. task.t \in {"touch", "ended"} /\ spent' = spent /\ todo' = rest
      BY <2>10 DEF Use, EndStatement
    <3>2. MovedOf(run, task) = {}
      BY <3>1 DEF MovedOf
    <3> QED BY <2>4, <3>1, <3>2
  <2>11. CASE Exit
    BY <2>11 DEF Exit
  <2> QED BY <1>3, <2>6, <2>7, <2>8, <2>9, <2>10, <2>11 DEF Next
<1> QED BY <1>2, <1>3

LEMMA MovedIsEnough ==
  ASSUME MovedInv
  PROVE  ConsumedOnEveryPath
<1> SUFFICES ASSUME run.ok, todo = <<Leave>>, Straight(run)
             PROVE  spent \ run.exit = run.moved
  BY DEF ConsumedOnEveryPath
<1>1. <<Leave>> # <<>>
  OBVIOUS
<1>2. MovedIn(run, <<Leave>>) = {}
  BY MovedInOne, MovedByTasks
<1> QED BY <1>1, <1>2 DEF MovedInv

-----------------------------------------------------------------------------
LEMMA InvHolds == Spec /\ AnswersSolve => [](Inv /\ MovedInv /\ AnswersSolve)
<1>1. Init /\ AnswersSolve => Inv /\ MovedInv /\ AnswersSolve
  BY InitInv, InitMoved DEF Inv
<1>2. (Inv /\ MovedInv /\ AnswersSolve) /\ [Next]_vars => (Inv /\ MovedInv /\ AnswersSolve)'
  BY StepKeeps, StepMoved
<1> QED BY <1>1, <1>2, PTL DEF Spec

(* Answers that solve the equations name no use the last while a path still *)
(* leads to another: what a move (read_var_raw) and a mark left out rest on. *)
THEOREM DeadNamesStayUnused == Spec /\ AnswersSolve => []NoUseAfterDeath
<1>1. Inv /\ AnswersSolve => NoUseAfterDeath
  BY InvIsEnough
<1> QED BY <1>1, InvHolds, PTL

(* A body the linear rules accept reads each value of a Linear variable at  *)
(* most once, on every path through branches and loops.                    *)
THEOREM LinearValuesAreReadOnce == Spec /\ AnswersSolve => []LinearReadOnce
<1>1. Inv /\ AnswersSolve => LinearReadOnce
  BY InvIsEnough
<1> QED BY <1>1, InvHolds, PTL

(* Straight code the linear rules accept consumes on each path the Linear   *)
(* variables that they say it consumes.                                    *)
THEOREM PathsConsumeAlike == Spec /\ AnswersSolve => []ConsumedOnEveryPath
<1>1. MovedInv => ConsumedOnEveryPath
  BY MovedIsEnough
<1> QED BY <1>1, InvHolds, PTL
=============================================================================
