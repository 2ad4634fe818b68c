------------------------- MODULE ModuleLoaderProofs -------------------------
(***************************************************************************)
(* For any programs: the loader links every file once and after what it     *)
(* imports, accepts only what can be linked, and refuses only what cannot.  *)
(* The files on the stack are a path in the graph of imports, so a file met *)
(* again on it is on a cycle; the files done are closed under imports, each *)
(* after its own, so none of them is.                                      *)
(***************************************************************************)
EXTENDS ModuleLoader, TLAPS, SequenceTheorems

-----------------------------------------------------------------------------
(* The graph of imports, as a value.                                        *)
DepsIn(g, p) == IF p \in DOMAIN g THEN g[p] ELSE {}
ClosedIn(g, S) == \A q \in S : DepsIn(g, q) \subseteq S
ReachIn(g, p) ==
  {q \in Path : \A S \in SUBSET Path : DepsIn(g, p) \subseteq S /\ ClosedIn(g, S) => q \in S}
Graph(g) == Entry \in DOMAIN g /\ DOMAIN g \subseteq Path /\ g \in [DOMAIN g -> SUBSET Path]

LEMMA DepsArePaths ==
  ASSUME NEW g, Graph(g), NEW p
  PROVE  DepsIn(g, p) \subseteq Path
BY DEF Graph, DepsIn

LEMMA ReachLeast ==
  ASSUME NEW g, NEW p, NEW S \in SUBSET Path, DepsIn(g, p) \subseteq S, ClosedIn(g, S)
  PROVE  ReachIn(g, p) \subseteq S
BY DEF ReachIn

LEMMA ReachFirst ==
  ASSUME NEW g, Graph(g), NEW p
  PROVE  DepsIn(g, p) \subseteq ReachIn(g, p)
BY DepsArePaths DEF ReachIn

LEMMA ReachOn ==
  ASSUME NEW g, Graph(g), NEW p, NEW q \in ReachIn(g, p)
  PROVE  DepsIn(g, q) \subseteq ReachIn(g, p)
<1> SUFFICES ASSUME NEW r \in DepsIn(g, q), NEW S \in SUBSET Path,
                    DepsIn(g, p) \subseteq S, ClosedIn(g, S)
             PROVE  r \in S
  BY DepsArePaths DEF ReachIn
<1>1. q \in S
  BY ReachLeast
<1> QED BY <1>1 DEF ClosedIn

(* What LinkOrder says of reachability, in these terms. *)
LEMMA ReachAbs ==
  ASSUME NEW p
  PROVE  Abs!Deps(p) = DepsIn(Needs, p) /\ Abs!Reach(p) = ReachIn(Needs, p)
BY DEF Abs!Deps, Abs!Reach, Abs!Closed, DepsIn, ReachIn, ClosedIn

-----------------------------------------------------------------------------
(* The invariant. *)

Readable(d, p) == ~d[p].bad /\ ~MisplacedImport(d[p].stmts)

(* An import by name asks for what the file declares, and for no name twice. *)
Sound(d, i) ==
  i.alias = None => /\ \A n \in ToSet(i.names) : n \in DeclaredNames(d[i.to].stmts)
                    /\ IsInjective(i.names)

(* The first n imports of a list are done: of files in `done`, each sound,   *)
(* no two binding the same name.                                           *)
PastDone(d, done, im, n) ==
  \A k \in 1..n : /\ im[k].to \in done /\ Sound(d, im[k])
                  /\ \A l \in (1..n) \ {k} : Named(im[k]) \cap Named(im[l]) = {}
BoundBy(im, n) == UNION {Named(im[k]) : k \in 1..n}

(* A file on the stack: `left` is the end of its imports, and those before it *)
(* are done and are what it has bound.                                     *)
Past(d, f) == Len(d[f.path].imports) - Len(f.left)
FrameOK(d, done, f) ==
  /\ f.path \in DOMAIN d /\ Readable(d, f.path)
  /\ f.left \in Seq(ToSet(d[f.path].imports))
  /\ Len(f.left) <= Len(d[f.path].imports)
  /\ \A k \in 1..Len(f.left) : f.left[k] = d[f.path].imports[Past(d, f) + k]
  /\ PastDone(d, done, d[f.path].imports, Past(d, f))
  /\ DOMAIN f.named \cup DOMAIN f.qual = BoundBy(d[f.path].imports, Past(d, f))

(* The stack is a path from the entry in the graph of imports, and the files *)
(* on it, the entry apart, are neither done nor on it twice.                *)
PathOK(g, s) ==
  /\ s # <<>> => s[1].path = Entry
  /\ \A i \in 1..(Len(s) - 1) : s[i + 1].path \in DepsIn(g, s[i].path)
  /\ \A i, j \in 1..Len(s) : i < j => s[j].path \in ReachIn(g, s[i].path)
FreshOK(s, done) ==
  \A i \in 2..Len(s) : /\ s[i].path \notin done
                       /\ \A j \in (2..Len(s)) \ {i} : s[i].path # s[j].path

(* The files done are good files the entry needs, each once and after its    *)
(* own imports.                                                            *)
OrderOK(g, good, o, done) ==
  /\ o \in Seq(DOMAIN g) /\ done = ToSet(o)
  /\ \A i \in 1..Len(o) :
       /\ o[i] \in good /\ o[i] \in ReachIn(g, Entry) /\ o[i] # Entry
       /\ DepsIn(g, o[i]) \subseteq {o[j] : j \in 1..(i - 1)}
       /\ \A j \in (1..Len(o)) \ {i} : o[j] # o[i]
ExportsOK(d, c) == \A p \in DOMAIN c : DOMAIN c[p].exports = DeclaredNames(d[p].stmts)

LoaderInv ==
  /\ disk \in Disks
  /\ stack \in Seq(ToSet(stack))
  /\ \A i \in 1..Len(stack) : FrameOK(disk, DOMAIN cache, stack[i])
  /\ PathOK(Needs, stack) /\ FreshOK(stack, DOMAIN cache)
  /\ OrderOK(Needs, GoodFiles, order, DOMAIN cache)
  /\ ExportsOK(disk, cache)

-----------------------------------------------------------------------------
(* Sequences and frames. *)

LEMMA SeqOfItems ==
  ASSUME NEW S, NEW s \in Seq(S)
  PROVE  s \in Seq(ToSet(s))
<1>1. Len(s) \in Nat /\ DOMAIN s = 1..Len(s) /\ s \in [1..Len(s) -> S]
  BY LenProperties
<1>2. s \in [1..Len(s) -> ToSet(s)]
  BY <1>1 DEF ToSet
<1> QED BY <1>1, <1>2, SeqDef

LEMMA FrameNew ==
  ASSUME NEW d, NEW done, NEW p \in DOMAIN d, Readable(d, p),
         d[p].imports \in Seq(ToSet(d[p].imports))
  PROVE  FrameOK(d, done, [path |-> p, left |-> d[p].imports, named |-> <<>>, qual |-> <<>>])
<1> DEFINE f == [path |-> p, left |-> d[p].imports, named |-> <<>>, qual |-> <<>>]
<1>1. Len(d[p].imports) \in Nat
  BY LenProperties
<1>2. Past(d, f) = 0
  BY <1>1 DEF Past
<1>3. DOMAIN f.named \cup DOMAIN f.qual = {} /\ BoundBy(d[p].imports, 0) = {}
  BY DEF BoundBy
<1>4. PastDone(d, done, d[p].imports, 0)
  BY DEF PastDone
<1>5. \A k \in 1..Len(f.left) : f.left[k] = d[p].imports[0 + k]
  OBVIOUS
<1>6. f.path = p /\ f.left = d[p].imports
  OBVIOUS
<1> QED BY <1>1, <1>2, <1>3, <1>4, <1>5, <1>6 DEF FrameOK

LEMMA FrameGrows ==
  ASSUME NEW d, NEW done, NEW more, done \subseteq more, NEW f, FrameOK(d, done, f)
  PROVE  FrameOK(d, more, f)
BY DEF FrameOK, PastDone

LEMMA PastAtEnd ==
  ASSUME NEW d, NEW f, f.left = <<>>, Len(d[f.path].imports) \in Nat
  PROVE  Past(d, f) = Len(d[f.path].imports)
BY DEF Past

LEMMA FrameHead ==
  ASSUME NEW d, NEW done, NEW f, FrameOK(d, done, f), f.left # <<>>,
         d[f.path].imports \in Seq(ToSet(d[f.path].imports))
  PROVE  /\ Past(d, f) \in Nat /\ Past(d, f) + 1 \in 1..Len(d[f.path].imports)
         /\ Len(f.left) \in Nat \ {0} /\ Len(d[f.path].imports) \in Nat
         /\ Head(f.left) = d[f.path].imports[Past(d, f) + 1]
<1> DEFINE im == d[f.path].imports
<1>1. f.left \in Seq(ToSet(im)) /\ Len(f.left) <= Len(im)
      /\ \A k \in 1..Len(f.left) : f.left[k] = im[Past(d, f) + k]
  BY DEF FrameOK
<1>2. Len(f.left) \in Nat \ {0} /\ Len(im) \in Nat
  BY <1>1, LenProperties, EmptySeq
<1> DEFINE l == Len(f.left)
           m == Len(im)
<1>3. Past(d, f) = m - l
  BY DEF Past
<1>4. Head(f.left) = f.left[1]
  BY <1>1
<1>5. l <= m /\ \A k \in 1..l : f.left[k] = im[(m - l) + k]
  BY <1>1, <1>3
<1> HIDE DEF l, m, im
<1>6. (m - l) \in Nat /\ (m - l) + 1 \in 1..m /\ l \in Nat \ {0} /\ m \in Nat
  BY <1>2, <1>5 DEF l, m
<1>7. Head(f.left) = im[(m - l) + 1]
  BY <1>4, <1>5, <1>6
<1> QED BY <1>3, <1>6, <1>7 DEF l, m, im

LEMMA FrameAdvance ==
  ASSUME NEW d, NEW done, NEW f, FrameOK(d, done, f), f.left # <<>>,
         d[f.path].imports \in Seq(ToSet(d[f.path].imports)),
         Head(f.left).to \in done, Sound(d, Head(f.left)),
         Named(Head(f.left)) \cap (DOMAIN f.named \cup DOMAIN f.qual) = {},
         NEW named, NEW qual,
         DOMAIN named \cup DOMAIN qual
           = (DOMAIN f.named \cup DOMAIN f.qual) \cup Named(Head(f.left))
  PROVE  FrameOK(d, done, [path |-> f.path, left |-> Tail(f.left), named |-> named, qual |-> qual])
<1> DEFINE im == d[f.path].imports
           n == Past(d, f)
           h == [path |-> f.path, left |-> Tail(f.left), named |-> named, qual |-> qual]
<1>1. /\ n \in Nat /\ n + 1 \in 1..Len(im) /\ Len(f.left) \in Nat \ {0} /\ Len(im) \in Nat
      /\ Head(f.left) = im[n + 1]
  BY FrameHead
<1>2. /\ f.left \in Seq(ToSet(im)) /\ Len(f.left) <= Len(im)
      /\ \A k \in 1..Len(f.left) : f.left[k] = im[n + k]
      /\ PastDone(d, done, im, n)
      /\ DOMAIN f.named \cup DOMAIN f.qual = BoundBy(im, n)
      /\ f.path \in DOMAIN d /\ Readable(d, f.path)
  BY DEF FrameOK
<1>3. /\ Tail(f.left) \in Seq(ToSet(im)) /\ Len(Tail(f.left)) = Len(f.left) - 1
      /\ \A k \in 1..Len(Tail(f.left)) : Tail(f.left)[k] = f.left[k + 1]
  <2>1. f.left \in Seq(ToSet(im))
    BY <1>2
  <2> HIDE DEF im, n, h
  <2> QED BY <2>1, HeadTailProperties
<1>4. h.path = f.path /\ h.left = Tail(f.left) /\ h.named = named /\ h.qual = qual
  OBVIOUS
<1>5. Past(d, h) = n + 1
  <2>1. n = Len(im) - Len(f.left)
    BY DEF Past
  <2>2. Past(d, h) = Len(im) - Len(Tail(f.left))
    BY <1>4 DEF Past
  <2> DEFINE l == Len(f.left)
             r == Len(Tail(f.left))
             m == Len(im)
  <2>3. l \in Nat \ {0} /\ m \in Nat /\ r = l - 1
    BY <1>1, <1>3
  <2> HIDE DEF l, m, r, im, n, h
  <2>4. n = m - l /\ Past(d, h) = m - r
    BY <2>1, <2>2 DEF l, m, r
  <2> QED BY <2>3, <2>4
<1>6. BoundBy(im, n + 1) = BoundBy(im, n) \cup Named(im[n + 1])
  <2>1. 1..(n + 1) = (1..n) \cup {n + 1}
    BY <1>1
  <2> HIDE DEF n, im
  <2> QED BY <2>1 DEF BoundBy
<1>7. \A k \in 1..n : Named(im[k]) \cap Named(im[n + 1]) = {}
  <2>1. Named(im[n + 1]) \cap BoundBy(im, n) = {}
    BY <1>1, <1>2
  <2> HIDE DEF n, im
  <2> QED BY <2>1 DEF BoundBy
<1>8. PastDone(d, done, im, n + 1)
  <2> SUFFICES ASSUME NEW k \in 1..(n + 1)
               PROVE  /\ im[k].to \in done /\ Sound(d, im[k])
                      /\ \A l \in (1..(n + 1)) \ {k} : Named(im[k]) \cap Named(im[l]) = {}
    BY DEF PastDone
  <2>1. CASE k = n + 1
    <3>1. im[k].to \in done /\ Sound(d, im[k])
      BY <2>1, <1>1
    <3>2. \A l \in (1..(n + 1)) \ {k} : l \in 1..n
      BY <2>1, <1>1
    <3> QED BY <2>1, <3>1, <3>2, <1>7
  <2>2. CASE k # n + 1
    <3>1. k \in 1..n
      BY <2>2, <1>1
    <3>2. \A l \in (1..(n + 1)) \ {k} : l = n + 1 \/ l \in (1..n) \ {k}
      BY <1>1
    <3> QED BY <3>1, <3>2, <1>2, <1>7 DEF PastDone
  <2> QED BY <2>1, <2>2
<1>9. \A k \in 1..Len(h.left) : h.left[k] = im[(n + 1) + k]
  <2> SUFFICES ASSUME NEW k \in 1..Len(Tail(f.left)) PROVE Tail(f.left)[k] = im[(n + 1) + k]
    BY <1>4
  <2>1. k + 1 \in 1..Len(f.left) /\ n + (k + 1) = (n + 1) + k
    BY <1>1, <1>3
  <2>2. Tail(f.left)[k] = f.left[k + 1]
    BY <1>3
  <2>3. f.left[k + 1] = im[n + (k + 1)]
    BY <2>1, <1>2
  <2> HIDE DEF n, im, h
  <2> QED BY <2>1, <2>2, <2>3
<1>10. Len(h.left) <= Len(im)
  BY <1>1, <1>2, <1>3, <1>4
<1>11. DOMAIN h.named \cup DOMAIN h.qual = BoundBy(im, n + 1)
  BY <1>1, <1>2, <1>4, <1>6
<1> HIDE DEF h, n, im
<1>12. im = d[h.path].imports
  BY <1>4 DEF im
<1> QED BY <1>2, <1>3, <1>4, <1>5, <1>8, <1>9, <1>10, <1>11, <1>12 DEF FrameOK, h

-----------------------------------------------------------------------------
(* The stack as a path. *)

LEMMA PathPush ==
  ASSUME NEW g, Graph(g), NEW S, NEW s \in Seq(S), s # <<>>, PathOK(g, s),
         NEW f \in S, f.path \in DepsIn(g, s[Len(s)].path)
  PROVE  PathOK(g, Append(s, f))
<1> DEFINE t == Append(s, f)
           n == Len(s)
<1>1. n \in Nat \ {0}
  BY EmptySeq
<1>2. Len(t) = n + 1 /\ t[n + 1] = f /\ \A i \in 1..n : t[i] = s[i]
  BY AppendProperties
<1>3. f.path \in ReachIn(g, s[n].path)
  BY ReachFirst
<1>4. ASSUME NEW i \in 1..n PROVE f.path \in ReachIn(g, s[i].path)
  <2>1. CASE i = n
    BY <2>1, <1>3
  <2>2. CASE i # n
    <3>1. i < n /\ n \in 1..n
      BY <2>2, <1>1
    <3>2. s[n].path \in ReachIn(g, s[i].path)
      BY <3>1 DEF PathOK
    <3> QED BY <3>2, ReachOn
  <2> QED BY <2>1, <2>2
<1>5. t # <<>> => t[1].path = Entry
  BY <1>1, <1>2 DEF PathOK
<1>6. ASSUME NEW i \in 1..n PROVE t[i + 1].path \in DepsIn(g, t[i].path)
  <2>1. CASE i = n
    BY <2>1, <1>1, <1>2
  <2>2. CASE i # n
    <3>1. i \in 1..(n - 1) /\ i + 1 \in 1..n
      BY <2>2, <1>1
    <3> QED BY <3>1, <1>2 DEF PathOK
  <2> QED BY <2>1, <2>2
<1>7. ASSUME NEW i \in 1..(n + 1), NEW j \in 1..(n + 1), i < j
      PROVE  t[j].path \in ReachIn(g, t[i].path)
  <2>1. i \in 1..n
    BY <1>1, <1>7
  <2>2. CASE j = n + 1
    BY <2>1, <2>2, <1>2, <1>4
  <2>3. CASE j # n + 1
    <3>1. j \in 1..n
      BY <2>3, <1>1
    <3> QED BY <2>1, <3>1, <1>2, <1>7 DEF PathOK
  <2> QED BY <2>2, <2>3
<1>8. (n + 1) - 1 = n
  BY <1>1
<1> HIDE DEF t, n
<1> QED BY <1>2, <1>5, <1>6, <1>7, <1>8 DEF PathOK, t

(* A stack that keeps the files of another, from the bottom up. *)
LEMMA PathPart ==
  ASSUME NEW g, NEW S, NEW s \in Seq(S), NEW T, NEW t \in Seq(T), PathOK(g, s),
         Len(t) <= Len(s), \A i \in 1..Len(t) : t[i].path = s[i].path
  PROVE  PathOK(g, t)
<1>1. Len(s) \in Nat /\ Len(t) \in Nat /\ (t # <<>> => Len(t) > 0) /\ (s = <<>> => Len(s) = 0)
  BY EmptySeq, LenProperties
<1>2. t # <<>> => t[1].path = Entry
  BY <1>1 DEF PathOK
<1>3. ASSUME NEW i \in 1..(Len(t) - 1) PROVE t[i + 1].path \in DepsIn(g, t[i].path)
  <2>1. i \in 1..(Len(s) - 1) /\ i \in 1..Len(t) /\ i + 1 \in 1..Len(t)
    BY <1>1
  <2> QED BY <2>1 DEF PathOK
<1>4. ASSUME NEW i \in 1..Len(t), NEW j \in 1..Len(t), i < j
      PROVE  t[j].path \in ReachIn(g, t[i].path)
  <2>1. i \in 1..Len(s) /\ j \in 1..Len(s)
    BY <1>1
  <2> QED BY <2>1, <1>4 DEF PathOK
<1> QED BY <1>2, <1>3, <1>4 DEF PathOK
-----------------------------------------------------------------------------
(* The order of the files done. *)

LEMMA OrderPush ==
  ASSUME NEW g, NEW good, NEW o, NEW done, OrderOK(g, good, o, done),
         NEW p \in DOMAIN g, p \in good, p \in ReachIn(g, Entry), p # Entry,
         p \notin done, DepsIn(g, p) \subseteq done
  PROVE  OrderOK(g, good, Append(o, p), done \cup {p})
<1> DEFINE t == Append(o, p)
           n == Len(o)
<1>1. o \in Seq(DOMAIN g) /\ done = ToSet(o)
  BY DEF OrderOK
<1>2. n \in Nat /\ DOMAIN o = 1..n
  BY <1>1, LenProperties
<1>3. t \in Seq(DOMAIN g) /\ Len(t) = n + 1 /\ t[n + 1] = p /\ \A i \in 1..n : t[i] = o[i]
  BY <1>1, AppendProperties
<1>4. DOMAIN t = 1..(n + 1)
  BY <1>3, LenProperties
<1>5. done = {o[i] : i \in 1..n}
  BY <1>1, <1>2 DEF ToSet
<1> HIDE DEF t, n
<1>6. done \cup {p} = ToSet(t)
  BY <1>2, <1>3, <1>4, <1>5 DEF ToSet
<1>7. ASSUME NEW i \in 1..(n + 1)
      PROVE  /\ t[i] \in good /\ t[i] \in ReachIn(g, Entry) /\ t[i] # Entry
             /\ DepsIn(g, t[i]) \subseteq {t[j] : j \in 1..(i - 1)}
             /\ \A j \in (1..(n + 1)) \ {i} : t[j] # t[i]
  <2>1. CASE i = n + 1
    <3>1. t[i] = p /\ {t[j] : j \in 1..(i - 1)} = done
      <4>1. i - 1 = n
        BY <2>1, <1>2
      <4>2. {t[j] : j \in 1..n} = {o[j] : j \in 1..n}
        BY <1>3
      <4> QED BY <2>1, <1>3, <1>5, <4>1, <4>2
    <3>2. \A j \in (1..(n + 1)) \ {i} : t[j] \in done
      BY <2>1, <1>2, <1>3, <1>5
    <3> QED BY <3>1, <3>2
  <2>2. CASE i # n + 1
    <3>1. i \in 1..n
      BY <2>2, <1>2
    <3>2. t[i] = o[i] /\ t[i] \in done
      BY <3>1, <1>3, <1>5
    <3>3. {t[j] : j \in 1..(i - 1)} = {o[j] : j \in 1..(i - 1)}
      BY <3>1, <1>2, <1>3
    <3>4. /\ o[i] \in good /\ o[i] \in ReachIn(g, Entry) /\ o[i] # Entry
          /\ DepsIn(g, o[i]) \subseteq {o[j] : j \in 1..(i - 1)}
          /\ \A j \in (1..n) \ {i} : o[j] # o[i]
      BY <3>1 DEF OrderOK, n
    <3>5. \A j \in (1..(n + 1)) \ {i} : t[j] # t[i]
      <4> SUFFICES ASSUME NEW j \in (1..(n + 1)) \ {i} PROVE t[j] # t[i]
        OBVIOUS
      <4>1. CASE j = n + 1
        BY <4>1, <3>2, <1>3
      <4>2. CASE j # n + 1
        <5>1. j \in (1..n) \ {i}
          BY <4>2, <1>2
        <5> QED BY <5>1, <3>2, <3>4, <1>3
      <4> QED BY <4>1, <4>2
    <3> QED BY <3>2, <3>3, <3>4, <3>5
  <2> QED BY <2>1, <2>2
<1> QED BY <1>3, <1>6, <1>7 DEF OrderOK, t

(* What only needs files that are done reaches only files that are done.    *)
LEMMA DoneClosed ==
  ASSUME NEW g, Graph(g), NEW good, NEW o, NEW done, OrderOK(g, good, o, done),
         NEW p, DepsIn(g, p) \subseteq done
  PROVE  ReachIn(g, p) \subseteq done
<1>1. o \in Seq(DOMAIN g) /\ done = ToSet(o)
  BY DEF OrderOK
<1>2. Len(o) \in Nat /\ DOMAIN o = 1..Len(o)
  BY <1>1, LenProperties
<1>3. done = {o[i] : i \in 1..Len(o)} /\ done \in SUBSET Path
  BY <1>1, <1>2, ElementOfSeq DEF ToSet, Graph
<1>4. ClosedIn(g, done)
  <2> SUFFICES ASSUME NEW i \in 1..Len(o) PROVE DepsIn(g, o[i]) \subseteq done
    BY <1>3 DEF ClosedIn
  <2>1. DepsIn(g, o[i]) \subseteq {o[j] : j \in 1..(i - 1)}
    BY DEF OrderOK
  <2>2. 1..(i - 1) \subseteq 1..Len(o)
    BY <1>2
  <2> QED BY <2>1, <2>2, <1>3
<1> QED BY <1>3, <1>4, ReachLeast

(* No file that is done imports itself, directly or through others.         *)
LEMMA DoneAcyclic ==
  ASSUME NEW g, Graph(g), NEW good, NEW o, NEW done, OrderOK(g, good, o, done),
         NEW p \in done
  PROVE  p \notin ReachIn(g, p)
<1>1. o \in Seq(DOMAIN g) /\ done = ToSet(o)
  BY DEF OrderOK
<1>2. Len(o) \in Nat /\ DOMAIN o = 1..Len(o)
  BY <1>1, LenProperties
<1>3. PICK i \in 1..Len(o) : p = o[i]
  BY <1>1, <1>2 DEF ToSet
<1> DEFINE S == {o[j] : j \in 1..(i - 1)}
<1>4. \A j \in 1..(i - 1) : j \in (1..Len(o)) \ {i}
  BY <1>2
<1>5. S \in SUBSET Path
  BY <1>1, <1>4, ElementOfSeq DEF Graph
<1>6. ClosedIn(g, S)
  <2> SUFFICES ASSUME NEW j \in 1..(i - 1) PROVE DepsIn(g, o[j]) \subseteq S
    BY DEF ClosedIn
  <2>1. j \in 1..Len(o)
    BY <1>4
  <2>2. DepsIn(g, o[j]) \subseteq {o[k] : k \in 1..(j - 1)}
    BY <2>1 DEF OrderOK
  <2>3. 1..(j - 1) \subseteq 1..(i - 1)
    BY <1>2
  <2> QED BY <2>2, <2>3
<1>7. DepsIn(g, p) \subseteq S
  BY <1>3 DEF OrderOK
<1>8. ReachIn(g, p) \subseteq S
  BY <1>5, <1>6, <1>7, ReachLeast
<1>9. p \notin S
  <2> SUFFICES ASSUME NEW j \in 1..(i - 1) PROVE o[j] # o[i]
    BY <1>3
  <2> QED BY <1>4 DEF OrderOK
<1> QED BY <1>8, <1>9

-----------------------------------------------------------------------------
(* The invariant in a state. *)

LEMMA DiskFacts ==
  ASSUME WellFormed, disk \in Disks
  PROVE  /\ Graph(Needs) /\ DOMAIN Needs = DOMAIN disk /\ Entry \in DOMAIN disk
         /\ \A p \in DOMAIN disk :
              /\ disk[p].imports \in Seq(ToSet(disk[p].imports))
              /\ DepsIn(Needs, p) = {i.to : i \in ToSet(disk[p].imports)}
              /\ \A i \in ToSet(disk[p].imports) : i.names \in Seq(ToSet(i.names))
BY DEF WellFormed, Needs, Graph, DepsIn, ImportsOf

LEMMA DiskSame ==
  ASSUME disk' = disk
  PROVE  Needs' = Needs /\ GoodFiles' = GoodFiles
BY DEF Needs, GoodFiles, Good, FileError, ImportsOf

LEMMA ReadableOpen ==
  ASSUME NEW p
  PROVE  FileError(p) = "open" <=> Readable(disk, p)
BY DEF FileError, Readable

LEMMA TopFacts ==
  ASSUME WellFormed, LoaderInv, stack # <<>>
  PROVE  /\ Len(stack) \in Nat \ {0} /\ top = stack[Len(stack)]
         /\ FrameOK(disk, DOMAIN cache, top) /\ top.path \in DOMAIN disk
         /\ top.path = Entry \/ top.path \in ReachIn(Needs, Entry)
<1>1. stack \in Seq(ToSet(stack)) /\ PathOK(Needs, stack)
  BY DEF LoaderInv
<1>2. Len(stack) \in Nat \ {0}
  BY <1>1, EmptySeq
<1>3. FrameOK(disk, DOMAIN cache, stack[Len(stack)])
  BY <1>2 DEF LoaderInv
<1>4. stack[1].path = Entry
  BY <1>1 DEF PathOK
<1>5. Len(stack) # 1 => stack[Len(stack)].path \in ReachIn(Needs, stack[1].path)
  <2>1. Len(stack) # 1 => 1 < Len(stack) /\ 1 \in 1..Len(stack) /\ Len(stack) \in 1..Len(stack)
    BY <1>2
  <2>2. \A i, j \in 1..Len(stack) : i < j => stack[j].path \in ReachIn(Needs, stack[i].path)
    BY <1>1 DEF PathOK
  <2> QED BY <2>1, <2>2
<1>6. top = stack[Len(stack)]
  BY DEF top, Last
<1> QED BY <1>2, <1>3, <1>4, <1>5, <1>6 DEF FrameOK

LEMMA ImportFacts ==
  ASSUME WellFormed, LoaderInv, stack # <<>>, top.left # <<>>
  PROVE  /\ Past(disk, top) \in Nat
         /\ Past(disk, top) + 1 \in 1..Len(disk[top.path].imports)
         /\ importing = disk[top.path].imports[Past(disk, top) + 1]
         /\ importing \in ToSet(disk[top.path].imports)
         /\ importing.to \in DepsIn(Needs, top.path)
         /\ importing.to \in ReachIn(Needs, Entry)
         /\ importing.names \in Seq(ToSet(importing.names))
<1>1. /\ FrameOK(disk, DOMAIN cache, top) /\ top.path \in DOMAIN disk
      /\ top.path = Entry \/ top.path \in ReachIn(Needs, Entry)
  BY TopFacts
<1>2. /\ Graph(Needs)
      /\ disk[top.path].imports \in Seq(ToSet(disk[top.path].imports))
      /\ DepsIn(Needs, top.path) = {i.to : i \in ToSet(disk[top.path].imports)}
      /\ \A i \in ToSet(disk[top.path].imports) : i.names \in Seq(ToSet(i.names))
  BY <1>1, DiskFacts DEF LoaderInv
<1>3. /\ Past(disk, top) \in Nat
      /\ Past(disk, top) + 1 \in 1..Len(disk[top.path].imports)
      /\ Head(top.left) = disk[top.path].imports[Past(disk, top) + 1]
  BY <1>1, <1>2, FrameHead
<1>4. importing \in ToSet(disk[top.path].imports)
  BY <1>2, <1>3, LenProperties DEF importing, ToSet
<1>5. importing.to \in DepsIn(Needs, top.path)
  BY <1>2, <1>4
<1>6. importing.to \in ReachIn(Needs, Entry)
  BY <1>1, <1>2, <1>5, ReachFirst, ReachOn
<1> QED BY <1>2, <1>3, <1>4, <1>5, <1>6 DEF importing

(* The file on top of the stack, its imports done and clashing with nothing. *)
LEMMA FinishedTop ==
  ASSUME WellFormed, LoaderInv, stack # <<>>, top.left = <<>>, ~Conflict
  PROVE  top.path \in GoodFiles /\ DepsIn(Needs, top.path) \subseteq DOMAIN cache
<1> DEFINE p == top.path
           im == disk[p].imports
<1>1. FrameOK(disk, DOMAIN cache, top) /\ p \in DOMAIN disk
  BY TopFacts
<1>2. /\ im \in Seq(ToSet(im)) /\ DepsIn(Needs, p) = {i.to : i \in ToSet(im)}
      /\ DOMAIN Needs = DOMAIN disk
  BY <1>1, DiskFacts DEF LoaderInv
<1>3. Len(im) \in Nat /\ DOMAIN im = 1..Len(im)
  BY <1>2, LenProperties
<1>4. Past(disk, top) = Len(im)
  BY <1>3, PastAtEnd
<1>5. /\ Readable(disk, p) /\ PastDone(disk, DOMAIN cache, im, Len(im))
      /\ DOMAIN top.named \cup DOMAIN top.qual = BoundBy(im, Len(im))
  BY <1>1, <1>4 DEF FrameOK
<1>6. DOMAIN cache \subseteq DOMAIN disk
  <2>1. order \in Seq(DOMAIN Needs) /\ DOMAIN cache = ToSet(order)
    BY DEF LoaderInv, OrderOK
  <2> QED BY <2>1, <1>2, LenProperties DEF ToSet
<1>7. DepsIn(Needs, p) \subseteq DOMAIN cache
  BY <1>2, <1>3, <1>5 DEF PastDone, ToSet
<1>8. \A k \in 1..Len(im) : Named(im[k]) \cap DeclaredNames(disk[p].stmts) = {}
  <2>1. \A n \in DeclaredNames(disk[p].stmts) : n \notin BoundBy(im, Len(im))
    BY <1>5 DEF Conflict, declared, Taken
  <2> QED BY <2>1 DEF BoundBy
<1>9. Good(p)
  <2> SUFFICES ASSUME NEW k \in 1..Len(im)
               PROVE  /\ im[k].to \in DOMAIN disk /\ Sound(disk, im[k])
                      /\ Named(im[k]) \cap DeclaredNames(disk[p].stmts) = {}
                      /\ \A l \in (1..Len(im)) \ {k} : Named(im[k]) \cap Named(im[l]) = {}
    BY <1>3, <1>5, ReadableOpen DEF Good, ImportsOf, Sound
  <2> QED BY <1>5, <1>6, <1>8 DEF PastDone
<1> QED BY <1>1, <1>7, <1>9 DEF GoodFiles
-----------------------------------------------------------------------------
(* Each step keeps the invariant. *)

LEMMA InitInv ==
  ASSUME WellFormed, Init
  PROVE  LoaderInv
<1>1. stack = <<>> /\ cache = <<>> /\ order = <<>> /\ disk \in Disks
  BY DEF Init
<1>2. Len(stack) = 0 /\ Len(order) = 0 /\ DOMAIN cache = {} /\ ToSet(order) = {}
  BY <1>1 DEF ToSet
<1>3. stack \in Seq(ToSet(stack)) /\ order \in Seq(DOMAIN Needs)
  BY <1>1, EmptySeq
<1>4. PathOK(Needs, stack) /\ FreshOK(stack, DOMAIN cache)
  BY <1>1, <1>2 DEF PathOK, FreshOK
<1>5. OrderOK(Needs, GoodFiles, order, DOMAIN cache) /\ ExportsOK(disk, cache)
  BY <1>2, <1>3 DEF OrderOK, ExportsOK
<1>6. \A i \in 1..Len(stack) : FrameOK(disk, DOMAIN cache, stack[i])
  BY <1>2
<1> QED BY <1>1, <1>3, <1>4, <1>5, <1>6 DEF LoaderInv

LEMMA BeginInv ==
  ASSUME WellFormed, LoaderInv, Begin, verdict' = verdict
  PROVE  LoaderInv'
<1> DEFINE f == Frame(Entry)
<1>1. /\ stack = <<>> /\ FileError(Entry) = "open"
      /\ stack' = <<f>> /\ UNCHANGED <<disk, cache, order>>
  BY DEF Begin, Fail
<1>2. Entry \in DOMAIN disk /\ disk[Entry].imports \in Seq(ToSet(disk[Entry].imports))
  BY DiskFacts DEF LoaderInv
<1>3. FrameOK(disk, DOMAIN cache, f) /\ f.path = Entry
  BY <1>1, <1>2, ReadableOpen, FrameNew DEF Frame
<1> HIDE DEF f
<1>4. Len(stack') = 1 /\ stack'[1] = f /\ stack' \in Seq({f})
  BY <1>1
<1>5. stack' \in Seq(ToSet(stack'))
  BY <1>4, SeqOfItems
<1>6. PathOK(Needs, stack') /\ FreshOK(stack', DOMAIN cache)
  BY <1>3, <1>4 DEF PathOK, FreshOK
<1> QED BY <1>1, <1>3, <1>4, <1>5, <1>6, DiskSame DEF LoaderInv

LEMMA EnterInv ==
  ASSUME WellFormed, LoaderInv, Enter, verdict' = verdict
  PROVE  LoaderInv'
<1> DEFINE p == importing.to
           f == Frame(p)
           n == Len(stack)
           S == ToSet(stack) \cup {f}
<1>1. /\ stack # <<>> /\ top.left # <<>> /\ p \notin DOMAIN cache /\ p \notin inProgress
      /\ p \in DOMAIN disk /\ FileError(p) = "open"
      /\ stack' = Append(stack, f) /\ UNCHANGED <<disk, cache, order>>
  BY DEF Enter, Resolving, Fail
<1>2. n \in Nat \ {0} /\ top = stack[n]
  BY <1>1, TopFacts
<1>3. p \in DepsIn(Needs, stack[n].path)
  BY <1>1, <1>2, ImportFacts
<1>4. Graph(Needs) /\ disk[p].imports \in Seq(ToSet(disk[p].imports))
  BY <1>1, DiskFacts DEF LoaderInv
<1>5. FrameOK(disk, DOMAIN cache, f) /\ f.path = p
  BY <1>1, <1>4, ReadableOpen, FrameNew DEF Frame
<1>6. \A i \in 2..n : stack[i].path # p
  BY <1>1 DEF inProgress
<1>7. stack \in Seq(ToSet(stack))
  BY DEF LoaderInv
<1> HIDE DEF f, p, n
<1>8. stack \in Seq(S)
  BY <1>7, SeqMonotonic
<1>9. /\ Len(stack') = n + 1 /\ stack'[n + 1] = f /\ \A i \in 1..n : stack'[i] = stack[i]
      /\ stack' \in Seq(S)
  BY <1>1, <1>8, AppendProperties DEF n
<1>10. stack' \in Seq(ToSet(stack'))
  BY <1>9, SeqOfItems
<1>11. PathOK(Needs, stack')
  BY <1>1, <1>3, <1>4, <1>5, <1>8, PathPush DEF LoaderInv, n
<1>12. FreshOK(stack', DOMAIN cache)
  <2>1. \A i \in 2..n : /\ stack[i].path \notin DOMAIN cache
                        /\ \A j \in (2..n) \ {i} : stack[i].path # stack[j].path
    BY DEF LoaderInv, FreshOK, n
  <2>2. ASSUME NEW i \in 2..(n + 1)
        PROVE  /\ stack'[i].path \notin DOMAIN cache
               /\ \A j \in (2..(n + 1)) \ {i} : stack'[i].path # stack'[j].path
    <3>1. CASE i = n + 1
      <4>1. \A j \in (2..(n + 1)) \ {i} : j \in 2..n /\ j \in 1..n
        BY <3>1, <1>2
      <4> QED BY <3>1, <4>1, <1>1, <1>5, <1>6, <1>9
    <3>2. CASE i # n + 1
      <4>1. i \in 2..n /\ i \in 1..n
        BY <3>2, <1>2
      <4>2. \A j \in (2..(n + 1)) \ {i} : j = n + 1 \/ (j \in (2..n) \ {i} /\ j \in 1..n)
        BY <1>2
      <4> QED BY <4>1, <4>2, <2>1, <1>5, <1>6, <1>9
    <3> QED BY <3>1, <3>2
  <2> QED BY <2>2, <1>9 DEF FreshOK
<1>13. \A i \in 1..Len(stack') : FrameOK(disk, DOMAIN cache, stack'[i])
  <2> SUFFICES ASSUME NEW i \in 1..(n + 1) PROVE FrameOK(disk, DOMAIN cache, stack'[i])
    BY <1>9
  <2>1. CASE i = n + 1
    BY <2>1, <1>5, <1>9
  <2>2. CASE i # n + 1
    <3>1. i \in 1..n
      BY <2>2, <1>2
    <3> QED BY <3>1, <1>9 DEF LoaderInv, n
  <2> QED BY <2>1, <2>2
<1> QED BY <1>1, <1>10, <1>11, <1>12, <1>13, DiskSame DEF LoaderInv

(* An import done: it is sound, and binds names that were free.             *)
LEMMA AdvanceInv ==
  ASSUME WellFormed, LoaderInv, stack # <<>>, top.left # <<>>,
         importing.to \in DOMAIN cache, Sound(disk, importing),
         Named(importing) \cap (DOMAIN top.named \cup DOMAIN top.qual) = {},
         NEW STATE named, NEW STATE qual, Advance(named, qual),
         DOMAIN named \cup DOMAIN qual
           = (DOMAIN top.named \cup DOMAIN top.qual) \cup Named(importing)
  PROVE  LoaderInv'
<1> DEFINE f == [path |-> top.path, left |-> Tail(top.left), named |-> named, qual |-> qual]
           n == Len(stack)
           S == ToSet(stack) \cup {f}
<1>1. stack' = [stack EXCEPT ![n] = f] /\ UNCHANGED <<disk, cache, order>>
  BY DEF Advance
<1>2. n \in Nat \ {0} /\ top = stack[n] /\ FrameOK(disk, DOMAIN cache, top) /\ top.path \in DOMAIN disk
  BY TopFacts
<1>3. disk[top.path].imports \in Seq(ToSet(disk[top.path].imports))
  BY <1>2, DiskFacts DEF LoaderInv
<1>4. FrameOK(disk, DOMAIN cache, f)
  BY <1>2, <1>3, FrameAdvance DEF importing
<1>5. f.path = stack[n].path
  BY <1>2
<1>6. stack \in Seq(ToSet(stack))
  BY DEF LoaderInv
<1> HIDE DEF f, n
<1>7. stack \in Seq(S) /\ f \in S /\ n \in 1..Len(stack)
  BY <1>2, <1>6, SeqMonotonic DEF n
<1> HIDE DEF S
<1>8. /\ stack' \in Seq(S) /\ Len(stack') = n
      /\ \A i \in 1..n : stack'[i] = IF i = n THEN f ELSE stack[i]
  BY <1>1, <1>7, ExceptSeq DEF n
<1>9. stack' \in Seq(ToSet(stack'))
  BY <1>8, SeqOfItems
<1>10. \A i \in 1..n : stack'[i].path = stack[i].path
  BY <1>5, <1>8
<1>11. PathOK(Needs, stack')
  BY <1>2, <1>6, <1>8, <1>10, PathPart DEF LoaderInv, n
<1>12. FreshOK(stack', DOMAIN cache)
  <2>1. \A i \in 2..n : i \in 1..n
    BY <1>2
  <2>2. \A i \in 2..n : /\ stack[i].path \notin DOMAIN cache
                        /\ \A j \in (2..n) \ {i} : stack[i].path # stack[j].path
    BY DEF LoaderInv, FreshOK, n
  <2> QED BY <2>1, <2>2, <1>8, <1>10 DEF FreshOK
<1>13. \A i \in 1..Len(stack') : FrameOK(disk, DOMAIN cache, stack'[i])
  BY <1>4, <1>8 DEF LoaderInv, n
<1> QED BY <1>1, <1>9, <1>11, <1>12, <1>13, DiskSame DEF LoaderInv

LEMMA BindInv ==
  ASSUME WellFormed, LoaderInv, Bind, verdict' = verdict
  PROVE  LoaderInv'
<1> DEFINE names == importing.names
           exports == cache[importing.to].exports
<1>1. stack # <<>> /\ top.left # <<>> /\ importing.to \in DOMAIN cache
  BY DEF Bind
<1>2. names \in Seq(ToSet(names)) /\ DOMAIN names = 1..Len(names) /\ Len(names) \in Nat
  BY <1>1, ImportFacts, LenProperties
<1>3. DOMAIN exports = DeclaredNames(disk[importing.to].stmts)
  BY <1>1 DEF LoaderInv, ExportsOK
<1>4. CASE importing.alias = None
  <2>1. Wrong(names, exports) = {} /\ Advance(BindNames(names, exports), top.qual)
    BY <1>4 DEF Bind, Fail, NameError
  <2>2. \A k \in 1..Len(names) : /\ names[k] \in DOMAIN exports /\ ~Taken(names[k])
                                 /\ \A j \in 1..(k - 1) : names[j] # names[k]
    BY <2>1, <1>2 DEF Wrong
  <2>3. \A n \in ToSet(names) : n \in DeclaredNames(disk[importing.to].stmts) /\ ~Taken(n)
    BY <2>2, <1>2, <1>3 DEF ToSet
  <2>4. IsInjective(names)
    <3> SUFFICES ASSUME NEW j \in 1..Len(names), NEW k \in 1..Len(names), names[j] = names[k]
                 PROVE  j = k
      BY <1>2 DEF IsInjective
    <3>1. ~(j \in 1..(k - 1)) /\ ~(k \in 1..(j - 1))
      BY <2>2
    <3> QED BY <3>1, <1>2
  <2>5. Sound(disk, importing)
    BY <2>3, <2>4 DEF Sound
  <2>6. Named(importing) = ToSet(names)
    BY <1>4 DEF Named
  <2>7. Named(importing) \cap (DOMAIN top.named \cup DOMAIN top.qual) = {}
    BY <2>3, <2>6 DEF Taken
  <2>8. DOMAIN BindNames(names, exports) = DOMAIN top.named \cup ToSet(names)
    BY DEF BindNames
  <2>9. DOMAIN BindNames(names, exports) \cup DOMAIN top.qual
          = (DOMAIN top.named \cup DOMAIN top.qual) \cup Named(importing)
    BY <2>6, <2>8
  <2> QED BY <1>1, <2>1, <2>5, <2>7, <2>9, AdvanceInv
<1>5. CASE importing.alias # None
  <2>1. ~Taken(importing.alias) /\ Advance(top.named, Put(top.qual, importing.alias, exports))
    BY <1>5 DEF Bind, Fail
  <2>2. Sound(disk, importing) /\ Named(importing) = {importing.alias}
    BY <1>5 DEF Sound, Named
  <2>3. Named(importing) \cap (DOMAIN top.named \cup DOMAIN top.qual) = {}
    BY <2>1, <2>2 DEF Taken
  <2>4. DOMAIN Put(top.qual, importing.alias, exports) = DOMAIN top.qual \cup {importing.alias}
    BY DEF Put
  <2>5. DOMAIN top.named \cup DOMAIN Put(top.qual, importing.alias, exports)
          = (DOMAIN top.named \cup DOMAIN top.qual) \cup Named(importing)
    BY <2>2, <2>4
  <2> QED BY <1>1, <2>1, <2>2, <2>3, <2>5, AdvanceInv
<1> QED BY <1>4, <1>5
(* The file finished is not the entry met again: the stack would hold, above *)
(* it, a file it imports that is not done.                                  *)
LEMMA FinishedIsOther ==
  ASSUME WellFormed, LoaderInv, Len(stack) > 1, DepsIn(Needs, top.path) \subseteq DOMAIN cache
  PROVE  /\ top.path # Entry /\ top.path \notin DOMAIN cache
         /\ top.path \in ReachIn(Needs, Entry)
<1>1. Len(stack) \in Nat /\ stack # <<>>
  BY EmptySeq DEF LoaderInv
<1>2. top = stack[Len(stack)] /\ (top.path = Entry \/ top.path \in ReachIn(Needs, Entry))
  BY <1>1, TopFacts
<1>3. PathOK(Needs, stack) /\ FreshOK(stack, DOMAIN cache)
  BY DEF LoaderInv
<1>4. stack[1].path = Entry /\ stack[1 + 1].path \in DepsIn(Needs, stack[1].path)
  BY <1>1, <1>3 DEF PathOK
<1>5. stack[2].path \notin DOMAIN cache /\ top.path \notin DOMAIN cache
  BY <1>1, <1>2, <1>3 DEF FreshOK
<1>6. stack[2].path \in DepsIn(Needs, Entry)
  BY <1>4
<1>7. top.path # Entry
  BY <1>5, <1>6
<1> QED BY <1>2, <1>5, <1>7

LEMMA FinishInv ==
  ASSUME WellFormed, LoaderInv, Finish, verdict' = verdict
  PROVE  LoaderInv'
<1> DEFINE p == top.path
           n == Len(stack)
           c == DOMAIN cache
<1>1. /\ n > 1 /\ top.left = <<>> /\ ~Conflict
      /\ cache' = Put(cache, p,
                      [stmts |-> RewriteStmts(disk[p].stmts, Subst(Exports), top.qual),
                       exports |-> Exports])
      /\ order' = Append(order, p) /\ stack' = Front(stack) /\ disk' = disk
  BY DEF Finish, Fail, Ordered
<1>2. stack \in Seq(ToSet(stack)) /\ n \in Nat /\ stack # <<>> /\ top = stack[n]
  BY <1>1, EmptySeq DEF LoaderInv, top, Last
<1>3. p \in GoodFiles /\ DepsIn(Needs, p) \subseteq c
  BY <1>1, <1>2, FinishedTop
<1>4. p # Entry /\ p \notin c /\ p \in ReachIn(Needs, Entry)
  BY <1>1, <1>3, FinishedIsOther
<1>5. p \in DOMAIN Needs
  BY <1>3 DEF GoodFiles, Needs
<1>6. DOMAIN cache' = c \cup {p}
  BY <1>1 DEF Put
<1>7. OrderOK(Needs, GoodFiles, order', DOMAIN cache')
  <2>1. OrderOK(Needs, GoodFiles, order, c)
    BY DEF LoaderInv
  <2> HIDE DEF p, c
  <2> QED BY <2>1, <1>1, <1>3, <1>4, <1>5, <1>6, OrderPush
<1>8. ExportsOK(disk, cache')
  <2> SUFFICES ASSUME NEW r \in c \cup {p}
               PROVE  DOMAIN cache'[r].exports = DeclaredNames(disk[r].stmts)
    BY <1>6 DEF ExportsOK
  <2>1. CASE r = p
    <3>1. cache'[r].exports = Exports
      BY <1>1, <2>1 DEF Put
    <3> QED BY <3>1, <2>1 DEF Exports, declared
  <2>2. CASE r # p
    <3>1. r \in c /\ cache'[r] = cache[r]
      BY <1>1, <2>2 DEF Put
    <3> QED BY <3>1 DEF LoaderInv, ExportsOK
  <2> QED BY <2>1, <2>2
<1>9. /\ stack' \in Seq(ToSet(stack)) /\ Len(stack') = n - 1
      /\ \A i \in 1..(n - 1) : stack'[i] = stack[i]
  <2>1. stack' = SubSeq(stack, 1, n - 1)
    BY <1>1 DEF Front
  <2>2. \A i \in 1..(n - 1) : stack[i] \in ToSet(stack)
    BY <1>2, LenProperties DEF ToSet
  <2> QED BY <2>1, <2>2, <1>1, <1>2, SubSeqProperties
<1>10. stack' \in Seq(ToSet(stack'))
  BY <1>9, SeqOfItems
<1>11. PathOK(Needs, stack')
  <2>1. Len(stack') <= Len(stack) /\ \A i \in 1..Len(stack') : stack'[i].path = stack[i].path
    BY <1>2, <1>9
  <2> QED BY <2>1, <1>2, <1>9, PathPart DEF LoaderInv
<1>12. FreshOK(stack', DOMAIN cache')
  <2>1. \A i \in 2..n : /\ stack[i].path \notin c
                        /\ \A j \in (2..n) \ {i} : stack[i].path # stack[j].path
    BY DEF LoaderInv, FreshOK
  <2>2. \A i \in 2..(n - 1) : i \in 2..n /\ i \in 1..(n - 1) /\ n \in (2..n) \ {i}
    BY <1>1, <1>2
  <2>3. \A i \in 2..(n - 1) : stack[i].path # p
    BY <2>1, <2>2, <1>2
  <2> HIDE DEF p, n
  <2> QED BY <2>1, <2>2, <2>3, <1>6, <1>9 DEF FreshOK
<1>13. \A i \in 1..Len(stack') : FrameOK(disk, DOMAIN cache', stack'[i])
  <2> SUFFICES ASSUME NEW i \in 1..(n - 1) PROVE FrameOK(disk, DOMAIN cache', stack'[i])
    BY <1>9
  <2>1. FrameOK(disk, c, stack[i])
    BY <1>2 DEF LoaderInv
  <2> QED BY <2>1, <1>6, <1>9, FrameGrows
<1> QED BY <1>1, <1>7, <1>8, <1>10, <1>11, <1>12, <1>13, DiskSame DEF LoaderInv

(* An error changes the verdict and nothing else. *)
LEMMA Failing ==
  ASSUME Next, verdict' # verdict
  PROVE  UNCHANGED <<disk, stack, cache, order>>
BY DEF Next, Begin, Enter, Bind, Advance, Finish, FinishEntry, Done, Fail, vars

LEMMA NextInv ==
  ASSUME WellFormed, LoaderInv, [Next]_vars
  PROVE  LoaderInv'
<1>1. CASE UNCHANGED <<disk, stack, cache, order>>
  BY <1>1, DiskSame DEF LoaderInv
<1>2. CASE verdict' = verdict
  BY <1>1, <1>2, BeginInv, EnterInv, BindInv, FinishInv DEF Next, FinishEntry, Fail, Done, vars
<1>3. CASE Next /\ verdict' # verdict
  BY <1>1, <1>3, Failing
<1> QED BY <1>1, <1>2, <1>3 DEF vars

-----------------------------------------------------------------------------
(* Each step is one of LinkOrder's, or none. *)

LEMMA InitAbs ==
  ASSUME WellFormed, Init
  PROVE  Abs!Init
<1>1. disk \in Disks /\ order = <<>> /\ verdict = "open"
  BY DEF Init
<1>2. Graph(Needs) /\ DOMAIN Needs = DOMAIN disk
  BY <1>1, DiskFacts
<1>3. GoodFiles \in SUBSET DOMAIN Needs
  BY <1>2 DEF GoodFiles
<1>4. Answer = "open"
  BY <1>1 DEF Answer
<1> QED BY <1>1, <1>2, <1>3, <1>4 DEF Abs!Init, Graph

(* A file the entry needs with something wrong in it, or on a cycle.        *)
LEMMA NotLinkable ==
  ASSUME NEW p, p = Entry \/ p \in ReachIn(Needs, Entry),
         p \notin GoodFiles \/ p \in ReachIn(Needs, p)
  PROVE  ~Abs!Linkable
BY ReachAbs DEF Abs!Linkable, Abs!Acyclic, Abs!Needed

LEMMA Refused ==
  ASSUME verdict = "open", NEW error, error \notin {"open", "ok"}, Fail(error), ~Abs!Linkable
  PROVE  Abs!Refuse
<1>1. Answer = "open" /\ Answer' = "refused"
  BY DEF Answer, Fail
<1>2. Needs' = Needs /\ GoodFiles' = GoodFiles /\ order' = order
  BY DiskSame DEF Fail
<1> QED BY <1>1, <1>2 DEF Abs!Refuse

(* Nothing LinkOrder sees has changed. *)
LEMMA Unseen ==
  ASSUME UNCHANGED <<disk, order, verdict>>
  PROVE  UNCHANGED Abs!vars
BY DiskSame DEF Abs!vars, Answer

LEMMA BeginAbs ==
  ASSUME WellFormed, LoaderInv, Begin
  PROVE  Abs!Next \/ UNCHANGED Abs!vars
<1>1. CASE FileError(Entry) # "open"
  <2>1. FileError(Entry) \in {"parse error", "misplaced import"}
    BY <1>1 DEF FileError
  <2>2. Entry \notin GoodFiles
    BY <1>1 DEF GoodFiles, Good
  <2>3. ~Abs!Linkable
    BY <2>2, NotLinkable
  <2>4. verdict = "open" /\ Fail(FileError(Entry))
    BY <1>1 DEF Begin
  <2>5. Abs!Refuse
    BY <2>1, <2>3, <2>4, Refused
  <2> QED BY <2>5 DEF Abs!Next
<1>2. CASE FileError(Entry) = "open"
  BY <1>2, Unseen DEF Begin
<1> QED BY <1>1, <1>2

LEMMA EnterAbs ==
  ASSUME WellFormed, LoaderInv, Enter
  PROVE  Abs!Next \/ UNCHANGED Abs!vars
<1> DEFINE p == importing.to
<1>1. verdict = "open" /\ stack # <<>> /\ top.left # <<>>
  BY DEF Enter, Resolving
<1>2. p \in DepsIn(Needs, top.path) /\ p \in ReachIn(Needs, Entry)
  BY <1>1, ImportFacts
<1>3. Graph(Needs)
  BY DiskFacts DEF LoaderInv
<1>4. CASE p \in inProgress
  <2>1. PICK i \in 2..Len(stack) : stack[i].path = p
    BY <1>4 DEF inProgress
  <2>2. Len(stack) \in Nat \ {0} /\ top = stack[Len(stack)]
    BY <1>1, TopFacts
  <2>3. top.path = p \/ top.path \in ReachIn(Needs, p)
    <3>1. CASE i = Len(stack)
      BY <3>1, <2>1, <2>2
    <3>2. CASE i # Len(stack)
      <4>1. i \in 1..Len(stack) /\ Len(stack) \in 1..Len(stack) /\ i < Len(stack)
        BY <3>2, <2>2
      <4>2. PathOK(Needs, stack)
        BY DEF LoaderInv
      <4>3. stack[Len(stack)].path \in ReachIn(Needs, stack[i].path)
        BY <4>1, <4>2 DEF PathOK
      <4> QED BY <4>3, <2>1, <2>2
    <3> QED BY <3>1, <3>2
  <2>4. p \in ReachIn(Needs, p)
    <3> HIDE DEF p
    <3> QED BY <2>3, <1>2, <1>3, ReachFirst, ReachOn
  <2>5. ~Abs!Linkable
    BY <2>4, <1>2, NotLinkable
  <2>6. Fail("cycle")
    BY <1>4 DEF Enter
  <2>7. Abs!Refuse
    BY <1>1, <2>5, <2>6, Refused
  <2> QED BY <2>7 DEF Abs!Next
<1>5. CASE p \notin inProgress /\ (p \notin DOMAIN disk \/ FileError(p) # "open")
  <2>1. p \notin GoodFiles
    BY <1>5 DEF GoodFiles, Good
  <2>2. ~Abs!Linkable
    BY <2>1, <1>2, NotLinkable
  <2>3. Fail("io") \/ (FileError(p) # "open" /\ Fail(FileError(p)))
    BY <1>5 DEF Enter
  <2>4. FileError(p) # "open" => FileError(p) \in {"parse error", "misplaced import"}
    BY DEF FileError
  <2>5. Abs!Refuse
    BY <1>1, <2>2, <2>3, <2>4, Refused
  <2> QED BY <2>5 DEF Abs!Next
<1>6. CASE p \notin inProgress /\ p \in DOMAIN disk /\ FileError(p) = "open"
  BY <1>6, Unseen DEF Enter
<1> QED BY <1>4, <1>5, <1>6

LEMMA BindAbs ==
  ASSUME WellFormed, LoaderInv, Bind
  PROVE  Abs!Next \/ UNCHANGED Abs!vars
<1> DEFINE names == importing.names
           exports == cache[importing.to].exports
           im == disk[top.path].imports
           n == Past(disk, top)
<1>1. verdict = "open" /\ stack # <<>> /\ top.left # <<>> /\ importing.to \in DOMAIN cache
  BY DEF Bind
<1>2. /\ n \in Nat /\ n + 1 \in 1..Len(im) /\ importing = im[n + 1]
      /\ names \in Seq(ToSet(names))
  BY <1>1, ImportFacts
<1>3. /\ FrameOK(disk, DOMAIN cache, top) /\ top.path \in DOMAIN disk
      /\ top.path = Entry \/ top.path \in ReachIn(Needs, Entry)
  BY <1>1, TopFacts
<1>4. DOMAIN im = 1..Len(im) /\ Len(im) \in Nat
  BY <1>3, DiskFacts, LenProperties DEF LoaderInv
<1>5. DOMAIN exports = DeclaredNames(disk[importing.to].stmts)
  BY <1>1 DEF LoaderInv, ExportsOK
<1>6. DOMAIN top.named \cup DOMAIN top.qual = BoundBy(im, n)
  BY <1>3 DEF FrameOK
(* A name already bound is bound by an earlier import. *)
<1>7. ASSUME NEW x \in Named(importing), Taken(x) PROVE top.path \notin GoodFiles
  <2>1. PICK l \in 1..n : x \in Named(im[l])
    BY <1>6, <1>7 DEF Taken, BoundBy
  <2>2. l \in (1..Len(im)) \ {n + 1}
    BY <1>2, <1>4
  <2>3. Named(im[n + 1]) \cap Named(im[l]) # {}
    BY <1>2, <1>7, <2>1
  <2>4. ~Good(top.path)
    BY <1>2, <1>4, <2>2, <2>3 DEF Good, ImportsOf
  <2> QED BY <2>4 DEF GoodFiles
<1>8. CASE importing.alias = None
  <2>1. CASE Wrong(names, exports) # {}
    <3>1. PICK k \in DOMAIN names : \/ names[k] \notin DOMAIN exports \/ Taken(names[k])
                                    \/ \E j \in 1..(k - 1) : names[j] = names[k]
      BY <2>1 DEF Wrong
    <3>2. Named(importing) = ToSet(names)
      BY <1>8 DEF Named
    <3>3. ASSUME names[k] \notin DOMAIN exports \/ ~IsInjective(names)
          PROVE  top.path \notin GoodFiles
      <4>1. ~Sound(disk, im[n + 1])
        BY <3>1, <3>3, <1>2, <1>5, <1>8 DEF Sound, ToSet
      <4>2. ~Good(top.path)
        BY <4>1, <1>2, <1>4 DEF Good, ImportsOf, Sound
      <4> QED BY <4>2 DEF GoodFiles
    <3>4. ASSUME \E j \in 1..(k - 1) : names[j] = names[k]
          PROVE  top.path \notin GoodFiles
      <4>1. PICK j \in 1..(k - 1) : names[j] = names[k]
        BY <3>4
      <4>2. DOMAIN names = 1..Len(names) /\ Len(names) \in Nat
        BY <1>2, LenProperties
      <4>3. j \in DOMAIN names /\ j # k
        BY <4>2, <3>1
      <4>4. ~IsInjective(names)
        BY <4>1, <4>3 DEF IsInjective
      <4> QED BY <4>4, <3>3
    <3>5. ASSUME Taken(names[k])
          PROVE  top.path \notin GoodFiles
      BY <3>2, <3>5, <1>7 DEF ToSet
    <3>6. top.path \notin GoodFiles
      BY <3>1, <3>3, <3>4, <3>5
    <3>7. ~Abs!Linkable
      BY <3>6, <1>3, NotLinkable
    <3>8. Fail(NameError(names, exports))
      BY <1>8, <2>1 DEF Bind
    <3>9. NameError(names, exports) \in {"unknown export", "duplicate import"}
      BY DEF NameError
    <3>10. Abs!Refuse
      BY <1>1, <3>7, <3>8, <3>9, Refused
    <3> QED BY <3>10 DEF Abs!Next
  <2>2. CASE Wrong(names, exports) = {}
    BY <1>8, <2>2, Unseen DEF Bind, Advance
  <2> QED BY <2>1, <2>2
<1>9. CASE importing.alias # None
  <2>1. CASE Taken(importing.alias)
    <3>1. Named(importing) = {importing.alias}
      BY <1>9 DEF Named
    <3>2. ~Abs!Linkable
      BY <2>1, <3>1, <1>3, <1>7, NotLinkable
    <3>3. Fail("duplicate import")
      BY <1>9, <2>1 DEF Bind
    <3>4. Abs!Refuse
      BY <1>1, <3>2, <3>3, Refused
    <3> QED BY <3>4 DEF Abs!Next
  <2>2. CASE ~Taken(importing.alias)
    BY <1>9, <2>2, Unseen DEF Bind, Advance
  <2> QED BY <2>1, <2>2
<1> QED BY <1>8, <1>9

(* A declaration with the name of an import. *)
LEMMA Conflicting ==
  ASSUME WellFormed, LoaderInv, stack # <<>>, verdict = "open", top.left = <<>>,
         Conflict, Fail("name conflict")
  PROVE  Abs!Next
<1> DEFINE im == disk[top.path].imports
<1>1. /\ FrameOK(disk, DOMAIN cache, top) /\ top.path \in DOMAIN disk
      /\ top.path = Entry \/ top.path \in ReachIn(Needs, Entry)
  BY TopFacts
<1>2. DOMAIN im = 1..Len(im) /\ Len(im) \in Nat
  BY <1>1, DiskFacts, LenProperties DEF LoaderInv
<1>3. Past(disk, top) = Len(im)
  BY <1>2, PastAtEnd
<1>4. DOMAIN top.named \cup DOMAIN top.qual = BoundBy(im, Len(im))
  BY <1>1, <1>3 DEF FrameOK
<1>5. PICK x \in DeclaredNames(disk[top.path].stmts) : x \in BoundBy(im, Len(im))
  BY <1>4 DEF Conflict, declared, Taken
<1>6. PICK k \in 1..Len(im) : x \in Named(im[k])
  BY <1>5 DEF BoundBy
<1>7. ~Good(top.path)
  BY <1>2, <1>5, <1>6 DEF Good, ImportsOf
<1>8. ~Abs!Linkable
  BY <1>1, <1>7, NotLinkable DEF GoodFiles
<1>9. Abs!Refuse
  BY <1>8, Refused
<1> QED BY <1>9 DEF Abs!Next

LEMMA FinishAbs ==
  ASSUME WellFormed, LoaderInv, Finish
  PROVE  Abs!Next
<1> DEFINE p == top.path
<1>1. verdict = "open" /\ Len(stack) > 1 /\ top.left = <<>>
  BY DEF Finish
<1>2. stack # <<>>
  BY <1>1, EmptySeq DEF LoaderInv
<1>3. CASE Conflict
  BY <1>1, <1>2, <1>3, Conflicting DEF Finish
<1>4. CASE ~Conflict
  <2>1. order' = Append(order, p) /\ UNCHANGED <<disk, verdict>>
    BY <1>4 DEF Finish, Ordered
  <2>2. p \in GoodFiles /\ DepsIn(Needs, p) \subseteq DOMAIN cache
    BY <1>1, <1>2, <1>4, FinishedTop
  <2>3. p # Entry /\ p \notin DOMAIN cache /\ p \in ReachIn(Needs, Entry)
    BY <1>1, <2>2, FinishedIsOther
  <2>4. OrderOK(Needs, GoodFiles, order, DOMAIN cache)
    BY DEF LoaderInv
  <2>5. Graph(Needs)
    BY DiskFacts DEF LoaderInv
  <2> HIDE DEF p
  <2>6. ReachIn(Needs, p) \subseteq DOMAIN cache
    BY <2>2, <2>4, <2>5, DoneClosed
  <2>7. p \notin ReachIn(Needs, p) /\ p \in Path
    BY <2>3, <2>6 DEF ReachIn
  <2>8. Abs!InSeq(order) = DOMAIN cache
    BY <2>4 DEF OrderOK, Abs!InSeq, ToSet
  <2>9. Answer = "open" /\ Answer' = Answer /\ Needs' = Needs /\ GoodFiles' = GoodFiles
    BY <1>1, <2>1, DiskSame DEF Answer
  <2>10. p \in Abs!Needed \ {Entry} /\ p \notin Abs!Reach(p) /\ Abs!Deps(p) \subseteq DOMAIN cache
    BY <2>2, <2>3, <2>7, ReachAbs DEF Abs!Needed
  <2>11. Abs!Link(p)
    BY <2>1, <2>2, <2>3, <2>8, <2>9, <2>10 DEF Abs!Link
  <2> QED BY <2>7, <2>11 DEF Abs!Next
<1> QED BY <1>3, <1>4

LEMMA FinishEntryAbs ==
  ASSUME WellFormed, LoaderInv, FinishEntry
  PROVE  Abs!Next
<1>1. verdict = "open" /\ Len(stack) = 1 /\ top.left = <<>>
  BY DEF FinishEntry
<1>2. stack # <<>>
  BY <1>1, EmptySeq DEF LoaderInv
<1>3. CASE Conflict
  BY <1>1, <1>2, <1>3, Conflicting DEF FinishEntry
<1>4. CASE ~Conflict
  <2>1. verdict' = "ok" /\ UNCHANGED <<disk, order>>
    BY <1>4 DEF FinishEntry
  <2>2. top.path = Entry
    BY <1>1, <1>2, TopFacts DEF LoaderInv, PathOK
  <2>3. Entry \in GoodFiles /\ DepsIn(Needs, Entry) \subseteq DOMAIN cache
    BY <1>1, <1>2, <1>4, <2>2, FinishedTop
  <2>4. OrderOK(Needs, GoodFiles, order, DOMAIN cache) /\ Graph(Needs)
    BY DiskFacts DEF LoaderInv
  <2>5. ReachIn(Needs, Entry) \subseteq DOMAIN cache
    BY <2>3, <2>4, DoneClosed
  <2>6. \A q \in DOMAIN cache : q \in GoodFiles /\ q \in ReachIn(Needs, Entry) /\ q # Entry
    <3>1. order \in Seq(DOMAIN Needs) /\ DOMAIN cache = ToSet(order)
      BY <2>4 DEF OrderOK
    <3>2. DOMAIN order = 1..Len(order)
      BY <3>1, LenProperties
    <3> QED BY <2>4, <3>1, <3>2 DEF OrderOK, ToSet
  <2>7. DOMAIN cache = ReachIn(Needs, Entry) /\ Entry \notin ReachIn(Needs, Entry)
    BY <2>5, <2>6
  <2>8. \A q \in DOMAIN cache : q \notin ReachIn(Needs, q)
    BY <2>4, DoneAcyclic
  <2>9. Abs!Linkable
    BY <2>3, <2>6, <2>7, <2>8, ReachAbs DEF Abs!Linkable, Abs!Acyclic, Abs!Needed
  <2>10. Abs!InSeq(order) = Abs!Needed \ {Entry}
    BY <2>4, <2>7, ReachAbs DEF OrderOK, Abs!InSeq, ToSet, Abs!Needed
  <2>11. Answer = "open" /\ Answer' = "ok" /\ Needs' = Needs /\ GoodFiles' = GoodFiles
    BY <1>1, <2>1, DiskSame DEF Answer
  <2>12. Abs!Accept
    BY <2>1, <2>9, <2>10, <2>11 DEF Abs!Accept
  <2> QED BY <2>12 DEF Abs!Next
<1> QED BY <1>3, <1>4

LEMMA NextAbs ==
  ASSUME WellFormed, LoaderInv, [Next]_vars
  PROVE  [Abs!Next]_(Abs!vars)
<1>1. CASE UNCHANGED vars
  BY <1>1, Unseen DEF vars
<1> QED BY <1>1, BeginAbs, EnterAbs, BindAbs, FinishAbs, FinishEntryAbs DEF Next, Done

(* Whatever the programs: a file is linked once, and after every file it     *)
(* imports; what is accepted has no cycle among the files the entry needs,   *)
(* every one of them readable and its imports exported and free of clashes;  *)
(* and what is refused is not so.                                          *)
THEOREM LinksInOrder ==
  ASSUME WellFormed
  PROVE  Spec => Abs!Safety
<1>1. Init => LoaderInv /\ Abs!Init
  BY InitInv, InitAbs
<1>2. LoaderInv /\ [Next]_vars => LoaderInv'
  BY NextInv
<1>3. LoaderInv /\ [Next]_vars => [Abs!Next]_(Abs!vars)
  BY NextAbs
<1> QED BY <1>1, <1>2, <1>3, PTL DEF Spec, Abs!Safety
=============================================================================
