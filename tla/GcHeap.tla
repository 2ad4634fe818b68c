------------------------------- MODULE GcHeap -------------------------------
(***************************************************************************)
(* The mark-sweep heap of runtime/gc.rs: the word encoding, the object     *)
(* layouts the collector scans, the allocators, the two explicit root      *)
(* tables, and a collection broken into the steps of `collect`,            *)
(* `mark_from` and `sweep`.                                                *)
(*                                                                         *)
(* An address is a model value; a word is the pair of its low three bits   *)
(* (`tag`) and of the rest (`part`), so that `w & TAG_MASK` and            *)
(* `w & !TAG_MASK` are its two fields.  Sizes are counted in words.  The   *)
(* mutator is the most permissive one: between two collections it may hold *)
(* any object that has not been swept, because a register can.             *)
(***************************************************************************)
EXTENDS Integers, Sequences, SequencesExt

CONSTANTS
  Addr,         \* addresses of heap blocks, low three bits clear
  Free,         \* what `heap` holds at an address with no object
  Zero,         \* the all-zero upper part of a word
  Tags,         \* the low-bit patterns that occur, a subset of 0..7
  Shapes,       \* the [kind, stride, mask] layouts objects are built with
  HeaderWords,  \* words of a header, before any data
  MinThreshold, \* the 1 MB floor of gc_threshold
  SpanLen,      \* words of the out-buffer a span registers
  MaxLen,       \* bound: data words of one object
  MaxRoots,     \* bound: explicit roots, spans and stack-map entries together
  Stress        \* FROG_GC_STRESS is set

Kinds == {"Str", "List", "Variant", "Dict"}
TagImmediate == 7

Word == Tags \X (Addr \cup {Zero})
Null == <<0, Zero>>

(* is_heap_ptr and heap_ptr. *)
IsHeapPtr(w) == w[1] # TagImmediate /\ w[2] # Zero
HeapPtr(w) == w[2]
PointersIn(W) == {HeapPtr(w) : w \in {v \in W : IsHeapPtr(v)}}

ASSUME AddrAssumption == Zero \notin Addr

(* A heap object: header bits, column layout, capacity and the elements in  *)
(* use, each `stride` words wide; `mask` has the columns the collector      *)
(* reads.  A list or a dict has `len` elements, a variant one (its          *)
(* payload), a string none that matter here.                               *)
Object ==
  {o \in [kind : Kinds, stride : Nat \ {0}, mask : SUBSET Nat, cap : Nat,
          data : Seq(Seq(Word)), marked : BOOLEAN, shared : BOOLEAN] :
     /\ o.mask \subseteq 1..o.stride
     /\ \A i \in DOMAIN o.data : Len(o.data[i]) = o.stride}

ASSUME FreeAssumption == Free \notin Object /\ \A S \in SUBSET Addr : Free # S
ASSUME TagsAssumption == 0 \in Tags /\ Tags \subseteq 0..7
ASSUME ShapesAssumption ==
  /\ Shapes \subseteq [kind : Kinds, stride : Nat \ {0}, mask : SUBSET Nat]
  /\ \A s \in Shapes : s.mask \subseteq 1..s.stride
ASSUME BoundsAssumption ==
  /\ HeaderWords \in Nat /\ MinThreshold \in Nat /\ SpanLen \in Nat
  /\ MaxLen \in Nat /\ MaxRoots \in Nat
  /\ Stress \in BOOLEAN

VARIABLES
  heap,       \* the object at each address, or Free
  head,       \* the intrusive list of objects, most recent first
  bytes,      \* bytes_allocated
  threshold,  \* gc_threshold
  roots,      \* GcHeap.roots: <<word, is_ptr>> pairs, a stack
  spans,      \* scanned_spans: each a <<words, listed slots>> buffer
  jit,        \* the words the stack maps of the walked JIT frames name
  phase,      \* "mutator", "mark" or "sweep"
  pending,    \* root objects mark_from has not been called on yet
  worklist,   \* mark_worklist, as a set: the order of marking is irrelevant
  unswept,    \* the list from sweep's `current` on
  kept        \* the survivor list live_head..live_tail

mutatorVars == <<roots, spans, jit>>
gcVars == <<phase, pending, worklist, unswept, kept>>
vars == <<heap, head, bytes, threshold, mutatorVars, gcVars>>

Allocated == {a \in Addr : heap[a] # Free}

-----------------------------------------------------------------------------
(* Objects. *)

(* The words the collector follows: the masked columns of every element. *)
ScannedWords(o) ==
  IF o.kind = "Str" THEN {} ELSE {o.data[i][c] : i \in DOMAIN o.data, c \in o.mask}

Children(o) == PointersIn(ScannedWords(o))

(* What free_obj computes for an object, and alloc_* and growth added.  A   *)
(* Dict keeps one cached hash beside every entry.                          *)
SizeOf(o) == HeaderWords +
  o.cap * o.stride + (IF o.kind = "Dict" THEN o.cap ELSE 0)

NewObject(shape, cap, data) ==
  [kind |-> shape.kind, stride |-> shape.stride, mask |-> shape.mask,
   cap |-> cap, data |-> data, marked |-> FALSE, shared |-> FALSE]

(* A word the mutator may put in a column of this scannability: an address  *)
(* in a scanned column names an object, a raw column holds anything.       *)
Storable(scanned) ==
  IF scanned THEN {w \in Word : IsHeapPtr(w) => HeapPtr(w) \in Allocated} ELSE Word

-----------------------------------------------------------------------------
(* Roots and reachability. *)

(* for_each_root: the embedding's roots, then the walked JIT frames. *)
RootWords ==
  {roots[i][1] : i \in {j \in DOMAIN roots : roots[j][2]}}
  \cup (UNION {{spans[n][1][i] : i \in spans[n][2]} : n \in DOMAIN spans})
  \cup jit

RootPtrs == PointersIn(RootWords)

ClosedUnder(S) ==
  /\ RootPtrs \subseteq S
  /\ \A b \in S : heap[b] # Free => Children(heap[b]) \subseteq S

Live == {a \in Addr : \A S \in SUBSET Addr : ClosedUnder(S) => a \in S}

-----------------------------------------------------------------------------
Init ==
  /\ heap = [a \in Addr |-> Free]
  /\ head = <<>>
  /\ bytes = 0
  /\ threshold = MinThreshold
  /\ roots = <<>> /\ spans = <<>> /\ jit = {}
  /\ phase = "mutator" /\ pending = {} /\ worklist = {}
  /\ unswept = <<>> /\ kept = <<>>

-----------------------------------------------------------------------------
(* The mutator: allocation, stores and growth. *)

Running == phase = "mutator"

(* Every alloc_* ends the same way: the block becomes the new `head` and    *)
(* its bytes are counted.  No allocator collects.                          *)
Allocate(a, o) ==
  /\ Running /\ heap[a] = Free
  /\ heap' = [heap EXCEPT ![a] = o]
  /\ head' = Cons(a, head)
  /\ bytes' = bytes + SizeOf(o)
  /\ UNCHANGED <<threshold, mutatorVars, gcVars>>

Zeros(n) == [i \in 1..n |-> Null]

AllocStr(a, shape) ==
  shape.kind = "Str" /\ Allocate(a, NewObject(shape, 1, <<>>))

AllocList(a, shape, n) ==
  shape.kind = "List" /\ Allocate(a, NewObject(shape, IF n = 0 THEN 1 ELSE n, <<>>))

AllocVariant(a, shape) ==
  shape.kind = "Variant" /\ Allocate(a, NewObject(shape, 1, <<Zeros(shape.stride)>>))

AllocDict(a, shape, n) ==
  shape.kind = "Dict" /\ Allocate(a, NewObject(shape, n, <<>>))

(* Seeded fault: a grown buffer is not added to bytes_allocated. *)
ReplaceUncounted(a, o) ==
  /\ heap' = [heap EXCEPT ![a] = o]
  /\ UNCHANGED <<head, bytes, threshold, mutatorVars, gcVars>>

(* A mutator step that replaces one object and accounts for its growth. *)
Replace(a, o) ==
  /\ heap' = [heap EXCEPT ![a] = o]
  /\ bytes' = bytes + SizeOf(o) - SizeOf(heap[a])
  /\ UNCHANGED <<head, threshold, mutatorVars, gcVars>>

(* frog_list_push, called for the words of one element back to back with   *)
(* no safepoint between them: a full buffer doubles, then the element is    *)
(* appended.                                                               *)
ListPush(a, elem) ==
  LET o == heap[a]
      cap == IF Len(o.data) = o.cap THEN 2 * o.cap ELSE o.cap
  IN /\ Running /\ o # Free /\ o.kind = "List"
     /\ (Len(o.data) + 1) * o.stride <= MaxLen
     /\ Len(elem) = o.stride
     /\ \A c \in 1..o.stride : elem[c] \in Storable(c \in o.mask)
     /\ Replace(a, [o EXCEPT !.data = Append(@, elem), !.cap = cap])

(* The heap side of frog_dict_insert: a full buffer grows, then one entry   *)
(* is appended, its key and zeroed value leaves.                           *)
DictAppend(a, key) ==
  LET o == heap[a]
      grown == IF o.cap = 0 THEN 4 ELSE 2 * o.cap
      cap == IF Len(o.data) < o.cap THEN o.cap ELSE grown
  IN /\ Running /\ o # Free /\ o.kind = "Dict"
     /\ (Len(o.data) + 1) * o.stride <= MaxLen
     /\ key \in Storable(1 \in o.mask)
     /\ Replace(a, [o EXCEPT !.data = Append(@, [Zeros(o.stride) EXCEPT ![1] = key]),
                             !.cap = cap])

(* The heap side of frog_dict_remove: later entries shift down one block. *)
DictDelete(a, e) ==
  /\ Running /\ heap[a] # Free /\ heap[a].kind = "Dict"
  /\ e \in DOMAIN heap[a].data
  /\ Replace(a, [heap[a] EXCEPT !.data = RemoveAt(@, e)])

(* frog_list_set, frog_variant_set, frog_dict_set_slot: column c of element i. *)
SetSlot(a, i, c, w) ==
  LET o == heap[a]
  IN /\ Running /\ o # Free /\ o.kind # "Str"
     /\ i \in DOMAIN o.data /\ c \in 1..o.stride
     /\ w \in Storable(c \in o.mask)
     /\ Replace(a, [o EXCEPT !.data[i][c] = w])

(* A second live path to the object exists (copy-on-write's `shared`). *)
SetShared(a) ==
  /\ Running /\ heap[a] # Free /\ heap[a].kind \in {"List", "Dict"}
  /\ Replace(a, [heap[a] EXCEPT !.shared = TRUE])

-----------------------------------------------------------------------------
(* The mutator: roots. *)

RootStep ==
  Running /\ UNCHANGED <<heap, head, bytes, threshold, gcVars>>

RootCount == Len(roots) + Len(spans) + Cardinality(jit)

PushRoot(w, isPtr) ==
  /\ RootStep /\ RootCount < MaxRoots
  /\ w \in Storable(isPtr)
  /\ roots' = Append(roots, <<w, isPtr>>)
  /\ UNCHANGED <<spans, jit>>

PopRoots(n) ==
  /\ RootStep
  /\ roots' = SubSeq(roots, 1, IF n > Len(roots) THEN 0 ELSE Len(roots) - n)
  /\ UNCHANGED <<spans, jit>>

ClearRoots ==
  /\ RootStep /\ roots' = <<>>
  /\ UNCHANGED <<spans, jit>>

PushScannedSpan(slots) ==
  /\ RootStep /\ RootCount < MaxRoots
  /\ spans' = Append(spans, <<Zeros(SpanLen), slots>>)
  /\ UNCHANGED <<roots, jit>>

(* JIT code stores a top-level binding into the buffer it was given. *)
WriteSpan(n, i, w) ==
  /\ RootStep
  /\ w \in Storable(i \in spans[n][2])
  /\ spans' = [spans EXCEPT ![n] = <<[spans[n][1] EXCEPT ![i] = w], spans[n][2]>>]
  /\ UNCHANGED <<roots, jit>>

PopScannedSpan ==
  /\ RootStep /\ spans # <<>>
  /\ spans' = Front(spans)
  /\ UNCHANGED <<roots, jit>>

(* JIT code runs to its next safepoint: other values are live there. *)
JitStep(W) ==
  /\ RootStep
  /\ W \subseteq Storable(TRUE)
  /\ Len(roots) + Len(spans) + Cardinality(W) <= MaxRoots
  /\ jit' = W
  /\ UNCHANGED <<roots, spans>>

-----------------------------------------------------------------------------
(* The collector.  No mutator step is enabled until the phase returns to    *)
(* "mutator": a collection runs inside one runtime call.                   *)

(* Seeded faults: no walk of the JIT frames; root words taken for addresses. *)
StartCollectEmbeddingOnly(force) ==
  /\ Running
  /\ force \/ Stress \/ bytes > threshold
  /\ phase' = "mark" /\ pending' = PointersIn(RootWords \ jit)
  /\ UNCHANGED <<heap, head, bytes, threshold, mutatorVars, worklist, unswept, kept>>

StartCollectRawWords(force) ==
  /\ Running
  /\ force \/ Stress \/ bytes > threshold
  /\ phase' = "mark" /\ pending' = {HeapPtr(w) : w \in RootWords}
  /\ UNCHANGED <<heap, head, bytes, threshold, mutatorVars, worklist, unswept, kept>>

(* maybe_collect, and force_collect when the embedder asks. *)
StartCollect(force) ==
  /\ Running
  /\ force \/ Stress \/ bytes > threshold
  /\ phase' = "mark" /\ pending' = RootPtrs
  /\ UNCHANGED <<heap, head, bytes, threshold, mutatorVars, worklist, unswept, kept>>

(* mark_from is entered for the next root with an empty worklist. *)
MarkRoot(a) ==
  /\ phase = "mark" /\ worklist = {} /\ a \in pending
  /\ pending' = pending \ {a}
  /\ worklist' = {a}
  /\ UNCHANGED <<heap, head, bytes, threshold, mutatorVars, phase, unswept, kept>>

(* Seeded faults: children not pushed; an object marked already is not skipped. *)
MarkPopShallow(a) ==
  /\ phase = "mark" /\ a \in worklist
  /\ heap' = [heap EXCEPT ![a].marked = TRUE]
  /\ worklist' = worklist \ {a}
  /\ UNCHANGED <<head, bytes, threshold, mutatorVars, phase, pending, unswept, kept>>

MarkPopRepeated(a) ==
  /\ phase = "mark" /\ a \in worklist
  /\ heap' = [heap EXCEPT ![a].marked = TRUE]
  /\ worklist' = (worklist \ {a}) \cup Children(heap[a])
  /\ UNCHANGED <<head, bytes, threshold, mutatorVars, phase, pending, unswept, kept>>

(* One iteration of mark_from's loop. *)
MarkPop(a) ==
  /\ phase = "mark" /\ a \in worklist
  /\ IF heap[a].marked
     THEN worklist' = worklist \ {a} /\ UNCHANGED heap
     ELSE /\ heap' = [heap EXCEPT ![a].marked = TRUE]
          /\ worklist' = (worklist \ {a}) \cup Children(heap[a])
  /\ UNCHANGED <<head, bytes, threshold, mutatorVars, phase, pending, unswept, kept>>

StartSweep ==
  /\ phase = "mark" /\ pending = {} /\ worklist = {}
  /\ phase' = "sweep" /\ unswept' = head /\ kept' = <<>>
  /\ UNCHANGED <<heap, head, bytes, threshold, mutatorVars, pending, worklist>>

(* free_obj on an unmarked object. *)
SweepFree ==
  /\ phase = "sweep" /\ unswept # <<>>
  /\ LET a == Head(unswept)
     IN /\ ~heap[a].marked
        /\ bytes' = bytes - SizeOf(heap[a])
        /\ heap' = [heap EXCEPT ![a] = Free]
  /\ unswept' = Tail(unswept)
  /\ UNCHANGED <<head, threshold, mutatorVars, phase, pending, worklist, kept>>

(* Seeded faults: a survivor keeps its mark, or loses `shared`. *)
SweepSurvivor(o, list) ==
  /\ phase = "sweep" /\ unswept # <<>> /\ heap[Head(unswept)].marked
  /\ heap' = [heap EXCEPT ![Head(unswept)] = o]
  /\ kept' = list
  /\ unswept' = Tail(unswept)
  /\ UNCHANGED <<head, bytes, threshold, mutatorVars, phase, pending, worklist>>

SweepKeepMarked ==
  SweepSurvivor(heap[Head(unswept)], Append(kept, Head(unswept)))
SweepKeepUnshared ==
  SweepSurvivor([heap[Head(unswept)] EXCEPT !.marked = FALSE, !.shared = FALSE],
                Append(kept, Head(unswept)))

(* A survivor loses its mark, keeps `shared`, and joins the new list. *)
SweepKeep ==
  /\ phase = "sweep" /\ unswept # <<>>
  /\ LET a == Head(unswept)
     IN /\ heap[a].marked
        /\ heap' = [heap EXCEPT ![a].marked = FALSE]
        /\ kept' = Append(kept, a)
  /\ unswept' = Tail(unswept)
  /\ UNCHANGED <<head, bytes, threshold, mutatorVars, phase, pending, worklist>>

(* Seeded fault: the survivor list is not published. *)
FinishCollectStaleHead ==
  /\ phase = "sweep" /\ unswept = <<>>
  /\ kept' = <<>>
  /\ threshold' = IF 2 * bytes > MinThreshold THEN 2 * bytes ELSE MinThreshold
  /\ phase' = "mutator"
  /\ UNCHANGED <<heap, head, bytes, mutatorVars, pending, worklist, unswept>>

FinishCollect ==
  /\ phase = "sweep" /\ unswept = <<>>
  /\ head' = kept /\ kept' = <<>>
  /\ threshold' = IF 2 * bytes > MinThreshold THEN 2 * bytes ELSE MinThreshold
  /\ phase' = "mutator"
  /\ UNCHANGED <<heap, bytes, mutatorVars, pending, worklist, unswept>>

-----------------------------------------------------------------------------
Mutate ==
  \/ \E a \in Addr, s \in Shapes :
       \/ AllocStr(a, s) \/ AllocVariant(a, s)
       \/ \E n \in 0..1 : AllocList(a, s, n) \/ AllocDict(a, s, n)
       \/ \E elem \in [1..s.stride -> Word] : ListPush(a, elem)
       \/ \E i \in 1..MaxLen, c \in 1..s.stride, w \in Word : SetSlot(a, i, c, w)
  \/ \E a \in Addr, w \in Word : DictAppend(a, w)
  \/ \E a \in Addr : SetShared(a) \/ \E e \in 1..MaxLen : DictDelete(a, e)

ChangeRoots ==
  \/ \E w \in Word, p \in BOOLEAN : PushRoot(w, p)
  \/ \E n \in 1..MaxRoots : PopRoots(n)
  \/ ClearRoots
  \/ \E slots \in SUBSET (1..SpanLen) : PushScannedSpan(slots)
  \/ \E n \in DOMAIN spans, i \in 1..SpanLen, w \in Word : WriteSpan(n, i, w)
  \/ PopScannedSpan
  \/ \E W \in SUBSET Word : JitStep(W)

CollectorStep ==
  \/ \E a \in Addr : MarkRoot(a) \/ MarkPop(a)
  \/ StartSweep \/ SweepFree \/ SweepKeep \/ FinishCollect

Next ==
  \/ Mutate
  \/ ChangeRoots
  \/ \E force \in BOOLEAN : StartCollect(force)
  \/ CollectorStep

(* A collection is a loop inside one call: once begun it keeps running. *)
Spec == Init /\ [][Next]_vars /\ WF_vars(CollectorStep)

-----------------------------------------------------------------------------
(* Properties. *)

SpanWords == [1..SpanLen -> Word]

TypeOK ==
  /\ heap \in [Addr -> Object \cup {Free}]
  /\ head \in Seq(Addr)
  /\ bytes \in Int /\ threshold \in Int
  /\ roots \in Seq(Word \X BOOLEAN)
  /\ spans \in Seq(SpanWords \X SUBSET (1..SpanLen))
  /\ jit \in SUBSET Word
  /\ phase \in {"mutator", "mark", "sweep"}
  /\ pending \in SUBSET Addr /\ worklist \in SUBSET Addr
  /\ unswept \in Seq(Addr) /\ kept \in Seq(Addr)

(* Everything the program can reach through its roots and the scanned       *)
(* columns of reachable objects is still an object: no sweep frees under    *)
(* the program's feet, and no unwritten or raw column is followed.          *)
NoDangling == Live \subseteq Allocated

(* The marks a collection sets are all gone when it returns.  A mark that   *)
(* survived would make the next mark_from `continue` past the object and    *)
(* sweep everything only it refers to.                                      *)
MarksClear == Running => \A a \in Allocated : ~heap[a].marked

(* The object list holds each object once, whichever part of sweep's        *)
(* rebuilding it is in: an object off the list would never be freed, and    *)
(* one on it twice would be freed twice.                                    *)
ListExact ==
  LET objects == IF phase = "sweep" THEN kept \o unswept ELSE head
  IN ToSet(objects) = Allocated /\ IsInjective(objects)

(* The words allocated, each with the block it is in. *)
AllocatedWords == UNION {{a} \X (1..SizeOf(heap[a])) : a \in Allocated}

(* bytes_allocated is exactly what freeing every object would subtract, so  *)
(* the unsigned subtraction in sweep cannot underflow and the threshold is  *)
(* computed from the live bytes.                                            *)
BytesExact == bytes = Cardinality(AllocatedWords)

(* A collection leaves exactly the reachable objects: nothing reachable is  *)
(* lost, and no garbage floats to the next collection.                      *)
CollectExact ==
  [][phase = "sweep" /\ phase' = "mutator" => Allocated' = Live']_vars

(* No step of a collection changes anything the program can observe of a    *)
(* reachable object, and `shared` in particular is never reset: surviving a *)
(* collection says nothing about how many paths reach an object.            *)
CollectorInvisible ==
  [][phase # "mutator" =>
       \A a \in Live : [heap'[a] EXCEPT !.marked = FALSE] = [heap[a] EXCEPT !.marked = FALSE]]_vars

(* A collection that starts finishes and hands the thread back, also on     *)
(* cyclic and shared graphs, where only the mark stops the loop.            *)
CollectionEnds == phase # "mutator" ~> phase = "mutator"

(* The heap implements the specification that knows neither marks nor words. *)
Abstract == INSTANCE HeapSpec WITH
  store <- [a \in Addr |-> IF heap[a] = Free THEN Free ELSE Children(heap[a])],
  rootSet <- RootPtrs

ImplementsHeapSpec == Abstract!Spec
=============================================================================
