------------------------------- MODULE CopyGC -------------------------------
(***************************************************************************)
(* The two-space copying collector of libflisp/src/gc.c and the protocol   *)
(* flisp_repl uses to call it: objects are carved off gc_working by        *)
(* gc_malloc while an expression is evaluated; between two expressions     *)
(* gc_collect_init swaps the spaces and gc_collect copies what each root   *)
(* reaches, leaving in every copied original a forwarding address.         *)
(*                                                                         *)
(* An address is <<space, word>>.  The recursion of gc_relocate is the     *)
(* explicit sequence todo of slots still to be filled, in the order in     *)
(* which the recursion reaches them.                                       *)
(***************************************************************************)
EXTENDS Naturals, Sequences, FiniteSets

CONSTANTS HeapWords,  \* gc_heap_size: words in one space
          Kinds,      \* the types of types.h
          Header,     \* words in the object itself, by kind
          Block,      \* words in its second gc_malloc, 0 when it has none
          Slots,      \* number of references it holds
          Keeps,      \* kinds whose constructor is given the old references
          RawBlocks,  \* sizes of the blocks taken that are no objects
          Temps,      \* C locals that hold objects during one expression
          Ids,        \* identities, a history variable for the refinement
          NULL

Roots   == {"special", "lexical"}      \* toplevel.special, toplevel.lexical
Handles == Roots \cup Temps
Fields  == UNION {1 .. Slots[k] : k \in Kinds}
Size(k) == Header[k] + Block[k]

ASSUME HeapAssumption == HeapWords \in Nat \ {0}
ASSUME KindAssumption ==
  /\ \A k \in Kinds : Header[k] \in Nat \ {0} /\ Block[k] \in Nat /\ Slots[k] \in Nat
  /\ {"ht", "cell"} \subseteq Kinds
  /\ Size("ht") < HeapWords
ASSUME BlockAssumption == RawBlocks \subseteq Nat \ {0}
ASSUME NameAssumption == Temps \cap Roots = {} /\ Ids # {}

Spaces    == {0, 1}
Addresses == Spaces \X (0 .. HeapWords - 1)

ASSUME NullAssumption == NULL \notin Addresses \cup Ids

VARIABLES
  gc_working,  \* the space objects are allocated in
  free_p,      \* first free word of it
  mem,         \* the objects, by address
  handle,      \* the reference in each root and C local
  pc,          \* what flisp_repl is doing
  todo         \* pending calls gc_relocate(&obj->slots[i], src)

vars == <<gc_working, free_p, mem, handle, pc, todo>>

gc_free    == 1 - gc_working
Collecting == pc \in {"special", "lexical", "finish"}
InSpace(s) == {p \in DOMAIN mem : p[1] = s}

-----------------------------------------------------------------------------
(* Allocation *)

\* gc_malloc(n) succeeds: the comparison is strict, the last word is never used.
Fits(n) == free_p + n < HeapWords

FreshAddress == <<gc_working, free_p>>

Object(k, id, slots) ==
  [kind |-> k, id |-> id, forw |-> NULL, slots |-> slots]

\* m with object o stored at address q
Placed(m, q, o) == [p \in DOMAIN m \cup {q} |-> IF p = q THEN o ELSE m[p]]

NoReferences(k) == [i \in 1 .. Slots[k] |-> NULL]

get_type(v) == IF v = NULL THEN "null" ELSE mem[v].kind

\* The roots are typed: a table of globals and a list of frames.
MayHold(h, v) ==
  /\ h = "special" => get_type(v) = "ht"
  /\ h = "lexical" => get_type(v) \in {"null", "cell"}

\* Identities are reused as soon as no object has them; Ids bounds the objects.
UnusedIds == Ids \ {mem[p].id : p \in DOMAIN mem}

-----------------------------------------------------------------------------

\* gc_init and env_init: the table of the global variables is the first object.
Init ==
  /\ gc_working = 0
  /\ free_p = Size("ht")
  /\ mem = [p \in {<<0, 0>>} |-> Object("ht", CHOOSE id \in Ids : TRUE, NoReferences("ht"))]
  /\ handle = [h \in Handles |-> IF h = "special" THEN <<0, 0>> ELSE NULL]
  /\ pc = "mutator"
  /\ todo = <<>>

(* The mutator: what the interpreter does to the heap during an expression *)

\* gc_new_cell and its siblings: the object, and its second block, both fit.
New(t, k) ==
  /\ pc = "mutator"
  /\ Fits(Size(k))
  /\ UnusedIds # {}
  /\ LET id == CHOOSE x \in UnusedIds : TRUE
     IN  mem' = Placed(mem, FreshAddress, Object(k, id, NoReferences(k)))
  /\ handle' = [handle EXCEPT ![t] = FreshAddress]
  /\ free_p' = free_p + Size(k)
  /\ UNCHANGED <<gc_working, pc, todo>>

\* The object itself does not fit: the constructor returns NULL and its caller
\* passes that on (cons, intern, eval).
NewFails(t, k) ==
  /\ pc = "mutator"
  /\ ~Fits(Header[k])
  /\ handle' = [handle EXCEPT ![t] = NULL]
  /\ UNCHANGED <<gc_working, free_p, mem, pc, todo>>

\* A write through NULL ends the program: the second block does not fit and its
\* constructor does not test for that; or the object itself does not fit and its
\* caller does not (acons, read_list).
NewFaults(k) ==
  /\ pc = "mutator"
  /\ \/ Fits(Header[k]) /\ Block[k] > 0 /\ ~Fits(Size(k)) /\ free_p' = free_p + Header[k]
     \/ ~Fits(Header[k]) /\ Slots[k] > 0 /\ free_p' = free_p
  /\ pc' = "fault"
  /\ UNCHANGED <<gc_working, mem, handle, todo>>

\* gc_malloc for what is no object: the record of error, the buffer of
\* read_string.  Neither tests what gc_malloc returns.
NewBlock(n) ==
  /\ pc = "mutator"
  /\ \/ Fits(n) /\ free_p' = free_p + n /\ pc' = pc
     \/ ~Fits(n) /\ free_p' = free_p /\ pc' = "fault"
  /\ UNCHANGED <<gc_working, mem, handle, todo>>

\* c->car = v, data[i] = v, buckets[i] = v
SetSlot(h, i, g) ==
  /\ pc = "mutator"
  /\ handle[h] # NULL
  /\ i \in DOMAIN mem[handle[h]].slots
  /\ mem' = [mem EXCEPT ![handle[h]].slots[i] = handle[g]]
  /\ UNCHANGED <<gc_working, free_p, handle, pc, todo>>

\* A local takes what a slot holds (cell_car, cell_cdr, aref, gethash); when a
\* frame is popped toplevel.lexical does.
LoadSlot(h, g, i) ==
  /\ pc = "mutator"
  /\ handle[g] # NULL
  /\ i \in DOMAIN mem[handle[g]].slots
  /\ LET v == mem[handle[g]].slots[i] IN
     /\ MayHold(h, v)
     /\ handle' = [handle EXCEPT ![h] = v]
  /\ UNCHANGED <<gc_working, free_p, mem, pc, todo>>

\* A root takes a local: the table ht_resize built, the list cell_push built.
Assign(r, t) ==
  /\ pc = "mutator"
  /\ MayHold(r, handle[t])
  /\ handle' = [handle EXCEPT ![r] = handle[t]]
  /\ UNCHANGED <<gc_working, free_p, mem, pc, todo>>

-----------------------------------------------------------------------------
(* The collector *)

\* mutant: a collection inside an expression, whose locals are still in use
StartCollectionInExpression ==
  /\ pc = "mutator"
  /\ gc_working' = gc_free
  /\ free_p' = 0
  /\ pc' = "special"
  /\ UNCHANGED <<mem, handle, todo>>

\* mutant: free_p is not moved to the other space's first word
StartCollectionKeepsFreeP ==
  /\ pc = "mutator"
  /\ gc_working' = gc_free
  /\ handle' = [h \in Handles |-> IF h \in Temps THEN NULL ELSE handle[h]]
  /\ pc' = "special"
  /\ UNCHANGED <<free_p, mem, todo>>

\* gc_collect_init: the spaces are swapped.  The locals of the expression that
\* was read, evaluated and printed are dead.
StartCollection ==
  /\ pc = "mutator"
  /\ gc_working' = gc_free
  /\ free_p' = 0
  /\ handle' = [h \in Handles |-> IF h \in Temps THEN NULL ELSE handle[h]]
  /\ pc' = "special"
  /\ UNCHANGED <<mem, todo>>

NeedsCopy(src) == src # NULL /\ mem[src].forw = NULL

\* What gc_relocate stores for a reference it need not copy.
Settled(src) == IF src = NULL THEN NULL ELSE mem[src].forw

\* gc_new_copy: cells, tables and arrays start empty, a closure starts with the
\* references of the original.
CopyOf(src) ==
  LET o == mem[src]
  IN  Object(o.kind, o.id, IF o.kind \in Keeps THEN o.slots ELSE NoReferences(o.kind))

\* mutant: no forwarding address is left in the original
CopiedMemUnmarked(src) == Placed(mem, FreshAddress, CopyOf(src))

\* *new = gc_new_copy(old); old->forw = *new
CopiedMem(src) ==
  Placed([mem EXCEPT ![src].forw = FreshAddress], FreshAddress, CopyOf(src))

\* mutant: the loop over the slots stops one too early
FieldTasksShort(src) ==
  [i \in 1 .. Slots[mem[src].kind] - 1 |->
     [obj |-> FreshAddress, slot |-> i, src |-> mem[src].slots[i]]]

\* The calls gc_relocate_cell, _ht, _array and _closure make for the copy.
FieldTasks(src) ==
  [i \in 1 .. Slots[mem[src].kind] |->
     [obj |-> FreshAddress, slot |-> i, src |-> mem[src].slots[i]]]

\* mutant: a root whose object was copied through the other root is cleared
CollectRootDropsShared(r, next) ==
  /\ pc = r /\ todo = <<>>
  /\ pc' = next
  /\ \/ /\ ~NeedsCopy(handle[r])
        /\ handle' = [handle EXCEPT ![r] = NULL]
        /\ UNCHANGED <<free_p, mem, todo>>
     \/ /\ NeedsCopy(handle[r])
        /\ handle' = [handle EXCEPT ![r] = FreshAddress]
        /\ free_p' = free_p + Size(mem[handle[r]].kind)
        /\ mem' = CopiedMem(handle[r])
        /\ todo' = FieldTasks(handle[r])
  /\ UNCHANGED gc_working

\* gc_collect(&root) up to its first recursive call.  gc_malloc is not asked
\* again whether the copy fits: CopyFits says that it does.
CollectRoot(r, next) ==
  /\ pc = r /\ todo = <<>>
  /\ pc' = next
  /\ \/ /\ ~NeedsCopy(handle[r])
        /\ handle' = [handle EXCEPT ![r] = Settled(handle[r])]
        /\ UNCHANGED <<free_p, mem, todo>>
     \/ /\ NeedsCopy(handle[r])
        /\ handle' = [handle EXCEPT ![r] = FreshAddress]
        /\ free_p' = free_p + Size(mem[handle[r]].kind)
        /\ mem' = CopiedMem(handle[r])
        /\ todo' = FieldTasks(handle[r])
  /\ UNCHANGED gc_working

\* mutant: the loop does not advance past an empty slot
SettleSlotStuck(t) ==
  /\ ~NeedsCopy(t.src)
  /\ mem' = [mem EXCEPT ![t.obj].slots[t.slot] = Settled(t.src)]
  /\ todo' = IF t.src = NULL THEN todo ELSE Tail(todo)
  /\ UNCHANGED <<gc_working, free_p, handle, pc>>

\* gc_relocate(&obj->slots[i], src) when src is NULL or has its copy already
SettleSlot(t) ==
  /\ ~NeedsCopy(t.src)
  /\ mem' = [mem EXCEPT ![t.obj].slots[t.slot] = Settled(t.src)]
  /\ todo' = Tail(todo)
  /\ UNCHANGED <<gc_working, free_p, handle, pc>>

\* ... and when it must be copied, up to its own first recursive call
CopySlot(t) ==
  /\ NeedsCopy(t.src)
  /\ mem' = [CopiedMem(t.src) EXCEPT ![t.obj].slots[t.slot] = FreshAddress]
  /\ free_p' = free_p + Size(mem[t.src].kind)
  /\ todo' = FieldTasks(t.src) \o Tail(todo)
  /\ UNCHANGED <<gc_working, handle, pc>>

\* The next call of the recursion.
RelocateSlot ==
  /\ todo # <<>>
  /\ SettleSlot(Head(todo)) \/ CopySlot(Head(todo))

\* The last gc_collect returns and flisp_repl reads the next expression.  What
\* the other space holds are no objects any more: the next collection writes
\* over them (NoDangling: no reference to them is left).
FinishCollection ==
  /\ pc = "finish" /\ todo = <<>>
  /\ pc' = "mutator"
  /\ mem' = [p \in InSpace(gc_working) |-> mem[p]]
  /\ UNCHANGED <<gc_working, free_p, handle, todo>>

Mutator ==
  \/ \E t \in Temps, k \in Kinds : New(t, k) \/ NewFails(t, k)
  \/ \E k \in Kinds : NewFaults(k)
  \/ \E n \in RawBlocks : NewBlock(n)
  \/ \E h, g \in Handles, i \in Fields : SetSlot(h, i, g) \/ LoadSlot(h, g, i)
  \/ \E r \in Roots, t \in Temps : Assign(r, t)

Collector ==
  \/ CollectRoot("special", "lexical")
  \/ CollectRoot("lexical", "finish")
  \/ RelocateSlot
  \/ FinishCollection

Next == Mutator \/ StartCollection \/ Collector

\* Once started a collection is straight-line code that nothing interrupts:
\* it keeps taking its steps.  Nothing obliges the mutator to do anything.
Spec == Init /\ [][Next]_vars /\ WF_vars(Collector)

-----------------------------------------------------------------------------
(* Properties *)

Refs(s) == InSpace(s) \cup {NULL}

Objects(k) == [kind : {k}, id : Ids, forw : Addresses \cup {NULL},
               slots : [1 .. Slots[k] -> Addresses \cup {NULL}]]

\* Every variable keeps its type; slots and forwarding fields hold addresses.
TypeOK ==
  /\ gc_working \in Spaces
  /\ free_p \in 0 .. HeapWords - 1
  /\ pc \in {"mutator", "special", "lexical", "finish", "fault"}
  /\ handle \in [Handles -> Addresses \cup {NULL}]
  /\ DOMAIN mem \subseteq Addresses
  /\ \A p \in DOMAIN mem :
       mem[p].kind \in Kinds /\ mem[p] \in Objects(mem[p].kind)
  /\ todo \in Seq([obj : Addresses, slot : Nat, src : Addresses \cup {NULL}])

\* While expressions are evaluated, every reference the program can follow, from
\* a root, a local or a slot, is to an object of the space in use: after a
\* collection nothing still points into the space that will be overwritten.
NoDangling ==
  ~Collecting =>
    /\ \A h \in Handles : handle[h] \in Refs(gc_working)
    /\ \A p \in InSpace(gc_working) :
         \A i \in DOMAIN mem[p].slots : mem[p].slots[i] \in Refs(gc_working)

\* gc_relocate does not look at what gc_new_copy returns: gc_malloc must succeed
\* for every object a collection has yet to copy, however the originals are
\* shared, and it does because each is copied at most once.
CopyFits ==
  Collecting => \A p \in InSpace(gc_free) :
                  mem[p].forw = NULL => Fits(Size(mem[p].kind))

Tasks == {todo[n] : n \in DOMAIN todo}

Pending(q, i, src) == [obj |-> q, slot |-> i, src |-> src] \in Tasks

\* During a collection the forwarding addresses map originals one to one to
\* copies of their kind, and a slot of a copy is the image of the original's
\* slot or is still waiting in the recursion: sharing and cycles survive.
CopiesMirrorOriginals ==
  Collecting =>
    /\ \A p1, p2 \in InSpace(gc_free) :
         p1 # p2 /\ mem[p1].forw # NULL => mem[p1].forw # mem[p2].forw
    /\ \A p \in InSpace(gc_free) : mem[p].forw # NULL =>
         LET q == mem[p].forw IN
         /\ q \in InSpace(gc_working)
         /\ mem[q].kind = mem[p].kind
         /\ \A i \in DOMAIN mem[p].slots :
              \/ Pending(q, i, mem[p].slots[i])
              \/ /\ ~NeedsCopy(mem[p].slots[i])
                 /\ mem[q].slots[i] = Settled(mem[p].slots[i])

\* A collection that has started ends, also on cyclic structure.
CollectionEnds == Collecting ~> pc = "mutator"

-----------------------------------------------------------------------------
(* The inductive invariant behind NoDangling, CopyFits and                   *)
(* CopiesMirrorOriginals (CopyGCProofs)                                      *)

\* Objects of a space lie side by side below the limit gc_malloc keeps.
Layout ==
  /\ \A p \in DOMAIN mem : p[2] + Size(mem[p].kind) < HeapWords
  /\ \A p \in InSpace(gc_working) : p[2] + Size(mem[p].kind) <= free_p
  /\ \A p, q \in DOMAIN mem : p[1] = q[1] /\ p # q =>
       \/ p[2] + Size(mem[p].kind) <= q[2]
       \/ q[2] + Size(mem[q].kind) <= p[2]

\* Between collections there are no originals, no forwarding and no recursion.
Quiescent ==
  ~Collecting =>
    /\ todo = <<>>
    /\ InSpace(gc_free) = {}
    /\ \A p \in DOMAIN mem : mem[p].forw = NULL

\* The roots collected so far hold copies, the others still hold originals.
RootsSplit ==
  Collecting =>
    /\ pc = "special" => todo = <<>>
    /\ \A t \in Temps : handle[t] = NULL
    /\ handle["special"] \in Refs(IF pc = "special" THEN gc_free ELSE gc_working)
    /\ handle["lexical"] \in Refs(IF pc = "finish" THEN gc_working ELSE gc_free)

\* Originals refer to originals and are forwarded to copies; a slot of a copy
\* that no pending call will fill refers to a copy.
SlotsSplit ==
  Collecting =>
    /\ \A p \in InSpace(gc_free) :
         /\ mem[p].forw \in Refs(gc_working)
         /\ \A i \in DOMAIN mem[p].slots : mem[p].slots[i] \in Refs(gc_free)
    /\ \A q \in InSpace(gc_working) :
         /\ mem[q].forw = NULL
         /\ \A i \in DOMAIN mem[q].slots :
              \/ mem[q].slots[i] \in Refs(gc_working)
              \/ \E t \in Tasks : t.obj = q /\ t.slot = i
    /\ \A t \in Tasks :
         /\ t.obj \in InSpace(gc_working)
         /\ t.slot \in DOMAIN mem[t.obj].slots
         /\ t.src \in Refs(gc_free)
         /\ \E p \in InSpace(gc_free) :
              mem[p].forw = t.obj /\ mem[p].slots[t.slot] = t.src

Extent(p) == p[2] .. p[2] + Size(mem[p].kind) - 1

CopiedWords == UNION {Extent(p) : p \in {x \in InSpace(gc_free) : mem[x].forw # NULL}}

\* The copies take exactly the words of the originals copied so far.
WordsConserved == Collecting => free_p = Cardinality(CopiedWords)

\* The conjunction that one step preserves.
IInv ==
  /\ TypeOK
  /\ Layout
  /\ Quiescent
  /\ RootsSplit
  /\ SlotsSplit
  /\ WordsConserved
  /\ CopiesMirrorOriginals
  /\ NoDangling

-----------------------------------------------------------------------------
\* The refinement: an object is its identity, and while a collection runs the
\* originals still tell what the roots reach.
Turn == IF Collecting THEN "memory" ELSE "expression"

Authority == InSpace(IF Collecting THEN gc_free ELSE gc_working)

IdOf(m, ref) == IF ref = NULL THEN NULL ELSE m[ref].id

\* An object as the program sees it.
ImageOf(m, p) ==
  [kind |-> m[p].kind, slots |-> [i \in DOMAIN m[p].slots |-> IdOf(m, m[p].slots[i])]]

GraphOf(m, objects) ==
  [id \in {m[p].id : p \in objects} |-> ImageOf(m, CHOOSE p \in objects : m[p].id = id)]

AbsHandle == [h \in Handles |-> IdOf(mem, handle[h])]

AbsGraph == GraphOf(mem, Authority)

Abstract == INSTANCE ObjectGraph WITH held <- AbsHandle, graph <- AbsGraph, turn <- Turn

\* The program cannot tell that a collection happened: with identities for
\* addresses every step of the collector is a stutter of ObjectGraph, except
\* that at its end exactly the unreachable objects are gone.
RefinesObjectGraph == Abstract!Spec

\* When the collection is over the space in use holds what the roots reach and
\* nothing else, packed from its first word: all garbage is reclaimed.
OnlyReachableKept ==
  pc = "finish" /\ todo = <<>> =>
    LET reached == Abstract!ReachedFrom({handle[r] : r \in Roots}, mem)
    IN  /\ InSpace(gc_working) = reached
        /\ \A w \in 0 .. free_p - 1 :
             \E p \in reached : w \in p[2] .. p[2] + Size(mem[p].kind) - 1

-----------------------------------------------------------------------------
(* The invariant behind RefinesObjectGraph and OnlyReachableKept             *)
(* (CopyGCProofs)                                                            *)

\* The objects of a space have different identities, a copy has that of its
\* original, and there is nothing but copies in the space in use.
Identified ==
  /\ \A p, q \in DOMAIN mem : p[1] = q[1] /\ mem[p].id = mem[q].id => p = q
  /\ Collecting =>
       /\ \A p \in InSpace(gc_free) : mem[p].forw # NULL => mem[mem[p].forw].id = mem[p].id
       /\ \A q \in InSpace(gc_working) : \E p \in InSpace(gc_free) : mem[p].forw = q

\* Only what the roots reach has been copied.
OnlyReachedCopied ==
  Collecting =>
    \A p \in InSpace(gc_free) : mem[p].forw # NULL =>
      mem[p].id \in Abstract!ReachedFrom(Abstract!Holdings(AbsHandle), AbsGraph)

\* The copies leave no word between them.
Packed ==
  Collecting => \A w \in 0 .. free_p - 1 : \E q \in InSpace(gc_working) : w \in Extent(q)

RInv == Identified /\ OnlyReachedCopied /\ Packed

=============================================================================
