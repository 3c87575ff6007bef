---------------------------- MODULE CopyGCProofs ----------------------------
(***************************************************************************)
(* The collector of CopyGC is safe for every heap size, every set of       *)
(* object kinds and every shape of the heap; and it implements             *)
(* ObjectGraph: a program that knows its objects by their identity cannot  *)
(* tell that they are moved, and what is gone after a collection is        *)
(* exactly what it could not reach.                                        *)
(***************************************************************************)
EXTENDS CopyGC, FiniteSetTheorems, TLAPS

\* Arithmetic of sizes: an object takes at least one word.
LEMMA SizeType ==
  ASSUME NEW k \in Kinds
  PROVE  Size(k) \in Nat /\ Size(k) >= 1 /\ Header[k] \in Nat /\ Header[k] <= Size(k)
         /\ Slots[k] \in Nat
BY KindAssumption DEF Size

\* The next address of gc_malloc is not the address of an object.
LEMMA FreshIsFree ==
  ASSUME TypeOK, Layout
  PROVE  FreshAddress \notin DOMAIN mem /\ FreshAddress \in Addresses
<1>1. FreshAddress \in Addresses
  BY DEF TypeOK, FreshAddress, Addresses
<1>2. ASSUME FreshAddress \in DOMAIN mem PROVE FALSE
  <2>1. FreshAddress[1] = gc_working /\ FreshAddress[2] = free_p
    BY DEF FreshAddress
  <2>2. free_p + Size(mem[FreshAddress].kind) <= free_p
    BY <1>2, <2>1 DEF Layout, InSpace
  <2>3. mem[FreshAddress].kind \in Kinds /\ free_p \in Nat
    BY <1>2 DEF TypeOK
  <2> QED BY <2>2, <2>3, SizeType
<1> QED BY <1>1, <1>2

LEMMA InitInvariant == Init => IInv
<1> SUFFICES ASSUME Init PROVE IInv
  OBVIOUS
<1> USE DEF Init
<1>k. "ht" \in Kinds /\ Size("ht") \in Nat /\ Size("ht") < HeapWords /\ HeapWords \in Nat
  BY KindAssumption, HeapAssumption, SizeType
<1>i. (CHOOSE id \in Ids : TRUE) \in Ids
  BY NameAssumption
<1>s. NoReferences("ht") \in [1 .. Slots["ht"] -> Addresses \cup {NULL}]
  BY DEF NoReferences
<1>a. <<0, 0>> \in Addresses
  BY <1>k DEF Addresses, Spaces
<1>c. ~Collecting
  BY DEF Collecting
<1>m. /\ DOMAIN mem = {<<0, 0>>}
      /\ mem[<<0, 0>>] = Object("ht", CHOOSE id \in Ids : TRUE, NoReferences("ht"))
  OBVIOUS
<1>1. TypeOK
  <2>1. mem[<<0, 0>>].kind = "ht" /\ mem[<<0, 0>>] \in Objects("ht")
    BY <1>m, <1>i, <1>s DEF Object, Objects
  <2>2. handle \in [Handles -> Addresses \cup {NULL}]
    BY <1>a
  <2>3. todo \in Seq([obj : Addresses, slot : Nat, src : Addresses \cup {NULL}])
    OBVIOUS
  <2>4. gc_working \in Spaces /\ free_p \in 0 .. HeapWords - 1 /\ pc = "mutator"
    BY <1>k DEF Spaces
  <2>5. \A p \in DOMAIN mem : mem[p].kind \in Kinds /\ mem[p] \in Objects(mem[p].kind)
    BY <2>1, <1>m, <1>k
  <2>6. DOMAIN mem \subseteq Addresses
    BY <1>m, <1>a
  <2> QED BY <2>2, <2>3, <2>4, <2>5, <2>6 DEF TypeOK
<1>2. Layout
  BY <1>m, <1>k DEF Layout, Object, InSpace
<1>3. Quiescent
  BY <1>m DEF Quiescent, InSpace, gc_free, Object
<1>4. NoDangling
  <2>1. \A h \in Handles : handle[h] \in Refs(gc_working)
    BY <1>m DEF Refs, InSpace
  <2>2. \A i \in DOMAIN mem[<<0, 0>>].slots : mem[<<0, 0>>].slots[i] = NULL
    BY <1>m DEF Object, NoReferences
  <2> QED BY <2>1, <2>2, <1>m DEF NoDangling, Refs, InSpace
<1> QED BY <1>1, <1>2, <1>3, <1>4, <1>c
       DEF IInv, RootsSplit, SlotsSplit, WordsConserved, CopiesMirrorOriginals

-----------------------------------------------------------------------------
(* The mutator *)

\* Outside a collection four conjuncts say everything.
LEMMA OutsideCollection ==
  (TypeOK /\ Layout /\ Quiescent /\ NoDangling /\ ~Collecting) => IInv
BY DEF IInv, RootsSplit, SlotsSplit, WordsConserved, CopiesMirrorOriginals

LEMMA NewStep ==
  ASSUME IInv, NEW t \in Temps, NEW k \in Kinds, New(t, k)
  PROVE  IInv'
<1> DEFINE F == FreshAddress
           id == CHOOSE x \in UnusedIds : TRUE
           o == Object(k, id, NoReferences(k))
<1>1. TypeOK /\ Layout /\ Quiescent /\ NoDangling /\ pc = "mutator" /\ ~Collecting
  BY DEF IInv, New, Collecting
<1>2. F \notin DOMAIN mem /\ F \in Addresses /\ F[1] = gc_working /\ F[2] = free_p
  BY <1>1, FreshIsFree DEF FreshAddress
<1>3. /\ DOMAIN mem' = DOMAIN mem \cup {F}
      /\ mem'[F] = o
      /\ \A p \in DOMAIN mem : mem'[p] = mem[p]
  <2>1. mem' = Placed(mem, F, o)
    BY DEF New
  <2> HIDE DEF F, o
  <2> QED BY <2>1, <1>2 DEF Placed
<1>4. /\ free_p' = free_p + Size(k) /\ free_p' < HeapWords
      /\ gc_working' = gc_working /\ pc' = pc /\ todo' = todo
      /\ handle' = [handle EXCEPT ![t] = F]
  BY DEF New, Fits
<1>5. id \in Ids
  BY DEF New, UnusedIds
<1>6. o.kind = k /\ o.forw = NULL /\ o.slots = NoReferences(k) /\ o \in Objects(k)
  <2>1. NoReferences(k) \in [1 .. Slots[k] -> Addresses \cup {NULL}]
    BY DEF NoReferences
  <2> QED BY <2>1, <1>5 DEF Object, Objects
<1>7. Size(k) \in Nat /\ Size(k) >= 1 /\ HeapWords \in Nat /\ free_p \in Nat
  BY <1>1, SizeType, HeapAssumption DEF TypeOK
<1> HIDE DEF F, o, id
<1>8. TypeOK'
  <2>1. \A p \in DOMAIN mem' : mem'[p].kind \in Kinds /\ mem'[p] \in Objects(mem'[p].kind)
    BY <1>1, <1>3, <1>6 DEF TypeOK
  <2>2. handle' \in [Handles -> Addresses \cup {NULL}]
    BY <1>1, <1>2, <1>4 DEF TypeOK
  <2>3. free_p' \in 0 .. HeapWords - 1
    BY <1>4, <1>7
  <2>4. DOMAIN mem' \subseteq Addresses
    BY <1>1, <1>2, <1>3 DEF TypeOK
  <2> QED BY <1>1, <1>4, <2>1, <2>2, <2>3, <2>4 DEF TypeOK
<1>9. Layout'
  <2>1. \A p \in DOMAIN mem : /\ p \in DOMAIN mem' /\ mem'[p].kind = mem[p].kind
                            /\ p[2] \in Nat /\ Size(mem[p].kind) \in Nat
    BY <1>1, <1>3, SizeType DEF TypeOK, Addresses
  <2>2. F[2] + Size(mem'[F].kind) = free_p'
    BY <1>2, <1>3, <1>4, <1>6
  <2>3. \A p \in DOMAIN mem' : p[2] + Size(mem'[p].kind) < HeapWords
    BY <1>1, <1>3, <1>4, <2>1, <2>2 DEF Layout
  <2>4. \A p \in DOMAIN mem : p[1] = gc_working => p[2] + Size(mem[p].kind) <= free_p
    BY <1>1 DEF Layout, InSpace
  <2>5. \A p \in InSpace(gc_working)' : p[2] + Size(mem'[p].kind) <= free_p'
    BY <1>3, <1>4, <1>7, <2>1, <2>2, <2>4 DEF InSpace
  <2>6. \A p, q \in DOMAIN mem' : p[1] = q[1] /\ p # q =>
          \/ p[2] + Size(mem'[p].kind) <= q[2]
          \/ q[2] + Size(mem'[q].kind) <= p[2]
    BY <1>1, <1>2, <1>3, <2>1, <2>4 DEF Layout
  <2> QED BY <2>3, <2>5, <2>6, <1>4 DEF Layout
<1>10. Quiescent'
  BY <1>1, <1>2, <1>3, <1>4, <1>6 DEF Quiescent, InSpace, gc_free, Collecting, TypeOK, Spaces
<1>11. NoDangling'
  <2>1. \A r \in Refs(gc_working) : r \in Refs(gc_working)'
    BY <1>3, <1>4 DEF Refs, InSpace
  <2>2. F \in Refs(gc_working)' /\ NULL \in Refs(gc_working)'
    BY <1>2, <1>3, <1>4 DEF Refs, InSpace
  <2>3. \A h \in Handles : handle'[h] \in Refs(gc_working)'
    BY <1>1, <1>4, <2>1, <2>2 DEF NoDangling, TypeOK
  <2>4. \A p \in InSpace(gc_working)' : \A i \in DOMAIN mem'[p].slots :
           mem'[p].slots[i] \in Refs(gc_working)'
    <3> SUFFICES ASSUME NEW p \in InSpace(gc_working)', NEW i \in DOMAIN mem'[p].slots
                 PROVE  mem'[p].slots[i] \in Refs(gc_working)'
      OBVIOUS
    <3>1. CASE p = F
      <4>1. mem'[p].slots = NoReferences(k)
        BY <3>1, <1>3, <1>6
      <4> QED BY <4>1, <2>2 DEF NoReferences
    <3>2. CASE p # F
      <4>1. p \in InSpace(gc_working) /\ mem'[p] = mem[p]
        BY <3>2, <1>3, <1>4 DEF InSpace
      <4> QED BY <4>1, <1>1, <2>1 DEF NoDangling
    <3> QED BY <3>1, <3>2
  <2> QED BY <2>3, <2>4, <1>4 DEF NoDangling
<1> QED BY <1>1, <1>4, <1>8, <1>9, <1>10, <1>11, OutsideCollection
       DEF IInv, RootsSplit, SlotsSplit, WordsConserved, CopiesMirrorOriginals, Collecting

\* Steps that leave the objects alone and give a handle a reference in use.
LEMMA HandleStep ==
  ASSUME IInv, pc = "mutator", NEW h \in Handles, NEW r \in Refs(gc_working),
         handle' = [handle EXCEPT ![h] = r],
         UNCHANGED <<gc_working, free_p, mem, pc, todo>>
  PROVE  IInv'
<1>1. TypeOK /\ Layout /\ Quiescent /\ NoDangling /\ ~Collecting
  BY DEF IInv, Collecting
<1>2. r \in Addresses \cup {NULL}
  BY <1>1 DEF Refs, InSpace, TypeOK
<1>3. TypeOK'
  BY <1>1, <1>2 DEF TypeOK
<1>4. Layout'
  BY <1>1 DEF Layout, InSpace
<1>5. Quiescent'
  BY <1>1 DEF Quiescent, InSpace, Collecting, gc_free
<1>6. NoDangling'
  BY <1>1 DEF NoDangling, Refs, InSpace, Collecting, TypeOK
<1> QED BY <1>1, <1>3, <1>4, <1>5, <1>6
       DEF IInv, RootsSplit, SlotsSplit, WordsConserved, CopiesMirrorOriginals, Collecting

LEMMA SetSlotStep ==
  ASSUME IInv, NEW h \in Handles, NEW g \in Handles, NEW i, SetSlot(h, i, g)
  PROVE  IInv'
<1> DEFINE a == handle[h]
<1>1. TypeOK /\ Layout /\ Quiescent /\ NoDangling /\ pc = "mutator" /\ ~Collecting
  BY DEF IInv, SetSlot, Collecting
<1>2. UNCHANGED <<gc_working, free_p, handle, pc, todo>>
  BY DEF SetSlot
<1>3. a \in InSpace(gc_working) /\ a \in DOMAIN mem /\ handle[g] \in Refs(gc_working)
  BY <1>1 DEF SetSlot, NoDangling, Refs, InSpace
<1>4. mem[a] \in Objects(mem[a].kind) /\ i \in DOMAIN mem[a].slots
      /\ handle[g] \in Addresses \cup {NULL}
  BY <1>1, <1>3 DEF TypeOK, SetSlot
<1>5. /\ DOMAIN mem' = DOMAIN mem
      /\ \A p \in DOMAIN mem : p # a => mem'[p] = mem[p]
      /\ mem'[a] = [mem[a] EXCEPT !.slots = [mem[a].slots EXCEPT ![i] = handle[g]]]
  BY <1>3 DEF SetSlot
<1>6. /\ mem'[a].kind = mem[a].kind /\ mem'[a].forw = mem[a].forw
      /\ mem'[a].slots = [mem[a].slots EXCEPT ![i] = handle[g]]
      /\ mem'[a] \in Objects(mem[a].kind)
  <2> DEFINE new == [mem[a].slots EXCEPT ![i] = handle[g]]
  <2>1. mem[a].slots \in [1 .. Slots[mem[a].kind] -> Addresses \cup {NULL}]
    BY <1>4 DEF Objects
  <2>2. new \in [1 .. Slots[mem[a].kind] -> Addresses \cup {NULL}]
    BY <1>4, <2>1
  <2> HIDE DEF new, a
  <2>3. mem'[a] = [mem[a] EXCEPT !.slots = new]
    BY <1>5 DEF new
  <2>4. mem'[a].kind = mem[a].kind /\ mem'[a].forw = mem[a].forw /\ mem'[a].slots = new
        /\ mem'[a] \in Objects(mem[a].kind)
    BY <1>4, <2>2, <2>3 DEF Objects
  <2> QED BY <2>4 DEF new
<1> HIDE DEF a
<1>7. \A p \in DOMAIN mem : mem'[p].kind = mem[p].kind /\ mem'[p].forw = mem[p].forw
  BY <1>5, <1>6
<1>8. TypeOK'
  BY <1>1, <1>2, <1>5, <1>6, <1>7 DEF TypeOK
<1>9. Layout'
  BY <1>1, <1>2, <1>5, <1>7 DEF Layout, InSpace
<1>10. Quiescent'
  BY <1>1, <1>2, <1>5, <1>7 DEF Quiescent, InSpace, Collecting, gc_free
<1>11. NoDangling'
  <2>1. \A r \in Refs(gc_working) : r \in Refs(gc_working)'
    BY <1>2, <1>5 DEF Refs, InSpace
  <2>2. \A p \in InSpace(gc_working) : \A j \in DOMAIN mem'[p].slots :
          mem'[p].slots[j] \in Refs(gc_working)
    <3> SUFFICES ASSUME NEW p \in InSpace(gc_working), NEW j \in DOMAIN mem'[p].slots
                 PROVE  mem'[p].slots[j] \in Refs(gc_working)
      OBVIOUS
    <3>0. \A x \in DOMAIN mem[p].slots : mem[p].slots[x] \in Refs(gc_working)
      BY <1>1 DEF NoDangling
    <3>1. CASE p = a
      BY <3>0, <3>1, <1>3, <1>6
    <3>2. CASE p # a
      BY <3>0, <3>2, <1>5 DEF InSpace
    <3> QED BY <3>1, <3>2
  <2>3. InSpace(gc_working)' = InSpace(gc_working)
    BY <1>2, <1>5 DEF InSpace
  <2> QED BY <1>1, <1>2, <2>1, <2>2, <2>3 DEF NoDangling
<1> QED BY <1>1, <1>2, <1>8, <1>9, <1>10, <1>11
       DEF IInv, RootsSplit, SlotsSplit, WordsConserved, CopiesMirrorOriginals, Collecting

\* Steps that only take words of the space in use, or end the program.
LEMMA WordsStep ==
  ASSUME IInv, pc = "mutator", pc' \in {"mutator", "fault"},
         free_p' \in free_p .. HeapWords - 1,
         UNCHANGED <<gc_working, mem, handle, todo>>
  PROVE  IInv'
<1>1. TypeOK /\ Layout /\ Quiescent /\ NoDangling /\ ~Collecting /\ ~Collecting'
  BY DEF IInv, Collecting
<1>2. free_p \in Nat /\ HeapWords \in Nat
  BY <1>1, HeapAssumption DEF TypeOK
<1>3. TypeOK'
  BY <1>1, <1>2 DEF TypeOK
<1>4. \A p \in DOMAIN mem : p[2] \in Nat /\ Size(mem[p].kind) \in Nat
  BY <1>1, SizeType DEF TypeOK, Addresses
<1>5. Layout'
  BY <1>1, <1>2, <1>4 DEF Layout, InSpace
<1>6. Quiescent' /\ NoDangling'
  BY <1>1 DEF Quiescent, NoDangling, InSpace, gc_free, Refs
<1> QED BY <1>1, <1>3, <1>5, <1>6
       DEF IInv, RootsSplit, SlotsSplit, WordsConserved, CopiesMirrorOriginals

LEMMA MutatorStep ==
  ASSUME IInv, Mutator
  PROVE  IInv'
<1>0. TypeOK /\ Layout /\ Quiescent /\ NoDangling
  BY DEF IInv
<1>1. ASSUME NEW t \in Temps, NEW k \in Kinds, New(t, k) PROVE IInv'
  BY <1>1, NewStep
<1>2. ASSUME NEW t \in Temps, NEW k \in Kinds, NewFails(t, k) PROVE IInv'
  BY <1>2, HandleStep DEF NewFails, Refs, Handles
<1>a. free_p \in 0 .. HeapWords - 1 /\ HeapWords \in Nat
  BY <1>0, HeapAssumption DEF TypeOK
<1>3. ASSUME NEW k \in Kinds, NewFaults(k) PROVE IInv'
  <2>1. Header[k] \in Nat
    BY SizeType
  <2>2. free_p' \in free_p .. HeapWords - 1
    BY <1>3, <1>a, <2>1 DEF NewFaults, Fits
  <2> QED BY <1>3, <2>2, WordsStep DEF NewFaults
<1>7. ASSUME NEW n \in RawBlocks, NewBlock(n) PROVE IInv'
  <2>1. n \in Nat
    BY BlockAssumption
  <2>2. free_p' \in free_p .. HeapWords - 1
    BY <1>7, <1>a, <2>1 DEF NewBlock, Fits
  <2> QED BY <1>7, <2>2, WordsStep DEF NewBlock
<1>4. ASSUME NEW h \in Handles, NEW g \in Handles, NEW i \in Fields, SetSlot(h, i, g)
      PROVE  IInv'
  BY <1>4, SetSlotStep
<1>5. ASSUME NEW h \in Handles, NEW g \in Handles, NEW i \in Fields, LoadSlot(h, g, i)
      PROVE  IInv'
  <2>1. pc = "mutator" /\ ~Collecting /\ handle[g] \in InSpace(gc_working)
    BY <1>0, <1>5 DEF LoadSlot, Collecting, NoDangling, Refs
  <2>2. mem[handle[g]].slots[i] \in Refs(gc_working)
    BY <1>0, <1>5, <2>1 DEF LoadSlot, NoDangling
  <2>3. handle' = [handle EXCEPT ![h] = mem[handle[g]].slots[i]]
        /\ UNCHANGED <<gc_working, free_p, mem, pc, todo>>
    BY <1>5 DEF LoadSlot
  <2> QED BY <2>1, <2>2, <2>3, HandleStep
<1>6. ASSUME NEW r \in Roots, NEW t \in Temps, Assign(r, t) PROVE IInv'
  <2>1. pc = "mutator" /\ ~Collecting /\ r \in Handles /\ t \in Handles
    BY <1>6 DEF Assign, Collecting, Handles
  <2>2. handle[t] \in Refs(gc_working)
    BY <1>0, <2>1 DEF NoDangling
  <2> QED BY <1>6, <2>1, <2>2, HandleStep DEF Assign
<1> QED BY <1>1, <1>2, <1>3, <1>4, <1>5, <1>6, <1>7 DEF Mutator

-----------------------------------------------------------------------------
(* The two ends of a collection *)

LEMMA StartStep ==
  ASSUME IInv, StartCollection
  PROVE  IInv'
<1>1. TypeOK /\ Layout /\ Quiescent /\ NoDangling /\ ~Collecting
  BY DEF IInv, StartCollection, Collecting
<1>2. /\ gc_working' = gc_free /\ gc_free' = gc_working /\ gc_free # gc_working
      /\ free_p' = 0 /\ mem' = mem /\ pc' = "special" /\ todo' = <<>> /\ Collecting'
      /\ handle' = [h \in Handles |-> IF h \in Temps THEN NULL ELSE handle[h]]
  BY <1>1 DEF StartCollection, gc_free, TypeOK, Spaces, Collecting, Quiescent
<1>3. /\ InSpace(gc_working)' = {} /\ InSpace(gc_free)' = InSpace(gc_working)
      /\ Refs(gc_free)' = Refs(gc_working) /\ Tasks' = {}
  BY <1>1, <1>2 DEF InSpace, Refs, Quiescent, Tasks
<1>4. \A p \in DOMAIN mem : mem[p].forw = NULL
  BY <1>1 DEF Quiescent
<1>5. TypeOK'
  BY <1>1, <1>2, HeapAssumption DEF TypeOK, Spaces, gc_free
<1>6. Layout'
  BY <1>1, <1>2, <1>3 DEF Layout
<1>7. RootsSplit'
  <2>1. handle'["special"] = handle["special"] /\ handle'["lexical"] = handle["lexical"]
    BY <1>2, NameAssumption DEF Handles, Roots
  <2>2. handle["special"] \in Refs(gc_working) /\ handle["lexical"] \in Refs(gc_working)
    BY <1>1 DEF NoDangling, Handles, Roots
  <2>3. \A t \in Temps : handle'[t] = NULL
    BY <1>2 DEF Handles
  <2> QED BY <1>2, <1>3, <2>1, <2>2, <2>3 DEF RootsSplit
<1>8. SlotsSplit'
  <2>1. \A p \in InSpace(gc_working) :
          /\ mem[p].forw = NULL
          /\ \A i \in DOMAIN mem[p].slots : mem[p].slots[i] \in Refs(gc_working)
    BY <1>1, <1>4 DEF NoDangling, InSpace
  <2>2. NULL \in Refs(gc_working)'
    BY DEF Refs
  <2> QED BY <1>2, <1>3, <2>1, <2>2 DEF SlotsSplit
<1>9. WordsConserved'
  <2>1. CopiedWords' = {}
    BY <1>2, <1>3, <1>4 DEF CopiedWords, InSpace
  <2> QED BY <1>2, <2>1, FS_EmptySet DEF WordsConserved
<1>10. CopiesMirrorOriginals'
  BY <1>2, <1>3, <1>4 DEF CopiesMirrorOriginals, InSpace
<1> QED BY <1>2, <1>5, <1>6, <1>7, <1>8, <1>9, <1>10 DEF IInv, Quiescent, NoDangling

LEMMA FinishStep ==
  ASSUME IInv, FinishCollection
  PROVE  IInv'
<1>1. TypeOK /\ Layout /\ RootsSplit /\ SlotsSplit /\ Collecting
  BY DEF IInv, FinishCollection, Collecting
<1>2. /\ UNCHANGED <<gc_working, free_p, handle, todo>> /\ todo = <<>> /\ pc = "finish"
      /\ mem' = [p \in InSpace(gc_working) |-> mem[p]] /\ pc' = "mutator" /\ ~Collecting'
  BY DEF FinishCollection, Collecting
<1>3. /\ DOMAIN mem' = InSpace(gc_working) /\ \A p \in DOMAIN mem' : mem'[p] = mem[p]
      /\ InSpace(gc_working) \subseteq DOMAIN mem
  BY <1>2 DEF InSpace
<1>4. /\ InSpace(gc_working)' = InSpace(gc_working) /\ Refs(gc_working)' = Refs(gc_working)
      /\ InSpace(gc_free)' = {} /\ Tasks = {}
  BY <1>1, <1>2, <1>3 DEF InSpace, Refs, gc_free, Tasks, TypeOK, Spaces
<1>5. \A q \in InSpace(gc_working) :
        /\ mem[q].forw = NULL
        /\ \A i \in DOMAIN mem[q].slots : mem[q].slots[i] \in Refs(gc_working)
  BY <1>1, <1>4 DEF SlotsSplit
<1>6. TypeOK'
  BY <1>1, <1>2, <1>3 DEF TypeOK
<1>7. Layout'
  BY <1>1, <1>2, <1>3, <1>4 DEF Layout
<1>8. Quiescent'
  BY <1>2, <1>3, <1>4, <1>5 DEF Quiescent
<1>9. NoDangling'
  <2>1. \A h \in Handles : handle[h] \in Refs(gc_working)
    BY <1>1, <1>2 DEF RootsSplit, Refs, Handles, Roots
  <2> QED BY <1>2, <1>3, <1>4, <1>5, <2>1 DEF NoDangling
<1> QED BY <1>2, <1>6, <1>7, <1>8, <1>9
       DEF IInv, RootsSplit, SlotsSplit, WordsConserved, CopiesMirrorOriginals

-----------------------------------------------------------------------------
(* Copying an object *)

\* Facts about the two spaces that every step of a collection uses.
LEMMA SpacesDiffer ==
  ASSUME TypeOK
  PROVE  /\ gc_free # gc_working /\ gc_free \in Spaces
         /\ \A p \in DOMAIN mem : p \in InSpace(gc_free) \/ p \in InSpace(gc_working)
         /\ NULL \notin DOMAIN mem
BY NullAssumption DEF TypeOK, Spaces, gc_free, InSpace, Addresses

\* The originals already copied and one more take disjoint words of a space
\* that gc_malloc never filled: the copy of the one more fits.
LEMMA RoomForCopy ==
  ASSUME TypeOK, Layout, WordsConserved, Collecting,
         NEW src \in InSpace(gc_free), mem[src].forw = NULL
  PROVE  /\ Fits(Size(mem[src].kind))
         /\ Cardinality(CopiedWords \cup Extent(src)) = free_p + Size(mem[src].kind)
<1> DEFINE W == CopiedWords
           E == Extent(src)
           n == Size(mem[src].kind)
<1>1. \A p \in DOMAIN mem : p[2] \in Nat /\ Size(mem[p].kind) \in Nat /\ Size(mem[p].kind) >= 1
  BY SizeType DEF TypeOK, Addresses
<1>2. HeapWords \in Nat /\ free_p \in Nat /\ src \in DOMAIN mem /\ n \in Nat /\ n >= 1
  BY <1>1, HeapAssumption DEF TypeOK, InSpace
<1>3. \A p \in DOMAIN mem : Extent(p) \subseteq 0 .. HeapWords - 2
  BY <1>1, <1>2 DEF Layout, Extent
<1>4. W \subseteq 0 .. HeapWords - 2 /\ E \subseteq 0 .. HeapWords - 2
  BY <1>2, <1>3 DEF CopiedWords, InSpace
<1>5. W \cap E = {}
  <2>1. ASSUME NEW p \in InSpace(gc_free), mem[p].forw # NULL
        PROVE  Extent(p) \cap E = {}
    <3>1. p # src /\ p \in DOMAIN mem /\ p[1] = src[1]
      BY <2>1 DEF InSpace
    <3>2. \/ p[2] + Size(mem[p].kind) <= src[2]
          \/ src[2] + Size(mem[src].kind) <= p[2]
      BY <1>2, <3>1 DEF Layout
    <3> QED BY <1>1, <1>2, <3>1, <3>2 DEF Extent
  <2> QED BY <2>1 DEF CopiedWords
<1>6. IsFiniteSet(0 .. HeapWords - 2) /\ Cardinality(0 .. HeapWords - 2) <= HeapWords - 1
  <2>1. HeapWords \in Nat /\ HeapWords >= 1
    BY HeapAssumption
  <2> QED BY <2>1, FS_Interval
<1>7. IsFiniteSet(W) /\ IsFiniteSet(E) /\ IsFiniteSet(W \cup E)
      /\ Cardinality(W \cup E) <= HeapWords - 1
  <2>1. W \in SUBSET (0 .. HeapWords - 2) /\ E \in SUBSET (0 .. HeapWords - 2)
        /\ W \cup E \in SUBSET (0 .. HeapWords - 2)
    BY <1>4
  <2>2. IsFiniteSet(W) /\ IsFiniteSet(E) /\ IsFiniteSet(W \cup E)
        /\ Cardinality(W \cup E) <= Cardinality(0 .. HeapWords - 2)
    BY <1>6, <2>1, FS_Subset
  <2>3. Cardinality(0 .. HeapWords - 2) \in Nat /\ Cardinality(W \cup E) \in Nat
    BY <1>6, <2>2, FS_CardinalityType
  <2> QED BY <1>2, <1>6, <2>2, <2>3
<1>8. Cardinality(E) = n
  <2> DEFINE a == src[2]
             b == src[2] + n - 1
  <2>1. a \in Int /\ b \in Int /\ ~(a > b) /\ b - a + 1 = n
    BY <1>1, <1>2
  <2>2. E = a .. b
    BY DEF Extent
  <2> HIDE DEF E, n, a, b
  <2>3. Cardinality(a .. b) = IF a > b THEN 0 ELSE b - a + 1
    BY <2>1, FS_Interval
  <2> QED BY <2>1, <2>2, <2>3
<1>9. Cardinality(W \cup E) = free_p + n
  <2>1. Cardinality(W \cup E) = Cardinality(W) + Cardinality(E) - Cardinality(W \cap E)
    BY <1>7, FS_Union
  <2>2. Cardinality(W \cap E) = 0
    BY <1>5, FS_EmptySet
  <2>3. Cardinality(W) = free_p
    BY DEF WordsConserved
  <2> QED BY <1>2, <1>8, <2>1, <2>2, <2>3
<1> QED BY <1>2, <1>7, <1>9 DEF Fits

\* What gc_new_copy and the forwarding address change, when the copy of src is
\* stored in slot s of obj (obj is NULL when it is stored in a root) and the
\* pending calls become those for the copy and the old ones in rest.
CopyEffect(src, obj, s, rest) ==
  /\ DOMAIN mem' = DOMAIN mem \cup {FreshAddress}
  /\ mem'[FreshAddress] = CopyOf(src)
  /\ \A p \in DOMAIN mem :
       /\ mem'[p] \in Objects(mem[p].kind)
       /\ mem'[p].kind = mem[p].kind /\ mem'[p].id = mem[p].id
       /\ mem'[p].forw = IF p = src THEN FreshAddress ELSE mem[p].forw
       /\ mem'[p].slots = IF p = obj THEN [mem[p].slots EXCEPT ![s] = FreshAddress]
                                    ELSE mem[p].slots
  /\ free_p' = free_p + Size(mem[src].kind)
  /\ gc_working' = gc_working
  /\ Tasks' = {[obj |-> FreshAddress, slot |-> i, src |-> mem[src].slots[i]] :
                 i \in 1 .. Slots[mem[src].kind]} \cup rest

\* Copying one object preserves everything the invariant says of the memory.
LEMMA CopyPreserves ==
  ASSUME IInv, Collecting, Collecting',
         NEW src \in InSpace(gc_free), mem[src].forw = NULL,
         NEW obj, NEW s, NEW rest,
         obj # NULL => /\ obj \in InSpace(gc_working)
                       /\ s \in DOMAIN mem[obj].slots
                       /\ [obj |-> obj, slot |-> s, src |-> src] \in Tasks,
         rest \subseteq Tasks,
         \A t \in Tasks : t \in rest \/ (obj # NULL /\ t = [obj |-> obj, slot |-> s, src |-> src]),
         CopyEffect(src, obj, s, rest)
  PROVE  /\ DOMAIN mem' \subseteq Addresses
         /\ \A p \in DOMAIN mem' : mem'[p].kind \in Kinds /\ mem'[p] \in Objects(mem'[p].kind)
         /\ free_p' \in 0 .. HeapWords - 1
         /\ \A r \in Refs(gc_working) : r \in Refs(gc_working)'
         /\ FreshAddress \in Refs(gc_working)'
         /\ Refs(gc_free)' = Refs(gc_free)
         /\ Layout' /\ SlotsSplit' /\ WordsConserved' /\ CopiesMirrorOriginals'
<1> DEFINE F == FreshAddress
           k == mem[src].kind
           head == [obj |-> obj, slot |-> s, src |-> src]
           New1(i) == [obj |-> F, slot |-> i, src |-> mem[src].slots[i]]
<1>1. TypeOK /\ Layout /\ SlotsSplit /\ WordsConserved /\ CopiesMirrorOriginals
  BY DEF IInv
<1>2. F \notin DOMAIN mem /\ F \in Addresses /\ F # NULL /\ F[1] = gc_working /\ F[2] = free_p
  BY <1>1, FreshIsFree, NullAssumption DEF FreshAddress
<1>3. /\ gc_free # gc_working /\ gc_free' = gc_free /\ gc_working' = gc_working
      /\ NULL \notin DOMAIN mem
      /\ src \in DOMAIN mem /\ src[1] = gc_free /\ k \in Kinds /\ src # obj
  <2>1. gc_free # gc_working /\ NULL \notin DOMAIN mem
    BY <1>1, SpacesDiffer
  <2>2. gc_working' = gc_working /\ gc_free' = gc_free
    BY DEF CopyEffect, gc_free
  <2>3. src \in DOMAIN mem /\ src[1] = gc_free
    BY DEF InSpace
  <2>4. src # obj
    BY <2>1, <2>3 DEF InSpace
  <2> QED BY <1>1, <2>1, <2>2, <2>3, <2>4 DEF TypeOK
<1>4. /\ Size(k) \in Nat /\ Size(k) >= 1 /\ free_p \in Nat /\ HeapWords \in Nat
      /\ Slots[k] \in Nat /\ free_p' = free_p + Size(k) /\ free_p' < HeapWords
      /\ Cardinality(CopiedWords \cup Extent(src)) = free_p'
  <2>1. Size(k) \in Nat /\ Size(k) >= 1 /\ Slots[k] \in Nat
    BY <1>3, SizeType
  <2>2. free_p \in Nat /\ HeapWords \in Nat
    BY <1>1, HeapAssumption DEF TypeOK
  <2>3. free_p' = free_p + Size(k)
    BY DEF CopyEffect
  <2>4. Fits(Size(k)) /\ Cardinality(CopiedWords \cup Extent(src)) = free_p + Size(k)
    BY <1>1, RoomForCopy
  <2> QED BY <2>1, <2>2, <2>3, <2>4 DEF Fits
<1>5. /\ mem[src] \in Objects(k) /\ mem[src].slots \in [1 .. Slots[k] -> Addresses \cup {NULL}]
      /\ DOMAIN mem[src].slots = 1 .. Slots[k]
  BY <1>1, <1>3 DEF TypeOK, Objects
<1>6. /\ mem'[F].kind = k /\ mem'[F].forw = NULL /\ mem'[F] \in Objects(k)
      /\ DOMAIN mem'[F].slots = 1 .. Slots[k]
  <2>1. NoReferences(k) \in [1 .. Slots[k] -> Addresses \cup {NULL}]
    BY DEF NoReferences
  <2>2. mem'[F] = Object(k, mem[src].id, IF k \in Keeps THEN mem[src].slots ELSE NoReferences(k))
    BY DEF CopyEffect, CopyOf
  <2>3. mem[src].id \in Ids
    BY <1>5 DEF Objects
  <2> QED BY <1>5, <2>1, <2>2, <2>3 DEF Object, Objects
<1>7. DOMAIN mem' = DOMAIN mem \cup {F}
  BY DEF CopyEffect
<1>8. \A p \in DOMAIN mem :
        /\ mem'[p] \in Objects(mem[p].kind) /\ mem'[p].kind = mem[p].kind
        /\ mem'[p].forw = IF p = src THEN F ELSE mem[p].forw
        /\ p # obj => mem'[p].slots = mem[p].slots
        /\ p = obj => mem'[p].slots = [mem[p].slots EXCEPT ![s] = F]
        /\ DOMAIN mem'[p].slots = DOMAIN mem[p].slots
  BY DEF CopyEffect
<1>9. Tasks' = {New1(i) : i \in 1 .. Slots[k]} \cup rest
  BY DEF CopyEffect
<1> HIDE DEF F, k
<1>10. /\ InSpace(gc_free)' = InSpace(gc_free)
       /\ InSpace(gc_working)' = InSpace(gc_working) \cup {F}
       /\ InSpace(gc_free) \subseteq DOMAIN mem /\ InSpace(gc_working) \subseteq DOMAIN mem
       /\ InSpace(gc_free) \cap InSpace(gc_working) = {}
  BY <1>2, <1>3, <1>7 DEF InSpace
<1>11. /\ Refs(gc_free)' = Refs(gc_free)
       /\ Refs(gc_working)' = Refs(gc_working) \cup {F}
       /\ NULL \in Refs(gc_free) /\ NULL \in Refs(gc_working)
  BY <1>3, <1>10 DEF Refs
<1>12. \A p \in InSpace(gc_free) : p # obj /\ p # F /\ mem'[p].slots = mem[p].slots
  BY <1>2, <1>3, <1>8, <1>10
<1>13. DOMAIN mem' \subseteq Addresses
  BY <1>1, <1>2, <1>7 DEF TypeOK
<1>14. \A p \in DOMAIN mem' : mem'[p].kind \in Kinds /\ mem'[p] \in Objects(mem'[p].kind)
  BY <1>1, <1>3, <1>6, <1>7, <1>8 DEF TypeOK
<1>15. Layout'
  <2>1. \A p \in DOMAIN mem : /\ mem'[p].kind = mem[p].kind
                            /\ p[2] \in Nat /\ Size(mem[p].kind) \in Nat
    <3>1. \A p \in DOMAIN mem : p[2] \in Nat /\ mem[p].kind \in Kinds
      BY <1>1 DEF TypeOK, Addresses
    <3> QED BY <1>8, <3>1, SizeType
  <2>2. F[2] + Size(mem'[F].kind) = free_p'
    BY <1>2, <1>4, <1>6
  <2>3. \A p \in DOMAIN mem' : p[2] + Size(mem'[p].kind) < HeapWords
    BY <1>1, <1>4, <1>7, <2>1, <2>2 DEF Layout
  <2>4. \A p \in DOMAIN mem : p[1] = gc_working => p[2] + Size(mem[p].kind) <= free_p
    BY <1>1 DEF Layout, InSpace
  <2>5. \A p \in DOMAIN mem' : p[1] = gc_working => p[2] + Size(mem'[p].kind) <= free_p'
    BY <1>4, <1>7, <2>1, <2>2, <2>4
  <2>6. \A p, q \in DOMAIN mem' : p[1] = q[1] /\ p # q =>
          \/ p[2] + Size(mem'[p].kind) <= q[2]
          \/ q[2] + Size(mem'[q].kind) <= p[2]
    BY <1>1, <1>2, <1>7, <2>1, <2>4 DEF Layout
  <2>7. \A p \in InSpace(gc_working)' : p[2] + Size(mem'[p].kind) <= free_p'
    BY <1>3, <2>5 DEF InSpace
  <2> QED BY <2>3, <2>6, <2>7 DEF Layout
<1>16. WordsConserved'
  <2>1. \A p \in InSpace(gc_free) : Extent(p)' = Extent(p)
    BY <1>8, <1>10 DEF Extent
  <2>2. {x \in InSpace(gc_free)' : mem'[x].forw # NULL}
          = {x \in InSpace(gc_free) : mem[x].forw # NULL} \cup {src}
    BY <1>2, <1>8, <1>10
  <2>3. CopiedWords' = UNION {Extent(p)' : p \in {x \in InSpace(gc_free)' : mem'[x].forw # NULL}}
    BY <1>3 DEF CopiedWords
  <2>4. CopiedWords' = CopiedWords \cup Extent(src)
    BY <2>1, <2>2, <2>3 DEF CopiedWords
  <2> QED BY <1>4, <2>4 DEF WordsConserved
<1>17. SlotsSplit'
  <2>1. \A p \in InSpace(gc_free) :
          /\ mem'[p].forw \in Refs(gc_working)'
          /\ \A i \in DOMAIN mem'[p].slots : mem'[p].slots[i] \in Refs(gc_free)
    BY <1>1, <1>8, <1>10, <1>11, <1>12 DEF SlotsSplit
  <2>2. ASSUME NEW q \in InSpace(gc_working)', NEW i \in DOMAIN mem'[q].slots
        PROVE  \/ mem'[q].slots[i] \in Refs(gc_working)'
               \/ \E t \in Tasks' : t.obj = q /\ t.slot = i
    <3>1. CASE q = F
      <4>1. i \in 1 .. Slots[k]
        BY <1>6, <2>2, <3>1
      <4>2. New1(i) \in Tasks' /\ New1(i).obj = q /\ New1(i).slot = i
        BY <1>9, <3>1, <4>1
      <4> QED BY <4>2
    <3>2. CASE q # F
      <4>1. q \in InSpace(gc_working) /\ q \in DOMAIN mem /\ i \in DOMAIN mem[q].slots
        BY <1>8, <1>10, <2>2, <3>2
      <4>2. CASE q = obj /\ i = s
        BY <1>8, <1>11, <4>1, <4>2
      <4>3. CASE ~(q = obj /\ i = s)
        <5>1. mem'[q].slots[i] = mem[q].slots[i]
          BY <1>8, <4>1, <4>3
        <5>2. CASE mem[q].slots[i] \in Refs(gc_working)
          BY <1>11, <5>1, <5>2
        <5>3. CASE \E t \in Tasks : t.obj = q /\ t.slot = i
          BY <1>9, <4>3, <5>3
        <5> QED BY <1>1, <4>1, <5>2, <5>3 DEF SlotsSplit
      <4> QED BY <4>2, <4>3
    <3> QED BY <3>1, <3>2
  <2>3. \A q \in InSpace(gc_working)' : mem'[q].forw = NULL
    BY <1>1, <1>3, <1>6, <1>8, <1>10 DEF SlotsSplit, InSpace
  <2>4. ASSUME NEW t \in Tasks'
        PROVE  /\ t.obj \in InSpace(gc_working)'
               /\ t.slot \in DOMAIN mem'[t.obj].slots
               /\ t.src \in Refs(gc_free)
               /\ \E p \in InSpace(gc_free) :
                    mem'[p].forw = t.obj /\ mem'[p].slots[t.slot] = t.src
    <3>1. CASE t \in rest
      <4>1. t \in Tasks
        BY <3>1
      <4>2. /\ t.obj \in InSpace(gc_working) /\ t.slot \in DOMAIN mem[t.obj].slots
            /\ t.src \in Refs(gc_free)
        BY <1>1, <4>1 DEF SlotsSplit
      <4>3. PICK p \in InSpace(gc_free) : mem[p].forw = t.obj /\ mem[p].slots[t.slot] = t.src
        BY <1>1, <4>1 DEF SlotsSplit
      <4>4. p # src
        BY <1>3, <1>10, <4>2, <4>3
      <4>5. mem'[p].forw = t.obj /\ mem'[p].slots[t.slot] = t.src
        BY <1>8, <1>10, <1>12, <4>3, <4>4
      <4> QED BY <1>8, <1>10, <4>2, <4>5
    <3>2. CASE \E i \in 1 .. Slots[k] : t = New1(i)
      <4>1. PICK i \in 1 .. Slots[k] : t = New1(i)
        BY <3>2
      <4>2. t.obj = F /\ t.slot = i /\ t.src = mem[src].slots[i]
        BY <4>1
      <4>3. mem[src].slots[i] \in Refs(gc_free)
        BY <1>1, <1>5 DEF SlotsSplit
      <4>4. mem'[src].forw = F /\ mem'[src].slots[i] = mem[src].slots[i]
        BY <1>3, <1>8, <1>12
      <4> QED BY <1>6, <1>10, <4>2, <4>3, <4>4
    <3> QED BY <1>9, <3>1, <3>2
  <2> QED BY <1>10, <1>11, <2>1, <2>2, <2>3, <2>4 DEF SlotsSplit
<1>18. CopiesMirrorOriginals'
  <2>1. \A p \in InSpace(gc_free) : p # src => mem'[p].forw = mem[p].forw /\ mem[p].forw # F
    <3> SUFFICES ASSUME NEW p \in InSpace(gc_free), p # src
                 PROVE  mem'[p].forw = mem[p].forw /\ mem[p].forw # F
      OBVIOUS
    <3>1. mem'[p].forw = mem[p].forw
      BY <1>8, <1>10
    <3>2. mem[p].forw \in DOMAIN mem \cup {NULL}
      BY <1>1, <1>10 DEF SlotsSplit, Refs
    <3> QED BY <1>2, <3>1, <3>2
  <2>2. mem'[src].forw = F
    BY <1>3, <1>8
  <2>3. \A p1, p2 \in InSpace(gc_free) :
          p1 # p2 /\ mem'[p1].forw # NULL => mem'[p1].forw # mem'[p2].forw
    BY <1>1, <2>1, <2>2 DEF CopiesMirrorOriginals
  <2>4. ASSUME NEW p \in InSpace(gc_free), mem'[p].forw # NULL, NEW i \in DOMAIN mem'[p].slots
        PROVE  \/ [obj |-> mem'[p].forw, slot |-> i, src |-> mem'[p].slots[i]] \in Tasks'
               \/ /\ mem'[p].slots[i] = NULL \/ mem'[mem'[p].slots[i]].forw # NULL
                  /\ mem'[mem'[p].forw].slots[i] =
                       IF mem'[p].slots[i] = NULL THEN NULL ELSE mem'[mem'[p].slots[i]].forw
    <3>1. mem'[p].slots = mem[p].slots /\ i \in DOMAIN mem[p].slots /\ p \in DOMAIN mem
      BY <1>10, <1>12, <2>4
    <3>2. CASE p = src
      <4>1. i \in 1 .. Slots[k]
        BY <1>5, <3>1, <3>2
      <4>2. New1(i) \in Tasks'
        BY <1>9, <4>1
      <4> QED BY <2>2, <3>1, <3>2, <4>2
    <3>3. CASE p # src
      <4> DEFINE q == mem[p].forw
                 x == mem[p].slots[i]
      <4>1. mem'[p].forw = q /\ q # NULL /\ q # F /\ q \in DOMAIN mem
        BY <1>1, <1>10, <2>1, <2>4, <3>3 DEF CopiesMirrorOriginals
      <4>2. CASE Pending(q, i, x)
        <5>1. CASE [obj |-> q, slot |-> i, src |-> x] \in rest
          BY <1>9, <3>1, <4>1, <5>1
        <5>2. CASE [obj |-> q, slot |-> i, src |-> x] = head
          <6>1. q = obj /\ i = s /\ x = src
            BY <5>2
          <6>2. mem'[q].slots = [mem[q].slots EXCEPT ![s] = F] /\ i \in DOMAIN mem[q].slots
            BY <1>8, <4>1, <6>1
          <6>3. mem'[q].slots[i] = F
            BY <6>1, <6>2
          <6>4. mem'[x].forw = F /\ x # NULL
            BY <1>3, <2>2, <6>1
          <6> QED BY <1>2, <3>1, <4>1, <6>3, <6>4
        <5> QED BY <4>2, <5>1, <5>2 DEF Pending
      <4>3. CASE ~NeedsCopy(x) /\ mem[q].slots[i] = Settled(x)
        <5>1. x # src /\ x \in Refs(gc_free)
          BY <1>1, <1>3, <3>1, <4>3 DEF NeedsCopy, SlotsSplit
        <5>2. x # NULL => mem'[x].forw = mem[x].forw /\ mem[x].forw # NULL
          BY <1>8, <1>10, <4>3, <5>1 DEF NeedsCopy, Refs
        <5>3. ~(q = obj /\ i = s)
          <6>1. ASSUME q = obj, i = s PROVE FALSE
            <7>1. head \in Tasks
              BY <4>1, <6>1
            <7>2. PICK p2 \in InSpace(gc_free) :
                    mem[p2].forw = head.obj /\ mem[p2].slots[head.slot] = head.src
              BY <1>1, <7>1 DEF SlotsSplit
            <7>3. p2 = p
              BY <1>1, <4>1, <6>1, <7>2 DEF CopiesMirrorOriginals
            <7> QED BY <5>1, <6>1, <7>2, <7>3
          <6> QED BY <6>1
        <5>4. mem'[q].slots[i] = mem[q].slots[i]
          <6>1. mem[q].kind = mem[p].kind
            BY <1>1, <4>1 DEF CopiesMirrorOriginals
          <6>2. i \in DOMAIN mem[q].slots
            BY <1>1, <3>1, <4>1, <6>1 DEF TypeOK, Objects
          <6>3. CASE q # obj
            BY <1>8, <4>1, <6>3
          <6>4. CASE q = obj
            BY <1>8, <4>1, <5>3, <6>2, <6>4
          <6> QED BY <6>3, <6>4
        <5> QED BY <3>1, <4>1, <4>3, <5>2, <5>4 DEF Settled
      <4>4. Pending(q, i, x) \/ (~NeedsCopy(x) /\ mem[q].slots[i] = Settled(x))
        BY <1>1, <3>1, <4>1 DEF CopiesMirrorOriginals
      <4> QED BY <4>2, <4>3, <4>4
    <3> QED BY <3>2, <3>3
  <2>5. \A p \in InSpace(gc_free) : mem'[p].forw # NULL =>
          mem'[p].forw \in InSpace(gc_working)' /\ mem'[mem'[p].forw].kind = mem'[p].kind
    <3>1. mem'[F].kind = mem'[src].kind /\ F \in InSpace(gc_working)'
      BY <1>3, <1>6, <1>8, <1>10 DEF k
    <3>2. \A p \in InSpace(gc_free) : mem[p].forw # NULL =>
            mem[p].forw \in InSpace(gc_working) /\ mem[mem[p].forw].kind = mem[p].kind
      BY <1>1 DEF CopiesMirrorOriginals
    <3> SUFFICES ASSUME NEW p \in InSpace(gc_free), mem'[p].forw # NULL
                 PROVE  mem'[p].forw \in InSpace(gc_working)'
                        /\ mem'[mem'[p].forw].kind = mem'[p].kind
      OBVIOUS
    <3>3. CASE p = src
      BY <2>2, <3>1, <3>3
    <3>4. CASE p # src
      <4>1. mem'[p].forw = mem[p].forw /\ mem[p].forw # NULL
        BY <2>1, <3>4
      <4>2. mem[p].forw \in InSpace(gc_working) /\ mem[mem[p].forw].kind = mem[p].kind
        BY <3>2, <4>1
      <4> QED BY <1>8, <1>10, <4>1, <4>2
    <3> QED BY <3>3, <3>4
  <2> QED BY <1>10, <2>3, <2>4, <2>5 DEF CopiesMirrorOriginals, Pending, NeedsCopy, Settled
<1>19. free_p' \in 0 .. HeapWords - 1
  BY <1>4
<1>20. FreshAddress \in Refs(gc_working)'
  BY <1>11 DEF F
<1> QED BY <1>11, <1>13, <1>14, <1>15, <1>16, <1>17, <1>18, <1>19, <1>20

-----------------------------------------------------------------------------
(* Sequences of pending calls *)

Elements(q) == {q[n] : n \in DOMAIN q}

LEMMA HeadAndTail ==
  ASSUME NEW S, NEW q \in Seq(S), q # <<>>
  PROVE  /\ Head(q) \in S /\ Tail(q) \in Seq(S)
         /\ Elements(q) = {Head(q)} \cup Elements(Tail(q))
<1>1. Len(q) \in Nat /\ Len(q) >= 1 /\ DOMAIN q = 1 .. Len(q) /\ Head(q) = q[1]
  OBVIOUS
<1>2. /\ Tail(q) \in Seq(S) /\ DOMAIN Tail(q) = 1 .. Len(q) - 1
      /\ \A n \in 1 .. Len(q) - 1 : Tail(q)[n] = q[n + 1]
  BY <1>1
<1>3. Elements(q) \subseteq {Head(q)} \cup Elements(Tail(q))
  <2> SUFFICES ASSUME NEW n \in 1 .. Len(q)
               PROVE  q[n] \in {Head(q)} \cup Elements(Tail(q))
    BY <1>1 DEF Elements
  <2>1. CASE n = 1
    BY <1>1, <2>1
  <2>2. CASE n # 1
    <3>1. n - 1 \in 1 .. Len(q) - 1 /\ Tail(q)[n - 1] = q[n]
      BY <1>1, <1>2, <2>2
    <3> QED BY <1>2, <3>1 DEF Elements
  <2> QED BY <2>1, <2>2
<1>4. {Head(q)} \cup Elements(Tail(q)) \subseteq Elements(q)
  <2>1. Head(q) \in Elements(q)
    BY <1>1 DEF Elements
  <2>2. ASSUME NEW n \in 1 .. Len(q) - 1 PROVE Tail(q)[n] \in Elements(q)
    <3>1. n + 1 \in DOMAIN q /\ Tail(q)[n] = q[n + 1]
      BY <1>1, <1>2
    <3> QED BY <3>1 DEF Elements
  <2> QED BY <1>2, <2>1, <2>2 DEF Elements
<1>5. Head(q) \in S
  BY <1>1
<1> QED BY <1>2, <1>3, <1>4, <1>5

LEMMA Concatenation ==
  ASSUME NEW S, NEW a \in Seq(S), NEW b \in Seq(S)
  PROVE  a \o b \in Seq(S) /\ Elements(a \o b) = Elements(a) \cup Elements(b)
<1>1. /\ a \o b \in Seq(S) /\ Len(a \o b) = Len(a) + Len(b)
      /\ Len(a) \in Nat /\ Len(b) \in Nat
      /\ DOMAIN a = 1 .. Len(a) /\ DOMAIN b = 1 .. Len(b)
      /\ DOMAIN (a \o b) = 1 .. Len(a) + Len(b)
  OBVIOUS
<1>2. \A n \in 1 .. Len(a) : (a \o b)[n] = a[n]
  OBVIOUS
<1>3. \A n \in 1 .. Len(b) : (a \o b)[Len(a) + n] = b[n]
  OBVIOUS
<1>4. Elements(a \o b) \subseteq Elements(a) \cup Elements(b)
  <2> SUFFICES ASSUME NEW n \in 1 .. Len(a) + Len(b)
               PROVE  (a \o b)[n] \in Elements(a) \cup Elements(b)
    BY <1>1 DEF Elements
  <2>1. CASE n \in 1 .. Len(a)
    BY <1>1, <1>2, <2>1 DEF Elements
  <2>2. CASE n \notin 1 .. Len(a)
    <3>1. n - Len(a) \in 1 .. Len(b) /\ n = Len(a) + (n - Len(a))
      BY <1>1, <2>2
    <3>2. (a \o b)[n] = b[n - Len(a)]
      BY <1>3, <3>1
    <3> QED BY <1>1, <3>1, <3>2 DEF Elements
  <2> QED BY <2>1, <2>2
<1>5. Elements(a) \cup Elements(b) \subseteq Elements(a \o b)
  <2>1. ASSUME NEW n \in 1 .. Len(a) PROVE a[n] \in Elements(a \o b)
    BY <1>1, <1>2 DEF Elements
  <2>2. ASSUME NEW n \in 1 .. Len(b) PROVE b[n] \in Elements(a \o b)
    <3>1. Len(a) + n \in 1 .. Len(a) + Len(b)
      BY <1>1
    <3> QED BY <1>1, <1>3, <3>1 DEF Elements
  <2> QED BY <1>1, <2>1, <2>2 DEF Elements
<1> QED BY <1>1, <1>4, <1>5

LEMMA FieldTasksType ==
  ASSUME TypeOK, Layout, NEW src \in DOMAIN mem
  PROVE  /\ FieldTasks(src) \in Seq([obj : Addresses, slot : Nat, src : Addresses \cup {NULL}])
         /\ Elements(FieldTasks(src)) =
              {[obj |-> FreshAddress, slot |-> i, src |-> mem[src].slots[i]] :
                 i \in 1 .. Slots[mem[src].kind]}
<1>1. Slots[mem[src].kind] \in Nat
  BY SizeType DEF TypeOK
<1>2. mem[src].slots \in [1 .. Slots[mem[src].kind] -> Addresses \cup {NULL}]
  BY DEF TypeOK, Objects
<1>3. FreshAddress \in Addresses
  BY FreshIsFree
<1>4. \A i \in 1 .. Slots[mem[src].kind] :
        [obj |-> FreshAddress, slot |-> i, src |-> mem[src].slots[i]]
          \in [obj : Addresses, slot : Nat, src : Addresses \cup {NULL}]
  BY <1>1, <1>2, <1>3
<1> DEFINE S == [obj : Addresses, slot : Nat, src : Addresses \cup {NULL}]
           n == Slots[mem[src].kind]
           e(i) == [obj |-> FreshAddress, slot |-> i, src |-> mem[src].slots[i]]
<1>5. FieldTasks(src) = [i \in 1 .. n |-> e(i)] /\ n \in Nat /\ \A i \in 1 .. n : e(i) \in S
  BY <1>1, <1>4 DEF FieldTasks
<1> HIDE DEF S, n, e
<1>6. FieldTasks(src) \in Seq(S)
  BY <1>5
<1>7. Elements(FieldTasks(src)) = {e(i) : i \in 1 .. n}
  BY <1>5 DEF Elements
<1> QED BY <1>6, <1>7 DEF S, n, e

-----------------------------------------------------------------------------
(* The steps of a collection *)

\* A root whose object has no copy yet is given one.
LEMMA CollectRootEffect ==
  ASSUME IInv, NEW r \in Roots, NEW next,
         \/ r = "special" /\ next = "lexical"
         \/ r = "lexical" /\ next = "finish",
         CollectRoot(r, next), NeedsCopy(handle[r])
  PROVE  CopyEffect(handle[r], NULL, 1, {})
<1> DEFINE old == handle[r]
           F == FreshAddress
<1>1. /\ TypeOK /\ Layout /\ RootsSplit /\ Collecting /\ pc = r /\ gc_working' = gc_working
  BY DEF IInv, CollectRoot, Roots, Collecting
<1>2. /\ free_p' = free_p + Size(mem[old].kind)
      /\ mem' = CopiedMem(old) /\ todo' = FieldTasks(old)
  BY DEF CollectRoot
<1>3. NULL \notin DOMAIN mem /\ old \in DOMAIN mem
  BY <1>1, SpacesDiffer DEF RootsSplit, Roots, NeedsCopy, Refs, InSpace
<1>4. F \notin DOMAIN mem /\ F \in Addresses
  BY <1>1, FreshIsFree
<1>5. Tasks' = {[obj |-> F, slot |-> i, src |-> mem[old].slots[i]] :
                  i \in 1 .. Slots[mem[old].kind]}
  BY <1>1, <1>2, <1>3, FieldTasksType DEF Tasks, Elements
<1> HIDE DEF F, old
<1>6. /\ DOMAIN mem' = DOMAIN mem \cup {F} /\ mem'[F] = CopyOf(old)
      /\ mem'[old] = [mem[old] EXCEPT !.forw = F]
      /\ \A p \in DOMAIN mem : p # old => mem'[p] = mem[p]
  BY <1>2, <1>3, <1>4 DEF CopiedMem, Placed, F
<1>7. \A p \in DOMAIN mem : mem[p] \in Objects(mem[p].kind)
  BY <1>1 DEF TypeOK
<1>8. /\ mem'[old].kind = mem[old].kind /\ mem'[old].id = mem[old].id
      /\ mem'[old].forw = F /\ mem'[old].slots = mem[old].slots
      /\ mem'[old] \in Objects(mem[old].kind)
  BY <1>3, <1>4, <1>6, <1>7 DEF Objects
<1>9. \A p \in DOMAIN mem :
        /\ mem'[p] \in Objects(mem[p].kind)
        /\ mem'[p].kind = mem[p].kind /\ mem'[p].id = mem[p].id
        /\ mem'[p].forw = IF p = old THEN F ELSE mem[p].forw
        /\ mem'[p].slots = mem[p].slots
  BY <1>6, <1>7, <1>8
<1> QED BY <1>1, <1>2, <1>3, <1>5, <1>6, <1>9 DEF CopyEffect, F, old

LEMMA CollectRootStep ==
  ASSUME IInv, NEW r \in Roots, NEW next,
         \/ r = "special" /\ next = "lexical"
         \/ r = "lexical" /\ next = "finish",
         CollectRoot(r, next)
  PROVE  IInv'
<1> DEFINE old == handle[r]
<1>1. TypeOK /\ Layout /\ RootsSplit /\ SlotsSplit /\ WordsConserved /\ CopiesMirrorOriginals
  BY DEF IInv
<1>2. /\ pc = r /\ pc' = next /\ todo = <<>> /\ gc_working' = gc_working
      /\ Collecting /\ Collecting' /\ gc_free' = gc_free /\ r \in Handles /\ Tasks = {}
      /\ pc' \in {"lexical", "finish"}
  BY DEF CollectRoot, Roots, Handles, Collecting, gc_free, Tasks
<1>3. old \in Refs(gc_free) /\ NULL \notin DOMAIN mem
  BY <1>1, <1>2, SpacesDiffer DEF RootsSplit, Roots
\* Whatever r is given, the roots stay split when r now refers to a copy.
<1>4. ASSUME NEW v, handle' = [handle EXCEPT ![r] = v], v \in Refs(gc_working)',
             \A x \in Refs(gc_working) : x \in Refs(gc_working)',
             Refs(gc_free)' = Refs(gc_free)
      PROVE  RootsSplit'
  <2>1. \A t \in Temps : handle'[t] = NULL
    BY <1>1, <1>2, <1>4, NameAssumption DEF RootsSplit, Roots, TypeOK, Handles
  <2>2. handle'[r] = v /\ \A h \in Roots : h # r => handle'[h] = handle[h]
    BY <1>1, <1>2, <1>4 DEF TypeOK, Handles
  <2>3. CASE r = "special"
    BY <1>1, <1>2, <1>4, <2>1, <2>2, <2>3 DEF RootsSplit, Roots
  <2>4. CASE r = "lexical"
    BY <1>1, <1>2, <1>4, <2>1, <2>2, <2>4 DEF RootsSplit, Roots
  <2> QED BY <2>3, <2>4 DEF Roots
<1>5. CASE ~NeedsCopy(old)
  <2>1. handle' = [handle EXCEPT ![r] = Settled(old)] /\ UNCHANGED <<free_p, mem, todo>>
    BY <1>5 DEF CollectRoot
  <2>2. /\ InSpace(gc_working)' = InSpace(gc_working) /\ InSpace(gc_free)' = InSpace(gc_free)
        /\ Refs(gc_working)' = Refs(gc_working) /\ Refs(gc_free)' = Refs(gc_free)
        /\ Tasks' = Tasks
    BY <1>2, <2>1 DEF InSpace, Refs, Tasks
  <2>3. Settled(old) \in Refs(gc_working)
    BY <1>1, <1>2, <1>3 DEF Settled, Refs, SlotsSplit
  <2>4. Settled(old) \in Addresses \cup {NULL}
    BY <1>1, <2>3 DEF Refs, InSpace, TypeOK
  <2>5. TypeOK'
    BY <1>1, <1>2, <2>1, <2>4 DEF TypeOK
  <2>6. RootsSplit'
    BY <1>4, <2>1, <2>2, <2>3
  <2>7. Layout'
    BY <1>1, <1>2, <2>1, <2>2 DEF Layout
  <2>8. SlotsSplit'
    BY <1>1, <1>2, <2>1, <2>2 DEF SlotsSplit
  <2>9. WordsConserved'
    BY <1>1, <1>2, <2>1, <2>2 DEF WordsConserved, CopiedWords, Extent
  <2>10. CopiesMirrorOriginals'
    BY <1>1, <1>2, <2>1, <2>2 DEF CopiesMirrorOriginals, Pending, NeedsCopy, Settled
  <2> QED BY <1>2, <2>5, <2>6, <2>7, <2>8, <2>9, <2>10 DEF IInv, Quiescent, NoDangling
<1>6. CASE NeedsCopy(old)
  <2>1. /\ handle' = [handle EXCEPT ![r] = FreshAddress]
        /\ free_p' = free_p + Size(mem[old].kind)
        /\ mem' = CopiedMem(old)
        /\ todo' = FieldTasks(old)
    BY <1>6 DEF CollectRoot
  <2>2. old \in InSpace(gc_free) /\ mem[old].forw = NULL /\ old \in DOMAIN mem
    BY <1>3, <1>6 DEF NeedsCopy, Refs, InSpace
  <2>3. FreshAddress \notin DOMAIN mem /\ FreshAddress \in Addresses
    BY <1>1, FreshIsFree
  <2>4. /\ todo' \in Seq([obj : Addresses, slot : Nat, src : Addresses \cup {NULL}])
        /\ Tasks' = {[obj |-> FreshAddress, slot |-> i, src |-> mem[old].slots[i]] :
                       i \in 1 .. Slots[mem[old].kind]}
    BY <1>1, <2>1, <2>2, FieldTasksType DEF Tasks, Elements
  <2>5. CopyEffect(old, NULL, 1, {})
    BY <1>6, CollectRootEffect
  <2>6. /\ DOMAIN mem' \subseteq Addresses
        /\ \A p \in DOMAIN mem' : mem'[p].kind \in Kinds /\ mem'[p] \in Objects(mem'[p].kind)
        /\ free_p' \in 0 .. HeapWords - 1
        /\ \A x \in Refs(gc_working) : x \in Refs(gc_working)'
        /\ FreshAddress \in Refs(gc_working)'
        /\ Refs(gc_free)' = Refs(gc_free)
        /\ Layout' /\ SlotsSplit' /\ WordsConserved' /\ CopiesMirrorOriginals'
    <3>1. \A t \in Tasks : t \in {} \/ (NULL # NULL /\ t = [obj |-> NULL, slot |-> 1, src |-> old])
      BY <1>2
    <3> HIDE DEF old
    <3> QED BY <1>2, <2>2, <2>5, <3>1, CopyPreserves
  <2>7. TypeOK'
    <3>1. handle' \in [Handles -> Addresses \cup {NULL}]
      BY <1>1, <2>1, <2>3 DEF TypeOK
    <3>2. gc_working' \in Spaces
      BY <1>1, <1>2 DEF TypeOK
    <3> QED BY <1>2, <2>4, <2>6, <3>1, <3>2 DEF TypeOK
  <2>8. RootsSplit'
    BY <1>4, <2>1, <2>6
  <2> QED BY <1>2, <2>6, <2>7, <2>8 DEF IInv, Quiescent, NoDangling
<1> QED BY <1>5, <1>6

\* A pending call whose object is copied already, or that has none, fills its slot.
LEMMA SettleSlotEffect ==
  ASSUME IInv, todo # <<>>, NEW t, t = Head(todo), SettleSlot(t)
  PROVE  /\ Collecting /\ Collecting' /\ gc_free' = gc_free
         /\ UNCHANGED <<gc_working, free_p, handle, pc>>
         /\ t \in Tasks
         /\ Tasks = {t} \cup Elements(Tail(todo)) /\ Tasks' = Elements(Tail(todo))
         /\ todo' \in Seq([obj : Addresses, slot : Nat, src : Addresses \cup {NULL}])
         /\ t \in [obj : Addresses, slot : Nat, src : Addresses \cup {NULL}]
         /\ t.obj \in InSpace(gc_working) /\ t.obj \in DOMAIN mem
         /\ t.slot \in DOMAIN mem[t.obj].slots
         /\ Settled(t.src) \in Refs(gc_working) /\ Settled(t.src) \in Addresses \cup {NULL}
         /\ DOMAIN mem' = DOMAIN mem
         /\ \A p \in DOMAIN mem : p # t.obj => mem'[p] = mem[p]
         /\ mem'[t.obj].kind = mem[t.obj].kind /\ mem'[t.obj].id = mem[t.obj].id
         /\ mem'[t.obj].forw = mem[t.obj].forw
         /\ mem'[t.obj].slots = [mem[t.obj].slots EXCEPT ![t.slot] = Settled(t.src)]
         /\ mem'[t.obj] \in Objects(mem[t.obj].kind)
<1> DEFINE a == t.obj
           v == Settled(t.src)
           rest == Elements(Tail(todo))
<1>1. /\ TypeOK /\ Layout /\ RootsSplit /\ SlotsSplit /\ WordsConserved
      /\ CopiesMirrorOriginals /\ Collecting /\ Collecting' /\ gc_free' = gc_free
      /\ ~NeedsCopy(t.src) /\ todo' = Tail(todo)
      /\ UNCHANGED <<gc_working, free_p, handle, pc>>
  BY DEF IInv, Quiescent, Collecting, gc_free, SettleSlot
<1>2. /\ t \in Tasks /\ Tasks = {t} \cup rest /\ Tasks' = rest
      /\ todo' \in Seq([obj : Addresses, slot : Nat, src : Addresses \cup {NULL}])
      /\ t \in [obj : Addresses, slot : Nat, src : Addresses \cup {NULL}]
  <2> DEFINE TaskSet == [obj : Addresses, slot : Nat, src : Addresses \cup {NULL}]
  <2>1. todo \in Seq(TaskSet)
    BY <1>1 DEF TypeOK
  <2>2. Tasks = Elements(todo) /\ Tasks' = Elements(todo')
    BY DEF Tasks, Elements
  <2> HIDE DEF TaskSet
  <2>3. /\ Head(todo) \in TaskSet /\ Tail(todo) \in Seq(TaskSet)
        /\ Elements(todo) = {Head(todo)} \cup Elements(Tail(todo))
    BY <2>1, HeadAndTail
  <2> QED BY <1>1, <2>2, <2>3 DEF TaskSet
<1>3. /\ a \in InSpace(gc_working) /\ a \in DOMAIN mem /\ t.slot \in DOMAIN mem[a].slots
      /\ t.src \in Refs(gc_free) /\ gc_free # gc_working /\ NULL \notin DOMAIN mem
  BY <1>1, <1>2, SpacesDiffer DEF SlotsSplit, InSpace
<1>4. v \in Refs(gc_working) /\ v \in Addresses \cup {NULL}
  <2>1. v \in Refs(gc_working)
    BY <1>1, <1>3 DEF Settled, SlotsSplit, Refs, NeedsCopy
  <2> QED BY <1>1, <2>1 DEF Refs, InSpace, TypeOK
<1>5. /\ DOMAIN mem' = DOMAIN mem
      /\ \A p \in DOMAIN mem : p # a => mem'[p] = mem[p]
      /\ mem'[a].kind = mem[a].kind /\ mem'[a].id = mem[a].id /\ mem'[a].forw = mem[a].forw
      /\ mem'[a].slots = [mem[a].slots EXCEPT ![t.slot] = v]
      /\ mem'[a] \in Objects(mem[a].kind)
  <2> DEFINE new == [mem[a].slots EXCEPT ![t.slot] = v]
  <2>0. mem[a] \in Objects(mem[a].kind)
    BY <1>1, <1>3 DEF TypeOK
  <2>1. mem[a].slots \in [1 .. Slots[mem[a].kind] -> Addresses \cup {NULL}]
    BY <2>0 DEF Objects
  <2>2. new \in [1 .. Slots[mem[a].kind] -> Addresses \cup {NULL}]
    BY <1>3, <1>4, <2>1
  <2>3. /\ DOMAIN mem' = DOMAIN mem
        /\ \A p \in DOMAIN mem : p # a => mem'[p] = mem[p]
        /\ mem'[a] = [mem[a] EXCEPT !.slots = new]
    BY <1>3 DEF SettleSlot
  <2> HIDE DEF new, a, v
  <2>4. /\ mem'[a].kind = mem[a].kind /\ mem'[a].id = mem[a].id /\ mem'[a].forw = mem[a].forw
        /\ mem'[a].slots = new /\ mem'[a] \in Objects(mem[a].kind)
    BY <2>0, <2>2, <2>3 DEF Objects
  <2> QED BY <2>3, <2>4 DEF new
<1> QED BY <1>1, <1>2, <1>3, <1>4, <1>5 DEF a, v, rest

LEMMA SettleSlotStep ==
  ASSUME IInv, todo # <<>>, NEW t, t = Head(todo), SettleSlot(t)
  PROVE  IInv'
<1> DEFINE a == t.obj
           v == Settled(t.src)
           rest == Elements(Tail(todo))
<1>1. /\ TypeOK /\ Layout /\ RootsSplit /\ SlotsSplit /\ WordsConserved
      /\ CopiesMirrorOriginals /\ Collecting /\ Collecting' /\ gc_free' = gc_free
      /\ ~NeedsCopy(t.src) /\ todo' = Tail(todo)
      /\ UNCHANGED <<gc_working, free_p, handle, pc>>
  BY DEF IInv, Quiescent, Collecting, gc_free, SettleSlot
<1>2. /\ t \in Tasks /\ Tasks = {t} \cup rest /\ Tasks' = rest
      /\ todo' \in Seq([obj : Addresses, slot : Nat, src : Addresses \cup {NULL}])
      /\ t \in [obj : Addresses, slot : Nat, src : Addresses \cup {NULL}]
  BY SettleSlotEffect
<1>3. /\ a \in InSpace(gc_working) /\ a \in DOMAIN mem /\ t.slot \in DOMAIN mem[a].slots
      /\ t.src \in Refs(gc_free) /\ gc_free # gc_working /\ NULL \notin DOMAIN mem
  BY <1>1, <1>2, SpacesDiffer DEF SlotsSplit, InSpace
<1>4. v \in Refs(gc_working) /\ v \in Addresses \cup {NULL}
  BY SettleSlotEffect
<1>5. /\ DOMAIN mem' = DOMAIN mem
      /\ \A p \in DOMAIN mem : p # a => mem'[p] = mem[p]
      /\ mem'[a].kind = mem[a].kind /\ mem'[a].forw = mem[a].forw
      /\ mem'[a].slots = [mem[a].slots EXCEPT ![t.slot] = v]
      /\ mem'[a] \in Objects(mem[a].kind)
  BY SettleSlotEffect
<1> HIDE DEF a, v, rest
<1>6. \A p \in DOMAIN mem : mem'[p].kind = mem[p].kind /\ mem'[p].forw = mem[p].forw
  BY <1>5
<1>7. \A p \in DOMAIN mem : DOMAIN mem'[p].slots = DOMAIN mem[p].slots
  BY <1>5
<1>8. /\ InSpace(gc_working)' = InSpace(gc_working) /\ InSpace(gc_free)' = InSpace(gc_free)
      /\ Refs(gc_working)' = Refs(gc_working) /\ Refs(gc_free)' = Refs(gc_free)
      /\ InSpace(gc_free) \subseteq DOMAIN mem /\ InSpace(gc_working) \subseteq DOMAIN mem
  BY <1>1, <1>5 DEF InSpace, Refs
<1>9. \A p \in InSpace(gc_free) : p # a /\ mem'[p] = mem[p]
  BY <1>3, <1>5 DEF InSpace
<1>10. TypeOK'
  BY <1>1, <1>2, <1>5, <1>6 DEF TypeOK
<1>11. Layout'
  BY <1>1, <1>5, <1>6, <1>8 DEF Layout
<1>12. RootsSplit'
  <2>1. pc # "special"
    BY <1>1 DEF RootsSplit
  <2> QED BY <1>1, <1>8, <2>1 DEF RootsSplit
<1>13. SlotsSplit'
  <2>1. \A p \in InSpace(gc_free) :
          /\ mem'[p].forw \in Refs(gc_working)
          /\ \A i \in DOMAIN mem'[p].slots : mem'[p].slots[i] \in Refs(gc_free)
    BY <1>1, <1>9 DEF SlotsSplit
  <2>2. ASSUME NEW q \in InSpace(gc_working), NEW i \in DOMAIN mem'[q].slots
        PROVE  mem'[q].slots[i] \in Refs(gc_working) \/ \E x \in rest : x.obj = q /\ x.slot = i
    <3>1. q \in DOMAIN mem /\ i \in DOMAIN mem[q].slots
      BY <1>7, <1>8
    <3>2. CASE q = a /\ i = t.slot
      BY <1>3, <1>4, <1>5, <3>2
    <3>3. CASE ~(q = a /\ i = t.slot)
      <4>1. mem'[q].slots[i] = mem[q].slots[i]
        <5>1. CASE q = a
          BY <1>5, <3>1, <3>3, <5>1
        <5>2. CASE q # a
          BY <1>5, <3>1, <5>2
        <5> QED BY <5>1, <5>2
      <4>2. mem[q].slots[i] \in Refs(gc_working) \/ \E x \in Tasks : x.obj = q /\ x.slot = i
        BY <1>1, <3>1 DEF SlotsSplit
      <4> QED BY <1>2, <3>3, <4>1, <4>2 DEF a
    <3> QED BY <3>2, <3>3
  <2>3. \A q \in InSpace(gc_working) : mem'[q].forw = NULL
    BY <1>1, <1>6, <1>8 DEF SlotsSplit
  <2>4. \A x \in rest :
          /\ x.obj \in InSpace(gc_working) /\ x.slot \in DOMAIN mem'[x.obj].slots
          /\ x.src \in Refs(gc_free)
          /\ \E p \in InSpace(gc_free) : mem'[p].forw = x.obj /\ mem'[p].slots[x.slot] = x.src
    <3> SUFFICES ASSUME NEW x \in rest
                 PROVE  /\ x.obj \in InSpace(gc_working) /\ x.slot \in DOMAIN mem'[x.obj].slots
                        /\ x.src \in Refs(gc_free)
                        /\ \E p \in InSpace(gc_free) :
                             mem'[p].forw = x.obj /\ mem'[p].slots[x.slot] = x.src
      OBVIOUS
    <3>1. /\ x.obj \in InSpace(gc_working) /\ x.slot \in DOMAIN mem[x.obj].slots
          /\ x.src \in Refs(gc_free)
      BY <1>1, <1>2 DEF SlotsSplit
    <3>2. PICK p \in InSpace(gc_free) : mem[p].forw = x.obj /\ mem[p].slots[x.slot] = x.src
      BY <1>1, <1>2 DEF SlotsSplit
    <3>3. mem'[p].forw = x.obj /\ mem'[p].slots[x.slot] = x.src
      BY <1>9, <3>2
    <3> QED BY <1>7, <1>8, <3>1, <3>3
  <2> QED BY <1>1, <1>2, <1>8, <2>1, <2>2, <2>3, <2>4 DEF SlotsSplit
<1>14. WordsConserved'
  <2>1. CopiedWords' = CopiedWords
    BY <1>1, <1>8, <1>9 DEF CopiedWords, Extent
  <2> QED BY <1>1, <2>1 DEF WordsConserved
<1>15. CopiesMirrorOriginals'
  <2>1. \A p1, p2 \in InSpace(gc_free) :
          p1 # p2 /\ mem'[p1].forw # NULL => mem'[p1].forw # mem'[p2].forw
    BY <1>1, <1>9 DEF CopiesMirrorOriginals
  <2>2. \A p \in InSpace(gc_free) : mem'[p].forw # NULL =>
          mem'[p].forw \in InSpace(gc_working) /\ mem'[mem'[p].forw].kind = mem'[p].kind
    BY <1>1, <1>6, <1>8, <1>9 DEF CopiesMirrorOriginals
  <2>3. ASSUME NEW p \in InSpace(gc_free), mem'[p].forw # NULL, NEW i \in DOMAIN mem'[p].slots
        PROVE  \/ [obj |-> mem'[p].forw, slot |-> i, src |-> mem'[p].slots[i]] \in rest
               \/ /\ mem'[p].slots[i] = NULL \/ mem'[mem'[p].slots[i]].forw # NULL
                  /\ mem'[mem'[p].forw].slots[i] =
                       IF mem'[p].slots[i] = NULL THEN NULL ELSE mem'[mem'[p].slots[i]].forw
    <3> DEFINE q == mem[p].forw
               x == mem[p].slots[i]
    <3>1. mem'[p] = mem[p] /\ p \in DOMAIN mem /\ q # NULL /\ i \in DOMAIN mem[p].slots
      BY <1>8, <1>9, <2>3
    <3>2. q \in InSpace(gc_working) /\ q \in DOMAIN mem /\ mem[q].kind = mem[p].kind
          /\ x \in Refs(gc_free)
      BY <1>1, <1>8, <3>1 DEF CopiesMirrorOriginals, SlotsSplit
    <3>3. i \in DOMAIN mem[q].slots
      BY <1>1, <3>1, <3>2 DEF TypeOK, Objects
    <3>4. x # NULL => mem'[x].forw = mem[x].forw
      BY <1>9, <3>2 DEF Refs
    <3>5. CASE q = a /\ i = t.slot
      <4>1. PICK p2 \in InSpace(gc_free) : mem[p2].forw = t.obj /\ mem[p2].slots[t.slot] = t.src
        BY <1>1, <1>2 DEF SlotsSplit
      <4>2. p2 = p
        BY <1>1, <3>1, <3>5, <4>1 DEF CopiesMirrorOriginals, a
      <4>3. x = t.src
        BY <3>5, <4>1, <4>2
      <4>4. mem'[q].slots[i] = v
        BY <1>5, <3>3, <3>5
      <4> QED BY <1>1, <3>1, <3>4, <4>3, <4>4 DEF v, Settled, NeedsCopy
    <3>6. CASE ~(q = a /\ i = t.slot)
      <4>1. mem'[q].slots[i] = mem[q].slots[i]
        <5>1. CASE q = a
          BY <1>5, <3>2, <3>3, <3>6, <5>1
        <5>2. CASE q # a
          BY <1>5, <3>2, <5>2
        <5> QED BY <5>1, <5>2
      <4>2. \/ [obj |-> q, slot |-> i, src |-> x] \in Tasks
            \/ ~NeedsCopy(x) /\ mem[q].slots[i] = Settled(x)
        BY <1>1, <3>1 DEF CopiesMirrorOriginals, Pending
      <4>3. CASE [obj |-> q, slot |-> i, src |-> x] \in Tasks
        <5>1. [obj |-> q, slot |-> i, src |-> x] # t
          BY <3>6 DEF a
        <5> QED BY <1>2, <3>1, <4>3, <5>1
      <4>4. CASE ~NeedsCopy(x) /\ mem[q].slots[i] = Settled(x)
        BY <3>1, <3>4, <4>1, <4>4 DEF NeedsCopy, Settled
      <4> QED BY <4>2, <4>3, <4>4
    <3> QED BY <3>5, <3>6
  <2>4. /\ InSpace(gc_free)' = InSpace(gc_free) /\ InSpace(gc_working)' = InSpace(gc_working)
        /\ Tasks' = rest
    BY <1>2, <1>8
  <2> HIDE DEF rest
  <2> QED BY <2>1, <2>2, <2>3, <2>4 DEF CopiesMirrorOriginals, Pending, NeedsCopy, Settled
<1> QED BY <1>1, <1>10, <1>11, <1>12, <1>13, <1>14, <1>15 DEF IInv, Quiescent, NoDangling

\* A pending call whose object has no copy yet makes one.
LEMMA CopySlotEffect ==
  ASSUME IInv, todo # <<>>, NEW t, t = Head(todo), CopySlot(t)
  PROVE  /\ Collecting /\ Collecting' /\ gc_free' = gc_free
         /\ t \in Tasks /\ Tasks = {t} \cup Elements(Tail(todo))
         /\ t = [obj |-> t.obj, slot |-> t.slot, src |-> t.src]
         /\ todo' \in Seq([obj : Addresses, slot : Nat, src : Addresses \cup {NULL}])
         /\ t.obj \in InSpace(gc_working) /\ t.slot \in DOMAIN mem[t.obj].slots
         /\ t.src \in InSpace(gc_free) /\ mem[t.src].forw = NULL
         /\ CopyEffect(t.src, t.obj, t.slot, Elements(Tail(todo)))
<1> DEFINE a == t.obj
           old == t.src
           F == FreshAddress
           rest == Elements(Tail(todo))
           TaskSet == [obj : Addresses, slot : Nat, src : Addresses \cup {NULL}]
<1>1. /\ TypeOK /\ Layout /\ RootsSplit /\ SlotsSplit
      /\ Collecting /\ Collecting' /\ gc_free' = gc_free
      /\ NeedsCopy(old) /\ UNCHANGED <<gc_working, handle, pc>>
      /\ free_p' = free_p + Size(mem[old].kind)
  BY DEF IInv, Quiescent, Collecting, gc_free, CopySlot
<1>2. /\ t \in Tasks /\ Tasks = {t} \cup rest /\ Tail(todo) \in Seq(TaskSet) /\ t \in TaskSet
  <2>1. todo \in Seq(TaskSet)
    BY <1>1 DEF TypeOK
  <2>2. Tasks = Elements(todo)
    BY DEF Tasks, Elements
  <2> HIDE DEF TaskSet
  <2>3. /\ Head(todo) \in TaskSet /\ Tail(todo) \in Seq(TaskSet)
        /\ Elements(todo) = {Head(todo)} \cup Elements(Tail(todo))
    BY <2>1, HeadAndTail
  <2> QED BY <2>2, <2>3
<1>3. t = [obj |-> a, slot |-> t.slot, src |-> old]
  BY <1>2
<1>4. /\ a \in InSpace(gc_working) /\ a \in DOMAIN mem /\ t.slot \in DOMAIN mem[a].slots
      /\ gc_free # gc_working /\ NULL \notin DOMAIN mem
      /\ old \in InSpace(gc_free) /\ old \in DOMAIN mem /\ mem[old].forw = NULL /\ a # old
  <2>1. /\ a \in InSpace(gc_working) /\ t.slot \in DOMAIN mem[a].slots /\ old \in Refs(gc_free)
        /\ gc_free # gc_working /\ NULL \notin DOMAIN mem
    BY <1>1, <1>2, SpacesDiffer DEF SlotsSplit
  <2>2. old \in InSpace(gc_free) /\ mem[old].forw = NULL
    BY <1>1, <2>1 DEF NeedsCopy, Refs
  <2> QED BY <2>1, <2>2 DEF InSpace
<1>5. F \notin DOMAIN mem /\ F \in Addresses /\ F # a /\ F # old
  BY <1>1, <1>4, FreshIsFree
<1>6. /\ todo' \in Seq(TaskSet)
      /\ Tasks' = {[obj |-> F, slot |-> i, src |-> mem[old].slots[i]] :
                     i \in 1 .. Slots[mem[old].kind]} \cup rest
  <2>1. /\ FieldTasks(old) \in Seq(TaskSet)
        /\ Elements(FieldTasks(old)) =
             {[obj |-> F, slot |-> i, src |-> mem[old].slots[i]] :
                     i \in 1 .. Slots[mem[old].kind]}
    BY <1>1, <1>4, FieldTasksType
  <2>2. Tasks' = Elements(todo')
    BY DEF Tasks, Elements
  <2> HIDE DEF TaskSet, F, old
  <2>3. todo' = FieldTasks(old) \o Tail(todo)
    BY DEF old, CopySlot
  <2>4. /\ FieldTasks(old) \o Tail(todo) \in Seq(TaskSet)
        /\ Elements(FieldTasks(old) \o Tail(todo)) = Elements(FieldTasks(old)) \cup rest
    <3> DEFINE A == FieldTasks(old)
               B == Tail(todo)
    <3>1. A \in Seq(TaskSet) /\ B \in Seq(TaskSet)
      BY <1>2, <2>1
    <3>2. rest = Elements(B)
      OBVIOUS
    <3> HIDE DEF A, B, rest
    <3>3. A \o B \in Seq(TaskSet) /\ Elements(A \o B) = Elements(A) \cup Elements(B)
      BY <3>1, Concatenation
    <3> QED BY <3>2, <3>3 DEF A, B
  <2> HIDE DEF rest
  <2> QED BY <2>1, <2>2, <2>3, <2>4
<1>7. CopyEffect(old, a, t.slot, rest)
  <2> DEFINE m == CopiedMem(old)
             new == [mem[a].slots EXCEPT ![t.slot] = F]
  <2>1. /\ DOMAIN m = DOMAIN mem \cup {F} /\ m[F] = CopyOf(old)
        /\ m[old] = [mem[old] EXCEPT !.forw = F]
        /\ \A p \in DOMAIN mem : p # old => m[p] = mem[p]
    BY <1>4, <1>5 DEF CopiedMem, Placed
  <2>2. mem' = [m EXCEPT ![a].slots[t.slot] = F]
    BY DEF CopySlot
  <2> HIDE DEF m, F, a, old
  <2>3. /\ DOMAIN mem' = DOMAIN mem \cup {F} /\ mem'[F] = CopyOf(old)
        /\ mem'[old] = [mem[old] EXCEPT !.forw = F]
        /\ mem'[a] = [mem[a] EXCEPT !.slots = new]
        /\ \A p \in DOMAIN mem : p # old /\ p # a => mem'[p] = mem[p]
    BY <1>4, <1>5, <2>1, <2>2
  <2>4. \A p \in DOMAIN mem : mem[p] \in Objects(mem[p].kind)
    BY <1>1 DEF TypeOK
  <2>5. /\ mem'[old].kind = mem[old].kind /\ mem'[old].id = mem[old].id
        /\ mem'[old].forw = F
        /\ mem'[old].slots = mem[old].slots /\ mem'[old] \in Objects(mem[old].kind)
    <3>1. mem[old] \in Objects(mem[old].kind) /\ mem'[old] = [mem[old] EXCEPT !.forw = F]
      BY <1>4, <2>3, <2>4
    <3>2. F \in Addresses
      BY <1>5 DEF F
    <3> QED BY <3>1, <3>2 DEF Objects
  <2>6. new \in [1 .. Slots[mem[a].kind] -> Addresses \cup {NULL}]
    <3>1. mem[a].slots \in [1 .. Slots[mem[a].kind] -> Addresses \cup {NULL}]
      BY <1>4, <2>4 DEF Objects
    <3> QED BY <1>4, <1>5, <3>1
  <2> HIDE DEF new
  <2>7. /\ mem'[a].kind = mem[a].kind /\ mem'[a].id = mem[a].id
        /\ mem'[a].forw = mem[a].forw
        /\ mem'[a].slots = new /\ mem'[a] \in Objects(mem[a].kind)
    <3>1. mem[a] \in Objects(mem[a].kind) /\ mem'[a] = [mem[a] EXCEPT !.slots = new]
      BY <1>4, <2>3, <2>4
    <3> QED BY <2>6, <3>1 DEF Objects
  <2>8. \A p \in DOMAIN mem :
          /\ mem'[p] \in Objects(mem[p].kind)
          /\ mem'[p].kind = mem[p].kind /\ mem'[p].id = mem[p].id
          /\ mem'[p].forw = IF p = old THEN F ELSE mem[p].forw
          /\ mem'[p].slots = IF p = a THEN new ELSE mem[p].slots
    <3> SUFFICES ASSUME NEW p \in DOMAIN mem
                 PROVE  /\ mem'[p] \in Objects(mem[p].kind)
                        /\ mem'[p].kind = mem[p].kind /\ mem'[p].id = mem[p].id
                        /\ mem'[p].forw = IF p = old THEN F ELSE mem[p].forw
                        /\ mem'[p].slots = IF p = a THEN new ELSE mem[p].slots
      OBVIOUS
    <3>0. a # old
      BY <1>4 DEF a, old
    <3>1. CASE p = old
      BY <2>5, <3>0, <3>1
    <3>2. CASE p = a
      BY <2>7, <3>0, <3>2
    <3>3. CASE p # old /\ p # a
      <4>1. mem'[p] = mem[p] /\ mem[p] \in Objects(mem[p].kind)
        BY <2>3, <2>4, <3>3
      <4> HIDE DEF new
      <4> QED BY <3>3, <4>1
    <3> QED BY <3>1, <3>2, <3>3
  <2> QED BY <1>1, <1>6, <2>3, <2>8 DEF CopyEffect, F, a, old, new
<1> QED BY <1>1, <1>2, <1>3, <1>4, <1>6, <1>7 DEF a, old, rest, TaskSet

LEMMA CopySlotStep ==
  ASSUME IInv, todo # <<>>, NEW t, t = Head(todo), CopySlot(t)
  PROVE  IInv'
<1> DEFINE a == t.obj
           old == t.src
           rest == Elements(Tail(todo))
<1>1. /\ TypeOK /\ Layout /\ RootsSplit /\ SlotsSplit
      /\ Collecting /\ Collecting' /\ gc_free' = gc_free
      /\ UNCHANGED <<gc_working, handle, pc>>
  BY DEF IInv, Quiescent, Collecting, gc_free, CopySlot
<1>2. t \in Tasks /\ Tasks = {t} \cup rest
  BY CopySlotEffect
<1>3. t = [obj |-> a, slot |-> t.slot, src |-> old]
  BY CopySlotEffect
<1>4. /\ a \in InSpace(gc_working) /\ t.slot \in DOMAIN mem[a].slots
      /\ NULL \notin DOMAIN mem /\ a # NULL
      /\ old \in InSpace(gc_free) /\ mem[old].forw = NULL
  BY <1>1, CopySlotEffect, SpacesDiffer DEF InSpace
<1>6. todo' \in Seq([obj : Addresses, slot : Nat, src : Addresses \cup {NULL}])
  BY CopySlotEffect
<1>7. CopyEffect(old, a, t.slot, rest)
  BY CopySlotEffect
<1>8. /\ DOMAIN mem' \subseteq Addresses
      /\ \A p \in DOMAIN mem' : mem'[p].kind \in Kinds /\ mem'[p] \in Objects(mem'[p].kind)
      /\ free_p' \in 0 .. HeapWords - 1
      /\ \A x \in Refs(gc_working) : x \in Refs(gc_working)'
      /\ Refs(gc_free)' = Refs(gc_free)
      /\ Layout' /\ SlotsSplit' /\ WordsConserved' /\ CopiesMirrorOriginals'
  <2> HIDE DEF a, old, rest
  <2>1. a # NULL /\ rest \subseteq Tasks
        /\ \A x \in Tasks : x \in rest \/ (a # NULL /\ x = [obj |-> a, slot |-> t.slot, src |-> old])
    BY <1>2, <1>3, <1>4
  <2>2. [obj |-> a, slot |-> t.slot, src |-> old] \in Tasks
    BY <1>2, <1>3
  <2> QED BY <1>1, <1>4, <1>7, <2>1, <2>2, CopyPreserves
<1>9. TypeOK'
  BY <1>1, <1>6, <1>8 DEF TypeOK
<1>10. RootsSplit'
  <2>1. pc # "special"
    BY <1>1 DEF RootsSplit
  <2> QED BY <1>1, <1>8, <2>1 DEF RootsSplit
<1> QED BY <1>1, <1>8, <1>9, <1>10 DEF IInv, Quiescent, NoDangling

-----------------------------------------------------------------------------
(* The theorems *)

LEMMA CollectorStep ==
  ASSUME IInv, Collector
  PROVE  IInv'
<1>1. CASE CollectRoot("special", "lexical")
  BY <1>1, CollectRootStep DEF Roots
<1>2. CASE CollectRoot("lexical", "finish")
  BY <1>2, CollectRootStep DEF Roots
<1>3. CASE RelocateSlot
  BY <1>3, SettleSlotStep, CopySlotStep DEF RelocateSlot
<1>4. CASE FinishCollection
  BY <1>4, FinishStep
<1> QED BY <1>1, <1>2, <1>3, <1>4 DEF Collector

\* Stuttering changes nothing the invariant speaks of.
LEMMA StutterStep ==
  ASSUME IInv, UNCHANGED vars
  PROVE  IInv'
<1> USE DEF vars
<1>1. TypeOK' /\ Layout' /\ Quiescent'
  BY DEF IInv, TypeOK, Layout, Quiescent, InSpace, gc_free, Collecting
<1>2. RootsSplit' /\ NoDangling'
  BY DEF IInv, RootsSplit, NoDangling, Refs, InSpace, gc_free, Collecting
<1>3. SlotsSplit'
  BY DEF IInv, SlotsSplit, Refs, InSpace, gc_free, Collecting, Tasks
<1>4. WordsConserved'
  BY DEF IInv, WordsConserved, CopiedWords, Extent, InSpace, gc_free, Collecting
<1>5. CopiesMirrorOriginals'
  BY DEF IInv, CopiesMirrorOriginals, InSpace, gc_free, Collecting, Pending, Tasks,
         NeedsCopy, Settled
<1> QED BY <1>1, <1>2, <1>3, <1>4, <1>5 DEF IInv

\* The inductive invariant of the heap holds in every reachable state, for every
\* heap size, every assignment of sizes and slots to the kinds of objects.
THEOREM Invariance == Spec => []IInv
<1>1. Init => IInv
  BY InitInvariant
<1>2. IInv /\ [Next]_vars => IInv'
  BY MutatorStep, StartStep, CollectorStep, StutterStep DEF Next
<1> QED BY <1>1, <1>2, PTL DEF Spec

\* Every slot, root and forwarding field holds an address of the heap or NULL.
THEOREM TypeCorrectness == Spec => []TypeOK
<1>1. IInv => TypeOK
  BY DEF IInv
<1> QED BY <1>1, Invariance, PTL

\* No evaluation ever starts with, or comes by, a reference into the space that
\* the last collection left behind.
THEOREM NothingDangles == Spec => []NoDangling
<1>1. IInv => NoDangling
  BY DEF IInv
<1> QED BY <1>1, Invariance, PTL

\* gc_malloc never fails during a collection, so gc_relocate may ignore its result.
THEOREM CopiesAlwaysFit == Spec => []CopyFits
<1>1. IInv => CopyFits
  BY RoomForCopy DEF IInv, CopyFits
<1> QED BY <1>1, Invariance, PTL

\* Collection preserves sharing and cycles: the copies are the image of the
\* originals under the forwarding addresses.
THEOREM CopiesAreIsomorphic == Spec => []CopiesMirrorOriginals
<1>1. IInv => CopiesMirrorOriginals
  BY DEF IInv
<1> QED BY <1>1, Invariance, PTL

-----------------------------------------------------------------------------
(* The refinement of ObjectGraph *)

\* What the program reaches, by its view.
Reached == Abstract!ReachedFrom(Abstract!Holdings(AbsHandle), AbsGraph)

-----------------------------------------------------------------------------
(* Reachability *)

\* What a reference of the base refers to is reached.
LEMMA BaseReached ==
  ASSUME NEW base, NEW g, NEW o \in DOMAIN g, o \in base, o # NULL
  PROVE  o \in Abstract!ReachedFrom(base, g)
BY DEF Abstract!ReachedFrom, Abstract!Closed

\* What a slot of a node that is reached refers to is reached.
LEMMA TargetReached ==
  ASSUME NEW base, NEW g, NEW o \in Abstract!ReachedFrom(base, g),
         NEW i \in DOMAIN g[o].slots, g[o].slots[i] \in DOMAIN g, g[o].slots[i] # NULL
  PROVE  g[o].slots[i] \in Abstract!ReachedFrom(base, g)
<1> SUFFICES ASSUME NEW S \in SUBSET DOMAIN g, Abstract!Closed(S, base, g)
             PROVE  g[o].slots[i] \in S
  BY DEF Abstract!ReachedFrom
<1>1. o \in S
  BY DEF Abstract!ReachedFrom
<1>2. g[o].slots[i] \in Abstract!Targets(o, g)
  BY DEF Abstract!Targets
<1> QED
  BY <1>1, <1>2 DEF Abstract!Closed

\* A closed set has all that is reached.
LEMMA ReachedInClosed ==
  ASSUME NEW base, NEW g, NEW S \in SUBSET DOMAIN g, Abstract!Closed(S, base, g)
  PROVE  Abstract!ReachedFrom(base, g) \subseteq S
BY DEF Abstract!ReachedFrom

-----------------------------------------------------------------------------
(* Objects as the program sees them *)

Distinct(m, A) == \A p, q \in A : m[p].id = m[q].id => p = q

\* The graph has the image of every object under its identity.
LEMMA GraphHas ==
  ASSUME NEW m, NEW A, Distinct(m, A)
  PROVE  /\ DOMAIN GraphOf(m, A) = {m[p].id : p \in A}
         /\ \A p \in A : GraphOf(m, A)[m[p].id] = ImageOf(m, p)
<1>1. DOMAIN GraphOf(m, A) = {m[p].id : p \in A}
  BY DEF GraphOf
<1>2. ASSUME NEW p \in A
      PROVE  GraphOf(m, A)[m[p].id] = ImageOf(m, p)
  <2> DEFINE q == CHOOSE x \in A : m[x].id = m[p].id
  <2>1. q \in A /\ m[q].id = m[p].id
    OBVIOUS
  <2>2. q = p
    BY <2>1 DEF Distinct
  <2>3. GraphOf(m, A)[m[p].id] = ImageOf(m, q)
    BY DEF GraphOf
  <2> QED
    BY <2>2, <2>3
<1> QED
  BY <1>1, <1>2

\* A function is the graph when it has the same objects with the same images.
LEMMA GraphIs ==
  ASSUME NEW m, NEW A, Distinct(m, A),
         NEW g, g = [x \in DOMAIN g |-> g[x]],
         DOMAIN g = {m[p].id : p \in A},
         \A p \in A : g[m[p].id] = ImageOf(m, p)
  PROVE  GraphOf(m, A) = g
<1> DEFINE D == {m[p].id : p \in A}
           f == GraphOf(m, A)
<1>1. DOMAIN f = D /\ \A p \in A : f[m[p].id] = ImageOf(m, p)
  BY GraphHas
<1>2. f = [x \in DOMAIN f |-> f[x]]
  BY DEF GraphOf
<1> HIDE DEF f
<1>3. ASSUME NEW x \in D
      PROVE  f[x] = g[x]
  <2>1. PICK p \in A : x = m[p].id
    OBVIOUS
  <2> QED
    BY <1>1, <2>1
<1>4. f = [x \in D |-> f[x]] /\ g = [x \in D |-> g[x]]
  BY <1>1, <1>2
<1> HIDE DEF D
<1>5. f = g
  BY <1>3, <1>4
<1> QED
  BY <1>5 DEF f

\* Objects that keep identity, kind and slots, and refer to each other only, make
\* the same graph.
LEMMA SameGraph ==
  ASSUME NEW m, NEW n, NEW A, Distinct(m, A),
         \A p \in A :
           /\ n[p].id = m[p].id /\ n[p].kind = m[p].kind /\ n[p].slots = m[p].slots
           /\ \A i \in DOMAIN m[p].slots : m[p].slots[i] \in A \cup {NULL}
  PROVE  GraphOf(n, A) = GraphOf(m, A)
<1> DEFINE g == GraphOf(m, A)
<1>1. Distinct(n, A)
  BY DEF Distinct
<1>2. /\ DOMAIN g = {m[p].id : p \in A}
      /\ \A p \in A : g[m[p].id] = ImageOf(m, p)
  BY GraphHas
<1>3. {m[p].id : p \in A} = {n[p].id : p \in A}
  OBVIOUS
<1>4. ASSUME NEW p \in A
      PROVE  ImageOf(n, p) = ImageOf(m, p)
  <2>1. \A i \in DOMAIN m[p].slots : IdOf(n, m[p].slots[i]) = IdOf(m, m[p].slots[i])
    BY DEF IdOf
  <2>2. [i \in DOMAIN n[p].slots |-> IdOf(n, n[p].slots[i])]
          = [i \in DOMAIN m[p].slots |-> IdOf(m, m[p].slots[i])]
    BY <2>1
  <2> QED
    BY <2>2 DEF ImageOf
<1>5. \A p \in A : g[n[p].id] = ImageOf(n, p)
  BY <1>2, <1>4
<1>6. g = [x \in DOMAIN g |-> g[x]]
  BY DEF GraphOf
<1> HIDE DEF g
<1>7. GraphOf(n, A) = g
  BY <1>1, <1>2, <1>3, <1>5, <1>6, GraphIs
<1> QED
  BY <1>7 DEF g

-----------------------------------------------------------------------------
(* What the program sees of a state *)

\* The objects the program sees refer to each other only.
LEMMA View ==
  ASSUME IInv, Identified
  PROVE  /\ Authority \subseteq DOMAIN mem /\ NULL \notin Authority
         /\ Distinct(mem, Authority)
         /\ \A p \in Authority :
              /\ mem[p].kind \in Kinds /\ mem[p].id \in Ids /\ mem[p].id # NULL
              /\ DOMAIN mem[p].slots = 1 .. Slots[mem[p].kind]
              /\ \A i \in DOMAIN mem[p].slots : mem[p].slots[i] \in Authority \cup {NULL}
         /\ DOMAIN AbsGraph = {mem[p].id : p \in Authority}
         /\ \A p \in Authority : AbsGraph[mem[p].id] = ImageOf(mem, p)
<1>1. TypeOK /\ NoDangling /\ SlotsSplit
  BY DEF IInv
<1>2. Authority \subseteq DOMAIN mem
  BY DEF Authority, InSpace
<1>3. NULL \notin DOMAIN mem
  BY <1>1, SpacesDiffer
<1>4. Distinct(mem, Authority)
  BY DEF Identified, Distinct, Authority, InSpace
<1>5. ASSUME NEW p \in DOMAIN mem
      PROVE  /\ mem[p].kind \in Kinds /\ mem[p].id \in Ids /\ mem[p].id # NULL
             /\ DOMAIN mem[p].slots = 1 .. Slots[mem[p].kind]
  <2>1. mem[p].kind \in Kinds /\ mem[p] \in Objects(mem[p].kind)
    BY <1>1 DEF TypeOK
  <2>2. mem[p].id \in Ids /\ DOMAIN mem[p].slots = 1 .. Slots[mem[p].kind]
    BY <2>1 DEF Objects
  <2> QED
    BY <2>1, <2>2, NullAssumption
<1>6. ASSUME NEW p \in Authority, NEW i \in DOMAIN mem[p].slots
      PROVE  mem[p].slots[i] \in Authority \cup {NULL}
  <2>1. CASE Collecting
    BY <1>1, <2>1 DEF Authority, SlotsSplit, Refs
  <2>2. CASE ~Collecting
    BY <1>1, <2>2 DEF Authority, NoDangling, Refs
  <2> QED
    BY <2>1, <2>2
<1>7. /\ DOMAIN AbsGraph = {mem[p].id : p \in Authority}
      /\ \A p \in Authority : AbsGraph[mem[p].id] = ImageOf(mem, p)
  BY <1>4, GraphHas DEF AbsGraph
<1> QED
  BY <1>2, <1>3, <1>4, <1>5, <1>6, <1>7

\* A handle holds an object the program sees, or nothing.
LEMMA HandleView ==
  ASSUME IInv, Identified, NEW h \in Handles
  PROVE  /\ AbsHandle[h] = IdOf(mem, handle[h])
         /\ handle[h] = NULL <=> AbsHandle[h] = NULL
         /\ AbsHandle[h] \in DOMAIN AbsGraph \cup {NULL}
         /\ ~Collecting => handle[h] \in Authority \cup {NULL}
<1>1. TypeOK /\ NoDangling /\ RootsSplit
  BY DEF IInv
<1>2. AbsHandle[h] = IdOf(mem, handle[h])
  BY DEF AbsHandle
<1>3. ~Collecting => handle[h] \in Authority \cup {NULL}
  BY <1>1 DEF NoDangling, Authority, Refs
<1>4. Collecting => handle[h] \in InSpace(gc_free) \cup InSpace(gc_working) \cup {NULL}
  BY <1>1 DEF RootsSplit, Refs, Handles, Roots
<1>5. handle[h] # NULL => IdOf(mem, handle[h]) \in {mem[p].id : p \in Authority}
  <2>1. Collecting /\ handle[h] \in InSpace(gc_working) =>
          \E p \in Authority : mem[p].id = mem[handle[h]].id
    <3> SUFFICES ASSUME Collecting, handle[h] \in InSpace(gc_working)
                 PROVE  \E p \in Authority : mem[p].id = mem[handle[h]].id
      OBVIOUS
    <3>1. PICK p \in InSpace(gc_free) : mem[p].forw = handle[h]
      BY DEF Identified
    <3>2. handle[h] # NULL
      BY <1>1, SpacesDiffer DEF InSpace
    <3>3. mem[mem[p].forw].id = mem[p].id
      BY <3>1, <3>2 DEF Identified
    <3> QED
      BY <3>1, <3>3 DEF Authority
  <2>2. handle[h] \in Authority => mem[handle[h]].id \in {mem[p].id : p \in Authority}
    OBVIOUS
  <2>3. Collecting => Authority = InSpace(gc_free)
    BY DEF Authority
  <2> QED
    BY <1>3, <1>4, <2>1, <2>2, <2>3 DEF IdOf
<1>6. \A p \in Authority : mem[p].id # NULL
  BY View
<1>7. DOMAIN AbsGraph = {mem[p].id : p \in Authority}
  BY View
<1> QED
  BY <1>2, <1>3, <1>5, <1>6, <1>7 DEF IdOf

-----------------------------------------------------------------------------
(* The mutator *)

\* Outside a collection only the identities matter.
LEMMA OutsideRInv ==
  ASSUME ~Collecting, \A p, q \in DOMAIN mem : p[1] = q[1] /\ mem[p].id = mem[q].id => p = q
  PROVE  Identified /\ RInv
BY DEF RInv, Identified, OnlyReachedCopied, Packed

\* A new object is new to the program too.
LEMMA NewRefines ==
  ASSUME IInv, RInv, NEW t \in Temps, NEW k \in Kinds, New(t, k)
  PROVE  RInv' /\ Abstract!New(t, k)
<1> DEFINE F == FreshAddress
<1>1. TypeOK /\ Layout /\ NoDangling /\ ~Collecting /\ ~Collecting' /\ Identified
      /\ pc = "mutator"
  BY DEF IInv, RInv, New, Collecting
<1>2. F \notin DOMAIN mem /\ F \in Addresses /\ F[1] = gc_working /\ F # NULL
  BY <1>1, FreshIsFree, NullAssumption DEF FreshAddress
<1>3. PICK id \in Ids \ {mem[p].id : p \in DOMAIN mem} :
        mem' = Placed(mem, F, Object(k, id, NoReferences(k)))
  BY DEF New, UnusedIds
<1> DEFINE o == Object(k, id, NoReferences(k))
<1>4. gc_working' = gc_working /\ handle' = [handle EXCEPT ![t] = F] /\ t \in Handles
  BY DEF New, Handles
<1>5. /\ o.kind = k /\ o.id = id /\ o.slots = NoReferences(k)
      /\ id # NULL
  BY NullAssumption DEF Object
<1> HIDE DEF F, o
<1>6. /\ DOMAIN mem' = DOMAIN mem \cup {F}
      /\ mem'[F] = o
      /\ \A p \in DOMAIN mem : mem'[p] = mem[p]
  BY <1>2, <1>3 DEF Placed, o
<1>7. RInv'
  <2>1. \A p, q \in DOMAIN mem' : p[1] = q[1] /\ mem'[p].id = mem'[q].id => p = q
    BY <1>1, <1>3, <1>5, <1>6 DEF Identified
  <2> QED
    BY <1>1, <2>1 DEF RInv, Identified, OnlyReachedCopied, Packed
<1> DEFINE A == Authority
<1>8. /\ Authority' = A \cup {F} /\ F \notin A
      /\ A \subseteq DOMAIN mem /\ A = InSpace(gc_working)
  BY <1>1, <1>2, <1>4, <1>6 DEF Authority, InSpace
<1>9. Distinct(mem', A \cup {F})
  BY <1>3, <1>5, <1>6, <1>8, View, <1>1 DEF Distinct
<1>10. id \notin DOMAIN AbsGraph
  BY <1>1, <1>3, View
<1>11. AbsGraph' = [x \in DOMAIN AbsGraph \cup {id} |->
                      IF x = id THEN [kind |-> k, slots |-> [i \in 1 .. Slots[k] |-> NULL]]
                      ELSE AbsGraph[x]]
  <2> DEFINE object == [kind |-> k, slots |-> [i \in 1 .. Slots[k] |-> NULL]]
             g == [x \in DOMAIN AbsGraph \cup {id} |->
                     IF x = id THEN object ELSE AbsGraph[x]]
  <2>1. DOMAIN g = {mem'[p].id : p \in A \cup {F}}
    <3>1. DOMAIN AbsGraph = {mem[p].id : p \in A}
      BY <1>1, View
    <3>2. \A p \in A : mem'[p].id = mem[p].id
      BY <1>6, <1>8
    <3>3. mem'[F].id = id
      BY <1>5, <1>6
    <3> QED
      BY <3>1, <3>2, <3>3
  <2>2. g[mem'[F].id] = ImageOf(mem', F)
    <3>1. ImageOf(mem', F) = [kind |-> k,
              slots |-> [i \in DOMAIN NoReferences(k) |-> IdOf(mem', NoReferences(k)[i])]]
      BY <1>5, <1>6 DEF ImageOf
    <3>2. [i \in DOMAIN NoReferences(k) |-> IdOf(mem', NoReferences(k)[i])]
            = [i \in 1 .. Slots[k] |-> NULL]
      BY DEF NoReferences, IdOf
    <3>3. mem'[F].id = id /\ g[id] = object
      BY <1>5, <1>6
    <3> QED
      BY <3>1, <3>2, <3>3
  <2>3. ASSUME NEW p \in A
        PROVE  g[mem'[p].id] = ImageOf(mem', p)
    <3>1. mem'[p] = mem[p] /\ mem[p].id # id
      BY <1>3, <1>6, <1>8
    <3>2. g[mem[p].id] = ImageOf(mem, p)
      <4>1. mem[p].id \in DOMAIN AbsGraph /\ AbsGraph[mem[p].id] = ImageOf(mem, p)
        BY <1>1, View
      <4> QED
        BY <3>1, <4>1
    <3>3. \A i \in DOMAIN mem[p].slots : IdOf(mem', mem[p].slots[i]) = IdOf(mem, mem[p].slots[i])
      <4>1. \A i \in DOMAIN mem[p].slots : mem[p].slots[i] \in A \cup {NULL}
        BY <1>1, View
      <4> QED
        BY <1>6, <1>8, <4>1 DEF IdOf
    <3>4. [i \in DOMAIN mem'[p].slots |-> IdOf(mem', mem'[p].slots[i])]
            = [i \in DOMAIN mem[p].slots |-> IdOf(mem, mem[p].slots[i])]
      BY <3>1, <3>3
    <3>5. ImageOf(mem', p) = ImageOf(mem, p)
      BY <3>1, <3>4 DEF ImageOf
    <3> QED
      BY <3>1, <3>2, <3>5
  <2>4. g = [x \in DOMAIN g |-> g[x]]
    OBVIOUS
  <2>5. \A p \in A \cup {F} : g[mem'[p].id] = ImageOf(mem', p)
    BY <2>2, <2>3
  <2>6. AbsGraph' = GraphOf(mem', A \cup {F})
    BY <1>8 DEF AbsGraph
  <2> HIDE DEF g, A
  <2>7. GraphOf(mem', A \cup {F}) = g
    BY <1>9, <2>1, <2>4, <2>5, GraphIs
  <2> QED
    BY <2>6, <2>7 DEF g
<1>12. AbsHandle' = [AbsHandle EXCEPT ![t] = id]
  <2>1. ASSUME NEW h \in Handles
        PROVE  IdOf(mem', handle'[h]) = IF h = t THEN id ELSE IdOf(mem, handle[h])
    <3>1. handle[h] \in A \cup {NULL} /\ DOMAIN handle = Handles
      BY <1>1, HandleView DEF TypeOK
    <3>2. handle'[h] = IF h = t THEN F ELSE handle[h]
      BY <1>4, <3>1
    <3> QED
      BY <1>2, <1>5, <1>6, <1>8, <3>1, <3>2 DEF IdOf
  <2> QED
    BY <2>1 DEF AbsHandle
<1>13. Turn = "expression" /\ Turn' = Turn
  BY <1>1 DEF Turn
<1>14. id \in Ids \ DOMAIN AbsGraph
  BY <1>10
<1> QED
  BY <1>7, <1>11, <1>12, <1>13, <1>14 DEF Abstract!New

\* A handle that takes a reference in use takes the object it refers to.
LEMMA HandleRefines ==
  ASSUME IInv, RInv, pc = "mutator", NEW h \in Handles, NEW r \in Refs(gc_working),
         handle' = [handle EXCEPT ![h] = r],
         UNCHANGED <<gc_working, mem, pc>>
  PROVE  /\ RInv'
         /\ AbsHandle' = [AbsHandle EXCEPT ![h] = IdOf(mem, r)]
         /\ AbsGraph' = AbsGraph
         /\ Turn = "expression" /\ Turn' = Turn
<1>1. ~Collecting /\ ~Collecting' /\ Identified /\ TypeOK
  BY DEF Collecting, RInv, IInv
<1>2. RInv'
  <2>1. \A p, q \in DOMAIN mem' : p[1] = q[1] /\ mem'[p].id = mem'[q].id => p = q
    BY <1>1 DEF Identified
  <2> QED
    BY <1>1, <2>1 DEF RInv, Identified, OnlyReachedCopied, Packed
<1>3. Authority' = Authority
  BY <1>1 DEF Authority, InSpace
<1>4. AbsGraph' = AbsGraph
  BY <1>3 DEF AbsGraph
<1>5. AbsHandle' = [AbsHandle EXCEPT ![h] = IdOf(mem, r)]
  <2>1. \A x \in Handles : IdOf(mem', handle'[x])
                             = IF x = h THEN IdOf(mem, r) ELSE IdOf(mem, handle[x])
    BY <1>1 DEF TypeOK
  <2> QED
    BY <2>1 DEF AbsHandle
<1>6. Turn = "expression" /\ Turn' = Turn
  BY <1>1 DEF Turn
<1> QED
  BY <1>2, <1>4, <1>5, <1>6

LEMMA NewFailsRefines ==
  ASSUME IInv, RInv, NEW t \in Temps, NEW k \in Kinds, NewFails(t, k)
  PROVE  RInv' /\ Abstract!NoMemory(t)
<1>1. /\ pc = "mutator" /\ t \in Handles /\ NULL \in Refs(gc_working)
      /\ handle' = [handle EXCEPT ![t] = NULL] /\ UNCHANGED <<gc_working, mem, pc>>
  BY DEF NewFails, Handles, Refs
<1>2. /\ RInv'
      /\ AbsHandle' = [AbsHandle EXCEPT ![t] = IdOf(mem, NULL)]
      /\ AbsGraph' = AbsGraph
      /\ Turn = "expression" /\ Turn' = Turn
  BY <1>1, HandleRefines
<1>3. IdOf(mem, NULL) = NULL
  BY DEF IdOf
<1> QED
  BY <1>2, <1>3 DEF Abstract!NoMemory

LEMMA LoadSlotRefines ==
  ASSUME IInv, RInv, NEW h \in Handles, NEW g \in Handles, NEW i, LoadSlot(h, g, i)
  PROVE  RInv' /\ Abstract!LoadSlot(h, g, i)
<1> DEFINE v == mem[handle[g]].slots[i]
<1>1. /\ pc = "mutator" /\ ~Collecting /\ Identified /\ NoDangling
      /\ handle[g] # NULL /\ i \in DOMAIN mem[handle[g]].slots
      /\ handle' = [handle EXCEPT ![h] = v] /\ UNCHANGED <<gc_working, mem, pc>>
  BY DEF LoadSlot, Collecting, RInv, IInv
<1>2. handle[g] \in Authority /\ AbsHandle[g] = mem[handle[g]].id /\ AbsHandle[g] # NULL
  BY <1>1, HandleView DEF IdOf
<1>3. v \in Refs(gc_working)
  BY <1>1, <1>2, View DEF Authority, Refs
<1>4. AbsGraph[AbsHandle[g]] = ImageOf(mem, handle[g])
  BY <1>1, <1>2, View
<1>5. /\ i \in DOMAIN AbsGraph[AbsHandle[g]].slots
      /\ AbsGraph[AbsHandle[g]].slots[i] = IdOf(mem, v)
  BY <1>1, <1>4 DEF ImageOf
<1> HIDE DEF v
<1>6. /\ RInv'
      /\ AbsHandle' = [AbsHandle EXCEPT ![h] = IdOf(mem, v)]
      /\ AbsGraph' = AbsGraph
      /\ Turn = "expression" /\ Turn' = Turn
  BY <1>1, <1>3, HandleRefines
<1> QED
  BY <1>2, <1>5, <1>6 DEF Abstract!LoadSlot

LEMMA AssignRefines ==
  ASSUME IInv, RInv, NEW r \in Roots, NEW t \in Temps, Assign(r, t)
  PROVE  RInv' /\ Abstract!Assign(r, t)
<1>1. /\ pc = "mutator" /\ ~Collecting /\ r \in Handles /\ t \in Handles /\ NoDangling
      /\ handle' = [handle EXCEPT ![r] = handle[t]] /\ UNCHANGED <<gc_working, mem, pc>>
  BY DEF Assign, Handles, Collecting, IInv
<1>2. handle[t] \in Refs(gc_working)
  BY <1>1 DEF NoDangling
<1>3. /\ RInv'
      /\ AbsHandle' = [AbsHandle EXCEPT ![r] = IdOf(mem, handle[t])]
      /\ AbsGraph' = AbsGraph
      /\ Turn = "expression" /\ Turn' = Turn
  BY <1>1, <1>2, HandleRefines
<1>4. AbsHandle[t] = IdOf(mem, handle[t])
  BY <1>1 DEF AbsHandle
<1> QED
  BY <1>3, <1>4 DEF Abstract!Assign

\* Words that are no objects, and the end of the program, are not seen.
LEMMA WordsRefine ==
  ASSUME IInv, RInv, pc = "mutator", pc' \in {"mutator", "fault"},
         UNCHANGED <<gc_working, mem, handle>>
  PROVE  RInv' /\ UNCHANGED <<AbsHandle, AbsGraph, Turn>>
<1>1. ~Collecting /\ ~Collecting' /\ Identified
  BY DEF Collecting, RInv
<1>2. RInv'
  <2>1. \A p, q \in DOMAIN mem' : p[1] = q[1] /\ mem'[p].id = mem'[q].id => p = q
    BY <1>1 DEF Identified
  <2> QED
    BY <1>1, <2>1 DEF RInv, Identified, OnlyReachedCopied, Packed
<1>3. Authority' = Authority
  BY <1>1 DEF Authority, InSpace
<1>4. AbsGraph' = AbsGraph /\ AbsHandle' = AbsHandle
  BY <1>3 DEF AbsGraph, AbsHandle
<1>5. Turn' = Turn
  BY <1>1 DEF Turn
<1> QED
  BY <1>2, <1>4, <1>5

\* A write to an object is a write to the object with its identity.
LEMMA SetSlotRefines ==
  ASSUME IInv, RInv, NEW h \in Handles, NEW g \in Handles, NEW i, SetSlot(h, i, g)
  PROVE  RInv' /\ Abstract!SetSlot(h, i, g)
<1>1. /\ pc = "mutator" /\ ~Collecting /\ ~Collecting' /\ Identified /\ TypeOK
      /\ handle[h] # NULL /\ i \in DOMAIN mem[handle[h]].slots
      /\ UNCHANGED <<gc_working, handle, pc>>
  BY DEF SetSlot, Collecting, RInv, IInv
<1>2. PICK a \in Authority : a = handle[h]
  BY <1>1, HandleView
<1>3. PICK v \in Authority \cup {NULL} : v = handle[g]
  BY <1>1, HandleView
<1> DEFINE new == [mem[a].slots EXCEPT ![i] = v]
           id == mem[a].id
<1>4. a \in DOMAIN mem /\ mem[a] \in Objects(mem[a].kind) /\ i \in DOMAIN mem[a].slots
  BY <1>1, <1>2, View DEF TypeOK
<1>5. /\ DOMAIN mem' = DOMAIN mem
      /\ \A p \in DOMAIN mem : p # a => mem'[p] = mem[p]
      /\ mem'[a] = [mem[a] EXCEPT !.slots = new]
  BY <1>2, <1>3, <1>4 DEF SetSlot
<1>6. mem'[a].kind = mem[a].kind /\ mem'[a].id = mem[a].id /\ mem'[a].slots = new
  <2> HIDE DEF new
  <2> QED
    BY <1>4, <1>5 DEF Objects
<1>7. \A p \in DOMAIN mem : mem'[p].kind = mem[p].kind /\ mem'[p].id = mem[p].id
  BY <1>5, <1>6
<1>8. RInv'
  <2>1. \A p, q \in DOMAIN mem' : p[1] = q[1] /\ mem'[p].id = mem'[q].id => p = q
    BY <1>1, <1>5, <1>7 DEF Identified
  <2> QED
    BY <1>1, <2>1 DEF RInv, Identified, OnlyReachedCopied, Packed
<1> DEFINE A == Authority
<1>9. Authority' = A /\ A \subseteq DOMAIN mem /\ Distinct(mem, A)
  BY <1>1, <1>5, View DEF Authority, InSpace
<1>10. Distinct(mem', A)
  BY <1>7, <1>9 DEF Distinct
<1>11. AbsHandle[h] = id /\ AbsHandle[g] = IdOf(mem, v) /\ AbsHandle[h] # NULL
  BY <1>1, <1>2, <1>3, HandleView DEF IdOf
<1>12. id \in DOMAIN AbsGraph /\ AbsGraph[id] = ImageOf(mem, a)
  BY <1>1, View
<1>13. i \in DOMAIN AbsGraph[id].slots
  BY <1>4, <1>12 DEF ImageOf
<1>14. \A r \in A \cup {NULL} : IdOf(mem', r) = IdOf(mem, r)
  BY <1>7, <1>9 DEF IdOf
<1>15. AbsGraph' = [AbsGraph EXCEPT ![id].slots[i] = IdOf(mem, v)]
  <2> DEFINE G == [AbsGraph EXCEPT ![id].slots[i] = IdOf(mem, v)]
  <2>1. DOMAIN G = {mem'[p].id : p \in A}
    <3>1. DOMAIN AbsGraph = {mem[p].id : p \in A}
      BY <1>1, View
    <3> QED
      BY <1>7, <1>9, <3>1
  <2>2. G[mem'[a].id] = ImageOf(mem', a)
    <3>1. G[id] = [AbsGraph[id] EXCEPT !.slots = [AbsGraph[id].slots EXCEPT ![i] = IdOf(mem, v)]]
      BY <1>12
    <3>2. AbsGraph[id] = [kind |-> mem[a].kind, slots |-> ImageOf(mem, a).slots]
      BY <1>12 DEF ImageOf
    <3>3. G[id] = [kind |-> mem[a].kind,
                   slots |-> [ImageOf(mem, a).slots EXCEPT ![i] = IdOf(mem, v)]]
      BY <3>1, <3>2
    <3>4. [ImageOf(mem, a).slots EXCEPT ![i] = IdOf(mem, v)]
            = [j \in DOMAIN new |-> IdOf(mem', new[j])]
      <4>1. \A j \in DOMAIN mem[a].slots : mem[a].slots[j] \in A \cup {NULL}
        BY <1>1, View
      <4>2. DOMAIN new = DOMAIN mem[a].slots
        OBVIOUS
      <4>3. \A j \in DOMAIN new : IdOf(mem', new[j])
                = IF j = i THEN IdOf(mem, v) ELSE IdOf(mem, mem[a].slots[j])
        BY <1>3, <1>14, <4>1
      <4>4. ImageOf(mem, a).slots = [j \in DOMAIN mem[a].slots |-> IdOf(mem, mem[a].slots[j])]
        BY DEF ImageOf
      <4> HIDE DEF new
      <4> QED
        BY <4>2, <4>3, <4>4
    <3>5. ImageOf(mem', a) = [kind |-> mem[a].kind,
                              slots |-> [j \in DOMAIN new |-> IdOf(mem', new[j])]]
      BY <1>6 DEF ImageOf
    <3> HIDE DEF G, new
    <3> QED
      BY <1>6, <3>3, <3>4, <3>5
  <2>3. ASSUME NEW p \in A, p # a
        PROVE  G[mem'[p].id] = ImageOf(mem', p)
    <3>1. mem'[p] = mem[p] /\ mem[p].id # id
      BY <1>5, <1>9, <2>3 DEF Distinct
    <3>2. G[mem[p].id] = ImageOf(mem, p)
      <4>1. mem[p].id \in DOMAIN AbsGraph /\ AbsGraph[mem[p].id] = ImageOf(mem, p)
        BY <1>1, View
      <4> QED
        BY <3>1, <4>1
    <3>3. \A j \in DOMAIN mem[p].slots : IdOf(mem', mem[p].slots[j]) = IdOf(mem, mem[p].slots[j])
      <4>1. \A j \in DOMAIN mem[p].slots : mem[p].slots[j] \in A \cup {NULL}
        BY <1>1, View
      <4> QED
        BY <1>14, <4>1
    <3>4. [j \in DOMAIN mem'[p].slots |-> IdOf(mem', mem'[p].slots[j])]
            = [j \in DOMAIN mem[p].slots |-> IdOf(mem, mem[p].slots[j])]
      BY <3>1, <3>3
    <3>5. ImageOf(mem', p) = ImageOf(mem, p)
      BY <3>1, <3>4 DEF ImageOf
    <3> QED
      BY <3>1, <3>2, <3>5
  <2>4. G = [x \in DOMAIN G |-> G[x]]
    <3> DEFINE value == [AbsGraph[id] EXCEPT !.slots[i] = IdOf(mem, v)]
    <3>1. G = [AbsGraph EXCEPT ![id] = value]
      OBVIOUS
    <3> HIDE DEF G, value
    <3>2. \A f, x, y : [f EXCEPT ![x] = y]
                         = [z \in DOMAIN [f EXCEPT ![x] = y] |-> [f EXCEPT ![x] = y][z]]
      OBVIOUS
    <3> QED
      BY <3>1, <3>2
  <2>5. \A p \in A : G[mem'[p].id] = ImageOf(mem', p)
    BY <2>2, <2>3
  <2>6. AbsGraph' = GraphOf(mem', A)
    BY <1>9 DEF AbsGraph
  <2> HIDE DEF G, A
  <2>7. GraphOf(mem', A) = G
    BY <1>10, <2>1, <2>4, <2>5, GraphIs
  <2> QED
    BY <2>6, <2>7 DEF G
<1>16. AbsHandle' = AbsHandle
  <2>1. \A x \in Handles : handle[x] \in A \cup {NULL}
    BY <1>1, HandleView
  <2>2. \A x \in Handles : IdOf(mem', handle'[x]) = IdOf(mem, handle[x])
    BY <1>1, <1>14, <2>1
  <2> QED
    BY <2>2 DEF AbsHandle
<1>17. Turn = "expression" /\ Turn' = Turn
  BY <1>1 DEF Turn
<1> HIDE DEF id
<1> QED
  BY <1>8, <1>11, <1>12, <1>13, <1>15, <1>16, <1>17 DEF Abstract!SetSlot

-----------------------------------------------------------------------------
(* The collector *)

\* The end of an expression: what was in use are now the originals.
LEMMA StartRefines ==
  ASSUME IInv, RInv, StartCollection
  PROVE  RInv' /\ Abstract!EndExpression
<1>1. /\ TypeOK /\ Quiescent /\ Identified /\ pc = "mutator" /\ ~Collecting
  BY DEF IInv, RInv, StartCollection, Collecting
<1>2. /\ gc_working' = gc_free /\ gc_free' = gc_working /\ gc_free # gc_working
      /\ free_p' = 0 /\ mem' = mem /\ Collecting'
      /\ handle' = [h \in Handles |-> IF h \in Temps THEN NULL ELSE handle[h]]
  BY <1>1 DEF StartCollection, gc_free, TypeOK, Spaces, Collecting
<1>3. InSpace(gc_working)' = {} /\ InSpace(gc_free)' = InSpace(gc_working)
  BY <1>1, <1>2 DEF InSpace, Quiescent
<1>4. \A p \in DOMAIN mem : mem[p].forw = NULL
  BY <1>1 DEF Quiescent
<1>5. \A p \in InSpace(gc_free)' : mem'[p].forw = NULL
  BY <1>2, <1>3, <1>4 DEF InSpace
<1>6. Identified'
  <2>1. \A p, q \in DOMAIN mem' : p[1] = q[1] /\ mem'[p].id = mem'[q].id => p = q
    BY <1>1, <1>2 DEF Identified
  <2> QED
    BY <1>3, <1>5, <2>1 DEF Identified
<1>7. OnlyReachedCopied'
  BY <1>5 DEF OnlyReachedCopied
<1>8. Packed'
  BY <1>2 DEF Packed
<1>9. Authority' = Authority
  BY <1>1, <1>2, <1>3 DEF Authority
<1>10. AbsGraph' = AbsGraph
  BY <1>2, <1>9 DEF AbsGraph
<1>11. AbsHandle' = [h \in Handles |-> IF h \in Temps THEN NULL ELSE AbsHandle[h]]
  <2>1. \A h \in Handles : IdOf(mem', handle'[h])
                             = IF h \in Temps THEN NULL ELSE IdOf(mem, handle[h])
    BY <1>2 DEF IdOf
  <2> QED
    BY <2>1 DEF AbsHandle
<1>12. Turn = "expression" /\ Turn' = "memory"
  BY <1>1, <1>2 DEF Turn
<1> QED
  BY <1>6, <1>7, <1>8, <1>10, <1>11, <1>12 DEF RInv, Abstract!EndExpression

\* A step of the collector that leaves the originals as they are, but for their
\* forwarding, and gives the handles objects with the identities they had, is not
\* seen.
LEMMA CollectionUnseen ==
  ASSUME IInv, Identified, Collecting, Collecting',
         UNCHANGED gc_working,
         InSpace(gc_free)' = InSpace(gc_free),
         \A p \in InSpace(gc_free) : /\ mem'[p].id = mem[p].id
                                     /\ mem'[p].kind = mem[p].kind
                                     /\ mem'[p].slots = mem[p].slots,
         \A h \in Handles : IdOf(mem', handle'[h]) = IdOf(mem, handle[h])
  PROVE  /\ UNCHANGED <<AbsHandle, AbsGraph, Turn>>
         /\ Reached' = Reached
<1>1. Authority = InSpace(gc_free) /\ Authority' = Authority
  BY DEF Authority
<1>2. /\ Distinct(mem, Authority)
      /\ \A p \in Authority :
           \A i \in DOMAIN mem[p].slots : mem[p].slots[i] \in Authority \cup {NULL}
  BY View
<1>3. GraphOf(mem', Authority) = GraphOf(mem, Authority)
  <2> DEFINE A == Authority
             n == mem'
  <2>1. /\ Distinct(mem, A)
        /\ \A p \in A :
             /\ n[p].id = mem[p].id /\ n[p].kind = mem[p].kind /\ n[p].slots = mem[p].slots
             /\ \A i \in DOMAIN mem[p].slots : mem[p].slots[i] \in A \cup {NULL}
    BY <1>1, <1>2
  <2> HIDE DEF A, n
  <2>2. GraphOf(n, A) = GraphOf(mem, A)
    BY <2>1, SameGraph
  <2> QED
    BY <2>2 DEF A, n
<1>4. AbsGraph' = AbsGraph
  BY <1>1, <1>3 DEF AbsGraph
<1>5. AbsHandle' = AbsHandle
  BY DEF AbsHandle
<1>6. Turn' = Turn
  BY DEF Turn
<1>7. Reached' = Reached
  BY <1>4, <1>5 DEF Reached, Abstract!ReachedFrom, Abstract!Holdings, Abstract!Closed, Abstract!Targets
<1> QED
  BY <1>4, <1>5, <1>6, <1>7

\* The original that a root refers to is reached.
LEMMA RootReached ==
  ASSUME IInv, Identified, Collecting, NEW h \in Handles, handle[h] \in InSpace(gc_free)
  PROVE  mem[handle[h]].id \in Reached
<1>1. /\ handle[h] \in Authority /\ handle[h] # NULL
  BY View DEF Authority
<1>2. AbsHandle[h] = mem[handle[h]].id
  BY <1>1 DEF AbsHandle, IdOf
<1>3. mem[handle[h]].id \in DOMAIN AbsGraph /\ mem[handle[h]].id # NULL
  BY <1>1, View
<1>4. mem[handle[h]].id \in Abstract!Holdings(AbsHandle)
  BY <1>2 DEF Abstract!Holdings
<1> HIDE DEF AbsHandle, AbsGraph
<1> QED
  BY <1>3, <1>4, BaseReached DEF Reached

\* ... and so is what a slot of an original that is reached refers to.
LEMMA SlotReached ==
  ASSUME IInv, Identified, Collecting,
         NEW p \in InSpace(gc_free), mem[p].id \in Reached,
         NEW i \in DOMAIN mem[p].slots, mem[p].slots[i] # NULL
  PROVE  mem[p].slots[i] \in InSpace(gc_free) /\ mem[mem[p].slots[i]].id \in Reached
<1> DEFINE x == mem[p].slots[i]
           o == mem[p].id
<1>1. Authority = InSpace(gc_free)
  BY DEF Authority
<1>2. x \in InSpace(gc_free)
  BY <1>1, View
<1>3. AbsGraph[o] = ImageOf(mem, p) /\ mem[x].id \in DOMAIN AbsGraph /\ mem[x].id # NULL
  BY <1>1, <1>2, View
<1>4. i \in DOMAIN AbsGraph[o].slots /\ AbsGraph[o].slots[i] = mem[x].id
  BY <1>3 DEF ImageOf, IdOf
<1>5. mem[x].id \in Reached
  BY <1>3, <1>4, TargetReached DEF Reached
<1> QED
  BY <1>2, <1>5

\* A pending call is for an object that is reached.
LEMMA TaskReached ==
  ASSUME IInv, RInv, Collecting, NEW t \in Tasks, t.src # NULL
  PROVE  t.src \in InSpace(gc_free) /\ mem[t.src].id \in Reached
<1>1. SlotsSplit /\ TypeOK /\ Identified /\ OnlyReachedCopied
  BY DEF IInv, RInv
<1>2. PICK p \in InSpace(gc_free) : mem[p].forw = t.obj /\ mem[p].slots[t.slot] = t.src
  BY <1>1 DEF SlotsSplit
<1>3. /\ t.obj \in InSpace(gc_working) /\ t.slot \in DOMAIN mem[t.obj].slots
      /\ t.obj # NULL
  BY <1>1, SpacesDiffer DEF SlotsSplit, InSpace
<1>4. t.slot \in DOMAIN mem[p].slots
  <2>1. mem[t.obj].kind = mem[p].kind
    BY <1>2, <1>3 DEF IInv, CopiesMirrorOriginals
  <2>2. /\ DOMAIN mem[t.obj].slots = 1 .. Slots[mem[t.obj].kind]
        /\ DOMAIN mem[p].slots = 1 .. Slots[mem[p].kind]
    BY <1>1, <1>3 DEF TypeOK, Objects, InSpace
  <2> QED
    BY <1>3, <2>1, <2>2
<1>5. mem[p].id \in Reached
  BY <1>1, <1>2, <1>3 DEF OnlyReachedCopied, Reached
<1> QED
  BY <1>1, <1>2, <1>4, <1>5, SlotReached

\* Copying an object that is reached is not seen, when the handles keep objects
\* with the identities they had.
LEMMA CopyUnseen ==
  ASSUME IInv, RInv, Collecting, Collecting',
         NEW src \in InSpace(gc_free), mem[src].forw = NULL, mem[src].id \in Reached,
         NEW obj, NEW s, NEW rest, obj \notin InSpace(gc_free),
         CopyEffect(src, obj, s, rest),
         \A h \in Handles : IdOf(mem', handle'[h]) = IdOf(mem, handle[h])
  PROVE  RInv' /\ UNCHANGED <<AbsHandle, AbsGraph, Turn>>
<1> DEFINE F == FreshAddress
           k == mem[src].kind
<1>1. /\ TypeOK /\ Layout /\ SlotsSplit /\ CopiesMirrorOriginals
      /\ Identified /\ OnlyReachedCopied /\ Packed
  BY DEF IInv, RInv
<1>2. /\ F \notin DOMAIN mem /\ F[1] = gc_working /\ F[2] = free_p /\ F # NULL
      /\ gc_free # gc_working /\ NULL \notin DOMAIN mem
  BY <1>1, FreshIsFree, NullAssumption, SpacesDiffer DEF FreshAddress
<1>3. /\ DOMAIN mem' = DOMAIN mem \cup {F}
      /\ \A p \in DOMAIN mem : mem'[p].id = mem[p].id /\ mem'[p].kind = mem[p].kind
      /\ \A p \in DOMAIN mem : mem'[p].forw = IF p = src THEN F ELSE mem[p].forw
      /\ \A p \in InSpace(gc_free) : mem'[p].slots = mem[p].slots
      /\ free_p' = free_p + Size(k) /\ gc_working' = gc_working /\ gc_free' = gc_free
  BY DEF CopyEffect, InSpace, gc_free
<1>4. mem'[F].id = mem[src].id /\ mem'[F].kind = k
  BY DEF CopyEffect, CopyOf, Object
<1>5. src \in DOMAIN mem /\ k \in Kinds /\ InSpace(gc_free) \subseteq DOMAIN mem
      /\ InSpace(gc_working) \subseteq DOMAIN mem
  BY <1>1 DEF InSpace, TypeOK
<1> HIDE DEF F, k
<1>6. InSpace(gc_free)' = InSpace(gc_free) /\ InSpace(gc_working)' = InSpace(gc_working) \cup {F}
  BY <1>2, <1>3 DEF InSpace
<1>7. UNCHANGED <<AbsHandle, AbsGraph, Turn>> /\ Reached' = Reached
  <2>1. \A p \in InSpace(gc_free) :
          mem'[p].id = mem[p].id /\ mem'[p].kind = mem[p].kind /\ mem'[p].slots = mem[p].slots
    BY <1>3, <1>5
  <2> QED
    BY <1>1, <1>3, <1>6, <2>1, CollectionUnseen
<1>8. Identified'
  <2>1. \A q \in InSpace(gc_working) : mem[q].id # mem[src].id
    <3> SUFFICES ASSUME NEW q \in InSpace(gc_working), mem[q].id = mem[src].id
                 PROVE  FALSE
      OBVIOUS
    <3>1. PICK p \in InSpace(gc_free) : mem[p].forw = q
      BY <1>1 DEF Identified
    <3>2. q # NULL
      BY <1>2, <1>5
    <3>3. mem[p].id = mem[q].id
      BY <1>1, <3>1, <3>2 DEF Identified
    <3>4. p = src
      BY <1>1, <1>5, <3>3 DEF Identified, InSpace
    <3> QED
      BY <3>1, <3>2, <3>4
  <2>2. \A p \in DOMAIN mem : p[1] = F[1] => mem[p].id # mem[src].id
    BY <1>2, <2>1 DEF InSpace
  <2>3. \A p, q \in DOMAIN mem' : p[1] = q[1] /\ mem'[p].id = mem'[q].id => p = q
    <3>1. \A p, q \in DOMAIN mem : p[1] = q[1] /\ mem[p].id = mem[q].id => p = q
      BY <1>1 DEF Identified
    <3> QED
      BY <1>3, <1>4, <2>2, <3>1
  <2>4. \A p \in InSpace(gc_free) : mem'[p].forw # NULL => mem'[mem'[p].forw].id = mem'[p].id
    <3> SUFFICES ASSUME NEW p \in InSpace(gc_free), mem'[p].forw # NULL
                 PROVE  mem'[mem'[p].forw].id = mem'[p].id
      OBVIOUS
    <3>1. CASE p = src
      BY <1>3, <1>4, <1>5, <3>1
    <3>2. CASE p # src
      <4>1. mem'[p].forw = mem[p].forw /\ mem[p].forw # NULL /\ mem'[p].id = mem[p].id
        BY <1>3, <1>5, <3>2
      <4>2. mem[p].forw \in DOMAIN mem
        BY <1>1, <1>5, <4>1 DEF SlotsSplit, Refs
      <4>3. mem[mem[p].forw].id = mem[p].id
        BY <1>1, <4>1 DEF Identified
      <4> QED
        BY <1>3, <4>1, <4>2, <4>3
    <3> QED
      BY <3>1, <3>2
  <2>5. \A q \in InSpace(gc_working) \cup {F} : \E p \in InSpace(gc_free) : mem'[p].forw = q
    <3>1. mem'[src].forw = F
      BY <1>3, <1>5
    <3>2. ASSUME NEW q \in InSpace(gc_working)
          PROVE  \E p \in InSpace(gc_free) : mem'[p].forw = q
      <4>1. PICK p \in InSpace(gc_free) : mem[p].forw = q
        BY <1>1 DEF Identified
      <4>2. p # src
        BY <1>2, <1>5, <4>1
      <4> QED
        BY <1>3, <1>5, <4>1, <4>2
    <3> QED
      BY <3>1, <3>2
  <2> QED
    BY <1>6, <2>3, <2>4, <2>5 DEF Identified
<1>9. OnlyReachedCopied'
  <2>1. \A p \in InSpace(gc_free) : mem'[p].forw # NULL => mem'[p].id \in Reached
    BY <1>1, <1>3, <1>5 DEF OnlyReachedCopied, Reached
  <2> QED
    BY <1>6, <1>7, <2>1 DEF OnlyReachedCopied, Reached
<1>10. Packed'
  <2>1. free_p \in Nat /\ Size(k) \in Nat
    BY <1>1, <1>5, SizeType, HeapAssumption DEF TypeOK
  <2>2. ASSUME NEW w \in 0 .. free_p' - 1
        PROVE  \E q \in InSpace(gc_working) \cup {F} : w \in q[2] .. q[2] + Size(mem'[q].kind) - 1
    <3>1. CASE w < free_p
      <4>1. w \in 0 .. free_p - 1
        BY <2>1, <3>1, <1>3
      <4>2. PICK q \in InSpace(gc_working) : w \in Extent(q)
        BY <1>1, <4>1 DEF Packed
      <4>3. mem'[q].kind = mem[q].kind
        BY <1>3, <1>5
      <4> QED
        BY <4>2, <4>3 DEF Extent
    <3>2. CASE ~(w < free_p)
      <4>1. w \in free_p .. free_p + Size(k) - 1
        BY <1>3, <2>1, <3>2
      <4> QED
        BY <1>2, <1>4, <4>1
    <3> QED
      BY <3>1, <3>2
  <2> QED
    BY <1>6, <2>2 DEF Packed, Extent
<1> QED
  BY <1>7, <1>8, <1>9, <1>10 DEF RInv

\* A step that moves nothing, but makes a handle or the slot of a copy refer to
\* what is copied already, is not seen.
LEMMA SettledUnseen ==
  ASSUME IInv, RInv, Collecting, Collecting',
         UNCHANGED <<gc_working, free_p>>,
         DOMAIN mem' = DOMAIN mem,
         \A p \in DOMAIN mem :
           mem'[p].id = mem[p].id /\ mem'[p].kind = mem[p].kind /\ mem'[p].forw = mem[p].forw,
         \A p \in InSpace(gc_free) : mem'[p].slots = mem[p].slots,
         \A h \in Handles : IdOf(mem', handle'[h]) = IdOf(mem, handle[h])
  PROVE  RInv' /\ UNCHANGED <<AbsHandle, AbsGraph, Turn>>
<1>1. Identified /\ OnlyReachedCopied /\ Packed /\ SlotsSplit
  BY DEF RInv, IInv
<1>2. /\ InSpace(gc_free)' = InSpace(gc_free) /\ InSpace(gc_working)' = InSpace(gc_working)
      /\ InSpace(gc_free) \subseteq DOMAIN mem /\ InSpace(gc_working) \subseteq DOMAIN mem
  BY DEF InSpace, gc_free
<1>3. UNCHANGED <<AbsHandle, AbsGraph, Turn>> /\ Reached' = Reached
  BY <1>1, <1>2, CollectionUnseen
<1>4. Identified'
  <2>1. \A p, q \in DOMAIN mem' : p[1] = q[1] /\ mem'[p].id = mem'[q].id => p = q
    BY <1>1 DEF Identified
  <2>2. \A p \in InSpace(gc_free) : mem'[p].forw # NULL => mem'[mem'[p].forw].id = mem'[p].id
    <3> SUFFICES ASSUME NEW p \in InSpace(gc_free), mem'[p].forw # NULL
                 PROVE  mem'[mem'[p].forw].id = mem'[p].id
      OBVIOUS
    <3>1. mem'[p].forw = mem[p].forw /\ mem[p].forw # NULL
      BY <1>2
    <3>2. mem[p].forw \in DOMAIN mem
      BY <1>1, <1>2, <3>1 DEF SlotsSplit, Refs
    <3>3. mem[mem[p].forw].id = mem[p].id
      BY <1>1, <3>1 DEF Identified
    <3> QED
      BY <1>2, <3>1, <3>2, <3>3
  <2>3. \A q \in InSpace(gc_working) : \E p \in InSpace(gc_free) : mem'[p].forw = q
    BY <1>1, <1>2 DEF Identified
  <2> QED
    BY <1>2, <2>1, <2>2, <2>3 DEF Identified
<1>5. OnlyReachedCopied'
  <2>1. \A p \in InSpace(gc_free) : mem'[p].forw # NULL => mem'[p].id \in Reached
    BY <1>1, <1>2 DEF OnlyReachedCopied, Reached
  <2> QED
    BY <1>2, <1>3, <2>1 DEF OnlyReachedCopied, Reached
<1>6. Packed'
  BY <1>1, <1>2 DEF Packed, Extent
<1> QED
  BY <1>3, <1>4, <1>5, <1>6 DEF RInv

LEMMA CollectRootRefines ==
  ASSUME IInv, RInv, NEW r \in Roots, NEW next,
         \/ r = "special" /\ next = "lexical"
         \/ r = "lexical" /\ next = "finish",
         CollectRoot(r, next)
  PROVE  RInv' /\ UNCHANGED <<AbsHandle, AbsGraph, Turn>>
<1> DEFINE old == handle[r]
<1>1. /\ TypeOK /\ Layout /\ RootsSplit /\ SlotsSplit /\ Identified
      /\ pc = r /\ Collecting /\ Collecting' /\ gc_working' = gc_working /\ r \in Handles
  BY DEF IInv, RInv, CollectRoot, Roots, Handles, Collecting
<1>2. old \in Refs(gc_free) /\ NULL \notin DOMAIN mem /\ gc_free # gc_working
  BY <1>1, SpacesDiffer DEF RootsSplit, Roots
<1>3. \A h \in Handles : handle[h] \in DOMAIN mem \cup {NULL}
  BY <1>1 DEF RootsSplit, Refs, InSpace, Handles, Roots
<1>4. CASE ~NeedsCopy(old)
  <2>1. handle' = [handle EXCEPT ![r] = Settled(old)] /\ UNCHANGED <<free_p, mem>>
    BY <1>4 DEF CollectRoot
  <2>2. IdOf(mem, Settled(old)) = IdOf(mem, old)
    BY <1>1, <1>2, <1>4 DEF Settled, NeedsCopy, IdOf, Refs, Identified
  <2>3. \A h \in Handles : IdOf(mem', handle'[h]) = IdOf(mem, handle[h])
    BY <1>1, <2>1, <2>2 DEF TypeOK
  <2> QED
    BY <1>1, <2>1, <2>3, SettledUnseen
<1>5. CASE NeedsCopy(old)
  <2>1. handle' = [handle EXCEPT ![r] = FreshAddress]
    BY <1>5 DEF CollectRoot
  <2>2. old \in InSpace(gc_free) /\ mem[old].forw = NULL /\ old \in DOMAIN mem
    BY <1>2, <1>5 DEF NeedsCopy, Refs, InSpace
  <2>3. CopyEffect(old, NULL, 1, {})
    BY <1>5, CollectRootEffect
  <2>4. /\ FreshAddress # NULL
        /\ mem'[FreshAddress].id = mem[old].id
        /\ \A p \in DOMAIN mem : mem'[p].id = mem[p].id
    <3>1. FreshAddress # NULL
      BY <1>1, FreshIsFree, NullAssumption
    <3>2. mem'[FreshAddress] = CopyOf(old) /\ \A p \in DOMAIN mem : mem'[p].id = mem[p].id
      BY <2>3 DEF CopyEffect
    <3> QED
      BY <3>1, <3>2 DEF CopyOf, Object
  <2>5. \A h \in Handles : IdOf(mem', handle'[h]) = IdOf(mem, handle[h])
    BY <1>1, <1>2, <1>3, <2>1, <2>2, <2>4 DEF IdOf, TypeOK
  <2>6. mem[old].id \in Reached
    BY <1>1, <2>2, RootReached
  <2>7. NULL \notin InSpace(gc_free)
    BY <1>2 DEF InSpace
  <2> HIDE DEF old
  <2> QED
    BY <1>1, <2>2, <2>3, <2>5, <2>6, <2>7, CopyUnseen
<1> QED
  BY <1>4, <1>5

LEMMA RelocateRefines ==
  ASSUME IInv, RInv, RelocateSlot
  PROVE  RInv' /\ UNCHANGED <<AbsHandle, AbsGraph, Turn>>
<1> DEFINE t == Head(todo)
<1>1. TypeOK /\ RootsSplit /\ SlotsSplit /\ todo # <<>>
  BY DEF IInv, RelocateSlot
<1>2. CASE SettleSlot(t)
  <2> DEFINE a == t.obj
  <2>1. /\ Collecting /\ Collecting' /\ UNCHANGED <<gc_working, free_p, handle>>
        /\ DOMAIN mem' = DOMAIN mem
        /\ a \in InSpace(gc_working)
        /\ \A p \in DOMAIN mem : p # a => mem'[p] = mem[p]
        /\ mem'[a].kind = mem[a].kind /\ mem'[a].id = mem[a].id /\ mem'[a].forw = mem[a].forw
    BY <1>1, <1>2, SettleSlotEffect
  <2> HIDE DEF t
  <2>2. \A p \in DOMAIN mem :
          mem'[p].id = mem[p].id /\ mem'[p].kind = mem[p].kind /\ mem'[p].forw = mem[p].forw
    BY <2>1
  <2>3. \A p \in InSpace(gc_free) : mem'[p].slots = mem[p].slots
    BY <1>1, <2>1, SpacesDiffer DEF InSpace
  <2>4. \A h \in Handles : handle[h] \in DOMAIN mem \cup {NULL}
    BY <1>1, <2>1 DEF RootsSplit, Refs, InSpace, Handles, Roots
  <2>5. \A h \in Handles : IdOf(mem', handle'[h]) = IdOf(mem, handle[h])
    BY <2>1, <2>2, <2>4 DEF IdOf
  <2> QED
    BY <2>1, <2>2, <2>3, <2>5, SettledUnseen
<1>3. CASE CopySlot(t)
  <2>1. /\ Collecting /\ Collecting' /\ t \in Tasks
        /\ t.obj \in InSpace(gc_working)
        /\ t.src \in InSpace(gc_free) /\ mem[t.src].forw = NULL
        /\ CopyEffect(t.src, t.obj, t.slot, Elements(Tail(todo)))
        /\ handle' = handle
    BY <1>1, <1>3, CopySlotEffect DEF CopySlot
  <2> HIDE DEF t
  <2>2. t.src # NULL /\ t.obj \notin InSpace(gc_free)
    BY <1>1, <2>1, SpacesDiffer DEF InSpace
  <2>3. mem[t.src].id \in Reached
    BY <2>1, <2>2, TaskReached
  <2>4. \A h \in Handles : handle[h] \in DOMAIN mem \cup {NULL}
    BY <1>1, <2>1 DEF RootsSplit, Refs, InSpace, Handles, Roots
  <2>5. \A h \in Handles : IdOf(mem', handle'[h]) = IdOf(mem, handle[h])
    BY <2>1, <2>4 DEF IdOf, CopyEffect
  <2> QED
    BY <2>1, <2>2, <2>3, <2>5, CopyUnseen
<1> QED
  BY <1>2, <1>3 DEF RelocateSlot

\* When the recursion is over, what has been copied is what is reached, and a copy
\* looks to the program as its original.
LEMMA CopiesComplete ==
  ASSUME IInv, RInv, pc = "finish", todo = <<>>
  PROVE  /\ Reached = {mem[q].id : q \in InSpace(gc_working)}
         /\ \A q \in InSpace(gc_working) : AbsGraph[mem[q].id] = ImageOf(mem, q)
         /\ \A q \in InSpace(gc_working) : \A i \in DOMAIN mem[q].slots :
              mem[q].slots[i] \in InSpace(gc_working) \cup {NULL}
<1> DEFINE A == InSpace(gc_free)
           C == InSpace(gc_working)
           I == {mem[q].id : q \in C}
<1>1. /\ TypeOK /\ RootsSplit /\ SlotsSplit /\ CopiesMirrorOriginals /\ Identified
      /\ OnlyReachedCopied /\ Collecting /\ Tasks = {} /\ NULL \notin DOMAIN mem
      /\ A \subseteq DOMAIN mem /\ C \subseteq DOMAIN mem
  BY SpacesDiffer DEF IInv, RInv, Collecting, Tasks, InSpace
<1>2. Authority = A
  BY <1>1 DEF Authority
<1>3. \A q \in C : \E p \in A : mem[p].forw = q /\ q # NULL /\ mem[p].id = mem[q].id
  <2> SUFFICES ASSUME NEW q \in C
               PROVE  \E p \in A : mem[p].forw = q /\ q # NULL /\ mem[p].id = mem[q].id
    OBVIOUS
  <2>1. PICK p \in A : mem[p].forw = q
    BY <1>1 DEF Identified
  <2>2. q # NULL
    BY <1>1
  <2> QED
    BY <1>1, <2>1, <2>2 DEF Identified
\* What an original that is copied refers to is copied, and its copy refers to that.
<1>4. ASSUME NEW p \in A, mem[p].forw # NULL, NEW i \in DOMAIN mem[p].slots
      PROVE  /\ mem[mem[p].forw].slots[i] \in C \cup {NULL}
             /\ IdOf(mem, mem[mem[p].forw].slots[i]) = IdOf(mem, mem[p].slots[i])
  <2> DEFINE x == mem[p].slots[i]
             y == mem[mem[p].forw].slots[i]
  <2> SUFFICES y \in C \cup {NULL} /\ IdOf(mem, y) = IdOf(mem, x)
    OBVIOUS
  <2>1. ~NeedsCopy(x) /\ y = Settled(x)
    BY <1>1, <1>4 DEF CopiesMirrorOriginals, Pending
  <2>2. x \in A \cup {NULL}
    BY <1>1 DEF SlotsSplit, Refs
  <2> HIDE DEF x, y
  <2>3. CASE x = NULL
    BY <2>1, <2>3 DEF Settled, IdOf
  <2>4. CASE x # NULL
    <3>1. x \in A /\ mem[x].forw # NULL /\ y = mem[x].forw
      BY <2>1, <2>2, <2>4 DEF NeedsCopy, Settled
    <3>2. y \in C /\ mem[y].id = mem[x].id
      BY <1>1, <3>1 DEF Identified, CopiesMirrorOriginals
    <3> QED
      BY <1>1, <2>4, <3>2 DEF IdOf
  <2> QED
    BY <2>3, <2>4
<1>5. I \subseteq Reached
  BY <1>1, <1>3 DEF OnlyReachedCopied, Reached
<1>6. Reached \subseteq I
  <2>1. I \subseteq DOMAIN AbsGraph
    BY <1>1, <1>2, <1>3, View
  <2>2. Abstract!Holdings(AbsHandle) \subseteq I \cup {NULL}
    <3>1. \A h \in Handles : handle[h] \in C \cup {NULL}
      BY <1>1 DEF RootsSplit, Refs, Handles, Roots
    <3>2. \A h \in Handles : IdOf(mem, handle[h]) \in I \cup {NULL}
      BY <3>1 DEF IdOf
    <3> QED
      BY <3>2 DEF Abstract!Holdings, AbsHandle
  <2>3. ASSUME NEW o \in I
        PROVE  Abstract!Targets(o, AbsGraph) \subseteq I \cup {NULL}
    <3>1. PICK p \in A : mem[p].forw # NULL /\ mem[p].id = o
      BY <1>3
    <3>2. AbsGraph[o] = ImageOf(mem, p)
      BY <1>1, <1>2, <3>1, View
    <3>3. DOMAIN mem[mem[p].forw].slots = DOMAIN mem[p].slots
      BY <1>1, <3>1 DEF CopiesMirrorOriginals, TypeOK, Objects
    <3>4. \A i \in DOMAIN mem[p].slots : IdOf(mem, mem[p].slots[i]) \in I \cup {NULL}
      <4> SUFFICES ASSUME NEW i \in DOMAIN mem[p].slots
                   PROVE  IdOf(mem, mem[p].slots[i]) \in I \cup {NULL}
        OBVIOUS
      <4>1. PICK y \in C \cup {NULL} : IdOf(mem, y) = IdOf(mem, mem[p].slots[i])
        BY <1>4, <3>1
      <4> QED
        BY <4>1 DEF IdOf
    <3> QED
      BY <3>2, <3>4 DEF Abstract!Targets, ImageOf
  <2>4. Abstract!Closed(I, Abstract!Holdings(AbsHandle), AbsGraph)
    BY <2>2, <2>3 DEF Abstract!Closed
  <2> HIDE DEF I
  <2> QED
    BY <2>1, <2>4, ReachedInClosed DEF Reached
<1>7. ASSUME NEW q \in C
      PROVE  /\ AbsGraph[mem[q].id] = ImageOf(mem, q)
             /\ \A i \in DOMAIN mem[q].slots : mem[q].slots[i] \in C \cup {NULL}
  <2>1. PICK p \in A : mem[p].forw = q /\ q # NULL /\ mem[p].id = mem[q].id
    BY <1>3
  <2>2. AbsGraph[mem[q].id] = ImageOf(mem, p)
    BY <1>1, <1>2, <2>1, View
  <2>3. mem[q].kind = mem[p].kind /\ DOMAIN mem[q].slots = DOMAIN mem[p].slots
    BY <1>1, <2>1 DEF CopiesMirrorOriginals, TypeOK, Objects
  <2>4. \A i \in DOMAIN mem[q].slots :
          /\ mem[q].slots[i] \in C \cup {NULL}
          /\ IdOf(mem, mem[q].slots[i]) = IdOf(mem, mem[p].slots[i])
    BY <1>4, <2>1, <2>3
  <2>5. [i \in DOMAIN mem[q].slots |-> IdOf(mem, mem[q].slots[i])]
          = [i \in DOMAIN mem[p].slots |-> IdOf(mem, mem[p].slots[i])]
    BY <2>3, <2>4
  <2>6. ImageOf(mem, q) = ImageOf(mem, p)
    BY <2>3, <2>5 DEF ImageOf
  <2> QED
    BY <2>2, <2>4, <2>6
<1> QED
  BY <1>5, <1>6, <1>7

\* The end of a collection: what is not reached disappears.
LEMMA FinishRefines ==
  ASSUME IInv, RInv, FinishCollection
  PROVE  RInv' /\ Abstract!Reclaim
<1> DEFINE C == InSpace(gc_working)
<1>1. /\ TypeOK /\ Identified /\ RootsSplit /\ Collecting /\ ~Collecting'
      /\ pc = "finish" /\ todo = <<>> /\ UNCHANGED <<gc_working, handle>>
      /\ mem' = [p \in C |-> mem[p]]
  BY DEF IInv, RInv, FinishCollection, Collecting
<1>2. /\ Reached = {mem[q].id : q \in C}
      /\ \A q \in C : AbsGraph[mem[q].id] = ImageOf(mem, q)
      /\ \A q \in C : \A i \in DOMAIN mem[q].slots : mem[q].slots[i] \in C \cup {NULL}
  BY <1>1, CopiesComplete
<1>3. /\ DOMAIN mem' = C /\ \A q \in C : mem'[q] = mem[q]
      /\ C \subseteq DOMAIN mem /\ Authority' = C
  BY <1>1 DEF InSpace, Authority
<1>4. RInv'
  <2>1. \A p, q \in DOMAIN mem' : p[1] = q[1] /\ mem'[p].id = mem'[q].id => p = q
    BY <1>1, <1>3 DEF Identified
  <2> QED
    BY <1>1, <2>1 DEF RInv, Identified, OnlyReachedCopied, Packed
<1>5. \A r \in C \cup {NULL} : IdOf(mem', r) = IdOf(mem, r)
  BY <1>3 DEF IdOf
<1>6. AbsGraph' = [o \in Reached |-> AbsGraph[o]]
  <2> DEFINE g == [o \in Reached |-> AbsGraph[o]]
             n == mem'
  <2>1. Distinct(n, C)
    BY <1>1, <1>3 DEF Distinct, Identified, InSpace
  <2>2. DOMAIN g = {n[p].id : p \in C}
    BY <1>2, <1>3
  <2>3. ASSUME NEW p \in C
        PROVE  g[n[p].id] = ImageOf(n, p)
    <3>1. n[p] = mem[p] /\ mem[p].id \in Reached
      BY <1>2, <1>3
    <3>2. g[mem[p].id] = ImageOf(mem, p)
      BY <1>2, <3>1
    <3>3. \A i \in DOMAIN mem[p].slots : IdOf(n, mem[p].slots[i]) = IdOf(mem, mem[p].slots[i])
      BY <1>2, <1>5
    <3>4. [i \in DOMAIN n[p].slots |-> IdOf(n, n[p].slots[i])]
            = [i \in DOMAIN mem[p].slots |-> IdOf(mem, mem[p].slots[i])]
      BY <3>1, <3>3
    <3>5. ImageOf(n, p) = ImageOf(mem, p)
      BY <3>1, <3>4 DEF ImageOf
    <3> QED
      BY <3>1, <3>2, <3>5
  <2>4. g = [x \in DOMAIN g |-> g[x]]
    OBVIOUS
  <2>5. AbsGraph' = GraphOf(n, C)
    BY <1>3 DEF AbsGraph
  <2> HIDE DEF g, n, C
  <2>6. GraphOf(n, C) = g
    BY <2>1, <2>2, <2>3, <2>4, GraphIs
  <2> QED
    BY <2>5, <2>6 DEF g
<1>7. AbsHandle' = AbsHandle
  <2>1. \A h \in Handles : handle[h] \in C \cup {NULL}
    BY <1>1 DEF RootsSplit, Refs, Handles, Roots
  <2>2. \A h \in Handles : IdOf(mem', handle'[h]) = IdOf(mem, handle[h])
    BY <1>1, <1>5, <2>1
  <2> QED
    BY <2>2 DEF AbsHandle
<1>8. Turn = "memory" /\ Turn' = "expression"
  BY <1>1 DEF Turn
<1> QED
  BY <1>4, <1>6, <1>7, <1>8 DEF Abstract!Reclaim, Reached

-----------------------------------------------------------------------------
(* The theorems *)

LEMMA InitRefines ==
  ASSUME Init
  PROVE  RInv /\ Abstract!Init
<1> DEFINE id == CHOOSE x \in Ids : TRUE
           a == <<0, 0>>
           n == Slots["ht"]
<1>1. id \in Ids /\ id # NULL
  BY NameAssumption, NullAssumption
<1>2. /\ DOMAIN mem = {a} /\ mem[a] = Object("ht", id, NoReferences("ht"))
      /\ gc_working = 0 /\ pc = "mutator" /\ ~Collecting /\ a # NULL
  <2>1. IInv
    BY InitInvariant
  <2>2. NULL \notin DOMAIN mem
    BY <2>1, SpacesDiffer DEF IInv
  <2> QED
    BY <2>2 DEF Init, Collecting
<1> HIDE DEF id, a
<1>3. mem[a].id = id /\ mem[a].kind = "ht" /\ mem[a].slots = [i \in 1 .. n |-> NULL]
  BY <1>2 DEF Object, NoReferences
<1>4. RInv
  BY <1>2 DEF RInv, Identified, OnlyReachedCopied, Packed
<1>5. Authority = {a}
  BY <1>2 DEF Authority, InSpace, a
<1>6. AbsHandle = [h \in Handles |-> IF h = "special" THEN id ELSE NULL]
  <2>1. \A h \in Handles : IdOf(mem, handle[h]) = IF h = "special" THEN id ELSE NULL
    BY <1>2, <1>3 DEF IdOf, Init, a
  <2> QED
    BY <2>1 DEF AbsHandle
<1>7. AbsGraph = [x \in {id} |-> [kind |-> "ht", slots |-> [i \in 1 .. Slots["ht"] |-> NULL]]]
  <2> DEFINE g == [x \in {id} |-> [kind |-> "ht", slots |-> [i \in 1 .. Slots["ht"] |-> NULL]]]
             A == {a}
  <2>1. Distinct(mem, A)
    BY DEF Distinct
  <2>2. DOMAIN g = {mem[p].id : p \in A}
    BY <1>3
  <2>3. ImageOf(mem, a) = [kind |-> "ht", slots |-> [i \in 1 .. Slots["ht"] |-> NULL]]
    <3>1. [i \in DOMAIN mem[a].slots |-> IdOf(mem, mem[a].slots[i])] = [i \in 1 .. n |-> NULL]
      BY <1>3 DEF IdOf
    <3> QED
      BY <1>3, <3>1 DEF ImageOf
  <2>4. \A p \in A : g[mem[p].id] = ImageOf(mem, p)
    BY <1>3, <2>3
  <2>5. g = [x \in DOMAIN g |-> g[x]]
    OBVIOUS
  <2> HIDE DEF g, A
  <2>6. GraphOf(mem, A) = g
    BY <2>1, <2>2, <2>4, <2>5, GraphIs
  <2> QED
    BY <1>5, <2>6 DEF AbsGraph, A, g
<1>8. Turn = "expression"
  BY <1>2 DEF Turn
<1> QED
  BY <1>1, <1>4, <1>6, <1>7, <1>8 DEF Abstract!Init

\* Every step of the collector's specification is a step or a stutter of the
\* abstract one.
LEMMA NextRefines ==
  ASSUME IInv, RInv, [Next]_vars
  PROVE  RInv' /\ [Abstract!Next]_<<AbsHandle, AbsGraph, Turn>>
<1> DEFINE Seen == [Abstract!Next]_<<AbsHandle, AbsGraph, Turn>>
<1>1. ASSUME NEW t \in Temps, NEW k \in Kinds, New(t, k)
      PROVE  RInv' /\ Seen
  BY <1>1, NewRefines DEF Abstract!Next
<1>2. ASSUME NEW t \in Temps, NEW k \in Kinds, NewFails(t, k)
      PROVE  RInv' /\ Seen
  BY <1>2, NewFailsRefines DEF Abstract!Next
<1>3. ASSUME NEW k \in Kinds, NewFaults(k)
      PROVE  RInv' /\ Seen
  BY <1>3, WordsRefine DEF NewFaults
<1>4. ASSUME NEW n \in RawBlocks, NewBlock(n)
      PROVE  RInv' /\ Seen
  BY <1>4, WordsRefine DEF NewBlock
<1>f. Fields = Abstract!Fields
  BY DEF Fields, Abstract!Fields
<1>5. ASSUME NEW h \in Handles, NEW g \in Handles, NEW i \in Fields, SetSlot(h, i, g)
      PROVE  RInv' /\ Seen
  BY <1>5, <1>f, SetSlotRefines DEF Abstract!Next
<1>6. ASSUME NEW h \in Handles, NEW g \in Handles, NEW i \in Fields, LoadSlot(h, g, i)
      PROVE  RInv' /\ Seen
  BY <1>6, <1>f, LoadSlotRefines DEF Abstract!Next
<1>7. ASSUME NEW r \in Roots, NEW t \in Temps, Assign(r, t)
      PROVE  RInv' /\ Seen
  BY <1>7, AssignRefines DEF Abstract!Next, Handles
<1>8. CASE StartCollection
  BY <1>8, StartRefines DEF Abstract!Next
<1>9. CASE CollectRoot("special", "lexical")
  BY <1>9, CollectRootRefines DEF Roots
<1>10. CASE CollectRoot("lexical", "finish")
  BY <1>10, CollectRootRefines DEF Roots
<1>11. CASE RelocateSlot
  BY <1>11, RelocateRefines
<1>12. CASE FinishCollection
  BY <1>12, FinishRefines DEF Abstract!Next
<1>13. CASE UNCHANGED vars
  <2>1. UNCHANGED <<AbsHandle, AbsGraph, Turn>>
    BY <1>13 DEF vars, AbsHandle, AbsGraph, Authority, InSpace, gc_free, Collecting, Turn
  <2>2. Reached' = Reached
    BY <2>1 DEF Reached, Abstract!ReachedFrom, Abstract!Holdings, Abstract!Closed, Abstract!Targets
  <2>3. Identified' /\ Packed'
    BY <1>13 DEF vars, RInv, Identified, Packed, InSpace, gc_free, Collecting, Extent
  <2>4. OnlyReachedCopied'
    BY <1>13, <2>2 DEF vars, RInv, OnlyReachedCopied, InSpace, gc_free, Collecting, Reached
  <2> QED
    BY <2>1, <2>3, <2>4 DEF RInv
<1> QED
  BY <1>1, <1>2, <1>3, <1>4, <1>5, <1>6, <1>7, <1>8, <1>9, <1>10, <1>11, <1>12, <1>13
     DEF Next, Mutator, Collector

\* Identities are never confused, nothing is copied that is not reached, and the
\* copies leave no gap.
THEOREM RefinementInvariance == Spec => []RInv
<1>1. Init => IInv /\ RInv
  BY InitInvariant, InitRefines
<1>2. IInv /\ RInv /\ [Next]_vars => RInv'
  BY NextRefines
<1> QED
  BY <1>1, <1>2, Invariance, PTL DEF Spec

\* The program never sees the collector: with identities for addresses, gc.c is a
\* memory in which objects stay where they are and garbage disappears at once.
THEOREM Refinement == Spec => RefinesObjectGraph
<1>1. Init => Abstract!Init
  BY InitRefines
<1>2. IInv /\ RInv /\ [Next]_vars => [Abstract!Next]_<<AbsHandle, AbsGraph, Turn>>
  BY NextRefines
<1>3. [Abstract!Next]_<<AbsHandle, AbsGraph, Turn>> => [Abstract!Next]_(Abstract!gvars)
  BY DEF Abstract!gvars
<1> QED
  BY <1>1, <1>2, <1>3, Invariance, RefinementInvariance, PTL
     DEF Spec, RefinesObjectGraph, Abstract!Spec

\* When the collection is over the space in use has what the roots reach, and
\* nothing else, packed from its first word.
LEMMA ReachableKept ==
  ASSUME IInv, RInv
  PROVE  OnlyReachableKept
<1> SUFFICES ASSUME pc = "finish", todo = <<>>
             PROVE  OnlyReachableKept
  BY DEF OnlyReachableKept
<1> DEFINE C == InSpace(gc_working)
           base == {handle[r] : r \in Roots}
           reached == Abstract!ReachedFrom(base, mem)
<1>1. /\ TypeOK /\ RootsSplit /\ Identified /\ Packed /\ Collecting /\ C \subseteq DOMAIN mem
      /\ NULL \notin C
  BY SpacesDiffer DEF IInv, RInv, Collecting, InSpace
<1>2. /\ Reached = {mem[q].id : q \in C}
      /\ \A q \in C : AbsGraph[mem[q].id] = ImageOf(mem, q)
      /\ \A q \in C : \A i \in DOMAIN mem[q].slots : mem[q].slots[i] \in C \cup {NULL}
  BY CopiesComplete
<1>3. /\ \A h \in Handles : handle[h] \in C \cup {NULL}
      /\ \A t \in Temps : handle[t] = NULL
  BY <1>1 DEF RootsSplit, Refs, Handles, Roots
<1>4. reached \subseteq C
  <2>1. Abstract!Closed(C, base, mem)
    BY <1>2, <1>3 DEF Abstract!Closed, Abstract!Targets, Handles
  <2> QED
    BY <1>1, <2>1, ReachedInClosed
<1>5. C \subseteq reached
  <2> SUFFICES ASSUME NEW S \in SUBSET DOMAIN mem, Abstract!Closed(S, base, mem),
                      NEW q \in C
               PROVE  q \in S
    BY <1>1 DEF Abstract!ReachedFrom
  <2> DEFINE I == {mem[x].id : x \in S \cap C}
  <2>1. I \subseteq DOMAIN AbsGraph
    BY <1>2 DEF Reached, Abstract!ReachedFrom
  <2>2. Abstract!Holdings(AbsHandle) \subseteq I \cup {NULL}
    <3>1. \A h \in Handles : handle[h] \in (S \cap C) \cup {NULL}
      BY <1>3 DEF Abstract!Closed, Handles
    <3>2. \A h \in Handles : IdOf(mem, handle[h]) \in I \cup {NULL}
      BY <3>1 DEF IdOf
    <3> QED
      BY <3>2 DEF Abstract!Holdings, AbsHandle
  <2>3. ASSUME NEW o \in I
        PROVE  Abstract!Targets(o, AbsGraph) \subseteq I \cup {NULL}
    <3>1. PICK x \in S \cap C : mem[x].id = o
      OBVIOUS
    <3>2. \A i \in DOMAIN mem[x].slots : mem[x].slots[i] \in (S \cap C) \cup {NULL}
      BY <1>2 DEF Abstract!Closed, Abstract!Targets
    <3>3. \A i \in DOMAIN mem[x].slots : IdOf(mem, mem[x].slots[i]) \in I \cup {NULL}
      BY <3>2 DEF IdOf
    <3>4. AbsGraph[o] = ImageOf(mem, x)
      BY <1>2, <3>1
    <3> QED
      BY <3>3, <3>4 DEF Abstract!Targets, ImageOf
  <2>4. Reached \subseteq I
    <3>1. Abstract!Closed(I, Abstract!Holdings(AbsHandle), AbsGraph)
      BY <2>2, <2>3 DEF Abstract!Closed
    <3> HIDE DEF I
    <3> QED
      BY <2>1, <3>1, ReachedInClosed DEF Reached
  <2>5. PICK x \in S \cap C : mem[x].id = mem[q].id
    BY <1>2, <2>4
  <2>6. x = q
    BY <1>1, <2>5 DEF Identified, InSpace
  <2> QED
    BY <2>6
<1>6. C = reached
  BY <1>4, <1>5
<1>7. \A w \in 0 .. free_p - 1 : \E q \in C : w \in q[2] .. q[2] + Size(mem[q].kind) - 1
  BY <1>1 DEF Packed, Extent
<1> HIDE DEF C
<1> QED
  BY <1>6, <1>7 DEF OnlyReachableKept, C

\* All garbage is reclaimed, and no reachable object is lost, at every collection.
THEOREM GarbageIsReclaimed == Spec => []OnlyReachableKept
<1>1. IInv /\ RInv => OnlyReachableKept
  BY ReachableKept
<1> QED
  BY <1>1, Invariance, RefinementInvariance, PTL

=============================================================================
