---------------------------- MODULE ObjectGraph ----------------------------
(***************************************************************************)
(* What the interpreter is promised by its memory: named handles (the two  *)
(* roots of the environment and the C locals of the running expression)    *)
(* that hold objects, and objects whose slots hold objects.  Memory takes  *)
(* back what the handles do not reach, and nothing else.  There are no     *)
(* addresses and no heap limit here; CopyGC shows that gc.c implements it. *)
(***************************************************************************)
EXTENDS Naturals

CONSTANTS Handles,  \* every variable the mutator holds an object in
          Temps,    \* those of them that die at the end of an expression
          Ids,      \* identities of objects
          Kinds,    \* types of objects
          Slots,    \* number of references in an object of each kind
          NULL

VARIABLES held,     \* the object each handle holds
          graph,    \* the objects that exist
          turn      \* who may act: the expression or memory

gvars == <<held, graph, turn>>

Targets(o, g) == {g[o].slots[i] : i \in DOMAIN g[o].slots}

\* S has the nodes that base refers to, and with a node all that it refers to.
Closed(S, base, g) ==
  /\ base \subseteq S \cup {NULL}
  /\ \A o \in S : Targets(o, g) \subseteq S \cup {NULL}

\* The nodes of g that can be reached from the references in base: those that are
\* in every closed set.
ReachedFrom(base, g) ==
  {o \in DOMAIN g : \A S \in SUBSET DOMAIN g : Closed(S, base, g) => o \in S}

\* The positions an object can have slots at.
Fields == UNION {1 .. Slots[k] : k \in Kinds}

Holdings(h) == {h[x] : x \in Handles}

-----------------------------------------------------------------------------

\* env_init: toplevel.special holds an empty hash table, nothing else exists.
Init ==
  \E o \in Ids :
    /\ held = [h \in Handles |-> IF h = "special" THEN o ELSE NULL]
    /\ graph = [x \in {o} |-> [kind |-> "ht", slots |-> [i \in 1 .. Slots["ht"] |-> NULL]]]
    /\ turn = "expression"

\* A fresh object for t, all its slots empty.
New(t, k) ==
  /\ turn = "expression"
  /\ \E o \in Ids \ DOMAIN graph :
       LET object == [kind |-> k, slots |-> [i \in 1 .. Slots[k] |-> NULL]]
       IN  /\ held' = [held EXCEPT ![t] = o]
           /\ graph' = [x \in DOMAIN graph \cup {o} |->
                          IF x = o THEN object ELSE graph[x]]
  /\ UNCHANGED turn

SetSlot(h, i, g) ==
  /\ turn = "expression"
  /\ held[h] # NULL
  /\ i \in DOMAIN graph[held[h]].slots
  /\ graph' = [graph EXCEPT ![held[h]].slots[i] = held[g]]
  /\ UNCHANGED <<held, turn>>

LoadSlot(h, g, i) ==
  /\ turn = "expression"
  /\ held[g] # NULL
  /\ i \in DOMAIN graph[held[g]].slots
  /\ held' = [held EXCEPT ![h] = graph[held[g]].slots[i]]
  /\ UNCHANGED <<graph, turn>>

\* A handle takes what another one holds.
Assign(h, g) ==
  /\ turn = "expression"
  /\ held' = [held EXCEPT ![h] = held[g]]
  /\ UNCHANGED <<graph, turn>>

\* Memory has run out: the local gets nothing.
NoMemory(t) ==
  /\ turn = "expression"
  /\ held' = [held EXCEPT ![t] = NULL]
  /\ UNCHANGED <<graph, turn>>

\* The locals of the expression die; it is memory's turn.
EndExpression ==
  /\ turn = "expression"
  /\ held' = [h \in Handles |-> IF h \in Temps THEN NULL ELSE held[h]]
  /\ turn' = "memory"
  /\ UNCHANGED graph

\* Exactly the objects that no handle reaches disappear.  Nothing else happens
\* before the next expression.
Reclaim ==
  /\ turn = "memory"
  /\ turn' = "expression"
  /\ graph' = [o \in ReachedFrom(Holdings(held), graph) |-> graph[o]]
  /\ UNCHANGED held

Next ==
  \/ \E t \in Temps, k \in Kinds : New(t, k)
  \/ \E h, g \in Handles, i \in Fields : SetSlot(h, i, g) \/ LoadSlot(h, g, i)
  \/ \E h, g \in Handles : Assign(h, g)
  \/ \E t \in Temps : NoMemory(t)
  \/ EndExpression
  \/ Reclaim

Spec == Init /\ [][Next]_gvars

=============================================================================
