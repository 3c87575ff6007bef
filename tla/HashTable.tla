----------------------------- MODULE HashTable -----------------------------
(***************************************************************************)
(* The hash tables of libflisp/src/ht.c, as the interpreter uses them: one *)
(* table holds the global variables (toplevel.special); DEFINE and SET!    *)
(* update it through the pointer &env->special, which a resize redirects   *)
(* to a new table.  A program can also hold the table itself, as the value *)
(* of (toplevel), and then SETHASH updates it through a pointer to a local *)
(* variable of proc_sethash, so that a resize redirects only the local.    *)
(*                                                                         *)
(* A table is its fill count and its buckets; a bucket is the list of its  *)
(* entries, newest first.                                                  *)
(***************************************************************************)
EXTENDS Naturals, Sequences, FiniteSets, SequencesExt

CONSTANTS Keys,      \* symbols, compared by eql
          Values,      \* values of variables
          sxhash,    \* the hash of each key
          InitSize,  \* ENV_SIZE
          Absent     \* the answer of gethash for a key it does not find

ASSUME HashAssumption == sxhash \in [Keys -> Nat]
ASSUME SizeAssumption == InitSize \in Nat /\ InitSize >= 2
ASSUME AbsentAssumption == Absent \notin Values
\* A symbol is no cell.
ASSUME KeyAssumption == Keys \cap [key : Keys, val : Values] = {}

VARIABLES
  globals,  \* the table env->special points to
  held,     \* the table a program got from (toplevel): none, that table or an older one
  last,     \* history: the value last written for each global
  strayed   \* history: keys whose new entry was added by the call that resized

hashVars == <<globals, held, last, strayed>>

Entry    == [key : Keys, val : Values]
NoHandle == [state |-> "none"]
Same     == [state |-> "same"]
Older(T) == [state |-> "older", table |-> T]

-----------------------------------------------------------------------------
(* Tables *)

Size(T)       == Cardinality(DOMAIN T.buckets)
Bucket(k, n)  == sxhash[k] % n
gc_new_ht(n)  == [fill |-> 0, buckets |-> [b \in 0 .. n - 1 |-> <<>>]]

\* assoc: the position of the first entry of a bucket for k, 0 if there is none
assoc(k, bucket) ==
  LET found == {n \in DOMAIN bucket : bucket[n].key = k}
  IN  IF found = {} THEN 0 ELSE CHOOSE n \in found : \A m \in found : n <= m

gethash(T, k) ==
  LET bucket == T.buckets[Bucket(k, Size(T))]
      n == assoc(k, bucket)
  IN  IF n = 0 THEN Absent ELSE bucket[n].val

\* mutant: an existing entry is not updated, a second one hides it
UpdateHides(T, b, n, v) ==
  [fill |-> T.fill + 1,
   buckets |-> [T.buckets EXCEPT ![b] = <<[@[n] EXCEPT !.val = v]>> \o @]]

\* e->cdr = val
Update(T, b, n, v) == [T EXCEPT !.buckets[b][n].val = v]

\* ht->buckets[b] = acons(key, val, ht->buckets[b]); ht->fill++
Push(T, b, k, v) ==
  [fill |-> T.fill + 1,
   buckets |-> [T.buckets EXCEPT ![b] = <<[key |-> k, val |-> v]>> \o @]]

\* sethash when it does not resize
Put(T, e) ==
  LET b == Bucket(e.key, Size(T))
      n == assoc(e.key, T.buckets[b])
  IN  IF n # 0 THEN Update(T, b, n, e.val) ELSE Push(T, b, e.key, e.val)

\* sethash of one entry after the other, in the order of a bucket
PutAll(T, bucket) ==
  LET put[n \in 0 .. Len(bucket)] == IF n = 0 THEN T ELSE Put(put[n - 1], bucket[n])
  IN  put[Len(bucket)]

\* (size_t)(HT_RESIZE * size)
NewSize(n) == (3 * n) \div 2

\* mutant: the buckets are taken over at their old index
ht_resizeKeepsIndex(T) ==
  [fill |-> T.fill,
   buckets |-> [b \in 0 .. NewSize(Size(T)) - 1 |->
                  IF b < Size(T) THEN T.buckets[b] ELSE <<>>]]

\* ht_resize: a new table into which every entry is put, bucket by bucket; the old
\* one is left as it was.  The calls of sethash in it do not resize again: LoadFactor.
ht_resize(T) ==
  LET new[b \in 0 .. Size(T)] == IF b = 0 THEN gc_new_ht(NewSize(Size(T)))
                                 ELSE PutAll(new[b - 1], T.buckets[b - 1])
  IN  new[Size(T)]

\* mutant: the table is resized only when every bucket is taken
OverThresholdLate(T) == T.fill > Size(T)

\* (double)fill / (double)size > HT_THRESHOLD
OverThreshold(T) == 4 * T.fill > 3 * Size(T)

Finds(T, k) == assoc(k, T.buckets[Bucket(k, Size(T))]) # 0

Resizes(T, k) == ~Finds(T, k) /\ OverThreshold(T)

\* sethash(&T, k, v): the table the pointer refers to when it returns.  The
\* bucket index was computed before the resize.
sethash(T, k, v) ==
  IF Resizes(T, k) THEN Push(ht_resize(T), Bucket(k, Size(T)), k, v)
                   ELSE Put(T, [key |-> k, val |-> v])

\* remhash compares the key with the entries of the bucket, not with their keys,
\* and an entry is no symbol.
remhash(T, k) ==
  LET b == Bucket(k, Size(T))
      found == {n \in DOMAIN T.buckets[b] : T.buckets[b][n] = k}
  IN  IF found = {} THEN T
      ELSE [fill |-> T.fill - 1, buckets |-> [T.buckets EXCEPT ![b] = RemoveAt(@, Min(found))]]

-----------------------------------------------------------------------------
(* The interpreter *)

HashInit ==
  /\ globals = gc_new_ht(InitSize)
  /\ held = NoHandle
  /\ last = [k \in Keys |-> Absent]
  /\ strayed = {}

\* env_define, and env_set of a name no frame binds.  When the table is resized
\* the program's handle keeps the old one.
env_define(k, v) ==
  /\ globals' = sethash(globals, k, v)
  /\ held' = IF Resizes(globals, k) /\ held = Same THEN Older(globals) ELSE held
  /\ last' = [last EXCEPT ![k] = v]
  /\ strayed' = IF Resizes(globals, k) THEN strayed \cup {k} ELSE strayed

\* (toplevel)
proc_toplevel ==
  /\ held' = Same
  /\ UNCHANGED <<globals, last, strayed>>

\* (sethash (toplevel) k v) while the handle is the table of globals
SetThroughHandle(k, v) ==
  /\ held = Same
  /\ ~Resizes(globals, k)
  /\ globals' = sethash(globals, k, v)
  /\ last' = [last EXCEPT ![k] = v]
  /\ UNCHANGED <<held, strayed>>

\* ... on a table that has been replaced since
SetInOlder(k, v) ==
  /\ held.state = "older"
  /\ ~Resizes(held.table, k)
  /\ held' = Older(sethash(held.table, k, v))
  /\ UNCHANGED <<globals, last, strayed>>

\* ... when the call resizes: the new table, with the new entry, is assigned to
\* the local of proc_sethash and lost when it returns.
SetIsLost(k, v) ==
  /\ \/ held = Same /\ Resizes(globals, k)
     \/ held.state = "older" /\ Resizes(held.table, k)
  /\ UNCHANGED hashVars

\* (remhash (toplevel) k)
proc_remhash(k) ==
  /\ held # NoHandle
  /\ IF held = Same THEN globals' = remhash(globals, k) /\ UNCHANGED held
     ELSE held' = Older(remhash(held.table, k)) /\ UNCHANGED globals
  /\ UNCHANGED <<last, strayed>>

HashNext ==
  \/ \E k \in Keys, v \in Values :
       \/ env_define(k, v)
       \/ SetThroughHandle(k, v)
       \/ SetInOlder(k, v)
       \/ SetIsLost(k, v)
  \/ \E k \in Keys : proc_remhash(k)
  \/ proc_toplevel

HashSpec == HashInit /\ [][HashNext]_hashVars

-----------------------------------------------------------------------------
(* Properties *)

Tables == {globals} \cup (IF held.state = "older" THEN {held.table} ELSE {})

\* Where the entries are.
Positions(T) == UNION {{b} \X DOMAIN T.buckets[b] : b \in DOMAIN T.buckets}

\* The fill count, on which the decision to resize rests, is the number of entries,
\* also after a resize has merged the two entries of one key, and the table is at
\* most one entry over its threshold: so the calls of sethash inside ht_resize find
\* the new table below it and do not resize again.
LoadFactor ==
  \A T \in Tables :
    /\ T.fill = Cardinality(Positions(T))
    /\ 4 * (T.fill - 1) <= 3 * Size(T)
    /\ 4 * (ht_resize(T).fill - 1) <= 3 * NewSize(Size(T))

Misplaced(T) ==
  {p \in Positions(T) : Bucket(T.buckets[p[1]][p[2]].key, Size(T)) # p[1]}

\* However many entries were added to a table, at most one, the one added last
\* by a call that resized, is in a bucket where gethash does not look.
AtMostOneMisplaced == \A T \in Tables : Cardinality(Misplaced(T)) <= 1

\* A global whose entry was never added by a call that resized is read as it
\* was last written, whatever happened to the other globals: the damage done by
\* the stale bucket index stays with the keys it was computed for.
OthersReadBack == \A k \in Keys \ strayed : gethash(globals, k) = last[k]

\* What ht.c:78-79 says it does: a key that is not found gets a new entry, so the
\* value just written to a global can be read.
WrittenIsRead ==
  [][\A k \in Keys : last'[k] # last[k] => gethash(globals', k) = last'[k]]_hashVars

=============================================================================
