-------------------------- MODULE EvaluatorProofs --------------------------
(***************************************************************************)
(* Proofs about Evaluator: the frames are those of the forms in their      *)
(* bodies, SET! changes one variable, and the variables of a body are      *)
(* found where they are written; for every program, all sets of variables  *)
(* and values, and whenever memory runs out.                               *)
(***************************************************************************)
EXTENDS Evaluator, TLAPS, WellFoundedInduction

ParamType == [req : Seq(Vars), rest : Vars \cup {NIL}]

Frame == [number : Nat, binds : UNION {[S -> Vals] : S \in SUBSET Vars}]

FormType ==
  [kind : {"let", "do", "set!", "define", "call", "macro"},
   pc : {"values", "body", "test", "result", "loop", "update"},
   params : ParamType, n : Nat, vals : Seq(Vals),
   own : Nat, updated : Nat, around : Seq(Nat), inside : Seq(Nat)]

Types ==
  /\ special \in [Vars -> Vals \cup {Unbound}]
  /\ lexical \in Seq(Frame)
  /\ control \in Seq(FormType)
  /\ mode \in {"eval", "return", "enter"}
  /\ val \in Vals
  /\ closures \subseteq [params : ParamType, around : Seq(Nat)]
  /\ frames \in Seq(SUBSET Vars)
  /\ lost \in BOOLEAN

\* What a form has done by the time it is at pc, when so many frames have been pushed: it
\* has a frame once it has all its values; SET! and DEFINE have one value and no frame.
Stage(f, pushed) ==
  /\ f.pc = "values" <=> f.own = 0
  /\ f.own <= pushed
  /\ f.kind \in {"set!", "define"} =>
       f.pc = "values" /\ Len(f.vals) + f.n = 1 /\ Len(f.params.req) = 1
  /\ f.pc = "update" => f.updated = f.own

\* Every form on the C stack is at its stage; one that has all its values is on top and
\* about to enter its body.
Staged ==
  /\ \A m \in 1 .. Len(control) :
       /\ Stage(control[m], Len(frames))
       /\ control[m].pc = "values" /\ control[m].n = 0 => m = 1 /\ mode = "enter"
  /\ mode = "enter" => control # <<>> /\ Top.pc = "values" /\ Top.n = 0

\* FramesBalanced without what it says about DO.
Balanced ==
  /\ FrameNumbers \subseteq OwnNumbers /\ (~lost => OwnNumbers \subseteq FrameNumbers)
  /\ \A f \in FrameNumbers, own \in OwnNumbers : own > f => own \in FrameNumbers
  /\ \A m, n \in 1 .. Len(lexical) : m < n => lexical[m].number > lexical[n].number
  /\ \A m, n \in 1 .. Len(control) :
       m < n /\ control[m].own # 0 /\ control[n].own # 0 => control[m].own > control[n].own

IInv == Types /\ Staged /\ Balanced

-----------------------------------------------------------------------------
(* Lemmas about sequences and numbers *)

\* What an element in front of a sequence leaves of it.
LEMMA Pushed ==
  ASSUME NEW S, NEW s \in Seq(S), NEW e \in S, NEW t, t = <<e>> \o s
  PROVE  /\ t \in Seq(S) /\ t # <<>>
         /\ Len(t) = Len(s) + 1
         /\ t[1] = e /\ Head(t) = e
         /\ \A i \in 2 .. Len(t) : i - 1 \in 1 .. Len(s) /\ t[i] = s[i - 1]
         /\ \A i \in 1 .. Len(s) : i + 1 \in 2 .. Len(t) /\ t[i + 1] = s[i]
<1>1. t \in Seq(S) /\ Len(t) = Len(s) + 1 /\ Len(s) \in Nat
  OBVIOUS
<1>2. t[1] = e
  OBVIOUS
<1>3. \A i \in 2 .. Len(t) : i - 1 \in 1 .. Len(s) /\ t[i] = s[i - 1]
  BY <1>1
<1> QED
  BY <1>1, <1>2, <1>3

\* What is left without the first element.
LEMMA TakenOff ==
  ASSUME NEW S, NEW s \in Seq(S), s # <<>>, NEW t, t = Tail(s)
  PROVE  /\ t \in Seq(S)
         /\ Len(s) \in Nat /\ Len(s) > 0 /\ Len(t) = Len(s) - 1
         /\ \A i \in 1 .. Len(t) : i + 1 \in 2 .. Len(s) /\ t[i] = s[i + 1]
         /\ \A i \in 2 .. Len(s) : i - 1 \in 1 .. Len(t) /\ t[i - 1] = s[i]
<1>1. t \in Seq(S) /\ Len(s) \in Nat /\ Len(s) > 0 /\ Len(t) = Len(s) - 1
  OBVIOUS
<1>2. \A i \in 1 .. Len(t) : i + 1 \in 2 .. Len(s) /\ t[i] = s[i + 1]
  BY <1>1
<1> QED
  BY <1>1, <1>2

\* What is left when the first element is replaced.
LEMMA Replaced ==
  ASSUME NEW S, NEW s \in Seq(S), s # <<>>, NEW e \in S, NEW t, t = <<e>> \o Tail(s)
  PROVE  /\ t \in Seq(S) /\ t # <<>>
         /\ Len(s) \in Nat /\ Len(s) > 0 /\ Len(t) = Len(s)
         /\ t[1] = e /\ Head(t) = e
         /\ \A i \in 2 .. Len(s) : t[i] = s[i]
<1>1. Tail(s) \in Seq(S) /\ Len(s) \in Nat /\ Len(s) > 0 /\ Len(Tail(s)) = Len(s) - 1
  OBVIOUS
<1>2. \A i \in 1 .. Len(Tail(s)) : Tail(s)[i] = s[i + 1]
  BY <1>1
<1>3. /\ t \in Seq(S) /\ t # <<>> /\ Len(t) = Len(Tail(s)) + 1
      /\ t[1] = e /\ Head(t) = e
      /\ \A i \in 2 .. Len(t) : i - 1 \in 1 .. Len(Tail(s)) /\ t[i] = Tail(s)[i - 1]
  BY <1>1, Pushed
<1> QED
  BY <1>1, <1>2, <1>3

\* The order of positions is well founded,
Less == {pair \in Nat \X Nat : pair[1] < pair[2]}

\* so a set of positions has a least one.
LEMMA LeastIs ==
  ASSUME NEW T \in SUBSET Nat, T # {}
  PROVE  Least(T) \in T /\ \A m \in T : Least(T) <= m
<1>1. PICK n \in T : \A m \in T : ~(<<m, n>> \in Less)
  <2>1. IsWellFoundedOn(Less, Nat)
    BY NatLessThanWellFounded DEF OpToRel, Less
  <2> QED
    BY <2>1, WFMin
<1>2. ASSUME NEW m \in T PROVE n <= m
  <2>1. m \in Nat /\ n \in Nat
    OBVIOUS
  <2>2. <<m, n>> \in Less <=> m < n
    BY <2>1 DEF Less
  <2> QED
    BY <1>1, <2>1, <2>2
<1> QED
  BY <1>2 DEF Least

-----------------------------------------------------------------------------
(* The environment *)

\* Binding one variable leaves a frame a frame with its number.
LEMMA BindOne ==
  ASSUME NEW f \in Frame, NEW v, NEW x \in Vals
  PROVE  [f EXCEPT !.binds[v] = x] \in Frame /\ [f EXCEPT !.binds[v] = x].number = f.number
<1>1. PICK S \in SUBSET Vars : f.binds \in [S -> Vals]
  BY DEF Frame
<1>2. [f.binds EXCEPT ![v] = x] \in [S -> Vals]
  BY <1>1
<1>3. [f EXCEPT !.binds[v] = x] = [number |-> f.number, binds |-> [f.binds EXCEPT ![v] = x]]
  BY DEF Frame
<1> QED
  BY <1>2, <1>3 DEF Frame

\* extend_env gives every name a value.
LEMMA BindsType ==
  ASSUME NEW p \in ParamType, NEW s \in Seq(Vals)
  PROVE  /\ Binds(p, s) \in UNION {[S -> Vals] : S \in SUBSET Vars}
         /\ ParamNames(p) \subseteq Vars
<1> DEFINE Nth(n) == IF n <= Len(s) THEN s[n] ELSE NIL
<1>1. p.req \in Seq(Vars) /\ p.rest \in Vars \cup {NIL} /\ Len(p.req) \in Nat
  BY DEF ParamType
<1>2. ParamNames(p) \subseteq Vars
  BY <1>1 DEF ParamNames, Range
<1>3. \A n \in Nat \ {0} : Nth(n) \in Vals
  BY ValAssumption
<1>4. ASSUME NEW v \in ParamNames(p), v # p.rest
      PROVE  (CHOOSE n \in DOMAIN p.req : p.req[n] = v) \in Nat \ {0}
  <2>1. \E n \in DOMAIN p.req : p.req[n] = v
    BY <1>4 DEF ParamNames, Range
  <2>2. (CHOOSE n \in DOMAIN p.req : p.req[n] = v) \in DOMAIN p.req
    BY <2>1
  <2>3. DOMAIN p.req \subseteq Nat \ {0}
    BY <1>1
  <2> QED
    BY <2>2, <2>3
<1>5. Binds(p, s) = [v \in ParamNames(p) |->
                      IF v = p.rest THEN Nth(Len(p.req) + 1)
                      ELSE Nth(CHOOSE n \in DOMAIN p.req : p.req[n] = v)]
  BY DEF Binds
<1>6. Len(p.req) + 1 \in Nat \ {0}
  BY <1>1
<1> HIDE DEF Nth
<1>7. Binds(p, s) \in [ParamNames(p) -> Vals]
  BY <1>3, <1>4, <1>5, <1>6
<1> QED
  BY <1>2, <1>7

\* The innermost frame that binds a variable is one of those there are.
LEMMA BoundThere ==
  ASSUME Types, NEW v, BoundIn(v) # {}
  PROVE  /\ Least(BoundIn(v)) \in 1 .. Len(lexical)
         /\ v \in DOMAIN lexical[Least(BoundIn(v))].binds
<1>1. BoundIn(v) \subseteq 1 .. Len(lexical)
  BY DEF BoundIn, Types
<1>2. Least(BoundIn(v)) \in BoundIn(v)
  BY <1>1, LeastIs DEF Types
<1> QED
  BY <1>1, <1>2 DEF BoundIn

\* A reference to a variable has a value.
LEMMA LookupType ==
  ASSUME Types, NEW v \in Vars
  PROVE  lookup(v) \in Vals
<1>1. CASE BoundIn(v) # {}
  <2>1. lexical[Least(BoundIn(v))] \in Frame
    BY <1>1, BoundThere DEF Types
  <2>2. PICK S \in SUBSET Vars : lexical[Least(BoundIn(v))].binds \in [S -> Vals]
    BY <2>1 DEF Frame
  <2> QED
    BY <1>1, <2>2, BoundThere DEF lookup
<1>2. CASE BoundIn(v) = {}
  BY <1>2, ValAssumption DEF lookup, Types
<1> QED
  BY <1>1, <1>2

\* env_set writes a variable and moves no frame.
LEMMA EnvSet ==
  ASSUME Types, NEW v \in Vars, NEW x \in Vals, env_set(v, x)
  PROVE  /\ special' \in [Vars -> Vals \cup {Unbound}]
         /\ lexical' \in Seq(Frame)
         /\ Len(lexical') = Len(lexical)
         /\ \A n \in 1 .. Len(lexical) : lexical'[n].number = lexical[n].number
<1>1. CASE BoundIn(v) = {}
  BY <1>1 DEF env_set, Types
<1>2. CASE BoundIn(v) # {}
  <2> DEFINE k == Least(BoundIn(v))
  <2>1. k \in 1 .. Len(lexical)
    BY <1>2, BoundThere
  <2>2. special' = special /\ lexical' = [lexical EXCEPT ![k].binds[v] = x]
    BY <1>2 DEF env_set
  <2> HIDE DEF k
  <2>3. lexical[k] \in Frame /\ lexical \in Seq(Frame)
    BY <2>1 DEF Types
  <2>4. /\ [lexical[k] EXCEPT !.binds[v] = x] \in Frame
        /\ [lexical[k] EXCEPT !.binds[v] = x].number = lexical[k].number
    BY <2>3, BindOne
  <2>5. lexical' = [lexical EXCEPT ![k] = [lexical[k] EXCEPT !.binds[v] = x]]
    BY <2>2
  <2> QED
    BY <2>1, <2>2, <2>3, <2>4, <2>5 DEF Types
<1> QED
  BY <1>1, <1>2

-----------------------------------------------------------------------------
(* Frames and forms *)

\* A step that neither gives a form a frame nor removes one leaves the balance.
LEMMA FramesKept ==
  ASSUME IInv,
         control' \in Seq(FormType), Len(control') = Len(control),
         \A m \in 1 .. Len(control) : control'[m].own = control[m].own,
         lexical' \in Seq(Frame), Len(lexical') = Len(lexical),
         \A n \in 1 .. Len(lexical) : lexical'[n].number = lexical[n].number,
         lost' = lost
  PROVE  Balanced'
<1>1. /\ DOMAIN control = 1 .. Len(control) /\ DOMAIN control' = 1 .. Len(control)
      /\ DOMAIN lexical = 1 .. Len(lexical) /\ DOMAIN lexical' = 1 .. Len(lexical)
  BY DEF IInv, Types
<1>2. OwnNumbers' = OwnNumbers
  <2>1. \A m \in DOMAIN control : control'[m].own = control[m].own
    BY <1>1
  <2>2. DOMAIN control' = DOMAIN control
    BY <1>1
  <2> QED
    BY <2>1, <2>2 DEF OwnNumbers
<1>3. FrameNumbers' = FrameNumbers
  BY <1>1 DEF FrameNumbers
<1> QED
  BY <1>2, <1>3 DEF IInv, Balanced

\* A form without a frame may begin,
LEMMA FormBegins ==
  ASSUME IInv, NEW f \in FormType, f.own = 0, control' = <<f>> \o control,
         UNCHANGED <<lexical, lost>>
  PROVE  Balanced'
<1>1. /\ control' \in Seq(FormType) /\ Len(control') = Len(control) + 1 /\ control'[1] = f
      /\ \A i \in 2 .. Len(control') : i - 1 \in 1 .. Len(control) /\ control'[i] = control[i - 1]
      /\ \A i \in 1 .. Len(control) : i + 1 \in 2 .. Len(control') /\ control'[i + 1] = control[i]
  BY Pushed DEF IInv, Types
<1>2. Len(control) \in Nat /\ DOMAIN control = 1 .. Len(control)
      /\ DOMAIN control' = 1 .. Len(control')
  BY <1>1 DEF IInv, Types
<1>3. OwnNumbers' = OwnNumbers
  <2>1. ASSUME NEW i \in DOMAIN control', control'[i].own # 0
        PROVE  \E j \in DOMAIN control : control[j].own = control'[i].own
    <3>1. i \in 2 .. Len(control')
      BY <1>1, <1>2, <2>1
    <3> QED
      BY <1>1, <1>2, <3>1
  <2>2. ASSUME NEW j \in DOMAIN control
        PROVE  \E i \in DOMAIN control' : control'[i].own = control[j].own
    <3>1. j + 1 \in 2 .. Len(control') /\ control'[j + 1] = control[j]
      BY <1>1, <1>2
    <3>2. j + 1 \in DOMAIN control'
      BY <1>2, <3>1
    <3> QED
      BY <3>1, <3>2
  <2>3. ASSUME NEW x \in OwnNumbers' PROVE x \in OwnNumbers
    <3>1. PICK i \in DOMAIN control' : control'[i].own = x /\ x # 0
      BY DEF OwnNumbers
    <3>2. PICK j \in DOMAIN control : control[j].own = x
      BY <2>1, <3>1
    <3> QED
      BY <3>1, <3>2 DEF OwnNumbers
  <2>4. ASSUME NEW x \in OwnNumbers PROVE x \in OwnNumbers'
    <3>1. PICK i \in DOMAIN control : control[i].own = x /\ x # 0
      BY DEF OwnNumbers
    <3>2. PICK j \in DOMAIN control' : control'[j].own = x
      BY <2>2, <3>1
    <3> QED
      BY <3>1, <3>2 DEF OwnNumbers
  <2> QED
    BY <2>3, <2>4
<1>4. ASSUME NEW m \in 1 .. Len(control'), NEW n \in 1 .. Len(control'), m < n,
             control'[m].own # 0, control'[n].own # 0
      PROVE  control'[m].own > control'[n].own
  <2>1. m \in 2 .. Len(control') /\ n \in 2 .. Len(control')
    BY <1>1, <1>2, <1>4
  <2>2. /\ m - 1 \in 1 .. Len(control) /\ control'[m] = control[m - 1]
        /\ n - 1 \in 1 .. Len(control) /\ control'[n] = control[n - 1]
    BY <1>1, <2>1
  <2>3. m - 1 < n - 1
    BY <1>4, <1>2
  <2> QED
    BY <1>4, <2>2, <2>3 DEF IInv, Balanced
<1>5. FrameNumbers' = FrameNumbers
  BY DEF FrameNumbers
<1> QED
  BY <1>3, <1>4, <1>5 DEF IInv, Balanced

\* and a form that has none yet may be given up.
LEMMA FormGivenUp ==
  ASSUME IInv, control # <<>>, Top.own = 0, control' = Tail(control),
         lexical' \in Seq(Frame), Len(lexical') = Len(lexical),
         \A n \in 1 .. Len(lexical) : lexical'[n].number = lexical[n].number,
         lost' = lost
  PROVE  Balanced'
<1>1. /\ control' \in Seq(FormType) /\ Len(control) \in Nat /\ Len(control) > 0
      /\ Len(control') = Len(control) - 1
      /\ \A i \in 1 .. Len(control') : i + 1 \in 2 .. Len(control) /\ control'[i] = control[i + 1]
      /\ \A i \in 2 .. Len(control) : i - 1 \in 1 .. Len(control') /\ control'[i - 1] = control[i]
  BY TakenOff DEF IInv, Types
<1>2. /\ DOMAIN control = 1 .. Len(control) /\ DOMAIN control' = 1 .. Len(control')
      /\ DOMAIN lexical = 1 .. Len(lexical) /\ DOMAIN lexical' = 1 .. Len(lexical)
      /\ control[1].own = 0
  BY <1>1 DEF IInv, Types, Top
<1>3. OwnNumbers' = OwnNumbers
  <2>1. ASSUME NEW i \in DOMAIN control, control[i].own # 0
        PROVE  \E j \in DOMAIN control' : control'[j].own = control[i].own
    <3>1. i \in 2 .. Len(control)
      BY <1>1, <1>2, <2>1
    <3>2. i - 1 \in 1 .. Len(control') /\ control'[i - 1] = control[i]
      BY <1>1, <3>1
    <3> QED
      BY <1>2, <3>2
  <2>2. ASSUME NEW j \in DOMAIN control'
        PROVE  \E i \in DOMAIN control : control[i].own = control'[j].own
    <3>1. j + 1 \in 2 .. Len(control) /\ control'[j] = control[j + 1]
      BY <1>1, <1>2
    <3>2. j + 1 \in DOMAIN control
      BY <1>2, <3>1
    <3> QED
      BY <3>1, <3>2
  <2>3. ASSUME NEW x \in OwnNumbers' PROVE x \in OwnNumbers
    <3>1. PICK i \in DOMAIN control' : control'[i].own = x /\ x # 0
      BY DEF OwnNumbers
    <3>2. PICK j \in DOMAIN control : control[j].own = x
      BY <2>2, <3>1
    <3> QED
      BY <3>1, <3>2 DEF OwnNumbers
  <2>4. ASSUME NEW x \in OwnNumbers PROVE x \in OwnNumbers'
    <3>1. PICK i \in DOMAIN control : control[i].own = x /\ x # 0
      BY DEF OwnNumbers
    <3>2. PICK j \in DOMAIN control' : control'[j].own = x
      BY <2>1, <3>1
    <3> QED
      BY <3>1, <3>2 DEF OwnNumbers
  <2> QED
    BY <2>3, <2>4
<1>4. ASSUME NEW m \in 1 .. Len(control'), NEW n \in 1 .. Len(control'), m < n,
             control'[m].own # 0, control'[n].own # 0
      PROVE  control'[m].own > control'[n].own
  <2>1. /\ m + 1 \in 1 .. Len(control) /\ control'[m] = control[m + 1]
        /\ n + 1 \in 1 .. Len(control) /\ control'[n] = control[n + 1]
    BY <1>1
  <2>2. m + 1 < n + 1
    BY <1>4
  <2> QED
    BY <1>4, <2>1, <2>2 DEF IInv, Balanced
<1>5. FrameNumbers' = FrameNumbers
  BY <1>2 DEF FrameNumbers
<1> QED
  BY <1>3, <1>4, <1>5 DEF IInv, Balanced

\* On top of what forms, and of what their steps do, the stages are kept: when no form
\* begins or ends,
LEMMA StagesKept ==
  ASSUME IInv, UNCHANGED <<control, frames>>, mode # "enter", mode' # "enter"
  PROVE  Staged'
BY DEF IInv, Staged

\* when the form on top goes on,
LEMMA TopGoesOn ==
  ASSUME IInv, control # <<>>,
         NEW e \in FormType, control' = <<e>> \o Tail(control),
         Len(frames') \in Nat, Len(frames') >= Len(frames), Stage(e, Len(frames')),
         mode' = "enter" <=> e.pc = "values" /\ e.n = 0
  PROVE  Staged'
<1>1. /\ control' \in Seq(FormType) /\ control' # <<>>
      /\ Len(control) \in Nat /\ Len(control') = Len(control)
      /\ control'[1] = e /\ Head(control') = e
      /\ \A i \in 2 .. Len(control) : control'[i] = control[i]
  BY Replaced DEF IInv, Types
<1>2. ASSUME NEW m \in 1 .. Len(control')
      PROVE  /\ Stage(control'[m], Len(frames'))
             /\ control'[m].pc = "values" /\ control'[m].n = 0 => m = 1 /\ mode' = "enter"
  <2>1. CASE m = 1
    BY <1>1, <2>1
  <2>2. CASE m # 1
    <3>1. m \in 2 .. Len(control) /\ control'[m] = control[m] /\ control[m] \in FormType
      BY <1>1, <2>2 DEF IInv, Types
    <3>2. /\ Stage(control[m], Len(frames))
          /\ ~(control[m].pc = "values" /\ control[m].n = 0)
      BY <1>1, <3>1, <2>2 DEF IInv, Staged
    <3>3. Len(frames) \in Nat
      BY DEF IInv, Types
    <3>4. control[m].own \in Nat
      BY <3>1 DEF FormType
    <3> QED
      BY <3>1, <3>2, <3>3, <3>4 DEF Stage
  <2> QED
    BY <2>1, <2>2
<1>3. mode' = "enter" => control' # <<>> /\ Top'.pc = "values" /\ Top'.n = 0
  BY <1>1 DEF Top
<1> QED
  BY <1>2, <1>3 DEF Staged

\* when one begins,
LEMMA OneBegins ==
  ASSUME IInv, NEW e \in FormType, control' = <<e>> \o control, UNCHANGED frames,
         Stage(e, Len(frames)), mode # "enter",
         mode' = "enter" <=> e.pc = "values" /\ e.n = 0
  PROVE  Staged'
<1>1. /\ control' \in Seq(FormType) /\ control' # <<>>
      /\ control'[1] = e /\ Head(control') = e
      /\ \A i \in 2 .. Len(control') : i - 1 \in 1 .. Len(control) /\ control'[i] = control[i - 1]
  BY Pushed DEF IInv, Types
<1>2. ASSUME NEW m \in 1 .. Len(control')
      PROVE  /\ Stage(control'[m], Len(frames))
             /\ control'[m].pc = "values" /\ control'[m].n = 0 => m = 1 /\ mode' = "enter"
  <2>1. CASE m = 1
    BY <1>1, <2>1
  <2>2. CASE m # 1
    <3>1. m \in 2 .. Len(control')
      BY <1>1, <2>2
    <3> QED
      BY <1>1, <3>1 DEF IInv, Staged
  <2> QED
    BY <2>1, <2>2
<1>3. mode' = "enter" => control' # <<>> /\ Top'.pc = "values" /\ Top'.n = 0
  BY <1>1 DEF Top
<1> QED
  BY <1>2, <1>3 DEF Staged

\* and when the one on top ends.
LEMMA TopEnds ==
  ASSUME IInv, control # <<>>, control' = Tail(control), UNCHANGED frames, mode' # "enter"
  PROVE  Staged'
<1>1. \A i \in 1 .. Len(control') : i + 1 \in 2 .. Len(control) /\ control'[i] = control[i + 1]
  BY TakenOff DEF IInv, Types
<1>2. ASSUME NEW m \in 1 .. Len(control')
      PROVE  /\ Stage(control'[m], Len(frames))
             /\ ~(control'[m].pc = "values" /\ control'[m].n = 0)
  <2>1. m + 1 \in 1 .. Len(control) /\ control'[m] = control[m + 1] /\ m + 1 # 1
    BY <1>1
  <2> QED
    BY <2>1 DEF IInv, Staged
<1> QED
  BY <1>2 DEF Staged

\* What the form on top is, when there is one.
LEMMA TopIs ==
  ASSUME IInv, control # <<>>
  PROVE  /\ Top \in FormType
         /\ Stage(Top, Len(frames))
         /\ Top.pc = "values" /\ Top.n = 0 <=> mode = "enter"
         /\ Tail(control) \in Seq(FormType)
<1>1. Len(control) \in Nat /\ 1 \in 1 .. Len(control) /\ Top = control[1]
  BY DEF IInv, Types, Top
<1>2. Top \in FormType /\ Tail(control) \in Seq(FormType)
  BY <1>1 DEF IInv, Types
<1> QED
  BY <1>1, <1>2 DEF IInv, Staged

-----------------------------------------------------------------------------
(* The actions *)

\* At the toplevel there is no form and no frame.
LEMMA InitInv == Init => IInv
<1> SUFFICES ASSUME Init PROVE IInv
  OBVIOUS
<1>1. Types
  <2>1. special \in [Vars -> Vals \cup {Unbound}]
    BY DEF Init
  <2>2. lexical \in Seq(Frame) /\ control \in Seq(FormType) /\ frames \in Seq(SUBSET Vars)
    BY DEF Init
  <2> QED
    BY <2>1, <2>2, ValAssumption DEF Init, Types
<1>2. Staged
  BY DEF Init, Staged
<1>3. OwnNumbers = {} /\ FrameNumbers = {}
  BY DEF Init, OwnNumbers, FrameNumbers
<1>4. Balanced
  BY <1>3 DEF Init, Balanced
<1> QED
  BY <1>1, <1>2, <1>4 DEF IInv

\* An expression that is no form, and the way on to the next one.
LEMMA ExpressionStep ==
  ASSUME IInv,
         \/ \E x \in Vals : Constant(x)
         \/ \E v \in Vars : Variable(v)
         \/ \E p \in ParamLists : Lambda(p) \/ \E v \in Vars : DefineClosure(v, p)
         \/ GoesOn
  PROVE  IInv'
<1>1. /\ UNCHANGED <<control, lexical, frames, lost>>
      /\ mode # "enter" /\ mode' \in {"eval", "return"}
  BY DEF Constant, Variable, Lambda, DefineClosure, MakeClosure, GoesOn
<1>2. val' \in Vals
  BY LookupType DEF IInv, Types, Constant, Variable, Lambda, DefineClosure, GoesOn
<1>3. special' \in [Vars -> Vals \cup {Unbound}]
  BY DEF IInv, Types, Constant, Variable, Lambda, DefineClosure, GoesOn
<1>4. closures' \subseteq [params : ParamType, around : Seq(Nat)]
  <2>1. CASE closures' = closures
    BY <2>1 DEF IInv, Types
  <2>2. CASE \E p \in ParamLists : closures' = closures \cup {[params |-> p, around |-> Around]}
    <3>1. Around \in Seq(Nat)
      <4>1. CASE control = <<>>
        BY <4>1 DEF Around
      <4>2. CASE control # <<>>
        BY <4>2, TopIs DEF Around, FormType
      <4> QED
        BY <4>1, <4>2
    <3> QED
      BY <2>2, <3>1, ParamAssumption DEF IInv, Types, ParamType
  <2> QED
    BY <2>1, <2>2 DEF Constant, Variable, Lambda, DefineClosure, MakeClosure, GoesOn
<1>5. Types'
  BY <1>1, <1>2, <1>3, <1>4 DEF IInv, Types
<1>6. Staged'
  BY <1>1, StagesKept
<1>7. Balanced'
  BY <1>1, FramesKept DEF IInv, Types
<1> QED
  BY <1>5, <1>6, <1>7 DEF IInv

\* The frames around an expression are numbers.
LEMMA AroundType ==
  ASSUME IInv
  PROVE  Around \in Seq(Nat)
<1>1. CASE control = <<>>
  BY <1>1 DEF Around
<1>2. CASE control # <<>>
  BY <1>2, TopIs DEF Around, FormType
<1> QED
  BY <1>1, <1>2

\* The beginning of a form.
LEMMA BeginStep ==
  ASSUME IInv,
         NEW kind \in {"let", "do", "set!", "define", "call", "macro"},
         NEW params \in ParamType, NEW n \in Nat, NEW inside \in Seq(Nat),
         kind \in {"set!", "define"} => n = 1 /\ Len(params.req) = 1,
         Begin(kind, params, n, inside)
  PROVE  IInv'
<1> DEFINE f == Form(kind, params, n, inside)
<1>1. /\ f \in FormType /\ f.pc = "values" /\ f.n = n /\ f.own = 0
      /\ f.kind = kind /\ f.params = params /\ f.vals = <<>>
  BY AroundType DEF Form, FormType
<1>2. /\ control' = <<f>> \o control /\ mode = "eval" /\ mode' \in {"eval", "enter"}
      /\ mode' = "enter" <=> n = 0
      /\ UNCHANGED <<special, lexical, val, closures, frames, lost>>
  BY DEF Begin
<1> HIDE DEF f
<1>3. Stage(f, Len(frames))
  BY <1>1 DEF Stage, IInv, Types
<1>4. control' \in Seq(FormType)
  BY <1>1, <1>2 DEF IInv, Types
<1>5. Types'
  BY <1>2, <1>4 DEF IInv, Types
<1>6. Staged'
  BY <1>1, <1>2, <1>3, OneBegins
<1>7. Balanced'
  BY <1>1, <1>2, FormBegins
<1> QED
  BY <1>5, <1>6, <1>7 DEF IInv

\* Every form begins with no frame and the expressions it has to evaluate.
LEMMA FormStep ==
  ASSUME IInv,
         \/ \E v \in Vars : BeginSet(v) \/ BeginDefine(v)
         \/ \E p \in ParamLists : BeginLet(p) \/ BeginDo(p)
         \/ \E c \in closures : (\E n \in 0 .. MaxArgs : BeginCall(c, n)) \/ BeginMacro(c)
  PROVE  IInv'
<1>1. ASSUME NEW v \in Vars, BeginSet(v) \/ BeginDefine(v) PROVE IInv'
  <2>1. [req |-> <<v>>, rest |-> NIL] \in ParamType /\ Len(<<v>>) = 1
    BY DEF ParamType
  <2> QED
    BY <1>1, <2>1, BeginStep, AroundType DEF BeginSet, BeginDefine
<1>2. ASSUME NEW p \in ParamLists, BeginLet(p) \/ BeginDo(p) PROVE IInv'
  <2>1. WithoutRest(p) \in ParamType /\ Len(p.req) \in Nat
    BY ParamAssumption DEF WithoutRest, ParamType
  <2> QED
    BY <1>2, <2>1, BeginStep, AroundType DEF BeginLet, BeginDo
<1>3. ASSUME NEW c \in closures, (\E n \in 0 .. MaxArgs : BeginCall(c, n)) \/ BeginMacro(c)
      PROVE  IInv'
  <2>1. c.params \in ParamType /\ c.around \in Seq(Nat)
    BY DEF IInv, Types
  <2>2. 0 .. MaxArgs \subseteq Nat
    BY BoundAssumption
  <2> QED
    BY <1>3, <2>1, <2>2, BeginStep DEF BeginCall, BeginMacro
<1> QED
  BY <1>1, <1>2, <1>3

\* A form that is given up before it has a frame.
LEMMA FormErrorStep ==
  ASSUME IInv, FormError
  PROVE  IInv'
<1>1. /\ control # <<>> /\ Top.own = 0 /\ control' = Tail(control)
      /\ mode' = "return" /\ val' = NIL /\ UNCHANGED <<special, lexical, closures, frames, lost>>
  BY TopIs DEF FormError, Stage
<1>2. Types'
  BY <1>1, TopIs, ValAssumption DEF IInv, Types
<1>3. Staged'
  BY <1>1, TopEnds
<1>4. Balanced'
  BY <1>1, FormGivenUp DEF IInv, Types
<1> QED
  BY <1>2, <1>3, <1>4 DEF IInv

\* What SET! and DEFINE have when they have their value.
LEMMA AssignmentIs ==
  ASSUME IInv, mode = "enter", Assigns
  PROVE  /\ control # <<>> /\ Top.own = 0 /\ Tail(control) \in Seq(FormType)
         /\ Top.params.req[1] \in Vars /\ Top.vals[1] \in Vals
<1>1. control # <<>>
  BY DEF IInv, Staged
<1>2. /\ Top \in FormType /\ Stage(Top, Len(frames)) /\ Top.n = 0
      /\ Tail(control) \in Seq(FormType)
  BY <1>1, TopIs
<1>3. Top.vals \in Seq(Vals) /\ Top.params \in ParamType
  BY <1>2 DEF FormType
<1>4. Top.pc = "values" /\ Len(Top.vals) + Top.n = 1 /\ Len(Top.params.req) = 1 /\ Top.own = 0
  BY <1>2 DEF Stage, Assigns
<1>5. Len(Top.vals) = 1
  BY <1>2, <1>3, <1>4
<1>6. Top.params.req \in Seq(Vars)
  BY <1>3 DEF ParamType
<1> QED
  BY <1>1, <1>2, <1>3, <1>4, <1>5, <1>6

\* SET! and DEFINE end without a frame.
LEMMA AssignStep ==
  ASSUME IInv, DoSet \/ DoDefine
  PROVE  IInv'
<1>1. /\ control # <<>> /\ Top.own = 0 /\ Tail(control) \in Seq(FormType)
      /\ Top.params.req[1] \in Vars /\ Top.vals[1] \in Vals
  BY AssignmentIs DEF DoSet, DoDefine, Assigns
<1>2. /\ control' = Tail(control) /\ mode' = "return" /\ val' \in Vals
      /\ UNCHANGED <<closures, frames, lost>>
  BY DEF DoSet, DoDefine
<1>3. /\ special' \in [Vars -> Vals \cup {Unbound}]
      /\ lexical' \in Seq(Frame) /\ Len(lexical') = Len(lexical)
      /\ \A n \in 1 .. Len(lexical) : lexical'[n].number = lexical[n].number
  <2>1. CASE DoSet
    BY <1>1, <2>1, EnvSet DEF DoSet, IInv
  <2>2. CASE DoDefine
    BY <1>1, <2>2 DEF DoDefine, IInv, Types
  <2> QED
    BY <2>1, <2>2
<1>4. Types'
  BY <1>1, <1>2, <1>3 DEF IInv, Types
<1>5. Staged'
  BY <1>1, <1>2, TopEnds
<1>6. Balanced'
  BY <1>1, <1>2, <1>3, FormGivenUp
<1> QED
  BY <1>4, <1>5, <1>6 DEF IInv

\* A step of the form on top that neither pushes nor pops a frame.
LEMMA TopStep ==
  ASSUME IInv, control # <<>>,
         NEW e \in FormType, control' = <<e>> \o Tail(control), e.own = Top.own,
         Stage(e, Len(frames)),
         mode' \in {"eval", "enter"},
         mode' = "enter" <=> e.pc = "values" /\ e.n = 0,
         lexical' \in Seq(Frame), Len(lexical') = Len(lexical),
         \A n \in 1 .. Len(lexical) : lexical'[n].number = lexical[n].number,
         UNCHANGED <<special, val, closures, frames, lost>>
  PROVE  IInv'
<1>1. /\ control' \in Seq(FormType) /\ Len(control') = Len(control)
      /\ control'[1] = e /\ Top = control[1]
      /\ \A i \in 2 .. Len(control) : control'[i] = control[i]
  BY Replaced DEF IInv, Types, Top
<1>2. \A m \in 1 .. Len(control) : control'[m].own = control[m].own
  <2> TAKE m \in 1 .. Len(control)
  <2>1. m = 1 \/ m \in 2 .. Len(control)
    BY DEF IInv, Types
  <2> QED
    BY <1>1, <2>1
<1>3. Types'
  BY <1>1 DEF IInv, Types
<1>4. Len(frames') \in Nat /\ Len(frames') = Len(frames)
  BY DEF IInv, Types
<1>5. Staged'
  BY <1>4, TopGoesOn
<1>6. Balanced'
  BY <1>1, <1>2, FramesKept
<1> QED
  BY <1>3, <1>5, <1>6 DEF IInv

\* One value more, one expression less.
LEMMA TakeValueStep ==
  ASSUME IInv, TakeValue
  PROVE  IInv'
<1> DEFINE e == [Top EXCEPT !.vals = Append(@, val), !.n = @ - 1]
<1>1. /\ control # <<>> /\ Top.pc = "values" /\ mode = "return"
      /\ control' = <<e>> \o Tail(control)
      /\ mode' = IF Top.n = 1 THEN "enter" ELSE "eval"
      /\ UNCHANGED <<special, lexical, val, closures, frames, lost>>
  BY DEF TakeValue, Replace
<1>2. Top \in FormType /\ Stage(Top, Len(frames)) /\ Top.n # 0
  BY <1>1, TopIs
<1>3. Top.n \in Nat /\ Top.vals \in Seq(Vals)
  BY <1>2 DEF FormType
<1>4. Append(Top.vals, val) \in Seq(Vals) /\ Len(Append(Top.vals, val)) = Len(Top.vals) + 1
  BY <1>3 DEF IInv, Types
<1>5. Top.n - 1 \in Nat
  BY <1>2, <1>3
<1>6. /\ e \in FormType /\ e.own = Top.own /\ e.pc = Top.pc /\ e.kind = Top.kind
      /\ e.params = Top.params /\ e.n = Top.n - 1 /\ e.vals = Append(Top.vals, val)
      /\ e.updated = Top.updated
  BY <1>2, <1>4, <1>5 DEF FormType
<1> HIDE DEF e
<1>7. Len(Top.vals) \in Nat
  BY <1>3
<1>8. Stage(e, Len(frames))
  BY <1>2, <1>3, <1>4, <1>6, <1>7 DEF Stage
<1>9. mode' \in {"eval", "enter"} /\ (mode' = "enter" <=> e.pc = "values" /\ e.n = 0)
  BY <1>1, <1>3, <1>6
<1>10. lexical' \in Seq(Frame) /\ Len(lexical') = Len(lexical)
       /\ \A n \in 1 .. Len(lexical) : lexical'[n].number = lexical[n].number
  BY <1>1 DEF IInv, Types
<1> QED
  BY <1>1, <1>6, <1>8, <1>9, <1>10, TopStep

\* The test of DO ends the loop or goes on with it.
LEMMA DoTestStep ==
  ASSUME IInv, DoTest
  PROVE  IInv'
<1> DEFINE e == [Top EXCEPT !.pc = IF val # NIL THEN "result" ELSE "loop"]
<1>1. /\ control # <<>> /\ Top.pc = "test" /\ control' = <<e>> \o Tail(control)
      /\ mode' = "eval" /\ UNCHANGED <<special, lexical, val, closures, frames, lost>>
  BY DEF DoTest, Replace
<1>2. Top \in FormType /\ Stage(Top, Len(frames))
  BY <1>1, TopIs
<1>3. /\ e \in FormType /\ e.own = Top.own /\ e.pc \in {"result", "loop"} /\ e.kind = Top.kind
  BY <1>2 DEF FormType
<1> HIDE DEF e
<1>4. Stage(e, Len(frames))
  BY <1>1, <1>2, <1>3 DEF Stage
<1>5. lexical' \in Seq(Frame) /\ Len(lexical') = Len(lexical)
      /\ \A n \in 1 .. Len(lexical) : lexical'[n].number = lexical[n].number
  BY <1>1 DEF IInv, Types
<1>6. mode' \in {"eval", "enter"} /\ (mode' = "enter" <=> e.pc = "values" /\ e.n = 0)
  BY <1>1, <1>3
<1> QED
  BY <1>1, <1>3, <1>4, <1>5, <1>6, TopStep

\* The frame of the form on top is newer than those of all other forms.
LEMMA TopIsNewest ==
  ASSUME IInv, control # <<>>, Top.own # 0
  PROVE  /\ Top.own \in OwnNumbers
         /\ \A x \in OwnNumbers : x \in Nat /\ x <= Top.own
<1>1. /\ DOMAIN control = 1 .. Len(control) /\ 1 \in 1 .. Len(control) /\ Top = control[1]
      /\ Len(control) \in Nat
  BY DEF IInv, Types, Top
<1>2. Top.own \in OwnNumbers
  BY <1>1 DEF OwnNumbers
<1>3. ASSUME NEW x \in OwnNumbers PROVE x \in Nat /\ x <= Top.own
  <2>1. PICK j \in 1 .. Len(control) : control[j].own = x /\ x # 0
    BY <1>1 DEF OwnNumbers
  <2>2. control[j] \in FormType /\ control[1] \in FormType
    BY <1>1 DEF IInv, Types
  <2>3. x \in Nat /\ Top.own \in Nat
    BY <1>1, <2>1, <2>2 DEF FormType
  <2>4. j = 1 \/ 1 < j
    BY <1>1
  <2>5. CASE 1 < j
    BY <1>1, <2>1, <2>3, <2>5 DEF IInv, Balanced
  <2> QED
    BY <1>1, <2>1, <2>3, <2>4, <2>5
<1> QED
  BY <1>2, <1>3

\* The innermost frame, when there is one, is that of the form on top.
LEMMA TopFrame ==
  ASSUME IInv, control # <<>>, Top.own # 0, lexical # <<>>
  PROVE  /\ Head(lexical).number = Top.own
         /\ \A n \in 2 .. Len(lexical) : lexical[n].number # Top.own
<1>1. /\ DOMAIN lexical = 1 .. Len(lexical) /\ 1 \in 1 .. Len(lexical)
      /\ Len(lexical) \in Nat /\ Head(lexical) = lexical[1]
      /\ \A n \in 1 .. Len(lexical) : lexical[n] \in Frame
  BY DEF IInv, Types
<1>2. \A n \in 1 .. Len(lexical) : lexical[n].number \in Nat /\ lexical[n].number \in FrameNumbers
  BY <1>1 DEF Frame, FrameNumbers
<1>3. \A n \in 2 .. Len(lexical) : lexical[1].number > lexical[n].number
  BY <1>1 DEF IInv, Balanced
<1>4. lexical[1].number \in OwnNumbers /\ lexical[1].number <= Top.own
  BY <1>1, <1>2, TopIsNewest DEF IInv, Balanced
<1>5. Top.own \in Nat /\ Top.own \in OwnNumbers
  BY TopIsNewest
<1>6. ASSUME lexical[1].number < Top.own PROVE FALSE
  <2>1. Top.own \in FrameNumbers
    BY <1>1, <1>2, <1>5, <1>6 DEF IInv, Balanced
  <2>2. PICK n \in 1 .. Len(lexical) : lexical[n].number = Top.own
    BY <1>1, <2>1 DEF FrameNumbers
  <2>3. n = 1 \/ n \in 2 .. Len(lexical)
    BY <1>1
  <2> QED
    BY <1>1, <1>2, <1>3, <1>6, <2>2, <2>3
<1>7. lexical[1].number = Top.own
  BY <1>1, <1>2, <1>4, <1>5, <1>6
<1>8. \A n \in 2 .. Len(lexical) : n \in 1 .. Len(lexical)
  BY <1>1
<1> QED
  BY <1>1, <1>2, <1>3, <1>7, <1>8

\* DO updates its own frame, or goes on when it is lost.
LEMMA DoBodyEndsStep ==
  ASSUME IInv, DoBodyEnds
  PROVE  IInv'
<1>1. /\ control # <<>> /\ Top.pc = "loop" /\ mode' = "eval"
      /\ UNCHANGED <<special, lexical, val, closures, frames, lost>>
  BY DEF DoBodyEnds
<1>2. /\ Top \in FormType /\ Stage(Top, Len(frames)) /\ Top.own # 0
  BY <1>1, TopIs DEF Stage
<1>3. /\ lexical' \in Seq(Frame) /\ Len(lexical') = Len(lexical)
      /\ \A n \in 1 .. Len(lexical) : lexical'[n].number = lexical[n].number
  BY <1>1 DEF IInv, Types
<1>4. CASE lexical # <<>> /\ Head(lexical).binds # <<>>
  <2> DEFINE e == [Top EXCEPT !.n = 1, !.pc = "update", !.updated = Head(lexical).number]
  <2>1. control' = <<e>> \o Tail(control)
    BY <1>4 DEF DoBodyEnds, Replace
  <2>2. Head(lexical).number = Top.own /\ Top.own \in Nat
    BY <1>1, <1>2, <1>4, TopFrame DEF FormType
  <2>3. /\ e \in FormType /\ e.own = Top.own /\ e.pc = "update" /\ e.kind = Top.kind
        /\ e.updated = Top.own
    BY <1>2, <2>2 DEF FormType
  <2> HIDE DEF e
  <2>4. Stage(e, Len(frames))
    BY <1>1, <1>2, <2>3 DEF Stage
  <2>5. mode' \in {"eval", "enter"} /\ (mode' = "enter" <=> e.pc = "values" /\ e.n = 0)
    BY <1>1, <2>3
  <2> QED
    BY <1>1, <1>3, <2>1, <2>3, <2>4, <2>5, TopStep
<1>5. CASE ~(lexical # <<>> /\ Head(lexical).binds # <<>>)
  <2> DEFINE e == [Top EXCEPT !.pc = "test"]
  <2>1. control' = <<e>> \o Tail(control)
    BY <1>5 DEF DoBodyEnds, Replace
  <2>2. e \in FormType /\ e.own = Top.own /\ e.pc = "test" /\ e.kind = Top.kind
    BY <1>2 DEF FormType
  <2> HIDE DEF e
  <2>3. Stage(e, Len(frames))
    BY <1>1, <1>2, <2>2 DEF Stage
  <2>4. mode' \in {"eval", "enter"} /\ (mode' = "enter" <=> e.pc = "values" /\ e.n = 0)
    BY <1>1, <2>2
  <2> QED
    BY <1>1, <1>3, <2>1, <2>2, <2>3, <2>4, TopStep
<1> QED
  BY <1>4, <1>5

\* An update of DO binds a variable in a frame and moves none.
LEMMA DoUpdateStep ==
  ASSUME IInv, DoUpdate
  PROVE  IInv'
<1> DEFINE e == IF Top.n = Len(Top.params.req)
                  THEN [Top EXCEPT !.n = 0, !.pc = "test", !.updated = 0]
                  ELSE [Top EXCEPT !.n = @ + 1]
<1>1. /\ control # <<>> /\ Top.pc = "update" /\ control' = <<e>> \o Tail(control)
      /\ mode' = "eval" /\ UNCHANGED <<special, val, closures, frames, lost>>
      /\ lexical' = [n \in DOMAIN lexical |->
                       IF lexical[n].number = Top.updated
                         THEN [lexical[n] EXCEPT !.binds[Top.params.req[Top.n]] = val]
                         ELSE lexical[n]]
  BY DEF DoUpdate, Replace
<1>2. Top \in FormType /\ Stage(Top, Len(frames))
  BY <1>1, TopIs
<1>3. Top.n + 1 \in Nat
  BY <1>2 DEF FormType
<1>4. /\ e \in FormType /\ e.own = Top.own /\ e.kind = Top.kind
      /\ e.pc = "test" \/ (e.pc = "update" /\ e.updated = Top.updated)
  BY <1>1, <1>2, <1>3 DEF FormType
<1> HIDE DEF e
<1>5. Stage(e, Len(frames))
  BY <1>1, <1>2, <1>4 DEF Stage
<1>6. mode' \in {"eval", "enter"} /\ (mode' = "enter" <=> e.pc = "values" /\ e.n = 0)
  BY <1>1, <1>4
<1>7. DOMAIN lexical = 1 .. Len(lexical) /\ Len(lexical) \in Nat
      /\ val \in Vals /\ \A n \in 1 .. Len(lexical) : lexical[n] \in Frame
  BY DEF IInv, Types
<1>8. \A n \in 1 .. Len(lexical) :
        lexical'[n] \in Frame /\ lexical'[n].number = lexical[n].number
  <2> TAKE n \in 1 .. Len(lexical)
  <2> DEFINE set == [lexical[n] EXCEPT !.binds[Top.params.req[Top.n]] = val]
  <2>1. set \in Frame /\ set.number = lexical[n].number
    BY <1>7, BindOne
  <2>2. lexical'[n] = set \/ lexical'[n] = lexical[n]
    BY <1>1, <1>7
  <2> HIDE DEF set
  <2> QED
    BY <1>7, <2>1, <2>2
<1>9. lexical' \in Seq(Frame) /\ Len(lexical') = Len(lexical)
  BY <1>1, <1>7, <1>8
<1> QED
  BY <1>1, <1>4, <1>5, <1>6, <1>8, <1>9, TopStep

\* The new frame is newer than all others and becomes that of the form on top; or all
\* frames are lost.
LEMMA PushFrameStep ==
  ASSUME IInv, PushFrame
  PROVE  IInv'
<1> DEFINE number == Len(frames) + 1
           new == [number |-> number, binds |-> Binds(Top.params, Top.vals)]
           e == [Top EXCEPT !.pc = IF Top.kind = "do" THEN "test" ELSE "body",
                            !.n = 0, !.vals = <<>>, !.own = number,
                            !.around = <<number>> \o Top.inside]
<1>1. /\ mode = "enter" /\ ~Assigns /\ mode' = "eval"
      /\ frames' = Append(frames, ParamNames(Top.params))
      /\ control' = <<e>> \o Tail(control)
      /\ \/ lexical' = <<new>> \o lexical /\ lost' = lost
         \/ lexical' = <<>> /\ lost' = TRUE
      /\ UNCHANGED <<special, val, closures>>
  BY DEF PushFrame, Replace
<1>2. control # <<>> /\ Top \in FormType /\ Stage(Top, Len(frames)) /\ Top.own = 0
  BY <1>1, TopIs DEF IInv, Staged, Stage
<1>3. number \in Nat /\ number # 0 /\ Len(frames) \in Nat
  BY DEF IInv, Types
<1>4. Top.params \in ParamType /\ Top.vals \in Seq(Vals) /\ Top.inside \in Seq(Nat)
  BY <1>2 DEF FormType
<1>5. new \in Frame /\ new.number = number
  BY <1>3, <1>4, BindsType DEF Frame
<1>6. <<number>> \o Top.inside \in Seq(Nat)
  BY <1>3, <1>4
<1>7. /\ e \in FormType /\ e.own = number /\ e.pc \in {"test", "body"} /\ e.kind = Top.kind
  <2>1. <<>> \in Seq(Vals)
    OBVIOUS
  <2> HIDE DEF number
  <2> QED
    BY <1>2, <1>3, <1>6, <2>1 DEF FormType
<1>8. frames' \in Seq(SUBSET Vars) /\ Len(frames') = number
  BY <1>1, <1>4, BindsType DEF IInv, Types
<1> HIDE DEF number, new, e
<1>9. /\ control' \in Seq(FormType) /\ Len(control) \in Nat /\ Len(control') = Len(control)
      /\ control'[1] = e /\ Top = control[1] /\ 1 \in 1 .. Len(control)
      /\ \A i \in 2 .. Len(control) : control'[i] = control[i]
      /\ DOMAIN control = 1 .. Len(control) /\ DOMAIN control' = 1 .. Len(control)
  BY <1>1, <1>2, <1>7, Replaced DEF IInv, Types, Top
<1>10. Types'
  <2>1. lexical' = <<new>> \o lexical => lexical' \in Seq(Frame)
    BY <1>5, Pushed DEF IInv, Types
  <2>2. lexical' = <<>> => lexical' \in Seq(Frame)
    OBVIOUS
  <2>3. lexical' \in Seq(Frame)
    BY <1>1, <2>1, <2>2
  <2> QED
    BY <1>1, <1>8, <1>9, <2>3 DEF IInv, Types
<1>11. Staged'
  <2>1. Stage(e, Len(frames'))
    BY <1>1, <1>3, <1>7, <1>8 DEF Stage, Assigns
  <2>2. Len(frames') \in Nat /\ Len(frames') >= Len(frames)
    BY <1>3, <1>8 DEF number
  <2>3. mode' = "enter" <=> e.pc = "values" /\ e.n = 0
    BY <1>1, <1>7
  <2> QED
    BY <1>1, <1>2, <1>7, <2>1, <2>2, <2>3, TopGoesOn
<1>12. \A m \in 1 .. Len(control) : control[m].own \in Nat /\ control[m].own < number
  <2> TAKE m \in 1 .. Len(control)
  <2>1. control[m] \in FormType /\ control[m].own <= Len(frames)
    BY DEF IInv, Types, Staged, Stage
  <2>2. control[m].own \in Nat
    BY <2>1 DEF FormType
  <2> QED
    BY <1>3, <2>1, <2>2 DEF number
<1>13. \A x : x \in OwnNumbers' <=> x \in OwnNumbers \/ x = number
  <2>1. ASSUME NEW x \in OwnNumbers' PROVE x \in OwnNumbers \/ x = number
    <3>1. PICK i \in 1 .. Len(control) : control'[i].own = x /\ x # 0
      BY <1>9 DEF OwnNumbers
    <3>2. i = 1 \/ i \in 2 .. Len(control)
      BY <1>9
    <3> QED
      BY <1>7, <1>9, <3>1, <3>2 DEF OwnNumbers
  <2>2. ASSUME NEW x \in OwnNumbers PROVE x \in OwnNumbers'
    <3>1. PICK i \in 1 .. Len(control) : control[i].own = x /\ x # 0
      BY <1>9 DEF OwnNumbers
    <3>2. i \in 2 .. Len(control)
      BY <1>2, <1>9, <3>1
    <3> QED
      BY <1>9, <3>1, <3>2 DEF OwnNumbers
  <2>3. number \in OwnNumbers'
    BY <1>3, <1>7, <1>9 DEF OwnNumbers
  <2> QED
    BY <2>1, <2>2, <2>3
<1>14. \A x \in OwnNumbers : x \in Nat /\ x < number
  BY <1>9, <1>12 DEF OwnNumbers
<1>15. ASSUME NEW m \in 1 .. Len(control'), NEW n \in 1 .. Len(control'), m < n,
              control'[m].own # 0, control'[n].own # 0
       PROVE  control'[m].own > control'[n].own
  <2>1. n \in 2 .. Len(control) /\ control'[n] = control[n]
    BY <1>9, <1>15
  <2>2. CASE m = 1
    BY <1>3, <1>7, <1>9, <1>12, <2>1, <2>2
  <2>3. CASE m \in 2 .. Len(control)
    BY <1>9, <1>15, <2>1, <2>3 DEF IInv, Balanced
  <2> QED
    BY <1>9, <2>2, <2>3
<1>16. CASE lexical' = <<new>> \o lexical /\ lost' = lost
  <2>1. /\ lexical' \in Seq(Frame) /\ Len(lexical') = Len(lexical) + 1 /\ lexical'[1] = new
        /\ \A i \in 2 .. Len(lexical') : i - 1 \in 1 .. Len(lexical) /\ lexical'[i] = lexical[i - 1]
        /\ \A i \in 1 .. Len(lexical) : i + 1 \in 2 .. Len(lexical') /\ lexical'[i + 1] = lexical[i]
    BY <1>5, <1>16, Pushed DEF IInv, Types
  <2>2. /\ Len(lexical) \in Nat /\ DOMAIN lexical = 1 .. Len(lexical)
        /\ DOMAIN lexical' = 1 .. Len(lexical')
    BY <2>1 DEF IInv, Types
  <2>3. \A x : x \in FrameNumbers' <=> x \in FrameNumbers \/ x = number
    <3>1. ASSUME NEW x \in FrameNumbers' PROVE x \in FrameNumbers \/ x = number
      <4>1. PICK i \in 1 .. Len(lexical') : lexical'[i].number = x
        BY <2>2 DEF FrameNumbers
      <4>2. i = 1 \/ i \in 2 .. Len(lexical')
        BY <2>1, <2>2
      <4> QED
        BY <1>5, <2>1, <2>2, <4>1, <4>2 DEF FrameNumbers
    <3>2. ASSUME NEW x \in FrameNumbers PROVE x \in FrameNumbers'
      <4>1. PICK i \in 1 .. Len(lexical) : lexical[i].number = x
        BY <2>2 DEF FrameNumbers
      <4>2. i + 1 \in 1 .. Len(lexical') /\ lexical'[i + 1].number = x
        BY <2>1, <2>2, <4>1
      <4> QED
        BY <2>2, <4>2 DEF FrameNumbers
    <3>3. 1 \in 1 .. Len(lexical')
      BY <2>1, <2>2
    <3>4. number \in FrameNumbers'
      BY <1>5, <2>1, <2>2, <3>3 DEF FrameNumbers
    <3> QED
      BY <3>1, <3>2, <3>4
  <2>4. ASSUME NEW m \in 1 .. Len(lexical'), NEW n \in 1 .. Len(lexical'), m < n
        PROVE  lexical'[m].number > lexical'[n].number
    <3>1. n \in 2 .. Len(lexical') /\ n - 1 \in 1 .. Len(lexical) /\ lexical'[n] = lexical[n - 1]
      BY <2>1, <2>2, <2>4
    <3>2. lexical[n - 1].number \in OwnNumbers
      BY <2>2, <3>1 DEF FrameNumbers, IInv, Balanced
    <3>3. CASE m = 1
      BY <1>3, <1>5, <1>14, <2>1, <3>1, <3>2, <3>3
    <3>4. CASE m # 1
      <4>1. m \in 2 .. Len(lexical') /\ m - 1 \in 1 .. Len(lexical) /\ lexical'[m] = lexical[m - 1]
        BY <2>1, <2>2, <3>4
      <4>2. m - 1 < n - 1
        BY <2>2, <2>4
      <4> QED
        BY <3>1, <4>1, <4>2 DEF IInv, Balanced
    <3> QED
      BY <3>3, <3>4
  <2>5. /\ FrameNumbers' \subseteq OwnNumbers' /\ (~lost' => OwnNumbers' \subseteq FrameNumbers')
    BY <1>13, <1>16, <2>3 DEF IInv, Balanced
  <2>6. \A f \in FrameNumbers', own \in OwnNumbers' : own > f => own \in FrameNumbers'
    BY <1>3, <1>13, <1>14, <2>3 DEF IInv, Balanced
  <2> QED
    BY <1>10, <1>11, <1>15, <2>4, <2>5, <2>6 DEF Balanced, IInv
<1>17. CASE lexical' = <<>> /\ lost' = TRUE
  <2>1. FrameNumbers' = {}
    BY <1>17 DEF FrameNumbers
  <2> QED
    BY <1>10, <1>11, <1>15, <1>17, <2>1 DEF Balanced, IInv
<1> QED
  BY <1>1, <1>10, <1>11, <1>16, <1>17 DEF IInv

\* The frame that is removed is that of the form that ends.
LEMMA BodyEndsStep ==
  ASSUME IInv, BodyEnds
  PROVE  IInv'
<1>1. /\ control # <<>> /\ Top.pc \in {"body", "result"} /\ control' = Tail(control)
      /\ lexical' = Popped /\ mode' \in {"eval", "return"}
      /\ UNCHANGED <<special, val, closures, frames, lost>>
  BY DEF BodyEnds
<1>2. Top.own # 0 /\ Top.own \in Nat
  BY <1>1, TopIs DEF Stage, FormType
<1>3. /\ control' \in Seq(FormType) /\ Len(control) \in Nat /\ Len(control) > 0
      /\ Len(control') = Len(control) - 1
      /\ \A i \in 1 .. Len(control') : i + 1 \in 2 .. Len(control) /\ control'[i] = control[i + 1]
      /\ \A i \in 2 .. Len(control) : i - 1 \in 1 .. Len(control') /\ control'[i - 1] = control[i]
      /\ DOMAIN control = 1 .. Len(control) /\ DOMAIN control' = 1 .. Len(control')
      /\ Top = control[1]
  BY <1>1, TakenOff DEF IInv, Types, Top
<1>4. lexical' \in Seq(Frame)
  BY <1>1 DEF IInv, Types, Popped
<1>5. Types'
  BY <1>1, <1>3, <1>4 DEF IInv, Types
<1>6. Staged'
  BY <1>1, TopEnds
<1>7. \A i \in 2 .. Len(control) : control[i].own # Top.own
  <2> TAKE i \in 2 .. Len(control)
  <2>1. 1 \in 1 .. Len(control) /\ i \in 1 .. Len(control) /\ 1 < i
    BY <1>3
  <2>2. control[i].own = 0 \/ Top.own > control[i].own
    BY <1>2, <1>3, <2>1 DEF IInv, Balanced
  <2>3. control[i] \in FormType
    BY <2>1 DEF IInv, Types
  <2>4. control[i].own \in Nat
    BY <2>3 DEF FormType
  <2> QED
    BY <1>2, <2>2, <2>4
<1>8. \A x : x \in OwnNumbers' <=> x \in OwnNumbers /\ x # Top.own
  <2>1. ASSUME NEW x \in OwnNumbers' PROVE x \in OwnNumbers /\ x # Top.own
    <3>1. PICK i \in 1 .. Len(control') : control'[i].own = x /\ x # 0
      BY <1>3 DEF OwnNumbers
    <3>2. i + 1 \in 2 .. Len(control) /\ control[i + 1].own = x
      BY <1>3, <3>1
    <3>3. i + 1 \in 1 .. Len(control)
      BY <3>2
    <3> QED
      BY <1>3, <1>7, <3>1, <3>2, <3>3 DEF OwnNumbers
  <2>2. ASSUME NEW x \in OwnNumbers, x # Top.own PROVE x \in OwnNumbers'
    <3>1. PICK i \in 1 .. Len(control) : control[i].own = x /\ x # 0
      BY <1>3 DEF OwnNumbers
    <3>2. i \in 2 .. Len(control)
      BY <1>3, <2>2, <3>1
    <3>3. i - 1 \in 1 .. Len(control') /\ control'[i - 1].own = x
      BY <1>3, <3>1, <3>2
    <3> QED
      BY <1>3, <3>1, <3>3 DEF OwnNumbers
  <2> QED
    BY <2>1, <2>2
<1>9. ASSUME NEW m \in 1 .. Len(control'), NEW n \in 1 .. Len(control'), m < n,
             control'[m].own # 0, control'[n].own # 0
      PROVE  control'[m].own > control'[n].own
  <2>1. /\ m + 1 \in 1 .. Len(control) /\ control'[m] = control[m + 1]
        /\ n + 1 \in 1 .. Len(control) /\ control'[n] = control[n + 1]
    BY <1>3
  <2>2. m + 1 < n + 1
    BY <1>9
  <2> QED
    BY <1>9, <2>1, <2>2 DEF IInv, Balanced
<1>10. CASE lexical = <<>>
  <2>1. lexical' = <<>>
    BY <1>1, <1>10 DEF Popped
  <2>2. FrameNumbers = {} /\ FrameNumbers' = {}
    BY <1>10, <2>1 DEF FrameNumbers
  <2>3. Balanced'
    BY <1>1, <1>8, <1>9, <2>1, <2>2 DEF IInv, Balanced
  <2> QED
    BY <1>5, <1>6, <2>3 DEF IInv
<1>11. CASE lexical # <<>>
  <2>1. lexical' = Tail(lexical)
    BY <1>1, <1>11 DEF Popped
  <2>2. /\ Len(lexical) \in Nat /\ Len(lexical) > 0 /\ Len(lexical') = Len(lexical) - 1
        /\ \A i \in 1 .. Len(lexical') : i + 1 \in 2 .. Len(lexical) /\ lexical'[i] = lexical[i + 1]
        /\ \A i \in 2 .. Len(lexical) : i - 1 \in 1 .. Len(lexical') /\ lexical'[i - 1] = lexical[i]
        /\ DOMAIN lexical = 1 .. Len(lexical) /\ DOMAIN lexical' = 1 .. Len(lexical')
    BY <1>4, <1>11, <2>1, TakenOff DEF IInv, Types
  <2>3. /\ lexical[1].number = Top.own
        /\ \A n \in 2 .. Len(lexical) : lexical[n].number # Top.own
    BY <1>1, <1>2, <1>11, TopFrame DEF IInv, Types
  <2>4. \A x : x \in FrameNumbers' <=> x \in FrameNumbers /\ x # Top.own
    <3>1. ASSUME NEW x \in FrameNumbers' PROVE x \in FrameNumbers /\ x # Top.own
      <4>1. PICK i \in 1 .. Len(lexical') : lexical'[i].number = x
        BY <2>2 DEF FrameNumbers
      <4>2. i + 1 \in 2 .. Len(lexical) /\ lexical[i + 1].number = x
        BY <2>2, <4>1
      <4>3. i + 1 \in 1 .. Len(lexical)
        BY <4>2
      <4> QED
        BY <2>2, <2>3, <4>2, <4>3 DEF FrameNumbers
    <3>2. ASSUME NEW x \in FrameNumbers, x # Top.own PROVE x \in FrameNumbers'
      <4>1. PICK i \in 1 .. Len(lexical) : lexical[i].number = x
        BY <2>2 DEF FrameNumbers
      <4>2. i \in 2 .. Len(lexical)
        BY <2>2, <2>3, <3>2, <4>1
      <4>3. i - 1 \in 1 .. Len(lexical') /\ lexical'[i - 1].number = x
        BY <2>2, <4>1, <4>2
      <4> QED
        BY <2>2, <4>3 DEF FrameNumbers
    <3> QED
      BY <3>1, <3>2
  <2>5. ASSUME NEW m \in 1 .. Len(lexical'), NEW n \in 1 .. Len(lexical'), m < n
        PROVE  lexical'[m].number > lexical'[n].number
    <3>1. /\ m + 1 \in 1 .. Len(lexical) /\ lexical'[m] = lexical[m + 1]
          /\ n + 1 \in 1 .. Len(lexical) /\ lexical'[n] = lexical[n + 1]
      BY <2>2
    <3>2. m + 1 < n + 1
      BY <2>5
    <3> QED
      BY <3>1, <3>2 DEF IInv, Balanced
  <2>6. FrameNumbers' \subseteq OwnNumbers' /\ (~lost' => OwnNumbers' \subseteq FrameNumbers')
    BY <1>1, <1>8, <2>4 DEF IInv, Balanced
  <2>7. \A f \in FrameNumbers', own \in OwnNumbers' : own > f => own \in FrameNumbers'
    BY <1>8, <2>4 DEF IInv, Balanced
  <2>8. Balanced'
    BY <1>9, <2>5, <2>6, <2>7 DEF Balanced
  <2> QED
    BY <1>5, <1>6, <2>8 DEF IInv
<1> QED
  BY <1>10, <1>11

\* Every step preserves the invariant.
LEMMA Step == IInv /\ [Next]_vars => IInv'
<1> SUFFICES ASSUME IInv, [Next]_vars PROVE IInv'
  OBVIOUS
<1>1. CASE Eval
  BY <1>1, ExpressionStep, FormStep, FormErrorStep DEF Eval
<1>2. CASE Continue
  BY <1>2, ExpressionStep, TakeValueStep, AssignStep, PushFrameStep, BodyEndsStep,
     DoTestStep, DoBodyEndsStep, DoUpdateStep DEF Continue
<1>3. CASE UNCHANGED vars
  <2>1. Types'
    BY <1>3 DEF IInv, Types, vars
  <2>2. Staged'
    BY <1>3 DEF IInv, Staged, Top, vars
  <2>3. Balanced'
    BY <1>3, FramesKept DEF IInv, Types, vars
  <2> QED
    BY <2>1, <2>2, <2>3 DEF IInv
<1> QED
  BY <1>1, <1>2, <1>3 DEF Next

-----------------------------------------------------------------------------
(* The theorems *)

\* The invariant holds of every behaviour.
THEOREM Invariance == Spec => []IInv
BY InitInv, Step, PTL DEF Spec

\* However forms end, the frames are those of the forms in their bodies, innermost first,
\* and the innermost of them when memory has run out; DO updates its own variables.
THEOREM FramesAreBalanced == Spec => []FramesBalanced
<1>1. IInv => FramesBalanced
  <2> SUFFICES ASSUME IInv PROVE FramesBalanced
    OBVIOUS
  <2>1. DOMAIN control = 1 .. Len(control) /\ DOMAIN lexical = 1 .. Len(lexical)
    BY DEF IInv, Types
  <2>2. InnermostFirst([n \in DOMAIN lexical |-> lexical[n].number])
    BY <2>1 DEF IInv, Balanced, InnermostFirst
  <2>3. InnermostFirst([n \in DOMAIN control |-> control[n].own])
    BY <2>1 DEF IInv, Balanced, InnermostFirst
  <2>4. \A n \in DOMAIN control : control[n].pc = "update" => control[n].updated = control[n].own
    BY <2>1 DEF IInv, Staged, Stage
  <2> QED
    BY <2>2, <2>3, <2>4 DEF IInv, Balanced, FramesBalanced
<1> QED
  BY Invariance, <1>1, PTL

\* What env_set writes is what lookup finds, and lookup finds the same as before of every
\* other variable.
LEMMA SetThenLookup ==
  ASSUME Types, NEW v \in Vars, NEW x \in Vals, env_set(v, x), NEW w \in Vars
  PROVE  lookup(w)' = IF w = v THEN x ELSE lookup(w)
<1>1. CASE BoundIn(v) = {}
  <2>1. lexical' = lexical /\ special' = [special EXCEPT ![v] = x]
    BY <1>1 DEF env_set
  <2>2. BoundIn(w)' = BoundIn(w)
    BY <2>1 DEF BoundIn
  <2>3. x # Unbound
    BY ValAssumption
  <2> QED
    BY <1>1, <2>1, <2>2, <2>3 DEF lookup, Types
<1>2. CASE BoundIn(v) # {}
  <2> DEFINE k == Least(BoundIn(v))
  <2>1. k \in 1 .. Len(lexical) /\ v \in DOMAIN lexical[k].binds
    BY <1>2, BoundThere
  <2>2. special' = special /\ lexical' = [lexical EXCEPT ![k].binds[v] = x]
    BY <1>2 DEF env_set
  <2> HIDE DEF k
  <2>3. /\ DOMAIN lexical = 1 .. Len(lexical)
        /\ \A n \in 1 .. Len(lexical) : lexical[n] \in Frame
    BY DEF Types
  <2>4. PICK S \in SUBSET Vars : lexical[k].binds \in [S -> Vals]
    BY <2>1, <2>3 DEF Frame
  <2>5. /\ DOMAIN lexical' = DOMAIN lexical
        /\ lexical'[k].binds = [lexical[k].binds EXCEPT ![v] = x]
        /\ \A n \in DOMAIN lexical : n # k => lexical'[n] = lexical[n]
    <3>1. lexical' = [lexical EXCEPT ![k] = [lexical[k] EXCEPT !.binds[v] = x]]
      BY <2>2
    <3>2. [lexical[k] EXCEPT !.binds[v] = x].binds = [lexical[k].binds EXCEPT ![v] = x]
      BY <2>1, <2>3 DEF Frame
    <3> QED
      BY <2>1, <2>3, <3>1, <3>2
  <2>6. \A n \in DOMAIN lexical : DOMAIN lexical'[n].binds = DOMAIN lexical[n].binds
    BY <2>4, <2>5
  <2>7. BoundIn(w)' = BoundIn(w)
    BY <2>5, <2>6 DEF BoundIn
  <2>8. CASE BoundIn(w) = {}
    BY <1>2, <2>2, <2>7, <2>8 DEF lookup
  <2>9. CASE BoundIn(w) # {}
    <3>1. /\ Least(BoundIn(w)) \in 1 .. Len(lexical)
          /\ w \in DOMAIN lexical[Least(BoundIn(w))].binds
      BY <2>9, BoundThere
    <3>2. lookup(w)' = lexical'[Least(BoundIn(w))].binds[w]
      BY <2>7, <2>9 DEF lookup
    <3>3. lookup(w) = lexical[Least(BoundIn(w))].binds[w]
      BY <2>9 DEF lookup
    <3>4. CASE Least(BoundIn(w)) # k
      BY <2>3, <2>5, <3>1, <3>2, <3>3, <3>4 DEF k
    <3>5. CASE Least(BoundIn(w)) = k
      BY <2>1, <2>4, <2>5, <3>1, <3>2, <3>3, <3>5
    <3> QED
      BY <3>4, <3>5
  <2> QED
    BY <2>8, <2>9
<1> QED
  BY <1>1, <1>2

\* SET! changes one variable and no other, wherever each of them is bound.
THEOREM SetIsExact == Spec => SetChangesOneVariable
<1> DEFINE Exact == mode = "enter" /\ Top.kind = "set!" =>
                      \A v \in Vars :
                        lookup(v)' = IF Top.params.req[1] = v THEN Top.vals[1] ELSE lookup(v)
<1>1. IInv /\ [Next]_vars => [Exact]_vars
  <2> SUFFICES ASSUME IInv, Next, mode = "enter", Top.kind = "set!"
               PROVE  \A v \in Vars :
                        lookup(v)' = IF Top.params.req[1] = v THEN Top.vals[1] ELSE lookup(v)
    OBVIOUS
  <2>1. Assigns
    BY DEF Assigns
  <2>2. DoSet
    BY <2>1 DEF Next, Eval, Continue, Constant, Variable, BeginSet, BeginDefine, Lambda, BeginLet,
                BeginDo, DefineClosure, MakeClosure, BeginCall, BeginMacro, Begin, FormError,
                GoesOn, TakeValue, DoDefine, PushFrame, BodyEnds, DoTest, DoBodyEnds, DoUpdate
  <2>3. Top.params.req[1] \in Vars /\ Top.vals[1] \in Vals
    BY <2>1, AssignmentIs
  <2>4. Types /\ env_set(Top.params.req[1], Top.vals[1])
    BY <2>2 DEF DoSet, IInv
  <2> QED
    BY <2>3, <2>4, SetThenLookup
<1> QED
  BY Invariance, <1>1, PTL DEF Spec, SetChangesOneVariable

-----------------------------------------------------------------------------
(* Scope: the frames of the closure that is applied are among those that     *)
(* lexical scoping shows, and come first in both lists.                      *)

\* A list of numbers of frames pushed, the newest first.
Numbers(s, pushed) ==
  \A i \in 1 .. Len(s) : s[i] \in 1 .. pushed /\ \A j \in 1 .. Len(s) : i < j => s[i] > s[j]

IsCall(f) == f.kind \in {"call", "macro"} /\ f.own # 0

\* The frames of form m of the C stack c and of those it is in, as far as the
\* innermost closure that is being applied.
Bodies(c, m) ==
  {x \in {c[n].own : n \in m .. Len(c)} \ {0} :
     \A n \in m .. Len(c) : IsCall(c[n]) => x >= c[n].own}

\* What is around the form that form m is in.
Enclosing(c, m) == IF m = Len(c) THEN <<>> ELSE c[m + 1].around

\* The frames around form m begin with its bodies; what follows is older.
BodiesAround(c, m) ==
  /\ \A x \in Bodies(c, m) : \E i \in 1 .. Len(c[m].around) : c[m].around[i] = x
  /\ \A i \in 1 .. Len(c[m].around) : \A b \in Bodies(c, m) :
       c[m].around[i] > b => c[m].around[i] \in Bodies(c, m)

\* LET and DO are put inside what is around them, a closure where it was made.
ScopedForm(c, m, pushed) ==
  /\ Numbers(c[m].around, pushed) /\ Numbers(c[m].inside, pushed)
  /\ c[m].kind \notin {"call", "macro"} => c[m].inside = Enclosing(c, m)
  /\ BodiesAround(c, m)

Scoped ==
  /\ \A c \in closures : Numbers(c.around, Len(frames))
  /\ \A m \in 1 .. Len(control) : ScopedForm(control, m, Len(frames))

\* A frame binds the variables it was pushed with.
Named ==
  \A n \in 1 .. Len(lexical) : DOMAIN lexical[n].binds = frames[lexical[n].number]

-----------------------------------------------------------------------------
(* Lemmas about the scope of a form *)

\* Numbers of frames pushed stay that when more are pushed.
LEMMA NumbersKept ==
  ASSUME NEW s \in Seq(Nat), NEW p \in Nat, NEW q \in Nat, p <= q, Numbers(s, p)
  PROVE  Numbers(s, q)
BY DEF Numbers

\* All that matters of a form for the scope of those in it.
SameScope(f, g) ==
  f.own = g.own /\ f.kind = g.kind /\ f.around = g.around /\ f.inside = g.inside

\* d ends as c does from its form m on, k positions further down.
SameEnd(c, d, m, k) ==
  /\ m + k \in 1 .. Len(d) /\ Len(d) = Len(c) + k
  /\ \A n \in m .. Len(c) : SameScope(c[n], d[n + k])

LEMMA SameEndBack ==
  ASSUME NEW c \in Seq(FormType), NEW d \in Seq(FormType), NEW m \in 1 .. Len(c), NEW k \in Int,
         SameEnd(c, d, m, k)
  PROVE  m + k \in 1 .. Len(d) /\ SameEnd(d, c, m + k, -k)
<1>1. Len(c) \in Nat /\ Len(d) \in Nat /\ Len(d) = Len(c) + k /\ m + k \in 1 .. Len(d)
  BY DEF SameEnd
<1>2. Len(c) = Len(d) + (-k) /\ (m + k) + (-k) = m
  BY <1>1
<1>3. ASSUME NEW n \in (m + k) .. Len(d) PROVE SameScope(d[n], c[n + (-k)])
  <2>1. n + (-k) \in m .. Len(c) /\ (n + (-k)) + k = n
    BY <1>1
  <2> QED
    BY <2>1 DEF SameEnd, SameScope
<1> QED
  BY <1>1, <1>2, <1>3 DEF SameEnd

\* The bodies of a form are those of the same form elsewhere,
LEMMA BodiesThere ==
  ASSUME NEW c \in Seq(FormType), NEW d \in Seq(FormType), NEW m \in 1 .. Len(c), NEW k \in Int,
         SameEnd(c, d, m, k), NEW x \in Bodies(c, m)
  PROVE  x \in Bodies(d, m + k)
<1>1. Len(c) \in Nat /\ Len(d) \in Nat /\ Len(d) = Len(c) + k /\ m + k \in 1 .. Len(d)
  BY DEF SameEnd
<1>2. PICK n \in m .. Len(c) : c[n].own = x /\ x # 0
  BY DEF Bodies
<1>3. n + k \in (m + k) .. Len(d) /\ d[n + k].own = x
  BY <1>1, <1>2 DEF SameEnd, SameScope
<1>4. ASSUME NEW i \in (m + k) .. Len(d), IsCall(d[i]) PROVE x >= d[i].own
  <2>1. i + (-k) \in m .. Len(c) /\ (i + (-k)) + k = i
    BY <1>1
  <2>2. SameScope(c[i + (-k)], d[i])
    BY <2>1 DEF SameEnd
  <2> QED
    BY <1>4, <2>1, <2>2 DEF Bodies, IsCall, SameScope
<1> QED
  BY <1>2, <1>3, <1>4 DEF Bodies

LEMMA BodiesSame ==
  ASSUME NEW c \in Seq(FormType), NEW d \in Seq(FormType), NEW m \in 1 .. Len(c), NEW k \in Int,
         SameEnd(c, d, m, k)
  PROVE  Bodies(d, m + k) = Bodies(c, m)
<1>1. m + k \in 1 .. Len(d) /\ SameEnd(d, c, m + k, -k) /\ -k \in Int /\ (m + k) + (-k) = m
  BY SameEndBack
<1>2. \A x \in Bodies(c, m) : x \in Bodies(d, m + k)
  BY BodiesThere
<1>3. ASSUME NEW x \in Bodies(d, m + k) PROVE x \in Bodies(c, m)
  <2>1. x \in Bodies(c, (m + k) + (-k))
    BY <1>1, BodiesThere
  <2> QED
    BY <1>1, <2>1
<1> QED
  BY <1>2, <1>3

\* and it has the same scope there.
LEMMA ScopeKept ==
  ASSUME NEW c \in Seq(FormType), NEW d \in Seq(FormType), NEW m \in 1 .. Len(c), NEW k \in Int,
         SameEnd(c, d, m, k), NEW p \in Nat, NEW q \in Nat, p <= q, ScopedForm(c, m, p)
  PROVE  ScopedForm(d, m + k, q)
<1>1. Len(c) \in Nat /\ Len(d) \in Nat /\ Len(d) = Len(c) + k /\ m + k \in 1 .. Len(d)
  BY DEF SameEnd
<1>2. Bodies(d, m + k) = Bodies(c, m)
  BY BodiesSame
<1>3. m \in m .. Len(c) /\ SameScope(c[m], d[m + k])
  BY <1>1 DEF SameEnd
<1>4. Enclosing(d, m + k) = Enclosing(c, m)
  <2>1. CASE m = Len(c)
    BY <1>1, <2>1 DEF Enclosing
  <2>2. CASE m # Len(c)
    <3>1. m + 1 \in m .. Len(c) /\ (m + 1) + k = (m + k) + 1 /\ m + k # Len(d)
      BY <1>1, <2>2
    <3>2. SameScope(c[m + 1], d[(m + k) + 1])
      BY <3>1 DEF SameEnd
    <3> QED
      BY <2>2, <3>1, <3>2 DEF Enclosing, SameScope
  <2> QED
    BY <2>1, <2>2
<1>5. c[m].around \in Seq(Nat) /\ c[m].inside \in Seq(Nat)
  <2>1. c[m] \in FormType
    OBVIOUS
  <2> QED
    BY <2>1 DEF FormType
<1>6. Numbers(d[m + k].around, q) /\ Numbers(d[m + k].inside, q)
  BY <1>3, <1>5, NumbersKept DEF ScopedForm, SameScope
<1> QED
  BY <1>2, <1>3, <1>4, <1>6 DEF ScopedForm, SameScope, BodiesAround

\* A form that has no frame is in the bodies it began in.
LEMMA BodiesOfNone ==
  ASSUME NEW c \in Seq(FormType), NEW m \in 1 .. Len(c), c[m].own = 0
  PROVE  Bodies(c, m) = IF m = Len(c) THEN {} ELSE Bodies(c, m + 1)
<1>1. Len(c) \in Nat /\ m .. Len(c) = {m} \cup (m + 1) .. Len(c)
  OBVIOUS
<1>2. ~IsCall(c[m])
  BY DEF IsCall
<1>3. ASSUME NEW x \in Bodies(c, m) PROVE m # Len(c) /\ x \in Bodies(c, m + 1)
  <2>1. PICK n \in m .. Len(c) : c[n].own = x /\ x # 0
    BY DEF Bodies
  <2>2. n \in (m + 1) .. Len(c) /\ m # Len(c)
    BY <1>1, <2>1
  <2>3. \A i \in (m + 1) .. Len(c) : IsCall(c[i]) => x >= c[i].own
    BY <1>1 DEF Bodies
  <2> QED
    BY <2>1, <2>2, <2>3 DEF Bodies
<1>4. ASSUME NEW x \in Bodies(c, m + 1) PROVE x \in Bodies(c, m)
  <2>1. PICK n \in (m + 1) .. Len(c) : c[n].own = x /\ x # 0
    BY DEF Bodies
  <2>2. n \in m .. Len(c)
    BY <1>1
  <2>3. \A i \in m .. Len(c) : IsCall(c[i]) => x >= c[i].own
    BY <1>1, <1>2 DEF Bodies
  <2> QED
    BY <2>1, <2>2, <2>3 DEF Bodies
<1> QED
  BY <1>3, <1>4

\* Every body has a number.
LEMMA BodiesType ==
  ASSUME NEW c \in Seq(FormType), NEW m \in 1 .. Len(c)
  PROVE  Bodies(c, m) \subseteq Nat \ {0}
<1> SUFFICES ASSUME NEW x \in Bodies(c, m) PROVE x \in Nat \ {0}
  OBVIOUS
<1>1. PICK n \in m .. Len(c) : c[n].own = x /\ x # 0
  BY DEF Bodies
<1>2. c[n] \in FormType
  OBVIOUS
<1> QED
  BY <1>1, <1>2 DEF FormType

-----------------------------------------------------------------------------
(* The steps *)

IScope == IInv /\ Scoped /\ Named

\* The frames around an expression are numbers of frames.
LEMMA AroundNumbers ==
  ASSUME IScope
  PROVE  Numbers(Around, Len(frames)) /\ Around \in Seq(Nat)
<1>1. CASE control = <<>>
  BY <1>1 DEF Around, Numbers
<1>2. CASE control # <<>>
  <2>1. 1 \in 1 .. Len(control) /\ Around = control[1].around
    BY <1>2 DEF Around, Top, IScope, IInv, Types
  <2> QED
    BY <2>1, AroundType DEF IScope, Scoped, ScopedForm
<1> QED
  BY <1>1, <1>2

\* The number of a frame is that of one pushed.
LEMMA FrameNumberIs ==
  ASSUME IInv, NEW n \in 1 .. Len(lexical)
  PROVE  lexical[n].number \in 1 .. Len(frames)
<1>1. lexical[n].number \in FrameNumbers
  BY DEF FrameNumbers, IInv, Types
<1>2. lexical[n].number \in OwnNumbers
  BY <1>1 DEF IInv, Balanced
<1>3. PICK m \in 1 .. Len(control) : control[m].own = lexical[n].number /\ control[m].own # 0
  <2>1. DOMAIN control = 1 .. Len(control)
    BY DEF IInv, Types
  <2> QED
    BY <1>2, <2>1 DEF OwnNumbers
<1>4. control[m] \in FormType /\ control[m].own <= Len(frames) /\ Len(frames) \in Nat
  BY DEF IInv, Types, Staged, Stage
<1>5. control[m].own \in Nat
  BY <1>4 DEF FormType
<1> QED
  BY <1>3, <1>4, <1>5

\* A form that begins is put where lexical scoping would put it.
LEMMA BeginScope ==
  ASSUME IScope, IInv', UNCHANGED <<closures, frames, lexical>>,
         NEW f \in FormType, control' = <<f>> \o control,
         f.own = 0, f.around = Around, Numbers(f.inside, Len(frames)),
         f.kind \notin {"call", "macro"} => f.inside = Around
  PROVE  (Scoped /\ Named)'
<1>1. /\ control \in Seq(FormType) /\ control' \in Seq(FormType)
      /\ Len(frames) \in Nat /\ Len(control) \in Nat
  BY DEF IScope, IInv, Types
<1>2. /\ Len(control') = Len(control) + 1 /\ control'[1] = f
      /\ \A i \in 2 .. Len(control') : i - 1 \in 1 .. Len(control) /\ control'[i] = control[i - 1]
      /\ \A i \in 1 .. Len(control) : i + 1 \in 2 .. Len(control') /\ control'[i + 1] = control[i]
  BY <1>1, Pushed
<1>3. ASSUME NEW m \in 1 .. Len(control)
      PROVE  SameEnd(control, control', m, 1)
  BY <1>1, <1>2 DEF SameEnd, SameScope
<1>4. ASSUME NEW m \in 2 .. Len(control') PROVE ScopedForm(control', m, Len(frames'))
  <2>1. m - 1 \in 1 .. Len(control) /\ (m - 1) + 1 = m /\ 1 \in Int
    BY <1>2
  <2>2. SameEnd(control, control', m - 1, 1) /\ ScopedForm(control, m - 1, Len(frames))
    BY <1>3, <2>1 DEF IScope, Scoped
  <2>3. ScopedForm(control', (m - 1) + 1, Len(frames))
    <3>1. Len(frames) <= Len(frames)
      BY <1>1
    <3> QED
      BY <1>1, <2>1, <2>2, <3>1, ScopeKept
  <2> QED
    BY <2>1, <2>3
<1>5. ScopedForm(control', 1, Len(frames'))
  <2>1. 1 \in 1 .. Len(control') /\ control'[1].own = 0
    BY <1>1, <1>2
  <2>2. CASE control = <<>>
    <3>1. Len(control') = 1 /\ Around = <<>>
      BY <1>2, <2>2 DEF Around
    <3>2. Bodies(control', 1) = {} /\ Enclosing(control', 1) = <<>>
      BY <1>1, <2>1, <3>1, BodiesOfNone DEF Enclosing
    <3> QED
      BY <1>2, <3>1, <3>2, AroundNumbers DEF ScopedForm, BodiesAround
  <2>3. CASE control # <<>>
    <3>1. 1 \in 1 .. Len(control) /\ Around = control[1].around /\ 1 # Len(control') /\ 1 \in Int
      BY <1>1, <1>2, <2>3 DEF Around, Top
    <3>2. Bodies(control', 2) = Bodies(control, 1)
      <4>1. Bodies(control', 1 + 1) = Bodies(control, 1)
        BY <1>1, <1>3, <3>1, BodiesSame
      <4> QED
        BY <4>1
    <3>3. Bodies(control', 1) = Bodies(control', 2)
      <4>1. Bodies(control', 1) = Bodies(control', 1 + 1)
        BY <1>1, <2>1, <3>1, BodiesOfNone
      <4> QED
        BY <4>1
    <3>4. Enclosing(control', 1) = Around
      BY <1>2, <3>1 DEF Enclosing
    <3>5. BodiesAround(control, 1)
      BY <3>1 DEF IScope, Scoped, ScopedForm
    <3>6. control'[1].around = control[1].around
      BY <1>2, <3>1
    <3>7. BodiesAround(control', 1)
      BY <3>2, <3>3, <3>5, <3>6 DEF BodiesAround
    <3> QED
      BY <1>2, <3>4, <3>7, AroundNumbers DEF ScopedForm
  <2> QED
    BY <2>2, <2>3
<1>6. \A m \in 1 .. Len(control') : m = 1 \/ m \in 2 .. Len(control')
  BY <1>1, <1>2
<1>7. Scoped'
  BY <1>4, <1>5, <1>6 DEF IScope, Scoped
<1>8. Named'
  BY DEF IScope, Named
<1> QED
  BY <1>7, <1>8

\* Without the form on top the others have the scope they had.
LEMMA TailScope ==
  ASSUME IScope, IInv', UNCHANGED <<closures, frames>>, control # <<>>, control' = Tail(control)
  PROVE  Scoped'
<1>1. /\ control \in Seq(FormType) /\ control' \in Seq(FormType) /\ Len(frames) \in Nat
  BY DEF IScope, IInv, Types
<1>2. /\ Len(control) \in Nat /\ Len(control) > 0 /\ Len(control') = Len(control) - 1
      /\ \A i \in 1 .. Len(control') : i + 1 \in 2 .. Len(control) /\ control'[i] = control[i + 1]
      /\ \A i \in 2 .. Len(control) : i - 1 \in 1 .. Len(control') /\ control'[i - 1] = control[i]
  BY <1>1, TakenOff
<1>3. ASSUME NEW m \in 1 .. Len(control') PROVE ScopedForm(control', m, Len(frames'))
  <2>1. m + 1 \in 2 .. Len(control) /\ m + 1 \in 1 .. Len(control) /\ (m + 1) + (-1) = m /\ -1 \in Int
    BY <1>2
  <2>2. SameEnd(control, control', m + 1, -1)
    <3>1. ASSUME NEW n \in (m + 1) .. Len(control) PROVE SameScope(control[n], control'[n + (-1)])
      <4>1. n \in 2 .. Len(control) /\ n + (-1) = n - 1
        BY <1>2
      <4> QED
        BY <1>2, <4>1 DEF SameScope
    <3>2. Len(control') = Len(control) + (-1)
      BY <1>2
    <3> QED
      BY <2>1, <3>1, <3>2 DEF SameEnd
  <2>3. ScopedForm(control', (m + 1) + (-1), Len(frames))
    <3>1. ScopedForm(control, m + 1, Len(frames)) /\ Len(frames) <= Len(frames)
      BY <1>1, <2>1 DEF IScope, Scoped
    <3> QED
      BY <1>1, <2>1, <2>2, <3>1, ScopeKept
  <2> QED
    BY <2>1, <2>3
<1> QED
  BY <1>3 DEF IScope, Scoped

\* The form on top goes on where it is.
LEMMA TopScope ==
  ASSUME IScope, IInv', UNCHANGED <<closures, frames>>, control # <<>>,
         NEW e \in FormType, control' = <<e>> \o Tail(control), SameScope(Top, e)
  PROVE  Scoped'
<1>1. /\ control \in Seq(FormType) /\ control' \in Seq(FormType) /\ Len(frames) \in Nat
  BY DEF IScope, IInv, Types
<1>2. /\ Len(control) \in Nat /\ Len(control) > 0 /\ Len(control') = Len(control)
      /\ control'[1] = e /\ \A i \in 2 .. Len(control) : control'[i] = control[i]
      /\ Top = control[1]
  BY <1>1, Replaced DEF Top
<1>3. \A n \in 1 .. Len(control) : SameScope(control[n], control'[n])
  <2> TAKE n \in 1 .. Len(control)
  <2>1. n = 1 \/ n \in 2 .. Len(control)
    BY <1>2
  <2> QED
    BY <1>2, <2>1 DEF SameScope
<1>4. ASSUME NEW m \in 1 .. Len(control') PROVE ScopedForm(control', m, Len(frames'))
  <2>1. m \in 1 .. Len(control) /\ m + 0 = m /\ 0 \in Int
    BY <1>2
  <2>2. SameEnd(control, control', m, 0)
    <3>1. ASSUME NEW n \in m .. Len(control) PROVE SameScope(control[n], control'[n + 0])
      <4>1. n \in 1 .. Len(control) /\ n + 0 = n
        BY <1>2
      <4> QED
        BY <1>3, <4>1
    <3> QED
      BY <1>2, <2>1, <3>1 DEF SameEnd
  <2>3. ScopedForm(control', m + 0, Len(frames))
    <3>1. ScopedForm(control, m, Len(frames)) /\ Len(frames) <= Len(frames)
      BY <1>1, <2>1 DEF IScope, Scoped
    <3> QED
      BY <1>1, <2>1, <2>2, <3>1, ScopeKept
  <2> QED
    BY <2>1, <2>3
<1> QED
  BY <1>4 DEF IScope, Scoped

\* Frames that bind what they did are still named.
LEMMA NamedKept ==
  ASSUME IScope, UNCHANGED frames, Len(lexical') = Len(lexical),
         \A n \in 1 .. Len(lexical) :
           /\ lexical'[n].number = lexical[n].number
           /\ DOMAIN lexical'[n].binds = DOMAIN lexical[n].binds
  PROVE  Named'
BY DEF IScope, Named

\* An expression that is no form, and the way on to the next one.
LEMMA ExpressionScope ==
  ASSUME IScope, IInv',
         \/ \E x \in Vals : Constant(x)
         \/ \E v \in Vars : Variable(v)
         \/ \E p \in ParamLists : Lambda(p) \/ \E v \in Vars : DefineClosure(v, p)
         \/ GoesOn
  PROVE  (Scoped /\ Named)'
<1>1. UNCHANGED <<control, lexical, frames>>
  BY DEF Constant, Variable, Lambda, DefineClosure, MakeClosure, GoesOn
<1>2. \/ closures' = closures
      \/ \E p \in ParamLists : closures' = closures \cup {[params |-> p, around |-> Around]}
  BY DEF Constant, Variable, Lambda, DefineClosure, MakeClosure, GoesOn
<1>3. \A c \in closures' : Numbers(c.around, Len(frames'))
  BY <1>1, <1>2, AroundNumbers DEF IScope, Scoped
<1>4. Scoped'
  BY <1>1, <1>3 DEF IScope, Scoped
<1>5. Named'
  BY <1>1 DEF IScope, Named
<1> QED
  BY <1>4, <1>5

\* A form begins inside what is around it, a call inside what is around its closure.
LEMMA FormScope ==
  ASSUME IScope, IInv',
         \/ \E v \in Vars : BeginSet(v) \/ BeginDefine(v)
         \/ \E p \in ParamLists : BeginLet(p) \/ BeginDo(p)
         \/ \E c \in closures : (\E n \in 0 .. MaxArgs : BeginCall(c, n)) \/ BeginMacro(c)
  PROVE  (Scoped /\ Named)'
<1>1. ASSUME NEW kind \in {"let", "do", "set!", "define", "call", "macro"},
             NEW params, NEW n, NEW inside,
             Numbers(inside, Len(frames)),
             kind \notin {"call", "macro"} => inside = Around,
             Begin(kind, params, n, inside)
      PROVE  (Scoped /\ Named)'
  <2> DEFINE f == Form(kind, params, n, inside)
  <2>1. /\ control' = <<f>> \o control /\ UNCHANGED <<closures, frames, lexical>>
        /\ f.own = 0 /\ f.around = Around /\ f.kind = kind /\ f.inside = inside
    BY <1>1 DEF Begin, Form
  <2> HIDE DEF f
  <2>2. f \in FormType
    <3>1. Head(control') = f /\ Len(control') # 0
      BY <2>1 DEF IScope, IInv, Types
    <3>2. control' \in Seq(FormType)
      BY DEF IInv, Types
    <3>3. Head(control') \in FormType
      BY <3>1, <3>2
    <3> QED
      BY <3>1, <3>3
  <2> QED
    BY <1>1, <2>1, <2>2, BeginScope
<1>2. ASSUME NEW v \in Vars, BeginSet(v) \/ BeginDefine(v) PROVE (Scoped /\ Named)'
  BY <1>1, <1>2, AroundNumbers DEF BeginSet, BeginDefine
<1>3. ASSUME NEW p \in ParamLists, BeginLet(p) \/ BeginDo(p) PROVE (Scoped /\ Named)'
  BY <1>1, <1>3, AroundNumbers DEF BeginLet, BeginDo
<1>4. ASSUME NEW c \in closures, (\E n \in 0 .. MaxArgs : BeginCall(c, n)) \/ BeginMacro(c)
      PROVE  (Scoped /\ Named)'
  <2>1. Numbers(c.around, Len(frames))
    BY DEF IScope, Scoped
  <2> QED
    BY <1>1, <1>4, <2>1 DEF BeginCall, BeginMacro
<1> QED
  BY <1>2, <1>3, <1>4


\* Binding a variable in a frame that binds it does not change what the frame binds.
LEMMA BindSame ==
  ASSUME NEW f \in Frame, NEW v, NEW x
  PROVE  /\ [f EXCEPT !.binds[v] = x].number = f.number
         /\ DOMAIN [f EXCEPT !.binds[v] = x].binds = DOMAIN f.binds
<1>1. PICK S \in SUBSET Vars : f.binds \in [S -> Vals]
  BY DEF Frame
<1>2. [f EXCEPT !.binds[v] = x] = [number |-> f.number, binds |-> [f.binds EXCEPT ![v] = x]]
  BY DEF Frame
<1> QED
  BY <1>1, <1>2

\* env_set binds no variable that was not bound.
LEMMA EnvSetBinds ==
  ASSUME Types, NEW v, NEW x, env_set(v, x)
  PROVE  /\ Len(lexical') = Len(lexical)
         /\ \A n \in 1 .. Len(lexical) :
              /\ lexical'[n].number = lexical[n].number
              /\ DOMAIN lexical'[n].binds = DOMAIN lexical[n].binds
<1>1. CASE BoundIn(v) = {}
  BY <1>1 DEF env_set
<1>2. CASE BoundIn(v) # {}
  <2> DEFINE k == Least(BoundIn(v))
  <2>1. k \in 1 .. Len(lexical) /\ lexical' = [lexical EXCEPT ![k].binds[v] = x]
    BY <1>2, BoundThere DEF env_set
  <2> HIDE DEF k
  <2>2. /\ lexical \in Seq(Frame) /\ lexical[k] \in Frame
        /\ lexical' = [lexical EXCEPT ![k] = [lexical[k] EXCEPT !.binds[v] = x]]
    BY <2>1 DEF Types
  <2>3. ASSUME NEW n \in 1 .. Len(lexical)
        PROVE  /\ lexical'[n].number = lexical[n].number
               /\ DOMAIN lexical'[n].binds = DOMAIN lexical[n].binds
    <3>1. CASE n = k
      <4>1. lexical'[n] = [lexical[k] EXCEPT !.binds[v] = x]
        BY <2>1, <2>2, <3>1
      <4> QED
        BY <2>2, <3>1, <4>1, BindSame
    <3>2. CASE n # k
      BY <2>1, <2>2, <3>2
    <3> QED
      BY <3>1, <3>2
  <2>4. Len(lexical') = Len(lexical)
    BY <2>2
  <2> QED
    BY <2>3, <2>4
<1> QED
  BY <1>1, <1>2

\* SET!, DEFINE and a form given up end where they are.
LEMMA AssignScope ==
  ASSUME IScope, IInv', DoSet \/ DoDefine \/ FormError
  PROVE  (Scoped /\ Named)'
<1>1. control # <<>> /\ control' = Tail(control) /\ UNCHANGED <<closures, frames>>
  BY AssignmentIs DEF DoSet, DoDefine, FormError, Assigns, IScope
<1>2. /\ Len(lexical') = Len(lexical)
      /\ \A n \in 1 .. Len(lexical) :
           /\ lexical'[n].number = lexical[n].number
           /\ DOMAIN lexical'[n].binds = DOMAIN lexical[n].binds
  <2>1. CASE DoSet
    BY <2>1, EnvSetBinds DEF DoSet, IScope, IInv
  <2>2. CASE DoDefine \/ FormError
    BY <2>2 DEF DoDefine, FormError
  <2> QED
    BY <2>1, <2>2
<1>3. Scoped'
  BY <1>1, TailScope
<1>4. Named'
  BY <1>1, <1>2, NamedKept
<1> QED
  BY <1>3, <1>4

\* A form that goes on binds what it did.
LEMMA TopGoesOnScope ==
  ASSUME IScope, IInv', TakeValue \/ DoTest \/ DoBodyEnds \/ DoUpdate
  PROVE  (Scoped /\ Named)'
<1>1. control # <<>> /\ UNCHANGED <<closures, frames>>
  BY DEF TakeValue, DoTest, DoBodyEnds, DoUpdate
<1>2. Top \in FormType
  BY <1>1, TopIs DEF IScope
<1>3. \E e : control' = <<e>> \o Tail(control) /\ SameScope(Top, e)
  <2>1. CASE TakeValue
    <3> DEFINE e == [Top EXCEPT !.vals = Append(@, val), !.n = @ - 1]
    <3>1. SameScope(Top, e)
      BY <1>2 DEF SameScope, FormType
    <3>2. control' = <<e>> \o Tail(control)
      BY <2>1 DEF TakeValue, Replace
    <3> QED
      BY <3>1, <3>2
  <2>2. CASE DoTest
    <3> DEFINE e == [Top EXCEPT !.pc = IF val # NIL THEN "result" ELSE "loop"]
    <3>1. SameScope(Top, e)
      BY <1>2 DEF SameScope, FormType
    <3>2. control' = <<e>> \o Tail(control)
      BY <2>2 DEF DoTest, Replace
    <3> QED
      BY <3>1, <3>2
  <2>3. CASE DoBodyEnds
    <3> DEFINE e == IF lexical # <<>> /\ Head(lexical).binds # <<>>
                      THEN [Top EXCEPT !.n = 1, !.pc = "update", !.updated = Head(lexical).number]
                      ELSE [Top EXCEPT !.pc = "test"]
    <3>1. SameScope(Top, e)
      BY <1>2 DEF SameScope, FormType
    <3>2. control' = <<e>> \o Tail(control)
      BY <2>3 DEF DoBodyEnds, Replace
    <3> QED
      BY <3>1, <3>2
  <2>4. CASE DoUpdate
    <3> DEFINE e == IF Top.n = Len(Top.params.req)
                      THEN [Top EXCEPT !.n = 0, !.pc = "test", !.updated = 0]
                      ELSE [Top EXCEPT !.n = @ + 1]
    <3>1. SameScope(Top, e)
      BY <1>2 DEF SameScope, FormType
    <3>2. control' = <<e>> \o Tail(control)
      BY <2>4 DEF DoUpdate, Replace
    <3> QED
      BY <3>1, <3>2
  <2> QED
    BY <2>1, <2>2, <2>3, <2>4
<1>4. PICK e : control' = <<e>> \o Tail(control) /\ SameScope(Top, e)
  BY <1>3
<1>5. e \in FormType
  <2>1. control' \in Seq(FormType) /\ Tail(control) \in Seq(FormType)
    BY <1>1, TopIs DEF IScope, IInv, Types
  <2>2. Len(control') # 0 /\ Head(control') = e
    BY <1>4, <2>1
  <2>3. Head(control') \in FormType
    BY <2>1, <2>2
  <2> QED
    BY <2>2, <2>3
<1>6. Scoped'
  BY <1>1, <1>4, <1>5, TopScope
<1>7. /\ Len(lexical') = Len(lexical)
      /\ \A n \in 1 .. Len(lexical) :
           /\ lexical'[n].number = lexical[n].number
           /\ DOMAIN lexical'[n].binds = DOMAIN lexical[n].binds
  <2>1. CASE ~DoUpdate
    BY <2>1 DEF TakeValue, DoTest, DoBodyEnds
  <2>2. CASE DoUpdate
    <3>1. lexical' = [n \in DOMAIN lexical |->
                        IF lexical[n].number = Top.updated
                          THEN [lexical[n] EXCEPT !.binds[Top.params.req[Top.n]] = val]
                          ELSE lexical[n]]
      BY <2>2 DEF DoUpdate
    <3>2. lexical \in Seq(Frame) /\ DOMAIN lexical = 1 .. Len(lexical) /\ Len(lexical) \in Nat
      BY DEF IScope, IInv, Types
    <3>3. Len(lexical') = Len(lexical)
      <4>1. lexical' \in Seq(Frame)
        BY DEF IInv, Types
      <4>2. DOMAIN lexical' = 1 .. Len(lexical)
        BY <3>1, <3>2
      <4> QED
        BY <3>2, <4>1, <4>2
    <3>4. ASSUME NEW n \in 1 .. Len(lexical)
          PROVE  /\ lexical'[n].number = lexical[n].number
                 /\ DOMAIN lexical'[n].binds = DOMAIN lexical[n].binds
      <4> DEFINE set == [lexical[n] EXCEPT !.binds[Top.params.req[Top.n]] = val]
      <4>1. lexical[n] \in Frame
        BY <3>2
      <4>2. set.number = lexical[n].number /\ DOMAIN set.binds = DOMAIN lexical[n].binds
        BY <4>1, BindSame
      <4>3. lexical'[n] = set \/ lexical'[n] = lexical[n]
        BY <3>1, <3>2
      <4> HIDE DEF set
      <4> QED
        BY <4>2, <4>3
    <3> QED
      BY <3>3, <3>4
  <2> QED
    BY <2>1, <2>2
<1>8. Named'
  BY <1>1, <1>7, NamedKept
<1> QED
  BY <1>6, <1>8

\* The body that ends takes its frame with it.
LEMMA BodyEndsScope ==
  ASSUME IScope, IInv', BodyEnds
  PROVE  (Scoped /\ Named)'
<1>1. /\ control # <<>> /\ control' = Tail(control) /\ UNCHANGED <<closures, frames>>
      /\ lexical' = Popped
  BY DEF BodyEnds
<1>2. Scoped'
  BY <1>1, TailScope
<1>3. Named'
  <2>1. CASE lexical = <<>>
    <3>1. lexical' = lexical
      BY <1>1, <2>1 DEF Popped
    <3> QED
      BY <1>1, <3>1 DEF IScope, Named
  <2>2. CASE lexical # <<>>
    <3>1. lexical' = Tail(lexical) /\ lexical \in Seq(Frame)
      BY <1>1, <2>2 DEF Popped, IScope, IInv, Types
    <3>2. \A i \in 1 .. Len(lexical') : i + 1 \in 2 .. Len(lexical) /\ lexical'[i] = lexical[i + 1]
      BY <2>2, <3>1, TakenOff
    <3>3. \A i \in 2 .. Len(lexical) : i \in 1 .. Len(lexical)
      OBVIOUS
    <3> QED
      BY <1>1, <3>2, <3>3 DEF IScope, Named
  <2> QED
    BY <2>1, <2>2
<1> QED
  BY <1>2, <1>3


\* The frame pushed is the innermost around its form, where the form is put.
LEMMA PushFrameScope ==
  ASSUME IScope, IInv', PushFrame
  PROVE  (Scoped /\ Named)'
<1> DEFINE number == Len(frames) + 1
           new == [number |-> number, binds |-> Binds(Top.params, Top.vals)]
           e == [Top EXCEPT !.pc = IF Top.kind = "do" THEN "test" ELSE "body",
                            !.n = 0, !.vals = <<>>, !.own = number,
                            !.around = <<number>> \o Top.inside]
<1>1. /\ mode = "enter" /\ ~Assigns
      /\ frames' = Append(frames, ParamNames(Top.params))
      /\ control' = <<e>> \o Tail(control)
      /\ \/ lexical' = <<new>> \o lexical \/ lexical' = <<>>
      /\ closures' = closures
  BY DEF PushFrame, Replace
<1>2. control # <<>> /\ Top \in FormType /\ Top.own = 0
  BY <1>1, TopIs DEF IScope, IInv, Staged, Stage
<1>3. number \in Nat /\ number # 0 /\ Len(frames) \in Nat /\ Len(frames) <= number
  BY DEF IScope, IInv, Types
<1>4. e.own = number /\ e.kind = Top.kind /\ e.around = <<number>> \o Top.inside
      /\ e.inside = Top.inside
  <2> HIDE DEF number
  <2> QED
    BY <1>2 DEF FormType
<1>5. /\ Len(frames') = number /\ frames'[number] = ParamNames(Top.params)
      /\ \A x \in 1 .. Len(frames) : frames'[x] = frames[x]
  BY <1>1 DEF IScope, IInv, Types
<1>6. Top.inside \in Seq(Nat) /\ Top.params \in ParamType /\ Top.vals \in Seq(Vals)
  BY <1>2 DEF FormType
<1>7. new.number = number /\ DOMAIN new.binds = ParamNames(Top.params)
  BY DEF Binds
<1> HIDE DEF number, new
<1>8. e \in FormType
  <2> HIDE DEF e
  <2>1. control' \in Seq(FormType) /\ Tail(control) \in Seq(FormType)
    BY <1>2, TopIs DEF IScope, IInv, Types
  <2>2. Len(control') # 0 /\ Head(control') = e
    BY <1>1, <2>1
  <2>3. Head(control') \in FormType
    BY <2>1, <2>2
  <2> QED
    BY <2>2, <2>3
<1> HIDE DEF e
<1>9. /\ control \in Seq(FormType) /\ control' \in Seq(FormType)
      /\ Len(control) \in Nat /\ Len(control) > 0 /\ Len(control') = Len(control)
      /\ control'[1] = e /\ \A i \in 2 .. Len(control) : control'[i] = control[i]
      /\ Top = control[1] /\ 1 \in 1 .. Len(control)
  BY <1>1, <1>2, <1>8, Replaced DEF IScope, IInv, Types, Top
<1>10. ASSUME NEW m \in 2 .. Len(control)
       PROVE  SameEnd(control, control', m, 0)
  BY <1>9 DEF SameEnd, SameScope
<1>11. ASSUME NEW m \in 2 .. Len(control) PROVE ScopedForm(control', m, number)
  <2>1. m \in 1 .. Len(control) /\ m + 0 = m /\ 0 \in Int
    BY <1>9
  <2>2. SameEnd(control, control', m, 0) /\ ScopedForm(control, m, Len(frames))
    BY <1>10, <2>1 DEF IScope, Scoped
  <2>3. ScopedForm(control', m + 0, number)
    BY <1>3, <1>9, <2>1, <2>2, ScopeKept
  <2> QED
    BY <2>1, <2>3
<1>12. ScopedForm(control, 1, Len(frames))
  BY <1>9 DEF IScope, Scoped
<1>13. Numbers(e.inside, number) /\ \A i \in 1 .. Len(e.inside) : e.inside[i] < number
  <2>1. Numbers(Top.inside, Len(frames))
    BY <1>9, <1>12 DEF ScopedForm
  <2>2. \A i \in 1 .. Len(Top.inside) : Top.inside[i] < number
    BY <1>3, <2>1 DEF Numbers, number
  <2> QED
    BY <1>3, <1>4, <1>6, <2>1, <2>2, NumbersKept
<1>14. /\ Len(e.around) = Len(e.inside) + 1 /\ Len(e.inside) \in Nat /\ e.around[1] = number
       /\ \A i \in 2 .. Len(e.around) : i - 1 \in 1 .. Len(e.inside) /\ e.around[i] = e.inside[i - 1]
       /\ \A i \in 1 .. Len(e.inside) : i + 1 \in 2 .. Len(e.around) /\ e.around[i + 1] = e.inside[i]
  BY <1>3, <1>4, <1>6, Pushed
<1>15. \A i \in 1 .. Len(e.around) : i = 1 \/ i \in 2 .. Len(e.around)
  BY <1>14
<1>16. Numbers(e.around, number)
  <2>1. ASSUME NEW i \in 1 .. Len(e.around)
        PROVE  /\ e.around[i] \in 1 .. number
               /\ \A j \in 1 .. Len(e.around) : i < j => e.around[i] > e.around[j]
    <3>1. CASE i = 1
      <4>1. ASSUME NEW j \in 1 .. Len(e.around), i < j PROVE e.around[i] > e.around[j]
        <5>1. j \in 2 .. Len(e.around)
          BY <1>15, <3>1, <4>1
        <5> QED
          BY <1>3, <1>13, <1>14, <3>1, <5>1
      <4> QED
        BY <1>3, <1>14, <3>1, <4>1
    <3>2. CASE i \in 2 .. Len(e.around)
      <4>1. i - 1 \in 1 .. Len(e.inside) /\ e.around[i] = e.inside[i - 1]
        BY <1>14, <3>2
      <4>2. ASSUME NEW j \in 1 .. Len(e.around), i < j PROVE e.around[i] > e.around[j]
        <5>1. j \in 2 .. Len(e.around) /\ i - 1 < j - 1
          BY <1>14, <3>2, <4>2
        <5>2. j - 1 \in 1 .. Len(e.inside) /\ e.around[j] = e.inside[j - 1]
          BY <1>14, <5>1
        <5> QED
          BY <1>13, <4>1, <5>1, <5>2 DEF Numbers
      <4> QED
        BY <1>13, <4>1, <4>2 DEF Numbers
    <3> QED
      BY <1>15, <3>1, <3>2
  <2> QED
    BY <2>1 DEF Numbers
<1>17. Enclosing(control', 1) = Enclosing(control, 1)
  <2>1. Len(control) = 1 \/ 2 \in 2 .. Len(control)
    BY <1>9
  <2> QED
    BY <1>9, <2>1 DEF Enclosing
<1>18. e.kind \notin {"call", "macro"} => e.inside = Enclosing(control', 1)
  BY <1>4, <1>9, <1>12, <1>17 DEF ScopedForm
<1>19. ASSUME NEW x \in Bodies(control', 1)
       PROVE  /\ x \in Nat
              /\ x = number \/ /\ e.kind \notin {"call", "macro"}
                               /\ Len(control) > 1 /\ x \in Bodies(control', 2)
  <2>1. x \in Nat
    BY <1>9, BodiesType
  <2>2. PICK n \in 1 .. Len(control') : control'[n].own = x /\ x # 0
    BY DEF Bodies
  <2>3. \A i \in 1 .. Len(control') : IsCall(control'[i]) => x >= control'[i].own
    BY DEF Bodies
  <2>4. CASE n = 1
    BY <1>4, <1>9, <2>1, <2>2, <2>4
  <2>5. CASE n # 1
    <3>1. n \in 2 .. Len(control') /\ Len(control) > 1
      BY <1>9, <2>5
    <3>2. \A i \in 2 .. Len(control') : i \in 1 .. Len(control')
      OBVIOUS
    <3>3. x \in Bodies(control', 2)
      BY <2>2, <2>3, <3>1, <3>2 DEF Bodies
    <3>4. n \in 1 .. Len(control) /\ control[n].own = x
      BY <1>9, <2>2, <3>1
    <3>5. x <= Len(frames)
      BY <3>4 DEF IScope, IInv, Staged, Stage
    <3>6. x < number
      BY <1>3, <2>1, <3>5 DEF number
    <3>7. ~IsCall(e)
      BY <1>3, <1>4, <1>9, <2>1, <2>3, <3>6
    <3> QED
      BY <1>3, <1>4, <2>1, <3>1, <3>3, <3>7 DEF IsCall
  <2> QED
    BY <2>4, <2>5
<1>20. number \in Bodies(control', 1)
  <2>1. ASSUME NEW i \in 1 .. Len(control') PROVE number >= control'[i].own
    <3>1. CASE i = 1
      BY <1>3, <1>4, <1>9, <3>1
    <3>2. CASE i # 1
      <4>1. i \in 2 .. Len(control) /\ i \in 1 .. Len(control) /\ control'[i] = control[i]
        BY <1>9, <3>2
      <4>2. control[i].own <= Len(frames) /\ control[i] \in FormType
        BY <1>9, <4>1 DEF IScope, IInv, Staged, Stage
      <4>3. control[i].own \in Nat
        BY <4>2 DEF FormType
      <4> QED
        BY <1>3, <4>1, <4>2, <4>3
    <3> QED
      BY <3>1, <3>2
  <2> QED
    BY <1>3, <1>4, <1>9, <2>1 DEF Bodies
<1>21. BodiesAround(control', 1)
  <2>1. ASSUME NEW x \in Bodies(control', 1)
        PROVE  \E i \in 1 .. Len(e.around) : e.around[i] = x
    <3>1. CASE x = number
      <4>1. 1 \in 1 .. Len(e.around)
        BY <1>14
      <4> QED
        BY <1>14, <3>1, <4>1
    <3>2. CASE /\ e.kind \notin {"call", "macro"}
               /\ Len(control) > 1 /\ x \in Bodies(control', 2)
      <4>1. 2 \in 2 .. Len(control) /\ e.inside = control'[2].around
        BY <1>9, <1>18, <3>2 DEF Enclosing
      <4>2. PICK i \in 1 .. Len(e.inside) : e.inside[i] = x
        BY <1>11, <3>2, <4>1 DEF ScopedForm, BodiesAround
      <4>3. i + 1 \in 1 .. Len(e.around) /\ e.around[i + 1] = x
        BY <1>14, <4>2
      <4> QED
        BY <4>3
    <3> QED
      BY <1>19, <3>1, <3>2
  <2>2. ASSUME NEW i \in 1 .. Len(e.around), NEW b \in Bodies(control', 1), e.around[i] > b
        PROVE  e.around[i] \in Bodies(control', 1)
    <3>1. CASE i = 1
      BY <1>14, <1>20, <3>1
    <3>2. CASE i \in 2 .. Len(e.around)
      <4>1. i - 1 \in 1 .. Len(e.inside) /\ e.around[i] = e.inside[i - 1] /\ e.around[i] < number
        BY <1>13, <1>14, <3>2
      <4>2. e.around[i] \in Nat
        BY <1>3, <1>13, <4>1 DEF Numbers
      <4>3. /\ e.kind \notin {"call", "macro"} /\ Len(control) > 1 /\ b \in Bodies(control', 2)
        BY <1>3, <1>19, <2>2, <4>1, <4>2
      <4>4. 2 \in 2 .. Len(control) /\ e.inside = control'[2].around
        BY <1>9, <1>18, <4>3 DEF Enclosing
      <4>5. e.around[i] \in Bodies(control', 2)
        BY <1>11, <2>2, <4>1, <4>3, <4>4 DEF ScopedForm, BodiesAround
      <4>6. ~IsCall(e)
        BY <4>3 DEF IsCall
      <4>7. \A n \in 1 .. Len(control') : n = 1 \/ n \in 2 .. Len(control')
        BY <1>9
      <4>8. \A n \in 2 .. Len(control') : n \in 1 .. Len(control')
        OBVIOUS
      <4> QED
        BY <1>9, <4>5, <4>6, <4>7, <4>8 DEF Bodies
    <3> QED
      BY <1>15, <3>1, <3>2
  <2> QED
    BY <1>9, <2>1, <2>2 DEF BodiesAround
<1>22. ScopedForm(control', 1, number)
  BY <1>9, <1>13, <1>16, <1>18, <1>21 DEF ScopedForm
<1>23. Scoped'
  <2>1. \A c \in closures' : Numbers(c.around, Len(frames'))
    <3> TAKE c \in closures'
    <3>1. c.around \in Seq(Nat) /\ Numbers(c.around, Len(frames))
      BY <1>1 DEF IScope, Scoped, IInv, Types
    <3> QED
      BY <1>3, <1>5, <3>1, NumbersKept
  <2>2. \A m \in 1 .. Len(control') : m = 1 \/ m \in 2 .. Len(control)
    BY <1>9
  <2> QED
    BY <1>5, <1>11, <1>22, <2>1, <2>2 DEF Scoped
<1>24. Named'
  <2>1. CASE lexical' = <<>>
    BY <2>1 DEF Named
  <2>2. CASE lexical' = <<new>> \o lexical
    <3>1. /\ Len(lexical') = Len(lexical) + 1 /\ lexical'[1] = new /\ Len(lexical) \in Nat
          /\ \A i \in 2 .. Len(lexical') : i - 1 \in 1 .. Len(lexical) /\ lexical'[i] = lexical[i - 1]
      <4>1. lexical \in Seq(Frame) /\ lexical' \in Seq(Frame)
        BY DEF IScope, IInv, Types
      <4>2. new \in Frame
        <5>1. Head(lexical') = new /\ Len(lexical') # 0
          BY <2>2, <4>1
        <5>2. Head(lexical') \in Frame
          BY <4>1, <5>1
        <5> QED
          BY <5>1, <5>2
      <4> QED
        BY <2>2, <4>1, <4>2, Pushed
    <3>2. ASSUME NEW i \in 1 .. Len(lexical')
          PROVE  DOMAIN lexical'[i].binds = frames'[lexical'[i].number]
      <4>1. CASE i = 1
        BY <1>5, <1>7, <3>1, <4>1
      <4>2. CASE i # 1
        <5>1. i - 1 \in 1 .. Len(lexical) /\ lexical'[i] = lexical[i - 1]
          BY <3>1, <4>2
        <5>2. lexical[i - 1].number \in 1 .. Len(frames)
          BY <5>1, FrameNumberIs DEF IScope
        <5>3. DOMAIN lexical[i - 1].binds = frames[lexical[i - 1].number]
          BY <5>1 DEF IScope, Named
        <5> QED
          BY <1>5, <5>1, <5>2, <5>3
      <4> QED
        BY <4>1, <4>2
    <3> QED
      BY <3>2 DEF Named
  <2> QED
    BY <1>1, <2>1, <2>2
<1> QED
  BY <1>23, <1>24

\* Every step keeps the scopes.
LEMMA ScopeStep == IScope /\ IInv' /\ [Next]_vars => (Scoped /\ Named)'
<1> SUFFICES ASSUME IScope, IInv', [Next]_vars PROVE (Scoped /\ Named)'
  OBVIOUS
<1>1. CASE Eval
  BY <1>1, ExpressionScope, FormScope, AssignScope DEF Eval
<1>2. CASE Continue
  BY <1>2, ExpressionScope, TopGoesOnScope, AssignScope, PushFrameScope, BodyEndsScope DEF Continue
<1>3. CASE UNCHANGED vars
  BY <1>3 DEF vars, IScope, Scoped, Named
<1> QED
  BY <1>1, <1>2, <1>3 DEF Next

LEMMA ScopeInvariance == Spec => []IScope
<1>1. Init => Scoped /\ Named
  <2> SUFFICES ASSUME Init PROVE Scoped /\ Named
    OBVIOUS
  <2>1. Len(control) = 0 /\ Len(lexical) = 0 /\ closures = {}
    BY DEF Init
  <2> QED
    BY <2>1 DEF Scoped, Named
<1>2. (IInv /\ Scoped /\ Named) /\ IInv' /\ [Next]_vars => (Scoped /\ Named)'
  BY ScopeStep DEF IScope
<1>3. IScope <=> IInv /\ Scoped /\ Named
  BY DEF IScope
<1> QED
  BY Invariance, <1>1, <1>2, <1>3, PTL DEF Spec


-----------------------------------------------------------------------------
(* Where a variable is found *)

\* Two sets of numbers of frames that agree on those from some frame of B on agree on the
\* greatest that has a property, when it is in B.
LEMMA GreatestAgree ==
  ASSUME NEW F \in SUBSET Nat, NEW A \in SUBSET Nat, NEW B \in SUBSET F, B \subseteq A,
         \A x \in F, b \in B : x > b => x \in B,
         \A x \in A, b \in B : x > b => x \in B,
         NEW V, NEW y \in Nat, NEW w \in Nat,
         y \in B, y \in V, \A z \in F : z \in V => z <= y,
         w = 0 => (\A z \in A : z \notin V), w # 0 => w \in A /\ w \in V /\ \A z \in A : z \in V => z <= w
  PROVE  y = w
<1>1. w # 0 /\ w \in A /\ w \in V /\ y <= w
  OBVIOUS
<1>2. CASE w > y
  <2>1. w \in B
    BY <1>1, <1>2
  <2>2. w <= y
    BY <1>1, <2>1
  <2> QED
    BY <1>2, <2>2
<1> QED
  BY <1>1, <1>2

\* The frames of the body being evaluated are the bodies of the form on top,
LEMMA BodyFramesAre ==
  ASSUME IInv, control # <<>>
  PROVE  BodyFrames = Bodies(control, 1)
<1> DEFINE calls == {n \in DOMAIN control : control[n].kind \in {"call", "macro"}
                                              /\ control[n].own # 0}
<1>1. DOMAIN control = 1 .. Len(control) /\ Len(control) \in Nat
  BY DEF IInv, Types
<1>2. ASSUME NEW n \in 1 .. Len(control), NEW c \in 1 .. Len(control),
             control[n].own # 0, control[c].own # 0
      PROVE  n <= c <=> control[n].own >= control[c].own
  <2>1. control[n] \in FormType /\ control[c] \in FormType
    BY DEF IInv, Types
  <2>2. control[n].own \in Nat /\ control[c].own \in Nat
    BY <2>1 DEF FormType
  <2>3. CASE n = c
    BY <2>2, <2>3
  <2>4. CASE n < c
    BY <1>2, <2>2, <2>4 DEF IInv, Balanced
  <2>5. CASE c < n
    <3>1. control[c].own > control[n].own
      BY <1>2, <2>5 DEF IInv, Balanced
    <3> QED
      BY <2>2, <2>5, <3>1
  <2> QED
    BY <2>3, <2>4, <2>5
<1>3. BodyFrames = {control[n].own : n \in {m \in DOMAIN control : \A c \in calls : m <= c}} \ {0}
  BY DEF BodyFrames
<1>4. ASSUME NEW x \in BodyFrames PROVE x \in Bodies(control, 1)
  <2>1. PICK n \in 1 .. Len(control) : control[n].own = x /\ x # 0 /\ \A c \in calls : n <= c
    BY <1>1, <1>3
  <2>2. ASSUME NEW c \in 1 .. Len(control), IsCall(control[c]) PROVE x >= control[c].own
    <3>1. c \in calls /\ control[c].own # 0
      BY <1>1, <2>2 DEF IsCall
    <3> QED
      BY <1>2, <2>1, <3>1
  <2> QED
    BY <2>1, <2>2 DEF Bodies
<1>5. ASSUME NEW x \in Bodies(control, 1) PROVE x \in BodyFrames
  <2>1. PICK n \in 1 .. Len(control) : control[n].own = x /\ x # 0
    BY DEF Bodies
  <2>2. ASSUME NEW c \in calls PROVE n <= c
    <3>1. c \in 1 .. Len(control) /\ IsCall(control[c]) /\ control[c].own # 0
      BY <1>1, <2>2 DEF IsCall
    <3>2. x >= control[c].own
      BY <3>1 DEF Bodies
    <3> QED
      BY <1>2, <2>1, <3>1, <3>2
  <2> QED
    BY <1>1, <1>3, <2>1, <2>2
<1> QED
  BY <1>4, <1>5

\* which are the newest of all frames, and of those that lexical scoping would show.
LEMMA BodiesAreNewest ==
  ASSUME IScope, control # <<>>, ~lost
  PROVE  /\ FrameNumbers \subseteq Nat
         /\ Bodies(control, 1) \subseteq FrameNumbers
         /\ \A x \in FrameNumbers, b \in Bodies(control, 1) : x > b => x \in Bodies(control, 1)
         /\ DOMAIN Around = 1 .. Len(Around)
         /\ \A i \in 1 .. Len(Around) : Around[i] \in Nat \ {0}
         /\ \A b \in Bodies(control, 1) : \E i \in 1 .. Len(Around) : Around[i] = b
         /\ \A i \in 1 .. Len(Around), b \in Bodies(control, 1) :
              Around[i] > b => Around[i] \in Bodies(control, 1)
<1>1. /\ DOMAIN control = 1 .. Len(control) /\ 1 \in 1 .. Len(control) /\ Around = control[1].around
      /\ control \in Seq(FormType)
  BY DEF IScope, IInv, Types, Around, Top
<1>2. FrameNumbers = OwnNumbers
  BY DEF IScope, IInv, Balanced
<1>3. \A x \in OwnNumbers : \E n \in 1 .. Len(control) : control[n].own = x /\ x # 0
  BY <1>1 DEF OwnNumbers
<1>4. OwnNumbers \subseteq Nat
  <2> SUFFICES ASSUME NEW x \in OwnNumbers PROVE x \in Nat
    OBVIOUS
  <2>1. PICK n \in 1 .. Len(control) : control[n].own = x
    BY <1>3
  <2>2. control[n] \in FormType
    BY <1>1
  <2> QED
    BY <2>1, <2>2 DEF FormType
<1>5. Bodies(control, 1) \subseteq OwnNumbers
  BY <1>1 DEF Bodies, OwnNumbers
<1>6. ASSUME NEW x \in OwnNumbers, NEW b \in Bodies(control, 1), x > b
      PROVE  x \in Bodies(control, 1)
  <2>1. PICK n \in 1 .. Len(control) : control[n].own = x /\ x # 0
    BY <1>3
  <2>2. ASSUME NEW c \in 1 .. Len(control), IsCall(control[c]) PROVE x >= control[c].own
    <3>1. b >= control[c].own /\ control[c] \in FormType
      BY <1>1, <2>2 DEF Bodies
    <3>2. b \in Nat /\ x \in Nat /\ control[c].own \in Nat
      BY <1>4, <1>5, <3>1 DEF FormType
    <3> QED
      BY <1>6, <3>1, <3>2
  <2> QED
    BY <2>1, <2>2 DEF Bodies
<1>7. Numbers(Around, Len(frames)) /\ Around \in Seq(Nat) /\ Len(frames) \in Nat
  BY AroundNumbers DEF IScope, IInv, Types
<1>8. \A i \in 1 .. Len(Around) : Around[i] \in Nat \ {0}
  BY <1>7 DEF Numbers
<1>9. BodiesAround(control, 1)
  BY <1>1 DEF IScope, Scoped, ScopedForm
<1> QED
  BY <1>1, <1>2, <1>4, <1>5, <1>6, <1>7, <1>8, <1>9 DEF BodiesAround

\* The variables that frame number x was pushed with, of all the frames of a list, are
\* searched for from the newest on.
LEMMA FoundIs ==
  ASSUME IScope, NEW v
  PROVE  /\ FoundIn(v) = 0 => \A z \in FrameNumbers : v \notin frames[z]
         /\ FoundIn(v) # 0 => /\ FoundIn(v) \in FrameNumbers /\ v \in frames[FoundIn(v)]
                              /\ \A z \in FrameNumbers : v \in frames[z] => z <= FoundIn(v)
         /\ FoundIn(v) \in Nat
<1>1. DOMAIN lexical = 1 .. Len(lexical) /\ Len(frames) \in Nat
  BY DEF IScope, IInv, Types
<1>2. \A n \in 1 .. Len(lexical) : /\ DOMAIN lexical[n].binds = frames[lexical[n].number]
                                   /\ lexical[n].number \in 1 .. Len(frames)
  BY FrameNumberIs DEF IScope, Named
<1>3. BoundIn(v) = {n \in 1 .. Len(lexical) : v \in frames[lexical[n].number]}
  BY <1>1, <1>2 DEF BoundIn
<1>4. \A z \in FrameNumbers : \E n \in 1 .. Len(lexical) : lexical[n].number = z
  BY <1>1 DEF FrameNumbers
<1>5. CASE BoundIn(v) = {}
  <2>1. FoundIn(v) = 0
    BY <1>5 DEF FoundIn
  <2> QED
    BY <1>3, <1>4, <1>5, <2>1
<1>6. CASE BoundIn(v) # {}
  <2>1. PICK k : k = Least(BoundIn(v))
    OBVIOUS
  <2>2. k \in BoundIn(v) /\ \A m \in BoundIn(v) : k <= m
    <3>1. BoundIn(v) \in SUBSET Nat
      BY <1>3
    <3> QED
      BY <1>6, <2>1, <3>1, LeastIs
  <2>3. k \in 1 .. Len(lexical) /\ v \in frames[lexical[k].number]
    BY <1>3, <2>2
  <2>4. FoundIn(v) = lexical[k].number
    BY <1>6, <2>1 DEF FoundIn
  <2>5. ASSUME NEW z \in FrameNumbers, v \in frames[z] PROVE z <= lexical[k].number
    <3>1. PICK n \in 1 .. Len(lexical) : lexical[n].number = z
      BY <1>4
    <3>2. k <= n
      BY <1>3, <2>2, <2>5, <3>1
    <3>3. k = n \/ k < n
      BY <2>3, <3>2
    <3>4. k < n => lexical[k].number > lexical[n].number
      BY <2>3 DEF IScope, IInv, Balanced
    <3>5. lexical[k].number \in Nat /\ z \in Nat
      BY <1>1, <1>2, <2>3, <3>1
    <3> QED
      BY <3>1, <3>3, <3>4, <3>5
  <2>6. lexical[k].number \in FrameNumbers /\ lexical[k].number \in Nat \ {0}
    BY <1>1, <1>2, <2>3 DEF FrameNumbers
  <2> QED
    BY <2>3, <2>4, <2>5, <2>6
<1> QED
  BY <1>5, <1>6

LEMMA LexicallyIs ==
  ASSUME IScope, NEW v
  PROVE  /\ LexicallyIn(v) = 0 => \A i \in 1 .. Len(Around) : v \notin frames[Around[i]]
         /\ LexicallyIn(v) # 0 =>
              /\ \E i \in 1 .. Len(Around) : Around[i] = LexicallyIn(v)
              /\ v \in frames[LexicallyIn(v)]
              /\ \A i \in 1 .. Len(Around) : v \in frames[Around[i]] => Around[i] <= LexicallyIn(v)
         /\ LexicallyIn(v) \in Nat
<1>1. /\ DOMAIN Around = 1 .. Len(Around) /\ Len(Around) \in Nat /\ Len(frames) \in Nat
      /\ Numbers(Around, Len(frames))
  BY AroundNumbers DEF IScope, IInv, Types
<1>2. PICK binding : binding = {n \in DOMAIN Around : v \in frames[Around[n]]}
  OBVIOUS
<1>3. LexicallyIn(v) = IF binding = {} THEN 0 ELSE Around[Least(binding)]
  BY <1>2 DEF LexicallyIn
<1>4. CASE binding = {}
  BY <1>1, <1>2, <1>3, <1>4
<1>5. CASE binding # {}
  <2>1. PICK k : k = Least(binding)
    OBVIOUS
  <2>2. binding \in SUBSET Nat
    BY <1>1, <1>2
  <2>3. k \in binding /\ \A m \in binding : k <= m
    BY <1>5, <2>1, <2>2, LeastIs
  <2>4. k \in 1 .. Len(Around) /\ v \in frames[Around[k]] /\ LexicallyIn(v) = Around[k]
    BY <1>1, <1>2, <1>3, <1>5, <2>1, <2>3
  <2>5. Around[k] \in Nat \ {0}
    BY <1>1, <2>4 DEF Numbers
  <2>6. ASSUME NEW i \in 1 .. Len(Around), v \in frames[Around[i]] PROVE Around[i] <= Around[k]
    <3>1. k <= i
      BY <1>1, <1>2, <2>3, <2>6
    <3>2. k = i \/ k < i
      BY <2>4, <3>1
    <3>3. Around[i] \in Nat
      BY <1>1 DEF Numbers
    <3>4. k < i => Around[k] > Around[i]
      BY <1>1, <2>4 DEF Numbers
    <3> QED
      BY <2>5, <3>2, <3>3, <3>4
  <2> QED
    BY <2>4, <2>5, <2>6
<1> QED
  BY <1>4, <1>5

\* The parameters of the closure that is applied, and the variables of the forms in its
\* body, are found where they are written, whoever calls it: in no program does a frame
\* of the caller, or of a form that has ended, come between.
THEOREM BoundVariablesAreFound == Spec => []BoundVariablesAreLexical
<1>1. IScope => BoundVariablesAreLexical
  <2> SUFFICES ASSUME IScope, ~lost, NEW v \in Vars,
                      FoundIn(v) \in BodyFrames \/ LexicallyIn(v) \in BodyFrames
               PROVE  FoundIn(v) = LexicallyIn(v)
    BY DEF BoundVariablesAreLexical
  <2>1. control # <<>>
    <3> SUFFICES ASSUME control = <<>> PROVE FALSE
      OBVIOUS
    <3>1. BodyFrames = {}
      BY DEF BodyFrames
    <3> QED
      BY <3>1
  <2>2. PICK B : B = Bodies(control, 1)
    OBVIOUS
  <2>3. BodyFrames = B
    BY <2>1, <2>2, BodyFramesAre DEF IScope
  <2>4. PICK A : A = {Around[i] : i \in 1 .. Len(Around)}
    OBVIOUS
  <2>5. PICK V : V = {z \in A \cup FrameNumbers : v \in frames[z]}
    OBVIOUS
  <2>6. /\ FrameNumbers \subseteq Nat /\ B \subseteq FrameNumbers
        /\ \A x \in FrameNumbers, b \in B : x > b => x \in B
    BY <2>1, <2>2, BodiesAreNewest
  <2>7. /\ A \subseteq Nat /\ B \subseteq A
        /\ \A x \in A, b \in B : x > b => x \in B
    <3>1. \A i \in 1 .. Len(Around) : Around[i] \in Nat
      BY <2>1, BodiesAreNewest
    <3>2. \A b \in B : \E i \in 1 .. Len(Around) : Around[i] = b
      BY <2>1, <2>2, BodiesAreNewest
    <3>3. \A i \in 1 .. Len(Around), b \in B : Around[i] > b => Around[i] \in B
      BY <2>1, <2>2, BodiesAreNewest
    <3> QED
      BY <2>4, <3>1, <3>2, <3>3
  <2>8. PICK y : y = FoundIn(v)
    OBVIOUS
  <2>9. PICK w : w = LexicallyIn(v)
    OBVIOUS
  <2>10. /\ y \in Nat
         /\ y = 0 => \A z \in FrameNumbers : z \notin V
         /\ y # 0 => y \in FrameNumbers /\ y \in V /\ \A z \in FrameNumbers : z \in V => z <= y
    BY <2>5, <2>8, FoundIs
  <2>11. /\ w \in Nat
         /\ w = 0 => \A z \in A : z \notin V
         /\ w # 0 => w \in A /\ w \in V /\ \A z \in A : z \in V => z <= w
    <3>1. w = 0 => \A i \in 1 .. Len(Around) : v \notin frames[Around[i]]
      BY <2>9, LexicallyIs
    <3>2. w # 0 => /\ \E i \in 1 .. Len(Around) : Around[i] = w
                   /\ v \in frames[w]
                   /\ \A i \in 1 .. Len(Around) : v \in frames[Around[i]] => Around[i] <= w
      BY <2>9, LexicallyIs
    <3>3. w \in Nat
      BY <2>9, LexicallyIs
    <3> QED
      BY <2>4, <2>5, <3>1, <3>2, <3>3
  <2>12. 0 \notin B
    BY <2>2 DEF Bodies
  <2>13. CASE y \in B
    <3>1. y # 0
      BY <2>12, <2>13
    <3>2. y = w
      BY <2>6, <2>7, <2>10, <2>11, <2>13, <3>1, GreatestAgree
    <3> QED
      BY <2>8, <2>9, <3>2
  <2>14. CASE w \in B
    <3>1. w # 0
      BY <2>12, <2>14
    <3>2. w = y
      BY <2>6, <2>7, <2>10, <2>11, <2>14, <3>1, GreatestAgree
    <3> QED
      BY <2>8, <2>9, <3>2
  <2> QED
    BY <2>3, <2>8, <2>9, <2>13, <2>14
<1> QED
  BY <1>1, ScopeInvariance, PTL

=============================================================================
