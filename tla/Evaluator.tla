----------------------------- MODULE Evaluator -----------------------------
(***************************************************************************)
(* The evaluator of libflisp/src/eval.c on the environment of env.c: every *)
(* LET, DO and application of a closure pushes a frame of variables onto   *)
(* toplevel.lexical, evaluates its body and pops a frame again.            *)
(*                                                                         *)
(* The program is any program: which expression comes next is a choice.    *)
(* The C stack is the sequence control of the forms being evaluated, the   *)
(* innermost first, and so is the list of frames.                          *)
(***************************************************************************)
EXTENDS Naturals, Sequences, FiniteSets, SequencesExt

CONSTANTS Vars,        \* symbols
          NIL, Vals,   \* values, NIL among them
          Unbound,     \* no global variable of that name
          ParamLists,  \* [req : names, rest : the name behind the dot, or NIL]
          MaxArgs,     \* bound: arguments of a call
          MaxDepth,    \* bound: forms nested, a SET! or DEFINE inside them not counted
          MaxFrames,   \* bound: frames pushed
          MaxClosures  \* bound: closures made

ASSUME ValAssumption == NIL \in Vals /\ Unbound \notin Vals /\ NIL \notin Vars
\* The names of a list are different.
ASSUME ParamAssumption ==
  /\ ParamLists \subseteq [req : Seq(Vars), rest : Vars \cup {NIL}]
  /\ \A p \in ParamLists : \A i, j \in DOMAIN p.req :
       p.req[i] # p.rest /\ (i # j => p.req[i] # p.req[j])
ASSUME BoundAssumption ==
  MaxArgs \in Nat /\ MaxDepth \in Nat /\ MaxFrames \in Nat /\ MaxClosures \in Nat

VARIABLES
  special,   \* the global variables
  lexical,   \* the frames
  control,   \* the forms being evaluated
  mode,      \* about to evaluate an expression, to return, or to enter a body
  val,       \* the value returned
  closures,  \* the closures there are, with the frames around each (history)
  frames,    \* history: the variables of the n-th frame pushed
  lost       \* history: memory has run out while a frame was pushed

vars == <<special, lexical, control, mode, val, closures, frames, lost>>

-----------------------------------------------------------------------------
(* env.c                                                                     *)

ParamNames(params) == Range(params.req) \cup ({params.rest} \ {NIL})

\* mutant: a name without a value is not bound
BindsGiven(params, vals) ==
  [v \in {params.req[i] : i \in DOMAIN params.req \cap DOMAIN vals} |->
     vals[CHOOSE n \in DOMAIN params.req : params.req[n] = v]]

\* The frame of extend_env: a name without a value is bound to NIL, the name
\* behind the dot to the list of the values that are left, or NIL.
Binds(params, vals) ==
  LET Nth(n) == IF n <= Len(vals) THEN vals[n] ELSE NIL
  IN  [v \in ParamNames(params) |->
         IF v = params.rest THEN Nth(Len(params.req) + 1)
         ELSE Nth(CHOOSE n \in DOMAIN params.req : params.req[n] = v)]

\* The positions of the frames that bind v, innermost first.
BoundIn(v) == {n \in DOMAIN lexical : v \in DOMAIN lexical[n].binds}
Least(set) == CHOOSE n \in set : \A m \in set : n <= m

\* lookup: the innermost binding, else the global one; eval makes NIL of neither.
lookup(v) ==
  IF BoundIn(v) # {} THEN lexical[Least(BoundIn(v))].binds[v]
  ELSE IF special[v] # Unbound THEN special[v] ELSE NIL

\* mutant: the outermost binding is set
env_setOutermost(v, x) ==
  IF BoundIn(v) # {}
    THEN /\ lexical' = [lexical EXCEPT ![CHOOSE n \in BoundIn(v) :
                                           \A m \in BoundIn(v) : n >= m].binds[v] = x]
         /\ UNCHANGED special
    ELSE /\ special' = [special EXCEPT ![v] = x]
         /\ UNCHANGED lexical

env_set(v, x) ==
  IF BoundIn(v) # {}
    THEN /\ lexical' = [lexical EXCEPT ![Least(BoundIn(v))].binds[v] = x]
         /\ UNCHANGED special
    ELSE /\ special' = [special EXCEPT ![v] = x]
         /\ UNCHANGED lexical

\* remove_frame: cell_pop of an empty list does nothing.
Popped == IF lexical = <<>> THEN <<>> ELSE Tail(lexical)

-----------------------------------------------------------------------------
(* Forms                                                                     *)

Top == Head(control)

\* The form on top of the C stack becomes f.
Replace(f) == control' = <<f>> \o Tail(control)

\* The numbers of the frames that lexical scoping would show the expression being
\* evaluated, innermost first (history).
Around == IF control = <<>> THEN <<>> ELSE Top.around

\* A form that evaluates n expressions before it enters its body, which lexical
\* scoping would put inside the frames given.
Form(kind, params, n, inside) ==
  [kind |-> kind, pc |-> "values", params |-> params, n |-> n, vals |-> <<>>,
   own |-> 0, updated |-> 0, around |-> Around, inside |-> inside]

Begin(kind, params, n, inside) ==
  /\ mode = "eval"
  /\ Len(control) < MaxDepth + (IF kind \in {"set!", "define"} THEN 1 ELSE 0)
  /\ control' = <<Form(kind, params, n, inside)>> \o control
  /\ mode' = IF n = 0 THEN "enter" ELSE "eval"
  /\ UNCHANGED <<special, lexical, val, closures, frames, lost>>

\* A LET or DO has no dotted names.
WithoutRest(params) == [params EXCEPT !.rest = NIL]

-----------------------------------------------------------------------------

Init ==
  /\ special = [v \in Vars |-> Unbound]
  /\ lexical = <<>>
  /\ control = <<>>
  /\ mode = "eval"
  /\ val = NIL
  /\ closures = {}
  /\ frames = <<>>
  /\ lost = FALSE

(* eval of an expression *)

\* A constant, or the application of a procedure written in C.
Constant(x) ==
  /\ mode = "eval"
  /\ val' = x
  /\ mode' = "return"
  /\ UNCHANGED <<special, lexical, control, closures, frames, lost>>

Variable(v) ==
  /\ mode = "eval"
  /\ val' = lookup(v)
  /\ mode' = "return"
  /\ UNCHANGED <<special, lexical, control, closures, frames, lost>>

\* gc_new_closure keeps a pointer to the one environment, not the frames in it.
MakeClosure(params) ==
  /\ mode = "eval"
  /\ Cardinality(closures) < MaxClosures
  /\ closures' = closures \cup {[params |-> params, around |-> Around]}
  /\ mode' = "return"
  /\ UNCHANGED <<lexical, control, frames, lost>>

\* A closure, a macro and a symbol are values that are not NIL.
Lambda(params) ==
  /\ MakeClosure(params)
  /\ val' \in Vals \ {NIL}
  /\ UNCHANGED special

\* (define (v . params) body) and (defmacro (v . params) body)
DefineClosure(v, params) ==
  /\ MakeClosure(params)
  /\ val' \in Vals \ {NIL}
  /\ special' \in {[special EXCEPT ![v] = x] : x \in Vals \ {NIL}}

BeginLet(params) == Begin("let", WithoutRest(params), Len(params.req), Around)
BeginDo(params)  == Begin("do", WithoutRest(params), Len(params.req), Around)
BeginSet(v)      == Begin("set!", [req |-> <<v>>, rest |-> NIL], 1, Around)
BeginDefine(v)   == Begin("define", [req |-> <<v>>, rest |-> NIL], 1, Around)

\* The arguments are evaluated outside the closure, the body inside.
BeginCall(c, n)  == Begin("call", c.params, n, c.around)

\* The procedure of a macro gets the forms as they are.
BeginMacro(c)    == Begin("macro", c.params, 0, c.around)

\* "Must be a proper list", "Incorrectly formatted let binding": the form returns
\* NIL at once, before it has pushed its frame.
FormError ==
  /\ mode = "eval"
  /\ control # <<>> /\ Top.kind \in {"let", "call"} /\ Top.pc = "values"
  /\ control' = Tail(control)
  /\ val' = NIL
  /\ mode' = "return"
  /\ UNCHANGED <<special, lexical, closures, frames, lost>>

(* eval has returned *)

\* IF, BEGIN, a body, a quasiquote, the arguments of a procedure written in C and
\* flisp_repl go on with another expression in the same frames.
GoesOn ==
  /\ mode = "return"
  /\ mode' = "eval"
  /\ UNCHANGED <<special, lexical, control, val, closures, frames, lost>>

TakeValue ==
  /\ mode = "return"
  /\ control # <<>> /\ Top.pc = "values"
  /\ Replace([Top EXCEPT !.vals = Append(@, val), !.n = @ - 1])
  /\ mode' = IF Top.n = 1 THEN "enter" ELSE "eval"
  /\ UNCHANGED <<special, lexical, val, closures, frames, lost>>

Assigns == Top.kind \in {"set!", "define"}

DoSet ==
  /\ mode = "enter" /\ Top.kind = "set!"
  /\ env_set(Top.params.req[1], Top.vals[1])
  /\ control' = Tail(control)
  /\ val' \in Vals \ {NIL}
  /\ mode' = "return"
  /\ UNCHANGED <<closures, frames, lost>>

\* The global variable, also inside a frame.
DoDefine ==
  /\ mode = "enter" /\ Top.kind = "define"
  /\ special' = [special EXCEPT ![Top.params.req[1]] = Top.vals[1]]
  /\ control' = Tail(control)
  /\ val' \in Vals \ {NIL}
  /\ mode' = "return"
  /\ UNCHANGED <<lexical, closures, frames, lost>>

\* extend_env, with the form's number among all frames pushed.  When there is no
\* memory for the cell that links the frame, cell_push stores NULL: this frame
\* and all those around it are gone.
PushFrame ==
  /\ mode = "enter" /\ ~Assigns
  /\ Len(frames) < MaxFrames
  /\ LET number == Len(frames) + 1
         binds  == Binds(Top.params, Top.vals)
     IN  /\ frames' = Append(frames, ParamNames(Top.params))
         /\ Replace([Top EXCEPT !.pc = IF Top.kind = "do" THEN "test" ELSE "body",
                                !.n = 0, !.vals = <<>>, !.own = number, !.around = <<number>> \o Top.inside])
         /\ \/ lexical' = <<[number |-> number, binds |-> binds]>> \o lexical /\ lost' = lost
            \/ lexical' = <<>> /\ lost' = TRUE
  /\ mode' = "eval"
  /\ UNCHANGED <<special, val, closures>>

\* mutant: the frame is removed only when the body has a value
BodyEndsEarly ==
  /\ mode = "return"
  /\ control # <<>> /\ Top.pc \in {"body", "result"}
  /\ lexical' = IF val = NIL THEN lexical ELSE Popped
  /\ control' = Tail(control)
  /\ mode' = IF Top.kind = "macro" THEN "eval" ELSE "return"
  /\ UNCHANGED <<special, val, closures, frames, lost>>

\* remove_frame; what a macro has returned is evaluated in its place.
BodyEnds ==
  /\ mode = "return"
  /\ control # <<>> /\ Top.pc \in {"body", "result"}
  /\ lexical' = Popped
  /\ control' = Tail(control)
  /\ mode' = IF Top.kind = "macro" THEN "eval" ELSE "return"
  /\ UNCHANGED <<special, val, closures, frames, lost>>

\* eval_do: the test ends the loop with the result expression, or the body comes.
DoTest ==
  /\ mode = "return"
  /\ control # <<>> /\ Top.pc = "test"
  /\ Replace([Top EXCEPT !.pc = IF val # NIL THEN "result" ELSE "loop"])
  /\ mode' = "eval"
  /\ UNCHANGED <<special, lexical, val, closures, frames, lost>>

\* The innermost frame is the one whose variables are updated; it is looked up
\* once.  Without one, or without variables, the loop starts again.
DoBodyEnds ==
  /\ mode = "return"
  /\ control # <<>> /\ Top.pc = "loop"
  /\ Replace(IF lexical # <<>> /\ Head(lexical).binds # <<>>
               THEN [Top EXCEPT !.n = 1, !.pc = "update", !.updated = Head(lexical).number]
               ELSE [Top EXCEPT !.pc = "test"])
  /\ mode' = "eval"
  /\ UNCHANGED <<special, lexical, val, closures, frames, lost>>

\* Each variable is updated before the next update expression is evaluated.
DoUpdate ==
  /\ mode = "return"
  /\ control # <<>> /\ Top.pc = "update"
  /\ lexical' = [n \in DOMAIN lexical |->
                   IF lexical[n].number = Top.updated
                     THEN [lexical[n] EXCEPT !.binds[Top.params.req[Top.n]] = val]
                     ELSE lexical[n]]
  /\ Replace(IF Top.n = Len(Top.params.req)
               THEN [Top EXCEPT !.n = 0, !.pc = "test", !.updated = 0]
               ELSE [Top EXCEPT !.n = @ + 1])
  /\ mode' = "eval"
  /\ UNCHANGED <<special, val, closures, frames, lost>>

Eval ==
  \/ \E x \in Vals : Constant(x)
  \/ \E v \in Vars : Variable(v) \/ BeginSet(v) \/ BeginDefine(v)
  \/ \E p \in ParamLists :
       \/ Lambda(p) \/ BeginLet(p) \/ BeginDo(p)
       \/ \E v \in Vars : DefineClosure(v, p)
  \/ \E c \in closures : (\E n \in 0 .. MaxArgs : BeginCall(c, n)) \/ BeginMacro(c)
  \/ FormError

Continue ==
  \/ GoesOn \/ TakeValue \/ DoSet \/ DoDefine \/ PushFrame \/ BodyEnds
  \/ DoTest \/ DoBodyEnds \/ DoUpdate

Next == Eval \/ Continue

Spec == Init /\ [][Next]_vars

-----------------------------------------------------------------------------
(* Properties *)

\* The numbers of the frames of the forms being evaluated, and of the frames there are.
OwnNumbers == {control[n].own : n \in DOMAIN control} \ {0}
FrameNumbers == {lexical[n].number : n \in DOMAIN lexical}

\* The list holds numbers of frames, the innermost and so the newest first; a form
\* that has none yet is 0.
InnermostFirst(numbers) ==
  \A m, n \in DOMAIN numbers :
    m < n /\ numbers[m] # 0 /\ numbers[n] # 0 => numbers[m] > numbers[n]

\* Whatever way a form ends, by its value, an error or a macro that goes on, the
\* frames are those of the forms that are in their bodies, in the same order: none is
\* left behind, none is popped by another form.  When memory ran out during a push the
\* frames that are left are still the innermost ones, and at the toplevel there is none.
\* So DO, which takes the innermost frame for its own, updates its own variables.
FramesBalanced ==
  /\ FrameNumbers \subseteq OwnNumbers /\ (~lost => OwnNumbers \subseteq FrameNumbers)
  /\ \A f \in FrameNumbers, own \in OwnNumbers : own > f => own \in FrameNumbers
  /\ InnermostFirst([n \in DOMAIN lexical |-> lexical[n].number])
  /\ InnermostFirst([n \in DOMAIN control |-> control[n].own])
  /\ \A n \in DOMAIN control : control[n].pc = "update" => control[n].updated = control[n].own

\* SET! changes what a reference to its variable gives, and nothing else that a
\* program can see, although lookup and env_set search in different ways.
SetChangesOneVariable ==
  [][mode = "enter" /\ Top.kind = "set!" =>
       \A v \in Vars :
         lookup(v)' = IF Top.params.req[1] = v THEN Top.vals[1] ELSE lookup(v)]_vars

\* The number of the frame in which v is found, 0 for the global variable.
FoundIn(v) == IF BoundIn(v) = {} THEN 0 ELSE lexical[Least(BoundIn(v))].number

LexicallyIn(v) ==
  LET binding == {n \in DOMAIN Around : v \in frames[Around[n]]}
  IN  IF binding = {} THEN 0 ELSE Around[Least(binding)]

\* The frames of the closure whose body is being evaluated, and of the forms in it.
BodyFrames ==
  LET calls == {n \in DOMAIN control : control[n].kind \in {"call", "macro"}
                                         /\ control[n].own # 0}
  IN  {control[n].own : n \in {m \in DOMAIN control : \A c \in calls : m <= c}} \ {0}

\* Scope is dynamic: a body is evaluated in the frames of its caller (eval.c:281),
\* although README.md:8 says Scheme-like semantics and eval.c:279 that the environment
\* is the one packed with the closure.  But that concerns only the free variables of a
\* closure.  Its parameters, and the variables of the forms in its body, are found
\* where they are written, whoever calls it and whatever its arguments call.
BoundVariablesAreLexical ==
  mode = "eval" /\ ~lost =>
    \A v \in Vars :
      FoundIn(v) \in BodyFrames \/ LexicallyIn(v) \in BodyFrames => FoundIn(v) = LexicallyIn(v)

=============================================================================
