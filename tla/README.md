# A verification development for flisp

flisp is a small Scheme-like Lisp: an interpreter library (`libflisp/`) that runs as a
user program (`main.c`) or as the only program of a small kernel (`kernel/`). This
directory models its stateful parts and its algorithms in TLA+, checks them with TLC on
small instances, and proves the main properties of the garbage collector, the hash tables,
the symbol table, the evaluator, the reader, the keyboard, the screen, the kernel and the
functions of fdlibm that work on the bits of a double with TLAPS, for every heap, every set
of devices, every memory map, every program, every text and every format of doubles.

Run `tlc -config X.cfg M` for the runs below, and `tlapm` on the `*Proofs` modules.
`PROJECT.json` maps every definition to the lines it models.

## The system

| component | source | state | operations |
| --- | --- | --- | --- |
| heap and collector | `gc.c` | two spaces, `gc_working`, `gc_free`, `free_p`; a forwarding field in each object | `gc_malloc`, one constructor per type, `gc_collect_init`, `gc_collect`, the recursion of `gc_relocate` |
| hash tables | `ht.c` | fill count, buckets of association lists | `gethash`, `sethash`, `ht_resize`, `remhash` |
| symbol table | `symbol.c` | one block: names from the bottom, pointers from the top | `symbol_init`, `intern`, `lookup_symbol`, `gensym` |
| environment | `env.c` | `toplevel.special` (a hash table), `toplevel.lexical` (a list of frames) | `lookup`, `env_set`, `env_define`, `extend_env`, `remove_frame` |
| evaluator | `eval.c` | the C stack | `eval` and the special forms, `apply`, quasiquotes, `macroexpand` |
| lists, arrays, equality | `lists.c`, `flisp.c` | the cells they are given | `cons`, `append`, `copy_list`, `list_length`, `assoc`, `eq`, `eql`, `equal` |
| reader | `reader.c` | one line buffer and a pointer into it | `next_expr`, `read_list`, `read_string`, `parse_number`, refill through `refresh_buffer_f` |
| printer | `flisp.c`, `sys.c` | none | `print_object`, `format`, `print_int`, `print_double` |
| REPL, loader, errors | `flisp.c`, `main.c`, `error.c` | list of errors, refill function, position in the core source | `flisp_repl`, `load_core`, `load_file`, `error` |
| procedures | `procs.c` | none of their own | 80-odd built-in procedures |
| Lisp core library | `lisp/*.lisp` | `*struct-definitions*` | structures, list functions, macros |
| fdlibm | `libs/fdlibm-5.2` | none | mathematical functions on doubles |
| keyboard | `kernel/kb.c`, `flisp_compat.c` | `kb_key`, `keystatus` | interrupt handler, `getch`, `gets`, `rebuffer` |
| screen | `kernel/screen.c` | video memory, cursor | `putch`, `scroll`, `cls` |
| start-up, interrupts | `kernel/system.c`, `start.asm`, `gdt.c`, `idt.c`, `isrs.c`, `irq.c` | descriptor tables, controllers, stack, memory map | `main`, the stubs, `irq_handler`, `fault_handler` |
| timer | `kernel/timer.c` | tick count | `timer_handler` |

How they interact. The kernel's `main` installs tables and drivers, lets interrupts in,
divides the memory between the symbol table and the heap, and calls `flisp_repl`. That
asks the reader for an expression; the reader refills its line through a function
pointer, in the kernel `rebuffer`, which calls `gets`, which waits in `getch` for the
keyboard interrupt and echoes with `putch`. The expression is evaluated: the evaluator
allocates in the heap, interns names, pushes and pops frames on `toplevel.lexical`, writes
globals with `sethash`, which may replace the table `toplevel.special` points to, and
calls procedures, some of which call fdlibm. After printing, and only then, the collector
copies what the two roots reach. The symbol table is never collected.

What is hard. There are no threads; concurrency is that of interrupts, which come between
any two instructions of `main` and of `getch`. The rest is long protocols: a collector
whose recursion must preserve an arbitrary graph without ever testing whether the copy
fits; a C stack and a list of frames that must agree after every early return; a table
that replaces itself while others hold pointers to it; two regions that grow towards each
other; controllers that are set up by ten writes in order and must be told that each
interrupt has ended; lists that share cells with their copies or contain themselves;
doubles taken apart by words, with carries between them; and running out of memory in the
middle of a step.

What makes each part correct:

- collector: no reference into the abandoned space, sharing and cycles preserved, all
  garbage gone, room for the copies, termination; the program cannot tell it ran;
- hash tables: a value written is read back, the load is bounded, counts are right;
- symbol table: no overlap, symbols are equal exactly when their names are;
- evaluator: frames belong to the forms in their bodies; bound variables are found where
  they are bound; `set!` changes one variable;
- reader and loader: what is evaluated is what is written; errors are told, and once;
- procedures: results are new, only setters change what they are given, and printing,
  reading, equality and quasiquote agree on what a value is;
- fdlibm: results are the mathematical ones, rounded once;
- keyboard and screen: the line has the keys in order, and the screen shows it;
- kernel: no interrupt is taken for an exception, every stub finds its way back, no line
  is left without service, and the heap lies in usable memory.

## Modules

`ObjectGraph` is the abstract memory: handles that hold objects, objects whose slots
hold objects, and a memory that takes back what no handle reaches. It has no addresses
and no limit.

`CopyGC` is `gc.c` under the protocol of `flisp_repl`. An address is a space and a word.
`New`, `NewFails` and `NewFaults` are a constructor that succeeds, that returns `NULL`,
and that writes through `NULL` (the second block of a string, table or array is not
tested; nor is the object in `acons` and `read_list`); `NewBlock` is memory that is no
object. `SetSlot`, `LoadSlot` and `Assign` are every reading and writing of references
by the interpreter. `StartCollection` is `gc_collect_init`, and kills the C locals of
the expression just printed. The recursion of `gc_relocate` is the sequence `todo` of
calls still to be made, in the order the C recursion makes them: `SettleSlot` for `NULL`
and for objects that have been copied, `CopySlot` for others. Kinds of objects and their
sizes are constants, so `cell`, `ht`, `array`, `closure` and the leaf types are all
instances. The integer contents of objects are not modelled. `CopyGC` implements
`ObjectGraph`: the refinement names objects by a history identity, and while a
collection runs it reads the graph from the originals.

`HashTable` is `ht.c` with two users: `define`/`set!`, which pass `&env->special`, and a
program that calls `(sethash (toplevel) k v)`, for which a resize is assigned to a local
of `proc_sethash`. Buckets are sequences with the newest entry first; the hash is a
constant function. `remhash` compares the key with the entry cell instead of the entry's
key, and so finds nothing. The two loops of `ht_resize` are recursive functions, `PutAll`
over the entries of a bucket and `ht_resize` over the buckets.

`SymbolTable` is `symbol.c` on memory modelled byte by byte, so that an overlap really
destroys something. `symbol_init` interns its names one per step, before anything else;
`FirstObject` is the kernel's heap, which begins at the byte after the table.

`Evaluator` is `eval.c` and `env.c`. The program is arbitrary: what expression comes next
is a choice. `control` is the C stack of forms that hold frames or values; `lexical` is
the list of frames. `IF`, `BEGIN`, quasiquotes and procedures written in C evaluate
another expression in the same frames (`GoesOn`). A closure keeps no frames, because
`gc_new_closure` stores a pointer to the one environment; `around` and `inside` are
history: the frames lexical scoping would give it. `PushFrame` may find no memory for
the link; then `cell_push` stores `NULL` and all frames are gone. (When memory runs out
inside `acons` the program writes through `NULL`: that is `NewFaults` in `CopyGC`.)
Names in one parameter list are assumed to be different, and so are those of one `DO`.

`Reader` is `reader.c` with the three loops that call it and the refill function of each.
A step takes one word from the line buffer; `stack` is the C stack of `read_list` and
`next_expr`, with what each list has so far. Atoms, also numbers and strings, are single
words, `'` stands for the four read macros and `comment` for a semicolon with the rest of
its line, and a value is the sequence of words it is
printed with. What a text means is said without a stack: `WellFormed` and `Printed` look
at the words by position and nesting depth, so that comparing the two checks the reader.
`load_file` is given a file that is not empty and nothing follows its call on the line of
the REPL.

`Procedures` is a program that calls built-in procedures on two values and some atoms and
goes on with what it gets. It composes four modules of operators on a heap of cells,
arrays, strings and doubles: `Lists` (`lists.c`, the equalities), `Numbers` (arithmetic on
ints of `Bits` bits, the printing and parsing of numbers), `Forms` (the printer, `format`,
the reader of characters, quasiquotes and macroexpansion) and `Library` (arrays, `assoc`,
`length` and the structures of `structs.lisp`). A double is a fraction; its rounding is
not modelled, but that it may be no number is (`NaN`). A call that never returns, or crashes, has the value `Lost`. The reference
definitions (`Tree`, `Expected`, `Filled`) are recursive functions of the values,
independent of how the code walks them.

`Doubles` is a double as two words of `WordBits` bits, its value as a mantissa and a
scale, and what the library asks of the processor. `Exponents` has the functions that only
take a double apart or put it together (`fabs`, `copysign`, `finite`, `isnan`, `ilogb`,
`logb`, `scalbn`, `ldexp`, `frexp`, `nextafter`) and the long division of `fmod` and
`remainder`; `Fdlibm` has `floor`, `ceil`, `rint`, `modf` and `sqrt`, and the
program that reaches them through `math_helper`. `LittleEndian` tells the two builds apart.
As the Makefile compiles it (`FALSE`) the library takes the low word of a double for the
high one: `View` is the number it sees of a double of the machine, functions take views and
return views, and comparisons and sums, which the processor does on the doubles themselves,
go through `View` both ways (`Same`, `Scaled`, `HugePlusIsPositive`, `Zero`). Sums of which
that makes nothing a definition could say are `Arith`: any double, the constant `Misread`. In
the build that `readme:84` asks for (`TRUE`) a view is the double.

`Screen` is `putch` with its scrolling, and a sheet of paper that never scrolls.
`Keyboard` extends it: the interrupt handler as one step (the gate clears the
interrupt flag), `getch` as three steps with the interrupt between any two, and `gets` as
one step per key, which echoes on the screen and on the paper. `flisp_repl` prints the
prompt, once for each expression; `next_expr` ends with an expression and leaves any part of
the line unread, or calls `rebuffer` for another line, which prints nothing, as often as it
needs. So a prompt may be followed by no line, when the next expression is on the line
already read, or by several, when an expression goes on, or a line is blank or a comment.
`print_object` is what evaluation, values and errors print, a character at a time.

`Kernel` is `main` before the REPL, one step per call (`irq_remap` one per port write),
and the path of an interrupt or exception: the processor's choice and push (`Interrupt`,
`Fault`), the stub (`isr_stub`), `fault_handler`, and `irq_handler` as its routine
(`irq_routine`) and the two ends of interrupt. The 8259 controllers, the processor's
frame and the keyboard controller's output buffer are external and are modelled by what
they do.

`MC*` modules give constants their values. The `*Proofs` modules hold the proofs about the
module they are named after; `CopyGCProofs` also that `CopyGC` implements `ObjectGraph`.

## Runs

| run | instance | shows |
| --- | --- | --- |
| gc | 6 words per space: tables, cells, closures, leaves and a raw block, one local | `NoDangling`, `CopyFits`, `CopiesMirrorOriginals`, `OnlyReachableKept`, `CollectionEnds`, `RefinesObjectGraph` |
| environment | names: 20 bytes, pointers of 2, 5 names, 3 gensyms | `TableIntact`, `SymbolsAreNames` |
| | globals: 4 keys with collisions, sizes 2 to 9 | `LoadFactor`, `AtMostOneMisplaced`, `OthersReadBack` |
| | frames: 2 variables, lists `(x . y)` and `()`, forms two deep with a `set!` inside, 2 frames, 1 closure | `FramesBalanced`, `BoundVariablesAreLexical`, `SetChangesOneVariable` |
| hash_stale | the same globals | a global just defined is not found: violation of `WrittenIsRead` |
| keyboard | 7 keys, line of 3 and terminator, 4 presses, one character printed; 4 columns, 2 rows, 11 rows of paper | `LineInOrder`, `EchoShowsLine`, `ShowsLastRows`, `ShiftFollowsOneKey`, `EnterEndsLine` |
| symbol_nil | the same names | `NIL` is lost to the first object: violation of `BootNamesFound` |
| reader | texts of up to 4 words, 4 longer sentences and these with a word missing, on 3 lines in every way | `AsWritten`, `LoadComplete`, `ErrorsReportedOnce`, `LoadEnds` |
| repl_errors | the same texts | what the reader signals is not reported: violation of `ListedIsReported` |
| load_file_twice | the same that end with a newline | the last line of a file is evaluated again: violation of `FileEvaluatedOnce` |
| kernel | lines 0, 1, 8 and 12, exceptions 0 and 13, 7 memory maps, 3 requests | `NoStrayVector`, `NeverResets`, `Acknowledged`, `KeyboardListens`, `LayoutFits`, `RequestsServed` |
| procedures | 10 heaps that share tails, elements and structures, ints of 5 bits, every two calls | `ListsAreNew`, `LengthTellsCycles`, `SlotsReadBack`, `EqualIsSameTree`, `PrintedReadsBack`, `TemplateFilled`, `OnlySettersWrite` |
| fdlibm | every double of 18 bits, 5 shifts, 5 second arguments, as built | `RoundsToIntegers`, `SqrtCorrectlyRounded`, `ScalesExactly`, `RemaindersExact` |
| floor_as_built | as built | `FLOOR` does not round what it is given: violation of `FloorIsBelow` |

The run `environment` has three models side by side, names, globals and frames. None of
them reads what another one writes, so their steps commute; the instance lets each move
while the other two are where they began, which gives every state that any of them has.

Why the bounds are enough. The collector's cases are a `NULL`, a first visit, a second
visit through another slot, through the other root and through a cycle, a heap that is
full to the last usable word, and a second collection after any of these; two or three
objects in five usable words give them all. The hash table goes through at least two
resizes, with keys that collide before and after. Two nested frames are what a lookup
needs to prefer one; the bound on frames stops a program after two bodies, so the
run says nothing of longer histories except that they start from the same
states (with no form active there is no frame). In the keyboard's run the fourth key is
beyond the line's room, the second wraps on the screen behind a prompt, and a screen of two
rows scrolls at the first Enter; lines with and without a prompt before them, and prompts
without a line, come in every order. The symbol table fills up in every order of names and gensyms. Texts
of four words have every syntax error at every depth they allow; the longer sentences
have dotted tails that are lists, quotes and dotted lists, nested lists and comments, and
losing a word breaks each of them in every place. Three lines give a cut before, inside
and after an expression, and an end with and without newline. After the end two `NIL`s
close a text that is well formed; one that is not goes on reading `NIL`, which the bound
stops. Three requests are a line in service, one of another priority waiting, and one
that comes meanwhile; the lines are on both controllers, the first and another one of
each, the exceptions with and without an error code. Two calls are what it takes to make a
list contain itself and to use it, or to set an instance after its definition has
changed; five bits let sums, products and the printing of the least integer overflow. In
doubles of 18 bits the point may lie in the high word, between the words and in the low
word, large numbers without a fraction and subnormal numbers occur. The run has the library
as the Makefile compiles it; the promises that hold only in the build of the readme (`rint`,
`remainder`, subnormal results) are proved, in `FdlibmProofs`.

Deadlock is checked except where the system may stop: `GC.cfg` (the program may write
through `NULL`), `Environment.cfg` (the bound on frames), `Keyboard.cfg` (after the last press the
REPL waits for a key), `Kernel.cfg` (an exception halts it, and so does too little
memory), `Procedures.cfg` (the bound on calls) and the reader's (a loop that is done, the
REPL waiting for a line, the bound on `NIL`s).

Fairness. `CopyGC` assumes weak fairness of the collector: a collection is straight-line
code that nothing interrupts. `Keyboard` assumes weak fairness of the REPL's steps, and
`Kernel` of the processor's: it executes instructions whenever it is not halted; nothing
is assumed of the user, of devices or of exceptions. `Reader` assumes weak fairness of
loading, which waits for nothing, and none of the REPL. The other modules have no
fairness, and no liveness is stated of them.

## What is proved

### CopyGCProofs

For every heap size, every set of kinds with sizes and slot counts as in
`KindAssumption`, and any set of locals:

- `TypeCorrectness`: `Spec => []TypeOK`;
- `NothingDangles`: `Spec => []NoDangling`;
- `CopiesAlwaysFit`: `Spec => []CopyFits`;
- `CopiesAreIsomorphic`: `Spec => []CopiesMirrorOriginals`.

They rest on `Invariance`: `Spec => []IInv`. `NoDangling` is not inductive: what holds when
a collection ends depends on what each pending call of the recursion will do. `IInv` adds
that objects of a space lie side by side under the limit of `gc_malloc` (`Layout`); that
between collections there are no originals, no forwarding and no pending calls
(`Quiescent`); that the roots collected so far hold copies and the others originals
(`RootsSplit`); that a slot of a copy refers to a copy unless a pending call will fill
it, and that each pending call carries the reference of the original's slot
(`SlotsSplit`); and that the copies take exactly the words of the originals copied so
far (`WordsConserved`). The last one gives `CopyFits`: an original not yet copied occupies
words below the limit that are disjoint from those of the copied ones, so there is room
for it. There is one lemma per action (`NewStep`, `SetSlotStep`, `StartStep`,
`CollectRootStep`, `SettleSlotStep`, `CopySlotStep`, ...); copying an object, which a root
and a slot do alike, is the lemma `CopyPreserves`. The assumptions are those named in
`CopyGC`; TLC evaluates them in every run.

In the second half of the module, for every heap as above:

- `Refinement`: `Spec => RefinesObjectGraph`, all of the abstract memory;
- `GarbageIsReclaimed`: `Spec => []OnlyReachableKept`.

The abstract objects are the identities. `RInv` says when they can stand for addresses: two
objects of a space never share one, a copy has that of its original and every object of
the space in use during a collection is a copy (`Identified`); only originals that the
roots reach have been copied (`OnlyReachedCopied`); the copies lie without a gap (`Packed`).
`RefinementInvariance` is `Spec => []RInv`, given `IInv`. `ObjectGraph` defines what is reached as what is in
every closed set of nodes, so no proof needs induction: that something is reached follows
from closure of all sets (`BaseReached`, `TargetReached`), that only it is from one closed
set (`ReachedInClosed`). A step of the mutator is the abstract step of its name, because the graph
of images is determined by its objects (`GraphIs`). A step of the collector changes no
original but its forwarding, so the graph that the originals make is the same
(`CollectionUnseen`), and what it copies is reached (`RootReached`, `TaskReached`). At the
end the identities of the copies are a closed set, so they are all that is reached
(`CopiesComplete`), and dropping the originals is `Reclaim` (`FinishRefines`). The identities
are a history variable: `New` takes one that no object has, which the code has no
need of; the memory behaves the same whatever it takes. `Ids` may be infinite, and then
`New` is never held up by it.

### HashTableProofs

For all keys, values and hashes, and every initial size from 2:

- `LoadIsBounded`: `HashSpec => []LoadFactor`;
- `AtMostOneIsMisplaced`: `HashSpec => []AtMostOneMisplaced`;
- `OthersAreReadBack`: `HashSpec => []OthersReadBack`.

`HInv` says of the table of globals and of the one an older handle keeps that its fill count
is the number of entries, that it is at most one entry over its threshold, and that of two
misplaced entries one is the other (`Table`); and of a global that no resizing call has
added that its entry is where `gethash` looks and the only one for its key, and holds what
was written last (`Global`). `OthersReadBack` alone is not inductive: `ht_resize` puts the
entries of a bucket in from the newest on, so that the last value written survives only if
no bucket has a second entry for the key. What an operation does to a table is said once
(`Updated`, `Added`), and each part of the invariant is followed through it
(`UpdatedInPlace`, `AddedMisplaced`, `PutOnly`, ...). The loops of `ht_resize` are followed
entry by entry (`PutSome`, `PutOneMore`) and bucket by bucket (`Moved`, `MoveBucket`); at
the end every entry is in place, so the one that is then pushed at the stale index is the
only one that may not be (`ResizeTable`). Induction is over numbers, through the least
counterexample (`LeastIs`, `Induct`), and that a function defined by recursion exists is
proved with it (`Recursion`).

### KernelProofs

For every set of lines without the cascade, any exceptions, every list of memory blocks
that lie below `Word`, and all sizes of kernel, symbol table and heap:

- `DevicesKeepToTheirVectors`: `Spec => []NoStrayVector`;
- `ProcessorNeverResets`: `Spec => []NeverResets`;
- `InterruptsAcknowledged`: `Spec => []Acknowledged`;
- `KeysAreRead`: `Spec => []KeyboardListens`;
- `MemoryFits`: `Spec => []LayoutFits`.

Again they rest on `Invariance`. `IInv` adds what main has done by each step: which gates
are there (`Gated`: interrupts are let in only after all 48), how far each of the ten
writes has brought the two controllers (`Programmed`); and what an interrupt carries from
one step to the next: where it came from (`Delivered`), which line is in service at which
controller (`InServiceNow`), and that the stack holds, under the words the stubs drop, the
processor's frame (`Stacked`). `Listening` says that the keyboard's routine is installed
before a key counts, and `Located` that the memory main goes on with is a block less the
kernel. The steps of `main` that install something are one lemma (`InstallStep`); the
ten writes rest on what a command and a data word do to a controller (`CommandResult`,
`DataResult`), the stubs on the words of a concatenation (`StubStack`).

### EvaluatorProofs

For all variables, values and parameter lists, and any nesting of forms:

- `FramesAreBalanced`: `Spec => []FramesBalanced`;
- `SetIsExact`: `Spec => SetChangesOneVariable`;
- `BoundVariablesAreFound`: `Spec => []BoundVariablesAreLexical`.

`FramesBalanced` is not inductive: that a form which returns removes its own frame depends
on which forms have one. `IInv` adds what a form has done by the time it is at its `pc`
(`Stage`: it has a frame once it has all its values; `SET!` and `DEFINE` have one value and
no frame), that only the form on top can be about to enter its body (`Staged`), and the
types, since a lookup must give a value. The frame on top is the newest (`TopIsNewest`), so
it is the innermost of `lexical` when that has any (`TopFrame`). There is one lemma for each
way in which the C stack changes (`OneBegins`, `TopGoesOn`, `TopEnds`) and one for each
action. `SetIsExact` rests on `SetThenLookup`: writing a frame changes no frame's set of
variables, so both searches end where they did; that a search ends at all is that a set
of positions has a least one.

`BoundVariablesAreLexical` needs to know what is around every form on the C stack, not only
around the one on top (`Scoped`): a form other than a call has inside it what is inside the
form that contains it (`Enclosing`), and what is around any form begins with the frames of
the bodies it stands in, down to the call that entered the closure; what follows is older
than all of them (`BodiesAround`). A closure is older than no frame around it (`Numbers`).
Then the search through `lexical`, which goes from frame to frame of the callers, and the
one through the text agree as long as they meet a frame of the body first. `Named` ties a
frame's number to its variables. A step changes the top of the stack and leaves the rest
(`SameEnd`), so each lemma about it is proved once for a stack of any depth.

### KeyboardProofs

For every table of keys, every length of line and any number of presses:

- `KeysStayInOrder`: `Spec => []LineInOrder`;
- `ShiftIsRight`: `Spec => []ShiftFollowsOneKey`;
- `LastRowsAreShown`: `Spec => []ShowsLastRows`, for every size of screen and tab stop;
- `LineIsShown`: `Spec => []EchoShowsLine`.

The first needs `KeyIsNewer`, that a key in `kb_key` was pressed after the one that `getch`
returned last, or is that key, between `ret = kb_key` and `kb_key = 0`; and `LineIsOlder`,
that the line has only keys up to that one.

The last two are one invariant with these (`ScreenInvariance`), because both need to know
that the paper never ends: `Written` counts at most two rows for each key that `getch` has
returned and one for each character printed. `Clean` says that the cursor is on the screen and that the rows below it are
blank, without which a scroll would show what was never written. `PutchIs` and `TypedIs`
say what one character does to the screen and to the paper, as a change of one row and a
move of the cursor, and `ShowsStep` that the two stay in step, with and without a scroll.
The echo rests on what the characters of `gets` do to the row of the cursor: a prompt
(`PromptShows`), a key that is stored and does not reach the edge (`StoreShows`), and
backspace, blank, backspace, where the blank may wrap only on a line that has wrapped
before (`EraseShows`). A line begins behind the prompt or, when the one before it has ended
since the prompt, in the first column (`Lead`). `PromptAssumption` is that the prompt fits on a row, and
`PaperAssumption` that the history has enough paper for the bound on the keys.

### ReaderProofs

For all texts, every layout of them on lines, all three loops and any number of errors:

- `EvaluatedAsWritten`: `Spec => []AsWritten`;
- `TextsAreLoadedCompletely`: `Spec => []LoadComplete`;
- `ErrorsAreReportedOnce`: `Spec => []ErrorsReportedOnce`.

`AsWritten` speaks of the moments between two expressions, `WellFormed` and `Printed` of
complete texts, and the reader has only seen the beginning of one. So the stack is followed
against every well-formed text `w` that begins with the words read (`Where`): each frame
was begun by a word of `w`, and what has been evaluated is what the words before the first
of them say. `FrameOk` has one case for each mode of a frame: a quote that waits for its
expression, a list with some of its items, one that has come to its dot, and one that has
its tail and waits for the parenthesis. Each says that what the frame has in store is what
the words from the one that began it up to here add to `Printed`. A value that is returned
is what the words of one complete expression say (`ValueOk`).

There is one lemma for each word (`ReadOpen`, `ReadClose`, `ReadQuote`, `ReadAtom`,
`ReadDot`, `ReadComment`) and for each caller that takes a value (`TakeTop`, `TakeItem`,
`TakeQuote`, `TakeTail`); the steps that signal an error contradict that `w` is well formed
(`NoUnmatched`, `NoEarlyDot`, `NoLongTail`). Every one moves the position by one word, and
what it needs is what that does to the nesting depth (`DepthStep`) and to what has been said
(`ToldStep`). `DroppedIs` decides which words are said: of a dotted tail that is a list,
neither the dot nor the parentheses are. Where a list ends is a matter of depth (`Match`), so a parenthesis that
closes something closes the frame on top (`MatchUnique`). The definitions behind
`Printed` are the first place before which something holds, counts and
concatenations of sequences; that they exist and what one word adds to them is shown by
induction over a set of numbers (`NatSetInduction`), which comes from the finiteness of
`0 .. n`: a set that contains 0 and with each number the next, but not `n`, would give an
injection of `0 .. n` into itself that leaves out 0.

`Buffered` says that, until the source ends, the words taken and not yet consumed are those
in the buffer; `AtEnd` what is left to do when a text that ends
with a newline is over; `Reported` that what the REPL has printed are the errors of the
evaluations and nothing the reader signalled.

### SymbolTableProofs

For every size of table and of word, and all names and their lengths:

- `TableStaysIntact`: `SymbolSpec => []TableIntact`;
- `SymbolsStayNames`: `SymbolSpec => []SymbolsAreNames`.

`IInv` adds that the n-th pointer lies at `Slot(n)` and the next name ends below the last
pointer written (`TableTypes`): only the gap between is written. That is what `Grows` says
of a step, and then every string stored and every pointer followed before is the same
after (`StoredStays`, `ReachesStays`); that the test of `intern_new_symbol` and `gensym`
keeps what they write in the gap is `InternWrites` and `GensymWrites`. A symbol that was
interned has the address of the first entry with its name (`First`), which stays the first
when entries are added below (`FirstStays`); a gensym has an address that no entry and no
other gensym has, because names are stored ever higher. The first pointer, which lies half
behind the table, is exempt: it may be lost to `FirstObject`, before any symbol is handed
out.

### FdlibmProofs

For every format of doubles that `FormatAssumption` allows (the real one has `WordBits = 32`
and `ExpBits = 11`), and for both builds, with nothing assumed of `LittleEndian` or `Misread`
but their types:

- `RoundsToIntegersAlways`: `Spec => []RoundsToIntegers`;
- `SqrtCorrectlyRoundedAlways`: `Spec => []SqrtCorrectlyRounded`;
- `ScalesExactlyAlways`: `Spec => []ScalesExactly`;
- `RemaindersExactAlways`: `Spec => []RemaindersExact`.

In both builds the functions work on the two words they take for the high and the low one,
so what they do with integers is the same: it is proved of the number that those words are,
`View(x)`. What the build of the Makefile has of these promises is what a property says
without a condition: `floor`, `ceil`, the integral part of `modf`, `sqrt` of finite numbers,
exact scaling between normal numbers, the steps of `nextafter`, `fmod` and the tests of the
words. Where a function asks the processor for a product, a sum or a comparison, the
processor works on the double and not on the view, and the property has what is left: a
comparison with `huge` that fails for numbers the library takes for others
(`HugePlusIsPositive`), nothing of subnormal numbers (`scalbn` scales them by a product) and of
`rint` and `remainder` (sums). There the properties say `LittleEndian =>`, and promise it in
the build of the readme. That the number seen is not the number given is no theorem but the
violation `floor_as_built`.

The properties speak of one double, so the work is not in an invariant but in the
functions. A double is written `Of(n, k, f)`, a sign, a field of the exponent and a
fraction (`PartsOf`: every double is one; `ValuesOf`: what `Mantissa`, `Scale`, `Exponent`
and the words are of it). A word is divided by a power of two as two words are by the unit
of their sum (`TwoWords`, `HighUnit`), and where the point lies decides which of two
products that power is (`UnitIs`). So `ToInteger` and `modf` clear what is behind the point
in either word, and the carry may reach the field (`HighPlace`, `LowPlace`, `ToIntegerIs`,
`IntIs`); that the result is the next integer is `IntegerAt`. `rint` sets a bit behind the
half before it adds TWO52: `StickyHigh`, `StickyLow` and `StickySmall` say that this bit says
whether anything was left, `RoundedAlike` that this is all that rounding looks at.

`sqrt` keeps what is left of the argument in `ix0, ix1`, twice the root in `s0, s1` and the
root in `q, q1`. With `R` for what is left and `Q` for the root as numbers of two words
(`Rest`, `RootOf`), and `c` for the bit found last, `Found` is the invariant of its loops:
`R * c = 2 * (X - Q * Q)` and `R < 4 * Q + 2 * c`, where `X` is the argument in units of
the square of the last bit; that is, `Q * Q <= X < (Q + c) * (Q + c)`. `FoundStep` shows that one bit
keeps it. `HighBitIs` and `LowBitIs` show that the code's arithmetic of two words, with its
carries and borrows, is that one bit; `Bounded` that the low word has room for the bits
still to come. So `Root` finds the root cut off behind one bit more than fits (`RootFound`,
`RootBetween`), and `Nearest` takes that bit off (`NearestIs`, `RootRounded`). `NormalizedIs`
covers subnormal arguments.

`scalbn` compares an exponent that may have overflowed with the bounds of the field. Every
number but 0 has its leading bit in its place for some field `e`, which for a subnormal one
is below 1 (`NormalOf`, `Prepared`), and multiplied by a power of two it is that mantissa with
another field (`TimesOf`, `NormalComposed`). `ScalbnIs` goes through where `e + n` lies; that
the comparison with 50000 tells an overflow of the sum from a small result is what
`FarAssumption` says of that number. `frexp`, `ilogb` and `logb` all speak of `e`
(`FrexpIs`, `IlogbIs`, `LogbIs`). `nextafter` compares and steps in words; `BeyondIs` and
`OneFurtherIs` say that this is the order and the next number of magnitudes.

For `fmod` and `remainder` a finite double is a number of `Units`, multiples of the least
subnormal number; the order of doubles is that of their units (`UnitsOrder`). `fmod` aligns
both mantissas as pairs of words (`AlignedIs`) and takes the divisor away wherever it fits,
one shift at a time: `Pair`, `MinusIs`, `DoubledIs` and `TakenIs` say that this is
subtraction, doubling and the remainder below twice the divisor, with borrow and carry
between the words, and `LeftIs` that after `n` shifts `(a * 2^n) % m` is left. `RebuiltIs`
puts the leading bit back in its place, in subnormal numbers too, and loses none; so
`FmodIs`: `Units(fmod(x, y)) = Units(x) % Units(y)`. `remainder` first reduces by twice the
divisor, unless that overflows, and then no number is as large (`ReducedIs`, `FarUnits`). It
compares what is left with half the divisor without rounding, by doubling a small operand or
halving a large one (`HalfIs`), and its subtractions are of numbers neither of which is more
than twice the other, so they are exact (`CloseUnits`, `DifferenceIs`). `RemainderIs` is the
result, with the sign of 0. The property counts in the smaller of the two scales instead,
which `FactorLeft` and `FactorNearest` bring in.

The attempt to prove this changed the model in two places. `FormatAssumption` had
`Bias >= FracBits`; with `Bias = FracBits` (`ExpBits = 6`, `WordBits = 19`) the root of the
least subnormal number would be subnormal itself, and `sqrt` returns something else, so it
now has `Bias > FracBits`; the format of the code, 1023 and 52, is far from either. And the
bits of the root were a fold over a sequence; `Root` is now a recursive function of their
number, which says the same and lets the prover take them one by one.

### Only model-checked

- `CollectionEnds`, `EnterEndsLine`, `LoadEnds` and `RequestsServed`: liveness under
  fairness is out of the prover's reach.
- The properties of `Procedures`: `Lists`, `Numbers`, `Forms` and `Procedures` itself have
  recursive operators, which follow the recursion of the code, and no prover at hand
  reasons about those.

## Where the code differs from what it says

Five runs show a violation, each of a property that a comment or a document states:

- `hash_stale`: `sethash` takes the bucket index before it resizes the table and uses it
  after (`ht.c:53`, `ht.c:79`), so the entry that caused the resize is not found until the
  next one. `AtMostOneMisplaced` and `OthersReadBack` show that nothing else is lost.
- `symbol_nil`: `symbol_init` stores the first pointer one byte before the end of the
  table (`symbol.c:22`); the first object overwrites the rest of it, and `NIL` is interned
  a second time.
- `load_file_twice`: `load_file` evaluates the first expression of the last line again
  when the file ends with a newline (`main.c:127`, `main.c:231`).
- `repl_errors`: `flisp_repl` clears the list of errors after reading (`flisp.c:383`), so
  those of the reader are never printed, though `README.md:112` says that the list is
  reported at the REPL. `ErrorsReportedOnce` is what holds: those of evaluations are.
- `floor_as_built`: fdlibm is compiled without `-D__LITTLE_ENDIAN` (`Makefile:53` of the
  library, `fdlibm.h:14`, against its `readme:84`), which exchanges the words of every double:
  `floor(2.5)` is then 0, and `fabs(-1.5)` is -1.5.

Other differences met on the way are in the models as the code has them, and the
properties say where they end:

- `print_int` negates the least `int` (`sys.c:134`), and `print_double` goes through an
  `int` (`sys.c:180`): `PrintedReadsBack` leaves these numbers out, and doubles that are no
  number (`(sqrt -1)`), strings that contain `"`, a backslash or a newline, which are printed
  unescaped (`flisp.c:219`), words such as `...`, which read as a double, and the symbol
  `NIL`, which is what `NULL` is printed as. A string broken by a newline cannot be read at
  all (`reader.c:410`), which the property says too.
- A double that is no number is `eq?` to itself and neither `eql?` nor `equal?`
  (`flisp.c:53`, `flisp.c:103`): `EqualIsSameTree` says so of it and of lists that hold it.
- `list_length` counts in twos (`lists.c:62`); `equal` of two strings is true when they
  differ (`flisp.c:80`); `(- a b c)` and `(/ a b c)` take the sum of the rest. The reference
  definitions of `LengthTellsCycles` and `EqualIsSameTree` say so.
- `proc_apply` flattens its lists, `make-array` takes a negative size, `(error)` wants
  strings, and a `format` string may end in `~`: the calls that would crash are `Lost`.
- `logb` gives every subnormal number the exponent of the smallest normal ones
  (`s_logb.c:34`), against `man3p/logb.3p:33`, and `nextafter(x, y)` is `x` when `x == y`
  (`s_nextafter.c:45`), against `man3p/nextafter.3p:62`, so that of two zeros of opposite sign
  it is the wrong one. `ScalesExactly` says nothing of these.
- `rint` drops a fourth that is the last bit of the high word, because `0x20000 >> 18` is 0
  (`s_rint.c:68`): `rint(262144.75)` is 262144, against `s_rint.c:17`. `RoundsToIntegers`
  excepts those doubles (`LastFourth`).
- `shift` is toggled on release (`kb.c:128`): `ShiftFollowsOneKey` is about one shift
  key at a time.
- A list whose dotted tail is followed by a comment
  before the parenthesis is refused (`reader.c:252`); the loader of the core leaves the
  rest of a last line without newline (`flisp.c:410`).
- Closures keep no frames (`eval.c:281`), so what is free in them is dynamic; hence
  `BoundVariablesAreLexical` is about bound variables only.
- `remhash` never removes (`ht.c:91`). The stub of vector 17 pushes a word too many
  (`start.asm`). `kernel/system.c:129` takes the first block above 0 and shifts by the
  width of a type, and with too little memory goes on after a warning.
- In places the Lisp library does not do what its names say: the type of symbols is
  called `SYMBOl` (`types.h:38`), so `symbol?` in `core.lisp` is never true, and `pop`
  of `macros.lisp` takes two arguments and looks at the second.

## Not modelled, and why

- The functions of fdlibm that sum series (`exp`, `log`, `sin`, `j0`, `erf` and the
  like) and `k_standard`, which words their errors: what could be said of them is about
  rounding errors of 53-bit arithmetic, which TLC cannot reach. What they return is any
  value in `Procedures`.
- The image functions of `main.c`, `gc_new_struct`, `clearhash`, `mapcar`, `rebind_env`,
  `timer_wait`, `timer_phase`: nothing calls them.
- The macros and the remaining functions of the Lisp library: they keep no state, and the
  forms they expand to are the evaluator's.
- Lines cut at `MAX_LINE`, unterminated strings, and the buffer that `read_string` grows:
  `Reader` has words, not characters.
- `print_hex` and `strncpy`; the colour of the screen and the hardware cursor; spurious
  interrupts of the controllers.
- The depth of the C stack: the program has no bound on it, and the models have none
  but their instances.
- What happens after an undefined behaviour of C; a write through `NULL` ends a model.

## Plan

Written, in this order: `ObjectGraph`, `CopyGC` and its proofs; `HashTable`; `Screen`,
`Keyboard`; `SymbolTable`; `Evaluator`; `Reader`; `Lists`, `Numbers`, `Forms`, `Library`,
`Procedures`; `Doubles`, `Exponents`, `Fdlibm`; `Kernel` and its proofs.

The proofs of `Keyboard`, `Evaluator`, `SymbolTable`, `HashTable` and `Reader`, the
refinement of `ObjectGraph` and the proofs of `Fdlibm` came last.

Left: the line buffer under `Reader` character by character, with lines that are cut and
strings that do not end.
