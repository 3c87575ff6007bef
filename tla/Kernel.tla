------------------------------- MODULE Kernel -------------------------------
(***************************************************************************)
(* The kernel under flisp: main of kernel/system.c, which sets up the      *)
(* descriptor tables, the two interrupt controllers, the drivers and the   *)
(* memory while devices already ask for service, and the path of an        *)
(* interrupt or exception: processor, stub of start.asm, irq_handler or    *)
(* fault_handler, and back.                                                *)
(*                                                                         *)
(* The hardware is external: the 8259 controllers (PicWrite, Wants), what  *)
(* the processor pushes, and the output buffer of the keyboard controller, *)
(* which takes no key before port 0x60 has been read.  Memory is counted   *)
(* in units of the model; addresses are unsigned numbers below Word.       *)
(***************************************************************************)
EXTENDS Integers, Sequences, FiniteSets

CONSTANTS
  Lines,       \* the interrupt requests that devices make, of 0 .. 15
  Faults,      \* the exceptions that the C code may raise
  Maps,        \* memory maps a boot loader may pass on
  Word,        \* 2^32
  KERNEL_SIZE, SYMTAB_SIZE, HEAP_SIZE,
  MaxRequests  \* bound on the requests of devices

NONE == "none" \* NULL in irq_routines
NoGate == -1   \* an entry of the idt that is not present
Present == 1   \* type of a usable block

ASSUME LinesAssumption == Lines \subseteq (0 .. 15) \ {2}
ASSUME FaultsAssumption == Faults \subseteq 0 .. 31
ASSUME SizeAssumption ==
  /\ KERNEL_SIZE \in Nat /\ SYMTAB_SIZE \in Nat /\ HEAP_SIZE \in Nat
  /\ Word \in Nat /\ KERNEL_SIZE + SYMTAB_SIZE + HEAP_SIZE < Word
  /\ MaxRequests \in Nat
\* A block of memory lies in the address space, without its last byte.
ASSUME MapsAssumption ==
  Maps \subseteq Seq([type : Nat, addr : Nat, len : Nat])
ASSUME BlocksAssumption ==
  \A m \in Maps : \A i \in DOMAIN m : m[i].addr + m[i].len < Word

VARIABLES
  boot,          \* what main does next
  writes,        \* how many of the writes of irq_remap are done
  loaded,        \* the tables that lgdt and lidt have loaded
  idt,           \* for each vector the stub of its gate, or NoGate
  irq_routines,  \* handler of each line, NONE for NULL
  interruptible, \* the interrupt flag
  master, slave, \* the interrupt controllers
  pc,            \* "main", where in an interrupt, "panic", or "reset"
  stack,         \* what an interrupt has pushed onto that of main
  vector,        \* history: the last vector that was delivered
  faulted,       \* history: the C code has raised an exception
  timer_ticks,
  full,          \* the keyboard controller holds a scancode
  early,         \* history: the key was hit before its handler was installed
  requests,      \* number of requests made so far
  mmap,          \* the memory map
  memory,        \* memstart and memlength
  warned,        \* "Insufficient memory available" has been printed
  symt, heap     \* the regions given to symbol_init and gc_init

tables == <<loaded, idt, irq_routines>>
layout == <<mmap, memory, warned, symt, heap>>
pics == <<master, slave>>
devices == <<full, early, requests>>
bootvars == <<boot, writes, layout, tables>>
vars == <<boot, writes, tables, interruptible, pics, pc, stack, vector, faulted,
          timer_ticks, devices, layout>>

Region(start, length) == [start |-> start, length |-> length]

-----------------------------------------------------------------------------
(* The interrupt controllers *)

\* As the BIOS leaves them: the vectors of a master are those of exceptions.
PIC(base) == [icw |-> 0, base |-> base, mask |-> {}, irr |-> {}, isr |-> {}]

\* The lines in S without the one of the highest priority.
AllButFirst(S) == {l \in S : \E m \in S : m < l}

\* A command: 0x11 begins an initialization, 0x20 is an end of interrupt.
Command(p, value) ==
  CASE value = 17 -> [p EXCEPT !.icw = 2, !.irr = {}, !.isr = {}, !.mask = {}]
    [] value = 32 -> [p EXCEPT !.isr = AllButFirst(@)]
    [] OTHER -> p

\* Data: the words 2 to 4 of an initialization; after it, the mask, here always 0.
Data(p, value) ==
  CASE p.icw = 2 -> [p EXCEPT !.icw = 3, !.base = value]
    [] p.icw = 3 -> [p EXCEPT !.icw = 4]
    [] p.icw = 4 -> [p EXCEPT !.icw = 0]
    [] OTHER -> [p EXCEPT !.mask = {}]

outportb(port, value) ==
  /\ master' = CASE port = 32 -> Command(master, value)
                 [] port = 33 -> Data(master, value)
                 [] OTHER -> master
  /\ slave' = CASE port = 160 -> Command(slave, value)
                [] port = 161 -> Data(slave, value)
                [] OTHER -> slave

\* The requests a controller passes on: unmasked, more urgent than what is in service.
Wants(p, irr) == {l \in irr \ p.mask : \A s \in p.isr : l < s}

SlaveWants == Wants(slave, slave.irr)
MasterWants == Wants(master, IF SlaveWants = {} THEN master.irr ELSE master.irr \union {2})

IsFirst(l, S) == l \in S /\ \A m \in S : l <= m

\* A request arrives at the controller of its line.
Requested(line) ==
  IF line < 8 THEN /\ master' = [master EXCEPT !.irr = @ \union {line}]
                   /\ UNCHANGED slave
              ELSE /\ slave' = [slave EXCEPT !.irr = @ \union {line - 8}]
                   /\ UNCHANGED master

Pending(line) ==
  IF line < 8 THEN line \in master.irr ELSE line - 8 \in slave.irr

-----------------------------------------------------------------------------

Init ==
  /\ boot = "gdt" /\ writes = 0
  /\ loaded = {}
  /\ idt = [v \in 0 .. 47 |-> NoGate]
  /\ irq_routines = [i \in 0 .. 15 |-> NONE]
  /\ interruptible = FALSE
  /\ master = PIC(8) /\ slave = PIC(112)
  /\ pc = "main" /\ stack = <<>>
  /\ vector = 0 /\ faulted = FALSE
  /\ timer_ticks = 0
  /\ full = FALSE /\ early = FALSE /\ requests = 0
  /\ mmap \in Maps
  /\ memory = Region(0, 0) /\ warned = FALSE
  /\ symt = Region(0, 0) /\ heap = Region(0, 0)

-----------------------------------------------------------------------------
(* main *)

Boot(from, to) ==
  /\ pc = "main"
  /\ boot = from /\ boot' = to
  /\ UNCHANGED <<pc, stack, vector, faulted, timer_ticks, devices>>

\* The flat code and data segments, loaded with all segment registers.
gdt_install ==
  /\ Boot("gdt", "idt")
  /\ loaded' = loaded \union {"gdt"}
  /\ UNCHANGED <<writes, idt, irq_routines, interruptible, pics, layout>>

idt_install ==
  /\ Boot("idt", "isrs")
  /\ idt' = [v \in DOMAIN idt |-> NoGate]
  /\ loaded' = loaded \union {"idt"}
  /\ UNCHANGED <<writes, irq_routines, interruptible, pics, layout>>

\* idt_set_gate(v, isr<v>, 0x08, 0x8E) for each exception.
isrs_install ==
  /\ Boot("isrs", "remap")
  /\ idt' = [v \in DOMAIN idt |-> IF v < 32 THEN v ELSE idt[v]]
  /\ UNCHANGED <<writes, loaded, irq_routines, interruptible, pics, layout>>

\* mutant: the second words are left out, so the others take their places
RemapWritesShort ==
  <<<<32, 17>>, <<160, 17>>, <<33, 4>>, <<161, 2>>, <<33, 1>>, <<161, 1>>,
    <<33, 0>>, <<161, 0>>>>

\* Port and value of the writes of irq_remap: vectors from 0x20 and 0x28 on,
\* the slave on line 2, no line masked.
RemapWrites ==
  <<<<32, 17>>, <<160, 17>>, <<33, 32>>, <<161, 40>>, <<33, 4>>, <<161, 2>>,
    <<33, 1>>, <<161, 1>>, <<33, 0>>, <<161, 0>>>>

irq_remap ==
  /\ Boot("remap", IF writes + 1 = Len(RemapWrites) THEN "gates" ELSE "remap")
  /\ writes' = writes + 1
  /\ outportb(RemapWrites[writes'][1], RemapWrites[writes'][2])
  /\ UNCHANGED <<tables, interruptible, layout>>

\* idt_set_gate(v, irq<v - 32>, 0x08, 0x8E) for each line.
irq_install ==
  /\ Boot("gates", "sti")
  /\ idt' = [v \in DOMAIN idt |-> IF v >= 32 THEN v ELSE idt[v]]
  /\ UNCHANGED <<writes, loaded, irq_routines, interruptible, pics, layout>>

sti ==
  /\ Boot("sti", "timer")
  /\ interruptible' = TRUE
  /\ UNCHANGED <<writes, tables, pics, layout>>

irq_install_handler(line, handler) ==
  /\ irq_routines' = [irq_routines EXCEPT ![line] = handler]
  /\ UNCHANGED <<writes, loaded, idt, interruptible, pics, layout>>

timer_install == Boot("timer", "keyboard") /\ irq_install_handler(0, "timer_handler")

\* mutant: the handler is installed for the cascade
keyboard_installOnTwo ==
  Boot("keyboard", "memory") /\ irq_install_handler(2, "keyboard_handler")

keyboard_install == Boot("keyboard", "memory") /\ irq_install_handler(1, "keyboard_handler")

\* The first usable block that does not begin at 0, whatever its length.  Its
\* numbers are shifted by the width of their type, which is undefined: the
\* shift keeps or clears them (system.c:129).
get_usable_memory ==
  LET usable(i) == mmap[i].type = Present /\ mmap[i].addr > 0
      found == {Region(mmap[i].addr, mmap[i].len) :
                  i \in {j \in DOMAIN mmap : usable(j) /\ \A k \in 1 .. j - 1 : ~usable(k)}}
  IN  found \union {Region(0, 0)}

\* With no memory, or less than the kernel's, main loops for ever.
set_memory ==
  \E m \in get_usable_memory :
    LET fails == m.length = 0 \/ m.length < KERNEL_SIZE
        left == Region(m.start + KERNEL_SIZE, m.length - KERNEL_SIZE)
    IN  /\ Boot("memory", IF fails THEN "halt" ELSE "layout")
        /\ memory' = IF fails THEN m ELSE left
        /\ warned' = (~fails /\ left.length < HEAP_SIZE + SYMTAB_SIZE)
        /\ UNCHANGED <<writes, tables, interruptible, pics, mmap, symt, heap>>

\* mutant: the heap has the length of the memory
set_layoutFull ==
  /\ Boot("layout", "repl")
  /\ symt' = Region(memory.start, SYMTAB_SIZE)
  /\ heap' = Region(memory.start + SYMTAB_SIZE, memory.length)
  /\ UNCHANGED <<writes, tables, interruptible, pics, mmap, memory, warned>>

\* The symbol table, and the heap behind it.
set_layout ==
  /\ Boot("layout", "repl")
  /\ symt' = Region(memory.start, SYMTAB_SIZE)
  /\ heap' = Region((memory.start + SYMTAB_SIZE) % Word,
                    (memory.length - SYMTAB_SIZE) % Word)
  /\ UNCHANGED <<writes, tables, interruptible, pics, mmap, memory, warned>>

main ==
  \/ gdt_install \/ idt_install \/ isrs_install \/ irq_remap \/ irq_install \/ sti
  \/ timer_install \/ keyboard_install \/ set_memory \/ set_layout

-----------------------------------------------------------------------------
(* Interrupts and exceptions *)

Pushed(what) == [what |-> what, number |-> 0]
Number(n) == [what |-> "number", number |-> n]

\* The exceptions for which the processor pushes an error code.
PushesError(v) == v \in {8, 10, 11, 12, 13, 14, 17}

\* The processor leaves main through the gate of v; without one it resets.
Deliver(v) ==
  /\ vector' = v
  /\ interruptible' = FALSE
  /\ IF loaded = {"gdt", "idt"} /\ v \in DOMAIN idt /\ idt[v] # NoGate
     THEN /\ pc' = "stub"
          /\ stack' = <<Pushed("eflags"), Pushed("cs"), Pushed("eip")>>
                        \o (IF PushesError(v) THEN <<Pushed("error")>> ELSE <<>>)
     ELSE pc' = "reset" /\ UNCHANGED stack
  /\ UNCHANGED <<bootvars, timer_ticks, devices>>

InService(p, l) == [p EXCEPT !.irr = @ \ {l}, !.isr = @ \union {l}]

\* Between two instructions of main, if the interrupt flag is set.
Interrupt ==
  /\ pc = "main" /\ interruptible
  /\ \E l \in MasterWants :
       /\ IsFirst(l, MasterWants)
       /\ \/ /\ l # 2
             /\ master' = InService(master, l) /\ UNCHANGED slave
             /\ Deliver(master.base + l)
          \/ /\ l = 2
             /\ master' = InService(master, 2)
             /\ \E s \in SlaveWants :
                  /\ IsFirst(s, SlaveWants)
                  /\ slave' = InService(slave, s)
                  /\ Deliver(slave.base + s)
  /\ UNCHANGED faulted

\* An instruction of main raises an exception, once the tables are loaded.
Fault(v) ==
  /\ pc = "main" /\ boot \notin {"gdt", "idt", "isrs"}
  /\ faulted' = TRUE
  /\ Deliver(v)
  /\ UNCHANGED pics

\* mutant: the interrupts' stubs push no error code of their own
StubPushesNumber(v) ==
  (IF v > 7 THEN <<>> ELSE <<Pushed("error")>>) \o <<Number(v)>>

\* isr<v> pushes an error code where it thinks the processor has not.
isr(v) ==
  (IF v \in {8, 10, 11, 12, 13, 14} THEN <<>> ELSE <<Pushed("error")>>) \o <<Number(v)>>

\* irq<v - 32> always does.
irq(v) == <<Pushed("error"), Number(v)>>

StubPushes(v) == IF v < 32 THEN isr(v) ELSE irq(v)

\* The stub, and the common part up to its call: registers, segments, struct regs *.
isr_stub ==
  /\ pc = "stub"
  /\ pc' = "handler"
  /\ stack' = stack \o StubPushes(idt[vector])
                    \o <<Pushed("pusha"), Pushed("segments"), Pushed("regs")>>
  /\ UNCHANGED <<bootvars, interruptible, pics, vector, faulted, timer_ticks, devices>>

\* r->int_no, below the registers and segments that r points to.
int_no == stack[Len(stack) - 3].number

\* An exception's message, then for (;;), with interrupts off.
fault_handler ==
  /\ pc = "handler" /\ int_no < 32
  /\ pc' = "panic"
  /\ UNCHANGED <<bootvars, interruptible, pics, stack, vector, faulted, timer_ticks, devices>>

\* irq_handler calls the line's routine, if it has one: timer_handler counts,
\* keyboard_handler reads port 0x60.
irq_routine ==
  /\ pc = "handler" /\ int_no >= 32
  /\ pc' = "slave"
  /\ LET handler == irq_routines[int_no - 32]
     IN  /\ timer_ticks' = timer_ticks + (IF handler = "timer_handler" THEN 1 ELSE 0)
         /\ full' = (full /\ handler # "keyboard_handler")
  /\ UNCHANGED <<bootvars, interruptible, pics, stack, vector, faulted, early, requests>>

\* mutant: IRQ8, vector 40, is taken for one of the master's
irq_eoi_slaveOffByOne ==
  /\ pc = "slave"
  /\ pc' = "master"
  /\ IF int_no > 40 THEN outportb(160, 32) ELSE UNCHANGED pics
  /\ UNCHANGED <<bootvars, interruptible, stack, vector, faulted, timer_ticks, devices>>

irq_eoi_slave ==
  /\ pc = "slave"
  /\ pc' = "master"
  /\ IF int_no >= 40 THEN outportb(160, 32) ELSE UNCHANGED pics
  /\ UNCHANGED <<bootvars, interruptible, stack, vector, faulted, timer_ticks, devices>>

\* mutant: nothing is said to the master for a slave's interrupt
irq_eoi_masterOnly ==
  /\ pc = "master"
  /\ pc' = "return"
  /\ IF int_no < 40 THEN outportb(32, 32) ELSE UNCHANGED pics
  /\ UNCHANGED <<bootvars, interruptible, stack, vector, faulted, timer_ticks, devices>>

irq_eoi_master ==
  /\ pc = "master"
  /\ pc' = "return"
  /\ outportb(32, 32)
  /\ UNCHANGED <<bootvars, interruptible, stack, vector, faulted, timer_ticks, devices>>

\* The common stub pops what it has pushed and adds 8 to esp, for the number and
\* the error code; iret takes the three words it finds then.
Popped == SubSeq(stack, 1, Len(stack) - 5)
Frame == <<Pushed("eflags"), Pushed("cs"), Pushed("eip")>>

irq_return ==
  /\ pc = "return"
  /\ IF Popped = Frame
     THEN pc' = "main" /\ interruptible' = TRUE /\ stack' = <<>>
     ELSE pc' = "reset" /\ UNCHANGED <<interruptible, stack>>
  /\ UNCHANGED <<bootvars, pics, vector, faulted, timer_ticks, devices>>

Handler ==
  isr_stub \/ fault_handler \/ irq_routine \/ irq_eoi_slave \/ irq_eoi_master \/ irq_return

-----------------------------------------------------------------------------
(* Devices *)

KeyboardInstalled == boot \in {"memory", "layout", "repl", "halt"}

\* A device asks for service; the keyboard only while its buffer is empty.
Request(line) ==
  /\ requests < MaxRequests
  /\ requests' = requests + 1
  /\ line = 1 => ~full
  /\ full' = (full \/ line = 1)
  /\ early' = (IF line = 1 THEN ~KeyboardInstalled ELSE early)
  /\ Requested(line)
  /\ UNCHANGED <<bootvars, interruptible, pc, stack, vector, faulted, timer_ticks>>

Processor == main \/ Interrupt \/ Handler

Next == Processor \/ (\E v \in Faults : Fault(v)) \/ (\E l \in Lines : Request(l))

\* The processor never stops; devices need not ask, and code need not be wrong.
Spec == Init /\ [][Next]_vars /\ WF_vars(Processor)

-----------------------------------------------------------------------------
(* Properties *)

Tables == {"gdt", "idt"}
Regions == [start : Nat, length : Nat]
Pics == [icw : {0, 2, 3, 4}, base : Nat, mask : SUBSET (0 .. 7),
         irr : SUBSET (0 .. 7), isr : SUBSET (0 .. 7)]

TypeOK ==
  /\ boot \in {"gdt", "idt", "isrs", "remap", "gates", "sti", "timer", "keyboard",
               "memory", "layout", "repl", "halt"}
  /\ writes \in 0 .. Len(RemapWrites)
  /\ loaded \subseteq Tables
  /\ idt \in [0 .. 47 -> (0 .. 47) \union {NoGate}]
  /\ irq_routines \in [0 .. 15 -> {NONE, "timer_handler", "keyboard_handler"}]
  /\ interruptible \in BOOLEAN
  /\ master \in Pics /\ slave \in Pics
  /\ pc \in {"main", "stub", "handler", "slave", "master", "return", "panic", "reset"}
  /\ vector \in Nat /\ faulted \in BOOLEAN
  /\ timer_ticks \in Nat
  /\ full \in BOOLEAN /\ early \in BOOLEAN /\ requests \in 0 .. MaxRequests
  /\ mmap \in Maps /\ memory \in Regions /\ warned \in BOOLEAN
  /\ symt \in Regions /\ heap \in Regions

InInterrupt == pc \in {"stub", "handler", "slave", "master", "return", "panic"}

\* A device never enters the kernel as an exception: main lets interrupts in only
\* after the controllers have been given vectors of their own (irq.c:43-50).
NoStrayVector == (InInterrupt /\ vector < 32) => faulted

\* The processor never resets: each vector that comes has a gate, and the iret of
\* each stub finds the three words that the processor has pushed, with or without
\* an error code (start.asm:457-479).
NeverResets == pc # "reset"

\* Back in main, neither controller waits for an end of interrupt, so none of them
\* holds later requests back (irq.c:95-99).
Acknowledged == pc = "main" => master.isr = {} /\ slave.isr = {}

\* A key that was hit after keyboard_install is read: as long as the controller
\* holds its scancode, its interrupt is waiting or on its way to the handler.
KeyboardListens ==
  full /\ ~early =>
    \/ Pending(1)
    \/ 1 \in master.isr /\ pc \in {"stub", "handler"}

\* Unless main has warned, the symbol table and the heap lie one behind the other,
\* behind the kernel, in one usable block, and each has its size (system.c:225-242).
Covers(block) ==
  /\ block.type = Present
  /\ symt.start >= block.addr + KERNEL_SIZE
  /\ heap.start >= symt.start + symt.length
  /\ heap.start + heap.length <= block.addr + block.len

LayoutFits ==
  boot = "repl" /\ ~warned =>
    /\ \E i \in DOMAIN mmap : Covers(mmap[i])
    /\ symt.length >= SYMTAB_SIZE /\ heap.length >= HEAP_SIZE

\* What a device asks for is answered, or dropped when the controllers are set up,
\* unless an exception has halted the system: no handler keeps the others out.
RequestsServed ==
  \A l \in Lines : Pending(l) ~> (~Pending(l) \/ pc = "panic")

-----------------------------------------------------------------------------
(* The inductive invariant of KernelProofs. *)

Unloaded == {"gdt", "idt", "isrs"}
Late == {"timer", "keyboard", "memory", "layout", "repl", "halt"}

\* The gates are there before anything can come through them.
Gated ==
  /\ boot # "gdt" => "gdt" \in loaded
  /\ boot \notin {"gdt", "idt"} => loaded = Tables
  /\ boot \notin Unloaded => \A v \in 0 .. 31 : idt[v] = v
  /\ boot \in Late \union {"sti"} => \A v \in 0 .. 47 : idt[v] = v
  /\ interruptible => boot \in Late

\* How far each write of irq_remap brings the two controllers.
Programmed ==
  /\ boot \in Unloaded => writes = 0
  /\ boot = "remap" => writes < 10
  /\ boot \notin Unloaded \union {"remap"} => writes = 10
  /\ master.icw = CASE writes \in {1, 2} -> 2 [] writes \in {3, 4} -> 3
                     [] writes \in {5, 6} -> 4 [] OTHER -> 0
  /\ slave.icw = CASE writes \in {2, 3} -> 2 [] writes \in {4, 5} -> 3
                    [] writes \in {6, 7} -> 4 [] OTHER -> 0
  /\ writes > 2 => master.base = 32
  /\ writes > 3 => slave.base = 40

\* What has come, and from where.
Delivered ==
  /\ pc # "reset"
  /\ pc # "main" => boot \notin Unloaded /\ vector \in 0 .. 47
  /\ pc # "main" /\ vector >= 32 => boot \in Late
  /\ pc # "main" /\ vector < 32 => faulted
  /\ pc \in {"slave", "master", "return"} => vector >= 32

\* A controller waits for the end of the interrupt that is being handled, and for no
\* other.
InServiceNow ==
  /\ pc \in {"main", "return"} => master.isr = {} /\ slave.isr = {}
  /\ pc # "main" /\ vector < 32 => master.isr = {} /\ slave.isr = {}
  /\ pc \in {"stub", "handler", "slave", "master"} /\ vector >= 32 =>
       /\ master.isr = {IF vector < 40 THEN vector - 32 ELSE 2}
       /\ vector # 34
       /\ slave.isr = IF vector < 40 \/ pc = "master" THEN {} ELSE {vector - 40}

\* What lies on the stack, and under what the stub drops.
Stacked ==
  /\ pc = "main" => stack = <<>>
  /\ pc = "stub" =>
       stack = Frame \o (IF PushesError(vector) THEN <<Pushed("error")>> ELSE <<>>)
  /\ pc \in {"handler", "slave", "master", "return"} =>
       int_no = vector /\ (vector >= 32 => Popped = Frame)

\* The keyboard's handler is there when a key that counts is hit.
Listening ==
  /\ KeyboardInstalled => irq_routines[1] = "keyboard_handler"
  /\ full /\ ~early => KeyboardInstalled
  /\ KeyboardListens

\* What set_memory has found, and set_layout makes of it.
Located ==
  boot \in {"layout", "repl"} =>
    /\ warned \/ memory.length >= SYMTAB_SIZE + HEAP_SIZE
    /\ \E i \in DOMAIN mmap :
         /\ mmap[i].type = Present
         /\ mmap[i].len >= KERNEL_SIZE
         /\ memory = Region(mmap[i].addr + KERNEL_SIZE, mmap[i].len - KERNEL_SIZE)

IInv ==
  /\ TypeOK
  /\ Gated /\ Programmed /\ Delivered /\ InServiceNow /\ Stacked /\ Listening
  /\ Located /\ LayoutFits

=============================================================================
