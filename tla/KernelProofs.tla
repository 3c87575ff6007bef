---------------------------- MODULE KernelProofs ----------------------------
(* Proofs about Kernel, for all lines, exceptions and memory maps.           *)
EXTENDS Kernel, SequenceTheorems, TLAPS

USE DEF NONE, NoGate, Present

-----------------------------------------------------------------------------
(* The words written, and the stack                                          *)

LEMMA TenWrites ==
  /\ Len(RemapWrites) = 10
  /\ RemapWrites[1] = <<32, 17>> /\ RemapWrites[2] = <<160, 17>>
  /\ RemapWrites[3] = <<33, 32>> /\ RemapWrites[4] = <<161, 40>>
  /\ RemapWrites[5] = <<33, 4>> /\ RemapWrites[6] = <<161, 2>>
  /\ RemapWrites[7] = <<33, 1>> /\ RemapWrites[8] = <<161, 1>>
  /\ RemapWrites[9] = <<33, 0>> /\ RemapWrites[10] = <<161, 0>>
BY DEF RemapWrites

Words ==
  [what : {"eflags", "cs", "eip", "error", "number", "pusha", "segments", "regs"},
   number : Int]

LEMMA Triple ==
  ASSUME NEW S, NEW a \in S, NEW b \in S, NEW c \in S
  PROVE  <<a, b, c>> \in Seq(S) /\ Len(<<a, b, c>>) = 3
OBVIOUS

LEMMA ConcatFirst ==
  ASSUME NEW S, NEW s \in Seq(S), NEW t \in Seq(S), NEW i \in 1 .. Len(s)
  PROVE  (s \o t)[i] = s[i]
BY ConcatProperties

LEMMA FrameType == Frame \in Seq(Words) /\ Len(Frame) = 3
<1>1. /\ Pushed("eflags") \in Words /\ Pushed("cs") \in Words /\ Pushed("eip") \in Words
  BY DEF Pushed, Words
<1> QED BY <1>1, Triple DEF Frame

\* Under what a stub pushes, two words and three, lies what was there before, and the
\* second word is the number that the handler sees.
LEMMA StubStack ==
  ASSUME NEW a \in Seq(Words), NEW b \in Seq(Words), NEW c \in Seq(Words), Len(c) = 3,
         Len(b) > 0
  PROVE  LET s == (a \o b) \o c
         IN  /\ Len(s) = Len(a) + Len(b) + 3
             /\ s[Len(s) - 3] = b[Len(b)]
             /\ Len(a) = 3 /\ Len(b) = 2 => SubSeq(s, 1, Len(s) - 5) = a
<1> DEFINE s == (a \o b) \o c
<1>1. /\ a \o b \in Seq(Words) /\ Len(a \o b) = Len(a) + Len(b)
      /\ (a \o b)[Len(a) + Len(b)] = b[Len(b)]
  <2>1. Len(a) \in Nat /\ Len(b) \in Nat
    OBVIOUS
  <2> QED BY <2>1, ConcatProperties
<1>2. Len(s) = Len(a) + Len(b) + 3 /\ s[Len(s) - 3] = (a \o b)[Len(a) + Len(b)]
  <2>1. Len(s) = Len(a \o b) + 3
    <3>1. Len((a \o b) \o c) = Len(a \o b) + Len(c)
      BY <1>1, ConcatProperties
    <3> QED BY <3>1
  <2>2. Len(s) - 3 = Len(a \o b) /\ Len(a \o b) \in 1 .. Len(a \o b)
    BY <1>1, <2>1
  <2>3. s[Len(a \o b)] = (a \o b)[Len(a \o b)]
    BY <1>1, <2>2, ConcatFirst
  <2> QED BY <1>1, <2>1, <2>2, <2>3
<1>3. CASE Len(a) = 3 /\ Len(b) = 2
  <2>1. SubSeq(s, 1, 3) = SubSeq(a \o b, 1, 3)
    BY <1>1, <1>3, SubSeqOfConcat1
  <2>2. SubSeq(a \o b, 1, 3) = SubSeq(a, 1, 3)
    <3>1. 1 \in 1 .. Len(a) /\ 3 \in 1 .. Len(a)
      BY <1>3
    <3> QED BY <3>1, SubSeqOfConcat1
  <2>3. SubSeq(a, 1, 3) = a
    BY <1>3, SubSeqFull
  <2> QED BY <1>1, <1>2, <1>3, <2>1, <2>2, <2>3
<1> QED BY <1>1, <1>2, <1>3

LEMMA InitInv == Init => IInv
<1> SUFFICES ASSUME Init PROVE IInv
  OBVIOUS
<1>1. TypeOK
  <2>1. master \in Pics /\ slave \in Pics
    BY DEF Init, PIC, Pics
  <2>2. memory \in Regions /\ symt \in Regions /\ heap \in Regions
    BY DEF Init, Region, Regions
  <2>3. idt \in [0 .. 47 -> (0 .. 47) \union {NoGate}]
    BY DEF Init
  <2>4. irq_routines \in [0 .. 15 -> {NONE, "timer_handler", "keyboard_handler"}]
    BY DEF Init
  <2>5. /\ interruptible \in BOOLEAN /\ faulted \in BOOLEAN /\ warned \in BOOLEAN
        /\ full \in BOOLEAN /\ early \in BOOLEAN
    BY DEF Init
  <2>6. /\ writes \in 0 .. Len(RemapWrites) /\ requests \in 0 .. MaxRequests
        /\ vector \in Nat /\ timer_ticks \in Nat
    BY TenWrites, SizeAssumption DEF Init
  <2> QED BY <2>1, <2>2, <2>3, <2>4, <2>5, <2>6 DEF Init, TypeOK
<1>2. Gated /\ Programmed
  BY DEF Init, Gated, Programmed, PIC, Unloaded, Late
<1>3. Delivered /\ InServiceNow /\ Stacked
  BY DEF Init, Delivered, InServiceNow, Stacked, PIC
<1>4. Listening /\ Located /\ LayoutFits
  BY DEF Init, Listening, KeyboardListens, KeyboardInstalled, Located, LayoutFits
<1> QED BY <1>1, <1>2, <1>3, <1>4 DEF IInv

-----------------------------------------------------------------------------
(* main                                                                      *)

\* A step of main leaves the stack and the history of interrupts as they are.
LEMMA BootKeeps ==
  ASSUME IInv, NEW f, NEW t, Boot(f, t)
  PROVE  Delivered' /\ Stacked'
BY DEF IInv, Boot, Delivered, Stacked

\* The tables, the flag and the drivers: each of them is there before what needs it.
Install ==
  \/ gdt_install \/ idt_install \/ isrs_install \/ irq_install
  \/ sti \/ timer_install \/ keyboard_install

LEMMA InstallStep == ASSUME IInv, Install PROVE IInv'
<1> USE DEF gdt_install, idt_install, isrs_install, irq_install, sti, timer_install,
            keyboard_install, irq_install_handler
<1>1. /\ pc' = pc /\ pc = "main" /\ UNCHANGED <<writes, pics, layout, devices>>
      /\ vector' = vector /\ faulted' = faulted /\ timer_ticks' = timer_ticks
  BY DEF Install, Boot
<1>2. TypeOK'
  BY <1>1 DEF Install, IInv, TypeOK, Tables, Boot, pics, tables, layout, devices
<1>3. Delivered' /\ Stacked'
  BY BootKeeps DEF Install
<1>4. Gated'
  <2>1. CASE gdt_install
    BY <2>1 DEF IInv, TypeOK, Tables, Gated, Unloaded, Late, Boot, tables
  <2>2. CASE idt_install
    BY <2>2 DEF IInv, TypeOK, Tables, Gated, Unloaded, Late, Boot, tables
  <2>3. CASE isrs_install
    BY <2>3 DEF IInv, TypeOK, Tables, Gated, Unloaded, Late, Boot, tables
  <2>4. CASE irq_install
    BY <2>4 DEF IInv, TypeOK, Tables, Gated, Unloaded, Late, Boot, tables
  <2>5. CASE sti
    BY <2>5 DEF IInv, TypeOK, Tables, Gated, Unloaded, Late, Boot, tables
  <2>6. CASE timer_install
    BY <2>6 DEF IInv, TypeOK, Tables, Gated, Unloaded, Late, Boot, tables
  <2>7. CASE keyboard_install
    BY <2>7 DEF IInv, TypeOK, Tables, Gated, Unloaded, Late, Boot, tables
  <2> QED BY <2>1, <2>2, <2>3, <2>4, <2>5, <2>6, <2>7 DEF Install
<1>5. Programmed' /\ InServiceNow'
  BY <1>1 DEF Install, IInv, Programmed, Unloaded, InServiceNow, Boot, pics
<1>6. Listening'
  <2>1. full' = full /\ early' = early /\ KeyboardListens'
    BY <1>1 DEF IInv, Listening, KeyboardListens, Pending, pics, devices
  <2>2. CASE keyboard_install
    BY <2>1, <2>2 DEF IInv, TypeOK, Listening, KeyboardInstalled, Boot
  <2>3. CASE ~keyboard_install
    BY <2>1, <2>3 DEF Install, IInv, Listening, KeyboardInstalled, Boot, tables
  <2> QED BY <2>2, <2>3
<1>7. Located' /\ LayoutFits'
  BY <1>1 DEF Install, Located, LayoutFits, Boot
<1> QED BY <1>2, <1>3, <1>4, <1>5, <1>6, <1>7 DEF IInv

\* What the words written to a controller make of it.
LEMMA CommandResult ==
  ASSUME NEW p \in Pics
  PROVE  /\ Command(p, 17) \in Pics
         /\ Command(p, 17).icw = 2 /\ Command(p, 17).base = p.base /\ Command(p, 17).isr = {}
         /\ Command(p, 32) \in Pics
         /\ Command(p, 32).icw = p.icw /\ Command(p, 32).base = p.base
         /\ Command(p, 32).irr = p.irr /\ Command(p, 32).isr = AllButFirst(p.isr)
<1>1. AllButFirst(p.isr) \in SUBSET (0 .. 7)
  BY DEF Pics, AllButFirst
<1>2. Command(p, 17) = [p EXCEPT !.icw = 2, !.irr = {}, !.isr = {}, !.mask = {}]
  BY DEF Command
<1>3. Command(p, 32) = [p EXCEPT !.isr = AllButFirst(p.isr)]
  BY DEF Command
<1>4. [p EXCEPT !.icw = 2, !.irr = {}, !.isr = {}, !.mask = {}] \in Pics
  BY DEF Pics
<1>5. [p EXCEPT !.isr = AllButFirst(p.isr)] \in Pics
  BY <1>1 DEF Pics
<1> HIDE DEF Command
<1> QED BY <1>2, <1>3, <1>4, <1>5 DEF Pics

LEMMA DataResult ==
  ASSUME NEW p \in Pics, NEW n \in Nat
  PROVE  /\ Data(p, n) \in Pics
         /\ Data(p, n).isr = p.isr
         /\ p.icw = 2 => Data(p, n).icw = 3 /\ Data(p, n).base = n
         /\ p.icw = 3 => Data(p, n).icw = 4 /\ Data(p, n).base = p.base
         /\ p.icw = 4 => Data(p, n).icw = 0 /\ Data(p, n).base = p.base
         /\ p.icw = 0 => Data(p, n).icw = 0 /\ Data(p, n).base = p.base
<1>1. CASE p.icw = 2
  <2>1. Data(p, n) = [p EXCEPT !.icw = 3, !.base = n]
    BY <1>1 DEF Data
  <2>2. [p EXCEPT !.icw = 3, !.base = n] \in Pics
    BY DEF Pics
  <2>3. Data(p, n).icw = 3 /\ Data(p, n).base = n /\ Data(p, n).isr = p.isr
    BY <2>1 DEF Pics
  <2> QED BY <1>1, <2>1, <2>2, <2>3
<1>2. CASE p.icw = 3
  <2>1. Data(p, n) = [p EXCEPT !.icw = 4]
    BY <1>2 DEF Data
  <2> QED BY <1>2, <2>1 DEF Pics
<1>3. CASE p.icw = 4
  <2>1. Data(p, n) = [p EXCEPT !.icw = 0]
    BY <1>3 DEF Data
  <2> QED BY <1>3, <2>1 DEF Pics
<1>4. CASE p.icw = 0
  <2>1. Data(p, n) = [p EXCEPT !.mask = {}]
    BY <1>4 DEF Data
  <2> QED BY <1>4, <2>1 DEF Pics
<1>5. p.icw = 2 \/ p.icw = 3 \/ p.icw = 4 \/ p.icw = 0
  BY DEF Pics
<1> QED BY <1>1, <1>2, <1>3, <1>4, <1>5

LEMMA AfterWrite ==
  ASSUME IInv, irq_remap
  PROVE  \/ writes = 0 /\ master' = Command(master, 17) /\ slave' = slave
         \/ writes = 1 /\ slave' = Command(slave, 17) /\ master' = master
         \/ writes = 2 /\ master' = Data(master, 32) /\ slave' = slave
         \/ writes = 3 /\ slave' = Data(slave, 40) /\ master' = master
         \/ writes = 4 /\ master' = Data(master, 4) /\ slave' = slave
         \/ writes = 5 /\ slave' = Data(slave, 2) /\ master' = master
         \/ writes = 6 /\ master' = Data(master, 1) /\ slave' = slave
         \/ writes = 7 /\ slave' = Data(slave, 1) /\ master' = master
         \/ writes = 8 /\ master' = Data(master, 0) /\ slave' = slave
         \/ writes = 9 /\ slave' = Data(slave, 0) /\ master' = master
<1>1. writes \in 0 .. 9 /\ writes' = writes + 1
  BY TenWrites DEF IInv, TypeOK, Programmed, irq_remap, Boot
<1>2. outportb(RemapWrites[writes + 1][1], RemapWrites[writes + 1][2])
  BY <1>1 DEF irq_remap
<1>3. CASE writes = 0
  <2>1. outportb(32, 17)
    BY <1>2, <1>3, TenWrites
  <2> QED BY <1>3, <2>1 DEF outportb
<1>4. CASE writes = 1
  <2>1. outportb(160, 17)
    BY <1>2, <1>4, TenWrites
  <2> QED BY <1>4, <2>1 DEF outportb
<1>5. CASE writes = 2
  <2>1. outportb(33, 32)
    BY <1>2, <1>5, TenWrites
  <2> QED BY <1>5, <2>1 DEF outportb
<1>6. CASE writes = 3
  <2>1. outportb(161, 40)
    BY <1>2, <1>6, TenWrites
  <2> QED BY <1>6, <2>1 DEF outportb
<1>7. CASE writes = 4
  <2>1. outportb(33, 4)
    BY <1>2, <1>7, TenWrites
  <2> QED BY <1>7, <2>1 DEF outportb
<1>8. CASE writes = 5
  <2>1. outportb(161, 2)
    BY <1>2, <1>8, TenWrites
  <2> QED BY <1>8, <2>1 DEF outportb
<1>9. CASE writes = 6
  <2>1. outportb(33, 1)
    BY <1>2, <1>9, TenWrites
  <2> QED BY <1>9, <2>1 DEF outportb
<1>10. CASE writes = 7
  <2>1. outportb(161, 1)
    BY <1>2, <1>10, TenWrites
  <2> QED BY <1>10, <2>1 DEF outportb
<1>11. CASE writes = 8
  <2>1. outportb(33, 0)
    BY <1>2, <1>11, TenWrites
  <2> QED BY <1>11, <2>1 DEF outportb
<1>12. CASE writes = 9
  <2>1. outportb(161, 0)
    BY <1>2, <1>12, TenWrites
  <2> QED BY <1>12, <2>1 DEF outportb
<1> QED BY <1>1, <1>3, <1>4, <1>5, <1>6, <1>7, <1>8, <1>9, <1>10, <1>11, <1>12

LEMMA irq_remapStep == ASSUME IInv, irq_remap PROVE IInv'
<1> USE DEF Boot, tables, layout, devices
<1>1. /\ boot = "remap" /\ writes \in 0 .. 9 /\ writes' = writes + 1
      /\ boot' = IF writes = 9 THEN "gates" ELSE "remap"
      /\ pc = "main" /\ pc' = "main" /\ ~interruptible
      /\ master \in Pics /\ slave \in Pics /\ master.isr = {} /\ slave.isr = {}
  BY TenWrites DEF IInv, TypeOK, Programmed, Gated, Late, InServiceNow, irq_remap
<1>2. /\ master' \in Pics /\ slave' \in Pics /\ master'.isr = {} /\ slave'.isr = {}
      /\ master'.icw = CASE writes' \in {1, 2} -> 2 [] writes' \in {3, 4} -> 3
                          [] writes' \in {5, 6} -> 4 [] OTHER -> 0
      /\ slave'.icw = CASE writes' \in {2, 3} -> 2 [] writes' \in {4, 5} -> 3
                         [] writes' \in {6, 7} -> 4 [] OTHER -> 0
      /\ writes' > 2 => master'.base = 32
      /\ writes' > 3 => slave'.base = 40
  <2> DEFINE MasterWords == CASE writes \in {1, 2} -> 2 [] writes \in {3, 4} -> 3
                              [] writes \in {5, 6} -> 4 [] OTHER -> 0
             SlaveWords == CASE writes \in {2, 3} -> 2 [] writes \in {4, 5} -> 3
                             [] writes \in {6, 7} -> 4 [] OTHER -> 0
  <2>0. /\ master.icw = MasterWords /\ slave.icw = SlaveWords
        /\ writes > 2 => master.base = 32
        /\ writes > 3 => slave.base = 40
    BY DEF IInv, Programmed
  <2>1. CASE writes = 0
    <3>1. master' = Command(master, 17) /\ slave' = slave
      BY <2>1, AfterWrite
    <3>2. master.icw = 0 /\ slave.icw = 0
      BY <2>0, <2>1
    <3> QED BY <1>1, <2>0, <2>1, <3>1, <3>2, CommandResult
  <2>2. CASE writes = 1
    <3>1. slave' = Command(slave, 17) /\ master' = master
      BY <2>2, AfterWrite
    <3>2. master.icw = 2 /\ slave.icw = 0
      BY <2>0, <2>2
    <3> QED BY <1>1, <2>0, <2>2, <3>1, <3>2, CommandResult
  <2>3. CASE writes = 2
    <3>1. master' = Data(master, 32) /\ slave' = slave
      BY <2>3, AfterWrite
    <3>2. master.icw = 2 /\ slave.icw = 2
      BY <2>0, <2>3
    <3> QED BY <1>1, <2>0, <2>3, <3>1, <3>2, DataResult
  <2>4. CASE writes = 3
    <3>1. slave' = Data(slave, 40) /\ master' = master
      BY <2>4, AfterWrite
    <3>2. master.icw = 3 /\ slave.icw = 2
      BY <2>0, <2>4
    <3> QED BY <1>1, <2>0, <2>4, <3>1, <3>2, DataResult
  <2>5. CASE writes = 4
    <3>1. master' = Data(master, 4) /\ slave' = slave
      BY <2>5, AfterWrite
    <3>2. master.icw = 3 /\ slave.icw = 3
      BY <2>0, <2>5
    <3> QED BY <1>1, <2>0, <2>5, <3>1, <3>2, DataResult
  <2>6. CASE writes = 5
    <3>1. slave' = Data(slave, 2) /\ master' = master
      BY <2>6, AfterWrite
    <3>2. master.icw = 4 /\ slave.icw = 3
      BY <2>0, <2>6
    <3> QED BY <1>1, <2>0, <2>6, <3>1, <3>2, DataResult
  <2>7. CASE writes = 6
    <3>1. master' = Data(master, 1) /\ slave' = slave
      BY <2>7, AfterWrite
    <3>2. master.icw = 4 /\ slave.icw = 4
      BY <2>0, <2>7
    <3> QED BY <1>1, <2>0, <2>7, <3>1, <3>2, DataResult
  <2>8. CASE writes = 7
    <3>1. slave' = Data(slave, 1) /\ master' = master
      BY <2>8, AfterWrite
    <3>2. master.icw = 0 /\ slave.icw = 4
      BY <2>0, <2>8
    <3> QED BY <1>1, <2>0, <2>8, <3>1, <3>2, DataResult
  <2>9. CASE writes = 8
    <3>1. master' = Data(master, 0) /\ slave' = slave
      BY <2>9, AfterWrite
    <3>2. master.icw = 0 /\ slave.icw = 0
      BY <2>0, <2>9
    <3> QED BY <1>1, <2>0, <2>9, <3>1, <3>2, DataResult
  <2>10. CASE writes = 9
    <3>1. slave' = Data(slave, 0) /\ master' = master
      BY <2>10, AfterWrite
    <3>2. master.icw = 0 /\ slave.icw = 0
      BY <2>0, <2>10
    <3> QED BY <1>1, <2>0, <2>10, <3>1, <3>2, DataResult
  <2> QED BY <1>1, <2>1, <2>2, <2>3, <2>4, <2>5, <2>6, <2>7, <2>8, <2>9, <2>10
<1>3. TypeOK'
  BY <1>1, <1>2, TenWrites DEF IInv, TypeOK, Tables, irq_remap
<1>4. Delivered' /\ Stacked'
  BY BootKeeps DEF irq_remap
<1>5. Gated'
  BY <1>1 DEF IInv, Gated, Unloaded, Late, irq_remap
<1>6. Programmed'
  BY <1>1, <1>2 DEF Programmed, Unloaded
<1>7. InServiceNow'
  BY <1>1, <1>2 DEF InServiceNow
<1>8. Listening'
  BY <1>1 DEF IInv, Listening, KeyboardInstalled, KeyboardListens, irq_remap
<1>9. Located' /\ LayoutFits'
  BY <1>1 DEF Located, LayoutFits
<1> QED BY <1>3, <1>4, <1>5, <1>6, <1>7, <1>8, <1>9 DEF IInv

\* The numbers of a block of the memory map.
LEMMA MapType ==
  ASSUME mmap \in Maps
  PROVE  \A i \in DOMAIN mmap : /\ mmap[i].addr \in Nat /\ mmap[i].len \in Nat
                                /\ mmap[i].addr + mmap[i].len < Word
<1> TAKE i \in DOMAIN mmap
<1>1. mmap \in Seq([type : Nat, addr : Nat, len : Nat])
  BY MapsAssumption
<1>2. mmap[i] \in [type : Nat, addr : Nat, len : Nat]
  <2>1. i \in 1 .. Len(mmap)
    BY <1>1, LenProperties
  <2> QED BY <1>1, <2>1, ElementOfSeq
<1>3. mmap[i].addr + mmap[i].len < Word
  BY BlocksAssumption
<1> QED BY <1>2, <1>3

\* What get_usable_memory finds is nothing, or a usable block.
LEMMA UsableMemory ==
  ASSUME mmap \in Maps, NEW m \in get_usable_memory
  PROVE  /\ m \in Regions
         /\ \/ m.length = 0
            \/ \E i \in DOMAIN mmap : /\ mmap[i].type = Present
                                      /\ m = Region(mmap[i].addr, mmap[i].len)
<1>2. \A i \in DOMAIN mmap : mmap[i].addr \in Nat /\ mmap[i].len \in Nat
  BY MapType
<1>3. \/ m = Region(0, 0)
      \/ \E i \in DOMAIN mmap : mmap[i].type = Present /\ m = Region(mmap[i].addr, mmap[i].len)
  BY DEF get_usable_memory
<1> QED BY <1>2, <1>3 DEF Region, Regions

LEMMA set_memoryStep == ASSUME IInv, set_memory PROVE IInv'
<1> USE DEF Boot, pics, tables, devices
<1> DEFINE fails(m) == m.length = 0 \/ m.length < KERNEL_SIZE
           left(m) == Region(m.start + KERNEL_SIZE, m.length - KERNEL_SIZE)
<1>1. PICK m \in get_usable_memory :
        /\ Boot("memory", IF fails(m) THEN "halt" ELSE "layout")
        /\ memory' = IF fails(m) THEN m ELSE left(m)
        /\ warned' = (~fails(m) /\ left(m).length < HEAP_SIZE + SYMTAB_SIZE)
        /\ UNCHANGED <<writes, tables, interruptible, pics, mmap, symt, heap>>
  BY DEF set_memory
<1>2. /\ m \in Regions
      /\ \/ m.length = 0
         \/ \E i \in DOMAIN mmap : /\ mmap[i].type = Present
                                   /\ m = Region(mmap[i].addr, mmap[i].len)
  BY UsableMemory DEF IInv, TypeOK
<1>3. memory' \in Regions
  <2>1. CASE fails(m)
    BY <1>1, <1>2, <2>1
  <2>2. CASE ~fails(m)
    BY <1>1, <1>2, <2>2, SizeAssumption DEF Region, Regions
  <2> QED BY <2>1, <2>2
<1>4. warned' \in BOOLEAN
  BY <1>1
<1>5. boot' \in {"halt", "layout"} /\ boot = "memory"
  BY <1>1
<1>6. TypeOK'
  BY <1>1, <1>3, <1>4, <1>5 DEF IInv, TypeOK, Tables
<1>7. Delivered' /\ Stacked'
  BY <1>1, BootKeeps
<1>8. Gated'
  BY <1>1, <1>5 DEF IInv, TypeOK, Tables, Gated, Unloaded, Late
<1>9. Programmed' /\ InServiceNow'
  BY <1>1, <1>5 DEF IInv, Programmed, Unloaded, InServiceNow
<1>10. Listening'
  BY <1>1, <1>5 DEF IInv, TypeOK, Listening, KeyboardInstalled, KeyboardListens, Pending
<1>11. Located'
  <2>1. SUFFICES ASSUME ~fails(m) PROVE Located'
    BY <1>1 DEF Located
  <2>2. PICK i \in DOMAIN mmap : /\ mmap[i].type = Present
                                 /\ m = Region(mmap[i].addr, mmap[i].len)
    BY <1>2, <2>1
  <2>3. m.start = mmap[i].addr /\ m.length = mmap[i].len
    BY <2>2 DEF Region
  <2>4. mmap[i].len >= KERNEL_SIZE
    BY <1>2, <2>1, <2>3, SizeAssumption DEF Regions
  <2>5. memory' = Region(mmap[i].addr + KERNEL_SIZE, mmap[i].len - KERNEL_SIZE)
    BY <1>1, <2>1, <2>3
  <2>6. memory'.length = left(m).length /\ left(m).length \in Int
    BY <1>1, <1>2, <2>1, SizeAssumption DEF Region, Regions
  <2>7. warned' \/ memory'.length >= SYMTAB_SIZE + HEAP_SIZE
    <3>1. \A x \in Int : x < HEAP_SIZE + SYMTAB_SIZE \/ x >= SYMTAB_SIZE + HEAP_SIZE
      BY SizeAssumption
    <3>2. warned' = (left(m).length < HEAP_SIZE + SYMTAB_SIZE)
      BY <1>1, <2>1
    <3> HIDE DEF left
    <3> QED BY <2>6, <3>1, <3>2
  <2> QED BY <1>1, <2>2, <2>4, <2>5, <2>7 DEF Located
<1>12. LayoutFits'
  BY <1>5 DEF LayoutFits
<1> QED BY <1>6, <1>7, <1>8, <1>9, <1>10, <1>11, <1>12 DEF IInv

LEMMA set_layoutStep == ASSUME IInv, set_layout PROVE IInv'
<1> USE DEF set_layout, Boot, pics, tables, devices
<1>1. /\ boot = "layout" /\ memory \in Regions /\ mmap \in Maps
  BY DEF IInv, TypeOK
<1>2. PICK i \in DOMAIN mmap :
        /\ mmap[i].type = Present
        /\ mmap[i].len >= KERNEL_SIZE
        /\ memory = Region(mmap[i].addr + KERNEL_SIZE, mmap[i].len - KERNEL_SIZE)
  BY <1>1 DEF IInv, Located
<1>3. warned \/ memory.length >= SYMTAB_SIZE + HEAP_SIZE
  BY <1>1 DEF IInv, Located
<1>4. /\ mmap[i].addr \in Nat /\ mmap[i].len \in Nat
      /\ mmap[i].addr + mmap[i].len < Word
  BY <1>1, MapType
<1>5. memory.start = mmap[i].addr + KERNEL_SIZE /\ memory.length = mmap[i].len - KERNEL_SIZE
  BY <1>2 DEF Region
<1>6. Word \in Nat /\ Word > 0 /\ memory.start \in Nat /\ memory.length \in Nat
  BY <1>1, SizeAssumption DEF Regions
<1>7. symt' \in Regions /\ heap' \in Regions
  <2>1. \A x \in Int : x % Word \in Nat
    BY <1>6
  <2>2. memory.start + SYMTAB_SIZE \in Int /\ memory.length - SYMTAB_SIZE \in Int
    BY <1>6, SizeAssumption
  <2> QED BY <1>6, <2>1, <2>2, SizeAssumption DEF Region, Regions
<1>8. TypeOK'
  BY <1>7 DEF IInv, TypeOK, Tables
<1>9. Delivered' /\ Stacked'
  BY BootKeeps
<1>10. Gated'
  BY DEF IInv, TypeOK, Tables, Gated, Unloaded, Late
<1>11. Programmed' /\ InServiceNow'
  BY DEF IInv, Programmed, Unloaded, InServiceNow
<1>12. Listening'
  BY DEF IInv, TypeOK, Listening, KeyboardInstalled, KeyboardListens, Pending
<1>13. Located'
  BY <1>1 DEF IInv, Located
<1>14. LayoutFits'
  <2> SUFFICES ASSUME ~warned
               PROVE  /\ Covers(mmap[i])'
                      /\ symt'.length >= SYMTAB_SIZE /\ heap'.length >= HEAP_SIZE
    BY DEF LayoutFits, Covers
  <2>1. \A x \in Nat : x < Word => x % Word = x
    BY <1>6
  <2>2. /\ memory.start + SYMTAB_SIZE \in Nat /\ memory.start + SYMTAB_SIZE < Word
        /\ memory.length - SYMTAB_SIZE \in Nat /\ memory.length - SYMTAB_SIZE < Word
    BY <1>3, <1>4, <1>5, <1>6, SizeAssumption
  <2>3. /\ symt' = Region(memory.start, SYMTAB_SIZE)
        /\ heap' = Region(memory.start + SYMTAB_SIZE, memory.length - SYMTAB_SIZE)
    BY <2>1, <2>2
  <2>4. /\ symt'.start = memory.start /\ symt'.length = SYMTAB_SIZE
        /\ heap'.start = memory.start + SYMTAB_SIZE
        /\ heap'.length = memory.length - SYMTAB_SIZE
    BY <2>3 DEF Region
  <2>5. symt'.length >= SYMTAB_SIZE /\ heap'.length >= HEAP_SIZE
    BY <1>3, <1>6, <2>4, SizeAssumption
  <2>6. /\ symt'.start >= mmap[i].addr + KERNEL_SIZE
        /\ heap'.start >= symt'.start + symt'.length
        /\ heap'.start + heap'.length <= mmap[i].addr + mmap[i].len
    <3> DEFINE a == mmap[i].addr
               n == mmap[i].len
    <3>1. a \in Nat /\ n \in Nat /\ SYMTAB_SIZE \in Nat /\ KERNEL_SIZE \in Nat
      BY <1>4, SizeAssumption
    <3>2. /\ symt'.start = a + KERNEL_SIZE /\ symt'.length = SYMTAB_SIZE
          /\ heap'.start = (a + KERNEL_SIZE) + SYMTAB_SIZE
          /\ heap'.length = (n - KERNEL_SIZE) - SYMTAB_SIZE
      BY <1>5, <2>4
    <3> HIDE DEF a, n
    <3>3. /\ symt'.start >= a + KERNEL_SIZE
          /\ heap'.start >= symt'.start + symt'.length
          /\ heap'.start + heap'.length <= a + n
      BY <3>1, <3>2
    <3> QED BY <3>3 DEF a, n
  <2> QED BY <1>2, <2>5, <2>6 DEF Covers
<1> QED BY <1>8, <1>9, <1>10, <1>11, <1>12, <1>13, <1>14 DEF IInv

LEMMA mainStep == ASSUME IInv, main PROVE IInv'
BY InstallStep, irq_remapStep, set_memoryStep, set_layoutStep DEF main, Install

-----------------------------------------------------------------------------
(* Interrupts                                                                *)

\* What an interrupt does not touch.
LEMMA Untouched ==
  ASSUME IInv, UNCHANGED bootvars, interruptible' => boot \in Late
  PROVE  Gated' /\ Located' /\ LayoutFits'
<1> USE DEF bootvars, tables, layout
<1>1. Gated'
  BY DEF IInv, Gated
<1>2. Located'
  BY DEF IInv, Located
<1>3. LayoutFits'
  BY DEF IInv, LayoutFits, Covers
<1> QED BY <1>1, <1>2, <1>3

\* Requests and ends of interrupt do not change how the controllers are programmed.
LEMMA StaysProgrammed ==
  ASSUME IInv, UNCHANGED bootvars,
         master'.icw = master.icw, master'.base = master.base,
         slave'.icw = slave.icw, slave'.base = slave.base
  PROVE  Programmed'
BY DEF IInv, Programmed, bootvars

LEMMA TypeKept ==
  ASSUME IInv, UNCHANGED bootvars,
         master' \in Pics, slave' \in Pics, interruptible' \in BOOLEAN,
         pc' \in {"main", "stub", "handler", "slave", "master", "return", "panic", "reset"},
         vector' \in Nat, faulted' \in BOOLEAN, timer_ticks' \in Nat,
         full' \in BOOLEAN, early' \in BOOLEAN, requests' \in 0 .. MaxRequests
  PROVE  TypeOK'
<1>1. /\ boot' = boot /\ writes' = writes /\ loaded' = loaded /\ idt' = idt
      /\ irq_routines' = irq_routines /\ mmap' = mmap /\ memory' = memory
      /\ warned' = warned /\ symt' = symt /\ heap' = heap
  BY DEF bootvars, tables, layout
<1> QED BY <1>1 DEF IInv, TypeOK

\* An exception or interrupt that comes through a gate of its own.
LEMMA Delivery ==
  ASSUME IInv, NEW v \in 0 .. 47, boot \notin Unloaded, v >= 32 => boot \in Late, Deliver(v)
  PROVE  /\ vector' = v /\ pc' = "stub" /\ interruptible' = FALSE
         /\ stack' = Frame \o (IF PushesError(v) THEN <<Pushed("error")>> ELSE <<>>)
         /\ UNCHANGED <<bootvars, timer_ticks, devices>>
<1>1. loaded = {"gdt", "idt"}
  BY DEF IInv, Gated, Unloaded, Tables
<1>2. DOMAIN idt = 0 .. 47
  BY DEF IInv, TypeOK
<1>3. idt[v] = v
  <2>1. CASE v < 32
    BY <2>1 DEF IInv, Gated
  <2>2. CASE v >= 32
    BY <2>2 DEF IInv, Gated
  <2> QED BY <2>1, <2>2
<1> QED BY <1>1, <1>2, <1>3 DEF Deliver, Frame

\* The controllers in service of nothing, when main runs with interrupts on.
LEMMA Idle ==
  ASSUME IInv, pc = "main"
  PROVE  /\ master \in Pics /\ slave \in Pics /\ master.isr = {} /\ slave.isr = {}
         /\ interruptible => boot \in Late /\ master.base = 32 /\ slave.base = 40
<1>1. master \in Pics /\ slave \in Pics
  BY DEF IInv, TypeOK
<1>2. master.isr = {} /\ slave.isr = {}
  BY DEF IInv, InServiceNow
<1>3. ASSUME interruptible PROVE boot \in Late /\ master.base = 32 /\ slave.base = 40
  <2>1. boot \in Late
    BY <1>3 DEF IInv, Gated
  <2>2. writes = 10
    BY <2>1 DEF IInv, Programmed, Late, Unloaded
  <2> QED BY <2>1, <2>2 DEF IInv, Programmed
<1> QED BY <1>1, <1>2, <1>3

LEMMA Serving ==
  ASSUME NEW p \in Pics, NEW l \in 0 .. 7, p.isr = {}
  PROVE  /\ InService(p, l) \in Pics
         /\ InService(p, l).icw = p.icw /\ InService(p, l).base = p.base
         /\ InService(p, l).irr = p.irr \ {l} /\ InService(p, l).isr = {l}
BY DEF InService, Pics

LEMMA InterruptStep == ASSUME IInv, Interrupt PROVE IInv'
<1>1. /\ pc = "main" /\ interruptible /\ boot \in Late /\ boot \notin Unloaded
      /\ master \in Pics /\ slave \in Pics /\ master.isr = {} /\ slave.isr = {}
      /\ master.base = 32 /\ slave.base = 40
  BY Idle DEF Interrupt, Late, Unloaded
<1>2. PICK l \in MasterWants :
        \/ /\ l # 2
           /\ master' = InService(master, l) /\ UNCHANGED slave
           /\ Deliver(master.base + l)
        \/ /\ l = 2
           /\ master' = InService(master, 2)
           /\ \E s \in SlaveWants : slave' = InService(slave, s) /\ Deliver(slave.base + s)
  BY DEF Interrupt
<1>3. l \in 0 .. 7 /\ \A s \in SlaveWants : s \in 0 .. 7
  <2>1. MasterWants \subseteq 0 .. 7
    BY <1>1 DEF MasterWants, Wants, Pics
  <2>2. SlaveWants \subseteq 0 .. 7
    BY <1>1 DEF SlaveWants, Wants, Pics
  <2> QED BY <2>1, <2>2
<1>4. PICK v \in 32 .. 47 :
        /\ Deliver(v) /\ v # 34
        /\ v < 40 => l = v - 32 /\ slave' = slave
        /\ v >= 40 => l = 2 /\ slave' = InService(slave, v - 40)
        /\ master' = InService(master, l)
  <2>1. CASE l # 2
    <3>1. Deliver(32 + l) /\ 32 + l \in 32 .. 39 /\ 32 + l # 34 /\ (32 + l) - 32 = l
      BY <1>1, <1>2, <1>3, <2>1
    <3> QED BY <1>2, <2>1, <3>1
  <2>2. CASE l = 2
    <3>1. PICK s \in SlaveWants : slave' = InService(slave, s) /\ Deliver(40 + s)
      BY <1>1, <1>2, <2>2
    <3>2. 40 + s \in 40 .. 47 /\ (40 + s) - 40 = s
      BY <1>3
    <3> QED BY <1>2, <2>2, <3>1, <3>2
  <2> QED BY <2>1, <2>2
<1>5. /\ master' \in Pics /\ master'.icw = master.icw /\ master'.base = master.base
      /\ master'.irr = master.irr \ {l} /\ master'.isr = {l}
  BY <1>1, <1>3, <1>4, Serving
<1>6. /\ slave' \in Pics /\ slave'.icw = slave.icw /\ slave'.base = slave.base
      /\ v < 40 => slave'.isr = {}
      /\ v >= 40 => slave'.isr = {v - 40}
  <2>1. CASE v < 40
    BY <1>1, <1>4, <2>1
  <2>2. CASE v >= 40
    <3>1. v - 40 \in 0 .. 7
      BY <2>2
    <3> QED BY <1>1, <1>4, <2>2, <3>1, Serving
  <2> QED BY <2>1, <2>2
<1>7. /\ vector' = v /\ pc' = "stub" /\ interruptible' = FALSE
      /\ stack' = Frame \o (IF PushesError(v) THEN <<Pushed("error")>> ELSE <<>>)
      /\ UNCHANGED <<bootvars, timer_ticks, devices>>
  <2>1. v \in 0 .. 47
    OBVIOUS
  <2> QED BY <1>1, <1>4, <2>1, Delivery
<1>8. faulted' = faulted
  BY DEF Interrupt
<1>9. Gated' /\ Located' /\ LayoutFits'
  BY <1>7, Untouched
<1>10. Programmed'
  BY <1>5, <1>6, <1>7, StaysProgrammed
<1>11. TypeOK'
  <2>1. v \in Nat /\ timer_ticks \in Nat /\ faulted \in BOOLEAN
        /\ full \in BOOLEAN /\ early \in BOOLEAN /\ requests \in 0 .. MaxRequests
    BY DEF IInv, TypeOK
  <2>2. full' = full /\ early' = early /\ requests' = requests
    BY <1>7 DEF devices
  <2> QED BY <1>5, <1>6, <1>7, <1>8, <2>1, <2>2, TypeKept
<1>12. Delivered'
  BY <1>1, <1>7 DEF Delivered, bootvars
<1>13. InServiceNow'
  <2>1. master'.isr = {IF v < 40 THEN v - 32 ELSE 2}
    BY <1>4, <1>5
  <2>2. slave'.isr = IF v < 40 \/ pc' = "master" THEN {} ELSE {v - 40}
    <3>1. pc' # "master" /\ (v < 40 \/ v >= 40) /\ ~(v < 40 /\ v >= 40)
      BY <1>7
    <3> QED BY <1>6, <3>1
  <2>3. v # 34 /\ v >= 32 /\ vector' = v /\ pc' = "stub"
    BY <1>4, <1>7
  <2> QED BY <2>1, <2>2, <2>3 DEF InServiceNow
<1>14. Stacked'
  BY <1>7 DEF Stacked
<1>15. Listening'
  <2>1. /\ KeyboardInstalled' = KeyboardInstalled /\ irq_routines' = irq_routines
        /\ full' = full /\ early' = early
    BY <1>7 DEF bootvars, tables, devices, KeyboardInstalled
  <2>2. full /\ ~early => 1 \in master.irr
    BY <1>1 DEF IInv, Listening, KeyboardListens, Pending
  <2>3. KeyboardListens'
    BY <1>5, <1>7, <2>1, <2>2 DEF KeyboardListens, Pending
  <2> QED BY <2>1, <2>3 DEF IInv, Listening
<1> QED BY <1>9, <1>10, <1>11, <1>12, <1>13, <1>14, <1>15 DEF IInv

LEMMA FaultStep == ASSUME IInv, NEW v \in Faults, Fault(v) PROVE IInv'
<1>1. /\ pc = "main" /\ boot \notin Unloaded /\ v \in 0 .. 31 /\ faulted' = TRUE
      /\ master.isr = {} /\ slave.isr = {} /\ master' = master /\ slave' = slave
  BY Idle, FaultsAssumption DEF Fault, Unloaded, pics
<1>2. v \in 0 .. 47 /\ ~(v >= 32) /\ Deliver(v)
  BY <1>1 DEF Fault
<1>3. /\ vector' = v /\ pc' = "stub" /\ interruptible' = FALSE
      /\ stack' = Frame \o (IF PushesError(v) THEN <<Pushed("error")>> ELSE <<>>)
      /\ UNCHANGED <<bootvars, timer_ticks, devices>>
  BY <1>1, <1>2, Delivery
<1>4. Gated' /\ Located' /\ LayoutFits' /\ Programmed'
  BY <1>1, <1>3, Untouched, StaysProgrammed
<1>5. TypeOK'
  <2>1. v \in Nat /\ timer_ticks \in Nat /\ master \in Pics /\ slave \in Pics
        /\ full \in BOOLEAN /\ early \in BOOLEAN /\ requests \in 0 .. MaxRequests
    BY <1>1 DEF IInv, TypeOK
  <2>2. full' = full /\ early' = early /\ requests' = requests
    BY <1>3 DEF devices
  <2> QED BY <1>1, <1>3, <2>1, <2>2, TypeKept
<1>6. Delivered' /\ InServiceNow' /\ Stacked'
  BY <1>1, <1>2, <1>3 DEF Delivered, InServiceNow, Stacked, bootvars
<1>7. Listening'
  BY <1>1, <1>3
     DEF IInv, Listening, KeyboardListens, KeyboardInstalled, Pending, bootvars, tables, devices
<1> QED BY <1>4, <1>5, <1>6, <1>7 DEF IInv

\* What an isr stub and an irq stub push: a word or two, the last one the number.
LEMMA StubWords ==
  ASSUME NEW v \in 0 .. 47
  PROVE  /\ StubPushes(v) \in Seq(Words) /\ Len(StubPushes(v)) \in {1, 2}
         /\ StubPushes(v)[Len(StubPushes(v))] = Number(v)
         /\ v >= 32 => Len(StubPushes(v)) = 2
<1>1. Pushed("error") \in Words /\ Number(v) \in Words
  BY DEF Pushed, Number, Words
<1> DEFINE e == Pushed("error")
           n == Number(v)
<1> HIDE DEF e, n
<1>2. e \in Words /\ n \in Words /\ n = Number(v)
  BY <1>1 DEF e, n
<1>3. <<e>> \in Seq(Words) /\ <<n>> \in Seq(Words) /\ <<>> \in Seq(Words) /\ <<e, n>> \in Seq(Words)
  BY <1>2
<1>4. CASE StubPushes(v) = <<>> \o <<n>> /\ v < 32
  BY <1>2, <1>3, <1>4, ConcatEmptySeq
<1>5. CASE StubPushes(v) = <<e>> \o <<n>> /\ v < 32
  <2>1. /\ <<e>> \o <<n>> \in Seq(Words) /\ Len(<<e>> \o <<n>>) = 2
        /\ (<<e>> \o <<n>>)[2] = <<n>>[1]
    BY <1>3, ConcatProperties
  <2> QED BY <1>2, <1>5, <2>1
<1>6. CASE StubPushes(v) = <<e, n>>
  BY <1>2, <1>3, <1>6
<1>7. CASE v < 32
  <2>1. StubPushes(v) = (IF v \in {8, 10, 11, 12, 13, 14} THEN <<>> ELSE <<e>>) \o <<n>>
    BY <1>7 DEF StubPushes, isr, e, n
  <2>2. StubPushes(v) = <<>> \o <<n>> \/ StubPushes(v) = <<e>> \o <<n>>
    BY <2>1
  <2> QED BY <1>4, <1>5, <1>7, <2>2
<1>8. CASE v >= 32
  <2>1. StubPushes(v) = <<e, n>>
    BY <1>8 DEF StubPushes, irq, e, n
  <2> QED BY <1>6, <2>1
<1> QED BY <1>7, <1>8

LEMMA isr_stubStep == ASSUME IInv, isr_stub PROVE IInv'
<1>1. /\ pc = "stub" /\ pc' = "handler" /\ vector \in 0 .. 47 /\ vector' = vector
      /\ UNCHANGED <<bootvars, interruptible, pics, faulted, timer_ticks, devices>>
  BY DEF isr_stub, IInv, Delivered
<1>2. idt[vector] = vector
  <2>1. boot \notin Unloaded /\ (vector >= 32 => boot \in Late)
    BY <1>1 DEF IInv, Delivered
  <2>2. CASE vector < 32
    BY <1>1, <2>1, <2>2 DEF IInv, Gated
  <2>3. CASE vector >= 32
    BY <1>1, <2>1, <2>3 DEF IInv, Gated
  <2> QED BY <1>1, <2>2, <2>3
<1> DEFINE a == Frame \o (IF PushesError(vector) THEN <<Pushed("error")>> ELSE <<>>)
           b == StubPushes(vector)
           c == <<Pushed("pusha"), Pushed("segments"), Pushed("regs")>>
<1>3. a \in Seq(Words) /\ (vector >= 32 => a = Frame)
  <2>1. Pushed("error") \in Words
    BY DEF Pushed, Words
  <2>2. <<Pushed("error")>> \in Seq(Words) /\ <<>> \in Seq(Words)
    BY <2>1
  <2>3. Frame \o <<Pushed("error")>> \in Seq(Words) /\ Frame \o <<>> = Frame
    BY <2>2, FrameType, ConcatProperties, ConcatEmptySeq
  <2>4. vector >= 32 => ~PushesError(vector)
    BY <1>1 DEF PushesError
  <2> QED BY <2>3, <2>4, FrameType
<1>4. c \in Seq(Words) /\ Len(c) = 3
  <2>1. Pushed("pusha") \in Words /\ Pushed("segments") \in Words /\ Pushed("regs") \in Words
    BY DEF Pushed, Words
  <2> QED BY <2>1, Triple
<1>5. b \in Seq(Words) /\ Len(b) \in {1, 2} /\ b[Len(b)] = Number(vector)
      /\ (vector >= 32 => Len(b) = 2)
  BY <1>1, StubWords
<1>6. stack' = (a \o b) \o c
  <2>1. stack = a
    BY <1>1 DEF IInv, Stacked
  <2> QED BY <1>2, <2>1 DEF isr_stub
<1> HIDE DEF a, b, c
<1>7. /\ stack'[Len(stack') - 3] = Number(vector)
      /\ vector >= 32 => SubSeq(stack', 1, Len(stack') - 5) = Frame
  <2>1. Len(b) > 0
    <3>1. Len(b) = 1 \/ Len(b) = 2
      BY <1>5
    <3> QED BY <3>1
  <2>2. stack'[Len(stack') - 3] = b[Len(b)]
    BY <1>3, <1>4, <1>5, <1>6, <2>1, StubStack
  <2>3. ASSUME vector >= 32 PROVE SubSeq(stack', 1, Len(stack') - 5) = a
    <3>1. Len(a) = 3 /\ Len(b) = 2
      BY <1>3, <1>5, <2>3, FrameType
    <3>2. SubSeq((a \o b) \o c, 1, Len((a \o b) \o c) - 5) = a
      BY <1>3, <1>4, <1>5, <2>1, <3>1, StubStack
    <3> QED BY <1>6, <3>2
  <2> QED BY <1>3, <1>5, <2>2, <2>3
<1>8. Gated' /\ Located' /\ LayoutFits' /\ Programmed'
  <2>1. interruptible' => boot \in Late
    BY <1>1 DEF IInv, Gated
  <2> QED BY <1>1, <2>1, Untouched, StaysProgrammed DEF pics
<1>9. TypeOK'
  BY <1>1, TypeKept DEF IInv, TypeOK, pics, devices
<1>10. Delivered' /\ InServiceNow'
  BY <1>1 DEF IInv, Delivered, InServiceNow, bootvars, pics
<1>11. Stacked'
  BY <1>1, <1>7 DEF Stacked, int_no, Popped, Number, Frame
<1>12. Listening'
  BY <1>1
     DEF IInv, Listening, KeyboardListens, KeyboardInstalled, Pending, bootvars, tables,
         pics, devices
<1> QED BY <1>8, <1>9, <1>10, <1>11, <1>12 DEF IInv

LEMMA fault_handlerStep == ASSUME IInv, fault_handler PROVE IInv'
<1>1. /\ pc = "handler" /\ pc' = "panic" /\ int_no < 32
      /\ UNCHANGED <<bootvars, interruptible, pics, stack, vector, faulted, timer_ticks, devices>>
  BY DEF fault_handler
<1>2. vector < 32 /\ vector \in 0 .. 47
  BY <1>1 DEF IInv, Stacked, Delivered
<1>3. master.isr = {} /\ slave.isr = {}
  BY <1>1, <1>2 DEF IInv, InServiceNow
<1>4. Gated' /\ Located' /\ LayoutFits' /\ Programmed'
  <2>1. interruptible' => boot \in Late
    BY <1>1 DEF IInv, Gated
  <2> QED BY <1>1, <2>1, Untouched, StaysProgrammed DEF pics
<1>5. TypeOK'
  BY <1>1, TypeKept DEF IInv, TypeOK, pics, devices
<1>6. Delivered' /\ InServiceNow' /\ Stacked'
  BY <1>1, <1>2, <1>3 DEF IInv, Delivered, InServiceNow, Stacked, bootvars, pics
<1>7. Listening'
  BY <1>1, <1>3
     DEF IInv, Listening, KeyboardListens, KeyboardInstalled, Pending, bootvars, tables,
         pics, devices
<1> QED BY <1>4, <1>5, <1>6, <1>7 DEF IInv

LEMMA irq_routineStep == ASSUME IInv, irq_routine PROVE IInv'
<1>1. /\ pc = "handler" /\ pc' = "slave" /\ int_no >= 32
      /\ UNCHANGED <<bootvars, interruptible, pics, stack, vector, faulted, early, requests>>
      /\ full' = (full /\ irq_routines[int_no - 32] # "keyboard_handler")
      /\ timer_ticks' = timer_ticks
                          + (IF irq_routines[int_no - 32] = "timer_handler" THEN 1 ELSE 0)
  BY DEF irq_routine
<1>2. int_no = vector /\ vector >= 32 /\ vector \in 0 .. 47
  BY <1>1 DEF IInv, Stacked, Delivered
<1>3. Gated' /\ Located' /\ LayoutFits' /\ Programmed'
  <2>1. interruptible' => boot \in Late
    BY <1>1 DEF IInv, Gated
  <2> QED BY <1>1, <2>1, Untouched, StaysProgrammed DEF pics
<1>4. TypeOK'
  <2>1. timer_ticks' \in Nat
    BY <1>1 DEF IInv, TypeOK
  <2>2. full' \in BOOLEAN
    BY <1>1
  <2> QED BY <1>1, <2>1, <2>2, TypeKept DEF IInv, TypeOK, pics
<1>5. Delivered' /\ InServiceNow'
  BY <1>1, <1>2 DEF IInv, Delivered, InServiceNow, bootvars, pics
<1>6. Stacked'
  <2>1. int_no' = int_no /\ Popped' = Popped
    BY <1>1 DEF int_no, Popped
  <2> QED BY <1>1, <2>1 DEF IInv, Stacked
<1>7. Listening'
  <2>1. KeyboardInstalled' = KeyboardInstalled /\ irq_routines' = irq_routines
    BY <1>1 DEF bootvars, tables, KeyboardInstalled
  <2>2. ASSUME full', ~early' PROVE KeyboardInstalled /\ 1 \in master.irr
    <3>1. full /\ ~early /\ irq_routines[vector - 32] # "keyboard_handler"
      BY <1>1, <1>2, <2>2
    <3>2. KeyboardInstalled /\ irq_routines[1] = "keyboard_handler"
      BY <3>1 DEF IInv, Listening
    <3>3. vector # 33
      BY <3>1, <3>2
    <3>4. 1 \notin master.isr
      BY <1>1, <1>2, <3>3 DEF IInv, InServiceNow
    <3> QED BY <3>1, <3>2, <3>4 DEF IInv, Listening, KeyboardListens, Pending
  <2>3. KeyboardListens'
    BY <1>1, <2>2 DEF KeyboardListens, Pending, pics
  <2> QED BY <2>1, <2>2, <2>3 DEF IInv, Listening
<1> QED BY <1>3, <1>4, <1>5, <1>6, <1>7 DEF IInv

\* Ending the one interrupt in service leaves none.
LEMMA LastEnds == ASSUME NEW l \in 0 .. 7 PROVE AllButFirst({l}) = {}
BY DEF AllButFirst

LEMMA irq_eoi_slaveStep == ASSUME IInv, irq_eoi_slave PROVE IInv'
<1>1. /\ pc = "slave" /\ pc' = "master"
      /\ IF int_no >= 40 THEN outportb(160, 32) ELSE UNCHANGED pics
      /\ UNCHANGED <<bootvars, interruptible, stack, vector, faulted, timer_ticks, devices>>
  BY DEF irq_eoi_slave
<1>2. /\ int_no = vector /\ vector >= 32 /\ vector \in 0 .. 47 /\ vector # 34
      /\ master.isr = {IF vector < 40 THEN vector - 32 ELSE 2}
      /\ slave.isr = IF vector < 40 THEN {} ELSE {vector - 40}
      /\ master \in Pics /\ slave \in Pics
  <2>1. int_no = vector /\ vector >= 32 /\ vector \in 0 .. 47
    BY <1>1 DEF IInv, Stacked, Delivered
  <2> QED BY <1>1, <2>1 DEF IInv, TypeOK, InServiceNow
<1>3. master' = master
  <2>1. CASE int_no >= 40
    BY <1>1, <2>1 DEF outportb
  <2>2. CASE ~(int_no >= 40)
    BY <1>1, <2>2 DEF pics
  <2> QED BY <2>1, <2>2
<1>4. /\ slave' \in Pics /\ slave'.icw = slave.icw /\ slave'.base = slave.base
      /\ slave'.isr = {}
  <2>1. CASE vector >= 40
    <3>1. slave' = Command(slave, 32)
      BY <1>1, <1>2, <2>1 DEF outportb
    <3>2. slave.isr = {vector - 40} /\ vector - 40 \in 0 .. 7
      BY <1>2, <2>1
    <3>3. AllButFirst(slave.isr) = {}
      BY <3>2, LastEnds
    <3> QED BY <1>2, <3>1, <3>3, CommandResult
  <2>2. CASE vector < 40
    <3>1. slave' = slave
      BY <1>1, <1>2, <2>2 DEF pics
    <3> QED BY <1>2, <2>2, <3>1
  <2> QED BY <1>2, <2>1, <2>2
<1>5. Gated' /\ Located' /\ LayoutFits' /\ Programmed'
  <2>1. interruptible' => boot \in Late
    BY <1>1 DEF IInv, Gated
  <2> QED BY <1>1, <1>3, <1>4, <2>1, Untouched, StaysProgrammed
<1>6. TypeOK'
  BY <1>1, <1>2, <1>3, <1>4, TypeKept DEF IInv, TypeOK, devices
<1>7. Delivered'
  BY <1>1, <1>2 DEF IInv, Delivered, bootvars
<1>8. InServiceNow'
  BY <1>1, <1>2, <1>3, <1>4 DEF InServiceNow
<1>9. Stacked'
  <2>1. int_no' = int_no /\ Popped' = Popped
    BY <1>1 DEF int_no, Popped
  <2> QED BY <1>1, <2>1 DEF IInv, Stacked
<1>10. Listening'
  BY <1>1, <1>3
     DEF IInv, Listening, KeyboardListens, KeyboardInstalled, Pending, bootvars, tables, devices
<1> QED BY <1>5, <1>6, <1>7, <1>8, <1>9, <1>10 DEF IInv

LEMMA irq_eoi_masterStep == ASSUME IInv, irq_eoi_master PROVE IInv'
<1>1. /\ pc = "master" /\ pc' = "return" /\ outportb(32, 32)
      /\ UNCHANGED <<bootvars, interruptible, stack, vector, faulted, timer_ticks, devices>>
  BY DEF irq_eoi_master
<1>2. /\ vector >= 32 /\ vector \in 0 .. 47
      /\ master.isr = {IF vector < 40 THEN vector - 32 ELSE 2} /\ slave.isr = {}
      /\ master \in Pics /\ slave \in Pics
  <2>1. vector >= 32 /\ vector \in 0 .. 47
    BY <1>1 DEF IInv, Delivered
  <2> QED BY <1>1, <2>1 DEF IInv, TypeOK, InServiceNow
<1>3. slave' = slave /\ master' = Command(master, 32)
  BY <1>1 DEF outportb
<1>4. /\ master' \in Pics /\ master'.icw = master.icw /\ master'.base = master.base
      /\ master'.irr = master.irr /\ master'.isr = {}
  <2>1. (IF vector < 40 THEN vector - 32 ELSE 2) \in 0 .. 7
    BY <1>2
  <2>2. AllButFirst(master.isr) = {}
    BY <1>2, <2>1, LastEnds
  <2> QED BY <1>2, <1>3, <2>2, CommandResult
<1>5. Gated' /\ Located' /\ LayoutFits' /\ Programmed'
  <2>1. interruptible' => boot \in Late
    BY <1>1 DEF IInv, Gated
  <2> QED BY <1>1, <1>3, <1>4, <2>1, Untouched, StaysProgrammed
<1>6. TypeOK'
  BY <1>1, <1>2, <1>3, <1>4, TypeKept DEF IInv, TypeOK, devices
<1>7. Delivered' /\ InServiceNow'
  BY <1>1, <1>2, <1>3, <1>4 DEF IInv, Delivered, InServiceNow, bootvars
<1>8. Stacked'
  <2>1. int_no' = int_no /\ Popped' = Popped
    BY <1>1 DEF int_no, Popped
  <2> QED BY <1>1, <2>1 DEF IInv, Stacked
<1>9. Listening'
  BY <1>1, <1>4
     DEF IInv, Listening, KeyboardListens, KeyboardInstalled, Pending, bootvars, tables, devices
<1> QED BY <1>5, <1>6, <1>7, <1>8, <1>9 DEF IInv

LEMMA irq_returnStep == ASSUME IInv, irq_return PROVE IInv'
<1>1. pc = "return" /\ vector >= 32 /\ boot \in Late /\ Popped = Frame
  BY DEF irq_return, IInv, Delivered, Stacked
<1>2. /\ pc' = "main" /\ interruptible' = TRUE /\ stack' = <<>>
      /\ UNCHANGED <<bootvars, pics, vector, faulted, timer_ticks, devices>>
  BY <1>1 DEF irq_return
<1>3. master.isr = {} /\ slave.isr = {}
  BY <1>1 DEF IInv, InServiceNow
<1>4. Gated' /\ Located' /\ LayoutFits' /\ Programmed'
  BY <1>1, <1>2, Untouched, StaysProgrammed DEF pics
<1>5. TypeOK'
  BY <1>2, TypeKept DEF IInv, TypeOK, pics, devices
<1>6. Delivered' /\ InServiceNow' /\ Stacked'
  BY <1>2, <1>3 DEF Delivered, InServiceNow, Stacked, pics
<1>7. Listening'
  BY <1>1, <1>2
     DEF IInv, Listening, KeyboardListens, KeyboardInstalled, Pending, bootvars, tables,
         pics, devices
<1> QED BY <1>4, <1>5, <1>6, <1>7 DEF IInv

LEMMA HandlerStep == ASSUME IInv, Handler PROVE IInv'
BY isr_stubStep, fault_handlerStep, irq_routineStep, irq_eoi_slaveStep, irq_eoi_masterStep,
   irq_returnStep DEF Handler

-----------------------------------------------------------------------------
(* Devices                                                                   *)

LEMMA Asking ==
  ASSUME NEW p \in Pics, NEW l \in 0 .. 7
  PROVE  LET q == [p EXCEPT !.irr = @ \union {l}]
         IN  /\ q \in Pics /\ q.icw = p.icw /\ q.base = p.base /\ q.isr = p.isr
             /\ q.irr = p.irr \union {l}
BY DEF Pics

LEMMA RequestStep == ASSUME IInv, NEW line \in Lines, Request(line) PROVE IInv'
<1>1. /\ requests < MaxRequests /\ requests' = requests + 1
      /\ line = 1 => ~full
      /\ full' = (full \/ line = 1)
      /\ early' = (IF line = 1 THEN ~KeyboardInstalled ELSE early)
      /\ Requested(line)
      /\ UNCHANGED <<bootvars, interruptible, pc, stack, vector, faulted, timer_ticks>>
  BY DEF Request
<1>2. line \in 0 .. 15 /\ master \in Pics /\ slave \in Pics
  BY LinesAssumption DEF IInv, TypeOK
<1>3. /\ master' \in Pics /\ master'.icw = master.icw /\ master'.base = master.base
      /\ master'.isr = master.isr /\ master.irr \subseteq master'.irr
      /\ line = 1 => 1 \in master'.irr
      /\ slave' \in Pics /\ slave'.icw = slave.icw /\ slave'.base = slave.base
      /\ slave'.isr = slave.isr
  <2>1. CASE line < 8
    <3>1. line \in 0 .. 7 /\ slave' = slave
          /\ master' = [master EXCEPT !.irr = @ \union {line}]
      BY <1>1, <1>2, <2>1 DEF Requested
    <3> QED BY <1>2, <3>1, Asking
  <2>2. CASE line >= 8
    <3>1. line - 8 \in 0 .. 7 /\ line # 1 /\ master' = master
          /\ slave' = [slave EXCEPT !.irr = @ \union {line - 8}]
      BY <1>1, <1>2, <2>2 DEF Requested
    <3> QED BY <1>2, <3>1, Asking
  <2> QED BY <1>2, <2>1, <2>2
<1>4. Gated' /\ Located' /\ LayoutFits' /\ Programmed'
  <2>1. interruptible' => boot \in Late
    BY <1>1 DEF IInv, Gated
  <2> QED BY <1>1, <1>3, <2>1, Untouched, StaysProgrammed
<1>5. TypeOK'
  <2>1. requests' \in 0 .. MaxRequests
    BY <1>1, SizeAssumption DEF IInv, TypeOK
  <2>2. full' \in BOOLEAN /\ early' \in BOOLEAN
    BY <1>1 DEF IInv, TypeOK, KeyboardInstalled
  <2> QED BY <1>1, <1>3, <2>1, <2>2, TypeKept DEF IInv, TypeOK
<1>6. Delivered' /\ InServiceNow'
  BY <1>1, <1>3 DEF IInv, Delivered, InServiceNow, bootvars
<1>7. Stacked'
  <2>1. int_no' = int_no /\ Popped' = Popped
    BY <1>1 DEF int_no, Popped
  <2> QED BY <1>1, <2>1 DEF IInv, Stacked
<1>8. Listening'
  <2>1. KeyboardInstalled' = KeyboardInstalled /\ irq_routines' = irq_routines
    BY <1>1 DEF bootvars, tables, KeyboardInstalled
  <2>2. CASE line = 1
    BY <1>1, <1>3, <2>1, <2>2 DEF IInv, Listening, KeyboardListens, Pending
  <2>3. CASE line # 1
    <3>1. (full' => full) /\ early' = early /\ pc' = pc
      BY <1>1, <2>3 DEF IInv, TypeOK
    <3>2. Pending(1) => Pending(1)'
      BY <1>3 DEF Pending
    <3>3. KeyboardListens'
      BY <1>3, <3>1, <3>2 DEF IInv, Listening, KeyboardListens
    <3> QED BY <2>1, <3>1, <3>3 DEF IInv, Listening
  <2> QED BY <2>2, <2>3
<1> QED BY <1>4, <1>5, <1>6, <1>7, <1>8 DEF IInv

-----------------------------------------------------------------------------
(* The theorems                                                              *)

LEMMA Step == ASSUME IInv, [Next]_vars PROVE IInv'
<1>1. CASE Processor
  BY <1>1, mainStep, InterruptStep, HandlerStep DEF Processor
<1>2. CASE \E v \in Faults : Fault(v)
  BY <1>2, FaultStep
<1>3. CASE \E l \in Lines : Request(l)
  BY <1>3, RequestStep
<1>4. CASE UNCHANGED vars
  <2>1. UNCHANGED <<bootvars, interruptible, pics, pc, stack, vector, faulted, timer_ticks,
                    devices>>
    BY <1>4 DEF vars, bootvars
  <2>2. Gated' /\ Located' /\ LayoutFits' /\ Programmed'
    <3>1. interruptible' => boot \in Late
      BY <2>1 DEF IInv, Gated
    <3> QED BY <2>1, <3>1, Untouched, StaysProgrammed DEF pics
  <2>3. TypeOK'
    BY <2>1, TypeKept DEF IInv, TypeOK, pics, devices
  <2>4. Delivered' /\ InServiceNow'
    BY <2>1 DEF IInv, Delivered, InServiceNow, bootvars, pics
  <2>5. Stacked'
    <3>1. int_no' = int_no /\ Popped' = Popped
      BY <2>1 DEF int_no, Popped
    <3> QED BY <2>1, <3>1 DEF IInv, Stacked
  <2>6. Listening'
    BY <2>1
       DEF IInv, Listening, KeyboardListens, KeyboardInstalled, Pending, bootvars, tables,
           pics, devices
  <2> QED BY <2>2, <2>3, <2>4, <2>5, <2>6 DEF IInv
<1> QED BY <1>1, <1>2, <1>3, <1>4 DEF Next

\* The inductive invariant holds in every state: from the first step of main to the
\* last, whatever devices ask for and whatever exceptions are raised in between.
THEOREM Invariance == Spec => []IInv
<1>1. Init => IInv
  BY InitInv
<1>2. IInv /\ [Next]_vars => IInv'
  BY Step
<1> QED BY <1>1, <1>2, PTL DEF Spec

\* No interrupt request of a device is delivered on the vector of an exception
\* (irq.c:43-50), on any set of lines.
THEOREM DevicesKeepToTheirVectors == Spec => []NoStrayVector
<1>1. IInv => NoStrayVector
  BY DEF IInv, Delivered, NoStrayVector, InInterrupt
<1> QED BY <1>1, Invariance, PTL

\* The processor finds a gate for every vector, and each iret the three words that it
\* has pushed (start.asm:457-479).
THEOREM ProcessorNeverResets == Spec => []NeverResets
<1>1. IInv => NeverResets
  BY DEF IInv, Delivered, NeverResets
<1> QED BY <1>1, Invariance, PTL

\* Each interrupt is acknowledged at the controllers it has come through before main
\* goes on (irq.c:95-99), so none is held back afterwards.
THEOREM InterruptsAcknowledged == Spec => []Acknowledged
<1>1. IInv => Acknowledged
  BY DEF IInv, InServiceNow, Acknowledged
<1> QED BY <1>1, Invariance, PTL

\* A key hit once the keyboard is installed is waiting or on its way to the handler
\* as long as the controller holds it, so the keyboard never falls silent.
THEOREM KeysAreRead == Spec => []KeyboardListens
<1>1. IInv => KeyboardListens
  BY DEF IInv, Listening
<1> QED BY <1>1, Invariance, PTL

\* For every memory map and all sizes, without a warning the symbol table and the heap
\* lie apart, behind the kernel and in one usable block (system.c:225-242).
THEOREM MemoryFits == Spec => []LayoutFits
<1>1. IInv => LayoutFits
  BY DEF IInv
<1> QED BY <1>1, Invariance, PTL

=============================================================================
