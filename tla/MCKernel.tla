------------------------------ MODULE MCKernel ------------------------------
(* Small instances of Kernel for TLC. *)
EXTENDS Kernel

\* Both controllers, two lines of each.
MCLines == {0, 1, 8, 12}

\* Without and with an error code of the processor.
MCFaults == {0, 13}

Block(type, addr, len) == [type |-> type, addr |-> addr, len |-> len]

\* The kernel lies at address 2 of a usable block of each length that main tells
\* apart, behind low memory and before a block in use.
MCMaps ==
  {<<Block(1, 0, 1), Block(1, 2, len), Block(2, 20, 4)>> : len \in {1, 2, 4, 6, 9}}
    \union {<<Block(1, 0, 1), Block(2, 2, 9)>>,
            <<Block(2, 1, 1), Block(1, 2, 1), Block(1, 4, 9)>>}
=============================================================================
