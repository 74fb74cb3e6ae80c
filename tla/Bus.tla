-------------------------------- MODULE Bus --------------------------------
(***************************************************************************)
(* What the CPU's address bus selects (src/src/Bus.cpp): the 2K of RAM     *)
(* under $2000, or the devices and the cartridge, which sees every write   *)
(* from there on, also those that another device takes.                    *)
(***************************************************************************)
EXTENDS Integers

\* The four bits read_memory() and write_memory() decode.
Page(a) == (a \div \h1000) % 16

\* read_0, read_1, write_0, write_1: RAM repeats four times.
IsRam(a) == Page(a) <= 1
RamCell(a) == a % \h800

\* write_2 to write_f call the mapper first.
CartSees(a) == ~IsRam(a)
=============================================================================
