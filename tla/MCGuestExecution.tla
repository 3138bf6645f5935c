--------------------------- MODULE MCGuestExecution ---------------------------
(* The tables of the probes, scaled, and configurations beside the default: *)
(* views of different sizes and an empty region, MEM1 in two pieces, more   *)
(* sections than there are, and a region that leaves the address space.     *)
(*                                                                          *)
(* A product of six functions on three pages of two segments, one page of   *)
(* them empty, and what can be wrong with its table: no table, a function   *)
(* that is not in it, one that has no entry.                                *)
EXTENDS GuestExecution

Sized(base, size) == [base |-> base, size |-> size]

ProbeRegions(own) ==
  [i \in 1 .. 6 |-> Request(Sized(<<0, Cached, Uncached, Half, Cached + Half, Uncached + Half>>[i], 1))]
  \o << [base |-> own, size |-> 1, backing |-> "Owned"] >>

MCSmokeTable == ProbeRegions(4 * Segment - 1)
MCProbeTable == ProbeRegions(Mem1Size)

MCConfigurations ==
  { WiiDefaults,
    << Sized(0, 1), Sized(Half, 0), Sized(Cached, Mem1Size), Sized(7 * Segment, LockedSize), Sized(Uncached, 2) >>,
    << Sized(Cached + 1, Mem1Size - 1), Sized(Cached, 1), Sized(Half + 1, 2), Sized(Uncached + Half, Mem2Size) >>,
    << Sized(0, 1), Sized(Half, 1), Sized(Segment - 1, 1), Sized(7 * Segment, 1) >>,
    << Sized(0, 1), Sized(GuestSpace - 1, 2) >> }

MCMem1ArenaLo == Cached + 1
MCMem1ArenaHi == Cached + 2
MCMem2LoFloor == Cached + Half

\* Four addresses a page, four pages a segment.
MCClobbers ==
  [a \in GuestAddresses |->
     CASE a \in {4, 7} -> {"gprs", "fprs"}
       [] a = 5 -> {"gprs"}
       [] a = 6 -> {"fprs"}
       [] OTHER -> {}]

Function(a) == [address |-> a, linked |-> TRUE, preserves |-> MCClobbers[a]]
Product == {Function(a) : a \in {4, 5, 6, 7, 12, 18}}

MCPublished ==
  { NoTable, Generated(Product), Generated(Product \ {Function(4)}), Generated(Product \ {Function(12)}),
    Generated((Product \ {Function(12)}) \cup {[Function(12) EXCEPT !.linked = FALSE]}) }
===============================================================================
