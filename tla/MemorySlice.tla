----------------------------- MODULE MemorySlice -----------------------------
(***************************************************************************)
(* Memory::* on top of GuestFlat (memory_switch_slice.cpp): Memory::Init   *)
(* classifies the configured regions, has GuestFlat lay them out, and      *)
(* keeps the host pointer of every region's first byte; an access is       *)
(* served from that pointer if it fits the region.                         *)
(***************************************************************************)
EXTENDS GuestFlatMemory

CONSTANTS
  Mem1Size, Mem2Size, LockedSize,  \* kMem1Size, kMem2Size, kLockedCacheSize
  MaxAccess                        \* bound: units one access touches

ASSUME SliceAssumption ==
  /\ Mem1Size \in 1 .. Half /\ Mem2Size \in 1 .. Half /\ LockedSize \in 1 .. Segment
  /\ MaxAccess \in Nat

VARIABLES
  memoryReady,  \* initialized()
  bound         \* regions(): every configured region and its storage

memoryVars == <<memoryReady, bound>>

\* A region of a Memory::Config.
Configured == [base : 0 .. GuestSpace - 1, size : Nat]

Cached == 4 * Segment
Uncached == 6 * Segment

WiiDefaults == <<[base |-> 0, size |-> Mem1Size],
                 [base |-> Cached, size |-> Mem1Size],
                 [base |-> Uncached, size |-> Mem1Size],
                 [base |-> Half, size |-> Mem2Size],
                 [base |-> Cached + Half, size |-> Mem2Size],
                 [base |-> Uncached + Half, size |-> Mem2Size],
                 [base |-> 7 * Segment, size |-> LockedSize]>>

\* classify_backing
Classified(base) ==
  IF \E view \in {0, Cached, Uncached} : view <= base /\ base < view + Mem1Size THEN "Mem1"
  ELSE IF \E view \in {0, Cached, Uncached} : view + Half <= base /\ base < view + Half + Mem2Size THEN "Mem2"
  ELSE "Owned"

Request(r) == [base |-> r.base, size |-> r.size, backing |-> Classified(r.base)]
RequestsFor(config) == [i \in DOMAIN config |-> Request(config[i])]

SliceInit == memoryReady = FALSE /\ bound = <<>>

Reset ==
  /\ memoryReady' = FALSE /\ bound' = <<>>
  /\ IF active THEN Release ELSE UNCHANGED <<sections, regions, guestBase, reservation, active, allocated, reserved>>

\* The loop of Memory::Init after GuestFlat::Initialize; a region of the
\* configuration without a host view aborts.
Storage(r) == IF r.size = 0 THEN NoHost ELSE HostPointer(r.base)
AllHaveViews(config) == \A i \in DOMAIN config : config[i].size = 0 \/ Storage(config[i]) # NoHost

BindRegions(config) ==
  /\ bound' = [i \in DOMAIN config |-> [base |-> config[i].base, size |-> config[i].size, storage |-> Storage(config[i])]]
  /\ memoryReady' = TRUE

Fits(a, n) ==
  {i \in DOMAIN bound : bound[i].base <= a /\ a + n <= bound[i].base + bound[i].size}

\* Memory::GetPointer(address, length)
GetPointer(a, n) ==
  IF ~memoryReady \/ n = 0 \/ a + n > GuestSpace \/ Fits(a, n) = {} THEN NoHost
  ELSE LET r == bound[CHOOSE i \in Fits(a, n) : \A j \in Fits(a, n) : i <= j]
       IN  [r.storage EXCEPT !.offset = @ + (a - r.base)]

(***************************************************************************)
(* Properties                                                              *)
(***************************************************************************)

\* Every access Memory::* lets through stays inside live host memory, and each
\* of its bytes is the one GuestFlat gives for that guest address, though the
\* two keep tables of their own and look addresses up differently.
AccessesAgree ==
  \A a \in 0 .. GuestSpace - 1, n \in 1 .. MaxAccess :
    LET p == GetPointer(a, n)
    IN  p # NoHost =>
          /\ p.section \in Views /\ p.offset + n <= sections[p.section].view
          /\ \A k \in 0 .. n - 1 : HostPointer(a + k) = [p EXCEPT !.offset = @ + k]
=============================================================================
