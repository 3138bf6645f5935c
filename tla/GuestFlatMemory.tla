--------------------------- MODULE GuestFlatMemory ---------------------------
(***************************************************************************)
(* The guest's 4 GiB address space on Horizon (horizon_guest_flat.cpp): a  *)
(* table of requested regions becomes a few host allocations, its          *)
(* sections; the cached and uncached views of MEM1 and of MEM2 share one   *)
(* section each.  The guest window itself is only reserved, so every       *)
(* access goes through HostPointer.                                        *)
(*                                                                         *)
(* initialize runs to completion before anybody else runs; its loops are   *)
(* actions here because each turn may fail and undo everything.  Addresses *)
(* are scaled: one unit stands for half a page, and a segment of 512 MiB   *)
(* is 2 * Half units.                                                      *)
(***************************************************************************)
EXTENDS Integers, Sequences, FiniteSets

CONSTANTS
  Half,         \* 0x10000000: where MEM2 starts in its segment
  Page,         \* kGuestPageSize
  MaxRegions,   \* kMaxRegions
  MaxSections   \* kMaxSections

ASSUME SpaceAssumption == Half \in Nat \ {0} /\ Page \in Nat \ {0}
ASSUME TableAssumption == MaxRegions \in Nat /\ MaxSections \in Nat \ {0}

VARIABLES
  sections,     \* g_sections[0 .. g_section_count): their key, their size, the size of host_view or 0
  regions,      \* g_regions[0 .. g_region_count)
  guestBase,    \* g_guest_base is set
  reservation,  \* g_guest_reservation is set
  active,       \* g_active
  table,        \* the requests initialize works on
  next,         \* the index of its loop
  phase,        \* where it is, or what it returned to its caller
  allocated,    \* host allocations that have not been freed
  reserved      \* address space reservations that Horizon still holds

guestVars == <<sections, regions, guestBase, reservation, active, table, next, phase, allocated, reserved>>

Segment == 2 * Half
GuestSpace == 8 * Segment
Requests == [base : 0 .. GuestSpace - 1, size : Nat, backing : {"Owned", "Mem1", "Mem2"}]
Phases == {"idle", "regions", "views", "succeeded", "failed"}

NoHost == [section |-> 0, offset |-> 0]

RoundUpPage(n) == n + ((-n) % Page)

\* Faulty variant: the uncached view of MEM1 is taken for memory of its own.
UnfoldedOffset(r) ==
  CASE r.backing = "Owned" -> 0
    [] r.backing = "Mem1" -> IF r.base < 6 * Segment THEN r.base % Segment ELSE r.base % GuestSpace
    [] r.backing = "Mem2" -> (r.base % Segment) - Half

\* backing_offset; negative where the code returns false.
BackingOffset(r) ==
  CASE r.backing = "Owned" -> 0
    [] r.backing = "Mem1" -> r.base % Segment
    [] r.backing = "Mem2" -> (r.base % Segment) - Half

SectionKey(r) == [backing |-> r.backing, owner |-> IF r.backing = "Owned" THEN r.base ELSE 0]

Keyed(key) == {i \in DOMAIN sections : sections[i].key = key}

\* find_or_create_section: its index, one past the end for a new one.
SectionFor(key) == IF Keyed(key) = {} THEN Len(sections) + 1 ELSE CHOOSE i \in Keyed(key) : TRUE

Views == {i \in DOMAIN sections : sections[i].view # 0}

TypeOK ==
  /\ sections \in Seq([key : [backing : {"Owned", "Mem1", "Mem2"}, owner : Nat], size : Nat, view : Nat])
  /\ regions \in Seq([base : Nat, size : Nat, offset : Nat, section : DOMAIN sections])
  /\ Len(sections) <= MaxSections /\ Len(regions) <= MaxRegions
  /\ guestBase \in BOOLEAN /\ reservation \in BOOLEAN /\ active \in BOOLEAN
  /\ table \in Seq(Requests) /\ next \in Nat /\ phase \in Phases
  /\ allocated \in Nat /\ reserved \in Nat

Init ==
  /\ sections = <<>> /\ regions = <<>>
  /\ guestBase = FALSE /\ reservation = FALSE /\ active = FALSE
  /\ table = <<>> /\ next = 1 /\ phase = "idle"
  /\ allocated = 0 /\ reserved = 0

(***************************************************************************)
(* Shutdown and failure                                                    *)
(***************************************************************************)
\* Faulty variant: the address space stays reserved.
ReleaseViewsOnly ==
  /\ allocated' = allocated - Cardinality(Views)
  /\ sections' = <<>> /\ regions' = <<>>
  /\ guestBase' = FALSE /\ reservation' = FALSE /\ active' = FALSE
  /\ UNCHANGED reserved

\* shutdown_internal
Release ==
  /\ allocated' = allocated - Cardinality(Views)
  /\ reserved' = reserved - (IF reservation THEN 1 ELSE 0)
  /\ sections' = <<>> /\ regions' = <<>>
  /\ guestBase' = FALSE /\ reservation' = FALSE /\ active' = FALSE

FailInit == Release /\ phase' = "failed" /\ UNCHANGED <<table, next>>

Shutdown == phase = "idle" /\ Release /\ UNCHANGED <<table, next, phase>>

(***************************************************************************)
(* initialize                                                              *)
(***************************************************************************)
Initialize(t) ==
  /\ phase = "idle"
  /\ table' = t /\ next' = 1
  /\ phase' = IF active \/ guestBase \/ reservation \/ Len(t) > MaxRegions THEN "failed" ELSE "regions"
  /\ UNCHANGED <<sections, regions, guestBase, reservation, active, allocated, reserved>>

\* Faulty variant: only the first region of a section decides its size.
PlacedFirst(r) ==
  LET i == SectionFor(SectionKey(r))
  IN  IF i > Len(sections)
      THEN Append(sections, [key |-> SectionKey(r), size |-> RoundUpPage(BackingOffset(r) + r.size), view |-> 0])
      ELSE sections

Placed(r) ==
  LET i == SectionFor(SectionKey(r))
      needed == RoundUpPage(BackingOffset(r) + r.size)
  IN  IF i > Len(sections)
      THEN Append(sections, [key |-> SectionKey(r), size |-> needed, view |-> 0])
      ELSE [sections EXCEPT ![i].size = IF needed > @ THEN needed ELSE @]

PlaceRegion ==
  /\ phase = "regions" /\ next <= Len(table)
  /\ LET r == table[next]
         offset == BackingOffset(r)
         i == SectionFor(SectionKey(r))
     IN  IF r.size = 0
         THEN next' = next + 1 /\ UNCHANGED <<sections, regions, guestBase, reservation, active, table, phase, allocated, reserved>>
         ELSE IF \/ r.base + r.size > GuestSpace
                 \/ offset < 0 \/ offset + r.size > GuestSpace
                 \/ i > MaxSections
                 \/ RoundUpPage(offset + r.size) > GuestSpace
         THEN FailInit
         ELSE /\ sections' = Placed(r)
              /\ regions' = Append(regions, [base |-> r.base, size |-> r.size, offset |-> offset, section |-> i])
              /\ next' = next + 1
              /\ UNCHANGED <<guestBase, reservation, active, table, phase, allocated, reserved>>

\* virtmemFindAslr and virtmemAddReservation; either can refuse.
ReserveWindow ==
  /\ phase = "regions" /\ next > Len(table)
  /\ \/ FailInit
     \/ /\ guestBase' = TRUE /\ reservation' = TRUE /\ reserved' = reserved + 1
        /\ phase' = "views" /\ next' = 1
        /\ UNCHANGED <<sections, regions, active, table, allocated>>

AllocateView ==
  /\ phase = "views" /\ next <= Len(sections)
  /\ \/ FailInit
     \/ /\ sections' = [sections EXCEPT ![next].view = sections[next].size]
        /\ allocated' = allocated + 1 /\ next' = next + 1
        /\ UNCHANGED <<regions, guestBase, reservation, active, table, phase, reserved>>

Activate ==
  /\ phase = "views" /\ next > Len(sections)
  /\ active' = TRUE /\ phase' = "succeeded"
  /\ UNCHANGED <<sections, regions, guestBase, reservation, table, next, allocated, reserved>>

InitializeStep == PlaceRegion \/ ReserveWindow \/ AllocateView \/ Activate

(***************************************************************************)
(* Access                                                                  *)
(***************************************************************************)
Covers(a) == {i \in DOMAIN regions : regions[i].base <= a /\ a < regions[i].base + regions[i].size}

\* host_pointer: the first region that covers the address; NoHost is nullptr.
HostPointer(a) ==
  IF ~active \/ Covers(a) = {} THEN NoHost
  ELSE LET r == regions[CHOOSE i \in Covers(a) : \A j \in Covers(a) : i <= j]
       IN  IF sections[r.section].view = 0 THEN NoHost
           ELSE [section |-> r.section, offset |-> r.offset + (a - r.base)]

(***************************************************************************)
(* Properties                                                              *)
(***************************************************************************)
\* Every allocation and every reservation the host holds is one the globals
\* name, whatever failed on the way: a later initialize finds all of it free.
ResourcesAccounted ==
  /\ TypeOK
  /\ allocated = Cardinality(Views)
  /\ reserved = IF reservation THEN 1 ELSE 0
  /\ phase \in {"idle", "failed"} /\ ~active => sections = <<>> /\ regions = <<>> /\ ~guestBase /\ ~reservation

\* The guest memory an address means: the cached and uncached views of MEM1
\* and MEM2 are the same memory, anything else is itself.
Memory(a) ==
  LET r == regions[CHOOSE i \in Covers(a) : \A j \in Covers(a) : i <= j]
      backing == sections[r.section].key.backing
  IN  [backing |-> backing, byte |-> IF backing = "Owned" THEN a ELSE a % Segment]

Mapped == {a \in 0 .. GuestSpace - 1 : Covers(a) # {}}

\* Two guest addresses reach the same host byte exactly if they mean the same
\* guest memory: aliases are coherent, and nothing else is shared.
AliasesCoherent ==
  active => \A a, b \in Mapped : HostPointer(a) = HostPointer(b) <=> Memory(a) = Memory(b)
=============================================================================
