--------------------------- MODULE IndirectDispatch ---------------------------
(***************************************************************************)
(* The generated table of translated functions and the search through it   *)
(* (switch_indirect_dispatch.cpp).  An address splits into a segment, a    *)
(* page of the segment and an offset; the table has for every segment the  *)
(* pages from firstPage on, and for every page where its entries are.      *)
(* Entries are numbered from 0, as in the code.                            *)
(***************************************************************************)
EXTENDS Naturals, Sequences, FiniteSets, SequencesExt

CONSTANTS
  PageWidth,     \* addresses of a page, 0x1000
  PagesPerPart,  \* pages of a segment, 0x1000
  Parts,         \* segments, 256
  Guardable      \* nonvolatile registers a record can name

ASSUME SplitAssumption == {PageWidth, PagesPerPart, Parts} \subseteq Nat \ {0}

GuestAddresses == 0 .. PageWidth * PagesPerPart * Parts - 1
PartOf(a) == a \div (PageWidth * PagesPerPart)
PageOf(a) == (a \div PageWidth) % PagesPerPart

\* RawDispatchRecord; preserves is what the two masks of the record name.
DispatchRecords == [address : GuestAddresses, linked : BOOLEAN, preserves : SUBSET Guardable]

\* StaticIndirectDispatchTable; a segment without pages has a null pointer.
Pages == [first : Nat, count : Nat]
Tables == [parts : [0 .. Parts - 1 -> [firstPage : Nat, pages : Seq(Pages)]], entries : Seq(DispatchRecords)]

\* Nothing is published: a null table, or one with null pointers and no entries.
NoTable == [parts |-> [p \in 0 .. Parts - 1 |-> [firstPage |-> 0, pages |-> <<>>]], entries |-> <<>>]

Missing == [address |-> 0, linked |-> FALSE, preserves |-> {}]

\* Faulty variant: the page's last entry is never looked at.
LowerBoundShort(entries, first, count, a) ==
  LET search[range \in (0 .. Len(entries)) \X (0 .. Len(entries))] ==
        LET lower == range[1]
            upper == range[2]
            middle == lower + (upper - lower) \div 2
        IN  IF lower >= upper THEN lower
            ELSE IF entries[middle + 1].address < a
                 THEN search[<<middle + 1, upper>>]
                 ELSE search[<<lower, middle>>]
  IN  search[<<first, IF count = 0 THEN first ELSE first + count - 2>>]

\* The first entry of the page at or above a.
LowerBound(entries, first, count, a) ==
  LET search[range \in (0 .. Len(entries)) \X (0 .. Len(entries))] ==
        LET lower == range[1]
            upper == range[2]
            middle == lower + (upper - lower) \div 2
        IN  IF lower >= upper THEN lower
            ELSE IF entries[middle + 1].address < a
                 THEN search[<<middle + 1, upper>>]
                 ELSE search[<<lower, middle>>]
  IN  search[<<first, first + count>>]

\* FindStaticIndirectDispatchEntry; Missing is nullptr.
FindEntry(dispatch, a) ==
  LET part == dispatch.parts[PartOf(a)]
      relativePage == PageOf(a) - part.firstPage
  IN  IF \/ dispatch.entries = <<>>
         \/ PageOf(a) < part.firstPage
         \/ relativePage >= Len(part.pages)
      THEN Missing
      ELSE LET page == part.pages[relativePage + 1]
               entryCount == Len(dispatch.entries)
           IN  IF page.first > entryCount \/ page.count > entryCount - page.first
               THEN Missing
               ELSE LET lower == LowerBound(dispatch.entries, page.first, page.count, a)
                    IN  IF lower < page.first + page.count /\ dispatch.entries[lower + 1].address = a
                        THEN dispatch.entries[lower + 1]
                        ELSE Missing

(***************************************************************************)
(* External: the emitter.  Its tables list the entries by address, and the *)
(* page of a listed address is there and has the entry in its range.       *)
(***************************************************************************)
Indexed(dispatch) ==
  LET entries == dispatch.entries
  IN  /\ \A i, j \in 1 .. Len(entries) : i < j => entries[i].address < entries[j].address
      /\ \A i \in 1 .. Len(entries) :
           LET a == entries[i].address
               part == dispatch.parts[PartOf(a)]
               n == PageOf(a) - part.firstPage
           IN  /\ n \in 0 .. Len(part.pages) - 1
               /\ part.pages[n + 1].first < i
               /\ i <= part.pages[n + 1].first + part.pages[n + 1].count
               /\ part.pages[n + 1].first + part.pages[n + 1].count <= Len(entries)

\* What it writes for a set of records with different addresses.
Generated(records) ==
  LET sorted == SetToSortSeq(records, LAMBDA r, s : r.address < s.address)
      Below(a) == Cardinality({r \in records : r.address < a})
      InPart(p) == {PageOf(r.address) : r \in {s \in records : PartOf(s.address) = p}}
      FirstOf(p) == IF InPart(p) = {} THEN 0 ELSE CHOOSE n \in InPart(p) : \A m \in InPart(p) : n <= m
      LastOf(p) == IF InPart(p) = {} THEN -1 ELSE CHOOSE n \in InPart(p) : \A m \in InPart(p) : n >= m
      Start(p, n) == (p * PagesPerPart + n) * PageWidth
  IN  [parts |-> [p \in 0 .. Parts - 1 |->
                    [firstPage |-> FirstOf(p),
                     pages |-> [i \in 1 .. LastOf(p) - FirstOf(p) + 1 |->
                                  LET start == Start(p, FirstOf(p) + i - 1)
                                  IN  [first |-> Below(start), count |-> Below(start + PageWidth) - Below(start)]]]],
       entries |-> sorted]

=============================================================================
