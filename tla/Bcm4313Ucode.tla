---------------------------- MODULE Bcm4313Ucode ----------------------------
(***************************************************************************)
(* The upload of the D11 microcode: the sections of the image, the checks  *)
(* of their bounds, and the lists of initial values.                       *)
(***************************************************************************)
EXTENDS Integers, FiniteSetsExt, SequencesExt

\* bcm4313_ucode_hdr[] and the size of bcm4313_ucode_bin[].
Section(offset, len, idx) == [offset |-> offset, len |-> len, idx |-> idx]
Header ==
  <<Section(0, 4, 14), Section(4, 4, 15), Section(\h20, \h9bb8, 10), Section(\h9bd8, 4, 11),
    Section(\h9be0, \hf30, 9), Section(\hab20, \h120, 8), Section(\hac40, \h120, 7),
    Section(\had60, \h9d60, 12), Section(\h14ac0, 4, 13), Section(\h14ae0, \hdd8, 2),
    Section(\h158c0, \h120, 1), Section(\h159e0, \hdd8, 4), Section(\h167c0, \h120, 3),
    Section(\h168e0, \hdd8, 6), Section(\h176c0, \h120, 5)>>
BinSize == 96224

LcnUcode == 12
LcnSize == 13
InitLists == <<1, 2>>

\* find_section(): the first section with the index, or none.
FindSection(header, want) ==
  LET found == {i \in DOMAIN header : header[i].idx = want}
  IN IF found = {} THEN {} ELSE {header[Min(found)]}

-----------------------------------------------------------------------------
(* Lists of initial values: entries with an address, 2 or 4 bytes of size  *)
(* and a value.                                                            *)

EntrySize == 8
End == [addr |-> \hffff, size |-> 0]

\* Deviation: the bound is compared as if it counted entries.
StopsByEntries(list, nbytes) ==
  Min({i \in 0 .. Len(list) :
         i + EntrySize > nbytes \div EntrySize \/ (i < Len(list) /\ list[i + 1] = End)})

\* dump_inits() ends before entry i: "i + 8 <= nbytes", where i counts entries,
\* or at the end mark.
StopsAt(list, nbytes) ==
  Min({i \in 0 .. nbytes :
         i + EntrySize > nbytes \/ (i < Len(list) /\ list[i + 1] = End)})

\* The entries that dump_inits() writes to the core.
DumpInits(list, nbytes) ==
  SelectSeq(SubSeq(list, 1, StopsAt(list, nbytes)), LAMBDA e : e.size \in {2, 4})

-----------------------------------------------------------------------------
(* ucode_download().                                                       *)

Inside(s) == s.offset <= BinSize /\ s.len <= BinSize - s.offset

\* The words that are uploaded, from a section, when the image says that the
\* microcode has "size" bytes; none on an error.
Download(header, size) ==
  {[from |-> s.offset, words |-> size \div 4] :
     s \in {s \in FindSection(header, LcnUcode) :
              /\ Inside(s)
              /\ \E z \in FindSection(header, LcnSize) : z.len = 4 /\ z.offset + 4 <= BinSize
              /\ size # 0 /\ size <= s.len /\ size % 4 = 0}}

\* The lists that are applied then; one that is missing or outside is skipped.
Lists(header) ==
  {s \in UNION {FindSection(header, InitLists[i]) : i \in DOMAIN InitLists} :
     s.offset + s.len <= BinSize}

-----------------------------------------------------------------------------
(* Properties.                                                             *)

\* Although the bound of dump_inits() compares entries with bytes, a list that
\* holds an end mark is applied up to it, entry by entry, and nothing after it
\* is read.
AppliesUpToEnd(list) ==
  LET end == Min({i \in DOMAIN list : list[i] = End})
  IN End \in {list[i] : i \in DOMAIN list} =>
       /\ StopsAt(list, EntrySize * Len(list)) = end - 1
       /\ DumpInits(list, EntrySize * Len(list)) =
            SelectSeq(SubSeq(list, 1, end - 1), LAMBDA e : e.size \in {2, 4})

\* Whatever size the image gives, what is uploaded are whole words of the LCN
\* section; and with the driver's own header both lists are applied.
UploadsInside(size) ==
  /\ \A d \in Download(Header, size) :
       \E s \in FindSection(Header, LcnUcode) :
          d.from = s.offset /\ 4 * d.words = size /\ d.from + 4 * d.words <= BinSize
  /\ Cardinality(Lists(Header)) = 2

=============================================================================
