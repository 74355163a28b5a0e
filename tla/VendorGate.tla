------------------------------ MODULE VendorGate ------------------------------
(***************************************************************************)
(* Whether a file of the Ulanzi firmware is a library this program may     *)
(* call: by its digest (Digest's subject) or, for the vendor application,  *)
(* by the functions its ELF symbol table defines (tc002/VendorLibrary.cpp, *)
(* tc002/ElfSymbols.cpp).                                                  *)
(*                                                                         *)
(* A file is a record of what the reader looks at.  Offsets and sizes in   *)
(* it are whatever the file says, below Width.                             *)
(***************************************************************************)
EXTENDS Integers, Sequences, FiniteSetsExt

CONSTANTS
  Width,        \* of an offset: 2^64
  MaxSize,      \* kMaxFile: 2^26
  SectionSize,  \* sizeof(Shdr)
  SymbolSize    \* sizeof(Sym)

VendorAssumption ==
  /\ {Width, MaxSize, SectionSize, SymbolSize} \subseteq Nat \ {0}
  /\ MaxSize < Width

-----------------------------------------------------------------------------
(* Where the tables are                                                    *)

\* Variant: the sum is compared, which may wrap.
InsideBySum(offset, length, size) == (offset + length) % Width <= size

Inside(offset, length, size) == offset <= size /\ length <= size - offset

\* The section of dynamic symbols that is read is the first.
DynSym(f) ==
  LET those == {i \in DOMAIN f.sections : f.sections[i].type = "dynsym"}
  IN  IF those = {} THEN 0 ELSE Min(those)

Names(f) == f.sections[f.sections[DynSym(f)].link + 1]

TableSize(f) == Len(f.sections) * SectionSize

\* scan, up to where it has the symbols and their names.
TablesAreThere(f) ==
  LET symbols == f.sections[DynSym(f)]
  IN  /\ f.elf /\ f.size <= MaxSize
      /\ f.sections # <<>> /\ Inside(f.shoff, TableSize(f), f.size)
      /\ DynSym(f) # 0
      /\ symbols.size % SymbolSize = 0 /\ Inside(symbols.offset, symbols.size, f.size)
      /\ symbols.link < Len(f.sections)
      /\ Names(f).type = "strtab" /\ Inside(Names(f).offset, Names(f).size, f.size)

\* The parts of the file scan then reads, as offset and length.
Reads(f) ==
  LET symbols == f.sections[DynSym(f)]
  IN  {<<f.shoff, TableSize(f)>>, <<symbols.offset, symbols.size>>,
       <<Names(f).offset, Names(f).size>>}

-----------------------------------------------------------------------------
(* What the symbols say                                                    *)

\* A name is the text from an offset of the string table to the next NUL.
Ends(strings, at) == {j \in at + 1..Len(strings) : strings[j] = "NUL"}
NameAt(strings, at) == SubSeq(strings, at + 1, Min(Ends(strings, at)) - 1)

\* A name outside the string table makes the whole table untrustworthy.  The
\* first entry is the null symbol.
Entries(table) == 2..Len(table)
NamesAreThere(table, strings) ==
  \A i \in Entries(table) : Ends(strings, table[i].name) # {}

\* Variant: a symbol that is only referred to counts.
CountsUndefined(symbol) == symbol.bind \in {"global", "weak"} /\ symbol.type = "func"

Counts(symbol) ==
  symbol.bind \in {"global", "weak"} /\ symbol.type = "func" /\ symbol.defined

Found(table, strings) ==
  {NameAt(strings, table[i].name) : i \in {j \in Entries(table) : Counts(table[j])}}

\* elfMissingFunctions, and what checkVendorFile makes of its failing.
Readable(f) == TablesAreThere(f) /\ NamesAreThere(f.table, f.strings)
Missing(f, required) ==
  IF Readable(f) THEN required \ Found(f.table, f.strings) ELSE required

-----------------------------------------------------------------------------
(* The verdict                                                             *)

\* Variant: a library that lists no functions lacks none.
StatusByMissing(digest, recorded, required, missing) ==
  CASE digest # "" /\ digest \in recorded -> "verified"
    [] ~(digest # "" /\ digest \in recorded) /\ missing = {} -> "compatible"
    [] OTHER -> "unknown"

\* A file that cannot be read has the digest "".
Status(digest, recorded, required, missing) ==
  CASE digest # "" /\ digest \in recorded -> "verified"
    [] ~(digest # "" /\ digest \in recorded) /\ required # {} /\ missing = {} -> "compatible"
    [] OTHER -> "unknown"

CheckVendorFile(f, recorded, required) ==
  Status(f.digest, recorded, required, Missing(f, required))

\* openTrustedVendorLibrary keeps a library of this status only.
Kept(status) == status = "verified"

-----------------------------------------------------------------------------
(* What it promises                                                        *)

\* However a file lies about its tables, nothing is read outside it, and a file
\* whose tables are all in it is not turned away.
WithinFile(f) == \A r \in Reads(f) : r[1] + r[2] <= f.size
TablesAreInside(f) ==
  f.elf /\ f.size <= MaxSize /\ f.sections # <<>> /\ DynSym(f) # 0
    /\ f.sections[DynSym(f)].link < Len(f.sections)
    /\ f.sections[DynSym(f)].size % SymbolSize = 0 /\ Names(f).type = "strtab"
  => (TablesAreThere(f) <=> WithinFile(f))

\* ElfSymbols.h:10, "the names it does not define as GLOBAL or WEAK functions":
\* a file is compatible only when some entry behind the null symbol defines each
\* required function.  No file of a library that requires none is, and one that
\* defines them all is never unknown.
Defines(f, function) ==
  \E i \in 2..Len(f.table), at \in 0..Len(f.strings) :
    LET symbol == f.table[i]
        text == function \o <<"NUL">>
    IN  /\ symbol.name = at /\ at + Len(text) <= Len(f.strings)
        /\ SubSeq(f.strings, at + 1, at + Len(text)) = text
        /\ symbol.bind # "local" /\ symbol.type = "func" /\ symbol.defined
VerdictIsRight(f, recorded, required) ==
  LET status == CheckVendorFile(f, recorded, required)
  IN  /\ (status = "verified") <=> (f.digest \in recorded \ {""})
      /\ status = "compatible" =>
           /\ required # {} /\ TablesAreThere(f)
           /\ \A function \in required : Defines(f, function)
      /\ status = "unknown" /\ required # {} /\ Readable(f) =>
           \E function \in required : ~Defines(f, function)
=============================================================================
