---------------------------- MODULE StringManager ----------------------------
(***************************************************************************)
(* The bytes of the strings (storage/string_manager.cc): blocks of a fixed *)
(* size, mapped one by one, where a string is its length, in digits of     *)
(* LenBits bits, and its characters.  The id of a string is the place of   *)
(* its length.  The first cell of the first block is the metadata.         *)
(*                                                                         *)
(* Blocks are written one after the other: the cell at offset o of block b *)
(* is cell b * BlockSize + o of bytes.  A character is <<string, place>>,  *)
(* so that one that is lost, repeated or of another string shows.          *)
(***************************************************************************)
EXTENDS Integers, Sequences, FiniteSets, SequencesExt

CONSTANTS
  Str,            \* the strings
  Length,         \* Length[s] (short strings are kept in the id itself, never here)
  BlockSize,      \* STRING_BLOCK_SIZE
  MetadataSize,   \* METADATA_SIZE, in cells
  MinRemaining,   \* ExternalString::MIN_PAGE_REMAINING_BYTES
  LenBits         \* the bits of the length in one byte, 7

ASSUME StringAssumption ==
  /\ Length \in [Str -> Nat \ {0}]
  /\ BlockSize \in Nat /\ MetadataSize \in 1 .. BlockSize - 1
  /\ MinRemaining \in 1 .. BlockSize /\ LenBits \in Nat \ {0}
  /\ \A s \in Str : 2 * Length[s] <= BlockSize   \* no string needs two more blocks

VARIABLES
  bytes,             \* the cells of the blocks as the process maps them
  file,              \* the cells of strings.dat
  shared,            \* how many blocks are mapped MAP_SHARED, those of the file at the start
  last_block_offset

stringVars == <<bytes, file, shared, last_block_offset>>

-----------------------------------------------------------------------------
(* The encoding of a string.                                                *)

Anything    == [is |-> "anything"]
Metadata(n) == [is |-> "metadata", value |-> n]
Char(s, i)  == [is |-> "char", of |-> <<s, i>>]
Beyond      == [is |-> "beyond"]  \* what is in memory after a block

\* How many digits the length n takes.
Digits(n) == CHOOSE k \in 1 .. n : n < 2 ^ (LenBits * k) /\ \A j \in 1 .. k - 1 : n >= 2 ^ (LenBits * j)
Digit(n, i) == [is |-> "digit", value |-> (n \div 2 ^ (LenBits * (i - 1))) % 2 ^ LenBits, more |-> i < Digits(n)]

Chars   == [s \in Str |-> << >> \o [i \in 1 .. Length[s] |-> Char(s, i)]]
Encoded == [s \in Str |-> [i \in 1 .. Digits(Length[s]) |-> Digit(Length[s], i)] \o Chars[s]]

\* The cells of mem from place a on replaced.
Overwrite(mem, a, cells) == SubSeq(mem, 1, a) \o cells \o SubSeq(mem, a + Len(cells) + 1, Len(mem))

Cell(mem, a) == IF a + 1 \in DOMAIN mem THEN mem[a + 1] ELSE Beyond
MaxDigits == Max({Digits(Length[s]) : s \in Str})

\* get_string_len: the digits up to the first without the mark that more
\* follow; << >> when these bytes are not a length.
LenCells(mem, id) ==
  LET IsDigit(a, more) == Cell(mem, a).is = "digit" /\ Cell(mem, a).more = more
      ends == {k \in 1 .. MaxDigits : IsDigit(id + k - 1, FALSE) /\ \A j \in 0 .. k - 2 : IsDigit(id + j, TRUE)}
  IN  IF ends = {} THEN << >> ELSE SubSeq(mem, id + 1, id + CHOOSE k \in ends : TRUE)
get_string_len(mem, id) == FoldRight(LAMBDA digit, n : n * 2 ^ LenBits + digit.value, LenCells(mem, id), 0)

\* The characters that StringExternalIter hands out: at the end of a block it
\* reads one more before it turns to the next.
IterChars(mem, id) ==
  LET start == id + Len(LenCells(mem, id))
  IN  [p \in 1 .. get_string_len(mem, id) |->
         IF p > 1 /\ (start + p - 1) % BlockSize = 0 THEN Beyond ELSE Cell(mem, start + p - 1)]

\* str_eq.
StrEq(mem, s, id) == IterChars(mem, id) = Chars[s]

\* print: the characters up to the end of the block, then block by block.
\* When the length ends with its block, it goes on after that block.
PrintedChars(mem, id) ==
  LET start == id + Len(LenCells(mem, id))
  IN  [p \in 1 .. get_string_len(mem, id) |->
         IF start % BlockSize = 0 /\ p <= BlockSize THEN Beyond ELSE Cell(mem, start + p - 1)]

-----------------------------------------------------------------------------
(* The import: the strings one after the other, a string's length never at  *)
(* the very end of a block.                                                 *)

RestOfBlock(a) == BlockSize - (a % BlockSize)
Aligned(a)     == IF RestOfBlock(a) < MinRemaining THEN a + RestOfBlock(a) ELSE a

\* get_or_create_external_string_id: where the string after s goes.
PlacedAfter(a, s) == Aligned(a + Len(Encoded[s]))

\* The loop that passes the strings to the hash and counts again; mutant: it
\* does not step over what is left at the end of a block.
ScannedAfterAll(a, s) == a + Len(Encoded[s])
ScannedAfter(a, s) == Aligned(a + Len(Encoded[s]))

\* The places of the strings, and after them the end.
PlacesBy(After(_, _), q) ==
  FoldLeft(LAMBDA places, s : Append(places, After(Last(places), s)), <<MetadataSize>>, q)

\* strings.dat: the end of the strings, the strings, and a rest of any bytes.
ImportedFile(q) ==
  LET places == PlacesBy(PlacedAfter, q)
      end == Last(places)
      blank == << >> \o [i \in 1 .. end + RestOfBlock(end) |-> Anything]
  IN  FoldLeft(LAMBDA mem, i : Overwrite(mem, places[i], Encoded[q[i]]),
               Overwrite(blank, 0, <<Metadata(end)>>), [i \in DOMAIN q |-> i])

-----------------------------------------------------------------------------
(* The running database.                                                    *)

StringsInit(q) ==
  /\ file = ImportedFile(q)
  /\ bytes = << >>
  /\ shared = 0
  /\ last_block_offset = 0

\* StringManager::StringManager maps the blocks of the file.
OpenStrings ==
  /\ bytes' = file
  /\ shared' = Len(file) \div BlockSize
  /\ last_block_offset' = file[1].value
  /\ UNCHANGED file

\* ~StringManager.
CloseStrings ==
  /\ bytes' = << >> /\ shared' = 0 /\ last_block_offset' = 0
  /\ UNCHANGED file

\* What create_new takes for the number of digits of the length.
TrailingZeros(n) == CHOOSE k \in 0 .. n : n % 2 ^ k = 0 /\ n % 2 ^ (k + 1) # 0
BytesForLen(s) == IF TrailingZeros(Length[s]) = 0 THEN 1 ELSE (TrailingZeros(Length[s]) - 1) \div LenBits + 1

Blocks         == Len(bytes) \div BlockSize
NeedsBlock(s)  == last_block_offset + BytesForLen(s) >= BlockSize
\* append_new_block writes the first block at the end of the file.
WithBlock(mem) == mem \o SubSeq(bytes, 1, BlockSize)
Offset(s)      == IF NeedsBlock(s) THEN 0 ELSE last_block_offset
NewId(s)       == (IF NeedsBlock(s) THEN Blocks ELSE Blocks - 1) * BlockSize + Offset(s)
FitsBlock(s)   == Offset(s) + Len(Encoded[s]) <= BlockSize

\* The cells that create_new writes: when the characters reach the end of the
\* block, the copy into the next one starts again from the first of them.
Copied(s) ==
  LET d == Digits(Length[s])
      here == BlockSize - (Offset(s) + d)
  IN  IF Length[s] <= here THEN Encoded[s]
      ELSE SubSeq(Encoded[s], 1, d + here) \o SubSeq(Chars[s], 1, Length[s] - here)

\* The blocks that are mapped MAP_SHARED change in the file too.
Stored(mem, changed) == SubSeq(changed, 1, shared * BlockSize) \o SubSeq(mem, shared * BlockSize + 1, Len(mem))

create_new(s) ==
  LET end == Offset(s) + Len(Encoded[s])
      Crosses == end > BlockSize
      Grown(mem) == LET one == IF NeedsBlock(s) THEN WithBlock(mem) ELSE mem
                    IN  IF Crosses THEN WithBlock(one) ELSE one
      offset == IF Crosses THEN end - BlockSize ELSE end
      written == Overwrite(Overwrite(Grown(bytes), NewId(s), Copied(s)), 0, <<Metadata(offset)>>)
  IN  /\ bytes' = written
      /\ file' = Stored(Grown(file), written)
      /\ last_block_offset' = offset
      /\ UNCHANGED shared
=============================================================================
