------------------------------ MODULE VarText ------------------------------
(***************************************************************************)
(* src/text_type_demo/varlena.cpp: texts with a header of one byte when     *)
(* they are short and of four when they are long, their concatenation and   *)
(* their substrings.  Headers are numbers of limited width, little-endian:  *)
(* the lowest bit of the first byte tells the formats apart.                *)
(***************************************************************************)
EXTENDS Integers, Sequences

CONSTANTS
  VARHDRSZ,           \* 4 in the code
  VARHDRSZ_SHORT,     \* 1
  VARATT_SHORT_MAX,   \* 0x7F; twice its successor is what a byte holds
  Word,               \* 2^32, what four bytes hold
  Strings,            \* bound: the strings that texts are made from
  MaxText             \* bound: bytes of a text

\* The bytes that occur in the strings.
Characters == UNION {{str[i] : i \in DOMAIN str} : str \in Strings}

ASSUME TextAssumption ==
  /\ VARHDRSZ \in Nat /\ VARHDRSZ_SHORT \in Nat
  /\ VARHDRSZ_SHORT <= VARHDRSZ /\ VARHDRSZ <= VARATT_SHORT_MAX
  /\ VARATT_SHORT_MAX \in Nat
  /\ Word \in Nat \ {0} /\ Word % 4 = 0
  /\ 4 * (VARATT_SHORT_MAX + VARHDRSZ) < Word
  /\ MaxText \in Nat
  /\ Strings \subseteq Seq(Characters)

VARIABLES
  text,     \* the header and the bytes after it
  content   \* history: the bytes the text should have

textVars == <<text, content>>

-----------------------------------------------------------------------------

\* Mutant: the header is left out of the decision on the format.
VarlenaLimitLate(str) ==
  LET use_short == Len(str) <= VARATT_SHORT_MAX
      total_size == Len(str) + (IF use_short THEN VARHDRSZ_SHORT ELSE VARHDRSZ)
  IN  [header |-> IF use_short THEN (2 * total_size + 1) % (2 * VARATT_SHORT_MAX + 2)
                  ELSE (4 * total_size) % Word,
       bytes  |-> str]

\* What cstring_to_varlena and text_concat make of a string.
Varlena(str) ==
  LET use_short == Len(str) + VARHDRSZ_SHORT <= VARATT_SHORT_MAX
      total_size == Len(str) + (IF use_short THEN VARHDRSZ_SHORT ELSE VARHDRSZ)
  IN  [header |-> IF use_short THEN (2 * total_size + 1) % (2 * VARATT_SHORT_MAX + 2)
                  ELSE (4 * total_size) % Word,
       bytes  |-> str]

IsShort(t) == t.header % 2 = 1

Size(t) == IF IsShort(t) THEN t.header \div 2 ELSE t.header \div 4

\* length; below 0 it wraps to a size no object has.
TextLength(t) == Size(t) - (IF IsShort(t) THEN VARHDRSZ_SHORT ELSE VARHDRSZ)

\* The length of a text can be read: it is that of the bytes there are.  The
\* code would go on with a wrong length, which the model does not follow.
Intact(t) == TextLength(t) = Len(t.bytes)

\* to_string, text_to_cstring: length bytes from data on.
TextToCString(t) == SubSeq(t.bytes, 1, TextLength(t))

\* text_substring, positions counted from 1; a length below 0 is no limit.
TextSubstring(t, start, length) ==
  LET text_len == TextLength(t)
      from == (IF start <= 0 THEN 1 ELSE start) - 1
      rest == text_len - from
      len  == IF length < 0 \/ length > rest THEN rest ELSE length
  IN  IF from >= text_len THEN Varlena(<<>>)
      ELSE Varlena(SubSeq(t.bytes, from + 1, from + len))

TextInit == text = Varlena(<<>>) /\ content = <<>>

Create(str) == text' = Varlena(str) /\ content' = str

\* text_concat with a text made from str, in both orders.
Concat(str) ==
  /\ Intact(text) /\ Intact(Varlena(str)) /\ Len(content) + Len(str) <= MaxText
  /\ \/ /\ text' = Varlena(TextToCString(text) \o TextToCString(Varlena(str)))
        /\ content' = content \o str
     \/ /\ text' = Varlena(TextToCString(Varlena(str)) \o TextToCString(text))
        /\ content' = str \o content

\* The bytes at the positions from start on that the string has, as many as
\* asked for.
Part(str, start, length) ==
  LET first == IF start < 1 THEN 1 ELSE start
      last  == IF length < 0 THEN Len(str) ELSE first + length - 1
  IN  SubSeq(str, first, IF last < Len(str) THEN last ELSE Len(str))

Substring(start, length) ==
  /\ Intact(text)
  /\ text' = TextSubstring(text, start, length)
  /\ content' = Part(content, start, length)

TextNext ==
  \/ \E str \in Strings : Create(str) \/ Concat(str)
  \/ \E start \in -1 .. MaxText + 1, length \in -1 .. MaxText : Substring(start, length)

TextSpec == TextInit /\ [][TextNext]_textVars

-----------------------------------------------------------------------------
(* Properties.                                                              *)

\* Through any sequence of concatenations and substrings, and across the
\* border between the formats in both directions, a text keeps the bytes it
\* should have: the format is the one its length calls for and the length read
\* back is right.  Only a text whose size takes more than the 30 bits of the
\* long header loses its length.
TextKept ==
  IF Len(content) + VARHDRSZ < Word \div 4
  THEN /\ Intact(text) /\ TextToCString(text) = content
       /\ IsShort(text) <=> Size(text) <= VARATT_SHORT_MAX
  ELSE ~Intact(text)
=============================================================================
