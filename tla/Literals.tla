------------------------------ MODULE Literals ------------------------------
(***************************************************************************)
(* String and character literals: what the actions of the scanner do with  *)
(* the pieces it matches between the quotes (stringutils.c,                *)
(* unicodeutils.c), and how a string is printed into the assembly.  A byte *)
(* is a number; a byte of a buffer that nobody has written is Junk.        *)
(***************************************************************************)
EXTENDS Integers, SequencesExt, TLC

CONSTANT
  Inputs
  \* literals: [type |-> "string" or "charlit", width |-> the prefix,
  \*            pieces |-> what the scanner matches, in order]; a piece is
  \*   [k |-> "text", chars |-> the characters, each the sequence of its UTF-8 bytes]
  \*   [k |-> "escape", c |-> the letter]
  \*   [k |-> "octal", digits |-> one to three], [k |-> "hexadecimal", digits |-> ...]
  \* and has a field means: the bytes that C says a string gets from it

VARIABLES
  lit, at,       \* the literal, and the piece that comes next
  strbuf,        \* the buffer of a string, as long as what was allocated
  cur_len,       \* bytes in it; of a character, whether there is one
  char_val,      \* the bytes of a character
  warned,        \* whether a character or escape did not fit its width
  overrun,       \* whether a write went past the end of its buffer
  printed,       \* what print_string has written, and buf_len, the size of its buffer
  phase          \* "begin", "body", "printing", "done"
litvars == <<lit, at, strbuf, cur_len, char_val, warned, overrun, printed, phase>>

Junk == 256
char_widths == [none |-> 1, L |-> 4, u |-> 2, U |-> 4, u8 |-> 1]
Width == char_widths[lit.width]
initial_size == 16

(* The low bytes of an unsigned long, the lowest first.  No escape has     *)
(* more than six hexadecimal digits.                                       *)
LowBytes(n, k) == [i \in 1..k |-> IF i <= 3 THEN (n \div 256^(i - 1)) % 256 ELSE 0]
Unwritten(k) == [i \in 1..k |-> Junk]

(* Bytes written from index i on, counted from 0, as far as there is room *)
Put(buf, i, bytes) ==
  [j \in DOMAIN buf |-> IF j - i \in DOMAIN bytes THEN bytes[j - i] ELSE buf[j]]
Past(buf, i, bytes) == i + Len(bytes) > Len(buf)
(* realloc: the old contents, cut or with unwritten bytes after them *)
Resized(buf, n) == [j \in 1..n |-> IF j \in DOMAIN buf THEN buf[j] ELSE Junk]

LiteralInit ==
  /\ lit \in Inputs /\ at = 1 /\ phase = "begin"
  /\ strbuf = <<>> /\ cur_len = 0 /\ char_val = <<>>
  /\ warned = FALSE /\ overrun = FALSE
  /\ printed = [text |-> <<>>, buf_len |-> initial_size]

begin_literal ==
  /\ phase = "begin" /\ phase' = "body"
  /\ strbuf' = IF lit.type = "string" THEN Unwritten(initial_size) ELSE <<>>
  /\ UNCHANGED <<lit, at, cur_len, char_val, warned, overrun, printed>>

-----------------------------------------------------------------------------
(* Pieces *)

Piece == lit.pieces[at]
Matches(k) == phase = "body" /\ at <= Len(lit.pieces) /\ Piece.k = k

(* Doubled until n more bytes and a terminating null fit *)
GrownWithoutNull(n) ==
  LET k == CHOOSE k \in 0..20 :
             /\ Len(strbuf) * 2^k - cur_len >= n
             /\ \A j \in 0..(k - 1) : Len(strbuf) * 2^j - cur_len < n
  IN  Resized(strbuf, Len(strbuf) * 2^k)
Grown(n) ==
  LET k == CHOOSE k \in 0..20 :
             /\ Len(strbuf) * 2^k - cur_len - 1 >= n
             /\ \A j \in 0..(k - 1) : Len(strbuf) * 2^j - cur_len - 1 < n
  IN  Resized(strbuf, Len(strbuf) * 2^k)

(* memcpy to the end of the string *)
CopiedToStart(buf, bytes) == Put(buf, 0, bytes)
Copied(buf, bytes) == Put(buf, cur_len, bytes)

(* A character takes as many bytes as it is wide, and replaces the one     *)
(* before it.                                                              *)
FirstKept(append_buf) == IF cur_len = 0 THEN SubSeq(append_buf, 1, Width) ELSE char_val
CharValue(append_buf) == SubSeq(append_buf, 1, Width)

append_buffer(append_buf, n) ==
  /\ cur_len' = cur_len + n
  /\ IF lit.type = "string"
     THEN LET bytes == SubSeq(append_buf, 1, n)
          IN  /\ strbuf' = Copied(Grown(n), bytes)
              /\ overrun' = (overrun \/ Past(Grown(n), cur_len, bytes))
              /\ UNCHANGED char_val
     ELSE char_val' = CharValue(append_buf) /\ UNCHANGED <<strbuf, overrun>>

Consumed == at' = at + 1 /\ UNCHANGED <<lit, printed, phase>>

(* Each character takes char_width bytes: its UTF-8 bytes, cut or filled.  *)
(* The buffer is doubled before every character, full or not; a text of    *)
(* forty characters would take 16 terabytes.                               *)
Utowc(chars, w) ==
  FlattenSeq([i \in DOMAIN chars |->
                [j \in 1..w |-> IF j \in DOMAIN chars[i] THEN chars[i][j] ELSE 0]])
TooWide(chars, w) == \E i \in DOMAIN chars : Len(chars[i]) > w

append_text ==
  /\ Matches("text")
  /\ LET pasted == lit.type = "string" /\ lit.width = "u8"
         buf == IF pasted THEN FlattenSeq(Piece.chars) ELSE Utowc(Piece.chars, Width)
     IN  /\ append_buffer(buf, Len(buf))
         /\ warned' = (warned \/ (~pasted /\ TooWide(Piece.chars, Width)))
  /\ Consumed

Escapes ==
  [a |-> 7, b |-> 8, f |-> 12, n |-> 10, r |-> 13, t |-> 9, v |-> 11, backslash |-> 92,
   apostrophe |-> 39, quote |-> 34, question |-> 63]

parse_append_escape ==
  /\ Matches("escape")
  /\ append_buffer(LowBytes(Escapes[Piece.c], 8), 1)
  /\ Consumed /\ UNCHANGED warned

(* The number that digits in a base stand for *)
Radix(digits, base) ==
  LET value[i \in 0..Len(digits)] == IF i = 0 THEN 0 ELSE value[i - 1] * base + digits[i]
  IN  value[Len(digits)]

parse_append_octal ==
  /\ Matches("octal")
  /\ append_buffer(LowBytes(Radix(Piece.digits, 8), 8), Width)
  /\ warned' = (warned \/ (Width = 1 /\ Len(Piece.digits) = 3 /\ Piece.digits[1] > 3))
  /\ Consumed

parse_append_hexadecimal ==
  /\ Matches("hexadecimal")
  /\ append_buffer(LowBytes(Radix(Piece.digits, 16), 8), 1)
  /\ warned' = (warned \/ Len(Piece.digits) > 2 * Width)
  /\ Consumed

AtQuote(type) == phase = "body" /\ at > Len(lit.pieces) /\ lit.type = type

(* A null byte, a null character at the index that counts bytes, and the   *)
(* buffer cut to size                                                      *)
end_string ==
  /\ AtQuote("string") /\ phase' = "printing"
  /\ LET null == LowBytes(0, Width)
         buf  == Put(Put(strbuf, cur_len, <<0>>), Width * cur_len, null)
     IN  /\ strbuf' = Resized(buf, (cur_len + 1) * Width)
         /\ overrun' = (overrun \/ Past(strbuf, Width * cur_len, null))
  /\ UNCHANGED <<lit, at, cur_len, char_val, warned, printed>>

(* An empty constant has value 0. *)
end_charlit ==
  /\ AtQuote("charlit") /\ phase' = "done"
  /\ char_val' = IF cur_len = 0 THEN LowBytes(0, Width) ELSE char_val
  /\ UNCHANGED <<lit, at, strbuf, cur_len, warned, overrun, printed>>

-----------------------------------------------------------------------------
(* print_string *)

Zero == 48   Backslash == 92
isprint(c) == c \in 32..126
Special == (0 :> Zero) @@ (7 :> 97) @@ (8 :> 98) @@ (12 :> 102) @@ (10 :> 110) @@ (13 :> 114)
           @@ (9 :> 116) @@ (11 :> 118)
OctalDigits(c) == <<Zero + c \div 64, Zero + ((c \div 8) % 8), Zero + (c % 8)>>
NoPadding(c) ==
  IF isprint(c) THEN (IF c \in {Backslash, 39, 34} THEN <<Backslash, c>> ELSE <<c>>)
  ELSE IF c \in DOMAIN Special THEN <<Backslash, Special[c]>>
  ELSE <<Backslash>> \o (IF c < 8 THEN <<Zero + c>> ELSE OctalDigits(c))
print_char(c) ==
  IF isprint(c) THEN (IF c \in {Backslash, 39, 34} THEN <<Backslash, c>> ELSE <<c>>)
  ELSE IF c \in DOMAIN Special THEN <<Backslash, Special[c]>>
  ELSE <<Backslash>> \o OctalDigits(c)

(* The byte that is next; sprintf ends each with a null. *)
PrintByte ==
  /\ phase = "printing" /\ at <= Len(lit.pieces) + cur_len
  /\ LET pos  == Len(printed.text)
         size == IF printed.buf_len - pos <= 5 THEN 2 * printed.buf_len ELSE printed.buf_len
         text == print_char(strbuf[at - Len(lit.pieces)])
     IN  /\ printed' = [text |-> printed.text \o text, buf_len |-> size]
         /\ overrun' = (overrun \/ pos + Len(text) + 1 > size)
  /\ at' = at + 1 /\ UNCHANGED <<lit, strbuf, cur_len, char_val, warned, phase>>

Printed ==
  /\ phase = "printing" /\ at > Len(lit.pieces) + cur_len
  /\ phase' = "done"
  /\ UNCHANGED <<lit, at, strbuf, cur_len, char_val, warned, overrun, printed>>

Finished == phase = "done" /\ UNCHANGED litvars

LiteralNext ==
  \/ begin_literal
  \/ append_text \/ parse_append_escape \/ parse_append_octal \/ parse_append_hexadecimal
  \/ end_string \/ end_charlit
  \/ PrintByte \/ Printed
  \/ Finished
LiteralSpec == LiteralInit /\ [][LiteralNext]_litvars

-----------------------------------------------------------------------------
(* Properties *)

(* No write goes past the end of a buffer, the one that is built or the    *)
(* one that is printed to, whatever the pieces and however full the buffer *)
(* was.  Not so for wide strings, whose null is written at an index that   *)
(* counts bytes.                                                           *)
WritesInside == lit.type = "string" /\ Width = 1 => ~overrun

Meaning == FlattenSeq([i \in DOMAIN lit.pieces |-> lit.pieces[i].means])

(* A string of narrow characters is what C says, and ends with a null;     *)
(* its length tells null characters inside from the end.                   *)
Decodes ==
  phase \in {"printing", "done"} /\ lit.type = "string" /\ Width = 1 /\ ~warned =>
    strbuf = Meaning \o <<0>> /\ cur_len = Len(Meaning)

(* A character constant has the value of its last code point, "the         *)
(* behavior of gcc8", whatever came before.  Not so if it ends with a text *)
(* of several characters: that one counts with its first.                  *)
LastCodePoint ==
  phase = "done" /\ lit.type = "charlit" /\ lit.pieces # <<>> /\ ~warned =>
    LET last == Last(lit.pieces)
    IN  \/ last.k = "text" /\ Len(last.chars) > 1
        \/ char_val = [i \in 1..Width |-> IF i \in DOMAIN last.means THEN last.means[i] ELSE 0]

(* What the scanner would read between the quotes: a backslash, then up to *)
(* three octal digits or a letter.                                         *)
Octal == Zero..(Zero + 7)
ReadBack(text) ==
  LET Digits(i) == CHOOSE n \in 0..3 :
                     /\ \A j \in i..(i + n - 1) : j \in DOMAIN text /\ text[j] \in Octal
                     /\ n = 3 \/ i + n \notin DOMAIN text \/ text[i + n] \notin Octal
      Letter(c) == IF \E b \in DOMAIN Special : Special[b] = c
                   THEN CHOOSE b \in DOMAIN Special : Special[b] = c ELSE c
      from[i \in 1..(Len(text) + 1)] ==
        IF i > Len(text) THEN <<>>
        ELSE IF text[i] # Backslash THEN <<text[i]>> \o from[i + 1]
        ELSE IF text[i + 1] \in Octal
        THEN <<Radix([j \in 1..Digits(i + 1) |-> text[i + j] - Zero], 8)>>
             \o from[i + 1 + Digits(i + 1)]
        ELSE <<Letter(text[i + 1])>> \o from[i + 2]
  IN  from[1]

(* A string is printed as a literal for the same string, which is what the *)
(* assembly gets.  A null that an octal digit follows is the exception: \0 *)
(* and 1 become \01.                                                       *)
ReadsBack ==
  phase = "done" /\ lit.type = "string" /\ Width = 1 =>
    LET contents == SubSeq(strbuf, 1, cur_len)
        joined == \E i \in 1..(cur_len - 1) : contents[i] = 0 /\ contents[i + 1] \in Octal
    IN  joined \/ ReadBack(printed.text) = contents
=============================================================================
