----------------------------- MODULE MCLiterals -----------------------------
(***************************************************************************)
(* Literals for Literals: strings with up to three pieces, among them      *)
(* texts that just fill, just miss and overflow the buffer of sixteen      *)
(* bytes, and characters of every width.                                   *)
(***************************************************************************)
EXTENDS Literals

Ascii(cs) == [k |-> "text", chars |-> [i \in DOMAIN cs |-> <<cs[i]>>], means |-> cs]
Wide(bytes) == [k |-> "text", chars |-> <<bytes>>, means |-> bytes]
Escape(c, byte) == [k |-> "escape", c |-> c, means |-> <<byte>>]
OctalEscape(digits, byte) == [k |-> "octal", digits |-> digits, means |-> <<byte>>]
Hex(digits, bytes) == [k |-> "hexadecimal", digits |-> digits, means |-> bytes]

Row(n) == Ascii([i \in 1..n |-> 96 + i])

Pieces ==
  {Row(1), Row(14), Row(15), Row(16), Ascii(<<49, 39, 32>>), Wide(<<195, 169>>),
   Escape("n", 10), Escape("quote", 34), Escape("backslash", 92), Escape("a", 7),
   OctalEscape(<<0>>, 0), OctalEscape(<<1>>, 1), OctalEscape(<<3, 1, 7>>, 207),
   Hex(<<4, 1>>, <<65>>), Hex(<<15, 15>>, <<255>>)}

Strings ==
  {[type |-> "string", width |-> w, pieces |-> ps] :
     w \in {"none", "u8"}, ps \in UNION {[1..n -> Pieces] : n \in 0..2}}
  \cup {[type |-> "string", width |-> "none", pieces |-> <<Row(15), p, q>>] : p, q \in Pieces}
  \cup {[type |-> "string", width |-> w, pieces |-> <<p>>] : w \in {"L", "u"}, p \in Pieces}

Codes ==
  {Row(1), Row(2), Ascii(<<34>>), Escape("apostrophe", 39), Escape("v", 11), OctalEscape(<<0>>, 0),
   OctalEscape(<<1, 7, 7>>, 127), Hex(<<7, 14>>, <<126>>)}
Characters ==
  {[type |-> "charlit", width |-> w, pieces |-> ps] :
     w \in {"none", "L", "u", "U"}, ps \in UNION {[1..n -> Codes] : n \in 0..2}}
  \cup {[type |-> "charlit", width |-> w, pieces |-> <<Hex(<<4, 3, 2, 1>>, <<33, 67>>)>>] :
          w \in {"none", "L", "u", "U"}}

MCInputs == Strings \cup Characters
=============================================================================
