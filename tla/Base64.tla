------------------------------- MODULE Base64 -------------------------------
(***************************************************************************)
(* src/plugin_host_bytes.rs: the codec that carries the bytes of a typed   *)
(* storage value or event payload through the application's strings.  A    *)
(* byte is a number below 256 and a string is a sequence of character      *)
(* codes; shifts and masks are written as quotients and remainders.        *)
(***************************************************************************)
EXTENDS Integers, Sequences, Filters

Byte == 0..255
Undecodable == <<-1>>   \* b64_decode's None

\* ALPHABET[v]: the code of the character for the six bits v.
ALPHABET(v) ==
  CASE v < 26 -> 65 + v            \* A..Z
    [] v \in 26..51 -> 97 + v - 26 \* a..z
    [] v \in 52..61 -> 48 + v - 52 \* 0..9
    [] v = 62 -> 43                \* +
    [] OTHER -> 47                 \* /

\* val(c); c must be a character of the alphabet.
val(c) ==
  CASE c \in 65..90  -> c - 65
    [] c \in 97..122 -> c - 97 + 26
    [] c \in 48..57  -> c - 48 + 52
    [] c = 43 -> 62
    [] c = 47 -> 63
InAlphabet(c) == c \in 65..90 \cup 97..122 \cup 48..57 \cup {43, 47}

Pad        == 61                    \* =
Whitespace == {32, 9, 10, 12, 13}   \* is_ascii_whitespace

\* b64_encode: four characters for each chunk of three bytes, the last chunk
\* padded.
b64_encode(bytes) ==
  [i \in 1 .. ((Len(bytes) + 2) \div 3) * 4 |->
     LET at   == 3 * ((i - 1) \div 4)
         b(j) == IF at + j <= Len(bytes) THEN bytes[at + j] ELSE 0
     IN  CASE i % 4 = 1 -> ALPHABET(b(1) \div 4)
           [] i % 4 = 2 -> ALPHABET((b(1) % 4) * 16 + b(2) \div 16)
           [] i % 4 = 3 -> IF at + 2 > Len(bytes) THEN Pad
                           ELSE ALPHABET((b(2) % 16) * 4 + b(3) \div 64)
           [] OTHER     -> IF at + 3 > Len(bytes) THEN Pad ELSE ALPHABET(b(3) % 64)]

\* The loop of b64_decode once the symbols are known to be decodable: a chunk
\* of n symbols yields n - 1 bytes.
DecodedBytes(symbols) ==
  [i \in 1 .. (Len(symbols) * 3) \div 4 |->
     LET at   == 4 * ((i - 1) \div 3)
         v(j) == val(symbols[at + j])
     IN  CASE i % 3 = 1 -> v(1) * 4 + v(2) \div 16
           [] i % 3 = 2 -> (v(2) % 16) * 16 + v(3) \div 4
           [] OTHER     -> (v(3) % 4) * 64 + v(4)]

\* The characters that are neither padding nor whitespace, in their order.
Symbols(string) ==
  Picked(string, {i \in DOMAIN string : string[i] # Pad /\ string[i] \notin Whitespace})

\* A quantum of any length is accepted, and a lone symbol ignored.
FaultyB64Decode(string) ==
  LET symbols == Symbols(string)
  IN  IF \A i \in DOMAIN symbols : InAlphabet(symbols[i])
        THEN DecodedBytes(symbols) ELSE Undecodable

\* b64_decode: padding and whitespace are skipped wherever they stand; a
\* foreign character or a lone last symbol makes the string undecodable.
b64_decode(string) ==
  LET symbols == Symbols(string)
  IN  IF Len(symbols) % 4 # 1 /\ \A i \in DOMAIN symbols : InAlphabet(symbols[i])
        THEN DecodedBytes(symbols) ELSE Undecodable

-----------------------------------------------------------------------------
(* The reference, and the codec against it over bounded inputs.            *)

\* RFC 4648, section 4, without chunks: byte n of the data is made of the bits
\* 8n-7 to 8n of the concatenated six-bit values, and what is left over is
\* less than a symbol.
BitsOf(symbols) ==
  [b \in 1 .. 6 * Len(symbols) |->
     (val(symbols[(b + 5) \div 6]) \div <<32, 16, 8, 4, 2, 1>>[((b - 1) % 6) + 1]) % 2]
ByteOfBits(bits, m) ==
  128 * bits[8*m - 7] + 64 * bits[8*m - 6] + 32 * bits[8*m - 5] + 16 * bits[8*m - 4]
    + 8 * bits[8*m - 3] + 4 * bits[8*m - 2] + 2 * bits[8*m - 1] + bits[8*m]
RfcSymbols(string) ==
  Picked(string, {i \in DOMAIN string : string[i] \notin Whitespace \cup {Pad}})
ReferenceDecode(string) ==
  LET symbols == RfcSymbols(string)
      n    == Len(symbols)
      bits == BitsOf(symbols)
  IN  IF (\E i \in 1..n : ~InAlphabet(symbols[i])) \/ (6 * n) % 8 = 6
        THEN Undecodable
        ELSE [m \in 1 .. (6 * n) \div 8 |-> ByteOfBits(bits, m)]

Tuples(S, n) == UNION {[1..k -> S] : k \in 0..n}

\* Bytes at the edges of the bit fields the codec cuts them into.
EdgeBytes == {0, 1, 3, 4, 15, 16, 63, 64, 192, 252, 255}
SampleBytes == Tuples(EdgeBytes, 4) \cup Tuples(Byte, 1)

\* A, z, 9 and / as symbols, then padding, a line break and a foreign character.
SampleStrings == Tuples({65, 122, 57, 47, Pad, 10, 45}, 5)

\* At every length modulo three, decoding an encoding gives the bytes back; and
\* any string, truncated, wrapped or unpadded, is read as its symbols say, or
\* refused.
AgreesOnSamples ==
  /\ \A bytes \in SampleBytes : b64_decode(b64_encode(bytes)) = bytes
  /\ \A s \in SampleStrings : b64_decode(s) = ReferenceDecode(s)
=============================================================================
