------------------------------ MODULE Parsers ------------------------------
(***************************************************************************)
(* The value parsers: parseECID and main's check of -g (main.c), parseHex  *)
(* (tsschecker.c), and the generator's way to the eight bytes a nonce is   *)
(* hashed from (tss_populate_random). A character is its value as a        *)
(* hexadecimal digit, X for "x", or Other.                                 *)
(***************************************************************************)
EXTENDS Integers, Sequences, SequencesExt

CONSTANTS
  Texts,           \* arguments of -e, and of -8, -9 and -t
  GeneratorTexts,  \* arguments of -g
  Behinds,         \* what may lie in memory behind the end of such an argument
  EcidModulus,     \* 2^64: the values of an ECID
  GenLen,          \* digits of a generator: 16
  DrawnBytes       \* the bytes getRandNum may draw: 0 .. 255

X == 16
Other == 17
Chars == 0 .. Other
Digits == 0 .. 9
HexDigits == 0 .. 15

ASSUME ParserAssumption ==
  /\ Texts \subseteq Seq(Chars)
  /\ GeneratorTexts \subseteq Seq(Chars)
  /\ EcidModulus \in Nat \ {0}
  /\ GenLen \in Nat \ {0} /\ GenLen % 2 = 0
  /\ Behinds \subseteq Seq(Chars)
  /\ \A b \in Behinds : Len(b) >= GenLen + 1    \* as far as main reads
  /\ DrawnBytes \subseteq 0 .. 255

VARIABLES
  parser,   \* whose argument it is: "ecid", "nonce", "generator" or "drawn"
  argument, \* the text given
  at,       \* the loop the program is in, or how it ended
  text,     \* the text that loop reads
  pos,      \* the next character
  ret,      \* parseECID's result
  next,     \* parseHex: the next digit ends a byte
  tmp,      \* its unfinished byte
  bytes,    \* the bytes written
  zz        \* what tss_populate_random hashes; what it drew

given == <<parser, argument>>
hexVars == <<next, tmp, bytes>>
vars == <<given, at, text, pos, ret, hexVars, zz>>

IsHexText(t) == IsPrefix(<<0, X>>, t)

Init ==
  /\ \/ /\ parser = "ecid"
        /\ argument \in Texts
        /\ IF IsHexText(argument) THEN at = "hexadecimal" /\ pos = 3
           ELSE at = "decimal" /\ pos = 1
     \/ parser = "nonce" /\ argument \in Texts /\ at = "parseHex" /\ pos = 1
     \/ parser = "generator" /\ argument \in GeneratorTexts /\ at = "generator" /\ pos = 1
     \/ parser = "drawn" /\ argument = <<>> /\ at = "makegen" /\ pos = 1
  /\ text = argument
  /\ ret = 0
  /\ next = FALSE
  /\ tmp = 0
  /\ bytes = <<>>
  /\ zz = <<>>

More == pos <= Len(text)

---------------------------------------------------------------------------
(* Mutations, used to test that the properties below bite.                 *)

StartHexadecimalKeeps ==
  /\ at = "decimal"
  /\ More
  /\ text[pos] \notin Digits
  /\ at' = "hexadecimal"
  /\ pos' = 1
  /\ UNCHANGED <<given, text, ret, hexVars, zz>>

StartHexAtPair ==
  /\ at = "parseHex"
  /\ at' = "hex"
  /\ next' = TRUE
  /\ tmp' = 0
  /\ bytes' = <<>>
  /\ UNCHANGED <<given, text, pos, ret, zz>>

CheckedLengthOnly(memory, k) == k <= Len(argument)

HashAsTyped ==
  /\ at = "swap"
  /\ at' = "done"
  /\ UNCHANGED <<given, text, pos, ret, hexVars, zz>>

---------------------------------------------------------------------------
(* parseECID: decimal until another character shows up, then hexadecimal   *)
(* from the start; 0 is its error.                                         *)

Decimal ==
  /\ at = "decimal"
  /\ More
  /\ text[pos] \in Digits
  /\ ret' = (ret * 10 + text[pos]) % EcidModulus
  /\ pos' = pos + 1
  /\ UNCHANGED <<given, at, text, hexVars, zz>>

StartHexadecimal ==
  /\ at = "decimal"
  /\ More
  /\ text[pos] \notin Digits
  /\ at' = "hexadecimal"
  /\ ret' = 0
  /\ pos' = 1
  /\ UNCHANGED <<given, text, hexVars, zz>>

Hexadecimal ==
  /\ at = "hexadecimal"
  /\ More
  /\ IF text[pos] \in HexDigits
     THEN ret' = (ret * 16 + text[pos]) % EcidModulus /\ at' = at
     ELSE ret' = 0 /\ at' = "done"
  /\ pos' = pos + 1
  /\ UNCHANGED <<given, text, hexVars, zz>>

ReturnEcid ==
  /\ at \in {"decimal", "hexadecimal"}
  /\ ~More
  /\ at' = "done"
  /\ UNCHANGED <<given, text, pos, ret, hexVars, zz>>

---------------------------------------------------------------------------
(* parseHex: two digits a byte, a leading one alone when they are odd.     *)

Length == (Len(text) + 1) \div 2

StartHex ==
  /\ at = "parseHex"
  /\ at' = "hex"
  /\ next' = (Len(text) % 2 = 0)
  /\ tmp' = 0
  /\ bytes' = <<>>
  /\ UNCHANGED <<given, text, pos, ret, zz>>

Hex ==
  /\ at = "hex"
  /\ More
  /\ IF text[pos] \in HexDigits
     THEN /\ next' = ~next
          /\ LET t == (tmp * 16 + text[pos]) % 256
                 full == next' /\ Len(bytes) < Length
             IN /\ bytes' = IF full THEN Append(bytes, t) ELSE bytes
                /\ tmp' = IF full THEN 0 ELSE t
          /\ at' = at
     ELSE at' = "failed" /\ UNCHANGED hexVars
  /\ pos' = pos + 1
  /\ UNCHANGED <<given, text, ret, zz>>

ReturnHex ==
  /\ at = "hex"
  /\ ~More
  /\ at' = IF parser = "nonce" THEN "done" ELSE "swap"
  /\ UNCHANGED <<given, text, pos, ret, hexVars, zz>>

---------------------------------------------------------------------------
(* The generator.                                                          *)

(* main reads from the argument's start: the text, the zero that ends it,  *)
(* which is no digit, and of a text of less than two characters what lies  *)
(* behind that zero.                                                       *)
Memory(behind) == argument \o <<Other>> \o behind

Checked(memory, k) == memory[k] \in HexDigits

(* Only a text with neither "0" nor "x" is refused for its start. GenLen   *)
(* digits follow; what stands behind them is not looked at.                *)
CheckGenerator ==
  /\ at = "generator"
  /\ \E behind \in Behinds :
       LET memory == Memory(behind)
           starts == memory[1] = 0 \/ memory[2] = X
       IN IF starts /\ \A k \in 3 .. GenLen + 2 : Checked(memory, k)
          THEN at' = "parseHex" /\ text' = SubSeq(memory, 3, GenLen + 2)
          ELSE at' = "refused" /\ UNCHANGED text
  /\ UNCHANGED <<given, pos, ret, hexVars, zz>>

(* The four swaps make the last byte the first.                            *)
SwapBytes(s) == [k \in DOMAIN s |-> s[Len(s) + 1 - k]]

(* Without a generator bytes are drawn, and printed last byte first. The   *)
(* text goes into the blob, and is read as -g by a later run.              *)
MakeGenerator ==
  /\ at = "makegen"
  /\ \E r \in [1 .. GenLen \div 2 -> DrawnBytes] :
       /\ zz' = r
       /\ text' = [k \in 1 .. GenLen |->
                     LET byte == SwapBytes(r)[(k + 1) \div 2]
                     IN IF k % 2 = 1 THEN byte \div 16 ELSE byte % 16]
  /\ at' = "parseHex"
  /\ UNCHANGED <<given, pos, ret, hexVars>>

(* The bytes of a generator given, in the order they are hashed.           *)
Swap ==
  /\ at = "swap"
  /\ bytes' = SwapBytes(bytes)
  /\ at' = "done"
  /\ UNCHANGED <<given, text, pos, ret, next, tmp, zz>>

Next ==
  \/ Decimal \/ StartHexadecimal \/ Hexadecimal \/ ReturnEcid
  \/ StartHex \/ Hex \/ ReturnHex
  \/ CheckGenerator \/ MakeGenerator \/ Swap

Spec == Init /\ [][Next]_vars /\ WF_vars(Next)

---------------------------------------------------------------------------
(* Properties                                                              *)

(* ValuesOf(s, base)[k] is the number the first k digits of s spell.       *)
ValuesOf(s, base) ==
  LET value[k \in 0 .. Len(s)] == IF k = 0 THEN 0 ELSE value[k - 1] * base + s[k]
  IN value

NumberOf(s, base) == ValuesOf(s, base)[Len(s)]

(* -e is "either DEC or HEX" (main.c line 92): its value is the decimal    *)
(* number, or after "0x" or with a letter in it the hexadecimal one,       *)
(* modulo 2^64, and 0 for any other text, which main refuses. Characters   *)
(* read as decimal digits leave nothing behind when the text turns out to  *)
(* be hexadecimal.                                                         *)
EcidMeant ==
  parser = "ecid" /\ at = "done" =>
    LET digits == IF IsHexText(argument) THEN SubSeq(argument, 3, Len(argument)) ELSE argument
    IN ret = IF digits \in Seq(Digits) /\ ~IsHexText(argument) THEN NumberOf(digits, 10) % EcidModulus
             ELSE IF digits \in Seq(HexDigits) THEN NumberOf(digits, 16) % EcidModulus
             ELSE 0

(* A nonce is read whole or refused: the bytes spell the number the digits *)
(* spell, no digit of an odd text is lost, and never more bytes are        *)
(* written than the caller was told to allocate.                           *)
HexMeansValue ==
  parser = "nonce" =>
    /\ Len(bytes) <= Length
    /\ at = "failed" => argument \notin Seq(HexDigits)
    /\ at = "done" => /\ argument \in Seq(HexDigits)
                      /\ Len(bytes) = Length
                      /\ NumberOf(bytes, 256) = NumberOf(argument, 16)

(* tss_populate_random does not look at the result of parseHex. It need    *)
(* not: parseHex reads all that main has taken for digits of -g. A text of *)
(* two characters and more is accepted only with GenLen digits behind the  *)
(* two, and these are the number; digits or anything else that follows     *)
(* them is cut off without a word (main.c line 93 says "16 in length"). Of *)
(* a shorter text the digits are what lies in memory behind it.            *)
GeneratorRead ==
  parser = "generator" =>
    /\ at # "failed"
    /\ at = "done" /\ Len(argument) >= 2 =>
         /\ Len(argument) >= GenLen + 2
         /\ NumberOf(SwapBytes(bytes), 256) = NumberOf(SubSeq(argument, 3, GenLen + 2), 16)

(* A saved generator is of use: given to a later run it yields the bytes   *)
(* that were drawn, in their order, and so the nonce its blob is for.      *)
GeneratorReproduces == parser = "drawn" /\ at = "done" => bytes = zz
=============================================================================
