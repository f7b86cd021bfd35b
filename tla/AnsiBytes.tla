------------------------------ MODULE AnsiBytes ------------------------------
(***************************************************************************)
(* The bytes fredshell-ansi speaks, and its decimal and base64 helpers.    *)
(* A byte is named by its character; payload bytes, whose value matters,   *)
(* are numbers.                                                            *)
(***************************************************************************)
EXTENDS Naturals, Sequences, SequencesExt

ESC == "ESC"
BEL == "BEL"
CSI == <<ESC, "[">>
OSC == <<ESC, "]">>
ST  == <<ESC, "\\">>

DigitBytes == <<"0", "1", "2", "3", "4", "5", "6", "7", "8", "9">>
Digits     == ToSet(DigitBytes)
DigitValue == [d \in Digits |-> (CHOOSE i \in 1..10 : DigitBytes[i] = d) - 1]

U16Max == 65535
U16    == 0..U16Max

(* dec_len_u8, dec_len_u16 *)
DecLen(n) ==
  CASE n >= 10000 -> 5
    [] n >= 1000 /\ n < 10000 -> 4
    [] n >= 100 /\ n < 1000 -> 3
    [] n >= 10 /\ n < 100 -> 2
    [] n < 10 -> 1

(* itoa3, itoa5: at most five digits. *)
FiveDigits == {n \in Nat : n < 100000}

Itoa(n) ==
  [i \in 1..DecLen(n) |-> DigitBytes[((n \div 10^(DecLen(n) - i)) % 10) + 1]]

Base64Alphabet ==
  <<"A", "B", "C", "D", "E", "F", "G", "H", "I", "J", "K", "L", "M",
    "N", "O", "P", "Q", "R", "S", "T", "U", "V", "W", "X", "Y", "Z",
    "a", "b", "c", "d", "e", "f", "g", "h", "i", "j", "k", "l", "m",
    "n", "o", "p", "q", "r", "s", "t", "u", "v", "w", "x", "y", "z">>
  \o DigitBytes \o <<"+", "/">>

Base64Value ==
  [c \in ToSet(Base64Alphabet) |->
     (CHOOSE i \in 1..64 : Base64Alphabet[i] = c) - 1]

(* s in pieces of n; the last may be shorter (chunks_exact, remainder) *)
Chunks(s, n) ==
  [i \in 1..((Len(s) + n - 1) \div n) |->
     SubSeq(s, (i - 1) * n + 1, IF i * n < Len(s) THEN i * n ELSE Len(s))]

=============================================================================
