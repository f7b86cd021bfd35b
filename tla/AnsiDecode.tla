----------------------------- MODULE AnsiDecode -----------------------------
(***************************************************************************)
(* The decoders of fredshell-ansi (decode.rs): each is a function of the   *)
(* bytes received so far that answers Ok with the value and the number of  *)
(* bytes it took, Incomplete, or Malformed.                                *)
(***************************************************************************)
EXTENDS AnsiBytes

CONSTANT MaxParams  \* parameters a CSI sequence may have (MAX_PARAMS: 32)

ASSUME DecodeAssumption == MaxParams \in Nat \ {0, 1}  \* a cursor report has two

Ok(value, consumed) == [result |-> "ok", value |-> value, consumed |-> consumed]
Incomplete == [result |-> "incomplete"]
Malformed  == [result |-> "malformed"]

Intermediates == {" ", "!", "$", "*"}  \* of 0x20..0x2f, those the instances use
Finals ==                              \* of 0x40..0x7e
  {"A", "B", "C", "D", "H", "J", "K", "R", "c", "h", "l", "m", "n", "u", "y", "[", "~"}

-----------------------------------------------------------------------------
(* parse_csi: a left-to-right scan.  "body" is the loop still running.      *)

Clamp(n) == IF n > U16Max THEN U16Max ELSE n      \* u16::try_from ... unwrap_or
Saturated(n) == IF n > U16Max THEN U16Max + 1 ELSE n  \* u32, as far as Clamp sees

CsiStart(private) ==
  [at |-> "body", private |-> private, params |-> <<>>, current |-> 0,
   haveDigit |-> FALSE, intermediate |-> "none", final |-> "none",
   consumed |-> IF private THEN 3 ELSE 2]

PushKeepingDigits(s) ==             \* mutant: current is not reset
  [s EXCEPT !.params = Append(@, Clamp(s.current)), !.haveDigit = FALSE]

Unclamped(s) ==                     \* mutant: as u16 would wrap, u32 kept
  [s EXCEPT !.params = Append(@, s.current), !.current = 0, !.haveDigit = FALSE]

Push(s) ==
  [s EXCEPT !.params = Append(@, Clamp(s.current)), !.current = 0,
            !.haveDigit = FALSE]

FlushesAlways(s) == s.haveDigit \/ s.params # <<>>  \* mutant: phantom parameter

FlushesAtFinal(s) ==
  s.intermediate = "none" /\ (s.haveDigit \/ s.params # <<>>)

CsiByte(s, b) ==
  LET read == [s EXCEPT !.consumed = @ + 1]
      full == Len(s.params) >= MaxParams
      bad  == [s EXCEPT !.at = "malformed"]
  IN CASE s.at # "body" -> s
       [] s.at = "body" /\ b \in Digits ->
            [read EXCEPT !.haveDigit = TRUE,
                         !.current = Saturated(@ * 10 + DigitValue[b])]
       [] s.at = "body" /\ b = ";" -> IF full THEN bad ELSE Push(read)
       [] s.at = "body" /\ b \in Intermediates ->
            IF s.intermediate # "none" \/ (s.haveDigit /\ full) THEN bad
            ELSE [(IF s.haveDigit THEN Push(read) ELSE read)
                    EXCEPT !.intermediate = b]
       [] s.at = "body" /\ b \in Finals ->
            IF FlushesAtFinal(s) /\ full THEN bad
            ELSE [(IF FlushesAtFinal(s) THEN Push(read) ELSE read)
                    EXCEPT !.at = "done", !.final = b]
       [] OTHER -> bad

ParseCsi(input) ==
  LET private == Len(input) > 2 /\ input[3] = "?"
      body == SubSeq(input, IF private THEN 4 ELSE 3, Len(input))
  IN CASE Len(input) < 2 -> CsiStart(FALSE)
       [] Len(input) >= 2 /\ SubSeq(input, 1, 2) # CSI ->
            [CsiStart(FALSE) EXCEPT !.at = "malformed"]
       [] OTHER -> FoldLeft(CsiByte, CsiStart(private), body)

(* What the four CSI decoders share: the shape they accept, and the value. *)
CsiDecode(input, Fits(_), Value(_)) ==
  LET csi == ParseCsi(input)
  IN CASE csi.at = "body" -> Incomplete
       [] csi.at = "done" /\ Fits(csi) -> Ok(Value(csi), csi.consumed)
       [] OTHER -> Malformed

Da1AnyFinal(input) ==               \* mutant: the final byte is not looked at
  CsiDecode(input,
    LAMBDA c : c.private /\ c.intermediate = "none" /\ c.params # <<>>,
    LAMBDA c : [kind |-> "da1", id |-> Head(c.params), capabilities |-> Tail(c.params)])

(* Da1Response *)
Da1(input) ==
  CsiDecode(input,
    LAMBDA c : c.private /\ c.intermediate = "none" /\ c.final = "c" /\ c.params # <<>>,
    LAMBDA c : [kind |-> "da1", id |-> Head(c.params), capabilities |-> Tail(c.params)])

(* DsrCursorPosition *)
Dsr(input) ==
  CsiDecode(input,
    LAMBDA c : ~c.private /\ c.intermediate = "none" /\ c.final = "R" /\ Len(c.params) = 2,
    LAMBDA c : [kind |-> "dsr", row |-> c.params[1], col |-> c.params[2]])

(* KittyKeyboardQueryResponse: the flags must fit a u8. *)
KittyReply(input) ==
  CsiDecode(input,
    LAMBDA c : /\ c.private /\ c.intermediate = "none" /\ c.final = "u"
               /\ Len(c.params) = 1
               /\ c.params[1] < 256,
    LAMBDA c : [kind |-> "kitty", flags |-> c.params[1]])

(* DecrpmState::from_value and is_supported *)
ModeStates == <<"NotRecognized", "Set", "Reset", "PermanentlySet", "PermanentlyReset">>
ModeState(n) == IF n < 5 THEN ModeStates[n + 1] ELSE "Other"

(* DecrpmResponse *)
Decrpm(input) ==
  CsiDecode(input,
    LAMBDA c : c.private /\ c.intermediate = "$" /\ c.final = "y" /\ Len(c.params) = 2,
    LAMBDA c : [kind |-> "decrpm", mode |-> c.params[1], state |-> ModeState(c.params[2])])

-----------------------------------------------------------------------------
(* Osc52ReadResponse *)

Selections == {"c", "p", "s", "0", "1", "2", "3", "4", "5", "6", "7"}

(* One quartet of base64, as the bytes it stands for. *)
QuartetBytes(q) ==
  LET v == [i \in 1..4 |-> IF q[i] = "=" THEN 0 ELSE Base64Value[q[i]]]
      n == ((v[1] * 64 + v[2]) * 64 + v[3]) * 64 + v[4]
      bytes == <<n \div 65536, (n \div 256) % 256, n % 256>>
  IN SubSeq(bytes, 1, IF q[3] = "=" THEN 1 ELSE IF q[4] = "=" THEN 2 ELSE 3)

QuartetValid(q, last) ==
  /\ \A i \in 1..4 : q[i] = "=" \/ q[i] \in DOMAIN Base64Value
  /\ q[1] # "=" /\ q[2] # "="
  /\ q[3] = "=" => q[4] = "="
  /\ q[3] = "=" \/ q[4] = "=" => last

Base64Valid(s) ==
  LET q == Chunks(s, 4)
  IN Len(s) % 4 = 0 /\ \A i \in 1..Len(q) : QuartetValid(q[i], i = Len(q))

Base64Decode(s) ==
  FlattenSeq([i \in 1..Len(Chunks(s, 4)) |-> QuartetBytes(Chunks(s, 4)[i])])

(* The payload of input, which begins at 8 with a known selection: the      *)
(* first BEL or ESC decides.                                                *)
Osc52EndHasty(input) ==             \* mutant: ESC at the end is no terminator
  LET end == SelectInSubSeq(input, 8, Len(input), LAMBDA b : b \in {BEL, ESC})
      payload == SubSeq(input, 8, end - 1)
      st == end \in 1..(Len(input) - 1) /\ SubSeq(input, end, end + 1) = ST
  IN CASE end = 0 -> Incomplete
       [] end > 0 /\ ~Base64Valid(payload) -> Malformed
       [] end > 0 /\ Base64Valid(payload) /\ (st \/ input[end] = BEL) ->
            Ok([kind |-> "osc52", selection |-> input[6], payload |-> Base64Decode(payload)],
               IF st THEN end + 1 ELSE end)
       [] OTHER -> Malformed

Osc52End(input) ==
  LET end == SelectInSubSeq(input, 8, Len(input), LAMBDA b : b \in {BEL, ESC})
      payload == SubSeq(input, 8, end - 1)
      st == end \in 1..(Len(input) - 1) /\ SubSeq(input, end, end + 1) = ST
  IN CASE end = 0 \/ (end = Len(input) /\ input[end] = ESC) -> Incomplete
       [] end > 0 /\ (st \/ input[end] = BEL) /\ Base64Valid(payload) ->
            Ok([kind |-> "osc52", selection |-> input[6], payload |-> Base64Decode(payload)],
               IF st THEN end + 1 ELSE end)
       [] OTHER -> Malformed

Osc52(input) ==
  CASE Len(input) < 5 -> Incomplete
    [] Len(input) >= 5 /\ SubSeq(input, 1, 5) # OSC \o <<"5", "2", ";">> -> Malformed
    [] Len(input) \in {5, 6} /\ SubSeq(input, 1, 5) = OSC \o <<"5", "2", ";">> -> Incomplete
    [] OTHER -> IF input[7] = ";" /\ input[6] \in Selections
                THEN Osc52End(input) ELSE Malformed

Decoders == {"da1", "dsr", "kitty", "decrpm", "osc52"}

Decode(decoder, input) ==
  CASE decoder = "da1"    -> Da1(input)
    [] decoder = "dsr"    -> Dsr(input)
    [] decoder = "kitty"  -> KittyReply(input)
    [] decoder = "decrpm" -> Decrpm(input)
    [] decoder = "osc52"  -> Osc52(input)

=============================================================================
