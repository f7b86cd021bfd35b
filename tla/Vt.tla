--------------------------------- MODULE Vt ---------------------------------
(***************************************************************************)
(* A terminal, as far as the sequences of fredshell-ansi reach: what it    *)
(* does with the bytes it receives and what it answers when asked.  It is  *)
(* external to the crate ("how to speak terminal, not how to be one") and  *)
(* written from the meanings the doc comments of the encoders state.       *)
(***************************************************************************)
EXTENDS AnsiBytes, Integers

CONSTANT ScreenSize  \* rows, and columns, of the terminal

ASSUME VtAssumption == ScreenSize \in 1..U16Max  \* ws_row, ws_col are u16

NoStyle ==
  [attrs |-> {}, underline |-> "none", fg |-> [tone |-> "none"], bg |-> [tone |-> "none"]]

BlankScreen ==
  [style |-> NoStyle, at |-> <<1, 1>>, saved |-> <<1, 1>>, erased |-> <<>>,
   modes |-> {}, kitty |-> << {} >>, clip |-> <<>>, cwd |-> <<>>, link |-> <<>>,
   mark |-> "none"]

Clip(n) == IF n \in 1..ScreenSize THEN n ELSE IF n < 1 THEN 1 ELSE ScreenSize

(* The cell n steps away; the screen ends the move. *)
Moved(at, move, n) ==
  CASE move = "A" -> <<Clip(at[1] - n), at[2]>>
    [] move = "B" -> <<Clip(at[1] + n), at[2]>>
    [] move = "C" -> <<at[1], Clip(at[2] + n)>>
    [] move = "D" -> <<at[1], Clip(at[2] - n)>>

Bits(n)    == {i \in 0..7 : (n \div 2^i) % 2 = 1}
Number(bits) ==
  LET bit(i) == IF i \in bits THEN 1 ELSE 0
  IN bit(0) + 2 * bit(1) + 4 * bit(2) + 8 * bit(3)
       + 16 * bit(4) + 32 * bit(5) + 64 * bit(6) + 128 * bit(7)

PopStack(stack, n) ==
  IF n >= Len(stack) THEN << {} >> ELSE SubSeq(stack, 1, Len(stack) - n)

-----------------------------------------------------------------------------
(* Reading one sequence from the front of what was received.                *)

Num(p) == FoldLeft(LAMBDA n, d : n * 10 + DigitValue[d], 0, p)

Split(s) ==
  FoldLeft(LAMBDA parts, b : IF b = ";" THEN Append(parts, <<>>)
                             ELSE [parts EXCEPT ![Len(parts)] = Append(@, b)],
           << <<>> >>, s)

IsCsiFinal(b) ==
  b \in {"A", "B", "C", "D", "H", "J", "K", "h", "l", "m", "n", "u", "c", "p"}

(* How many bytes of s to take and what they are: a whole sequence, bytes   *)
(* to throw away (text, or a sequence that a new ESC cut short), or none    *)
(* while the sequence in front may still be completed.                      *)
NextSequence(s) ==
  LET nextEsc(i) == SelectInSubSeq(s, i, Len(s), LAMBDA b : b = ESC)
      final == SelectInSubSeq(s, 3, Len(s), LAMBDA b : b = ESC \/ IsCsiFinal(b))
      st == nextEsc(3)
  IN CASE s = <<>> \/ s = <<ESC>> -> [kind |-> "none", len |-> 0]
       [] s # <<>> /\ s[1] # ESC -> [kind |-> "text", len |-> 1]
       [] Len(s) > 1 /\ s[1] = ESC /\ s[2] \in {"7", "8"} -> [kind |-> "esc", len |-> 2]
       [] Len(s) > 1 /\ s[1] = ESC /\ s[2] = "[" ->
            IF final = 0 THEN [kind |-> "none", len |-> 0]
            ELSE IF s[final] = ESC THEN [kind |-> "text", len |-> final - 1]
            ELSE [kind |-> "csi", len |-> final]
       [] Len(s) > 1 /\ s[1] = ESC /\ s[2] = "]" ->
            IF st = 0 \/ st = Len(s) THEN [kind |-> "none", len |-> 0]
            ELSE IF s[st + 1] = "\\" THEN [kind |-> "osc", len |-> st + 1]
            ELSE [kind |-> "text", len |-> st - 1]
       [] OTHER -> [kind |-> "text", len |-> 1]

-----------------------------------------------------------------------------
(* CSI ... m: each parameter in turn; 38 and 48 take the following ones.    *)

ShortAttribute ==
  [x \in {"1", "2", "3", "7", "9"} |->
     CASE x = "1" -> "bold" [] x = "2" -> "dim" [] x = "3" -> "italic"
       [] x = "7" -> "reverse" [] x = "9" -> "strikethrough"]

UnderlineOf(p) ==
  CASE p = <<"4">> -> "single"
    [] p = <<"4", ":", "2">> -> "double"
    [] p = <<"4", ":", "3">> -> "curly"
    [] p = <<"4", ":", "4">> -> "dotted"
    [] p = <<"4", ":", "5">> -> "dashed"

SetColor(style, foreground, c) ==
  IF foreground THEN [style EXCEPT !.fg = c] ELSE [style EXCEPT !.bg = c]

Extended(style, e) ==
  SetColor(style, e[1] = 38,
    IF e[2] = 5 THEN [tone |-> "indexed", n |-> e[3]]
                ELSE [tone |-> "rgb", r |-> e[3], g |-> e[4], b |-> e[5]])

SixteenColors(style, n) ==
  LET bright == n >= 90
      foreground == n \in (30..37) \cup (90..97)
  IN SetColor(style, foreground, [tone |-> IF bright THEN "bright" ELSE "basic",
                                  n |-> n % 10])

SgrParam(s, p) ==
  LET e == Append(s.taken, Num(p))
      whole == Len(e) > 2 /\ Len(e) = (IF e[2] = 5 THEN 3 ELSE 5)
  IN CASE s.taken # <<>> /\ whole -> [style |-> Extended(s.style, e), taken |-> <<>>]
       [] s.taken # <<>> /\ ~whole -> [s EXCEPT !.taken = e]
       [] s.taken = <<>> /\ p = <<"0">> -> [s EXCEPT !.style = NoStyle]
       [] s.taken = <<>> /\ Len(p) = 1 /\ p[1] \in DOMAIN ShortAttribute ->
            [s EXCEPT !.style.attrs = @ \cup {ShortAttribute[p[1]]}]
       [] s.taken = <<>> /\ p[1] = "4" /\ (Len(p) = 1 \/ p[2] = ":") ->
            [s EXCEPT !.style.underline = UnderlineOf(p)]
       [] s.taken = <<>> /\ p \in {<<"3", "8">>, <<"4", "8">>} -> [s EXCEPT !.taken = e]
       [] OTHER -> [s EXCEPT !.style = SixteenColors(s.style, Num(p))]

ObeySgr(style, params) ==
  FoldLeft(SgrParam, [style |-> style, taken |-> <<>>], params).style

(* CSI with its leading "?", ">", "<" or "=", if any. *)
ObeyCsi(t, lead, params, final) ==
  LET n == Num(params[1])
      m == Num(params[Len(params)])
      top == t.kitty[Len(t.kitty)]
      setTop(bits) == [t EXCEPT !.kitty[Len(t.kitty)] = bits]
  IN CASE final = "m" -> [t EXCEPT !.style = ObeySgr(@, params)]
       [] final \in {"A", "B", "C", "D"} ->
            [t EXCEPT !.at = Moved(@, final, IF n = 0 THEN 1 ELSE n)]
       [] final = "H" /\ lead = "none" -> [t EXCEPT !.at = <<Clip(n), Clip(m)>>]
       [] final \in {"J", "K"} -> [t EXCEPT !.erased = <<n, final>>]
       [] final = "h" -> [t EXCEPT !.modes = @ \cup {n}]
       [] final = "l" -> [t EXCEPT !.modes = @ \ {n}]
       [] final = "u" /\ lead = ">" -> [t EXCEPT !.kitty = Append(@, Bits(n))]
       [] final = "u" /\ lead = "<" -> [t EXCEPT !.kitty = PopStack(@, n)]
       [] final = "u" /\ lead = "=" /\ m = 1 -> setTop(Bits(n))
       [] final = "u" /\ lead = "=" /\ m = 2 -> setTop(top \cup Bits(n))
       [] final = "u" /\ lead = "=" /\ m = 3 -> setTop(top \ Bits(n))
       [] OTHER -> t

-----------------------------------------------------------------------------
(* ESC ] number ; text ST *)

HexValue == [h \in {"0", "1", "2", "5", "B", "C"} |->
               CASE h = "B" -> 11 [] h = "C" -> 12 [] OTHER -> DigitValue[h]]

ByteNamed(code) ==
  CASE code = 32 -> " " [] code = 27 -> ESC [] code = 92 -> "\\" [] code = 37 -> "%"

PercentDecoded(s) ==
  FoldLeft(LAMBDA d, b :
             CASE d.left = 2 -> [d EXCEPT !.left = 1, !.code = HexValue[b]]
               [] d.left = 1 -> [text |-> Append(d.text, ByteNamed(d.code * 16 + HexValue[b])),
                                 left |-> 0, code |-> 0]
               [] d.left = 0 /\ b = "%" -> [d EXCEPT !.left = 2]
               [] OTHER -> [d EXCEPT !.text = Append(@, b)],
           [text |-> <<>>, left |-> 0, code |-> 0], s).text

(* The path of file://host/path *)
PathOf(url) ==
  LET slash == SelectInSubSeq(url, 8, Len(url), LAMBDA b : b = "/")
  IN PercentDecoded(SubSeq(url, slash, Len(url)))

Unbase64(s) ==
  LET value(c) == IF c = "=" THEN 0 ELSE Base64Value[c]
      quartet(q) ==
        LET n == ((value(q[1]) * 64 + value(q[2])) * 64 + value(q[3])) * 64 + value(q[4])
        IN SubSeq(<<n \div 65536, (n \div 256) % 256, n % 256>>, 1,
                  3 - (IF q[3] = "=" THEN 1 ELSE 0) - (IF q[4] = "=" THEN 1 ELSE 0))
  IN FlattenSeq([i \in 1..Len(Chunks(s, 4)) |-> quartet(Chunks(s, 4)[i])])

IsBase64(s) ==
  /\ Len(s) % 4 = 0
  /\ \A i \in 1..Len(s) : s[i] = "=" \/ s[i] \in DOMAIN Base64Value

MarkNamed(l) ==
  CASE l = "A" -> "PromptStart" [] l = "B" -> "CommandStart"
    [] l = "C" -> "OutputStart" [] l = "D" -> "CommandEnd"

(* The link of 8;parameters;link, which may itself have a ";" in it. *)
LinkOf(text) ==
  LET second == SelectInSubSeq(text, 3, Len(text), LAMBDA b : b = ";")
  IN SubSeq(text, second + 1, Len(text))

ObeyOsc(t, text) ==
  LET parts == Split(text)
      last  == parts[Len(parts)]
  IN CASE parts[1] = <<"7">> -> [t EXCEPT !.cwd = PathOf(last)]
       [] parts[1] = <<"8">> -> [t EXCEPT !.link = LinkOf(text)]
       [] parts[1] = <<"5", "2">> /\ last # <<"?">> ->
            [t EXCEPT !.clip = IF IsBase64(last) THEN Unbase64(last) ELSE <<>>]
       [] parts[1] = <<"1", "3", "3">> -> [t EXCEPT !.mark = MarkNamed(last[1])]
       [] OTHER -> t

Obey(t, kind, s) ==
  LET body == SubSeq(s, 3, Len(s) - 1)
      lead == IF body # <<>> /\ body[1] \in {"?", ">", "<", "="} THEN body[1] ELSE "none"
      args == IF lead = "none" THEN body ELSE Tail(body)
  IN CASE kind = "esc" -> IF s[2] = "7" THEN [t EXCEPT !.saved = t.at]
                                        ELSE [t EXCEPT !.at = t.saved]
       [] kind = "csi" -> ObeyCsi(t, lead, Split(args), s[Len(s)])
       [] kind = "osc" -> ObeyOsc(t, SubSeq(s, 3, Len(s) - 2))
       [] OTHER -> t

=============================================================================
