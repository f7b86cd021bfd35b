----------------------------- MODULE AnsiEncode -----------------------------
(***************************************************************************)
(* The encoders of fredshell-ansi: for every kind of item, the bytes       *)
(* Encode::encode writes and the count Encode::encoded_len announces.      *)
(***************************************************************************)
EXTENDS AnsiBytes

(* Sgr: a set of attributes, an underline and two colours. *)
Attributes == <<"bold", "dim", "italic", "reverse", "strikethrough">>
AttributeCode ==
  [bold |-> "1", dim |-> "2", italic |-> "3", reverse |-> "7", strikethrough |-> "9"]

NoColor == [tone |-> "none"]

Style(attrs, underline, fg, bg) ==
  [attrs |-> attrs, underline |-> underline, fg |-> fg, bg |-> bg]

ResetStyle == Style({}, "none", NoColor, NoColor)

UnderlineParam ==
  [none |-> <<>>, single |-> <<"4">>, double |-> <<"4", ":", "2">>,
   curly |-> <<"4", ":", "3">>, dotted |-> <<"4", ":", "4">>,
   dashed |-> <<"4", ":", "5">>]

(* Color::write_params.  "basic" and "bright" are the sixteen colours,      *)
(* numbered 0 to 7 in each half.                                            *)
ColorParams(c, foreground) ==
  LET extended == IF foreground THEN <<"3", "8">> ELSE <<"4", "8">>
  IN CASE c.tone = "basic"   -> Itoa((IF foreground THEN 30 ELSE 40) + c.n)
       [] c.tone = "bright"  -> Itoa((IF foreground THEN 90 ELSE 100) + c.n)
       [] c.tone = "indexed" -> extended \o <<";", "5", ";">> \o Itoa(c.n)
       [] c.tone = "rgb"     -> extended \o <<";", "2", ";">> \o Itoa(c.r)
                                  \o <<";">> \o Itoa(c.g) \o <<";">> \o Itoa(c.b)

(* Color::param_len: of the bright backgrounds, only white counts three. *)
ColorLen(c, foreground) ==
  CASE c.tone = "basic"   -> 2
    [] c.tone = "bright"  -> IF c.n = 7 /\ ~foreground THEN 3 ELSE 2
    [] c.tone = "indexed" -> 5 + DecLen(c.n)
    [] c.tone = "rgb"     -> 7 + DecLen(c.r) + DecLen(c.g) + DecLen(c.b)

(* The parameters of a style that is not the reset, in the order encode     *)
(* writes them, as a function of how one colour is put.                     *)
StyleParams(s, Put(_, _)) ==
  LET attr(a) == IF a \in s.attrs THEN <<Put(a, "attribute")>> ELSE <<>>
      color(c, role) == IF c = NoColor THEN <<>> ELSE <<Put(c, role)>>
  IN attr("bold") \o attr("dim") \o attr("italic")
       \o (IF s.underline = "none" THEN <<>> ELSE <<Put(s.underline, "underline")>>)
       \o attr("reverse") \o attr("strikethrough")
       \o color(s.fg, "fg") \o color(s.bg, "bg")

ParamBytes(p, role) ==
  CASE role = "attribute" -> <<AttributeCode[p]>>
    [] role = "underline" -> UnderlineParam[p]
    [] role = "fg" -> ColorParams(p, TRUE)
    [] role = "bg" -> ColorParams(p, FALSE)

ParamLen(p, role) ==
  CASE role = "attribute" -> 1
    [] role = "underline" -> Len(UnderlineParam[p])
    [] role = "fg" -> ColorLen(p, TRUE)
    [] role = "bg" -> ColorLen(p, FALSE)

Join(parts, separator) ==
  FoldLeft(LAMBDA s, p : IF s = <<>> THEN p ELSE s \o <<separator>> \o p, <<>>, parts)

SgrBytes(s) ==
  IF s = ResetStyle THEN CSI \o <<"0", "m">>
                    ELSE CSI \o Join(StyleParams(s, ParamBytes), ";") \o <<"m">>

SgrLen(s) ==
  LET lengths == StyleParams(s, ParamLen)
  IN IF s = ResetStyle THEN 4
     ELSE 3 + FoldLeft(LAMBDA a, n : a + n, 0, lengths) + Len(lengths) - 1

-----------------------------------------------------------------------------
(* Cursor: a move of 0 writes nothing. *)

CsiNAlways(n, final) == CSI \o Itoa(n) \o <<final>>  \* mutant: no early return

CsiN(n, final) == IF n = 0 THEN <<>> ELSE CSI \o Itoa(n) \o <<final>>

CsiNLen(n) == IF n = 0 THEN 0 ELSE 2 + DecLen(n) + 1

MoveFinal == [up |-> "A", down |-> "B", right |-> "C", left |-> "D"]

CursorBytes(c) ==
  CASE c.move \in DOMAIN MoveFinal -> CsiN(c.n, MoveFinal[c.move])
    [] c.move = "goto"    -> CSI \o Itoa(c.row) \o <<";">> \o Itoa(c.col) \o <<"H">>
    [] c.move = "save"    -> <<ESC, "7">>
    [] c.move = "restore" -> <<ESC, "8">>

CursorLen(c) ==
  CASE c.move \in DOMAIN MoveFinal -> CsiNLen(c.n)
    [] c.move = "goto" -> 2 + DecLen(c.row) + 1 + DecLen(c.col) + 1
    [] c.move \in {"save", "restore"} -> 2

(* Cursor::goto rejects a zero coordinate. *)
GotoArguments(rows, cols) == {rc \in rows \X cols : rc[1] # 0 /\ rc[2] # 0}

EraseBytes(e) == CSI \o <<e.part, e.final>>    \* part 0, 1, 2; line K, display J
EraseLen      == 4

ModeNumber ==
  [ApplicationCursorKeys |-> 1, MouseVt200 |-> 1000, FocusReporting |-> 1004,
   MouseSgr |-> 1006, AlternateScreen |-> 1049, BracketedPaste |-> 2004]

ModeBytes(mode, final) == CSI \o <<"?">> \o Itoa(ModeNumber[mode]) \o <<final>>
ModeLen(mode)          == 3 + DecLen(ModeNumber[mode]) + 1

-----------------------------------------------------------------------------
(* The kitty keyboard stack. *)

SetModeNumber == [set |-> 1, or |-> 2, andNot |-> 3]
PopCount(n)   == IF n = 0 THEN 1 ELSE n

KittyBytes(k) ==
  CASE k.op = "push"  -> CSI \o <<">">> \o Itoa(k.flags) \o <<"u">>
    [] k.op = "pop"   -> CSI \o <<"<">> \o Itoa(PopCount(k.count)) \o <<"u">>
    [] k.op = "set"   -> CSI \o <<"=">> \o Itoa(k.flags) \o <<";">>
                           \o Itoa(SetModeNumber[k.mode]) \o <<"u">>
    [] k.op = "query" -> CSI \o <<"?", "u">>

KittyLen(k) ==
  CASE k.op = "push"  -> 3 + DecLen(k.flags) + 1
    [] k.op = "pop"   -> 3 + DecLen(PopCount(k.count)) + 1
    [] k.op = "set"   -> 3 + DecLen(k.flags) + 1 + DecLen(SetModeNumber[k.mode]) + 1
    [] k.op = "query" -> 4

-----------------------------------------------------------------------------
(* OSC 7, 8, 52 and 133. *)

(* The bytes outside is_path_safe that the instances use, as %HH. *)
PercentCode ==
  [x \in {" ", ESC, "\\", "%"} |->
     CASE x = " "  -> <<"%", "2", "0">>
       [] x = ESC  -> <<"%", "1", "B">>
       [] x = "\\" -> <<"%", "5", "C">>
       [] x = "%"  -> <<"%", "2", "5">>]

(* is_path_safe, and with it every byte a path is made of here. *)
PathSafe  == (ToSet(Base64Alphabet) \ {"+"}) \cup {"-", "_", ".", "~"}
PathBytes == PathSafe \cup DOMAIN PercentCode

PercentEncoded(s) ==
  FlattenSeq([i \in 1..Len(s) |->
    IF s[i] \in DOMAIN PercentCode THEN PercentCode[s[i]] ELSE <<s[i]>>])

PercentEncodedLen(s) ==
  FoldLeft(LAMBDA n, x : n + (IF x \in DOMAIN PercentCode THEN 3 ELSE 1), 0, s)

PathPad(path) == IF path # <<>> /\ path[1] = "/" THEN <<>> ELSE <<"/">>

FileUrl == <<"f", "i", "l", "e", ":", "/", "/">>

Osc7Bytes(host, path) ==
  OSC \o <<"7", ";">> \o FileUrl \o PercentEncoded(host)
    \o PathPad(path) \o PercentEncoded(path) \o ST

Osc7LenNoPad(host, path) ==         \* mutant: the slash put before the path
  2 + 9 + PercentEncodedLen(host) + PercentEncodedLen(path) + 2

Osc7Len(host, path) ==
  2 + 9 + PercentEncodedLen(host) + Len(PathPad(path)) + PercentEncodedLen(path) + 2

IdParam(id) == IF id = <<>> THEN <<>> ELSE <<"i", "d", "=">> \o id

Osc8Bytes(uri, id) ==               \* Clear is Set with neither
  OSC \o <<"8", ";">> \o IdParam(id) \o <<";">> \o uri \o ST

Osc8Len(uri, id) == 2 + 2 + Len(IdParam(id)) + 1 + Len(uri) + 2

(* write_base64: quartets of three bytes, the last one padded. *)
Quartet(c) ==
  LET byte(i) == IF i <= Len(c) THEN c[i] ELSE 0
      n == byte(1) * 65536 + byte(2) * 256 + byte(3)
      sextet(i) == Base64Alphabet[((n \div 64^(4 - i)) % 64) + 1]
  IN [i \in 1..4 |-> IF i <= Len(c) + 1 THEN sextet(i) ELSE "="]

Base64(payload) ==
  FlattenSeq([i \in 1..Len(Chunks(payload, 3)) |-> Quartet(Chunks(payload, 3)[i])])

Base64Len(n) == ((n + 2) \div 3) * 4

Osc52Bytes(payload) == OSC \o <<"5", "2", ";", "c", ";">> \o Base64(payload) \o ST
Osc52Len(payload)   == 2 + 5 + Base64Len(Len(payload)) + 2

MarkLetter ==
  [PromptStart |-> "A", CommandStart |-> "B", OutputStart |-> "C", CommandEnd |-> "D"]

Osc133Bytes(mark) == OSC \o <<"1", "3", "3", ";", MarkLetter[mark]>> \o ST
Osc133Len         == 9

-----------------------------------------------------------------------------
(* Queries a program writes with bytes of its own (the probe does). *)

QueryBytes ==
  [da1 |-> CSI \o <<"c">>, dsr |-> CSI \o <<"6", "n">>,
   decrpm |-> CSI \o <<"?", "2", "0", "0", "4", "$", "p">>,
   osc52 |-> OSC \o <<"5", "2", ";", "c", ";", "?">> \o ST,
   kitty |-> CSI \o <<"?", "u">>]

(* The items EncodeDyn encodes.  An id of <<>> is None. *)

Colors ==
  {NoColor} \cup [tone : {"basic", "bright"}, n : 0..7] \cup [tone : {"indexed"}, n : 0..255]
    \cup [tone : {"rgb"}, r : 0..255, g : 0..255, b : 0..255]

Styles ==
  [attrs : SUBSET ToSet(Attributes), underline : DOMAIN UnderlineParam,
   fg : Colors, bg : Colors]

Item ==
  [kind : {"sgr"}, style : Styles]
    \cup [kind : {"cursor"}, move : DOMAIN MoveFinal, n : U16]
    \cup [kind : {"cursor"}, move : {"goto"}, row : U16, col : U16]
    \cup [kind : {"cursor"}, move : {"save", "restore"}]
    \cup [kind : {"erase"}, part : {"0", "1", "2"}, final : {"K", "J"}]
    \cup [kind : {"modeSet", "modeReset"}, mode : DOMAIN ModeNumber]
    \cup [kind : {"kitty"}, op : {"push"}, flags : 0..255]
    \cup [kind : {"kitty"}, op : {"pop"}, count : U16]
    \cup [kind : {"kitty"}, op : {"set"}, flags : 0..255, mode : DOMAIN SetModeNumber]
    \cup [kind : {"kitty"}, op : {"query"}]
    \cup [kind : {"osc7"}, host : Seq(STRING), path : Seq(STRING)]
    \cup [kind : {"osc8"}, uri : Seq(STRING), id : Seq(STRING)]
    \cup [kind : {"osc52"}, payload : Seq(0..255)]
    \cup [kind : {"osc133"}, mark : DOMAIN MarkLetter]
    \cup [kind : {"query"}, ask : DOMAIN QueryBytes]

EncodeDyn(i) ==
  CASE i.kind = "sgr"       -> SgrBytes(i.style)
    [] i.kind = "cursor"    -> CursorBytes(i)
    [] i.kind = "erase"     -> EraseBytes(i)
    [] i.kind = "modeSet"   -> ModeBytes(i.mode, "h")
    [] i.kind = "modeReset" -> ModeBytes(i.mode, "l")
    [] i.kind = "kitty"     -> KittyBytes(i)
    [] i.kind = "osc7"      -> Osc7Bytes(i.host, i.path)
    [] i.kind = "osc8"      -> Osc8Bytes(i.uri, i.id)
    [] i.kind = "osc52"     -> Osc52Bytes(i.payload)
    [] i.kind = "osc133"    -> Osc133Bytes(i.mark)
    [] i.kind = "query"     -> QueryBytes[i.ask]

EncodedLenDyn(i) ==
  CASE i.kind = "sgr"       -> SgrLen(i.style)
    [] i.kind = "cursor"    -> CursorLen(i)
    [] i.kind = "erase"     -> EraseLen
    [] i.kind \in {"modeSet", "modeReset"} -> ModeLen(i.mode)
    [] i.kind = "kitty"     -> KittyLen(i)
    [] i.kind = "osc7"      -> Osc7Len(i.host, i.path)
    [] i.kind = "osc8"      -> Osc8Len(i.uri, i.id)
    [] i.kind = "osc52"     -> Osc52Len(i.payload)
    [] i.kind = "osc133"    -> Osc133Len
    [] i.kind = "query"     -> Len(QueryBytes[i.ask])

EncodedLenAll(items) == FoldLeft(LAMBDA n, i : n + EncodedLenDyn(i), 0, items)

=============================================================================
