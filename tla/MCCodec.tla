------------------------------ MODULE MCCodec ------------------------------
(***************************************************************************)
(* Instances of Codec for TLC: items of every kind, with the values at     *)
(* which their encodings change shape.                                     *)
(***************************************************************************)
EXTENDS Codec

Basic(n)   == [tone |-> "basic", n |-> n]
Bright(n)  == [tone |-> "bright", n |-> n]
Indexed(n) == [tone |-> "indexed", n |-> n]
Rgb(r, g, b) == [tone |-> "rgb", r |-> r, g |-> g, b |-> b]

Sgr(s) == [kind |-> "sgr", style |-> s]
SomeStyles ==
  {ResetStyle,
   Style({"bold", "italic"}, "none", NoColor, NoColor),
   Style({"dim", "reverse", "strikethrough"}, "curly", Basic(1), Basic(7)),
   Style({}, "single", Bright(7), Bright(7)),
   Style({"bold"}, "double", Indexed(9), Rgb(0, 42, 255)),
   Style({}, "dashed", Rgb(255, 1, 10), Indexed(231)),
   Style({}, "dotted", NoColor, Basic(0)),
   Style({"italic"}, "none", Bright(0), NoColor)}

Cursors ==
  {[kind |-> "cursor", move |-> m, n |-> n] : m \in {"up", "down", "left", "right"}, n \in {0, 12}}
    \cup {[kind |-> "cursor", move |-> "goto", row |-> rc[1], col |-> rc[2]] :
            rc \in GotoArguments({0, 2}, {0, 3, 10000})}
    \cup {[kind |-> "cursor", move |-> m] : m \in {"save", "restore"}}

Erases ==
  {[kind |-> "erase", part |-> p, final |-> f] : p \in {"0", "1", "2"}, f \in {"K", "J"}}

Modes == {[kind |-> k, mode |-> m] : k \in {"modeSet", "modeReset"}, m \in DOMAIN ModeNumber}

Kitties ==
  {[kind |-> "kitty", op |-> "push", flags |-> f] : f \in {0, 5, 31}}
    \cup {[kind |-> "kitty", op |-> "pop", count |-> n] : n \in {0, 12}}
    \cup {[kind |-> "kitty", op |-> "set", flags |-> 12, mode |-> m] : m \in {"set", "or", "andNot"}}
    \cup {[kind |-> "kitty", op |-> "query"]}

Paths == {<<"/">>, <<"/", "a", " ", "b">>, <<"a", ESC, "\\", "%">>, <<>>}
Hosts == {<<>>, <<"h">>}

Payloads == {<<>>, <<255, 0>>, <<27, 92, 7>>, <<1, 2, 3, 255>>}

Oscs ==
  {[kind |-> "osc7", host |-> h, path |-> p] : h \in Hosts, p \in Paths}
    \cup {[kind |-> "osc8", uri |-> u, id |-> i] : u \in {<<>>, <<"u", ";", "i">>}, i \in {<<>>, <<"x">>}}
    \cup {[kind |-> "osc52", payload |-> p] :
            p \in Payloads}
    \cup {[kind |-> "osc133", mark |-> m] : m \in DOMAIN MarkLetter}

Items == {Sgr(s) : s \in SomeStyles} \cup Cursors \cup Erases \cup Modes \cup Kitties \cup Oscs

Query(q) == [kind |-> "query", ask |-> q]
KittyQuery == [kind |-> "kitty", op |-> "query"]
Goto(r, c) == [kind |-> "cursor", move |-> "goto", row |-> r, col |-> c]
Paste(k)   == [kind |-> k, mode |-> "BracketedPaste"]

(* Every item by itself, cursor moves one after the other, and a question    *)
(* about what was just set.                                                 *)
First ==
  {<<i>> : i \in Items}
    \cup {<<Goto(2, 2), i, j>> : i \in Cursors, j \in {c \in Cursors : c.move \in {"up", "restore"}}}
    \cup {<<i, KittyQuery>> : i \in Kitties}
    \cup {<<Goto(1, 3), Query("dsr")>>, <<Paste("modeSet"), Query("decrpm")>>,
          <<Query("decrpm"), Query("da1")>>}
    \cup {<<[kind |-> "osc52", payload |-> p], Query("osc52")>> : p \in Payloads}

(* What follows: the redraw of a line, or a query.                          *)
Second ==
  {<<Goto(2, 1), [kind |-> "erase", part |-> "0", final |-> "K"],
     Sgr(Style({"bold"}, "none", Basic(2), NoColor))>>,
   <<Query("dsr")>>}

FirstThenSecond == <<First, Second>>

BrightBackground == << {<<Sgr(Style({}, "none", NoColor, Bright(n)))>> : n \in {0, 7}} >>

(* Keys: text, ESC, Alt+[, Alt+]. *)
KeyBytes ==
  {<<"x">>, <<ESC>>, <<ESC, "[">>, <<ESC, "]">>}

ASSUME KeysAssumption == KeysApart
ASSUME ItemsAssumption == PlainItems

Attributes62 == <<62, 4, 70000>>
=============================================================================
