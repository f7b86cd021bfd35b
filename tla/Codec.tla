-------------------------------- MODULE Codec --------------------------------
(***************************************************************************)
(* A program and a terminal in conversation through fredshell-ansi: the    *)
(* program writes batches of items with encode_all, the terminal obeys the *)
(* bytes and answers, and the program decodes the answers from a stream in *)
(* which they arrive byte by byte between the keys of the user, recovering *)
(* the way the probe does.                                                 *)
(***************************************************************************)
EXTENDS AnsiEncode, AnsiDecode, Vt, FiniteSets

CONSTANTS
  Batches,      \* bound: the batches the program may write first, second, ...
  Noise,        \* what keys send
  MaxNoise,     \* bound: keys
  DeviceAttributes,  \* what the terminal answers to a DA1 query
  Debug         \* cfg(debug_assertions)

ASSUME CodecAssumption ==
  /\ MaxNoise \in Nat
  /\ Batches \in Seq(SUBSET Seq(Item))
  /\ Noise \subseteq Seq(STRING)
  /\ DeviceAttributes \in Seq(FiveDigits) /\ Len(DeviceAttributes) \in 1..MaxParams
  /\ Debug \in BOOLEAN

VARIABLES
  todo,      \* items of the batch encode_all has not reached
  result,    \* how encode_all stands: "idle", "writing", "ok", "error", "panic"
  batches,   \* batches begun (bound)
  promised,  \* encoded_len_all of the batch
  wrote,     \* bytes of the batch the writer took (CountingWriter)
  out,       \* bytes on their way to the terminal
  screen,    \* the state of the terminal
  asked,     \* history: that state, had the items themselves been obeyed
  back,      \* bytes on their way to the program
  inbox,     \* bytes received and not decoded
  told,      \* history: what the terminal has answered
  heard,     \* what the program has decoded
  queries,   \* queries the program has written
  noise      \* keys so far (bound)

writeVars == <<todo, result, batches, promised, wrote, asked>>
termVars  == <<out, screen>>
readVars  == <<inbox, heard>>
vars == <<writeVars, queries, termVars, back, told, readVars, noise>>

Answers ==
  [kind : {"da1"}, id : U16, capabilities : Seq(U16)]
    \cup [kind : {"dsr"}, row : U16, col : U16]
    \cup [kind : {"kitty"}, flags : 0..255]
    \cup [kind : {"decrpm"}, mode : U16, state : ToSet(ModeStates) \cup {"Other"}]
    \cup [kind : {"osc52"}, selection : Selections, payload : Seq(0..255)]

(* What the caller gets is always in the range of its Rust type. *)
TypeOK ==
  /\ result \in {"idle", "writing", "ok", "error", "panic"}
  /\ promised \in Nat /\ wrote \in Nat
  /\ batches \in 0..Len(Batches) /\ queries \in Nat /\ noise \in 0..MaxNoise
  /\ \A i \in 1..Len(heard) : heard[i] \in Answers
  /\ DOMAIN screen = DOMAIN BlankScreen /\ DOMAIN asked = DOMAIN BlankScreen
  /\ screen.at \in (1..ScreenSize) \X (1..ScreenSize)
  /\ asked.at \in (1..ScreenSize) \X (1..ScreenSize)

Init ==
  /\ todo = <<>>
  /\ result = "idle"
  /\ batches = 0
  /\ promised = 0
  /\ wrote = 0
  /\ out = <<>>
  /\ screen = BlankScreen
  /\ asked = BlankScreen
  /\ back = <<>>
  /\ inbox = <<>>
  /\ told = <<>>
  /\ heard = <<>>
  /\ queries = 0
  /\ noise = 0

-----------------------------------------------------------------------------
(* encode_all                                                               *)

(* What an item is for, in the words of its doc comment. *)
Meaning(t, i) ==
  LET rows(n) == [t EXCEPT !.at = <<Clip(n), t.at[2]>>]
      cols(n) == [t EXCEPT !.at = <<t.at[1], Clip(n)>>]
      top == t.kitty[Len(t.kitty)]
      over(new, old) == IF new = NoColor THEN old ELSE new
  IN CASE i.kind = "sgr" /\ i.style = ResetStyle -> [t EXCEPT !.style = NoStyle]
       [] i.kind = "sgr" /\ i.style # ResetStyle ->
            [t EXCEPT !.style =
               Style(@.attrs \cup i.style.attrs,
                     IF i.style.underline = "none" THEN @.underline ELSE i.style.underline,
                     over(i.style.fg, @.fg), over(i.style.bg, @.bg))]
       [] i.kind = "cursor" /\ i.move = "up"    -> rows(t.at[1] - i.n)
       [] i.kind = "cursor" /\ i.move = "down"  -> rows(t.at[1] + i.n)
       [] i.kind = "cursor" /\ i.move = "left"  -> cols(t.at[2] - i.n)
       [] i.kind = "cursor" /\ i.move = "right" -> cols(t.at[2] + i.n)
       [] i.kind = "cursor" /\ i.move = "goto"  -> [t EXCEPT !.at = <<Clip(i.row), Clip(i.col)>>]
       [] i.kind = "cursor" /\ i.move = "save"  -> [t EXCEPT !.saved = t.at]
       [] i.kind = "cursor" /\ i.move = "restore" -> [t EXCEPT !.at = t.saved]
       [] i.kind = "erase" -> [t EXCEPT !.erased = <<DigitValue[i.part], i.final>>]
       [] i.kind = "modeSet" -> [t EXCEPT !.modes = @ \cup {ModeNumber[i.mode]}]
       [] i.kind = "modeReset" -> [t EXCEPT !.modes = @ \ {ModeNumber[i.mode]}]
       [] i.kind = "kitty" /\ i.op = "push" -> [t EXCEPT !.kitty = Append(@, Bits(i.flags))]
       [] i.kind = "kitty" /\ i.op = "pop" ->
            [t EXCEPT !.kitty = PopStack(@, IF i.count = 0 THEN 1 ELSE i.count)]
       [] i.kind = "kitty" /\ i.op = "set" ->
            [t EXCEPT !.kitty[Len(t.kitty)] =
               CASE i.mode = "set" -> Bits(i.flags)
                 [] i.mode = "or" -> top \cup Bits(i.flags)
                 [] i.mode = "andNot" -> top \ Bits(i.flags)]
       [] i.kind = "osc7" ->
            [t EXCEPT !.cwd = IF i.path # <<>> /\ i.path[1] = "/" THEN i.path
                              ELSE <<"/">> \o i.path]
       [] i.kind = "osc8" -> [t EXCEPT !.link = i.uri]
       [] i.kind = "osc52" -> [t EXCEPT !.clip = i.payload]
       [] i.kind = "osc133" -> [t EXCEPT !.mark = i.mark]
       [] OTHER -> t                                       \* queries

IsQuery(i) == i.kind = "query" \/ (i.kind = "kitty" /\ i.op = "query")

Begin ==
  /\ result \in {"idle", "ok", "error"}
  /\ batches < Len(Batches)
  /\ batches' = batches + 1
  /\ \E batch \in Batches[batches + 1] :
       /\ todo' = batch
       /\ promised' = EncodedLenAll(batch)
  /\ result' = "writing"
  /\ wrote' = 0
  /\ UNCHANGED <<asked, termVars, back, told, readVars, queries, noise>>

(* encode_checked(): a debug build panics when the count is not the one     *)
(* announced, after the bytes have been written.                            *)
EncodeItem ==
  /\ result = "writing"
  /\ todo # <<>>
  /\ LET bytes == EncodeDyn(Head(todo))
         broken == Debug /\ Len(bytes) # EncodedLenDyn(Head(todo))
     IN /\ out' = out \o bytes
        /\ wrote' = wrote + Len(bytes)
        /\ todo' = IF broken THEN <<>> ELSE Tail(todo)
        /\ result' = IF broken THEN "panic" ELSE "writing"
  /\ asked' = Meaning(asked, Head(todo))
  /\ queries' = queries + (IF IsQuery(Head(todo)) THEN 1 ELSE 0)
  /\ UNCHANGED <<batches, promised, screen, back, told, readVars, noise>>

(* The writer fails within an item, some of whose bytes it may have taken:  *)
(* encode_all returns the error and writes no further item.                 *)
WriterFails ==
  /\ result = "writing"
  /\ todo # <<>>
  /\ \E k \in 0..(Len(EncodeDyn(Head(todo))) - 1) :
       /\ out' = out \o SubSeq(EncodeDyn(Head(todo)), 1, k)
       /\ wrote' = wrote + k
  /\ todo' = <<>>
  /\ result' = "error"
  /\ UNCHANGED <<asked, batches, promised, screen, back, told, readVars, queries, noise>>

EncodeDone ==
  /\ result = "writing"
  /\ todo = <<>>
  /\ result' = "ok"
  /\ UNCHANGED <<todo, batches, promised, wrote, asked, termVars, back, told,
                 readVars, queries, noise>>

-----------------------------------------------------------------------------
(* The terminal.                                                            *)

Answer(kind) ==
  CASE kind = "da1"    -> [kind |-> "da1", id |-> DeviceAttributes[1],
                           capabilities |-> Tail(DeviceAttributes)]
    [] kind = "dsr"    -> [kind |-> "dsr", row |-> screen.at[1], col |-> screen.at[2]]
    [] kind = "kitty"  -> [kind |-> "kitty", flags |-> Number(screen.kitty[Len(screen.kitty)])]
    [] kind = "decrpm" -> [kind |-> "decrpm", mode |-> ModeNumber["BracketedPaste"],
                           state |-> IF ModeNumber["BracketedPaste"] \in screen.modes
                                     THEN "Set" ELSE "Reset"]
    [] kind = "osc52"  -> [kind |-> "osc52", selection |-> "c", payload |-> screen.clip]

(* Some terminals end an OSC with BEL. *)
AnswerBytes(a) ==
  CASE a.kind = "da1"    -> {CSI \o <<"?">> \o Join([i \in 1..(1 + Len(a.capabilities)) |->
                               Itoa(DeviceAttributes[i])], ";") \o <<"c">>}
    [] a.kind = "dsr"    -> {CSI \o Itoa(a.row) \o <<";">> \o Itoa(a.col) \o <<"R">>}
    [] a.kind = "kitty"  -> {CSI \o <<"?">> \o Itoa(a.flags) \o <<"u">>}
    [] a.kind = "decrpm" -> {CSI \o <<"?">> \o Itoa(a.mode) \o <<";">>
                               \o (IF a.state = "Set" THEN <<"1">> ELSE <<"2">>) \o <<"$", "y">>}
    [] a.kind = "osc52"  -> {OSC \o <<"5", "2", ";", "c", ";">> \o Base64(a.payload) \o end :
                               end \in {ST, <<BEL>>}}

Says(a) ==
  /\ told' = Append(told, a)
  /\ \E bytes \in AnswerBytes(a) : back' = back \o bytes

(* What a whole sequence asks for. *)
AskedFor(bytes) == {q \in DOMAIN QueryBytes : QueryBytes[q] = bytes}

TerminalObeys ==
  LET front == NextSequence(out)
      bytes == SubSeq(out, 1, front.len)
  IN /\ front.kind # "none"
     /\ out' = SubSeq(out, front.len + 1, Len(out))
     /\ screen' = Obey(screen, front.kind, bytes)
     /\ \/ AskedFor(bytes) = {} /\ UNCHANGED <<told, back>>
        \/ \E q \in AskedFor(bytes) : Says(Answer(q))
     /\ UNCHANGED <<writeVars, readVars, queries, noise>>

(* The program, one thread, reads while it has asked and not heard. *)
Reading == result \in {"ok", "error"} /\ Len(heard) < queries

PressKey(bytes) ==
  /\ Reading
  /\ noise < MaxNoise
  /\ noise' = noise + 1
  /\ back' = back \o bytes
  /\ UNCHANGED <<writeVars, termVars, told, readVars, queries>>

-----------------------------------------------------------------------------
(* The program reads.                                                       *)

Arrive ==
  /\ Reading
  /\ back # <<>>
  /\ inbox' = Append(inbox, Head(back))
  /\ back' = Tail(back)
  /\ UNCHANGED <<writeVars, termVars, told, heard, queries, noise>>

Accepted == {d \in Decoders : Decode(d, inbox).result = "ok"}
Rejected == {d \in Decoders : Decode(d, inbox).result = "malformed"}

(* The loop the probe runs (decode_available, try_decode_one): the first    *)
(* decoder that accepts the head of the buffer takes it, one that may yet   *)
(* accept it waits, and when all reject it one byte is dropped.             *)
Take ==
  /\ Reading
  /\ inbox # <<>>
  /\ \E d \in Accepted :
       /\ heard' = Append(heard, Decode(d, inbox).value)
       /\ inbox' = SubSeq(inbox, Decode(d, inbox).consumed + 1, Len(inbox))
  /\ UNCHANGED <<writeVars, termVars, back, told, queries, noise>>

Drop ==
  /\ Reading
  /\ inbox # <<>>
  /\ Rejected = Decoders
  /\ inbox' = Tail(inbox)
  /\ UNCHANGED <<writeVars, termVars, back, told, heard, queries, noise>>

Next ==
  \/ Begin \/ EncodeItem \/ WriterFails \/ EncodeDone
  \/ TerminalObeys
  \/ \E bytes \in Noise : PressKey(bytes)
  \/ Arrive \/ Take \/ Drop

Spec == Init /\ [][Next]_vars

-----------------------------------------------------------------------------
(* Properties.                                                              *)

(* Encode: encoded_len "exactly equals the number of bytes encode writes",  *)
(* for every item of a batch, whatever came before it.                      *)
LenIsExact ==
  /\ result # "panic"
  /\ result = "ok" => wrote = promised

(* The text of a link is "written verbatim" and "must not contain a literal *)
(* ST"; nor the ESC and the BEL that end an OSC as well, nor its id the ";" *)
(* that ends the parameters. A path is of the bytes PercentCode knows and a *)
(* host has no slash.                                                       *)
Plain(i) ==
  /\ i.kind = "osc7" => i.host \in Seq(PathBytes \ {"/"}) /\ i.path \in Seq(PathBytes)
  /\ i.kind = "osc8" => /\ (ToSet(i.uri) \cup ToSet(i.id)) \cap {ESC, BEL} = {}
                        /\ ";" \notin ToSet(i.id)
PlainItems ==
  \A n \in DOMAIN Batches : \A batch \in Batches[n] : \A i \in ToSet(batch) : Plain(i)

(* Once the terminal has caught up, it is in the state the items written in *)
(* full describe, whichever writes failed halfway in between: every item is *)
(* a sequence complete in itself, means what its doc says, and neither adds *)
(* to nor spoils the next one. The items are plain.                         *)
TerminalAsAsked == NextSequence(out).kind = "none" => screen = asked

(* The values the program decodes are the answers the terminal gave, each   *)
(* once and in order, wherever the stream was cut and whatever keys were    *)
(* pressed in between; a number too large for its type is its largest.      *)
Reported(a) ==
  IF a.kind = "da1"
  THEN [kind |-> "da1", id |-> Clamp(a.id),
        capabilities |-> [i \in DOMAIN a.capabilities |-> Clamp(a.capabilities[i])]]
  ELSE a

(* provided no keys together send what passes for an answer: that takes an  *)
(* ESC and a parameter.                                                     *)
Typed == UNION {ToSet(bytes) : bytes \in Noise}
KeysApart == ESC \notin Typed \/ Typed \cap (Digits \cup {";"}) = {}

AnswersAreTrue ==
  IsPrefix(heard, [i \in 1..Len(told) |-> Reported(told[i])])

(* A caller that decodes as the probe does and still misses an answer when  *)
(* all bytes are in has something left to do: no answer is thrown away with *)
(* the keys around it, or waited for although it is there.                  *)
NoAnswerStuck ==
  Reading /\ NextSequence(out).kind = "none" /\ back = <<>>
    => inbox # <<>> /\ (Accepted # {} \/ Rejected = Decoders)

(* No two decoders accept the same bytes: what an answer means does not     *)
(* depend on the order in which a caller tries them.                        *)
OneMeaning == Cardinality(Accepted) <= 1

(* A decoder's verdict other than Incomplete stands, however much more      *)
(* arrives: a caller may act on it at once.                                 *)
DecisionIsFinal ==
  [][inbox # <<>> /\ Len(inbox') > Len(inbox) =>
       \A d \in Decoders :
         Decode(d, inbox).result # "incomplete" => Decode(d, inbox') = Decode(d, inbox)]_vars

=============================================================================
