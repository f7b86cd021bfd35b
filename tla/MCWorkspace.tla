---------------------------- MODULE MCWorkspace ----------------------------
(***************************************************************************)
(* Instances of Workspace for TLC: two cases, two scripts, one sheet with  *)
(* a few texts, three revisions of nixpkgs.                                *)
(***************************************************************************)
EXTENDS Workspace

TwoCases   == {"tier1/cd", "tier1/echo"}
Categories == [c \in TwoCases |-> "tier1"]
TwoScripts == {"quiet", "noisy"}

Deferred == [kind |-> "deferred", plan |-> "PLAN_11"]
Text(status, script) == [there |-> TRUE, schema |-> TRUE, status |-> status, script |-> script]

Texts ==
  {NoCase,
   Text(Pass, "noisy"), Text(Pass, "quiet"), Text(Deferred, "noisy"),
   Text([kind |-> "wontfix", plan |-> NoPlan], "quiet"),
   Text([kind |-> "fail", plan |-> NoPlan], "noisy"),
   Text([kind |-> "deferred", plan |-> NoPlan], "quiet"),
   [Text(Pass, "quiet") EXCEPT !.schema = FALSE]}

Cells == [p \in TwoCases \cup {"./tier1/cd"} |-> IF p = "./tier1/cd" THEN "tier1/cd" ELSE p]

(* What bash does: bash 5.2 and 5.3 differ on one script, which dies in 5.2. *)
Quiet  == [stdout |-> "", stderr |-> "", exit |-> "0"]
Noisy  == [stdout |-> "out", stderr |-> "", exit |-> "1"]
Killed == [stdout |-> "out", stderr |-> "", exit |-> "signal"]
Bash ==
  [s \in TwoScripts |->
     IF s = "quiet" THEN [v \in {"5.2", "5.3"} |-> Quiet]
     ELSE [v \in {"5.2", "5.3"} |-> IF v = "5.2" THEN Killed ELSE Noisy]]

(* The beginnings of what is written, where they are told from the empty    *)
(* one: those that are another number.                                      *)
Beginnings == [v \in {"out", "1", "127"} |-> IF v = "127" THEN {"12"} ELSE {}]

Ran(result) == [how |-> "ran", stdout |-> result.stdout, stderr |-> result.stderr, exit |-> result.exit]
Refused     == [how |-> "refused", stdout |-> "", stderr |-> "", exit |-> "0"]
Failed      == [how |-> "failed", stdout |-> "", stderr |-> "", exit |-> "0"]
Died        == [Killed EXCEPT !.exit = "127"]
Shells == {Ran(Quiet), Ran(Died), Refused, Failed}
Start  == [s \in TwoScripts |-> IF s = "quiet" THEN Ran(Quiet) ELSE Refused]

Numbers   == {"3.1", "3.2", "3.13"}
DeferCells == [c \in {"defer:2"} |-> "2"]
Row(n, b, class, corpus) == <<n, b, class, corpus>>
Sheet(lines, cited) ==
  [there |-> TRUE, headings |-> MandatorySections, lines |-> lines, cited |-> cited]

(* The header, rows, and what authors get wrong: a case in two rows, a case *)
(* by another spelling, no Corpus cell, an empty Behaviour cell, a prefix   *)
(* of a row number, a longer number that ends in it, sections out of order. *)
Header == <<"#", "Behaviour", "Classification", "Corpus">>
CdRow   == Row("3.1", "cd dir", "support", "tier1/cd")
EchoRow == Row("3.2", "echo", "support", "tier1/echo")
Good    == Sheet(<<Header, CdRow, EchoRow, Row("3.13", "cd -e", "defer:2", "n/a")>>, {"3.13"})
SheetVariants ==
  {Good,
   Sheet(<<Row("3.2", "cd dir", "support", "tier1/cd"), Row("3.13", "echo", "support", "tier1/echo"),
           Row("3.1", "cd -e", "defer:2", "n/a")>>, {"3.13"}),
   Sheet(<<CdRow, EchoRow, Row("3.13", "cd -P", "wontfix", "n/a")>>, {}),
   Sheet(<<CdRow, Row("3.2", "", "support", "tier1/cd"), <<"3.13", "cd -e", "defer:2">> >>, {"3.13"}),
   Sheet(<<CdRow, Row("3.2", "cd -L", "support", "./tier1/cd"), Row("3.13", "?", "???", "")>>, {}),
   Sheet(<<CdRow, <<"3.13", "cd -e", "defer:2">> >>, {}),
   Sheet(<<EchoRow, Row("3.1", "cd -e", "defer:2", "n/a")>>, {"13.1"}),
   [Good EXCEPT !.headings = InsertAt(MandatorySections, 7, OptionalPosixSection)],
   [Good EXCEPT !.headings = <<OptionalPosixSection>> \o MandatorySections],
   NoSheet}

Sites ==
  [form : {"wontfix", "defer"}, sheet : {"cd"}, number : {"3.1", "3.13"}]

Nix == [r \in {"r1", "r2", "r3"} |->
          [bash |-> IF r = "r3" THEN "5.3" ELSE "5.2", coreutils |-> "9.5"]]
Docs == {Pinned(r) : r \in {"r1", "r2", "r3"}} \cup {[Pinned("r1") EXCEPT !.coreutils = Missing],
         [Pinned("r2") EXCEPT !.bash = "5.3"]}

AllOf(status, plan) == [Everything EXCEPT !.status = status, !.plan = plan]
Filters ==
  {Everything, [AllOf("deferred", NoPlan) EXCEPT !.category = "tier1"]}

Begin ==
  [c \in TwoCases |-> IF c = "tier1/cd" THEN Text(Pass, "quiet") ELSE Text(Deferred, "noisy")]
BeginSheets == [s \in {"cd"} |-> Good]
=============================================================================
