------------------------------- MODULE Sheets -------------------------------
(***************************************************************************)
(* The spec sheets under Documents/specs, as the two programs that read    *)
(* them see them: `cargo xtask check-specs` (check_specs.rs) and the macro *)
(* refuse! (fredshell-spec-macros), each with a parser of its own.         *)
(*                                                                         *)
(* A table line is the sequence of its cells, empty ones included; the     *)
(* number of a row is a sequence of digits and dots; `cited` are the       *)
(* digit-and-dot words of section 6.                                       *)
(***************************************************************************)
EXTENDS Integers, Lists

CONSTANTS
  RowNumbers,   \* the cells that are row numbers
  Milestones    \* the classification cells "defer:N", each with its N

MandatorySections ==
  <<"1. Synopsis", "2. Description", "3. Support matrix", "4. Bash quirks",
    "5. Wontfix rationale", "6. Deferred rows", "8. References">>

OptionalPosixSection == "7. POSIX divergence"

NoSheet == [there |-> FALSE, headings |-> <<>>, lines |-> <<>>, cited |-> {}]

-----------------------------------------------------------------------------
(* check-specs                                                              *)

(* A recognised row: four cells, a row number, one of four classifications. *)
IsSupportRow(cells) ==
  /\ Len(cells) >= 4
  /\ cells[1] \in RowNumbers
  /\ cells[3] \in {"support", "wontfix", "???"} \cup DOMAIN Milestones

(* The rows of any section: the parser does not ask where a line stands.    *)
ParseSheet(text) ==
  LET rows == Keep(text.lines, {cells \in Range(text.lines) : IsSupportRow(cells)})
  IN  [i \in DOMAIN rows |->
         [number |-> rows[i][1], class |-> rows[i][3], corpus |-> rows[i][4]]]

(* A mutant: a bare `contains`.                                             *)
MentionsAnywhere(cited, number) ==
  \E word \in cited : \E i \in 1..Len(word) :
    /\ i + Len(number) - 1 <= Len(word)
    /\ SubSeq(word, i, i + Len(number) - 1) = number

(* An occurrence that a digit or a dot follows does not count; what stands  *)
(* before it is not looked at. (match_indices skips overlaps, which only a  *)
(* word like 3.3.3 has.)                                                    *)
EndsIn(word, number) ==
  /\ Len(word) >= Len(number)
  /\ SubSeq(word, Len(word) - Len(number) + 1, Len(word)) = number

MentionsRow(cited, number) == \E word \in cited : EndsIn(word, number)

SectionOrderOk(headings) ==
  LET canonical == Keep(headings, Range(MandatorySections) \cup {OptionalPosixSection})
      expected  == IF Contains(canonical, OptionalPosixSection)
                   THEN InsertAt(MandatorySections, 7, OptionalPosixSection)
                   ELSE MandatorySections
  IN  canonical = expected

SheetStructureOk(text) ==
  LET rows == ParseSheet(text)
  IN  /\ SectionOrderOk(text.headings)
      /\ \A i \in DOMAIN rows :
           /\ rows[i].class # "???"
           /\ rows[i].class \in DOMAIN Milestones => MentionsRow(text.cited, rows[i].number)

(* The support rows of a set of sheets, each with its sheet and its place.  *)
SupportRows(sheets) ==
  UNION {LET rows == ParseSheet(sheets[s])
         IN  {[sheet |-> s, at |-> i, corpus |-> rows[i].corpus] :
                i \in {j \in DOMAIN rows : rows[j].class = "support"}}
           : s \in {t \in DOMAIN sheets : sheets[t].there}}

-----------------------------------------------------------------------------
(* refuse!                                                                  *)

(* The macro drops every empty cell before it counts, and takes any third   *)
(* cell for a classification.                                               *)
MacroRows(text) ==
  LET full(cells)  == Keep(cells, Range(cells) \ {""})
      isRow(cells) == Len(full(cells)) >= 3 /\ full(cells)[1] \in RowNumbers
      rows         == Keep(text.lines, {cells \in Range(text.lines) : isRow(cells)})
  IN  [i \in DOMAIN rows |->
         [number |-> full(rows[i])[1], summary |-> full(rows[i])[2], class |-> full(rows[i])[3]]]

(* What a row must be classified as, for each form of refuse!.              *)
WantClass(form) == IF form = "wontfix" THEN {"wontfix"} ELSE DOMAIN Milestones

(* The first row of that number decides; the call site compiles if there is *)
(* one and its class is the one the form asks for.                          *)
RowAt(sheets, site) ==
  LET rows  == MacroRows(sheets[site.sheet])
      there == {i \in DOMAIN rows : rows[i].number = site.number}
  IN  IF there = {} THEN {} ELSE {rows[CHOOSE i \in there : \A j \in there : i <= j]}

Resolves(sheets, site) ==
  /\ sheets[site.sheet].there
  /\ \E row \in RowAt(sheets, site) : row.class \in WantClass(site.form)

RefusalExitStatus == 2

(* The Refusal a call site expands to.                                      *)
Expand(sheets, site) ==
  LET row == CHOOSE r \in RowAt(sheets, site) : TRUE
  IN  [sheet |-> site.sheet, number |-> site.number, summary |-> row.summary,
       kind |-> site.form, exit |-> RefusalExitStatus,
       milestone |-> IF site.form = "defer" THEN Milestones[row.class] ELSE ""]
=============================================================================
