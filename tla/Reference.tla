----------------------------- MODULE Reference -----------------------------
(***************************************************************************)
(* The pinned reference toolchain: what tests/spec/REFERENCE.md says of    *)
(* it, what flake.nix evaluates, and the development shell that was built  *)
(* from some revision of it (xtask, spec/mod.rs).                          *)
(***************************************************************************)

CONSTANTS
  Revs,         \* the nixpkgs revisions
  Ships,        \* [Revs -> [bash, coreutils]]: the versions each ships
  NewBuiltins   \* the versions of bash whose builtins are not EXPECTED_BUILTINS

Missing    == "missing"      \* a key that is absent or not quoted
Branch     == "branch"       \* an input that follows a branch
NoDevshell == "no devshell"

Pinned(rev) ==
  [bash |-> Ships[rev].bash, coreutils |-> Ships[rev].coreutils,
   nixpkgs_rev |-> rev, nixpkgs_input |-> "nixpkgs-reference"]

ReferenceParses(doc) == Missing \notin {doc[key] : key \in DOMAIN doc}

(* The revision of the input's first url; none for a branch, or no input.   *)
FlakeRev(flake, input) == IF input \in DOMAIN flake THEN {flake[input]} \ {Branch} ELSE {}

(* A mutant: two revisions with the same versions pass for each other.      *)
VerifyVersions(pin, flakeRev, versions) ==
  pin.bash = versions.bash /\ pin.coreutils = versions.coreutils

VerifyPin(pin, flakeRev, versions) ==
  /\ pin.nixpkgs_rev = flakeRev
  /\ pin.bash = versions.bash
  /\ pin.coreutils = versions.coreutils

(* `spec versions`; the versions come from the shell's environment.         *)
VersionsAgree(doc, flake, devshell) ==
  /\ ReferenceParses(doc)
  /\ devshell # NoDevshell
  /\ \E rev \in FlakeRev(flake, doc.nixpkgs_input) : VerifyPin(doc, rev, Ships[devshell])

(* What `spec record` asks before it runs bash.                             *)
MayRecord(doc, devshell) ==
  /\ devshell # NoDevshell
  /\ ReferenceParses(doc)
  /\ doc.bash = Ships[devshell].bash

(* The drift check of `spec lint`.                                          *)
BuiltinsKnown(devshell) == devshell # NoDevshell /\ Ships[devshell].bash \notin NewBuiltins
=============================================================================
