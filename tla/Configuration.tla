--------------------------- MODULE Configuration ---------------------------
(***************************************************************************)
(* The rules config.rs resolves a publisher's configuration by.  A         *)
(* configuration is the record of what the rules compare; whether a name   *)
(* is blank, a template or well formed is part of its value.               *)
(***************************************************************************)

Methods == {"replace", "update", "update_existing"}

Config ==
  [method : Methods,
   key : BOOLEAN,                                \* `primary_key`
   operation : BOOLEAN,                          \* `operation`
   wait : BOOLEAN,                               \* `wait_for_task`
   index : {"blank", "fixed", "template"},       \* `index`, or the route's name
   where : {"none", "equality", "malformed"},    \* `update_where`
   into : {"none", "field", "path"},             \* `update_into`
   swap : {"none", "fixed", "same", "template"}] \* `swap_into`; same: as `index`

KeyNeeded(c) == c.operation \/ c.method = "update_existing" \/ c.where # "none"

AddsOnly(c) == c.method = "update_existing" \/ c.where # "none"

PatchRules(c) == \/ c.where = "none" /\ c.into = "none"
                 \/ c.where = "equality" /\ c.into = "field" /\ c.method # "update_existing"

(* Mutant: a rebuild need not wait for its writes. *)
SwapRulesUnconfirmed(c) ==
  c.swap # "none" => c.swap = "fixed" /\ c.index = "fixed" /\ c.where = "none"

SwapRules(c) ==
  c.swap # "none" =>
    c.swap = "fixed" /\ c.index = "fixed" /\ c.wait /\ c.where = "none"

(* resolve returns the configuration rather than an error. *)
Accepted(c) ==
  /\ c.index # "blank"
  /\ KeyNeeded(c) => c.key
  /\ AddsOnly(c) => ~c.operation
  /\ PatchRules(c)
  /\ SwapRules(c)

=============================================================================
