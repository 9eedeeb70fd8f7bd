------------------------------ MODULE Linkage ------------------------------
(***************************************************************************)
(* What an assembler promises about names, whatever its passes and its     *)
(* output format: a name is bound once, a use may come before or after the *)
(* binding, and an output exists only when every use in it, read back, has *)
(* become the address its name is bound to.                                *)
(***************************************************************************)
EXTENDS Naturals, Sequences

CONSTANT Names

VARIABLES
  outcome,    \* "open", then "linked" or "failed" for good
  bindings,   \* name -> address
  uses,       \* the names used, in order
  values      \* what each use reads as in the output; << >> until linked

vars == <<outcome, bindings, uses, values>>

Init ==
  /\ outcome = "open"
  /\ bindings = [l \in {} |-> 0]
  /\ uses = <<>>
  /\ values = <<>>

Bind(l) ==
  /\ outcome = "open"
  /\ l \notin DOMAIN bindings
  /\ DOMAIN bindings' = DOMAIN bindings \cup {l}
  /\ bindings'[l] \in Nat
  /\ \A k \in DOMAIN bindings : bindings'[k] = bindings[k]
  /\ UNCHANGED <<outcome, uses, values>>

Use(l) ==
  /\ outcome = "open"
  /\ uses' = Append(uses, l)
  /\ UNCHANGED <<outcome, bindings, values>>

(* All uses at once, and only if every one of them has a binding.          *)
Link ==
  /\ outcome = "open"
  /\ \A i \in 1..Len(uses) : uses[i] \in DOMAIN bindings
  /\ outcome' = "linked"
  /\ values' = [i \in 1..Len(uses) |-> bindings[uses[i]]]
  /\ UNCHANGED <<bindings, uses>>

(* A failure promises nothing but that it is final.                        *)
Abandon ==
  /\ outcome = "open"
  /\ outcome' = "failed"
  /\ bindings' = [l \in {} |-> 0]
  /\ uses' = <<>>
  /\ UNCHANGED values

Next ==
  \/ \E l \in Names : Bind(l)
  \/ \E l \in Names : Use(l)
  \/ Link
  \/ Abandon

Spec == Init /\ [][Next]_vars
============================================================================
