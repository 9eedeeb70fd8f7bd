----------------------------- MODULE ZaLinkage -----------------------------
(***************************************************************************)
(* The assembler of ZaAssembler keeps the promise of Linkage.  The values  *)
(* of the uses are not a variable of the assembler: they are what zd reads *)
(* in the bytes of the finished file.                                      *)
(***************************************************************************)
EXTENDS ZaAssembler

Failed == phase = "error"

Linked ==
  INSTANCE Linkage WITH
    Names <- Labels,
    outcome <- IF Failed THEN "failed"
               ELSE IF phase = "done" THEN "linked" ELSE "open",
    bindings <- IF Failed THEN [l \in {} |-> 0] ELSE labels,
    uses <- IF Failed THEN <<>>
            ELSE [i \in 1..Len(label_targets) |-> label_targets[i].label],
    values <- IF phase = "done"
                THEN [i \in 1..Len(label_targets) |->
                        Denotes(label_targets[i])]
                ELSE <<>>

(* Every step of the assembler is a step of Linkage or invisible to it:    *)
(* the patches apply_label_targets makes one at a time amount to a single  *)
(* Link, made by the step that completes the file, with no way to a linked *)
(* file but that, and no way back from a failure.                          *)
KeepsLinkage == Linked!Spec
============================================================================
