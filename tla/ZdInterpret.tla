---------------------------- MODULE ZdInterpret ----------------------------
(***************************************************************************)
(* How zd finds the code of a story (start and interpret of                *)
(* zd/src/dis.rs): from each starting address it decodes one instruction   *)
(* after another, and goes into the target of each branch, call and jump   *)
(* before it continues after the instruction, until it comes to an         *)
(* address it has seen or to an instruction control does not go past.      *)
(*                                                                         *)
(* interpret is recursive; here its calls are frames of `stack`, and       *)
(* `control` says where the running call is: about to check its address    *)
(* ("enter"), at the head of its loop ("loop"), or returning ("return").   *)
(***************************************************************************)
EXTENDS ZdDecode

VARIABLES
  config,        \* what zd is given, one of Config
  phase,         \* "start", "run", then "done", "error" or "panic"
  roots,         \* the addresses disassembly starts at, in order
  rooted,        \* how many of them have been taken up
  control, pc, stack,
  seen,          \* seen_addresses
  instructions,  \* the addresses of the decoded instructions, in order
  routines       \* the addresses of the first instructions of routines

interpreter == <<control, pc, stack>>
found == <<seen, instructions, routines>>
vars == <<config, phase, roots, rooted, interpreter, found>>

(* zd with nothing done yet.                                                *)
Idle ==
  /\ phase = "start"
  /\ roots = <<>>
  /\ rooted = 0
  /\ control = "return"
  /\ pc = 0
  /\ stack = <<>>
  /\ seen = {}
  /\ instructions = <<>>
  /\ routines = {}

----------------------------------------------------------------------------
(* start: the addresses to begin at.                                       *)

(* handle_routine as start uses it: a packed address of 0 is no routine.   *)
Enterable(packed) == packed # 0 /\ RoutineEntry(config, packed).ok

Packable(addr) ==
  LET packed == Pack(config, addr) IN 0 <= packed /\ packed <= 65535

MainRoutine ==
  IF config.zversion = 6 THEN RoutineEntry(config, config.start).entry
                         ELSE config.start

MainFails == config.zversion = 6 /\ ~Enterable(config.start)

Given ==
  IF config.start_offset # <<>> \/ config.addresses = <<>> THEN <<0>>
                                                           ELSE config.addresses[1]

AddressFails(addr) ==
  addr # 0 /\ (~Packable(addr) \/ ~Enterable(Pack(config, addr)))

Root(addr) ==
  IF config.start_offset # <<>> THEN config.start_offset[1]
  ELSE IF addr = 0 THEN MainRoutine
  ELSE RoutineEntry(config, Pack(config, addr)).entry

RootRoutines ==
  {Root(Given[i]) : i \in {j \in 1..Len(Given) : Given[j] # 0}}
    \cup (IF config.zversion = 6 THEN {MainRoutine} ELSE {})

(* On an error none of what start has collected is used.                   *)
Begin ==
  /\ phase = "start"
  /\ IF MainFails \/ \E i \in 1..Len(Given) : AddressFails(Given[i])
       THEN phase' = "error" /\ UNCHANGED <<roots, routines>>
       ELSE /\ phase' = "run"
            /\ roots' = [i \in 1..Len(Given) |-> Root(Given[i])]
            /\ routines' = RootRoutines
  /\ UNCHANGED <<config, rooted, interpreter, seen, instructions>>

----------------------------------------------------------------------------
(* interpret.                                                              *)

Running(where) == phase = "run" /\ control = where

Enter(addr) == control' = "enter" /\ pc' = addr

(* The outermost call has returned: the next address, or the listing.      *)
NextRoot ==
  /\ Running("return")
  /\ stack = <<>>
  /\ rooted < Len(roots)
  /\ rooted' = rooted + 1
  /\ Enter(roots[rooted + 1])
  /\ UNCHANGED <<config, phase, roots, stack, found>>

Finish ==
  /\ Running("return")
  /\ stack = <<>>
  /\ rooted = Len(roots)
  /\ phase' = "done"
  /\ UNCHANGED <<config, roots, rooted, interpreter, found>>

(* The size check, made once for each call and not again as the call goes  *)
(* from one instruction to the next.                                       *)
CheckAddress ==
  /\ Running("enter")
  /\ IF InMemory(config, pc)
       THEN control' = "loop" /\ UNCHANGED phase
       ELSE IF config.ignore_errors
              THEN control' = "return" /\ UNCHANGED phase
              ELSE phase' = "error" /\ UNCHANGED control
  /\ UNCHANGED <<config, roots, rooted, pc, stack, found>>

(* Mutant: one instruction more. *)
LimitPassed ==
  /\ config.max_instructions # <<>>
  /\ Len(instructions) > config.max_instructions[1]

Limited ==
  /\ config.max_instructions # <<>>
  /\ Len(instructions) >= config.max_instructions[1]

StopAtLimit ==
  /\ Running("loop")
  /\ Limited
  /\ control' = "return"
  /\ UNCHANGED <<config, phase, roots, rooted, pc, stack, found>>

StopAtSeen ==
  /\ Running("loop")
  /\ ~Limited
  /\ pc \in seen
  /\ control' = "return"
  /\ UNCHANGED <<config, phase, roots, rooted, pc, stack, found>>

(* Mutant: does not look whether the address was seen. *)
VisitAgain ==
  /\ Running("loop")
  /\ ~Limited
  /\ seen' = seen \cup {pc}
  /\ UNCHANGED <<config, roots, rooted>>

Visit ==
  /\ Running("loop")
  /\ ~Limited
  /\ pc \notin seen
  /\ seen' = seen \cup {pc}
  /\ UNCHANGED <<config, roots, rooted>>

(* No instruction at pc: the end of the bytes or an unknown opcode ends    *)
(* this call or, like any read past the end, the whole disassembly.        *)
VisitNothing ==
  LET d == Decode(config, pc)
  IN /\ Visit
     /\ d.status # "ok"
     /\ IF d.status = "quit" \/ (d.status = "unknown" /\ config.ignore_errors)
          THEN control' = "return" /\ UNCHANGED phase
          ELSE /\ phase' = IF d.status = "panic" THEN "panic" ELSE "error"
               /\ UNCHANGED control
     /\ UNCHANGED <<pc, stack, instructions, routines>>

(* Mutants: the routine of every instruction; only one that is followed.   *)
CalledAlways(d) == {d.routine}
CalledFollowed(d) == IF config.story THEN {d.routine} \ {NoAddress} ELSE {}

(* The routine an instruction calls, if any.                               *)
Called(d) == {d.routine} \ {NoAddress}

(* Mutants: the caller returns with the call, or never returns.            *)
FrameReturning(next, returns) == [pc |-> next, returns |-> TRUE]
FrameContinuing(next, returns) == [pc |-> next, returns |-> FALSE]

Frame(next, returns) == [pc |-> next, returns |-> returns]

Follows(d) == d.to # NoAddress /\ config.story

VisitInstruction ==
  LET d == Decode(config, pc)
  IN /\ Visit
     /\ d.status = "ok"
     /\ instructions' = Append(instructions, pc)
     /\ routines' = routines \cup Called(d)
     /\ IF Follows(d)
          THEN /\ Enter(d.to)
               /\ stack' = Append(stack, Frame(d.next, d.returns))
          ELSE /\ control' = IF d.returns THEN "return" ELSE "loop"
               /\ pc' = d.next
               /\ UNCHANGED stack
     /\ UNCHANGED phase

(* Mutant: the frame stays. *)
NotPopped == stack

Popped == SubSeq(stack, 1, Len(stack) - 1)

(* The call made for a target has returned, to the instruction after which *)
(* the caller goes on or returns as well.                                  *)
Return ==
  /\ Running("return")
  /\ stack # <<>>
  /\ LET f == stack[Len(stack)]
     IN pc' = f.pc /\ control' = IF f.returns THEN "return" ELSE "loop"
  /\ stack' = Popped
  /\ UNCHANGED <<config, phase, roots, rooted, found>>

Ended == phase \in {"done", "error", "panic"} /\ UNCHANGED vars

Next ==
  \/ Begin
  \/ NextRoot
  \/ Finish
  \/ CheckAddress
  \/ StopAtLimit
  \/ StopAtSeen
  \/ VisitNothing
  \/ VisitInstruction
  \/ Return
  \/ Ended
============================================================================
