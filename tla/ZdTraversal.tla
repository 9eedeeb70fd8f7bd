---------------------------- MODULE ZdTraversal ----------------------------
(***************************************************************************)
(* zd by itself, given any story, or any bytes, under any of its options:  *)
(* what its walk through the code (ZdInterpret) finds, and that it is a    *)
(* search (Reachability) that ends.                                        *)
(***************************************************************************)
EXTENDS ZdInterpret

CONSTANT Configs   \* what zd may be given

ASSUME ConfigsAssumption == Configs \subseteq Config

Init == config \in Configs /\ Idle

(* zd is one thread that is never kept from its next step.                 *)
Spec == Init /\ [][Next]_vars /\ WF_vars(Next)

----------------------------------------------------------------------------
TypeOK ==
  /\ config \in Config
  /\ phase \in {"start", "run", "done", "error", "panic"}
  /\ roots \in Seq(Int)
  /\ rooted \in 0..Len(roots)
  /\ control \in {"enter", "loop", "return"}
  /\ pc \in Int
  /\ stack \in Seq([pc : Int, returns : BOOLEAN])
  /\ seen \subseteq Int
  /\ instructions \in Seq(Int)
  /\ routines \subseteq Int

----------------------------------------------------------------------------
(* The graph zd explores: from an instruction control goes to the next     *)
(* one, unless the instruction never continues there, and to its target    *)
(* if that lies in memory.                                                 *)
Successors(c, a) ==
  LET d == Decode(c, a)
  IN IF d.status # "ok" THEN {}
     ELSE (IF d.returns THEN {} ELSE {d.next})
            \cup (IF d.to # NoAddress /\ c.story /\ InMemory(c, d.to)
                    THEN {d.to} ELSE {})

RootsIn(c) == {roots[i] : i \in {j \in 1..Len(roots) : InMemory(c, roots[j])}}

(* Whatever the nesting of its calls, zd makes a search: each step visits  *)
(* one address that it has a way to, gives up, or ends with nothing left.  *)
Search ==
  INSTANCE Reachability WITH
    Graphs <- Configs,
    Succ <- Successors,
    graph <- config,
    outcome <- CASE phase = "start" -> "idle"
                 [] phase = "run"   -> "searching"
                 [] phase = "done"  -> IF Limited THEN "partial" ELSE "complete"
                 [] OTHER           -> "failed",
    starts <- RootsIn(config),
    visited <- seen

Searches == Search!Spec

(* When zd lists what it found and no limit cut it short, it has seen      *)
(* every address that can be reached from where it started: no branch is   *)
(* lost on the way through the nested calls of interpret, with -i neither. *)
NothingMissed ==
  phase = "done" /\ ~Limited =>
    /\ RootsIn(config) \subseteq seen
    /\ \A a \in seen : Successors(config, a) \subseteq seen

(* It lists each instruction once, each lies in memory to its last byte,   *)
(* and all are addresses it has seen.                                      *)
ListedOnce ==
  /\ \A i, j \in 1..Len(instructions) :
       instructions[i] = instructions[j] => i = j
  /\ \A i \in 1..Len(instructions) :
       /\ instructions[i] \in seen
       /\ Decode(config, instructions[i]).next <= Size(config)

(* The count of --max-instructions is never exceeded, whatever the nested  *)
(* calls still have to do when it is reached.                              *)
WithinLimit ==
  config.max_instructions # <<>> =>
    Len(instructions) <= config.max_instructions[1]

(* The routines of the listing are those of the addresses given and of the *)
(* calls decoded, whatever became of the code in them.                     *)
RoutinesOfCalls ==
  phase \in {"run", "done"} =>
    routines = RootRoutines \cup
      ({Decode(config, instructions[i]).routine : i \in 1..Len(instructions)}
         \ {NoAddress})

(* zd ends, however the branches and calls of the story loop.              *)
Terminates == <>(phase \in {"done", "error", "panic"})

(* Disassembly starts in every routine whose address was given with -a.    *)
IsRoutine(addr) ==
  /\ addr % PackFactor(config) = 0
  /\ InMemory(config, addr)
  /\ config.zversion <= 4 =>
       InMemory(config, addr + 2 * ByteAt(config, addr))

AddressesHonoured ==
  /\ config.start_offset = <<>>
  /\ \A i \in 1..Len(Given) : Given[i] # 0 /\ IsRoutine(Given[i])
  /\ ~MainFails
  /\ phase # "start"
  => /\ Len(roots) = Len(Given)
     /\ \A i \in 1..Len(roots) :
          roots[i] = Given[i] + 1 + (IF config.zversion <= 4
                                       THEN 2 * ByteAt(config, Given[i]) ELSE 0)
============================================================================
