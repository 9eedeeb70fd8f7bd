---------------------------- MODULE Reachability ----------------------------
(***************************************************************************)
(* The search that a recursive disassembler performs, without its order:   *)
(* visit, one at a time, nodes that are starts or successors of visited    *)
(* nodes, and finish when nothing is left to visit.  The outcome "partial" *)
(* is that of a search told to stop early, "failed" that of one that came  *)
(* to something it could make no sense of.                                 *)
(***************************************************************************)
CONSTANTS
  Graphs,         \* the graphs a search may be made in
  Succ(_, _)      \* the successors of a node in a graph

VARIABLES graph, outcome, starts, visited

vars == <<graph, outcome, starts, visited>>

Init ==
  /\ graph \in Graphs
  /\ outcome = "idle"
  /\ starts = {}
  /\ visited = {}

(* The starts may be any set: what they are is not the search's business.  *)
Begin ==
  /\ outcome = "idle"
  /\ outcome' = "searching"
  /\ UNCHANGED <<graph, visited>>

Reached == starts \cup UNION {Succ(graph, n) : n \in visited}

Visit(n) ==
  /\ outcome = "searching"
  /\ n \notin visited
  /\ visited' = visited \cup {n}
  /\ outcome' \in {"searching", "failed"}
  /\ UNCHANGED <<graph, starts>>

Finish ==
  /\ outcome = "searching"
  /\ Reached \subseteq visited
  /\ outcome' = "complete"
  /\ UNCHANGED <<graph, starts, visited>>

GiveUp ==
  /\ outcome \in {"idle", "searching"}
  /\ outcome' \in {"partial", "failed"}
  /\ UNCHANGED <<graph, starts, visited>>

Next ==
  \/ Begin
  \/ \E n \in Reached : Visit(n)
  \/ Finish
  \/ GiveUp

Spec == Init /\ [][Next]_vars

----------------------------------------------------------------------------
(* A set of nodes that has the starts in it and that no edge leaves.       *)
Closed(set) ==
  /\ starts \subseteq set
  /\ \A n \in set : Succ(graph, n) \subseteq set

(* What a search visits can be reached: it lies in every closed set.       *)
Sound == \A set : Closed(set) => visited \subseteq set

(* A complete search has left nothing out: with Sound, it has visited the  *)
(* least closed set.                                                       *)
Complete == outcome = "complete" => Closed(visited)
============================================================================
