------------------------- MODULE Reachability_proof -------------------------
(***************************************************************************)
(* What a search promises: it visits only what can be reached, and all of  *)
(* it when it completes.                                                   *)
(***************************************************************************)
EXTENDS Reachability, TLAPS

(* The starts are chosen before anything is visited.                       *)
Fresh == outcome = "idle" => visited = {}

(* Everything visited lies in every set that contains the starts and that  *)
(* no edge leaves: the order of the visits does not matter.                *)
THEOREM SoundHolds == Spec => []Sound
<1>1. Init => Sound /\ Fresh
  BY DEF Init, Sound, Fresh
<1>2. Sound /\ Fresh /\ [Next]_vars => (Sound /\ Fresh)'
  <2> SUFFICES ASSUME Sound, Fresh, [Next]_vars PROVE (Sound /\ Fresh)'
    OBVIOUS
  <2>1. CASE Begin
    BY <2>1 DEF Begin, Sound, Closed, Fresh
  <2>2. ASSUME NEW n \in Reached, Visit(n) PROVE (Sound /\ Fresh)'
    BY <2>2 DEF Visit, Reached, Sound, Closed, Fresh
  <2>3. CASE Finish
    BY <2>3 DEF Finish, Sound, Closed, Fresh
  <2>4. CASE GiveUp
    BY <2>4 DEF GiveUp, Sound, Closed, Fresh
  <2>5. CASE UNCHANGED vars
    BY <2>5 DEF vars, Sound, Closed, Fresh
  <2> QED BY <2>1, <2>2, <2>3, <2>4, <2>5 DEF Next
<1> QED BY <1>1, <1>2, PTL DEF Spec

(* A search that completes has visited a closed set, which by SoundHolds   *)
(* is the least one: exactly what can be reached.                          *)
THEOREM CompleteHolds == Spec => []Complete
<1>1. Init => Complete
  BY DEF Init, Complete
<1>2. Complete /\ [Next]_vars => Complete'
  BY DEF Complete, Closed, Reached, Next, Begin, Visit, Finish, GiveUp, vars
<1> QED BY <1>1, <1>2, PTL DEF Spec
============================================================================
