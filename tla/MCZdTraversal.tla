--------------------------- MODULE MCZdTraversal ---------------------------
(***************************************************************************)
(* Instances of ZdTraversal for TLC: every story of four bytes of code     *)
(* over an alphabet of short instructions, under each option, and a few    *)
(* longer stories, of other versions and with other options.               *)
(***************************************************************************)
EXTENDS ZdTraversal

Story(zversion, code, start) ==
  [zversion |-> zversion, story |-> TRUE, code |-> code, start |-> start,
   r_o |-> 0, s_o |-> 0, ignore_errors |-> FALSE, max_instructions |-> <<>>,
   addresses |-> <<>>, start_offset |-> <<>>]

Bytes(zversion, code) ==
  [Story(zversion, code, 0) EXCEPT !.story = FALSE]

(* rtrue, verify, a branch byte for the offset 2, two bytes of a long *)
(* branch backwards, call_1n of the routine at 68.                         *)
Alphabet == {176, 189, 194, 63, 253, 159, 17}

Limits == {<<>>, <<2>>}

ShortStories ==
  [zversion : {5}, story : {TRUE}, code : [1..4 -> Alphabet], start : {64},
   r_o : {0}, s_o : {0}, ignore_errors : BOOLEAN, max_instructions : {<<>>},
   addresses : {<<>>}, start_offset : {<<>>}]

Options(c) ==
  {[c EXCEPT !.ignore_errors = i, !.max_instructions = m] :
     i \in BOOLEAN, m \in Limits}

(* A routine at 64 that calls the one at 68, which branches back into the  *)
(* first and prints; both loop.                                            *)
Nested == <<0, 159, 17, 176,
            0, 189, 63, 250, 178, 20, 20, 148, 165, 156, 2, 176>>

(* je 1 2 with a long and a short branch; a jump backwards; read with a    *)
(* routine as its fourth operand; print_paddr.                             *)
Forms == <<1, 1, 2, 198, 228, 85, 1, 2, 3, 17, 0,
           193, 71, 1, 5, 128, 10, 140, 255, 252, 176>>
Extended == <<190, 9, 255, 0, 190, 11, 127, 65, 157, 18, 140, 0, 2,
              176, 148, 165>>
Vararg == <<236, 22, 191, 0, 16, 1, 2, 9, 0, 186, 250, 23, 255, 0, 17, 1,
            176, 176>>

(* A jump over a byte that is no instruction.                              *)
Skip == <<140, 0, 3, 0, 176>>

(* V3: a routine with one local that calls one with two.                   *)
OldRoutines == <<1, 0, 7, 224, 63, 0, 37, 0, 176, 182,
                 2, 0, 0, 0, 0, 181, 194, 176>>

LongerStories ==
  UNION {Options(c) : c \in
    {Story(5, Nested, 65), Story(8, Nested, 65), Story(5, Forms, 64),
     Story(5, Extended, 64), Story(5, Vararg, 64), Story(5, Skip, 64),
     [Story(6, Nested, 16) EXCEPT !.start = 16],
     [Story(6, Nested, 14) EXCEPT !.r_o = 8, !.s_o = 8],
     Story(6, Nested, 0), Story(6, Nested, 99),
     Story(7, Nested, 65), Story(3, OldRoutines, 67),
     [Story(3, OldRoutines, 67) EXCEPT !.addresses = <<<<64, 0, 74>>>>],
     [Story(3, OldRoutines, 67) EXCEPT !.addresses = <<<<80>>>>],
     [Story(5, Nested, 65) EXCEPT !.addresses = <<<<68, 64>>>>],
     [Story(5, Nested, 65) EXCEPT !.addresses = <<<<400000>>>>],
     [Story(5, Nested, 65) EXCEPT !.addresses = <<<<>>>>],
     [Story(5, Nested, 65) EXCEPT !.start_offset = <<69>>],
     [Story(5, Nested, 65) EXCEPT !.start_offset = <<99>>],
     Bytes(5, Nested), Bytes(5, Forms), Bytes(3, OldRoutines), Bytes(7, Nested),
     Bytes(5, <<180, 140>>), Bytes(7, <<159, 16, 176>>),
     [Bytes(5, Forms) EXCEPT !.start_offset = <<4>>]}}

AllStories == ShortStories \cup LongerStories

(* For the disagreement with the manual page.                              *)
OffsetStories ==
  {[Story(7, Nested, 65) EXCEPT !.r_o = r, !.addresses = <<<<68>>>>] :
     r \in {0, 8}}
============================================================================
