--------------------------- MODULE MCInteropCalls ---------------------------
(***************************************************************************)
(* Two levels of compiled code above the page's call, each followed by     *)
(* scripts; words of four values, doubles of three bits: the handle 4 has  *)
(* a lower word of zero, 9 lies between two doubles.                       *)
(***************************************************************************)
EXTENDS InteropCalls

(* No argument, one, as many as there may be, and too many.                *)
MCArguments == {<<>>, <<7, 8>>, <<7, 8, 9, 7>>, <<7, 7, 7, 7, 7>>}
=============================================================================
