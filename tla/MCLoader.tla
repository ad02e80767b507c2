------------------------------ MODULE MCLoader ------------------------------
(* Sectors of 3 bytes, pages of 2 sectors, a header of 1 byte; counts wrap *)
(* at 4 sectors.  Programs of every size until the count has wrapped,      *)
(* relocatable or at an address within page 3.  Pictures of up to 2 x 2    *)
(* pixels, one of them cut short, one with a gap before its rows.          *)
EXTENDS Loader

CONSTANT MaxProgram

Program(n, addr) == [size |-> HDR + n, loadAddr |-> addr, fileSize |-> n]

AllPrograms == {Program(n, addr) : n \in 0 .. MaxProgram, addr \in {0, 3 * PAGE + 1}}

Picture(w, h, off, missing) ==
  [size |-> off + RoundUp(w * 3, 4) * 4 * h - missing, w |-> w, h |-> h, off |-> off]

AllPictures ==
  {Picture(1, 1, 2, 0), Picture(1, 2, 2, 0), Picture(2, 1, 3, 0), Picture(2, 2, 4, 0),
   Picture(1, 2, 2, 3)}

Texts == {[size |-> 0], [size |-> 5]}
Corners == {<<0, 0>>, <<1, 0>>, <<0, 1>>}
=============================================================================
