------------------------------- MODULE MCSession -------------------------------
(* Devices of up to six blocks, with the test area at the front, in the      *)
(* middle, at the back, everywhere, and beyond the end.                      *)
EXTENDS Session

Area(device, start, length, ratio) ==
  [device |-> device, start |-> start, length |-> length, ratio |-> ratio, itself |-> FALSE,
   due |-> 0, boot |-> 0]

Prepares ==
  { Area(5, 0, 2, 50), Area(6, 2, 1, 60), Area(6, 2, 1, 0), Area(4, 2, 2, 100),
    Area(3, 0, 3, 100), Area(4, 2, 3, 0),
    [Area(3, 1, 2, 0) EXCEPT !.itself = TRUE],
    [Area(1, 0, 1, 0) EXCEPT !.due = 2] }

Requests == <<4, 2>>
===============================================================================
