------------------------------ MODULE MCDeviceIO ------------------------------
(* DeviceIO over a few pages and short plans.                                 *)
EXTENDS DeviceIO

Do(op, start, len) == [op |-> op, start |-> start, len |-> len]

Setup(plan, cached, feature) ==
  [plan |-> plan, cache |-> cached, feature |-> feature, equal |-> FALSE]

\* The last request of the loop passes the end of the area, and is cut off.
Loop == <<Do("write", 1, 2), Do("commit", 3, 1), Do("write", 4, 3),
          Do("repeat", 0, 0), Do("read", 1, 2)>>

\* Requests at the edges: of no length at the end, before the area and behind it.
Edges == {<<Do("write", 5, 2), Do("write", 3, 0)>>, <<Do("write", 0, 2)>>,
          <<Do("write", 6, 1)>>, <<Do("write", 4, 1), Do("write", 1, 1)>>}

Erase == <<Do("write", 1, 2), Do("erase", 1, 2), Do("erase", 3, 3)>>

Chosen ==
  {Setup(Loop, cached, feature) : cached \in BOOLEAN, feature \in {"none", "opcon"}}
  \cup {Setup(Loop, TRUE, "sleep"), Setup(Erase, FALSE, "none")}
  \cup {Setup(plan, FALSE, "none") : plan \in Edges}
  \cup {[Setup(Loop, TRUE, "none") EXCEPT !.equal = TRUE]}
===============================================================================
