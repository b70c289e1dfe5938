--------------------------- MODULE WriteOnceStore ---------------------------
(***************************************************************************)
(* What the evidence store promises: an item is published once, and from   *)
(* then on it is what it was.                                              *)
(***************************************************************************)
CONSTANTS Item, Content, Absent

VARIABLE contents   \* contents[i]: what a reader gets for i, or Absent

Init == contents = [i \in Item |-> Absent]

Publish(i, c) ==
    /\ contents[i] = Absent
    /\ contents' = [contents EXCEPT ![i] = c]

Next == \E i \in Item, c \in Content : Publish(i, c)

Spec == Init /\ [][Next]_contents

=============================================================================
