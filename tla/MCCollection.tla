----------------------------- MODULE MCCollection ----------------------------
(* A small instance of Collection: two sources, two executors.  What is    *)
(* pinned or deleted at VK matters to nobody but a reading of that wall,   *)
(* so it changes only during one; the only post of source 2 stays.         *)
EXTENDS Collection
MCMaxPosts == [s \in {1, 2} |-> 5 - 2 * s]
MCUnsteady == {<<1, 3>>, <<2, 1>>}
MCBlank == {<<1, 1>>, <<2, 1>>}
MCRead(s) == \E e \in Executors : pass[e].phase \in {"asking", "pinned"} /\ Current(e) = s
MCNext ==
  /\ Next /\ gone'[2] = {}
  /\ \A s \in Sources : pin'[s] # pin[s] \/ gone'[s] # gone[s] => MCRead(s)
MCSpec == Init /\ [][MCNext]_vars /\ Fairness
=============================================================================
