------------------------------ MODULE MCKeyTool ------------------------------
(* A ptau file of two chunks, the least that can be half there and that    *)
(* two tools can put a hole in; a mirror may serve half of it, another     *)
(* file of its size, or a longer one.  Once two tools have written output  *)
(* at a time the directory may hold any mixture, and no run begins any     *)
(* more; from the legacy tool's first run on, runs follow each other.      *)
EXTENDS KeyTool

MCOddBodies == {<<"good">>, <<"good", "wrong">>, <<"wrong", "good", "good">>}

Begins(t) == pc[t] = "off" /\ pc'[t] # "off"

MCNext ==
  /\ Next
  /\ overlap => \A t \in Tools : ~Begins(t)
  /\ legacy' => Alone'

MCFairSpec == Init /\ [][MCNext]_vars /\ \A t \in Tools : WF_vars(Step(t) /\ MCNext)

==============================================================================
