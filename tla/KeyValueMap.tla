---------------------------- MODULE KeyValueMap ----------------------------
(***************************************************************************)
(* What the hash table driver promises a program that serialises its       *)
(* calls: two maps from keys to data, each operation one step.             *)
(***************************************************************************)
CONSTANTS Tables, Keys, Values,
          Absent    \* what a search that finds nothing reports (-1)

VARIABLES map,      \* map[t][k]: the datum of k in table t, or Absent
          answer    \* <<key, datum>> of the latest search

mapVars == <<map, answer>>

MapInit == /\ map = [t \in Tables |-> [k \in Keys |-> Absent]]
           /\ answer = <<Absent, Absent>>

Put(t, k, v) == map' = [map EXCEPT ![t][k] = v] /\ UNCHANGED answer
Remove(t, k) == map' = [map EXCEPT ![t][k] = Absent] /\ UNCHANGED answer
Search(t, k) == answer' = <<k, map[t][k]>> /\ UNCHANGED map
Empty(t) == map' = [map EXCEPT ![t] = [k \in Keys |-> Absent]] /\ UNCHANGED answer

MapNext == \E t \in Tables :
              \/ Empty(t)
              \/ \E k \in Keys : \/ Remove(t, k)
                                 \/ Search(t, k)
                                 \/ \E v \in Values : Put(t, k, v)

MapSpec == MapInit /\ [][MapNext]_mapVars
=============================================================================
