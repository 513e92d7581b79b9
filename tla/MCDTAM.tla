-------------------------------- MODULE MCDTAM --------------------------------
(***************************************************************************)
(* Two reads and two writes of up to two variables by two threads: chains  *)
(* through both variables, cycles, and every order of the clocks.  Taint   *)
(* starts at one point; what starts at several is the union.               *)
(***************************************************************************)
EXTENDS DTAM

CONSTANTS w1, x         \* one of the writes and its variable

\* No synchronization yet, one of either thread, and one of both.
SmallClocks == {<<0, 0>>, <<1, 0>>, <<0, 1>>, <<1, 1>>}

MCInit ==
  /\ serial \in {{p} : p \in Points}
  /\ varName \in {f \in [Points -> Vars] : f[w1] = x}
  /\ DTAMInit

MCSpec == MCInit /\ [][DTAMNext]_dtamVars
=============================================================================
