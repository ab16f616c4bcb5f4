------------------------------- MODULE MCAarp -------------------------------
(***************************************************************************)
(* Address acquisition on a small cable.  An address is a network and a    *)
(* node number; two of them share the node number, which is all that a     *)
(* Request is matched by.                                                  *)
(***************************************************************************)
EXTENDS Aarp, TLC

StartupAddrs == {<<9, 1>>, <<9, 2>>}
RangeAddrs   == {<<5, 1>>}

\* The stations are alike.
Stations == Permutations(Nodes)
=============================================================================
