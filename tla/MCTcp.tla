-------------------------------- MODULE MCTcp --------------------------------
(* TLC instance of Tcp: the client's numbers start just below the wrap; a     *)
(* behaviour refuses and resends once, or opens a third connection.  The      *)
(* ISNs of the three are apart, as the theorems on the streams want them.     *)
EXTENDS Tcp
MCMaxBytes == [e \in End |-> IF e = "client" THEN 2 ELSE 0]
MCIsn == [e \in End |-> IF e = "client" THEN <<14, 6, 10>> ELSE <<0, 8, 4>>]
ASSUME InstanceAssumption == Apart
MCBudget(conns, refusals, resends, windows) ==
  [conns |-> conns, refusals |-> refusals, resends |-> resends, windows |-> windows]
MCBudgets == {MCBudget(2, 1, 1, {2}), MCBudget(2, 0, 1, {0, 2}), MCBudget(3, 0, 0, {2})}
=============================================================================
