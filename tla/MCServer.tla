-------------------------------- MODULE MCServer --------------------------------
(* Two users, two workbooks per life of the server, two runs; runs          *)
(* that trade in no, one or two containers, with a gain, and with a loss    *)
(* beyond the capital.                                                      *)
EXTENDS Server, TLC

Result(containers, fills, notes, gain) ==
  [containers |-> containers, fills |-> fills, notes |-> notes, gain |-> gain]

MCResults == {Result(0, <<>>, <<>>, 0), Result(2, <<2, 1>>, <<2>>, 1), Result(1, <<1>>, <<>>, -2)}
MCSymmetry == Permutations(Names)

MCProcesses == {"server", "cli"}
===============================================================================
