---------------------------- MODULE MCEbpfLoader ----------------------------
(* An instance of EbpfLoader for TLC: three object files, one of them       *)
(* without a map "events", one without programs.                           *)
EXTENDS EbpfLoader

CONSTANTS o1, o2, o3

ThreeObjects == {o1, o2, o3}
TwoPrograms == [o \in ThreeObjects |-> IF o = o1 THEN 1 ELSE IF o = o2 THEN 2 ELSE 0]
AllButOne == {o2, o3}
AllLevels == Levels
=============================================================================
