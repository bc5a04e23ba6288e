------------------------------ MODULE MCFacade ------------------------------
(* Instance of the facade and of its JSON boundary for TLC: numbers of 3    *)
(* bits, amounts of 6.  A behaviour is of one of the two, while the other   *)
(* stays where it starts.                                                   *)
EXTENDS Facade, Integers

CONSTANTS s1, s2, version, wrapper
CONSTANTS Precision, U64Max, U8Max, Numerals, Limits, Texts
VARIABLES held, meant, answered, received, checked, verdict

jsonVars == <<held, meant, answered, received, checked, verdict>>

Boundary == INSTANCE JsonBoundary

MCSigners == {s1, s2}
MCContract == {version, wrapper}
MCAnswers == {"safe", "beyond", "fraction"}
MCIntegers == -18 .. 66
MCLimits == [message |-> 5, address |-> 3, network |-> 2]

CodeUnits == {"ascii", "two", "three", "high", "low"}
MCTexts == UNION {[1 .. n -> CodeUnits] : n \in 0 .. 3}

ASSUME BoundaryHasWidths == Boundary!WidthAssumption /\ CodeUnits = Boundary!Units

MCInit == Init /\ Boundary!Init
MCNext == \/ Boundary!Init /\ Next /\ UNCHANGED jsonVars
          \/ Init /\ artifact = {} /\ Boundary!Next /\ UNCHANGED vars
MCSpec == MCInit /\ [][MCNext]_<<vars, jsonVars>> /\ Fairness

(* Numbers and texts keep their value at the JSON boundary (JsonBoundary).  *)
BoundaryIsExact == Boundary!BoundaryIsExact
=============================================================================
