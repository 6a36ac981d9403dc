------------------------------ MODULE MCIntake ------------------------------
(* Small instances of Intake for TLC. *)
EXTENDS Intake, TLC

CONSTANTS lunch, dinner, here, there

TwoMeals == {lunch, dinner}
OnePlace == {here}
TwoPlaces == {here, there}

Anything == [meal |-> None, address |-> None, at |-> None]
Lunch == [meal |-> lunch, address |-> None, at |-> None]
LunchHere == [meal |-> lunch, address |-> here, at |-> None]
LunchOrAnything == {Lunch, Anything}
LunchHereOrAnything == {LunchHere, Anything}

LunchFromHere == [meals |-> {lunch}, address |-> here, limited |-> TRUE]
LunchFromThere == [meals |-> {lunch}, address |-> there, limited |-> TRUE]
DinnerFromHere == [meals |-> {dinner}, address |-> here, limited |-> TRUE]
OnlyDinner == {DinnerFromHere}
HereOrThere == {LunchFromHere, LunchFromThere}

Symmetry == Permutations(Workers) \cup Permutations(Requests)
=============================================================================
