\* One request and two caterers that move: old coordinates still exclude.
SPECIFICATION Spec
CONSTANTS
    lunch = lunch
    dinner = dinner
    here = here
    there = there
    Workers = {w1}
    Requests = {r1}
    Caterers = {c1, c2}
    Tokens = {k1}
    Places <- TwoPlaces
    Meals <- TwoMeals
    Forms <- LunchHereOrAnything
    Profiles <- HereOrThere
    None = None
PROPERTIES OldCoordinatesExcludeNobody
