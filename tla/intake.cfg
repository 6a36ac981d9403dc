\* Two requests at once, two rows, one form, one caterer that does not offer every meal.
SPECIFICATION Spec
CONSTANTS
    lunch = lunch
    dinner = dinner
    here = here
    there = there
    Workers = {w1, w2}
    Requests = {r1, r2}
    Caterers = {c1}
    Tokens = {k1}
    Places <- OnePlace
    Meals <- TwoMeals
    Forms <- LunchOrAnything
    Profiles <- OnlyDinner
    None = None
SYMMETRY Symmetry
INVARIANTS TypeOK OneRequestPerForm
PROPERTIES ClientEditsStayBeforeSending
