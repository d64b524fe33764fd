-------------------------- MODULE MCCalendarViews --------------------------
EXTENDS CalendarViews

Symmetry == Permutations(FewIds) \cup Permutations(FewUids)
=============================================================================
