------------------------ MODULE MCItineraryVersions ------------------------
\* Instances of ItineraryVersions for TLC.
EXTENDS ItineraryVersions

CONSTANT p1

OneRange == {<<1, 1>>}

JustPair == {<<p1, p1>>}
=============================================================================
