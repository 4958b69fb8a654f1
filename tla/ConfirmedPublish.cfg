\* Four publishers for two places, cancelled at any time; no symmetry, because
\* of the liveness property.
SPECIFICATION FairPublisherSpec
CONSTANTS
  p1 = p1
  p2 = p2
  p3 = p3
  p4 = p4
  Publishers <- MCFour
  MaxOutstanding = 2
INVARIANTS BoundIsExact OutcomeIsTruthful
PROPERTY EveryPublishEnds
\* Once everybody has published, nothing more happens.
CHECK_DEADLOCK FALSE
