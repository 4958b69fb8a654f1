\* One service that was down while an event was published.
SPECIFICATION Spec
CONSTANTS
  Factories <- TheFactories
  Texts <- TheTexts
  Schema <- TheSchema
  Locations <- TheLocations
  CustomTypes = {"decimal"}
  Wires = {"bytes"}
  MaxInits = 1
  MaxParses = 0
  Subscribers <- TheServices
  Replicas <- TheReplicas
  ServiceOf <- TheServiceOf
  FactoryOf <- TheFactoryOf
  Publisher = "publisher"
  Subscriptions <- TheSubscriptions
  MaxRetries <- TheRetries
  Events = {"e1"}
  Words <- TheWords
  Published <- ThePublished
  Tables <- TheTables
  Topics <- TheTopics
  Deployments <- TheDeployments
  MaxFaults = 0
  MaxCrashes = 0
  MaxLosses = 0
INVARIANT BacklogSurvives
CHECK_DEADLOCK FALSE
