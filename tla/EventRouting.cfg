\* Two factories, two services, one event; one retry, one failing handler.
SPECIFICATION Spec
CONSTANTS
  Factories <- TheFactories
  Texts <- TheTexts
  Schema <- TheSchema
  Locations <- TheLocations
  CustomTypes = {"decimal"}
  Wires = {"bytes", "string"}
  MaxInits = 2
  MaxParses = 2
  Subscribers <- TheServices
  Replicas <- TheReplicas
  ServiceOf <- TheServiceOf
  FactoryOf <- TheFactoryOf
  Publisher = "publisher"
  Subscriptions <- TheSubscriptions
  MaxRetries <- TheRetries
  Events = {"e1"}
  Words <- TheWords
  Published <- ThePublished
  Tables <- TheTables
  Topics <- TheTopics
  Deployments <- TheDeployments
  MaxFaults = 1
  MaxCrashes = 1
  MaxLosses = 1
INVARIANTS SchemasAreWhole RoutingIsExact RetriesStayHome HandledOrExplained
\* Everything published is settled in the end.
CHECK_DEADLOCK FALSE
