\* Each service from its start to its exit code, with three failing calls or tasks
\* anywhere, both signals at any point, and both deadlines; and two runs of the
\* provisioning tool, over any streams an earlier one left, beside a starting service.
SPECIFICATION MCSpec
CONSTANTS
  Kinds = {"aggregator", "trie", "ingest"}
  Budget = 4
  MaxDelay = 2
  MaxFault = 3
  Topics <- MCTopics
  Releases <- MCReleases
  Jobs = {"first", "second"}
  Services = {"trie"}
  Missing = Missing
  MaxLost = 2
CHECK_DEADLOCK FALSE
INVARIANT ClientsOutliveUse
INVARIANT ExitSound
INVARIANT OutcomesTrue
 
