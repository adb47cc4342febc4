\* What must happen in the end, and the topics that the services talk over.
SPECIFICATION AllSpec
CONSTANTS
  t1 = t1
  t2 = t2
  o1 = o1
  o2 = o2
  v1 = v1
  None = None
  Entries <- EntryLanelets
  Departures <- DepartureLanelets
  LinkOrder <- LinksInOrder
  Following <- LinksFrom
  Previous <- LinksInto
  Messages <- MapMessages
  Right <- GroupsOfLinks
  Reach = 5
  MaxCrashes = 1
  Attempts = 2
  MaxDeaths = 1
INVARIANT
  InfoIsRight

PROPERTIES
  ChannelSpec
  TopicMoves
  SleepersWake
  StartEnds
  EverythingIsTaken
  SpatGoesOn
  EveryoneCrosses

CHECK_DEADLOCK FALSE
