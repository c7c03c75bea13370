\* Two intents, three changes, any number of disconnects and restarts.
SPECIFICATION FairFeedSpec
CONSTANTS
    Requests = {r1, r2}
    EventsShown = 2
    MaxChanges = 3
INVARIANTS SettledPageIsCurrent EventsHaveNoGap
PROPERTIES ChangeIsShown
