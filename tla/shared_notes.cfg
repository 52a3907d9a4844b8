CONSTANTS
  n1 = n1 c0 = c0 c1 = c1 a0 = a0 a1 = a1
  Pages = {p1}
  Ids = {n1}
  Draft <- MCDraft
  Edits <- MCEdits
  Nobody = Nobody
  Gone = Gone
  Idle = Idle
  NoFetch = NoFetch
  MaxHandlers = 2
  MaxFetches = 1
  MaxDeletes = 1
  MaxFaults = 2
SPECIFICATION Spec
INVARIANTS ShownIsRecorded AgreesAtRest CopiesOnlyOfOwn HistoryKnowsColumns
