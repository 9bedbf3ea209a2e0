SPECIFICATION FairSpec
CONSTANTS
    n1 = n1
    n2 = n2
    a1 = a1
    a2 = a2
    alarms = alarms
    Notices = {n1, n2}
    Content <- GroupedContent
    Sinks <- OneSink
    Wants <- AlarmsOnly
    Readers = {r1}
    Limit = 2
    MaxEvents = 3
    MaxFailures = 1
    MaxCrashes = 1
INVARIANT DeliveryHolds AlertsHold NeverAgain
PROPERTY EventuallyDelivered
