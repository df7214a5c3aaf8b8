\* Two turns of millis(), with polls shorter and longer than a tenth of a period.
CONSTANTS
    Word = 20
    Period = 2
    number_of_reports = 6
    report_size = 150
    Length <- ReportLengths
    PollTime = {1, 2}
    MaxUptime = 44
SPECIFICATION LoopSpec
INVARIANTS
    LoopTypeOK
    Fits
    MessageWellFormed
    TimestampsGrow
PROPERTY
    ReportsEveryPeriod
CHECK_DEADLOCK FALSE
