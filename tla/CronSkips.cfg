CONSTANTS
    HoursPerDay = 2
    MinutesPerHour = 2
    YearLimit = 2
    Schedules <- MCSchedules
    Starts <- MCStarts
    Lasts = {0}
SPECIFICATION CronSpec
PROPERTY NothingSkippedEver
CHECK_DEADLOCK FALSE
