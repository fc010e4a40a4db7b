\* Every kind of question, over small answers.
CONSTANTS
  CandidatePool = 3
  MinOrganizations = 2
  MaxLineageNodes = 2
  Queries <- MCQueries
  Tasks <- MCTasks
  Lookups <- MCLookups
  Trials <- MCTrials
  Alliances <- MCAlliances
  WrittenDates <- MCWrittenDates
  Deadlines <- MCDeadlines
  Shifts <- MCShifts
  Appointments <- MCAppointments
  Cycles <- MCCycles
  Divisions <- MCDivisions
  Advices <- MCAdvices
  WrittenAmounts <- MCWrittenAmounts
SPECIFICATION RulesSpec
 
INVARIANT VerdictsAreEarned
INVARIANT LineageIsSound
 
CHECK_DEADLOCK FALSE
