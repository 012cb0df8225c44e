CONSTANTS
  MainThread = main
  Producers = {main, tunnel}
  Timers = {t1}
  Nobody = Nobody
  MaxFixes = 1
  Budget = 1
  Offers <- MainOffers
  MaxWaiting = 1
  MaxPosts = 2
SPECIFICATION FairSpec
INVARIANTS TypeOK NoSleepWithWork NewestFixReaches FixesBounded OneShotOnce
PROPERTIES Served RemovedEnds
