SPECIFICATION FairSpec
CONSTANTS
  Threads = {t1, t2, t3}
  Unread = Unread
INVARIANTS
  TypeOK
  CounterAgreement
  OnlyUpgradersBlock
PROPERTIES
  LockSpec
  LoneWaiterServed
