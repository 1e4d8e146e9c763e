SPECIFICATION FairSpec
CONSTANTS
  Users = {u1, u2}
  Controllers = {c1, c2}
  MaxRevisions = 2
  MaxFaults = 2
INVARIANTS HistoryIsReadable UsersKeepTheirSource CutoverIsBackedUp
PROPERTY TransferIsDecided
CHECK_DEADLOCK FALSE
