CONSTANTS
  Watched <- MCWatched
  None = None
  MaxPeople = 2
  MaxFaults = 1
SPECIFICATION FairSpec
INVARIANTS TypeOK OwnWritesShow OfferedIsGranted
PROPERTIES NoticesBecomeMine SessionOutlivesGuests
CHECK_DEADLOCK FALSE
