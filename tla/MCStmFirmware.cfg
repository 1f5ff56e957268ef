CONSTANTS
  LastStep = 2
  Notes <- MCNotes
SPECIFICATION FairSpec
INVARIANTS
  TypeOK
  NoteHasTimer
  PanelStaysOpen
  NoLedLeftBehind
  FirmwareInv
PROPERTIES
  QuietBoardRests
  ImplementsBoard
