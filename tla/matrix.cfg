\* Three devices: two users may act on stale room DBs while a third
\* consumes; attachments are uploaded and downloaded late.
CONSTANTS
  d1 = d1
  d2 = d2
  d3 = d3
  k1 = k1
  k2 = k2
  x1 = x1
  Devices <- MCDevices
  Keys <- MCKeys
  TxIds <- MCTxIds
  N = 1
  AsyncFiles = TRUE
  StaleSenders = TRUE
  NoKey = NoKey
  NoTx = NoTx
  NoWallet = NoWallet
  MaxEvents = 6
SPECIFICATION Spec
SYMMETRY MCSymmetry
INVARIANTS
  RoomRecordsConverge
\* The room is bounded by MaxEvents: once every event is consumed and no
\* user acts any more, the room rests.
CHECK_DEADLOCK FALSE
