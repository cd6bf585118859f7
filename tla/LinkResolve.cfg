SPECIFICATION Spec
CONSTANTS
  Strct = {"user", "post", "note"}
  Name = {"id", "id2", "kind", "userid", "user", "postid", "post", "text", "pass", "bits"}
  NoName = NoName
  Item <- MCItem
  Bitf = {"flags"}
  Configs <- MCConfigs
CHECK_DEADLOCK FALSE
INVARIANTS
  AssertsHold
  OrderIrrelevant
  NothingOpen
