CONSTANTS
  People = {p1}
  Agents = {a1}
  Fields = {title, body, refs}
  RichFields = {body}
  RelationFields = {refs}
  Values = {v1}
  Absent = absent
  Statuses = {"draft", "ready"}
  FoldWindow = 1
  FullVersions = 2
  MaxVersions = 3
  MaxAge = 1
  MaxWrites = 4
  MaxSeq = 5
  MaxClock = 2
  Rows = {r1, r2}
  TypeKeys <- MCTypeKeys
  FieldKeys <- MCFieldKeys
  FieldKinds = {"none", "plain", "unique", "indexed", "both"}
  Marks = {m1}
  Blank = blank
  BatchSize = 1
  MaxRowSeq = 4
  Assets = {pic1, pic2}
  UploadTokens = {t1}
  Nobody = nobody
SPECIFICATION MCSpec
CHECK_DEADLOCK FALSE
INVARIANTS RecordTypeOK LatestIsCurrent IndexTypeOK ColumnsServe SearchComplete AssetsSound
PROPERTIES SupersededVersionsFixed PublicationsKept SeenBeforeOverwritten ConfirmedIsShown NoDuplicateMade
