CONSTANTS
  Rows = {r1, r2}
  TypeKeys <- MCJoinedTypeKeys
  FieldKeys <- MCJoinedFieldKeys
  FieldKinds = {"none", "unique"}
  Marks = {m1}
  Blank = blank
  BatchSize = 1
  MaxRowSeq = 3
SPECIFICATION IndexSpec
PROPERTY NoDuplicateMade
