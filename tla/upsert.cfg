SPECIFICATION Spec
CONSTANTS
  None = None
  song1 = song1  song2 = song2  song3 = song3
  lrc1 = lrc1  lrc2 = lrc2  lrc3 = lrc3
  root = root  sub = sub  a1 = a1  a2 = a2
  numeral = numeral  number = number  title = title
  Real <- PathReal
  Column <- ColumnText
  Folder <- PathFolder
  LyricOf <- PathLyric
  Audio = {a1, a2}
  Tags = {numeral, title}
  Disk0 <- StartDisk
  Lrc0 <- StartLrcs
  MaxChanges = 2
INVARIANT RowsFresh
CHECK_DEADLOCK FALSE
