SPECIFICATION Spec
CONSTANTS
  f = f
  g = g
  l = l
  fBak = fBak
  gBak = gBak
  lBak = lBak
  User = {f, g, l}
  Backup <- Suffixed
  Arguments <- UpToThree
  Directories <- OneOfEach
  Modes <- AnyMode
INVARIANTS
  TypeOK
  NoPartialFile
  ContentsKept
  NameAlwaysThere
  BackupIsOriginal
  LinksRespected
  OnlyEarlierFilesChanged
PROPERTIES
  KeepsPromise
