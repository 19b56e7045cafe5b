SPECIFICATION GeometrySpec
CONSTANTS
  WordBits = 30
  IntptrSize = 8
  MaxAlignSize = 16
  SliceSize = 65536
  SmallMaxObj = 10240
  MediumMaxObj = 86698
  LargeMaxObj = 131072
  BinHuge = 73
  HeaderSize = 136
  OsPage = 4096
  PageBase = 196608
  HugeSizes = {131073, 196608, 1073676288, 1073676289, 1073741808, 1073741809, 1073741823}
  Indices = {0, 1, 2, 5, 453}
  Aligns = {1, 8, 16, 64, 4096, 65536, 131072}
  OsSizes = {1, 4096, 4097, 12288, 65537, 524288}
  OsBases = {4096, 65536, 69632, 131072, 258048, 524288}
INVARIANTS
  ClassesAreSound
  RequestFits
  FreeFindsTheBlock
  OsRangesAreExact
