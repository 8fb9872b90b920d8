\* Two directory entries, a listing cap of 1 so that it bites, an input
\* buffer of 4 bytes standing for IBUFLEN so that files need refills.
CONSTANTS
  f1 = f1
  d1 = d1
  Names <- MCNames
  DotNames <- MCDotNames
  DirOrder <- MCDirOrder
  Contents <- MCContents
  WriteData <- MCWriteData
  K_DIR_MAX = 1
  ZinLen = 4
  NULL = NULL
  NoFile = NoFile
SPECIFICATION Spec
INVARIANT ReadStreamsFile
INVARIANT ListingSelectsEligible
INVARIANT EtagIsReferenceCrc
