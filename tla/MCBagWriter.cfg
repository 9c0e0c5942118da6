SPECIFICATION HungDiskSpec
CONSTANTS
  image = image
  pose = pose
  Producers = {p1}
  Callers = {c1, c2}
  Topics = {image, pose}
  Size <- MCSize
  MaxMessages = 2
  MaxBytes = 2
  MaxOffers = 2
INVARIANTS
  TypeOK
  FileIsPrefix
  ResultIsComplete
  FirstErrorDecides
PROPERTIES
  NothingIsStuck
