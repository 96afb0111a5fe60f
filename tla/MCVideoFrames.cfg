SPECIFICATION Spec

CONSTANTS
  Codecs = {"h264", "h265"}
  Slices = 1
  Packets = {2, 5}
  FragmentLimit = 4
  QueueSize = 2
  MaxPictures = 3
  MaxChanges = 1

INVARIANT FramesInv
INVARIANT NothingWaits
INVARIANT DropsAreCounted
PROPERTY PictureIntact
