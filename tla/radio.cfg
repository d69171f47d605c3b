SPECIFICATION FairSpec
CONSTANTS
  FifoFrames = 1
INVARIANTS TypeOK LockHeld NoFrameStranded SwitchedAsRecorded
PROPERTIES FrameTaken RequestServed
