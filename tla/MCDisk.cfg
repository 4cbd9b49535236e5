CONSTANTS
  NClusters = 4
  K = 4
  NNodes = 3
  Names = {"libc6_a", "libc6_b"}
  Base <- MCBase
  BootDirs <- MCBoot
  Kept = {"home"}
  MaxSize = 2
  NoMem = FALSE
SPECIFICATION DiskSpec
INVARIANTS   CrashSound
CHECK_DEADLOCK FALSE
