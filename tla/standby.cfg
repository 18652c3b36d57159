SPECIFICATION FairSpec
CONSTANTS
  p1 = p1
  p2 = p2
  l1 = l1
  l2 = l2
  Procs <- Procs2
  Lives <- Lives1
  NoLife = NoLife
  Worlds <- AllWorlds
  LoopKinds <- BothLoops
INVARIANTS SingleLifetime LoopsFollowMode
PROPERTIES StandbyReleased CancelledLoopsEnd ChannelReenabled
