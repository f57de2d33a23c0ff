SPECIFICATION FairSpec
CONSTANTS
  a1 = a1  a2 = a2  a3 = a3  home = home
  Hidden = Hidden  Junk = Junk
  Requests <- MC_Requests  AP <- MC_AP  SsidOf <- MC_SsidOf  Hears <- MC_Hears
  Channels = {1, 2}
  N = 3  NetsMax = 2  Iters = 2  Polls = 1
  Target = 1  Cap = 2  Gains = {0, 3}
  MaxFrames = 4  MaxScans = 2  MaxWaits = 2
INVARIANTS FoundWhereHeard ListIsWhatWasHeard
PROPERTIES EachFrameOnce GainInRange ScanEnds RxStops
