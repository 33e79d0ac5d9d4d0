SPECIFICATION PostSpec
CONSTANTS
  Threshold = 1
  Games = 2
  Slots = {1, 2}
  CaptureCop = 20
  CaptureThief = 5
  SurvivalCop = 5
  SurvivalThief = 10
  TechnicalLoss = 0
  Terms = {"t1", "t2"}
  MaxSeries = 2
  MaxRetries = 1
  MaxTicks = 2
INVARIANTS VerifiedIffOneSeries OneEditVerdict BannerHonest DeliverOnce ReportGated PlaybackAlive
