CONSTANTS
  Channels = {1, 3, 4}
  Envelopes = 2
  StartEnvelope = 2
  Periods = 32
  PeriodValues = {0, 3, 17}
  StartPeriod = 3
  SquareBase = 128
  NoiseBase = 128
  MaxHz = 6
  DefaultHz <- MCDefaultHz
  SweepShifts = {0, 1}
  SweepSteps = {0, 1, 2}
  StepCycles = 2
  FrameSteps = 4
  SweepClocks = {2}
  ClockHz = 7
  SampleRate = 3
  QueueMax = 5
  QueueTarget = 3
  Chunks = {1, 2, 9}
  Requests = {2, 4, 6}
  Laps = 3
  OutputRate = 8
  WaveSteps = 4
  LfsrWidth = 15
  Pitches = {1, 5}
  Amplitudes = {0, 3}
  WaveValues = {0, 11}
  Volumes = {0, 3, 7}
SPECIFICATION MCSpec
INVARIANTS
  WavesAreTrue
PROPERTIES
  ChannelsObey
  SamplesInOrder
