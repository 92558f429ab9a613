SPECIFICATION MCSpec
CONSTANTS
  SampleRates = {0, 8000, 16000, 44100}
  Channels = {0, 1, 2}
  MaxReads = 3
  AudioPieces <- MCAudioPieces
  MaxTexts = 2
  NativeRates = {8000, 16000, 22050, 48000}
  FloatSamples <- MCFloatSamples
  MaxGenerated = 3
  FullScale = 3
INVARIANTS
  AsAskedOrRefused
  StreamShape
  AudioAllOrNothing
  
  ResampledInsideInput
CHECK_DEADLOCK FALSE
