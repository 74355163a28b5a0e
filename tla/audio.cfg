SPECIFICATION FairSpec
CONSTANTS
  MaxLaunches = 3
  Rates = {44100, 48000}
INVARIANTS TypeOK SpeakerExclusive PlayingIsTrue
PROPERTIES MessagesAreCurrent StopReturns ShownCatchesUp
