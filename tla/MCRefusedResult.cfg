SPECIFICATION Spec
CONSTANTS
  read1 = read1  bash1 = bash1
  NoCall = NoCall
  Call <- MCCall
  EffectOf <- MCEffectOf
  MaxWorkers = 3

INVARIANT ReturnedIsRecorded
