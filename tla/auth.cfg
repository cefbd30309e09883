SPECIFICATION FairSpec
CONSTANT MaxQueue <- MaxQueue_mc
INVARIANT TypeOK
INVARIANT OneVerdict
INVARIANT AttemptIsItsOwn
PROPERTY SilentAfterVerdict
 
