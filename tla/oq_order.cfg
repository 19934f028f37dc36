CONSTANTS
    Results <- MCResults
    ResultCapacity = 2
    MaxReceiveBufferSize = 2
SPECIFICATION OQFairSpec
INVARIANTS OQTypeOK DepthFirst AllSentReturned NoGap
PROPERTY ConsumerEnds
