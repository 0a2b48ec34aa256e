CONSTANT s1 = s1
SPECIFICATION FairSpec
PROPERTIES SendingEnds AttemptsEnd QueueDrains LoadsEnd
\* The parts are bounded, and stop when their bounds are used up.
CHECK_DEADLOCK FALSE
