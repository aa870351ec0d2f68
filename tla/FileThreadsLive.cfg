\* Two writers and two readers.
SPECIFICATION FairSpec
CONSTANT Files = 2
PROPERTY WaitEnds
\* The process ends, or waits for a reader whose flag is never set.
CHECK_DEADLOCK FALSE
