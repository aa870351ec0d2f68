\* Two writers and two readers.
SPECIFICATION Spec
CONSTANT Files = 2
INVARIANT WaitsForAll
\* The process ends, or waits for a reader whose flag is never set.
CHECK_DEADLOCK FALSE
