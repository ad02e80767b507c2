SPECIFICATION Spec
CONSTANT NPROC = 8
INVARIANTS TypeOK NeverLost CurrentIsRunning
PROPERTIES NoOvertaking EveryTaskRuns
