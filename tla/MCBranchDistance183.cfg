CONSTANT MaxInputs = 6
SPECIFICATION DSpec
INVARIANTS RecordTellsAnswer MainReported MainResultsSurvive
