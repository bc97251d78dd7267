SPECIFICATION Spec
CONSTANTS
    Kinds = {"header", "caseData", "deviceInformation"}
    Known <- FewKnown
    Preset <- FewPreset
    Own <- FewOwn
    Others = {"zz"}
    Words <- SomeWords
    Values <- OddValues
    MaxAdds = 2
INVARIANTS
    TypeOK
    PlainMetadataSurvives
    KeysSurvive
CHECK_DEADLOCK FALSE
