CONSTANTS
    Width = 5
    SizeWidth = 10
    CatchUp = 5
    StepsPerUpdate = 3
    MaxTicks = 14
SPECIFICATION Spec
INVARIANT TypeOK
INVARIANT MustProvideMatchesAge
