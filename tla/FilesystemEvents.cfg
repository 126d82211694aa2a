SPECIFICATION FairSpec
CONSTANTS
    Volumes = {usb}
    Files = {doc}
    Monitored = {doc}
    VolumesRoot = VolumesRoot
    Top = Top
    ResyncAge = 1
    MaxBackSteps = 1
INVARIANTS
    TypeOK
    QuietMeansKnown
    QuietMeansReported
PROPERTIES
    NoFalseAlert
    MountIsFound
