SPECIFICATION Spec
CONSTANTS
    Volumes = {usb}
    Files = {doc}
    Monitored = {doc}
    VolumesRoot = VolumesRoot
    Top = Top
    ResyncAge = 1
    MaxBackSteps = 0
INVARIANTS
    DroppedMeansRescanned
