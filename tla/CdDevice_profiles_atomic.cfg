CONSTANTS
    pDevice = pDevice
    pOther = pOther
    idDev = idDev
    idOther = idOther
    mA = mA
    mB = mB
    kDisplay = kDisplay
    kUnknownName = kUnknownName
    kNewer = kNewer
    kEnumUnknown = kEnumUnknown
    prof1 = prof1
    prof2 = prof2
    nullStr = nullStr
    ObjectPaths <- MC_ObjectPaths
    DevicePath = pDevice
    DeviceIdValue = idDev
    Ids <- MC_Ids
    TimeWidth = 3
    TimeLimit = 2
    CreatedValue = 1
    Models <- MC_Models
    KindNames <- MC_KindNames
    KnownKindNames <- MC_KnownKindNames
    UnknownKindName = kUnknownName
    KindUnknown = kEnumUnknown
    Profiles <- MC_Profiles
    ProfileSeqs <- MC_ProfileSeqs
    NoValue = nullStr
    MaxChanges = 2
    MaxFailures = 1
SPECIFICATION Spec
PROPERTIES ProfilesAllOrNothing
