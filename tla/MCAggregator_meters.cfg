CONSTANTS
    Filters <- DefaultFilters
    Profile = "optimized"
    SensorServices = {"sensor_power", "sensor_temp", "sensor_presence"}
    LowRateServices = {"sensor_presence"}
    MaxAllowedPower = 3
    NoDevice = NoDevice
    NotFloat = NotFloat
    Messages <- MeterMessages
    InputCap = 1
    OutputCap = 1
    MaxDifference = 1
    MaxMessages = 3
    MaxPoints = 5
SPECIFICATION Spec
INVARIANTS
    TypeOK
    FieldsKeepValue
    NothingCountedTwice
    CountsAreComplete
PROPERTY
    ImplementsMetering
