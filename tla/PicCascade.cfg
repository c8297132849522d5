SPECIFICATION FairSpec
CONSTANTS
    Lines = {8}
    Driven = {8}
    None = None
PROPERTIES
    DriverServed
