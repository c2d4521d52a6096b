\* The same instance: what a bulk upload reports.
CONSTANTS
    i1 = i1
    i2 = i2
    Images = {i1, i2}
    NoImage = NoImage
    MaxFiles = 2
SPECIFICATION Spec
SYMMETRY AnyOrder
INVARIANT ReportsTrue
