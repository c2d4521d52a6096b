\* Two images, each there from before or still to be uploaded.
CONSTANTS
    i1 = i1
    i2 = i2
    Images = {i1, i2}
    NoImage = NoImage
    MaxFiles = 2
SPECIFICATION Spec
SYMMETRY AnyOrder
INVARIANTS TypeOK ImagesHaveObjects  KeyedReportsTrue
