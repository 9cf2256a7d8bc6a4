\* Empty and one-byte files, both sides of each of the first three powers
\* of 1024, and a size past 1 GiB.
CONSTANT Inputs = {0, 1, 1023, 1024, 1025, 1536, 1048575, 1048576, 1048577,
                   1073741823, 1073741824, 1073741825, 1090519040}

SPECIFICATION Spec

INVARIANT HrSizeUnitConsistent
