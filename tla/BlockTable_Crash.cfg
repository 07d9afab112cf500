\* As BlockTable.cfg, with crashes.  Two files of up to two blocks, tables of five blocks; the first file of large
\* blocks fills the first table.
CONSTANTS
    f1 = f1
    f2 = f2
    Files <- MCFiles
    PerBat = 5
    Tables = 4
    MaxBlocks = 2
    MaxOps = 4
SPECIFICATION CrashSpec
SYMMETRY Symmetry
INVARIANT ChainsAreSeparate
