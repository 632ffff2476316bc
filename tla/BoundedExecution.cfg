\* Both platforms; a request that fits the pipe and one that does not; output
\* below, at and above a cap of two bytes and a cap of one.
SPECIFICATION FairSpec
CONSTANTS
    Platforms = {"posix", "nt"}
    Cap <- MCCap
    Chunk = 2
    PipeSize = 2
    StdinSizes = {1, 3}
    MaxOutput <- MCMaxOutput
INVARIANTS TypeOK CompleteMeansWhole TruncationHonest LeaderNeverOutlives SessionAgrees
PROPERTY EveryRunEnds
