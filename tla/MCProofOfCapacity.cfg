SPECIFICATION Spec
CONSTANTS
    NumScoops = 4
    CapHashes = 6
    AVX_VECTOR_SIZE = 2
    AVX2_VECTOR_SIZE = 3
    AVX512_VECTOR_SIZE = 4
    MaxNonce = 1000
    Ids <- BothIds
    PlotArchs = {"none", "avx", "avx2", "avx512"}
    MineArchs = {"none", "avx", "avx2", "avx512", "neon"}
    PoolArchs = {"none", "avx", "avx2", "avx512", "neon"}
    Processors = {1, 4}
    CacheNonces = 7
    Sizes = {1, 2, 3, 5}
    PlotId <- Ours
    Start = 1
    Height = 7
    GenSig = 9
    Others <- TwoOthers
INVARIANTS
    CacheRight
    BestIsFirst
    ClaimsDecided
CHECK_DEADLOCK FALSE
