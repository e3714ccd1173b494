SPECIFICATION Spec
CONSTANTS
    AVX_VECTOR_SIZE = 4
    AVX2_VECTOR_SIZE = 8
    AVX512_VECTOR_SIZE = 16
    HashInputs <- MCHashInputs
    QualityInputs <- MCQualityInputs
    Published <- MCPublished
INVARIANTS HashesRight QualitiesRight
CHECK_DEADLOCK FALSE
