SPECIFICATION Spec
CONSTANT NumBuffs = 8
INVARIANTS TypeOK RingInv
PROPERTIES HandsOutFreeHandle PoolSpec
