SPECIFICATION Spec
CONSTANTS Users = {t1, t2}
 NoUser = NoUser
 MaxDepth = 2
INVARIANTS MutualExclusion
