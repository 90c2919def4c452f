SPECIFICATION LiveSpec
CONSTANT MaxSlots = 2
INVARIANTS TypeOK NoTornFrame SlotsAccounted ConnectionSurvives FreshIds IdsBounded IdsFollowSlots Inv
PROPERTIES PoolGrowsOnlyWhenAllOut OwnershipSpec Recovers
