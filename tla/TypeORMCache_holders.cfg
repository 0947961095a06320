SPECIFICATION CacheSpec
CONSTANTS
    Users = {u1, u2, u3}
    MaxRows = 3
INVARIANT OneHolder
CHECK_DEADLOCK FALSE
