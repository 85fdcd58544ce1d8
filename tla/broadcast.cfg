\* Two announcements, two user keys in pages of one, two device rows in pages of
\* two.
CONSTANTS
    c1 = c1  c2 = c2
    UserIds = {1, 2}
    RowIds = {1, 2}
    Casts = {c1, c2}
    MaxChanges = 2
    FeedBatch = 1
    PushBatch = 2
SPECIFICATION FairSpec
INVARIANTS OneAtATime ReachedOnce ReachesAll
PROPERTIES Released
