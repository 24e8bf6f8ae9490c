SPECIFICATION NewsFairSpec
CONSTANTS
  u1 = u1
  u2 = u2
  big = big
  IT = IT
  bio = bio
  Urls = {u1, u2, big}
  Oversized = {big}
  PublishedToday = {u1, big}
  SourceOrder <- MCSourceOrder
  Feed <- MCFeed
  Sectors = {IT, bio}
  Outputs <- MCOutputs
  Failed = Failed
  Nothing = Nothing
  Fetchers = {f1, f2}
  Workers = {w1, w2}
  SentimentReaders = {r1}
  BATCH_SIZE = 1
  MAX_RETRIES = 2
  MaxStarts = 3
  MaxFaults = 1
INVARIANTS StatusTellsResults RepeatedOnlyByOverlap TrendsCountOnce
PROPERTY RunsEnd
CHECK_DEADLOCK FALSE
