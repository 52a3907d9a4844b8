CONSTANTS
  w1 = w1 s1 = s1 s2 = s2 u1 = u1 u2 = u2 u3 = u3 t1 = t1 t2 = t2 t3 = t3 t4 = t4 t5 = t5
  c1 = c1 v1 = v1 v2 = v2 r1 = r1 r2 = r2 r3 = r3 r4 = r4 r5 = r5
  NoVec = NoVec Unset = Unset
  Workers = {w1}
  Articles <- EventArticles
  Batches <- ChainBatches
  Scraped <- OnlyB
  Urls <- MCUrls
  Titles <- MCTitles
  Countries = {c1}
  Vectors <- MCVectors
  RowIds <- MCRowIds
  SeedBatches <- MCSeedBatches
  SeedThreshold = 2
  MaxFaults = 2
SPECIFICATION SeedSpec
PROPERTIES StoredUntilDeleted OnlySeedingDeleted
