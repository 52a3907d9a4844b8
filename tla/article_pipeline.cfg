CONSTANTS
  w1 = w1 w2 = w2 u1 = u1 u2 = u2 t1 = t1 t2 = t2 c1 = c1 c2 = c2 v1 = v1 v2 = v2
  r1 = r1 r2 = r2 r3 = r3
  RowIds <- MCRowIds
  NoVec = NoVec Unset = Unset
  Workers = {w1, w2}
  Articles <- FlatArticles
  Batches <- FlatBatches
  Scraped = {}
  Urls = {u1, u2}
  Titles = {t1, t2}
  Countries = {c1, c2}
  Vectors = {v1, v2}
  MaxFaults = 1
SPECIFICATION FairSpec
INVARIANT DedupKeyOnlyAfterPersist
PROPERTIES ImplementsStore OfferedIsHandled
