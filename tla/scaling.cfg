SPECIFICATION FairSpec
CONSTANTS
    c1 = c1
    c2 = c2
    Clusters <- MCClusters
    Size <- MCSize
    SentCounts = {1, 100, 300}
    Latencies = {0, 1000, 4000}
    latency_window_s = 300
    max_ms = 3000
INVARIANTS TypeOK GoalIsLeastSufficient NoOvershoot DemandIsMet BestFirst
 
