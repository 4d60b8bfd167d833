---------------------------- MODULE MCCollectives ----------------------------
EXTENDS SameDeviceCollectives

CONSTANT WorldN

MCRank == 0..(WorldN - 1)
MCKey == {RankKey(r) : r \in MCRank} \cup {ResultKey}
            \cup {PairKey(s, d) : s \in MCRank, d \in MCRank}

\* All ranks in one process (kMemory), or the first in its own (kFile: the
\* others share the in-process half of the store, the first has it alone).
OneProcess == [r \in MCRank |-> 0]
TwoProcesses == [r \in MCRank |-> IF r = 0 THEN 0 ELSE 1]

Job(work, process) == [work |-> work, process |-> process]

\* Every collective, each reusing the keys of the one before it.
AllJobs == {
    Job(<<"AllReduce", "EqualShapeAllGatherIntoTensor">>, OneProcess),
    Job(<<"AllGather", "AllToAll">>, OneProcess),
    Job(<<"ReduceScatterTensor", "reduce", "AllGather">>, TwoProcesses)}

OneReduceScatter == {Job(<<"ReduceScatterTensor">>, OneProcess)}
=============================================================================
