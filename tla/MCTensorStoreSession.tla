------------------------ MODULE MCTensorStoreSession ------------------------
EXTENDS TensorStoreSession, TLC

CONSTANTS t1, t2, t3, k1, k2, k3

\* Three threads and three keys: k1 is read by the two others, k2 by one, k3
\* by everyone including its own producer, as in an all-gather.  t3 only reads,
\* like a destination rank of ScatherTensor: nothing but the store delays it.
MCRank == {t1, t2, t3}
MCKey == {k1, k2, k3}
MCTensor == MCKey \X (1..MaxEpoch)
MCProducer == k1 :> t1 @@ k2 :> t2 @@ k3 :> t1
MCGetters == k1 :> {t2, t3} @@ k2 :> {t1} @@ k3 :> {t1, t2, t3}
=============================================================================
