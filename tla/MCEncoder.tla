----------------------------- MODULE MCEncoder -----------------------------
EXTENDS Encoder

MCChunks == {<<>>, <<1>>, <<2, 3, 7>>}
=============================================================================
