---------------------------- MODULE MCFileCache ----------------------------
EXTENDS FileCache

CONSTANTS f1, f2, h1, h2

MCData == {<<1>>, <<1, 2>>, <<2, 1, 1, 2>>}
MCMaxSize == [f \in Files |-> IF f = f1 THEN 4 ELSE 1]

Twins == Permutations({h1, h2})
=============================================================================
