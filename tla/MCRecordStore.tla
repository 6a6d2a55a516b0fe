---------------------------- MODULE MCRecordStore ----------------------------
EXTENDS RecordStore

\* Words that are no record ids, so that no record looks like the header of another.
MCData == {<<7>>, <<8, 8, 7>>}

\* Words that are record ids.
IdLikeData == {<< >>, <<1, 0>>, <<7, 7, 1, 0>>}

ASSUME OnlyMCDataIsPlain ==
  /\ \A data \in MCData : LooksPlain(data)
  /\ \E data \in IdLikeData : ~ LooksPlain(data)
=============================================================================
