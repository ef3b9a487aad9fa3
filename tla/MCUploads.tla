------------------------------ MODULE MCUploads ------------------------------
EXTENDS Uploads, TLC

WorkerSymmetry == Permutations(Workers)
MCIntended == <<"a", "b">>
MCSent == <<{"a"}, {"b"}>>
=============================================================================
