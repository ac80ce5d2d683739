---------------------------- MODULE MCResultStore ----------------------------
EXTENDS ResultStore

\* Each packet may overflow on one of its streams.
OneEach == {<<1, "out">>, <<2, "err">>}
=============================================================================
