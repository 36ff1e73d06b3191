---------------------------- MODULE MCFrameCodec ----------------------------
\* Model-checking instance of FrameCodec.
EXTENDS FrameCodec

\* Bodies with NUL and LF first, last and alone.
MCBodies == {<<>>, <<"LF">>, <<"x", "NUL">>, <<"NUL", "LF">>}

\* A key with a special byte, one that createSendFrame sets itself, one that the
\* server sets or deletes, and the empty one.
MCKeys == {<<"x", ":">>, <<"content-length">>, <<"ack">>, <<>>}

\* Values with every special byte, what looks like an escape, and a number.
MCValues == {<<":", "LF">>, <<"x", "CR">>, <<"\\", "n">>, <<"1">>}
=============================================================================
