-------------------------- MODULE MCProcessCapture --------------------------
EXTENDS ProcessCapture

\* Leaders that talk on all three pipes, on one as much as a spool may hold or
\* more, one that leaves something behind, ones that are stuck and ignore SIGTERM
\* or may not be signalled, one that is stuck beside its child.
Leaders ==
    { <<"in", "err", "err", "out", "out">>,
      <<"in", "out", "out", "out">>,
      <<"in", "fork">>,
      <<"ignore", "hang">>,
      <<"setuid", "hang">>,
      <<"fork", "hang">> }

\* A child that writes and ends, and ones that stay: in the group but deaf to
\* SIGTERM or not to be signalled, out of the group, without pipes.
Children ==
    { <<"out", "out">>, <<"ignore", "hang">>, <<"setuid", "hang">>, <<"detach", "hang">>,
      <<"close", "hang">> }
=============================================================================
