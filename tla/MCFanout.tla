------------------------------ MODULE MCFanout ------------------------------
EXTENDS Fanout

\* Two browsers of the requester, so that two batches can meet in both.
MCDevices == {<<"user", "e1">>, <<"user", "e2">>}

MCDeployments == {{k} : k \in Kinds}
=============================================================================
