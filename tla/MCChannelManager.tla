-------------------------- MODULE MCChannelManager --------------------------
(* Model values for ChannelManager.                                         *)
EXTENDS ChannelManager

CONSTANTS c1, c2, a

TwoClients == {c1, c2}
OneChannel == {a}

\* Both clients join and publish; c1 also leaves and comes back, any number of
\* times, and c2 watches it.  Either may disconnect at any time.
SomeRequests ==
  {Join(c1, a), Join(c2, a), Leave(c1, a), Media(c1, a, c1, "signal"),
   Media(c2, a, c2, "signal"), Media(c2, a, c1, "subscribe")}
=============================================================================
