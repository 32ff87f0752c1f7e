------------------------------- MODULE MCIpc -------------------------------
\* Instance for TLC: three peers that may all subscribe, or ask for something else;
\* page sizes that round, grow and shrink.
EXTENDS Ipc

CONSTANTS p1, p2, p3

Msg(op, value) == [op |-> op, value |-> value]
MCPeers == {p1, p2, p3}
MCMessages ==
  [p \in MCPeers |->
     {Msg("logcat", 0)} \cup
     CASE p = p1 -> {Msg("set_page_size", 3)}
       [] p = p2 -> {Msg("set_page_size", 1)}
       [] p = p3 -> {Msg("set_cache_size", 9), Msg("set_log_level", 7)}]
=============================================================================
