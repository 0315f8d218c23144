\* Every way a connection starts, with and without upstream TLS.
CONSTANTS
    Scripts <- EveryStart
    Upstream = 3
    ReplyBytes = {"S", "N", "E", "eof"}
    NoUpstreamTls = {TRUE, FALSE}
    MaxRead = 2
    TlsBuffer = 2
SPECIFICATION FairSpec
CHECK_DEADLOCK FALSE
INVARIANTS Untouched
PROPERTIES QuietAfterClose ClosedWhenClientGone ClientHeard
