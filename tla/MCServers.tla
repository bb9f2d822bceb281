------------------------------ MODULE MCServers ------------------------------
EXTENDS Servers

\* A pattern matches every path it is a prefix of.
MCMatches(g, path) == g = "/*" /\ path \in Paths

\* One request without the Connection header, one that asks to keep alive.
MCRequests == { [path |-> "/x", connection |-> ""], [path |-> "/y", connection |-> "keep-alive"] }

\* A call that is answered, one that is not registered, a heartbeat, a
\* subscription and the answer to a publication.
MCCalls == { [type |-> "call", key |-> "add"], [type |-> "call", key |-> "none"],
             [type |-> "heartbeat", key |-> ""], [type |-> "subscribe", key |-> "news"],
             [type |-> "published", key |-> ""] }
==============================================================================
