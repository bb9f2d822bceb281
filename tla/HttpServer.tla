----------------------------- MODULE HttpServer -----------------------------
(***************************************************************************)
(* acid::http: HttpServer::handle_client (http_server.cpp), HttpSession    *)
(* (http_session.cpp), the callbacks of the request parser (http_parse.cpp)*)
(* and ServletDispatch (servlet.cpp), on top of TcpServer.                 *)
(*                                                                         *)
(* A request is a path, the value of its Connection header and a body; on  *)
(* the wire it is six half tokens (url, header value, body, two each), and *)
(* a read takes any prefix of what has arrived, so it may cut a token in   *)
(* two or take bytes of the next request.  http_parser, which is not in    *)
(* the repository, hands each run of bytes of a token to its callback, and *)
(* goes on with the next message after a complete one.                     *)
(*                                                                         *)
(* clean[c] is history: no read of the connection cut a token or took      *)
(* bytes of two requests.                                                  *)
(***************************************************************************)
EXTENDS TcpServer

CONSTANTS Paths, Patterns, Matches(_, _),  \* fnmatch(3)
          Requests,     \* [path, connection] records
          Servlets, NotFound,
          KeepAlive,    \* HttpServer's m_is_keep_alive
          MaxRequests,  \* requests of a client, one after the other or pipelined
          MaxChanges    \* changes to the servlets while the server runs

VARIABLES wire, asked, parser, chosen, answers, clean, exact, globs, changes

httpVars == <<wire, asked, parser, chosen, answers, clean, exact, globs, changes>>

None == "none"
Cut  == "cut"          \* a piece of a token
Fresh == [path |-> "/", connection |-> "", body |-> "", finished |-> FALSE]

HttpInit ==
  /\ wire = [c \in Clients |-> <<>>] /\ asked = [c \in Clients |-> <<>>]
  /\ parser = [c \in Clients |-> Fresh] /\ chosen = [c \in Clients |-> None]
  /\ answers = [c \in Clients |-> <<>>] /\ clean = [c \in Clients |-> TRUE]
  /\ exact = [p \in Paths |-> None] /\ globs = <<>> /\ changes = 0

Halves(r) == << [token |-> "url", half |-> 1, value |-> r.path],
                [token |-> "url", half |-> 2, value |-> r.path],
                [token |-> "connection", half |-> 1, value |-> r.connection],
                [token |-> "connection", half |-> 2, value |-> r.connection],
                [token |-> "body", half |-> 1, value |-> r.path],
                [token |-> "body", half |-> 2, value |-> r.path] >>

EndsAt(h) == h.token = "body" /\ h.half = 2

\* The places of a token's halves in a read.
Of(token, hs) == { i \in DOMAIN hs : hs[i].token = token }

\* What the last of a token's callbacks was given: the token when both its
\* halves came in the same read, else a piece of it.  Each callback sets what
\* the one before it had set.
Given(token, hs, old) ==
  LET last == CHOOSE i \in Of(token, hs) : \A j \in Of(token, hs) : j <= i
  IN  IF Of(token, hs) = {} THEN old
      ELSE IF hs[last].half = 2 /\ last > 1 THEN hs[last].value ELSE Cut

\* on_request_url_cb: a piece is parsed as a URL of its own, which may fail.
OnUrl(p, hs)    == Given("url", hs, p.path)
\* on_request_header_field_cb, on_request_header_value_cb
OnHeader(p, hs) == Given("connection", hs, p.connection)
\* on_request_body_cb: set_body(), so the last piece is the body.
OnBody(p, hs)   == Given("body", hs, p.body)

\* Mutant: finished when the headers are.
OnHeaders(p, hs) == p.finished \/ \E i \in DOMAIN hs : hs[i].token = "connection" /\ hs[i].half = 2

\* on_request_message_complete_cb
OnComplete(p, hs) == p.finished \/ \E i \in DOMAIN hs : EndsAt(hs[i])

\* HttpRequestParser::execute() on the bytes of one read.  http_parser takes
\* all of them, so nothing is ever moved to the front of the buffer.
Execute(p, hs) == [path |-> OnUrl(p, hs), connection |-> OnHeader(p, hs),
                   body |-> OnBody(p, hs), finished |-> OnComplete(p, hs)]

CutsUrl(hs) == hs # <<>> /\ Head(hs).token = "url" /\ Head(hs).half = 2
Tidy(hs)    == /\ Head(hs).half = 1 /\ hs[Len(hs)].half = 2
               /\ \A i \in 1 .. Len(hs) - 1 : ~EndsAt(hs[i])

\* HttpRequest::init(): a request without the header is to be closed; one
\* with it keeps what the constructor set, which is to be closed as well.
DefaultClose == TRUE
IsClose(connection) ==
  IF connection = "" THEN connection # "keep-alive" ELSE DefaultClose

\* ServletDispatch::get_matched_servlet()
Matching(path) == { i \in DOMAIN globs : Matches(globs[i][1], path) }
GetMatched(path) ==
  IF path \in Paths /\ exact[path] # None THEN exact[path]
  ELSE IF Matching(path) # {} THEN globs[CHOOSE i \in Matching(path) : \A j \in Matching(path) : i <= j][2]
  ELSE NotFound

-----------------------------------------------------------------------------
HttpSend(c, r) ==
  /\ session[c] \in {"backlog", "scheduled", "recv", "handle", "send"}
  /\ Len(asked[c]) < MaxRequests
  /\ asked' = [asked EXCEPT ![c] = Append(@, r)]
  /\ wire' = [wire EXCEPT ![c] = @ \o Halves(r)]
  /\ UNCHANGED <<tcpVars, parser, chosen, answers, clean, exact, globs, changes>>

tcpRest == <<m_is_stop, m_sockets, open, scheduled, accepting, stops, starts, backlog>>

\* handle_client() begins, and recv_request() with a parser of its own.
HttpSession(c) ==
  /\ session[c] = "scheduled" /\ Goes(c, "recv")
  /\ parser' = [parser EXCEPT ![c] = Fresh]
  /\ UNCHANGED <<tcpRest, wire, asked, chosen, answers, clean, exact, globs, changes>>

\* One turn of its loop: n half tokens are read.  A parse error closes the
\* connection, a finished message is the request.
Recv(c, n, fails) ==
  LET hs == SubSeq(wire[c], 1, n)
      p  == Execute(parser[c], hs)
  IN  /\ session[c] = "recv" /\ n \in 1 .. Len(wire[c])
      /\ fails => CutsUrl(hs)
      /\ parser' = [parser EXCEPT ![c] = p]
      /\ clean' = [clean EXCEPT ![c] = @ /\ Tidy(hs)]
      /\ wire' = [wire EXCEPT ![c] = SubSeq(@, n + 1, Len(@))]
      /\ Goes(c, IF fails THEN "closed" ELSE IF p.finished THEN "handle" ELSE "recv")
      /\ UNCHANGED <<tcpRest, asked, chosen, answers, exact, globs, changes>>

\* Mutant: an accepted socket has no receive timeout, and a client that does
\* not close.
RecvWaits(c) == session[c] = "recv" /\ wire[c] = <<>> /\ UNCHANGED <<tcpVars, httpVars>>

\* read() returns 0, the client having closed, or -1 after m_recv_timeout:
\* the length is then the largest size_t, and the parser runs over what
\* follows the buffer until it finds an error there.
RecvEnds(c) ==
  /\ session[c] = "recv" /\ wire[c] = <<>>
  /\ Goes(c, "closed")
  /\ UNCHANGED <<tcpRest, wire, asked, parser, chosen, answers, clean, exact, globs, changes>>

\* ServletDispatch::handle(): the servlet is found under the read lock.
Handle(c) ==
  /\ session[c] = "handle"
  /\ chosen' = [chosen EXCEPT ![c] = GetMatched(parser[c].path)]
  /\ Goes(c, "send")
  /\ UNCHANGED <<tcpRest, wire, asked, parser, answers, clean, exact, globs, changes>>

\* send_response(), then the end of the loop, or its next turn.
Response(c) == [body |-> parser[c].body, path |-> parser[c].path, servlet |-> chosen[c],
                close |-> IsClose(parser[c].connection) \/ ~KeepAlive]
SendResponse(c) ==
  /\ session[c] = "send"
  /\ answers' = [answers EXCEPT ![c] = Append(@, Response(c))]
  /\ parser' = [parser EXCEPT ![c] = Fresh]
  /\ Goes(c, IF Response(c).close THEN "closed" ELSE "recv")
  /\ UNCHANGED <<tcpRest, wire, asked, chosen, clean, exact, globs, changes>>

\* The client is gone while the response is sent: write() fails, which
\* write_fix_size() takes for progress and tries again, for ever.
SendFails(c) ==
  /\ session[c] = "send"
  /\ Goes(c, "spins")
  /\ UNCHANGED <<tcpRest, wire, asked, parser, chosen, answers, clean, exact, globs, changes>>

-----------------------------------------------------------------------------
Without(uri) == SelectSeq(globs, LAMBDA g : g[1] # uri)
Changing == /\ changes < MaxChanges /\ changes' = changes + 1
            /\ UNCHANGED <<tcpVars, wire, asked, parser, chosen, answers, clean>>

AddServlet(uri, s) == /\ exact' = [exact EXCEPT ![uri] = s] /\ UNCHANGED globs /\ Changing
DelServlet(uri)    == /\ exact[uri] # None
                      /\ exact' = [exact EXCEPT ![uri] = None] /\ UNCHANGED globs /\ Changing
\* A pattern that is added again moves to the end of the list.
AddGlob(uri, s) == /\ globs' = Append(Without(uri), <<uri, s>>) /\ UNCHANGED exact /\ Changing
DelGlob(uri)    == /\ Without(uri) # globs
                   /\ globs' = Without(uri) /\ UNCHANGED exact /\ Changing

SessionStep(c) ==
  \/ HttpSession(c)
  \/ \E n \in 1 .. Len(wire[c]), fails \in BOOLEAN : Recv(c, n, fails)
  \/ RecvEnds(c)
  \/ Handle(c)
  \/ SendResponse(c)

HttpNext ==
  \/ TcpNext /\ UNCHANGED httpVars
  \/ \E c \in Clients : SessionStep(c)
  \/ \E c \in Clients : SendFails(c)
  \/ \E c \in Clients, r \in Requests : HttpSend(c, r)
  \/ \E p \in Paths, s \in Servlets : AddServlet(p, s)
  \/ \E p \in Paths : DelServlet(p)
  \/ \E g \in Patterns, s \in Servlets : AddGlob(g, s)
  \/ \E g \in Patterns : DelGlob(g)
==============================================================================
