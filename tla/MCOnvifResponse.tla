-------------------------- MODULE MCOnvifResponse --------------------------
(* Responses put together from headers and at most two pieces of body. *)
EXTENDS OnvifResponse

\* A piece of a body and what the client is to see in its place.
Piece(from, to) == [from |-> from, to |-> to]

CameraUrl == Piece(<<"http", ":", "/", "/", "ip", "/">>,
                   <<"http", ":", "/", "/", "bridge", ":", "onvif", "/">>)

StreamUrl == Piece(<<"rtsp", ":", "/", "/", "user", "@", "user", "@", "ip", ":", "port">>,
                   <<"rtsp", ":", "/", "/", "bridge", ":", "rtspport">>)

Pieces == { CameraUrl, StreamUrl,
  Piece(<<"http", ":", "/", "/", "localhost", ":", "port", "quote">>,
        <<"http", ":", "/", "/", "bridge", ":", "onvif", "quote">>),
  Piece(<<"http", ":", "/", "/", "name", "/">>, <<"http", ":", "/", "/", "name", "/">>),
  Piece(<<"http", ":", "/", "/", "ip", "blank">>,
        <<"http", ":", "/", "/", "bridge", ":", "onvif", "blank">>),
  Piece(<<"ip", "quote">>, <<"ip", "quote">>) }

Bodies == {Piece(<<>>, <<>>)} \cup Pieces
  \cup {Piece(p.from \o <<"quote">> \o q.from, p.to \o <<"quote">> \o q.to)
          : p, q \in {CameraUrl, StreamUrl}}

Answer(header, body, declared, sees) ==
  [text |-> header \o <<"blank">> \o body, declared |-> declared, expected |-> sees]

\* Framed responses, a declared length that is one too large, no length, one
\* that is not a number, and the fault of a missing profile.
SomeResponses ==
  {Answer(<<"status", "length">>, b.from, Len(b.from), <<"status", "length", "blank">> \o b.to)
     : b \in Bodies}
  \cup {Answer(<<"status", "length">>, b.from, Len(b.from) + 1, <<>>) : b \in Pieces}
  \cup {Answer(<<"status", h>>, b.from, 0, <<>>) : b \in Pieces, h \in {"line", "badlength"}}
  \cup {Answer(<<"status", "length">>, <<"fault">>, 1,
               <<"status", "line", "line", "length", "blank", "deleted">>)}

SomeBytes ==
  {"status", "length", "badlength", "line", "blank", "http", "rtsp", ":", "/", "@", "user",
   "ip", "localhost", "name", "port", "quote", "fault", "garbled", "D", "I", "S", "C"}

\* The theorem about NoCameraAddress speaks of such responses.
ASSUME PlainUrls
=============================================================================
