------------------------------ MODULE HttpText ------------------------------
(***************************************************************************)
(* The HTTP text functions of rust-engine/src/process.rs.  A text is a     *)
(* sequence of tokens: "status", "length" (a Content-Length line with a    *)
(* number), "badlength" (one without) and "line" in a header, "blank" for  *)
(* the empty line, which ends a URL too; and in a body "http", "rtsp",     *)
(* ":", "/", "@", "user", the hosts "ip" (an IPv4 literal of the camera),  *)
(* "localhost" and "name", "quote" for any of the other delimiters, and    *)
(* "fault" for the two markers of a missing profile.  A token stands for   *)
(* its spelling in any case and counts as one byte.                        *)
(***************************************************************************)
EXTENDS Naturals, Sequences, FiniteSetsExt

\* HttpRewriteConfig as handle_client fills it in: the address the client
\* connected to, with the port of the ONVIF or of the RTSP listener.
OwnAuthority(scheme) ==
  <<"bridge", ":", IF scheme = "http" THEN "onvif" ELSE "rtspport">>

Delimiters == {"/", "quote", "blank"}

FirstAt(text, from, tokens) ==
  LET at == {i \in from .. Len(text) : text[i] \in tokens}
  IN  IF at = {} THEN Len(text) + 1 ELSE Min(at)

\* Mutant: the user part is taken for the host.
HostWithUser(authority) == SubSeq(authority, 1, FirstAt(authority, 1, {":"}) - 1)

\* The host of an authority [user[:password]@]host[:port].
HostOf(authority) ==
  LET at == Max({0} \cup {i \in DOMAIN authority : authority[i] = "@"})
      hostPort == SubSeq(authority, at + 1, Len(authority))
  IN  SubSeq(hostPort, 1, FirstAt(hostPort, 1, {":"}) - 1)

\* An IPv4 literal, also one put in before, or localhost.
IsReplaced(host) == host \in {<<"ip">>, <<"bridge">>, <<"localhost">>}

UrlAt(text, i, scheme) ==
  i + 3 <= Len(text) /\ SubSeq(text, i, i + 3) = <<scheme, ":", "/", "/">>

\* One round of the loop of replace_url_authorities for one prefix, with
\* search_from = from; rest[end] is what the next rounds make of the text.
Round(text, scheme, from, rest) ==
  LET urls  == {i \in from .. Len(text) : UrlAt(text, i, scheme)}
      start == Min(urls) + 4
      end   == FirstAt(text, start, Delimiters)
      found == SubSeq(text, start, end - 1)
  IN  IF urls = {} THEN SubSeq(text, from, Len(text))
      ELSE SubSeq(text, from, start - 1)
             \o (IF IsReplaced(HostOf(found)) THEN OwnAuthority(scheme) ELSE found)
             \o rest[end]

ReplaceScheme(text, scheme) ==
  LET rest[from \in 1 .. Len(text) + 1] == Round(text, scheme, from, rest)
  IN  rest[1]

ReplaceUrlAuthorities(text) == ReplaceScheme(ReplaceScheme(text, "http"), "rtsp")

-----------------------------------------------------------------------------
(* Messages: the text and the number its "length" line declares. *)

HeaderEnd(text) == FirstAt(text, 1, {"blank"})
HasHeader(text) == HeaderEnd(text) <= Len(text)
Header(text) == SubSeq(text, 1, HeaderEnd(text) - 1)
Body(text) == SubSeq(text, HeaderEnd(text) + 1, Len(text))
Declares(text, line) == \E i \in DOMAIN Header(text) : Header(text)[i] = line

\* Mutant: the header counts as part of the declared length.
CompleteWithHeader(m) ==
  HasHeader(m.text) /\ (Declares(m.text, "length") => Len(m.text) >= m.declared)

\* http_response_complete
ResponseComplete(m) ==
  HasHeader(m.text) /\ (Declares(m.text, "length") => Len(Body(m.text)) >= m.declared)

\* normalize_no_profile_delete_response
NormalizeNoProfile(m) ==
  IF \E i \in DOMAIN m.text : m.text[i] = "fault"
  THEN [text |-> <<"status", "line", "line", "length", "blank", "deleted">>, declared |-> 1]
  ELSE m

\* Mutant: the length is taken before the addresses change.
RewriteKeepsLength(m) ==
  [m EXCEPT !.text = Header(@) \o <<"blank">> \o ReplaceUrlAuthorities(Body(@))]

\* rewrite_http_response
RewriteResponse(m) ==
  LET body == ReplaceUrlAuthorities(Body(m.text))
      lines == [i \in DOMAIN Header(m.text) |->
                  IF Header(m.text)[i] = "badlength" THEN "length" ELSE Header(m.text)[i]]
      added == IF "length" \in {lines[i] : i \in DOMAIN lines} THEN <<>> ELSE <<"length">>
  IN  IF ~HasHeader(m.text)
      THEN NormalizeNoProfile([m EXCEPT !.text = ReplaceUrlAuthorities(@)])
      ELSE [text |-> lines \o added \o <<"blank">> \o body, declared |-> Len(body)]
=============================================================================
