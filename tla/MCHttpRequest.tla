---------------------------- MODULE MCHttpRequest ----------------------------
(* Instances of HttpRequest for TLC. *)
EXTENDS HttpRequest

Host  == <<"Host", "h">>
Keep  == <<"Connection", "Keep-Alive">>
Len0  == <<"Content-Length", "0">>
Len2  == <<"Content-Length", "2">>
Len3  == <<"Content-Length", "3">>

Texts == {"GET page", "GET none", "POST form", "POST none", "PUT page", "bad", "Host",
          "h", "Connection", "Keep-Alive", "Content-Length", "0", "2", "3", "u", "=", "p"}
Tokens == Separators \cup Texts

Req(l, f, b) == [line |-> l, fields |-> f, body |-> b]

\* Short and long connections, forms of several lengths, and requests that the
\* server refuses.
Good == {Req("GET page", <<Host>>, <<>>), Req("GET page", <<Host, Keep>>, <<>>),
         Req("POST form", <<Keep, Len3>>, <<"u", "=", "p">>),
         Req("POST form", <<Len2, Host>>, <<"u", "p">>),
         Req("POST form", <<Keep, Len0>>, <<>>)}
Bad  == {Req("GET none", <<Keep>>, <<>>), Req("PUT page", <<Host, Len2>>, <<"u", "p">>),
         Req("POST form", <<Keep>>, <<"u">>), Req("bad", <<Host>>, <<>>),
         Req("POST none", <<Len0>>, <<>>)}
Mixed == Good \cup Bad

\* One form on a long connection
OneForm == {Req("POST form", <<Keep, Len2>>, <<"u", "p">>)}
OnePage == {Req("GET page", <<Keep, Host>>, <<>>)}
=============================================================================
