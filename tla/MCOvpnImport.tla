---------------------------- MODULE MCOvpnImport ----------------------------
(* Files of up to four things, from directives that give a value twice,    *)
(* in two places or not at all, and blocks, one of which means nothing.     *)
EXTENDS OvpnImport

MCTexts == STRING \ {""}
MCDirectives ==
    {<<"remote", "h1">>, <<"remote", "h1", "0">>, <<"remote", "[v6]", "443", "tcp">>,
     <<"remote", "v6", "70000">>, <<"remote", "v6", "443">>,
     <<"proto", "tcp-client">>, <<"auth-user-pass">>, <<"cert", "c.pem">>, <<"key", "k.pem">>,
     <<"ca", "a.pem">>, <<"tls-auth", "t.key">>, <<"tls-auth", "t.key", "0">>,
     <<"key-direction", "1">>, <<"cipher", "aes">>,
     <<"compress">>, <<"allow-compress", "no">>, <<"route", "10.0.0.0", "255.240.0.0">>,
     <<"route", "nowhere">>, <<"nobind">>}
MCBlocks == {"ca", "tls-auth", "cipher"}
MCBlockLines ==
    {Line(Comment, FALSE), Line(<<Word("remote"), Word("h2")>>, TRUE)}
MCBracketed == [h \in {"[v6]"} |-> "v6"]
MCNumber == [n \in {"0", "1", "443", "70000"} |->
                CASE n = "0" -> 0 [] n = "1" -> 1 [] n = "443" -> 443 [] OTHER -> 70000]
MCOctets == [a \in {"10.0.0.0", "255.240.0.0"} |->
                IF a = "10.0.0.0" THEN <<10, 0, 0, 0>> ELSE <<255, 240, 0, 0>>]
=============================================================================
