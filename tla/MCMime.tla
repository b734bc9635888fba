--------------------------------- MODULE MCMime ---------------------------------
(* A small instance of Mime: parts of every kind whose texts begin with line *)
(* ends or look like headers, and addresses with and without a domain.       *)
EXTENDS Mime

MCWord == STRING
MCUpper(w) == IF w = "n7nix" THEN "N7NIX" ELSE w
MCColon == {"undisclosed:;"}
MCLong  == {"75 characters"}

Texts == {<<>>, <<Char("a")>> \o Crlf \o <<Token("Cc", <<"SMTP:", "N7NIX", "a.org">>, 0)>>,
          Crlf \o <<Char("b"), Token("Subject", <<"Re:">>, 0)>>,
          <<Token("File", <<"c">>, 1), CR>>, <<Token("Body", <<>>, 2)>>}

MCParts ==
    [kind : {"text", "binary"}, name : {NoName, "name"}, content : Texts]
    \cup [kind : {"text/*"}, name : {NoName}, content : {<<CR, Char("d")>>}]
    \cup [kind : {"partial", "multipart"}, name : {NoName}, content : {<<>>}]

Users == {<<"W1AW", "winlink.org">>, <<"W1AW", "">>, <<"N7NIX", "a.org">>}
Odd   == {<<"undisclosed:;", "">>, <<"75 characters", "a.org">>, <<"n7nix", "winlink.org">>}

MCMails ==
    [from : {<<"W1AW", "">>}, to : {<<<<"N7NIX", "a.org">>>>}, cc : {<<>>}, bcc : {<<>>},
     replyTo : {<<>>}, subject : {"hello"}, parts : SeqOf(MCParts, 3)]
    \cup
    [from : {<<"W1AW", "">>}, to : SeqOf(Users \cup Odd, 2), cc : {<<>>}, bcc : {<<>>},
     replyTo : {<<>>}, subject : {"hello"}, parts : {<<>>}]
    \cup
    [from : Users, to : SeqOf(Users, 2), cc : SeqOf(Users, 1), bcc : {<<>>, <<<<"K4KDJ", "a.org">>>>},
     replyTo : {<<>>, <<"reply">>}, subject : {NoSubject, "hello"},
     parts : {<<>>, <<[kind |-> "text", name |-> NoName,
                       content |-> <<Char("a"), LF, Token("To", <<"", "W1AW", "">>, 0)>>]>>}]
===============================================================================
