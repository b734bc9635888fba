---------------------------------- MODULE Mime ----------------------------------
(***************************************************************************)
(* The life of one mail as a text: mail.wl2k turns a MIME message into a     *)
(* Winlink one (mime2wl), which lies in the outbox as a file; a session reads *)
(* the file for its title and, peer to peer, for its addresses               *)
(* (prepare_outbound_proposals, p2p_qualify); the station that gets it turns *)
(* it back (wl2mime).                                                        *)
(*                                                                           *)
(* A text is a sequence of tokens: a whole header line with its line end, or *)
(* one character.  A part may hold tokens that look like header lines.       *)
(***************************************************************************)
EXTENDS Integers, Sequences, SequencesExt

CONSTANTS
    Word,         \* what addresses, names and lines are made of
    Upper(_),     \* strupper()
    Colon,        \* words with a ':' among their first 80 characters
    Long,         \* words of 75 characters and more
    Mails,        \* the messages gmime may hand over
    Calls         \* call signs of the stations that may ask for mail peer to peer

VARIABLES
    pc,           \* what is done next
    mail,         \* the message, as gmime has parsed it
    todo,         \* parts g_mime_message_foreach() has still to visit
    hbuf, fbuf, bbuf, abuf,     \* headers, files, body, attachments
    file,         \* in the outbox, then on the air
    title, peer,  \* of the proposal; the station it is listed for, "" for a gateway
    got           \* the message wl2mime builds

vars == <<pc, mail, todo, hbuf, fbuf, bbuf, abuf, file, title, peer, got>>

Key == {"From", "To", "Cc", "Bcc", "Subject", "Reply-To", "Mbo", "Body", "File",
        "char", "cr", "lf", "0xff"}
Tokens == [key : Key, text : Seq(Word), len : Nat]
Token(k, text, n) == [key |-> k, text |-> text, len |-> n]
CR   == Token("cr", <<>>, 0)
LF   == Token("lf", <<>>, 0)
EOF  == Token("0xff", <<>>, 0)
Crlf == <<CR, LF>>
Char(c) == Token("char", <<c>>, 0)
EndsLine(t) == t.key \notin {"cr", "char", "0xff"}

NoSubject == ""
NoName    == ""
Leaf      == {"text", "text/*", "binary"}      \* "text": plain or html

(* What gmime and address_cleanup() make of a message: addresses are         *)
(* <<user, domain>>, the domain "" if there is no '@', and one '@' at most.  *)
Mail ==
    LET addresses == Word \X Word
    IN  [from : addresses, to : Seq(addresses), cc : Seq(addresses), bcc : Seq(addresses),
         replyTo : Seq(Word), subject : Word,
         parts : Seq([kind : Word, name : Word, content : Seq(Tokens)])]

ASSUME MailsAssumption ==
    /\ Mails \subseteq Mail
    /\ {"", "SMTP:", "nobody", "attachment.bin", "attachment.txt"} \subseteq Word

Empty == [from |-> <<>>, to |-> <<>>, cc |-> <<>>, bcc |-> <<>>, replyTo |-> <<>>,
          subject |-> NoSubject, parts |-> <<>>]

Init ==
    /\ pc = "headers"
    /\ mail \in Mails /\ todo = mail.parts
    /\ hbuf = <<>> /\ fbuf = <<>> /\ bbuf = <<>> /\ abuf = <<>>
    /\ file = <<>> /\ title = NoSubject /\ peer = "" /\ got = Empty

-------------------------------------------------------------------------------
(* mime2wl                                                                   *)
Address(a) == IF a[2] = "" THEN <<"", a[1], "">> ELSE <<"SMTP:", a[1], a[2]>>

Mbo(a) == IF a[2] = "winlink.org" THEN <<"", a[1], "">> ELSE Address(a)

Addresses(k, list) == [i \in 1 .. Len(list) |-> Token(k, Address(list[i]), 0)]

(* A message without a subject has none to copy: the program dies.           *)
Headers ==
    /\ pc = "headers"
    /\ IF mail.subject = NoSubject THEN pc' = "crash" /\ hbuf' = <<>>
       ELSE /\ pc' = "parts"
            /\ hbuf' = <<Token("From", Address(mail.from), 0)>>
                       \o Addresses("To", mail.to)
                       \o Addresses("Cc", mail.cc)
                       \o Addresses("Bcc", mail.bcc)
                       \o <<Token("Subject", <<mail.subject>>, 0)>>
                       \o (IF mail.replyTo = <<>> THEN <<>>
                           ELSE <<Token("Reply-To", mail.replyTo, 0)>>)
                       \o <<Token("Mbo", Mbo(mail.from), 0)>>
    /\ UNCHANGED <<mail, todo, fbuf, bbuf, abuf, file, title, peer, got>>

(* mime_foreach_callback: multiparts, messages inside (whose own parts are   *)
(* visited next) and pieces of messages leave nothing.                       *)
NextPart == IF todo = <<>> THEN {} ELSE {Head(todo)}

Visit ==
    /\ pc = "parts"
    /\ todo' = Tail(todo)
    /\ UNCHANGED <<pc, mail, file, title, peer, got>>

SkipPart ==
    \E p \in NextPart :
        /\ Visit /\ p.kind \notin Leaf
        /\ UNCHANGED <<hbuf, fbuf, bbuf, abuf>>

IsBody(p) == p.name = NoName /\ bbuf = <<>> /\ p.kind = "text"

BodyPart ==
    \E p \in NextPart :
        /\ Visit /\ p.kind \in Leaf /\ IsBody(p)
        /\ hbuf' = Append(hbuf, Token("Body", <<>>, Len(p.content)))
        /\ bbuf' = Crlf \o p.content
        /\ UNCHANGED <<fbuf, abuf>>

NameOf(p) ==
    IF p.name # NoName THEN p.name
    ELSE IF p.kind = "binary" THEN "attachment.bin" ELSE "attachment.txt"

AttachmentPart ==
    \E p \in NextPart :
        /\ Visit /\ p.kind \in Leaf /\ ~IsBody(p)
        /\ fbuf' = Append(fbuf, Token("File", <<NameOf(p)>>, Len(p.content)))
        /\ abuf' = abuf \o Crlf \o p.content
        /\ UNCHANGED <<hbuf, bbuf>>

(* Without a body a line stands for it, with its own line end before it      *)
(* left out.                                                                 *)
nobody == <<Char("nobody")>> \o Crlf

Layout ==
    /\ pc = "parts" /\ todo = <<>>
    /\ file' = IF bbuf = <<>>
               THEN hbuf \o <<Token("Body", <<>>, Len(nobody))>> \o fbuf \o nobody \o abuf
               ELSE hbuf \o fbuf \o bbuf \o abuf
    /\ pc' = "stored"
    /\ hbuf' = <<>> /\ fbuf' = <<>> /\ bbuf' = <<>> /\ abuf' = <<>>
    /\ UNCHANGED <<mail, todo, title, peer, got>>

-------------------------------------------------------------------------------
(* The session.  Both loops read every line of the file, the body's too.     *)
LineStarts(text) == {i \in 1 .. Len(text) : i = 1 \/ EndsLine(text[i - 1])}
LinesOf(text, k) == {i \in LineStarts(text) : text[i].key = k}

(* The last one counts.                                                      *)
TitleOf(text) ==
    LET found == LinesOf(text, "Subject")
    IN  IF found = {} THEN "No subject"
        ELSE text[CHOOSE i \in found : \A j \in found : j =< i].text[1]

(* What one To: line, without its "To:", says of the station: what follows   *)
(* the first colon, up to an '@', is to be its call.  Only 80 characters are *)
(* looked at; a line in which they hold no '@' says nothing against it.  (The *)
(* text of a line is what ends with its first colon, "SMTP:", then what      *)
(* precedes an '@' and what follows it.)                                     *)
IsFor(text, call) ==
    IF text[1] = "SMTP:" THEN text[3] = "" \/ text[2] \in Long \/ Upper(text[2]) = call
    ELSE text[2] \in Colon

(* Mutant: only the first To: line is looked at.                             *)
Qualifies_First(text, call) ==
    /\ LinesOf(text, "Cc") = {}
    /\ \A i \in LinesOf(text, "To") :
           (\A j \in LinesOf(text, "To") : i =< j) => IsFor(text[i].text, call)

(* p2p_qualify                                                               *)
Qualifies(text, call) ==
    /\ LinesOf(text, "Cc") = {}
    /\ \A i \in LinesOf(text, "To") : IsFor(text[i].text, call)

(* A message that does not qualify is freed before its text is: it is passed *)
(* over or the session dies, and the file stays.                             *)
Propose(call) ==
    /\ pc = "stored"
    /\ peer' = call
    /\ IF call = "" \/ Qualifies(file, call)
       THEN pc' = "sent" /\ title' = TitleOf(file)
       ELSE pc' \in {"kept", "crash"} /\ UNCHANGED title
    /\ UNCHANGED <<mail, todo, hbuf, fbuf, bbuf, abuf, file, got>>

-------------------------------------------------------------------------------
(* wl2mime.  The headers end at the first line that begins with a line end.  *)
BlankAt(text) == {i \in LineStarts(text) : text[i].key \in {"cr", "lf"}}

(* Mutant: only a lone LF ends the headers.                                  *)
HeadEnd_LfOnly(text) ==
    LET blank == {i \in LineStarts(text) : text[i].key = "lf"}
    IN  IF blank = {} THEN Len(text) + 1 ELSE CHOOSE i \in blank : \A j \in blank : i =< j

HeadEnd(text) ==
    IF BlankAt(text) = {} THEN Len(text) + 1
    ELSE CHOOSE i \in BlankAt(text) : \A j \in BlankAt(text) : i =< j

(* The blank line is read whole.                                             *)
RestFrom(text, i) ==
    LET next == {j \in LineStarts(text) : j > i}
    IN  IF next = {} THEN Len(text) + 1 ELSE CHOOSE j \in next : \A k \in next : j =< k

Receive ==
    /\ pc = "sent"
    /\ pc' = "lines"
    /\ hbuf' = SubSeq(file, 1, HeadEnd(file) - 1)
    /\ bbuf' = SubSeq(file, RestFrom(file, HeadEnd(file)), Len(file))
    /\ UNCHANGED <<mail, todo, fbuf, abuf, file, title, peer, got>>

(* The next line of the headers; a line that is none is passed over.         *)
ReadLine(keys) ==
    /\ pc = "lines" /\ hbuf # <<>> /\ Head(hbuf).key \in keys
    /\ hbuf' = SubSeq(hbuf, RestFrom(hbuf, 1), Len(hbuf))
    /\ UNCHANGED <<pc, mail, todo, fbuf, abuf, file, title, peer>>

(* Mutant: every address gets the domain.                                    *)
Mailbox_Winlink(t) == <<t.text[2], "winlink.org">>

Mailbox(t) == <<t.text[2], IF t.text[1] = "SMTP:" THEN t.text[3] ELSE "winlink.org">>

HeaderLine ==
    /\ ReadLine({"From", "To", "Cc", "Bcc", "Reply-To", "Subject"})
    /\ \E t \in {Head(hbuf)} :
           got' = CASE t.key = "From"     -> [got EXCEPT !.from = Mailbox(t)]
                    [] t.key = "To"       -> [got EXCEPT !.to = Append(@, Mailbox(t))]
                    [] t.key = "Cc"       -> [got EXCEPT !.cc = Append(@, Mailbox(t))]
                    [] t.key = "Bcc"      -> [got EXCEPT !.bcc = Append(@, Mailbox(t))]
                    [] t.key = "Reply-To" -> [got EXCEPT !.replyTo = t.text]
                    [] t.key = "Subject"  -> [got EXCEPT !.subject = t.text[1]]
    /\ UNCHANGED bbuf

OtherLine == ReadLine({"Mbo", "char", "0xff", "cr", "lf"}) /\ UNCHANGED <<bbuf, got>>

(* len characters; behind the last one stands EOF, which is written as 0xff. *)
Taken(from, len) ==
    [i \in 1 .. len |-> IF from + i =< Len(bbuf) THEN bbuf[from + i] ELSE EOF]
Part(name, content) == [name |-> name, content |-> content]

BodyLine ==
    /\ ReadLine({"Body"})
    /\ got' = [got EXCEPT !.parts = Append(@, Part(NoName, Taken(0, Head(hbuf).len)))]
    /\ bbuf' = SubSeq(bbuf, Head(hbuf).len + 1, Len(bbuf))

(* Mutant: the line end before a file is not skipped.                        *)
FileLine_NoSkip ==
    /\ ReadLine({"File"})
    /\ got' = [got EXCEPT !.parts =
                   Append(@, Part(Head(hbuf).text[1], Taken(0, Head(hbuf).len)))]
    /\ bbuf' = SubSeq(bbuf, Head(hbuf).len + 1, Len(bbuf))

FileLine ==
    /\ ReadLine({"File"})
    /\ got' = [got EXCEPT !.parts =
                   Append(@, Part(Head(hbuf).text[1], Taken(2, Head(hbuf).len)))]
    /\ bbuf' = SubSeq(bbuf, 2 + Head(hbuf).len + 1, Len(bbuf))

Deliver ==
    /\ pc = "lines" /\ hbuf = <<>>
    /\ pc' = "done"
    /\ UNCHANGED <<mail, todo, hbuf, fbuf, bbuf, abuf, file, title, peer, got>>

Next ==
    \/ Headers \/ SkipPart \/ BodyPart \/ AttachmentPart \/ Layout
    \/ \E call \in Calls \cup {""} : Propose(call)
    \/ Receive \/ HeaderLine \/ OtherLine \/ BodyLine \/ FileLine \/ Deliver

Spec == Init /\ [][Next]_vars

-------------------------------------------------------------------------------
TypeOK ==
    /\ pc \in {"headers", "parts", "stored", "kept", "sent", "lines", "done", "crash"}
    /\ mail \in Mails
    /\ todo = SubSeq(mail.parts, Len(mail.parts) - Len(todo) + 1, Len(mail.parts))
    /\ peer \in Calls \cup {""}
    /\ pc # "parts" => fbuf = <<>> /\ abuf = <<>>
    /\ pc \notin {"parts", "lines"} => hbuf = <<>>

(* The leaves of the message, the body first, as the parts they become.      *)
Leaves ==
    LET pick[n \in 0 .. Len(mail.parts)] ==
            IF n = 0 THEN <<>>
            ELSE pick[n - 1] \o (IF mail.parts[n].kind \in Leaf THEN <<mail.parts[n]>> ELSE <<>>)
    IN  pick[Len(mail.parts)]
Bodies == {i \in 1 .. Len(Leaves) : Leaves[i].kind = "text" /\ Leaves[i].name = NoName}
Expected ==
    LET body == CHOOSE i \in Bodies : \A j \in Bodies : i =< j
    IN  <<Part(NoName, Leaves[body].content)>>
        \o [i \in 1 .. Len(Leaves) - 1 |->
               LET p == Leaves[IF i < body THEN i ELSE i + 1]
               IN  Part(NameOf(p), p.content)]

(* What mime2wl lays out by lengths and separators wl2mime takes apart       *)
(* again: a message with a text for a body arrives with that body and every  *)
(* other part under its name, whatever the parts hold.                       *)
PartsKept == pc = "done" /\ Bodies # {} => got.parts = Expected

(* Sender, recipients, Reply-To and subject arrive as they were written, an  *)
(* address without a domain as one of Winlink, and no line of a body is taken *)
(* for one, with or without a body.                                          *)
HeadersKept ==
    pc = "done" =>
      LET full(a) == <<a[1], IF a[2] = "" THEN "winlink.org" ELSE a[2]>>
          all(list) == [i \in 1 .. Len(list) |-> full(list[i])]
      IN  /\ got.from = full(mail.from)
          /\ got.to = all(mail.to) /\ got.cc = all(mail.cc) /\ got.bcc = all(mail.bcc)
          /\ got.replyTo = mail.replyTo /\ got.subject = mail.subject

(* A message that is handed to a station peer to peer, after which its file  *)
(* is deleted, has no Cc: and is to nobody else, but for an address whose    *)
(* '@' p2p_qualify() does not see and whose colon it does: a name with a     *)
(* colon, like "undisclosed-recipients:;", or one of 75 characters and more. *)
(* No line of a body makes up for an address.  (A Bcc: is not looked at.)    *)
PeerAlone ==
    pc \in {"sent", "lines", "done"} /\ peer # "" =>
      /\ mail.cc = <<>>
      /\ \A i \in 1 .. Len(mail.to) :
            LET user == mail.to[i][1]
            IN  IF mail.to[i][2] = "" THEN user \in Colon
                ELSE user \in Long \/ Upper(user) = peer

(* "skip crlf", wl2mime.c:273: the two characters that are skipped before a  *)
(* file are its line end.                                                    *)
SkipsCrlf == pc = "lines" /\ hbuf # <<>> /\ Head(hbuf).key = "File" => IsPrefix(Crlf, bbuf)
===============================================================================
