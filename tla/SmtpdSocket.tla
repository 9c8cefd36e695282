------------------------------ MODULE SmtpdSocket ------------------------------
(***************************************************************************)
(* SmtpdSocket of the socket library: the server's side of a mail session, *)
(* line by line, with a client that may send commands ahead of the replies *)
(* but waits for the 354 before it sends a mail.  m_header is never set,   *)
(* so the headers of a mail reach OnData as its other lines do, and the    *)
(* branch of OnLine for them is dead.                                      *)
(***************************************************************************)
EXTENDS Naturals, Sequences, SequencesExt

CONSTANTS Address,      \* addresses: "ok", "long name" or "long domain"
          BodyLine,     \* lines of a mail: sequences of "." and other letters
          MaxLines,     \* bounds: lines of a mail
          MaxCommands   \* commands of a session

VARIABLES m_hello, m_data,
          closing,      \* SetCloseAndDelete
          wire,         \* lines on their way to the server
          replies,      \* replies the client has not read
          waiting,      \* commands of the client without a reply
          mail,         \* the mail the client is sending, and whether it is
          sending,
          data,         \* the lines given to OnData since the last DATA
          mails,        \* mails completed: [sent, got]
          calls,        \* callbacks so far, a set
          commands
vars == <<m_hello, m_data, closing, wire, replies, waiting, mail, sending, data, mails, calls, commands>>

Command == {<<c>> : c \in {"HELLO", "DATA", "RSET", "QUIT", "NOOP", "OTHER"}}
           \union ({"MAIL", "RCPT"} \X Address)
End == <<".">>
\* A client puts a dot before a line that starts with one.
Stuffed(line) == IF line # <<>> /\ line[1] = "." THEN <<".">> \o line ELSE line

Init ==
    /\ m_hello = FALSE /\ m_data = FALSE /\ closing = FALSE
    /\ wire = <<>> /\ replies = <<"220">> /\ waiting = 1
    /\ mail = <<>> /\ sending = FALSE /\ data = <<>> /\ mails = <<>> /\ calls = {} /\ commands = 0

-----------------------------------------------------------------------------
\* The client.  After a DATA it sends nothing until it has the reply.
Ahead == \E i \in DOMAIN wire : wire[i] = <<"DATA">>
Issue(c) ==
    /\ ~closing /\ ~sending /\ ~Ahead /\ "354" \notin Range(replies) /\ commands < MaxCommands
    /\ wire' = Append(wire, c) /\ waiting' = waiting + 1 /\ commands' = commands + 1
    /\ UNCHANGED <<m_hello, m_data, closing, replies, mail, sending, data, mails, calls>>
Read ==
    /\ replies # <<>> /\ replies' = Tail(replies) /\ waiting' = waiting - 1
    /\ sending' = (sending \/ Head(replies) = "354")
    /\ mail' = IF Head(replies) = "354" THEN <<>> ELSE mail
    /\ UNCHANGED <<m_hello, m_data, closing, wire, data, mails, calls, commands>>
SendLine(line) ==
    /\ sending /\ Len(mail) < MaxLines /\ mail' = Append(mail, line)
    /\ wire' = Append(wire, Stuffed(line))
    /\ UNCHANGED <<m_hello, m_data, closing, replies, waiting, sending, data, mails, calls, commands>>
SendEnd ==
    /\ sending /\ sending' = FALSE /\ wire' = Append(wire, End) /\ waiting' = waiting + 1
    /\ UNCHANGED <<m_hello, m_data, closing, replies, mail, data, mails, calls, commands>>

-----------------------------------------------------------------------------
\* OnLine.  Lines that came with the one that closed the socket are handled
\* all the same.
Line == Head(wire)
Receive == wire # <<>> /\ wire' = Tail(wire)
           /\ UNCHANGED <<waiting, mail, sending, commands>>
Reply(code) == replies' = Append(replies, code)

\* A line of a mail.
OnDataStuffed ==
    /\ m_data /\ Receive /\ Line # End /\ data' = Append(data, Line)
    /\ UNCHANGED <<m_hello, m_data, closing, replies, mails, calls>>
OnData ==
    /\ m_data /\ Receive /\ Line # End
    /\ data' = Append(data, IF Line # <<>> /\ Line[1] = "." THEN Tail(Line) ELSE Line)
    /\ UNCHANGED <<m_hello, m_data, closing, replies, mails, calls>>
OnDataCompleteSilent(ok) ==
    /\ m_data /\ Receive /\ Line = End /\ m_data' = FALSE
    /\ IF ok THEN Reply("250") ELSE UNCHANGED replies
    /\ mails' = Append(mails, [sent |-> mail, got |-> data]) /\ calls' = calls \union {"complete"}
    /\ UNCHANGED <<m_hello, closing, data>>
OnDataComplete(ok) ==
    /\ m_data /\ Receive /\ Line = End /\ m_data' = FALSE
    /\ Reply(IF ok THEN "250" ELSE "550")
    /\ mails' = Append(mails, [sent |-> mail, got |-> data]) /\ calls' = calls \union {"complete"}
    /\ UNCHANGED <<m_hello, closing, data>>

\* A command.
Is(c) == ~m_data /\ Receive /\ Line[1] = c
Hello(ok) ==
    /\ Is("HELLO") /\ m_hello' = (m_hello \/ ok) /\ Reply(IF ok THEN "250" ELSE "550")
    /\ UNCHANGED <<m_data, closing, data, mails, calls>>
NoHello ==
    /\ ~m_data /\ ~m_hello /\ Receive /\ Line[1] # "HELLO" /\ closing' = TRUE
    /\ UNCHANGED <<m_hello, m_data, replies, data, mails, calls>>

\* MAIL and RCPT; OnAbort is told of an address that is too long.
TooLong(a) == a \in {"long name", "long domain"}
MailFrom(ok) ==
    /\ m_hello /\ Is("MAIL")
    /\ IF TooLong(Line[2]) THEN Reply("500") /\ UNCHANGED calls
       ELSE Reply(IF ok THEN "250" ELSE "550") /\ calls' = calls \union {"mail"}
    /\ UNCHANGED <<m_hello, m_data, closing, data, mails>>
RcptToUngreeted(ok) ==
    /\ Is("RCPT")
    /\ IF TooLong(Line[2]) THEN Reply("500") /\ UNCHANGED calls
       ELSE Reply(IF ok THEN "250" ELSE "553") /\ calls' = calls \union {"rcpt"}
    /\ UNCHANGED <<m_hello, m_data, closing, data, mails>>
RcptTo(ok) ==
    /\ m_hello /\ Is("RCPT")
    /\ IF TooLong(Line[2]) THEN Reply("500") /\ UNCHANGED calls
       ELSE Reply(IF ok THEN "250" ELSE "553") /\ calls' = calls \union {"rcpt"}
    /\ UNCHANGED <<m_hello, m_data, closing, data, mails>>
DataStart ==
    /\ m_hello /\ Is("DATA") /\ Reply("354") /\ m_data' = TRUE /\ data' = <<>>
    /\ UNCHANGED <<m_hello, closing, mails, calls>>
Rset ==
    /\ m_hello /\ Is("RSET") /\ Reply("250") /\ calls' = calls \union {"rset"}
    /\ UNCHANGED <<m_hello, m_data, closing, data, mails>>
Quit ==
    /\ m_hello /\ Is("QUIT") /\ Reply("221") /\ closing' = TRUE
    /\ UNCHANGED <<m_hello, m_data, data, mails, calls>>
Noop ==
    /\ m_hello /\ Is("NOOP") /\ Reply("250")
    /\ UNCHANGED <<m_hello, m_data, closing, data, mails, calls>>
\* OnNotSupported leaves the reply to the derived class; it is taken to send it.
NotSupported ==
    /\ m_hello /\ Is("OTHER") /\ Reply("500")
    /\ UNCHANGED <<m_hello, m_data, closing, data, mails, calls>>

Next == \/ \E c \in Command : Issue(c)
        \/ Read \/ SendEnd \/ \E line \in BodyLine : SendLine(line)
        \/ OnData \/ NoHello \/ DataStart \/ Rset \/ Quit \/ Noop \/ NotSupported
        \/ \E ok \in BOOLEAN : OnDataComplete(ok) \/ Hello(ok) \/ MailFrom(ok) \/ RcptTo(ok)
Spec == Init /\ [][Next]_vars

-----------------------------------------------------------------------------
\* A mail is complete with the lines the client sent, none of them taken for
\* the end of the mail or for a command (SmtpdSocket::OnLine).
MailAsSent == \A i \in DOMAIN mails : mails[i].sent = mails[i].got

\* Every command has one reply until the session is closed: for each one
\* that the client waits for, the command or its reply is on the wire
\* (SmtpdSocket::OnLine).
Unmailed == IF m_data THEN SubSeq(wire, CHOOSE i \in 1 .. Len(wire) + 1 :
                                            /\ i = Len(wire) + 1 \/ wire[i] = End
                                            /\ \A j \in 1 .. i - 1 : wire[j] # End, Len(wire))
            ELSE wire
CommandsAnswered == closing \/ waiting = Len(Unmailed) + Len(replies)

\* No mail, sender or recipient is taken before a greeting was accepted.
GreetedFirst == calls # {} => m_hello
=============================================================================
