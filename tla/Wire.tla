-------------------------------- MODULE Wire --------------------------------
(***************************************************************************)
(* One connection as a stream of bytes: the commands of ConsoleClient, the *)
(* packages they become, the reads of EpollWorker that take them for one   *)
(* package each, the replies that SendData writes, and the reads of        *)
(* ClientTCP that show them.  TCP keeps the bytes in order and marks no    *)
(* boundaries: a read takes what has come.  The sockets between client and *)
(* server are assumed to hold all requests that are still to be read.      *)
(*                                                                         *)
(* EpollWorker follows many connections and their threads; here is what it *)
(* makes of the bytes of one.  What the handlers do is in Sessions.        *)
(***************************************************************************)
EXTENDS Framing, SequencesExt

CONSTANTS
    Lines,      \* texts for the free fields of a command
    Entry,      \* a text for each other kind of field
    Answers,    \* payloads of replies
    Deliveries, \* ways of TCP and of the user, see delivery
    Capacity,   \* bytes a socket holds for a client that does not read
    MaxSent     \* bound: packages sent

\* get_valid_input returns no empty line.  That the user types no NUL is assumed:
\* getline would return it, and no validator of a free field refuses it.
Text == Seq(1..255) \ {<<>>}

ASSUME WireAssumption ==
    /\ Lines \subseteq Text
    /\ \A kind \in {"number", "difficulty", "status", "time"} : Entry[kind] \in Text
    /\ Answers \subseteq Seq(1..255)
    /\ Deliveries \subseteq {"whole", "requests cut", "replies cut"}
    /\ Capacity \in Nat
    /\ MaxSent \in Nat

VARIABLES
    \* "whole": every read finds what was written before it, and the user is
    \* patient, see Quiet; "requests cut", "replies cut": what is read of them
    \* comes in any pieces.  Never changes.
    delivery,
    client,     \* "up", "deaf" (its thread has ended), "gone"
    up, down,   \* bytes on their way
    server,     \* what the server does for the connection: "stuck" is one that a
                \* package locked out, "failed" one whose handler threw
    rest,       \* of the reply, what SendData has still to write
    active,     \* the loop has started an active thread
    shown,      \* what the client has printed
    \* Not in the code: what was sent and handled, in order.
    sent, handled, answers

bytes == <<up, down>>
history == <<sent, handled, answers>>
vars == <<delivery, client, bytes, server, rest, active, shown, history>>

\* The commands with the type of their package and the kinds of their fields.
Commands == {
    [cType |-> 1, kinds |-> <<"text">>],                \* login
    [cType |-> 0, kinds |-> <<"text">>],                \* register
    [cType |-> 8, kinds |-> <<"text">>],                \* delete_user
    [cType |-> 9, kinds |-> <<"number", "text", "difficulty">>],
                                                        \* insert_problem
    [cType |-> 10, kinds |-> <<"number">>],             \* delete_problem
    [cType |-> 11, kinds |-> <<"number", "text">>],     \* insert_type
    [cType |-> 12, kinds |-> <<"number", "text">>],     \* delete_type
    [cType |-> 2, kinds |-> <<>>],                      \* query_units_data
    [cType |-> 3, kinds |-> <<"text">>],                \* query_unit_detail
    [cType |-> 5, kinds |-> <<"number">>],              \* get_submission
    [cType |-> 6, kinds |-> <<"number", "status", "time">>],
                                                        \* insert_submission
    [cType |-> 7, kinds |-> <<"number">>]}              \* delete_submission

LOGIN == 1

\* In the code START is 42.
ASSUME StartIsNoType == \A cmd \in Commands : cmd.cType # START

\* What get_valid_input returns for a field, after the lines it refuses.
get_valid_input(kind) == IF kind = "text" THEN Lines ELSE {Entry[kind]}

FieldsOf(cmd) ==
    {f \in [DOMAIN cmd.kinds -> UNION {get_valid_input(k) : k \in Range(cmd.kinds)}] :
        \A i \in DOMAIN f : f[i] \in get_valid_input(cmd.kinds[i])}

Payload(fields) == FlattenSeq([i \in DOMAIN fields |-> <<SEP>> \o fields[i]])

Init ==
    /\ delivery \in Deliveries
    /\ client = "up"
    /\ up = <<>>
    /\ down = <<>>
    /\ server = "idle"
    /\ rest = <<>>
    /\ active = FALSE
    /\ shown = <<>>
    /\ sent = <<>>
    /\ handled = <<>>
    /\ answers = <<>>

\* How many of the bytes a read or write takes, of those there are or fit.
Pieces(most, cut) == IF delivery = cut THEN 1..most ELSE {most} \ {0}
Least(m, n) == IF m <= n THEN m ELSE n
Cut(s, n) == SubSeq(s, n + 1, Len(s))

\* The console waits for half a second after a command: a patient user finds
\* the server done with it and the reply shown.  If the handler has thrown he
\* waits in vain, and types on.
Quiet == server = "idle" /\ up = <<>> /\ down = <<>>
Waited == Quiet \/ server = "failed"

-----------------------------------------------------------------------------
(* The client. *)

\* A command with its fields.  A package that is too long is the empty string,
\* of which nothing is sent and nobody told.  The socket takes the whole of any
\* other: the code does not look whether send did.
UserSends(cmd, fields) ==
    /\ client \in {"up", "deaf"}
    /\ delivery = "whole" => Waited
    /\ Len(sent) < MaxSent
    /\ LET msg == build_package(cmd.cType, Payload(fields))
       IN  /\ msg # <<>>
           /\ up' = up \o msg
           /\ sent' = Append(sent, [cType |-> cmd.cType, fields |-> fields])
    /\ UNCHANGED <<delivery, client, down, server, rest, active, shown, handled,
                   answers>>

\* Printed as a C string, to the first NUL.
CString(s) ==
    SubSeq(s, 1, CHOOSE n \in 0..Len(s) :
                    /\ \A i \in 1..n : s[i] # 0
                    /\ n = Len(s) \/ s[n + 1] = 0)

RecvReads ==
    /\ client = "up"
    /\ \E n \in Pieces(Least(MaxBuffer, Len(down)), "replies cut") :
        LET msg == SubSeq(down, 1, n)
            pos == get_start_payload(msg)
        IN  /\ down' = Cut(down, n)
            /\ shown' = shown \o [i \in 1..Cardinality(pos) |->
                           CString(Cut(msg, (CHOOSE p \in pos : TRUE) - 1))]
    /\ UNCHANGED <<delivery, client, up, server, rest, active, history>>

\* A signal ends the receiving thread, while the console goes on.
ClientGoesDeaf ==
    /\ client = "up"
    /\ client' = "deaf"
    /\ UNCHANGED <<delivery, bytes, server, rest, active, shown, history>>

ClientLeaves ==
    /\ client \in {"up", "deaf"}
    /\ client' = "gone"
    /\ down' = <<>>
    /\ UNCHANGED <<delivery, up, server, rest, active, shown, history>>

-----------------------------------------------------------------------------
(* The server. *)

\* handle_event and the task: one read, one package.  What does not parse leaves
\* fd_inthreadpool set, and the connection is never served again.
ServerReads ==
    /\ server = "idle"
    /\ \E n \in Pieces(Least(MaxBuffer, Len(up)), "requests cut") :
        LET pkg == parse_sockpackage(SubSeq(up, 1, n))
        IN  /\ up' = Cut(up, n)
            /\ server' = IF pkg = {} THEN "stuck" ELSE "busy"
            /\ handled' = handled \o SetToSeq(pkg)
    /\ UNCHANGED <<delivery, client, down, rest, active, shown, sent, answers>>

\* The loop finds more bytes while the task runs.
ServerActivates ==
    /\ server \in {"busy", "writing", "returning"}
    /\ up # <<>>
    /\ active' = TRUE
    /\ UNCHANGED <<delivery, client, bytes, server, rest, shown, history>>

BadServerHandles ==
    /\ server = "busy"
    /\ \/ server' = "returning" /\ UNCHANGED <<rest, answers>>
       \/ \E a \in Answers, t \in {Last(handled).cType, LOGIN} :
            /\ rest' = build_package(t, a)
            /\ server' = "writing"
            /\ answers' = Append(answers, a)
    /\ UNCHANGED <<delivery, client, bytes, active, shown, sent, handled>>

\* A handler makes a reply with its own type or check_login's.  One that is too
\* long is not sent, and then the handler says nothing, as some do.
ServerHandles ==
    /\ server = "busy"
    /\ \/ server' = "returning" /\ UNCHANGED <<rest, answers>>
       \/ \E a \in Answers, t \in {Last(handled).cType, LOGIN} :
            /\ rest' = build_package(t, a)
            /\ rest' # <<>>
            /\ server' = "writing"
            /\ answers' = Append(answers, a)
    /\ UNCHANGED <<delivery, client, bytes, active, shown, sent, handled>>

\* MySQL is lost: the handlers of sql_driver throw again, before any reply.  The
\* pool catches it, and fd_inthreadpool stays set.
ServerThrows ==
    /\ server = "busy"
    /\ server' = "failed"
    /\ UNCHANGED <<delivery, client, bytes, rest, active, shown, history>>

BadServerWrites ==
    /\ server = "writing"
    /\ client # "gone"
    /\ \E n \in Pieces(Least(Len(rest), Capacity - Len(down)), "replies cut") :
        /\ down' = down \o SubSeq(rest, 1, n)
        /\ rest' = IF n = Len(rest) THEN <<>> ELSE rest
        /\ server' = IF rest' = <<>> THEN "returning" ELSE "writing"
    /\ UNCHANGED <<delivery, client, up, active, shown, history>>

\* SendData: a turn of its loop that writes something.
ServerWrites ==
    /\ server = "writing"
    /\ client # "gone"
    /\ \E n \in Pieces(Least(Len(rest), Capacity - Len(down)), "replies cut") :
        /\ down' = down \o SubSeq(rest, 1, n)
        /\ rest' = Cut(rest, n)
        /\ server' = IF rest' = <<>> THEN "returning" ELSE "writing"
    /\ UNCHANGED <<delivery, client, up, active, shown, history>>

\* The client has closed: the bytes vanish or write fails, or SIGPIPE, which
\* nothing ignores, ends the server.
ServerWriteFails ==
    /\ server = "writing"
    /\ client = "gone"
    /\ server' \in {"returning", "killed"}
    /\ rest' = <<>>
    /\ UNCHANGED <<delivery, client, bytes, active, shown, history>>

\* The task clears fd_inthreadpool.  An active thread that waited for it reads,
\* and locks itself out: active_enqueue_event locks fd_mutex once more.
ServerReturns ==
    /\ server = "returning"
    /\ server' = IF active THEN "stuck" ELSE "idle"
    /\ UNCHANGED <<delivery, client, bytes, rest, active, shown, history>>

-----------------------------------------------------------------------------

User == \E cmd \in Commands : \E fields \in FieldsOf(cmd) : UserSends(cmd, fields)

Server ==
    \/ ServerReads
    \/ ServerActivates
    \/ ServerHandles
    \/ ServerThrows
    \/ ServerWrites
    \/ ServerWriteFails
    \/ ServerReturns

Next == User \/ RecvReads \/ ClientGoesDeaf \/ ClientLeaves \/ Server

\* The threads run; nobody has to type, to leave, to send a signal or to throw.
Spec == Init /\ [][Next]_vars /\ WF_vars(RecvReads) /\ WF_vars(Server)

-----------------------------------------------------------------------------
(* Properties. *)

TypeOK ==
    /\ delivery \in Deliveries
    /\ client \in {"up", "deaf", "gone"}
    /\ up \in Seq(Byte)
    /\ down \in Seq(Byte)
    /\ server \in {"idle", "busy", "writing", "returning", "stuck", "failed",
                   "killed"}
    /\ rest \in Seq(Byte)
    /\ Len(rest) <= MaxBuffer
    /\ (server = "writing") <=> (rest # <<>>)
    /\ active \in BOOLEAN
    /\ Len(down) <= Capacity

\* Each of s stands for one of t, in the same order.
Embeds(s, t, Rel(_, _)) ==
    \E f \in [DOMAIN s -> DOMAIN t] :
        /\ \A i, j \in DOMAIN s : i < j => f[i] < f[j]
        /\ \A i \in DOMAIN s : Rel(s[i], t[f[i]])

SameRequest(r, s) ==
    /\ r.cType = s.cType
    /\ r.payload = Payload(s.fields)
    /\ (\A i \in DOMAIN s.fields : SEP \notin Range(s.fields[i])) =>
          getdata(r.payload) = s.fields

SameReply(text, answer) == IsPrefix(answer \o <<END>>, text)

\* However TCP cuts and joins the bytes, and whatever the user types, a handler
\* sees only requests the user made, each once, in order and, unless a field
\* has a # in it, with the fields he typed; and the client shows only replies
\* the server made.  Bytes may be lost, but never become another package.
NothingInvented ==
    /\ Embeds(handled, sent, SameRequest)
    /\ Embeds(shown, answers, SameReply)

\* A user who waits for the reply and half a second more, over a connection
\* that does not cut, never loses it to a package: a handler that throws is all
\* that can lock him out.  Until one does, every request of his is handled, and
\* every reply that fits a package is shown as it was made; when one has, every
\* reply before it had been.
PatientUserIsServed ==
    delivery = "whole" =>
        /\ server # "stuck"
        /\ client = "up" /\ Quiet => Len(handled) = Len(sent)
        /\ client = "up" /\ Waited =>
              shown = [i \in DOMAIN answers |-> answers[i] \o <<END>>]

\* SendData comes to an end, unless the client keeps the connection and does
\* not read.
ReplyEnds == (server = "writing") ~> (server # "writing" \/ client = "deaf")
=============================================================================
