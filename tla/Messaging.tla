------------------------------ MODULE Messaging ------------------------------
(***************************************************************************)
(* Messages between users: sending with an attachment (api.py, uploads.py),*)
(* the page of a conversation and its polls (messages.js, _messages.py),   *)
(* the notification in the application and the e-mail that announce each   *)
(* message (notifications.py, email.py).                                   *)
(*                                                                         *)
(* A message is sent in steps that no transaction covers together: the     *)
(* conversation is looked up, the file goes to the object store, the       *)
(* e-mail to the queue, and only then are the rows committed.  A poll      *)
(* selects the messages of its conversation and afterwards marks as read   *)
(* whatever is unread in it by then.                                       *)
(***************************************************************************)
EXTENDS Naturals, FiniteSets

CONSTANTS
    Users,
    Staff,        \* super administrators who answer as support
    Related,      \* the pairs of users some request or order brings together
    Messages,     \* numbers for the messages; the first of a thread names it
    Kinds,        \* what a POST may carry: [about, file]
    Workers,      \* concurrent POSTs
    Fetches,      \* the concurrent polls of a browser: pairs of its user and a number
    MaxRetries,   \* of send_email_async
    MaxFaults,    \* bound: failed polls, and messages the broker refuses
    None

ASSUME MessagingAssumption ==
    /\ MaxRetries \in Nat /\ MaxFaults \in Nat
    /\ Staff \subseteq Users /\ Related \subseteq SUBSET Users
    /\ Fetches \subseteq Users \X Nat
    /\ Kinds \subseteq [about : BOOLEAN, file : BOOLEAN]
    /\ Messages \cup Workers \subseteq Nat /\ None \notin Users \cup Nat

VARIABLES
    msg,      \* the messages rows
    note,     \* the notifications row of each message
    stored,   \* attachments in the object store
    mail,     \* the job of each e-mail
    send,     \* the POST each worker handles
    page,     \* the conversation each reader's browser shows
    fetch,    \* its polls
    faults

vars == <<msg, note, stored, mail, send, page, fetch, faults>>

-----------------------------------------------------------------------------
Message == [here : BOOLEAN, from : Users \cup {None}, to : Users \cup {None},
            thread : Messages \cup {None}, about : BOOLEAN, file : BOOLEAN,
            read : BOOLEAN]
NoMessage == [here |-> FALSE, from |-> None, to |-> None, thread |-> None,
              about |-> FALSE, file |-> FALSE, read |-> FALSE]

Note == {"none", "unread", "read"}

(* sent or dropped is where the job ends; lost, where it never was *)
Mail == [state : {"none", "queued", "sent", "dropped", "lost"}, tries : 0..MaxRetries]
Job(state) == [state |-> state, tries |-> 0]

Send == [pc : {"idle", "gated", "stored", "queued"}, id : Messages \cup {None},
         row : Message]
IdleSend == [pc |-> "idle", id |-> None, row |-> NoMessage]

Page == [thread : Messages \cup {None}, shown : SUBSET Messages]
NoPage == [thread |-> None, shown |-> {}]

(* wanted: the page that sent the poll is still there *)
Fetch == [pc : {"idle", "selected", "marked"}, thread : Messages \cup {None},
          seen : SUBSET Messages, wanted : BOOLEAN]
IdleFetch == [pc |-> "idle", thread |-> None, seen |-> {}, wanted |-> FALSE]

(* the users whose browsers are followed *)
Readers == {f[1] : f \in Fetches}

Here == {m \in Messages : msg[m].here}

(* a wrong variant: only what the user wrote is looked at *)
SentBy(u, v) == {m \in Here : msg[m].from = u /\ msg[m].to = v}

Between(u, v) == {m \in Here : {msg[m].from, msg[m].to} = {u, v}}

(* the messages of a thread that a user may see *)
Visible(u, t) == {m \in Here : msg[m].thread = t /\ u \in {msg[m].from, msg[m].to}}

(* a wrong variant: a poll asks for what is new *)
UnreadOnly(u, t) == {m \in Visible(u, t) : ~ msg[m].read}

(* threads_for_viewer *)
ThreadsOf(u) == {msg[m].thread : m \in {n \in Here : u \in {msg[n].from, msg[n].to}}}

(* message_attachment: a participant or an administrator, and a file *)
Served(u, m) ==
    /\ msg[m].here /\ msg[m].file
    /\ u \in {msg[m].from, msg[m].to} \cup Staff
    /\ m \in stored

(* send_message and _allowed_recipients_for: support is open to all and     *)
(* writes to all; others need a request or order that concerns them both,   *)
(* named now or in the thread they go on with                               *)
CanWrite(u, v, thread, about) ==
    \/ {u, v} \cap Staff # {}
    \/ {u, v} \in Related /\ (about \/ \E m \in Here : msg[m].thread = thread /\ msg[m].about)

(* no trace of the message yet, not even of one that was not committed *)
Unused == {m \in Messages : ~ msg[m].here /\ m \notin stored /\ mail[m].state = "none"
                            /\ \A w \in Workers : send[w].id # m}

Free == {w \in Workers : send[w].pc = "idle"}

First(S) == {x \in S : \A y \in S : x <= y}

Init ==
    /\ msg = [m \in Messages |-> NoMessage] /\ note = [m \in Messages |-> "none"]
    /\ stored = {}
    /\ mail = [m \in Messages |-> Job("none")]
    /\ send = [w \in Workers |-> IdleSend]
    /\ page = [u \in Readers |-> NoPage]
    /\ fetch = [f \in Fetches |-> IdleFetch]
    /\ faults = 0

-----------------------------------------------------------------------------
(* send_message *)

(* The thread of any earlier message between the two, or a new one. *)
ThreadFor(u, v, m) ==
    IF Between(u, v) = {} THEN {m} ELSE {msg[n].thread : n \in Between(u, v)}

SendMessage(w, u, v, m, k) ==
    /\ u # v
    /\ \E t \in ThreadFor(u, v, m) :
          /\ CanWrite(u, v, t, k.about)
          /\ send' = [send EXCEPT ![w] = [pc |-> "gated", id |-> m,
                row |-> [here |-> TRUE, from |-> u, to |-> v, thread |-> t,
                         about |-> k.about, file |-> k.file, read |-> FALSE]]]
    /\ UNCHANGED <<msg, note, stored, mail, page, fetch, faults>>

(* store_upload; a file refused or a store out of order is Abort *)
StoreFile(w) ==
    /\ send[w].pc = "gated" /\ send[w].row.file
    /\ stored' = stored \cup {send[w].id}
    /\ send' = [send EXCEPT ![w].pc = "stored"]
    /\ UNCHANGED <<msg, note, mail, page, fetch, faults>>

(* a wrong variant: the file is sent after the commit *)
StoredLater(w) == TRUE

FileIsStored(w) == send[w].row.file => send[w].pc = "stored"

(* message_received; _safe lets the request go on when the broker is out *)
Enqueue(w) ==
    LET m == send[w].id IN
    /\ send[w].pc \in {"gated", "stored"} /\ FileIsStored(w)
    /\ \/ mail' = [mail EXCEPT ![m] = Job("queued")] /\ UNCHANGED faults
       \/ /\ faults < MaxFaults /\ faults' = faults + 1
          /\ mail' = [mail EXCEPT ![m] = Job("lost")]
    /\ send' = [send EXCEPT ![w].pc = "queued"]
    /\ UNCHANGED <<msg, note, stored, page, fetch>>

(* a wrong variant: the e-mail is queued after the commit, which a worker *)
(* may not live to do                                                     *)
AnnouncedLater(w) == send[w].pc \in {"stored", "queued"}

Announced(w) == send[w].pc = "queued"

CommitMessage(w) ==
    LET m == send[w].id IN
    /\ Announced(w)
    /\ msg' = [msg EXCEPT ![m] = send[w].row]
    /\ note' = [note EXCEPT ![m] = "unread"]
    /\ send' = [send EXCEPT ![w] = IdleSend]
    /\ UNCHANGED <<stored, mail, page, fetch, faults>>

(* a request refused, a failed statement, a worker that dies *)
Abort(w) ==
    /\ send[w].pc # "idle"
    /\ send' = [send EXCEPT ![w] = IdleSend]
    /\ UNCHANGED <<msg, note, stored, mail, page, fetch, faults>>

-----------------------------------------------------------------------------
(* send_email_async, run by the worker process *)

(* a wrong variant: one retry too many *)
RetriesOffByOne(m) == mail[m].tries <= MaxRetries

RetriesLeft(m) == mail[m].tries < MaxRetries

MailAccepted(m) ==
    /\ mail[m].state = "queued"
    /\ mail' = [mail EXCEPT ![m] = Job("sent")]
    /\ UNCHANGED <<msg, note, stored, send, page, fetch, faults>>

(* 429, 5xx and the network raise; the broker gives the job back *)
MailFails(m) ==
    /\ mail[m].state = "queued"
    /\ mail' = [mail EXCEPT ![m] = IF RetriesLeft(m) THEN [mail[m] EXCEPT !.tries = @ + 1]
                                   ELSE Job("dropped")]
    /\ UNCHANGED <<msg, note, stored, send, page, fetch, faults>>

(* other answers of Brevo are logged *)
MailRefused(m) ==
    /\ mail[m].state = "queued"
    /\ mail' = [mail EXCEPT ![m] = Job("dropped")]
    /\ UNCHANGED <<msg, note, stored, send, page, fetch, faults>>

-----------------------------------------------------------------------------
(* the pages *)

(* A page that goes leaves its polls without anybody to wait for the answer. *)
Orphaned(u) ==
    [f \in Fetches |-> IF f[1] = u /\ fetch[f].pc = "selected"
                       THEN [fetch[f] EXCEPT !.wanted = FALSE, !.seen = {}]
                       ELSE IF f[1] = u THEN IdleFetch ELSE fetch[f]]

(* message_thread, and mark_notifications_read_on_entity_view after it; a   *)
(* page loaded again is CloseThread and this                                *)
OpenThread(u, t) ==
    /\ t \in ThreadsOf(u) \ {page[u].thread}
    /\ page' = [page EXCEPT ![u] = [thread |-> t, shown |-> {}]]
    /\ note' = [m \in Messages |-> IF msg[m].thread = t /\ msg[m].to = u /\ note[m] = "unread"
                                   THEN "read" ELSE note[m]]
    /\ fetch' = Orphaned(u)
    /\ UNCHANGED <<msg, stored, mail, send, faults>>

CloseThread(u) ==
    /\ page[u].thread # None
    /\ page' = [page EXCEPT ![u] = NoPage]
    /\ fetch' = Orphaned(u)
    /\ UNCHANGED <<msg, note, stored, mail, send, faults>>

(* notification_read, notifications_read_one; notifications_visit then goes *)
(* to the page of the thread                                                *)
ReadNotification(u, m) ==
    /\ note[m] = "unread" /\ msg[m].to = u
    /\ note' = [note EXCEPT ![m] = "read"]
    /\ UNCHANGED <<msg, stored, mail, send, page, fetch, faults>>

(* notifications_mark_all_read *)
MarkAllRead(u) ==
    /\ note' = [m \in Messages |-> IF msg[m].to = u /\ note[m] = "unread"
                                   THEN "read" ELSE note[m]]
    /\ UNCHANGED <<msg, stored, mail, send, page, fetch, faults>>

-----------------------------------------------------------------------------
(* get_messages, polled by the page *)

Selected(u, t) == Visible(u, t)

FetchSelect(f) ==
    /\ fetch[f].pc = "idle" /\ page[f[1]].thread # None
    /\ fetch' = [fetch EXCEPT ![f] = [pc |-> "selected", thread |-> page[f[1]].thread,
          seen |-> Selected(f[1], page[f[1]].thread), wanted |-> TRUE]]
    /\ UNCHANGED <<msg, note, stored, mail, send, page, faults>>

(* The UPDATE also finds what was committed since the SELECT. *)
FetchMark(f) ==
    /\ fetch[f].pc = "selected"
    /\ msg' = [m \in Messages |-> IF msg[m].thread = fetch[f].thread /\ msg[m].to = f[1]
                                   THEN [msg[m] EXCEPT !.read = TRUE] ELSE msg[m]]
    /\ fetch' = [fetch EXCEPT ![f] = IF @.wanted THEN [@ EXCEPT !.pc = "marked"]
                                     ELSE IdleFetch]
    /\ UNCHANGED <<note, stored, mail, send, page, faults>>

(* The answers of two polls may come in any order: each replaces what the   *)
(* page shows.                                                              *)
FetchShow(f) ==
    /\ fetch[f].pc = "marked"
    /\ page' = [page EXCEPT ![f[1]].shown = fetch[f].seen]
    /\ fetch' = [fetch EXCEPT ![f] = IdleFetch]
    /\ UNCHANGED <<msg, note, stored, mail, send, faults>>

FetchFails(f) ==
    /\ fetch[f].pc # "idle"
    /\ faults < MaxFaults /\ faults' = faults + 1
    /\ fetch' = [fetch EXCEPT ![f] = IdleFetch]
    /\ UNCHANGED <<msg, note, stored, mail, send, page>>

-----------------------------------------------------------------------------
MailRuns(m) == MailAccepted(m) \/ MailFails(m) \/ MailRefused(m)

Post(w) ==
    \/ StoreFile(w) \/ Enqueue(w) \/ CommitMessage(w) \/ Abort(w)

Browse(u) ==
    \/ \E t \in Messages : OpenThread(u, t)
    \/ CloseThread(u) \/ MarkAllRead(u)
    \/ \E m \in Messages : ReadNotification(u, m)

Poll(f) == FetchSelect(f) \/ FetchMark(f) \/ FetchShow(f)

PollOf(u) == \E f \in Fetches : f[1] = u /\ Poll(f)

Next ==
    \/ \E w \in First(Free), m \in First(Unused), u, v \in Users, k \in Kinds :
          SendMessage(w, u, v, m, k)
    \/ \E w \in Workers : Post(w)
    \/ \E u \in Readers : Browse(u)
    \/ \E f \in Fetches : Poll(f) \/ FetchFails(f)
    \/ \E m \in Messages : MailRuns(m)

(* A page polls every ten seconds and a request begun is answered; the      *)
(* worker process takes waiting jobs.  Nobody has to write or read.         *)
Fairness ==
    /\ \A u \in Readers : WF_vars(PollOf(u))
    /\ WF_vars(\E m \in Messages : MailRuns(m))

Spec == Init /\ [][Next]_vars /\ Fairness

-----------------------------------------------------------------------------
(* Every variable has its type. *)
TypeOK ==
    /\ msg \in [Messages -> Message] /\ note \in [Messages -> Note]
    /\ stored \subseteq Messages /\ mail \in [Messages -> Mail]
    /\ send \in [Workers -> Send] /\ page \in [Readers -> Page]
    /\ fetch \in [Fetches -> Fetch] /\ faults \in 0..MaxFaults

(* The attachment link of a message works for both its ends from the moment *)
(* the message is there, wherever a worker died on the way.                 *)
AttachmentIsServed ==
    \A m \in Here : msg[m].file => Served(msg[m].from, m) /\ Served(msg[m].to, m)

(* Two people may open a conversation at the same time and get two; but     *)
(* whoever has seen a message of the other answers in a conversation that   *)
(* is already there.                                                        *)
AnswerJoinsThread ==
    [][\A w \in Workers :
          LET r == send'[w].row IN
          /\ send[w].pc = "idle" /\ send'[w].pc = "gated"
          /\ r.from \in Readers /\ \E m \in page[r.from].shown : msg[m].from = r.to
          => \E m \in Here : msg[m].thread = r.thread]_vars

(* Whoever keeps the page of a conversation open is shown each message of   *)
(* it, also one that a poll marked as read without having selected it.      *)
ShownWhileOpen ==
    \A u \in Readers, m \in Messages :
        m \in Visible(u, page[u].thread) ~> m \in page[u].shown \/ m \notin Visible(u, page[u].thread)

(* Every message that was committed is announced by e-mail, unless the      *)
(* broker or Brevo refused it: no state is reached from which one waits for *)
(* ever (a job that has ended does not start again).                        *)
MailGoesOut ==
    []<>(\A m \in Here : mail[m].state \in {"sent", "dropped", "lost"})
=============================================================================
