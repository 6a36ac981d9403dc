--------------------------- MODULE MessagingProofs ---------------------------
(***************************************************************************)
(* Proofs about Messaging, for any number of users, messages, concurrent   *)
(* POSTs and polls.  An attachment is served because a POST that carries a *)
(* file queues its e-mail, and so commits, only after the file is stored:  *)
(* FileFirst.                                                              *)
(***************************************************************************)
EXTENDS Messaging, TLAPS

(* The file of a message is stored before its e-mail is queued. *)
FileFirst ==
    \A w \in Workers :
        /\ send[w].pc # "idle" => send[w].id \in Messages
        /\ send[w].pc = "stored" => send[w].id \in stored
        /\ send[w].pc = "queued" /\ send[w].row.file => send[w].id \in stored

Inv == TypeOK /\ FileFirst /\ AttachmentIsServed

(* It is the file of a message that has to be there. *)
LEMMA ServedWhenStored ==
    AttachmentIsServed <=> \A m \in Messages : msg[m].here /\ msg[m].file => m \in stored
BY DEF AttachmentIsServed, Served, Here

(* The records of the module have their types. *)
LEMMA RecordsTyped ==
    /\ NoMessage \in Message /\ IdleSend \in Send /\ NoPage \in Page /\ IdleFetch \in Fetch
    /\ \A state \in {"none", "queued", "sent", "dropped", "lost"} : Job(state) \in Mail
    /\ IdleSend.pc = "idle"
BY MessagingAssumption DEF NoMessage, Message, IdleSend, Send, NoPage, Page, IdleFetch, Fetch,
    Job, Mail

(* Initially there is no message. *)
LEMMA InitInv == Init => Inv
<1> SUFFICES ASSUME Init PROVE Inv
  OBVIOUS
<1>1. TypeOK
  BY RecordsTyped, MessagingAssumption DEF Init, TypeOK, Note
<1>2. FileFirst
  BY RecordsTyped DEF Init, FileFirst
<1>3. AttachmentIsServed
  BY ServedWhenStored DEF Init, NoMessage
<1> QED BY <1>1, <1>2, <1>3 DEF Inv

-----------------------------------------------------------------------------
(* What does not touch messages, files and POSTs keeps the invariant if it  *)
(* keeps the types.                                                         *)
LEMMA OtherInv == Inv /\ TypeOK' /\ UNCHANGED <<msg, stored, send>> => Inv'
BY DEF Inv, FileFirst, AttachmentIsServed, Served, Here

-----------------------------------------------------------------------------
(* The steps of a POST. *)

LEMMA SendMessageInv ==
    ASSUME Inv, NEW w \in Workers, NEW u \in Users, NEW v \in Users, NEW m \in Messages,
           NEW k \in Kinds, SendMessage(w, u, v, m, k)
    PROVE  Inv'
<1>1. PICK t \in ThreadFor(u, v, m) :
         send' = [send EXCEPT ![w] = [pc |-> "gated", id |-> m,
            row |-> [here |-> TRUE, from |-> u, to |-> v, thread |-> t,
                     about |-> k.about, file |-> k.file, read |-> FALSE]]]
  BY DEF SendMessage
<1>2. t \in Messages \cup {None}
  BY DEF ThreadFor, Between, Here, Inv, TypeOK, Message
<1>3. k.about \in BOOLEAN /\ k.file \in BOOLEAN
  BY MessagingAssumption
<1>4. [here |-> TRUE, from |-> u, to |-> v, thread |-> t,
       about |-> k.about, file |-> k.file, read |-> FALSE] \in Message
  BY <1>2, <1>3 DEF Message
<1>5. send' \in [Workers -> Send] /\ send'[w].pc = "gated"
      /\ \A x \in Workers \ {w} : send'[x] = send[x]
  BY <1>1, <1>4 DEF Inv, TypeOK, Send
<1>6. UNCHANGED <<msg, note, stored, mail, page, fetch, faults>>
  BY DEF SendMessage
<1>7. TypeOK'
  BY <1>5, <1>6 DEF Inv, TypeOK
<1>8. send'[w].id = m
  BY <1>1 DEF Inv, TypeOK
<1>9. FileFirst'
  BY <1>5, <1>6, <1>8 DEF Inv, FileFirst
<1>10. AttachmentIsServed'
  BY <1>6 DEF Inv, AttachmentIsServed, Served, Here
<1> QED BY <1>7, <1>9, <1>10 DEF Inv

LEMMA StoreFileInv == ASSUME Inv, NEW w \in Workers, StoreFile(w) PROVE Inv'
<1>1. /\ stored' = stored \cup {send[w].id}
      /\ send' = [send EXCEPT ![w].pc = "stored"]
      /\ UNCHANGED <<msg, note, mail, page, fetch, faults>>
  BY DEF StoreFile
<1>2. send[w].id \in Messages /\ send[w] \in Send
  BY DEF StoreFile, Inv, FileFirst, TypeOK
<1>3. [send[w] EXCEPT !.pc = "stored"] \in Send
  BY <1>2 DEF Send
<1>4. TypeOK'
  BY <1>1, <1>2, <1>3 DEF Inv, TypeOK
<1>5. /\ send'[w].pc = "stored" /\ send'[w].id = send[w].id
      /\ \A x \in Workers \ {w} : send'[x] = send[x]
  BY <1>1, <1>2 DEF Inv, TypeOK, Send
<1>6. FileFirst'
  BY <1>1, <1>2, <1>5 DEF Inv, FileFirst
<1>7. AttachmentIsServed'
  BY <1>1 DEF Inv, AttachmentIsServed, Served, Here
<1> QED BY <1>4, <1>6, <1>7 DEF Inv

(* Only a POST whose file is stored gets as far as this. *)
LEMMA EnqueueInv == ASSUME Inv, NEW w \in Workers, Enqueue(w) PROVE Inv'
<1>1. /\ send[w].pc \in {"gated", "stored"} /\ FileIsStored(w)
      /\ send' = [send EXCEPT ![w].pc = "queued"]
      /\ UNCHANGED <<msg, note, stored, page, fetch>>
  BY DEF Enqueue
<1>2. send[w].id \in Messages /\ send[w] \in Send
  BY <1>1 DEF Inv, FileFirst, TypeOK
<1>3. [send[w] EXCEPT !.pc = "queued"] \in Send
  BY <1>2 DEF Send
<1>4. mail' \in [Messages -> Mail] /\ faults' \in 0..MaxFaults
  BY RecordsTyped, MessagingAssumption DEF Enqueue, Inv, TypeOK
<1>5. TypeOK'
  BY <1>1, <1>3, <1>4 DEF Inv, TypeOK
<1>6. /\ send'[w].pc = "queued" /\ send'[w].id = send[w].id /\ send'[w].row = send[w].row
      /\ \A x \in Workers \ {w} : send'[x] = send[x]
  BY <1>1, <1>2 DEF Inv, TypeOK, Send
<1>7. FileFirst'
  BY <1>1, <1>2, <1>6 DEF Inv, FileFirst, FileIsStored
<1>8. AttachmentIsServed'
  BY <1>1 DEF Inv, AttachmentIsServed, Served, Here
<1> QED BY <1>5, <1>7, <1>8 DEF Inv

(* A worker that is idle again holds nothing. *)
LEMMA IdleAgain ==
    ASSUME Inv, NEW w \in Workers, send' = [send EXCEPT ![w] = IdleSend], stored' = stored
    PROVE  send' \in [Workers -> Send] /\ FileFirst'
BY RecordsTyped DEF Inv, TypeOK, FileFirst

LEMMA CommitMessageInv == ASSUME Inv, NEW w \in Workers, CommitMessage(w) PROVE Inv'
<1> DEFINE m == send[w].id
<1>1. /\ send[w].pc = "queued"
      /\ msg' = [msg EXCEPT ![m] = send[w].row] /\ note' = [note EXCEPT ![m] = "unread"]
      /\ send' = [send EXCEPT ![w] = IdleSend]
      /\ UNCHANGED <<stored, mail, page, fetch, faults>>
  BY DEF CommitMessage, Announced
<1>2. send[w].row \in Message /\ m \in Messages
  BY <1>1 DEF Inv, TypeOK, Send, FileFirst
<1>3. TypeOK'
  BY <1>1, <1>2, IdleAgain DEF Inv, TypeOK, Note
<1>4. \A n \in Messages : msg'[n].here /\ msg'[n].file => n \in stored'
  <2> SUFFICES ASSUME NEW n \in Messages, msg'[n].here, msg'[n].file PROVE n \in stored
    BY <1>1
  <2>1. CASE n = m
    BY <1>1, <1>2, <2>1 DEF Inv, TypeOK, FileFirst
  <2>2. CASE n # m
    BY <1>1, <2>2, ServedWhenStored DEF Inv, TypeOK
  <2> QED BY <2>1, <2>2
<1>5. AttachmentIsServed'
  BY <1>4 DEF AttachmentIsServed, Served, Here
<1> QED BY <1>1, <1>3, <1>5, IdleAgain DEF Inv

LEMMA AbortInv == ASSUME Inv, NEW w \in Workers, Abort(w) PROVE Inv'
<1>1. send' = [send EXCEPT ![w] = IdleSend] /\ UNCHANGED <<msg, note, stored, mail, page, fetch, faults>>
  BY DEF Abort
<1> QED BY <1>1, IdleAgain DEF Inv, TypeOK, AttachmentIsServed, Served, Here

-----------------------------------------------------------------------------
(* The steps of the worker process, of the pages and of the polls. *)

LEMMA MailInv == ASSUME Inv, NEW m \in Messages, MailRuns(m) PROVE Inv'
<1>1. UNCHANGED <<msg, note, stored, send, page, fetch, faults>>
  BY DEF MailRuns, MailAccepted, MailFails, MailRefused
<1>2. mail' \in [Messages -> Mail]
  <2>1. mail[m] \in Mail /\ mail[m].tries \in 0..MaxRetries
    BY DEF Inv, TypeOK, Mail
  <2>2. RetriesLeft(m) => [mail[m] EXCEPT !.tries = mail[m].tries + 1] \in Mail
    BY <2>1, MessagingAssumption DEF RetriesLeft, Mail
  <2>3. CASE MailFails(m)
    <3>1. mail' = [mail EXCEPT ![m] = IF RetriesLeft(m)
                     THEN [mail[m] EXCEPT !.tries = mail[m].tries + 1] ELSE Job("dropped")]
      BY <2>3 DEF MailFails, Inv, TypeOK
    <3> QED BY <3>1, <2>2, RecordsTyped DEF Inv, TypeOK
  <2>4. CASE MailAccepted(m)
    BY <2>4, RecordsTyped DEF MailAccepted, Inv, TypeOK
  <2>5. CASE MailRefused(m)
    BY <2>5, RecordsTyped DEF MailRefused, Inv, TypeOK
  <2> QED BY <2>3, <2>4, <2>5 DEF MailRuns
<1>3. TypeOK'
  BY <1>1, <1>2 DEF Inv, TypeOK
<1> QED BY <1>1, <1>3, OtherInv

(* A reader whose page goes may leave polls behind. *)
LEMMA OrphanedTyped == ASSUME Inv, NEW u PROVE Orphaned(u) \in [Fetches -> Fetch]
<1>1. \A f \in Fetches : [fetch[f] EXCEPT !.wanted = FALSE, !.seen = {}] \in Fetch
  <2>1. \A f \in Fetches : fetch[f] \in Fetch
    BY DEF Inv, TypeOK
  <2> QED BY <2>1 DEF Fetch
<1> QED BY <1>1, RecordsTyped DEF Orphaned, Inv, TypeOK

LEMMA BrowseInv == ASSUME Inv, NEW u \in Readers, Browse(u) PROVE Inv'
<1>1. UNCHANGED <<msg, stored, mail, send, faults>>
  BY DEF Browse, OpenThread, CloseThread, ReadNotification, MarkAllRead
<1>2. note' \in [Messages -> Note]
  BY DEF Browse, OpenThread, CloseThread, ReadNotification, MarkAllRead, Inv, TypeOK, Note
<1>3. fetch' \in [Fetches -> Fetch]
  BY OrphanedTyped DEF Browse, OpenThread, CloseThread, ReadNotification, MarkAllRead, Inv, TypeOK
<1>4. page' \in [Readers -> Page]
  <2>1. \A t \in Messages : [thread |-> t, shown |-> {}] \in Page
    BY DEF Page
  <2> QED
    BY <2>1, RecordsTyped
       DEF Browse, OpenThread, CloseThread, ReadNotification, MarkAllRead, Inv, TypeOK
<1>5. TypeOK'
  BY <1>1, <1>2, <1>3, <1>4 DEF Inv, TypeOK
<1> QED BY <1>1, <1>5, OtherInv

LEMMA FetchSelectInv == ASSUME Inv, NEW f \in Fetches, FetchSelect(f) PROVE Inv'
<1>1. f[1] \in Readers /\ page[f[1]].thread \in Messages \cup {None}
  BY DEF Readers, Inv, TypeOK, Page
<1>2. Selected(f[1], page[f[1]].thread) \in SUBSET Messages
  BY DEF Selected, Visible, Here
<1>3. [pc |-> "selected", thread |-> page[f[1]].thread,
       seen |-> Selected(f[1], page[f[1]].thread), wanted |-> TRUE] \in Fetch
  BY <1>1, <1>2 DEF Fetch
<1>4. TypeOK' /\ UNCHANGED <<msg, stored, send>>
  BY <1>3 DEF FetchSelect, Inv, TypeOK
<1> QED BY <1>4, OtherInv

(* Marking as read leaves the file of a message alone. *)
LEMMA FetchMarkInv == ASSUME Inv, NEW f \in Fetches, FetchMark(f) PROVE Inv'
<1>1. UNCHANGED <<note, stored, mail, send, page, faults>>
  BY DEF FetchMark
<1>2. \A m \in Messages : msg[m] \in Message /\ [msg[m] EXCEPT !.read = TRUE] \in Message
  <2>1. \A m \in Messages : msg[m] \in Message
    BY DEF Inv, TypeOK
  <2> QED BY <2>1 DEF Message
<1>3. msg' \in [Messages -> Message]
  BY <1>2 DEF FetchMark
<1>4. fetch' \in [Fetches -> Fetch]
  <2>1. fetch[f] \in Fetch /\ [fetch[f] EXCEPT !.pc = "marked"] \in Fetch
    BY DEF Inv, TypeOK, Fetch
  <2> QED BY <2>1, RecordsTyped DEF FetchMark, Inv, TypeOK
<1>5. \A m \in Messages : msg'[m].here /\ msg'[m].file => msg[m].here /\ msg[m].file
  <2> SUFFICES ASSUME NEW m \in Messages, msg'[m].here, msg'[m].file
               PROVE  msg[m].here /\ msg[m].file
    OBVIOUS
  <2>1. msg'[m] = msg[m] \/ msg'[m] = [msg[m] EXCEPT !.read = TRUE]
    BY DEF FetchMark
  <2> QED BY <1>2, <2>1 DEF Message
<1>6. AttachmentIsServed'
  BY <1>1, <1>5 DEF Inv, AttachmentIsServed, Served, Here
<1> QED BY <1>1, <1>3, <1>4, <1>6 DEF Inv, TypeOK, FileFirst

LEMMA FetchShowInv == ASSUME Inv, NEW f \in Fetches, FetchShow(f) PROVE Inv'
<1>1. f[1] \in Readers /\ fetch[f].seen \in SUBSET Messages
  BY DEF Readers, Inv, TypeOK, Fetch
<1>2. [page[f[1]] EXCEPT !.shown = fetch[f].seen] \in Page
  BY <1>1 DEF Inv, TypeOK, Page
<1>3. TypeOK' /\ UNCHANGED <<msg, stored, send>>
  BY <1>2, RecordsTyped DEF FetchShow, Inv, TypeOK
<1> QED BY <1>3, OtherInv

LEMMA FetchFailsInv == ASSUME Inv, NEW f \in Fetches, FetchFails(f) PROVE Inv'
<1>1. TypeOK' /\ UNCHANGED <<msg, stored, send>>
  BY RecordsTyped, MessagingAssumption DEF FetchFails, Inv, TypeOK
<1> QED BY <1>1, OtherInv

-----------------------------------------------------------------------------
(* Every step keeps the invariant. *)
LEMMA NextInv == Inv /\ [Next]_vars => Inv'
<1> SUFFICES ASSUME Inv, [Next]_vars PROVE Inv'
  OBVIOUS
<1>1. CASE \E w \in First(Free), m \in First(Unused), u, v \in Users, k \in Kinds :
              SendMessage(w, u, v, m, k)
  <2>1. First(Free) \subseteq Workers /\ First(Unused) \subseteq Messages
    BY DEF First, Free, Unused
  <2> QED BY <1>1, <2>1, SendMessageInv
<1>2. ASSUME NEW w \in Workers, Post(w) PROVE Inv'
  BY <1>2, StoreFileInv, EnqueueInv, CommitMessageInv, AbortInv DEF Post
<1>3. ASSUME NEW f \in Fetches, Poll(f) \/ FetchFails(f) PROVE Inv'
  BY <1>3, FetchSelectInv, FetchMarkInv, FetchShowInv, FetchFailsInv DEF Poll
<1>4. CASE UNCHANGED vars
  BY <1>4, OtherInv DEF vars, Inv, TypeOK
<1> QED BY <1>1, <1>2, <1>3, <1>4, BrowseInv, MailInv DEF Next

(* The invariant holds in every reachable state. *)
THEOREM Invariance == Spec => []Inv
BY InitInv, NextInv, PTL DEF Spec

(* Every variable keeps its type. *)
THEOREM MessagingTypeCorrect == Spec => []TypeOK
<1>1. Inv => TypeOK
  BY DEF Inv
<1> QED BY <1>1, Invariance, PTL

(* The attachment of a message that exists is served to both its ends, for  *)
(* any number of POSTs that die anywhere (api.py send_message,              *)
(* message_attachment).                                                     *)
THEOREM MessagingAttachmentIsServed == Spec => []AttachmentIsServed
<1>1. Inv => AttachmentIsServed
  BY DEF Inv
<1> QED BY <1>1, Invariance, PTL

-----------------------------------------------------------------------------
(* What a page shows are messages that exist and concern its reader, and    *)
(* they stay what they were: each POST under way has a number of its own.   *)

OwnIds ==
    /\ \A w \in Workers : send[w].pc # "idle" => ~ msg[send[w].id].here
    /\ \A v, w \in Workers :
          v # w /\ send[v].pc # "idle" /\ send[w].pc # "idle" => send[v].id # send[w].id

Concerns(u, S) == \A m \in S : msg[m].here /\ u \in {msg[m].from, msg[m].to}

SeenIsReal ==
    /\ \A u \in Readers : Concerns(u, page[u].shown)
    /\ \A f \in Fetches : Concerns(f[1], fetch[f].seen)

(* Numbers are taken by SendMessage alone, which takes a free one. *)
LEMMA OwnIdsSteps ==
    ASSUME Inv, OwnIds, [Next]_vars
    PROVE  OwnIds'
<1> USE RecordsTyped
<1>1. CASE \E w \in First(Free), m \in First(Unused), u, v \in Users, k \in Kinds :
              SendMessage(w, u, v, m, k)
  <2>1. First(Free) \subseteq Workers /\ First(Unused) \subseteq Unused
    BY DEF First, Free
  <2>2. PICK w \in Workers, m \in Unused, u \in Users, v \in Users, k \in Kinds :
           SendMessage(w, u, v, m, k)
    BY <1>1, <2>1
  <2>3. /\ msg' = msg
        /\ send'[w].id = m
        /\ \A x \in Workers \ {w} : send'[x] = send[x]
    BY <2>2 DEF SendMessage, Inv, TypeOK
  <2>4. ~ msg[m].here /\ \A x \in Workers : send[x].id # m
    BY DEF Unused
  <2> QED BY <2>3, <2>4 DEF OwnIds
<1>2. ASSUME NEW w \in Workers, StoreFile(w) \/ Enqueue(w) PROVE OwnIds'
  <2>1. send[w].pc # "idle" /\ msg' = msg
    BY <1>2 DEF StoreFile, Enqueue
  <2>2. send'[w].id = send[w].id /\ \A x \in Workers \ {w} : send'[x] = send[x]
    BY <1>2 DEF StoreFile, Enqueue, Inv, TypeOK, Send
  <2> QED BY <2>1, <2>2 DEF OwnIds
<1>3. ASSUME NEW w \in Workers, CommitMessage(w) PROVE OwnIds'
  <2>1. send[w].pc # "idle" /\ send[w].id \in Messages
    BY <1>3 DEF CommitMessage, Announced, Inv, FileFirst
  <2>2. send'[w].pc = "idle" /\ \A x \in Workers \ {w} : send'[x] = send[x]
    BY <1>3 DEF CommitMessage, Inv, TypeOK
  <2>3. \A m \in Messages \ {send[w].id} : msg'[m] = msg[m]
    BY <1>3 DEF CommitMessage, Inv, TypeOK
  <2> QED BY <2>1, <2>2, <2>3 DEF OwnIds, Inv, FileFirst
<1>4. ASSUME NEW w \in Workers, Abort(w) PROVE OwnIds'
  <2>1. /\ send'[w].pc = "idle" /\ msg' = msg
        /\ \A x \in Workers \ {w} : send'[x] = send[x]
    BY <1>4 DEF Abort, Inv, TypeOK
  <2> QED BY <2>1 DEF OwnIds
<1>5. ASSUME UNCHANGED <<msg, send>> PROVE OwnIds'
  BY <1>5 DEF OwnIds
<1>6. ASSUME NEW f \in Fetches, Poll(f) \/ FetchFails(f) PROVE OwnIds'
  <2>1. CASE FetchMark(f)
    <3>1. \A m \in Messages : msg'[m].here = msg[m].here
      BY <2>1 DEF FetchMark, Inv, TypeOK, Message
    <3> QED BY <2>1, <3>1 DEF FetchMark, OwnIds, Inv, FileFirst
  <2> QED BY <1>5, <1>6, <2>1 DEF Poll, FetchSelect, FetchShow, FetchFails
<1>7. ASSUME NEW u \in Readers, Browse(u) PROVE OwnIds'
  BY <1>5, <1>7 DEF Browse, OpenThread, CloseThread, ReadNotification, MarkAllRead
<1>8. ASSUME NEW m \in Messages, MailRuns(m) PROVE OwnIds'
  BY <1>5, <1>8 DEF MailRuns, MailAccepted, MailFails, MailRefused
<1>9. CASE UNCHANGED vars
  BY <1>5, <1>9 DEF vars
<1> QED BY <1>1, <1>2, <1>3, <1>4, <1>6, <1>7, <1>8, <1>9 DEF Next, Post

(* A message that exists keeps its ends and its thread. *)
LEMMA MessagesStay ==
    ASSUME Inv, OwnIds, [Next]_vars, NEW m \in Messages, msg[m].here
    PROVE  msg'[m].here /\ msg'[m].from = msg[m].from /\ msg'[m].to = msg[m].to
<1>1. ASSUME NEW w \in Workers, CommitMessage(w) PROVE msg'[m] = msg[m]
  <2>1. send[w].id # m
    BY <1>1 DEF CommitMessage, Announced, OwnIds
  <2> QED BY <1>1, <2>1 DEF CommitMessage, Inv, TypeOK
<1>2. ASSUME NEW w \in Workers, Post(w) PROVE msg'[m] = msg[m]
  BY <1>1, <1>2 DEF Post, StoreFile, Enqueue, Abort
<1>3. ASSUME NEW f \in Fetches, FetchMark(f)
      PROVE  msg'[m].here /\ msg'[m].from = msg[m].from /\ msg'[m].to = msg[m].to
  BY <1>3 DEF FetchMark, Inv, TypeOK, Message
<1>4. ASSUME NEW f \in Fetches, FetchSelect(f) \/ FetchShow(f) \/ FetchFails(f)
      PROVE  msg' = msg
  BY <1>4 DEF FetchSelect, FetchShow, FetchFails
<1>5. ASSUME NEW u \in Readers, Browse(u) PROVE msg' = msg
  BY <1>5 DEF Browse, OpenThread, CloseThread, ReadNotification, MarkAllRead
<1>6. ASSUME NEW n \in Messages, MailRuns(n) PROVE msg' = msg
  BY <1>6 DEF MailRuns, MailAccepted, MailFails, MailRefused
<1>7. ASSUME NEW w, NEW u, NEW v, NEW n, NEW k, SendMessage(w, u, v, n, k) PROVE msg' = msg
  BY <1>7 DEF SendMessage
<1>8. CASE UNCHANGED vars
  BY <1>8 DEF vars
<1> QED BY <1>2, <1>3, <1>4, <1>5, <1>6, <1>7, <1>8 DEF Next, Poll

(* A page shows what one of its polls selected. *)
LEMMA SeenSteps ==
    ASSUME Inv, [Next]_vars
    PROVE  /\ \A u \in Readers :
                 \/ page'[u].shown \in {page[u].shown, {}}
                 \/ \E f \in Fetches : f[1] = u /\ page'[u].shown = fetch[f].seen
           /\ \A f \in Fetches :
                 \/ fetch'[f].seen \in {fetch[f].seen, {}}
                 \/ \E t : fetch'[f].seen = Visible(f[1], t)
<1> DEFINE Sees == /\ \A u \in Readers :
                         \/ page'[u].shown \in {page[u].shown, {}}
                         \/ \E f \in Fetches : f[1] = u /\ page'[u].shown = fetch[f].seen
                   /\ \A f \in Fetches :
                         \/ fetch'[f].seen \in {fetch[f].seen, {}}
                         \/ \E t : fetch'[f].seen = Visible(f[1], t)
<1> SUFFICES Sees
  OBVIOUS
<1>1. ASSUME UNCHANGED <<page, fetch>> PROVE Sees
  BY <1>1
<1>2. ASSUME NEW u \in Readers, OpenThread(u, page'[u].thread) \/ CloseThread(u) PROVE Sees
  <2>1. /\ page'[u].shown = {} /\ fetch' = Orphaned(u)
        /\ \A x \in Readers \ {u} : page'[x] = page[x]
    BY <1>2 DEF OpenThread, CloseThread, NoPage, Inv, TypeOK
  <2>2. \A f \in Fetches : fetch'[f].seen \in {fetch[f].seen, {}}
    <3> SUFFICES ASSUME NEW f \in Fetches PROVE fetch'[f].seen \in {fetch[f].seen, {}}
      OBVIOUS
    <3>1. fetch[f] \in Fetch
      BY DEF Inv, TypeOK
    <3>2. [fetch[f] EXCEPT !.wanted = FALSE, !.seen = {}].seen = {}
      BY <3>1 DEF Fetch
    <3> QED BY <2>1, <3>2 DEF Orphaned, IdleFetch
  <2> QED BY <2>1, <2>2
<1>3. ASSUME NEW u \in Readers, NEW t \in Messages, OpenThread(u, t) PROVE Sees
  <2>1. page'[u].thread = t
    BY <1>3 DEF OpenThread, Inv, TypeOK
  <2> QED BY <1>2, <1>3, <2>1
<1>4. ASSUME NEW u \in Readers, Browse(u) PROVE Sees
  BY <1>1, <1>2, <1>3, <1>4 DEF Browse, ReadNotification, MarkAllRead
<1>5. ASSUME NEW f \in Fetches, FetchSelect(f) PROVE Sees
  <2>1. /\ fetch'[f].seen = Visible(f[1], page[f[1]].thread) /\ page' = page
        /\ \A g \in Fetches \ {f} : fetch'[g] = fetch[g]
    BY <1>5 DEF FetchSelect, Selected, Inv, TypeOK
  <2> QED BY <2>1
<1>6. ASSUME NEW f \in Fetches, FetchMark(f) \/ FetchFails(f) PROVE Sees
  <2>1. page' = page /\ \A g \in Fetches \ {f} : fetch'[g] = fetch[g]
    BY <1>6 DEF FetchMark, FetchFails, Inv, TypeOK
  <2>2. fetch'[f].seen \in {fetch[f].seen, {}}
    BY <1>6 DEF FetchMark, FetchFails, IdleFetch, Inv, TypeOK, Fetch
  <2> QED BY <2>1, <2>2
<1>7. ASSUME NEW f \in Fetches, FetchShow(f) PROVE Sees
  <2>1. f[1] \in Readers /\ page[f[1]] \in Page
    BY DEF Readers, Inv, TypeOK
  <2>2. /\ page'[f[1]].shown = fetch[f].seen
        /\ \A x \in Readers \ {f[1]} : page'[x] = page[x]
    BY <1>7, <2>1 DEF FetchShow, Inv, TypeOK, Page
  <2>3. fetch'[f].seen = {} /\ \A g \in Fetches \ {f} : fetch'[g] = fetch[g]
    BY <1>7 DEF FetchShow, IdleFetch, Inv, TypeOK
  <2> QED BY <2>1, <2>2, <2>3
<1>8. ASSUME NEW w \in Workers, Post(w) PROVE Sees
  BY <1>1, <1>8 DEF Post, StoreFile, Enqueue, CommitMessage, Abort
<1>9. ASSUME NEW n \in Messages, MailRuns(n) PROVE Sees
  BY <1>1, <1>9 DEF MailRuns, MailAccepted, MailFails, MailRefused
<1>10. ASSUME NEW w, NEW u, NEW v, NEW n, NEW k, SendMessage(w, u, v, n, k) PROVE Sees
  BY <1>1, <1>10 DEF SendMessage
<1>11. CASE UNCHANGED vars
  BY <1>1, <1>11 DEF vars
<1> HIDE DEF Sees
<1> QED BY <1>4, <1>5, <1>6, <1>7, <1>8, <1>9, <1>10, <1>11 DEF Next, Poll

LEMMA SeenIsRealSteps ==
    ASSUME Inv, OwnIds, SeenIsReal, [Next]_vars
    PROVE  SeenIsReal'
<1>1. ASSUME NEW u, NEW S \in SUBSET Messages, Concerns(u, S)
      PROVE  \A m \in S : msg'[m].here /\ u \in {msg'[m].from, msg'[m].to}
  BY <1>1, MessagesStay DEF Concerns
<1>2. \A u, t : Visible(u, t) \in SUBSET Messages /\ Concerns(u, Visible(u, t))
  BY DEF Visible, Here, Concerns
<1>3. /\ \A u \in Readers : page[u].shown \in SUBSET Messages /\ Concerns(u, page[u].shown)
      /\ \A f \in Fetches :
            /\ fetch[f].seen \in SUBSET Messages /\ Concerns(f[1], fetch[f].seen)
  BY DEF SeenIsReal, Inv, TypeOK, Page, Fetch
<1>4. ASSUME NEW u \in Readers
      PROVE  \A m \in page'[u].shown : msg'[m].here /\ u \in {msg'[m].from, msg'[m].to}
  <2>1. CASE page'[u].shown \in {page[u].shown, {}}
    BY <1>1, <1>3, <2>1
  <2>2. CASE \E f \in Fetches : f[1] = u /\ page'[u].shown = fetch[f].seen
    BY <1>1, <1>3, <2>2
  <2> QED BY <2>1, <2>2, SeenSteps
<1>5. ASSUME NEW f \in Fetches
      PROVE  \A m \in fetch'[f].seen : msg'[m].here /\ f[1] \in {msg'[m].from, msg'[m].to}
  <2>1. CASE fetch'[f].seen \in {fetch[f].seen, {}}
    BY <1>1, <1>3, <2>1
  <2>2. CASE \E t : fetch'[f].seen = Visible(f[1], t)
    BY <1>1, <1>2, <2>2
  <2> QED BY <2>1, <2>2, SeenSteps
<1> QED BY <1>4, <1>5 DEF SeenIsReal, Concerns

LEMMA SeenHolds == Spec => [](OwnIds /\ SeenIsReal)
<1>1. Init => OwnIds /\ SeenIsReal
  BY DEF Init, OwnIds, SeenIsReal, Concerns, IdleSend, NoPage, IdleFetch
<1> QED BY <1>1, OwnIdsSteps, SeenIsRealSteps, Invariance, PTL DEF Spec

(* Whoever has a message of somebody on their page answers in a thread that *)
(* is there already: the lookup of send_message finds that message at       *)
(* least, for any number of people who write at the same time.              *)
THEOREM AnswersJoin == Spec => AnswerJoinsThread
<1> DEFINE A == \A w \in Workers :
          LET r == send'[w].row IN
          /\ send[w].pc = "idle" /\ send'[w].pc = "gated"
          /\ r.from \in Readers /\ \E m \in page[r.from].shown : msg[m].from = r.to
          => \E m \in Here : msg[m].thread = r.thread
<1>1. Inv /\ SeenIsReal /\ [Next]_vars => [A]_vars
  <2> SUFFICES ASSUME Inv, SeenIsReal, Next, NEW w \in Workers,
                      send[w].pc = "idle", send'[w].pc = "gated",
                      send'[w].row.from \in Readers,
                      NEW m \in page[send'[w].row.from].shown,
                      msg[m].from = send'[w].row.to
               PROVE  \E n \in Here : msg[n].thread = send'[w].row.thread
    OBVIOUS
  <2>1. send' # send
    OBVIOUS
  <2>2. PICK x \in Workers, n \in Messages, u \in Users, v \in Users, k \in Kinds :
           SendMessage(x, u, v, n, k)
    <3>1. ASSUME NEW x \in Workers, Post(x) PROVE FALSE
      BY <3>1, RecordsTyped DEF Post, StoreFile, Enqueue, CommitMessage, Abort, Inv, TypeOK,
                                Send, Announced
    <3>2. First(Free) \subseteq Workers /\ First(Unused) \subseteq Messages
      BY DEF First, Free, Unused
    <3>3. ASSUME NEW u \in Readers, Browse(u) PROVE FALSE
      BY <2>1, <3>3 DEF Browse, OpenThread, CloseThread, ReadNotification, MarkAllRead
    <3>4. ASSUME NEW f \in Fetches, Poll(f) \/ FetchFails(f) PROVE FALSE
      BY <2>1, <3>4 DEF Poll, FetchSelect, FetchMark, FetchShow, FetchFails
    <3>5. ASSUME NEW y \in Messages, MailRuns(y) PROVE FALSE
      BY <2>1, <3>5 DEF MailRuns, MailAccepted, MailFails, MailRefused
    <3> QED BY <3>1, <3>2, <3>3, <3>4, <3>5 DEF Next
  <2>3. x = w
    BY <2>2 DEF SendMessage, Inv, TypeOK
  <2>4. PICK t \in ThreadFor(u, v, n) :
           send' = [send EXCEPT ![w] = [pc |-> "gated", id |-> n,
                row |-> [here |-> TRUE, from |-> u, to |-> v, thread |-> t,
                         about |-> k.about, file |-> k.file, read |-> FALSE]]]
    BY <2>2, <2>3 DEF SendMessage
  <2>5. send'[w].row.from = u /\ send'[w].row.to = v /\ send'[w].row.thread = t
    BY <2>4 DEF Inv, TypeOK
  <2>6. u # v /\ m \in Messages /\ msg[m].from = v /\ msg[m].here
        /\ u \in {msg[m].from, msg[m].to}
    BY <2>2, <2>5 DEF SendMessage, SeenIsReal, Concerns, Inv, TypeOK, Page
  <2>7. m \in Between(u, v)
    BY <2>6 DEF Between, Here
  <2>8. PICK y \in Between(u, v) : t = msg[y].thread
    BY <2>7 DEF ThreadFor
  <2> QED BY <2>5, <2>8 DEF Between
<1> QED BY <1>1, SeenHolds, Invariance, PTL DEF Spec, AnswerJoinsThread
=============================================================================
