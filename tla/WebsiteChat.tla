----------------------------- MODULE WebsiteChat -----------------------------
(***************************************************************************)
(* The chat of the website: the widget in a visitor's page                 *)
(* (widget/dsdst-chat.ts), the public API it polls                         *)
(* (server/public-chat/router.ts and service.ts) and the agents who        *)
(* answer.  The server keeps no connection: a reply gets to the page with  *)
(* the next poll of the session's conversation, and its status moves on    *)
(* the polls and the read requests of the page.                            *)
(*                                                                         *)
(* One page per visitor; the visitor id and the token survive a reload of  *)
(* it.  A request that is refused (quota, repeated text, validation) or    *)
(* repeated under its client id changes nothing and is left out, texts and *)
(* contexts too.  How a reply becomes SENT is module Outbox.               *)
(***************************************************************************)
EXTENDS Naturals, Sequences, FiniteSets, SequencesExt

CONSTANTS
  Visitors,
  Posts,     \* messages of visitors, by client_message_id
  Replies,   \* messages of agents
  PageSize,  \* messages in an answer, 100 for the widget
  None

ASSUME NamesAssumption ==
  /\ Posts \cap Replies = {}
  /\ None \notin Visitors \cup Posts \cup Replies \cup {"QUEUED", "SENT", "DELIVERED", "READ"}
ASSUME PageAssumption == PageSize \in Nat \ {0}

VARIABLES
  contact,  \* contact of a visitor's identity, None before its first message
  conv,     \* conversations, named after the post that opened them: contact, open, log
  recent,   \* conversations by last_message_at, the newest first
  status,   \* of the replies, None before they are queued
  session,  \* the session of a page's token: its conversation, and whether it is valid
  page,     \* the widget: what it shows, and its requests under way
  split,    \* contacts whose conversations an agent merged or reopened (history)
  shown     \* replies that some page has displayed (history)

hub  == <<contact, conv, recent, status, session>>
vars == <<hub, page, split, shown>>

-----------------------------------------------------------------------------
Convs    == DOMAIN conv
Log(c)   == ToSet(conv[c].log)
Made     == UNION {Log(c) : c \in Convs}
Fresh    == [open |-> FALSE, visible |-> TRUE, answer |-> None, seen |-> {}, pending |-> {}, ack |-> {}]
Live(v)  == session[v] # None /\ session[v].live
Current(v) == IF session[v] = None THEN None ELSE session[v].conv
Touch(c) == <<c>> \o RemoveFirst(recent, c)
Opened   == {c \in Convs : conv[c].open}
Newest(S) == recent[Min({n \in DOMAIN recent : recent[n] \in S})]

Init ==
  /\ contact = [v \in Visitors |-> None] /\ conv = <<>> /\ recent = <<>>
  /\ status = [h \in Replies |-> None]
  /\ session = [v \in Visitors |-> None] /\ page = [v \in Visitors |-> Fresh]
  /\ split = {} /\ shown = {}

-----------------------------------------------------------------------------
(* The visitor.                                                            *)

\* ensureSession, or createSession after a 401: the visitor id is kept, the conversation is not.
NewSession(v) ==
  /\ page[v].open /\ page[v].answer = None /\ ~Live(v)
  /\ session' = [session EXCEPT ![v] = [conv |-> None, live |-> TRUE]]
  /\ page' = [page EXCEPT ![v].ack = {}]
  /\ UNCHANGED <<contact, conv, recent, status, split, shown>>

\* The thirty days are over.
Expire(v) ==
  /\ Live(v) /\ session' = [session EXCEPT ![v].live = FALSE]
  /\ UNCHANGED <<contact, conv, recent, status, page, split, shown>>

MutFindOpenOfSession(v) == IF Current(v) \in Opened THEN Current(v) ELSE None
MutFindOpenOfAnyone(v) ==
  IF Current(v) \in Opened THEN Current(v)
  ELSE IF Opened = {} THEN None ELSE Newest(Opened)
\* findOpenConversation: the session's if it is open, else the visitor's newest open one.
FindOpen(v) ==
  LET mine == {c \in Opened : conv[c].contact = contact[v]} IN
  IF Current(v) \in Opened THEN Current(v)
  ELSE IF mine = {} THEN None ELSE Newest(mine)

\* ingestWebsiteMessage; whether the page gets the answer makes no difference here.
Post(v, p) ==
  /\ page[v].open /\ Live(v) /\ p \notin Made
  /\ LET owner == IF contact[v] = None THEN v ELSE contact[v]
         c     == IF FindOpen(v) = None THEN p ELSE FindOpen(v)
     IN
     /\ contact' = [contact EXCEPT ![v] = owner]
     /\ conv' = [d \in Convs \cup {c} |->
          IF d # c THEN conv[d]
          ELSE IF c \in Convs THEN [conv[c] EXCEPT !.log = Append(@, p)]
          ELSE [contact |-> owner, open |-> TRUE, log |-> <<p>>]]
     /\ recent' = Touch(c)
     /\ session' = [session EXCEPT ![v].conv = c]
  /\ UNCHANGED <<status, page, split, shown>>

-----------------------------------------------------------------------------
(* The page.                                                               *)

\* The latest PageSize messages.
Page(c) == ToSet(SubSeq(conv[c].log, IF Len(conv[c].log) > PageSize
                                     THEN Len(conv[c].log) - PageSize + 1 ELSE 1, Len(conv[c].log)))

MutServedWithPosts(v) == IF Current(v) = None THEN {} ELSE Page(Current(v))
\* The replies in the answer to GET /messages, whatever their status.
Served(v) == IF Current(v) = None THEN {} ELSE Replies \cap Page(Current(v))

MutFetched(s) == IF s = "SENT" THEN "READ" ELSE s
\* What a fetch makes of the status of every reply of the conversation, served or not.
Fetched(s) == IF s = "SENT" THEN "DELIVERED" ELSE s

\* loadMessages: the request, and its answer on the way.
Load(v) ==
  /\ page[v].open /\ page[v].answer = None /\ Live(v)
  /\ page' = [page EXCEPT ![v].answer = Served(v)]
  /\ status' = [h \in Replies |->
       IF Current(v) # None /\ h \in Log(Current(v)) THEN Fetched(status[h]) ELSE status[h]]
  /\ UNCHANGED <<contact, conv, recent, session, split, shown>>

\* The answer arrives: what is new is displayed, even if the panel was closed meanwhile,
\* and flushRead sends its read request if the document is visible.
Receive(v) ==
  /\ page[v].answer # None
  /\ LET new     == page[v].answer \ page[v].seen
         pending == page[v].pending \cup new
     IN
     /\ page' = [page EXCEPT ![v].answer = None, ![v].seen = @ \cup new, ![v].pending = pending,
                             ![v].ack = IF page[v].visible THEN pending ELSE @]
     /\ shown' = shown \cup new
  /\ UNCHANGED <<hub, split>>

LoadLost(v) ==
  /\ page[v].answer # None /\ page' = [page EXCEPT ![v].answer = None]
  /\ UNCHANGED <<hub, split, shown>>

\* POST /read: messages of the session's conversation that have an external id.
Read(v) ==
  IF ~Live(v) \/ Current(v) = None THEN {}
  ELSE {h \in page[v].ack \cap Log(Current(v)) : status[h] \in {"SENT", "DELIVERED"}}

\* The read request is handled; the page forgets its ids if it gets the answer and the
\* session is valid, also those the server passed over.
Acknowledge(v, answered) ==
  /\ page[v].ack # {}
  /\ status' = [h \in Replies |-> IF h \in Read(v) THEN "READ" ELSE status[h]]
  /\ page' = [page EXCEPT ![v].ack = {},
                          ![v].pending = IF answered /\ Live(v) THEN @ \ page[v].ack ELSE @]
  /\ UNCHANGED <<contact, conv, recent, session, split, shown>>

AcknowledgeLost(v) ==
  /\ page[v].ack # {} /\ page' = [page EXCEPT ![v].ack = {}]
  /\ UNCHANGED <<hub, split, shown>>

\* The button opens and closes the panel.
Toggle(v) ==
  /\ page' = [page EXCEPT ![v].open = ~@]
  /\ UNCHANGED <<hub, split, shown>>

\* visibilitychange.
Hide(v) ==
  /\ page[v].visible /\ page' = [page EXCEPT ![v].visible = FALSE]
  /\ UNCHANGED <<hub, split, shown>>

Show(v) ==
  /\ ~page[v].visible
  /\ page' = [page EXCEPT ![v].visible = TRUE,
                          ![v].ack = IF page[v].open THEN page[v].pending ELSE @]
  /\ UNCHANGED <<hub, split, shown>>

Reload(v) ==
  /\ page' = [page EXCEPT ![v] = Fresh]
  /\ UNCHANGED <<hub, split, shown>>

-----------------------------------------------------------------------------
(* The agents and the worker.                                              *)

\* queueReply sets the conversation to WAITING_CUSTOMER, also a closed one.
Reply(h, c) ==
  /\ status[h] = None
  /\ status' = [status EXCEPT ![h] = "QUEUED"]
  /\ conv' = [conv EXCEPT ![c].log = Append(@, h), ![c].open = TRUE]
  /\ recent' = Touch(c)
  /\ split' = IF conv[c].open THEN split ELSE split \cup {conv[c].contact}
  /\ UNCHANGED <<contact, session, page, shown>>

\* The worker's success transaction records the external id.
Sent(h) ==
  /\ status[h] = "QUEUED" /\ status' = [status EXCEPT ![h] = "SENT"]
  /\ UNCHANGED <<contact, conv, recent, session, page, split, shown>>

\* CLOSED, RESOLVED and SPAM on one side, all other statuses on the other.
SetStatus(c, open) ==
  /\ conv[c].open # open
  /\ conv' = [conv EXCEPT ![c].open = open]
  /\ split' = IF open THEN split \cup {conv[c].contact} ELSE split
  /\ UNCHANGED <<contact, recent, status, session, page, shown>>

\* Contact x is merged into y.
Merge(x, y) ==
  /\ x # y /\ {x, y} \subseteq {contact[v] : v \in Visitors} \ {None}
  /\ contact' = [v \in Visitors |-> IF contact[v] = x THEN y ELSE contact[v]]
  /\ conv' = [c \in Convs |-> IF conv[c].contact = x THEN [conv[c] EXCEPT !.contact = y] ELSE conv[c]]
  /\ split' = split \cup {y}
  /\ UNCHANGED <<recent, status, session, page, shown>>

-----------------------------------------------------------------------------
PageStep(v) ==
  \/ NewSession(v) \/ Load(v) \/ Receive(v) \/ LoadLost(v)
  \/ \E answered \in BOOLEAN : Acknowledge(v, answered)
  \/ AcknowledgeLost(v)

VisitorStep(v) ==
  \/ Expire(v) \/ Toggle(v) \/ Hide(v) \/ Show(v) \/ Reload(v)
  \/ \E p \in Posts : Post(v, p)

AgentStep ==
  \/ \E h \in Replies : Sent(h) \/ \E c \in Convs : Reply(h, c)
  \/ \E c \in Convs, open \in BOOLEAN : SetStatus(c, open)
  \/ \E x, y \in Visitors : Merge(x, y)

Next == AgentStep \/ \E v \in Visitors : PageStep(v) \/ VisitorStep(v)

Spec == Init /\ [][Next]_vars

\* An open panel polls, the worker sends, and the network does not lose every answer.
Fairness ==
  /\ \A h \in Replies : WF_vars(Sent(h))
  /\ \A v \in Visitors : WF_vars(NewSession(v)) /\ WF_vars(Load(v))
                         /\ SF_vars(Receive(v)) /\ SF_vars(Acknowledge(v, TRUE))
FairSpec == Spec /\ Fairness

-----------------------------------------------------------------------------
Threads == [contact : Visitors, open : BOOLEAN, log : Seq(Posts \cup Replies)]
Widgets == [open : BOOLEAN, visible : BOOLEAN, answer : {None} \cup SUBSET Replies,
            seen : SUBSET Replies, pending : SUBSET Replies, ack : SUBSET Replies]

TypeOK ==
  /\ contact \in [Visitors -> Visitors \cup {None}]
  /\ Convs \subseteq Posts /\ recent \in Seq(Posts) /\ ToSet(recent) = Convs
  /\ conv \in [Convs -> Threads]
  /\ status \in [Replies -> {None, "QUEUED", "SENT", "DELIVERED", "READ"}]
  /\ session \in [Visitors -> [conv : Convs \cup {None}, live : BOOLEAN] \cup {None}]
  /\ page \in [Visitors -> Widgets]
  /\ \A v \in Visitors : page[v].ack \cup page[v].pending \subseteq page[v].seen
  /\ split \subseteq Visitors /\ shown \subseteq Replies

\* A page shows and polls conversations of its visitor's contact and no other, whatever was
\* merged, closed or begun anew (findOpenConversation, and the join on the contact).
Isolation ==
  \A v \in Visitors, c \in Convs :
    c = Current(v) \/ Log(c) \cap page[v].seen # {} => conv[c].contact = contact[v]

\* A customer who writes has one open conversation, through expired sessions, lost answers
\* and closed threads; only an agent makes it two, by reopening one or merging contacts.
OneOpenConversation ==
  \A c, d \in Convs :
    conv[c].open /\ conv[d].open /\ conv[c].contact = conv[d].contact
      => c = d \/ conv[c].contact \in split

\* A reply that is READ was displayed in a page: a fetch whose answer was lost, a page that
\* was reloaded or a session begun anew does not make it so (POST /read, flushRead).
ReadWasShown == \A h \in Replies : status[h] = "READ" => h \in shown

Due(v, h) == page[v].open /\ Live(v) /\ Current(v) # None /\ h \in Page(Current(v))

\* A reply displayed in a visible panel is READ in the end (README.md: the read ACK of the
\* visible thread produces READ).
ShownIsRead ==
  \A v \in Visitors, h \in Replies :
    LET Watched == Due(v, h) /\ page[v].visible /\ h \in page[v].seen
    IN  Watched ~> (status[h] = "READ" \/ ~Watched)
=============================================================================
