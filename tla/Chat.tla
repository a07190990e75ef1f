------------------------------- MODULE Chat -------------------------------
(***************************************************************************)
(* One conversation: its members, the messages and how they reach the      *)
(* members' screens.  Sources: chat/service.py, chat/router.py,            *)
(* chat/websocket.py, notifications/service.py and, as external client,    *)
(* the chat page of frontend-c.                                            *)
(*                                                                         *)
(* A message gets its created_at when it is flushed and becomes visible    *)
(* when its transaction commits, so `at` orders messages by their stamp    *)
(* and not by their commit.  A crash loses an open transaction; the client *)
(* sends again with the same client_message_id.                            *)
(***************************************************************************)
EXTENDS Integers, FiniteSets

CONSTANTS
  People,      \* users
  Watchers,    \* users whose chat page is followed
  ChatFoes,    \* <<blocker, blocked>> pairs that may be blocked
  ClientKeys,  \* client message ids
  Sends,       \* send requests under way
  HistoryPage, \* messages on a page of the history (50 in the client)
  MaxMessages  \* bound: stamps given out

ASSUME ChatAssumption == Watchers \subseteq People /\ MaxMessages \in Nat

VARIABLES
  chatKind, \* "none", "direct" or "group"
  ended,    \* the group's plan is completed
  seat,     \* conversation_members
  foes,     \* user_blocks between two people of the conversation
  log,      \* committed messages
  stamp,    \* the next created_at
  sends,    \* send requests
  screen    \* each person's chat page

chatVars == <<chatKind, ended, seat, foes, log, stamp, sends, screen>>

Stamps == 0..MaxMessages

NotSending == [phase |-> "idle"]

SendPhases == {NotSending} \cup [phase : {"checked"}, by : People, key : ClientKeys]
  \cup [phase : {"flushed", "stored"}, by : People, key : ClientKeys, at : Stamps]

ChatTypeOK ==
  /\ chatKind \in {"none", "direct", "group"} /\ ended \in BOOLEAN
  /\ seat \in [People -> [state : {"none", "in", "left"}, joined : Stamps, read : Stamps]]
  /\ foes \subseteq ChatFoes
  /\ log \subseteq [by : People, key : ClientKeys, at : Stamps]
  /\ stamp \in 1..MaxMessages + 1
  /\ sends \in [Sends -> SendPhases]
  /\ screen \in [Watchers -> [socket : {"off", "on"}, again : BOOLEAN, shown : SUBSET Stamps]]

Empty == [state |-> "none", joined |-> 0, read |-> 0]

ChatInit ==
  /\ chatKind \in {"none", "group"} /\ ended = FALSE
  /\ seat = [u \in People |-> Empty]
  /\ foes = {} /\ log = {} /\ stamp = 1
  /\ sends = [r \in Sends |-> NotSending]
  /\ screen = [u \in Watchers |-> [socket |-> "off", again |-> FALSE, shown |-> {}]]

In(u) == seat[u].state = "in"

ChatBlocked(u, v) == <<u, v>> \in foes \/ <<v, u>> \in foes

Latest(ms) == CHOOSE m \in ms : \A n \in ms : n.at =< m.at

----------------------------------------------------------------------------
(* Members *)

OpenDirect(u, v) ==
  /\ chatKind = "none" /\ u # v /\ ~ChatBlocked(u, v)
  /\ chatKind' = "direct"
  /\ seat' = [w \in People |-> IF w \in {u, v} THEN [Empty EXCEPT !.state = "in"] ELSE Empty]
  /\ UNCHANGED <<ended, foes, log, stamp, sends, screen>>

\* Acceptance lets a member in, for the first time or again.
ActivateSeat(u) ==
  /\ chatKind = "group" /\ ~In(u)
  /\ seat' = [seat EXCEPT ![u].state = "in", ![u].joined = stamp - 1]
  /\ UNCHANGED <<chatKind, ended, foes, log, stamp, sends, screen>>

LeaveConversation(u) ==
  /\ In(u)
  /\ seat' = [seat EXCEPT ![u].state = "left"]
  /\ UNCHANGED <<chatKind, ended, foes, log, stamp, sends, screen>>

CompletePlan ==
  /\ chatKind = "group" /\ ~ended /\ ended' = TRUE
  /\ UNCHANGED <<chatKind, seat, foes, log, stamp, sends, screen>>

\* A block says nothing in a group.
BlockUser(f) ==
  /\ chatKind # "group" /\ f \notin foes /\ foes' = foes \cup {f}
  /\ UNCHANGED <<chatKind, ended, seat, log, stamp, sends, screen>>

UnblockUser(f) ==
  /\ f \in foes /\ foes' = foes \ {f}
  /\ UNCHANGED <<chatKind, ended, seat, log, stamp, sends, screen>>

----------------------------------------------------------------------------
(* Sending *)

Twin(u, k) == \E m \in log : m.by = u /\ m.key = k

MaySend(u) ==
  /\ In(u)
  /\ chatKind = "group" => ~ended
  /\ chatKind = "direct" => \A v \in People \ {u} : In(v) => ~ChatBlocked(u, v)

\* A repeated message is answered with the stored one and goes no further.
Check(r, u, k) ==
  /\ sends[r] = NotSending /\ ~Twin(u, k) /\ MaySend(u)
  /\ sends' = [sends EXCEPT ![r] = [phase |-> "checked", by |-> u, key |-> k]]
  /\ UNCHANGED <<chatKind, ended, seat, foes, log, stamp, screen>>

\* Another transaction holds the unique key: the insert waits for it.
KeyHeld(r) == \E s \in Sends \ {r} :
  sends[s].phase = "flushed" /\ sends[s].by = sends[r].by /\ sends[s].key = sends[r].key

\* Mutant of UniqueKey: no unique index on the client's message id.
NoUniqueKey(r) == TRUE

UniqueKey(r) == ~KeyHeld(r) /\ ~Twin(sends[r].by, sends[r].key)

Flush(r) ==
  /\ sends[r].phase = "checked" /\ UniqueKey(r)
  /\ stamp =< MaxMessages
  /\ stamp' = stamp + 1
  /\ sends' = [sends EXCEPT ![r] = [phase |-> "flushed", by |-> sends[r].by, key |-> sends[r].key, at |-> stamp]]
  /\ UNCHANGED <<chatKind, ended, seat, foes, log, screen>>

\* IntegrityError: the twin was stored meanwhile and is the answer.
FlushTwin(r) ==
  /\ sends[r].phase = "checked" /\ Twin(sends[r].by, sends[r].key)
  /\ sends' = [sends EXCEPT ![r] = NotSending]
  /\ UNCHANGED <<chatKind, ended, seat, foes, log, stamp, screen>>

StoreMessage(r) ==
  /\ sends[r].phase = "flushed"
  /\ log' = log \cup {[by |-> sends[r].by, key |-> sends[r].key, at |-> sends[r].at]}
  /\ sends' = [sends EXCEPT ![r].phase = "stored"]
  /\ UNCHANGED <<chatKind, ended, seat, foes, stamp, screen>>

\* The process or the database connection is lost.
Abort(r) ==
  /\ sends[r].phase \in {"checked", "flushed", "stored"}
  /\ sends' = [sends EXCEPT ![r] = NotSending]
  /\ UNCHANGED <<chatKind, ended, seat, foes, log, stamp, screen>>

Deliver(r, to) ==
  /\ sends[r].phase = "stored"
  /\ screen' = [u \in Watchers |-> IF u \in to THEN [screen[u] EXCEPT !.shown = @ \cup {sends[r].at}] ELSE screen[u]]
  /\ sends' = [sends EXCEPT ![r] = NotSending]
  /\ UNCHANGED <<chatKind, ended, seat, foes, log, stamp>>

\* Redis brings the event to the subscribed sockets; the response to the
\* sender.  A failed publish is logged and forgotten.
PublishMessage(r) ==
  \/ Deliver(r, {u \in Watchers : screen[u].socket = "on"} \cup {sends[r].by})
  \/ Deliver(r, {sends[r].by})

----------------------------------------------------------------------------
(* Reading *)

\* The page of the history that follows the cursor.
Visible(cursor) ==
  LET rest == {m \in log : m.at > cursor} IN
  {m \in rest : Cardinality({n \in rest : n.at < m.at}) < HistoryPage}

\* Mutant of ReadUpTo: the last message of the page is marked, not the newest.
ReadUpToPage(cursor) == Latest(Visible(cursor)).at

ReadUpTo(cursor) == Latest(log).at

ListMessages(u, cursor) ==
  /\ In(u)
  /\ seat' = IF Visible(cursor) = {} THEN seat ELSE [seat EXCEPT ![u].read = ReadUpTo(cursor)]
  /\ screen' = IF u \notin Watchers THEN screen
               ELSE [screen EXCEPT ![u].shown = @ \cup {m.at : m \in Visible(cursor)}, ![u].again = FALSE]
  /\ UNCHANGED <<chatKind, ended, foes, log, stamp, sends>>

UnreadAfter(u) == IF seat[u].read # 0 THEN seat[u].read ELSE seat[u].joined

\* What the list of conversations counts ...
Unread(u) == {m \in log : m.by # u /\ m.at > UnreadAfter(u)}

\* ... and what the bell sums up: only groups the user is still in.
GroupUnread(u) == IF chatKind = "group" /\ In(u) THEN Cardinality(Unread(u)) ELSE 0

----------------------------------------------------------------------------
(* The chat page *)

\* The ticket is used up, the membership read and the channel subscribed; who
\* leaves later keeps the socket.
Connect(u) ==
  /\ In(u) /\ screen[u].socket = "off"
  /\ screen' = [screen EXCEPT ![u].socket = "on"]
  /\ UNCHANGED <<chatKind, ended, seat, foes, log, stamp, sends>>

Disconnect(u) ==
  /\ screen[u].socket = "on"
  /\ screen' = [screen EXCEPT ![u].socket = "off", ![u].again = TRUE]
  /\ UNCHANGED <<chatKind, ended, seat, foes, log, stamp, sends>>

\* The page reloads its history when a lost connection is back.
Recover(u) == screen[u].socket = "on" /\ screen[u].again /\ ListMessages(u, 0)

----------------------------------------------------------------------------
MembersChange ==
  \/ CompletePlan
  \/ \E u \in People : ActivateSeat(u) \/ LeaveConversation(u)
  \/ \E u, v \in People : OpenDirect(u, v)
  \/ \E f \in ChatFoes : BlockUser(f) \/ UnblockUser(f)

Sending == \E r \in Sends :
  \/ \E u \in People, k \in ClientKeys : Check(r, u, k)
  \/ Flush(r) \/ FlushTwin(r) \/ StoreMessage(r) \/ Abort(r) \/ PublishMessage(r)

Reading ==
  \/ \E u \in People, cursor \in Stamps : ListMessages(u, cursor)
  \/ \E u \in Watchers : Connect(u) \/ Disconnect(u) \/ Recover(u)

ChatNext == MembersChange \/ Sending \/ Reading

ChatSpec == ChatInit /\ [][ChatNext]_chatVars

----------------------------------------------------------------------------
\* However often a client repeats a send, in parallel, after a lost answer or
\* a crash, the conversation holds one message for it (create_message).
SentOnce == \A m, n \in log : m.by = n.by /\ m.key = n.key => m = n

\* Reading any page of the history leaves nothing of what is stored unread:
\* the bell goes out until the next message (plan of the group chat: "Opening
\* that group clears its unread count").
OpeningClears ==
  [][\A u \in People : (\E cursor \in Stamps : ListMessages(u, cursor) /\ Visible(cursor) # {})
       => Unread(u)' = {} /\ GroupUnread(u)' = 0]_chatVars
=============================================================================
